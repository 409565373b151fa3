--------------------------- MODULE OrderedDelivery ---------------------------
(***************************************************************************)
(* What the event service promises every view of a Conversation: the       *)
(* events it has shown are the oldest ones, each shown once and in the     *)
(* order of their sequence numbers, however often the connection is lost   *)
(* and the server restarted.  EventLog implements this specification.      *)
(***************************************************************************)
EXTENDS Integers

CONSTANT Clients

VARIABLES
  published,  \* sequence of the newest event
  shown       \* the events each client shows

vars == <<published, shown>>

Init == published = 0 /\ shown = [b \in Clients |-> {}]

Publish ==
  /\ published' = published + 1
  /\ UNCHANGED shown

\* The oldest event not shown yet
Show(b) ==
  /\ \E n \in 1 .. published :
       /\ shown[b] = 1 .. (n - 1)
       /\ shown' = [shown EXCEPT ![b] = 1 .. n]
  /\ UNCHANGED published

\* The page is loaded again and starts from nothing.
Reload(b) ==
  /\ shown' = [shown EXCEPT ![b] = {}]
  /\ UNCHANGED published

Next == Publish \/ \E b \in Clients : Show(b) \/ Reload(b)

Spec == Init /\ [][Next]_vars
====
