---------------------------- MODULE TicketPromise ----------------------------
(***************************************************************************)
(* What the service promises a customer about logistics tickets, whatever  *)
(* retries, concurrent requests and restarts happen on the way: a ticket   *)
(* is offered before it is written, written only after the customer        *)
(* accepted, written at most once, an acceptance is never asked for twice, *)
(* and a Case that is over says truthfully whether there is a ticket.      *)
(* CaseLifecycle implements this specification.                            *)
(***************************************************************************)
CONSTANT Cases

VARIABLES
  stage,     \* how far the customer's Case is
  ticketed   \* the Cases for which a ticket exists

vars == <<stage, ticketed>>

Stages == {"none", "open", "offered", "accepted", "fulfilled", "dropped"}

TypeOK == stage \in [Cases -> Stages] /\ ticketed \subseteq Cases

Init == stage = [k \in Cases |-> "none"] /\ ticketed = {}

Move(k, from, to) ==
  /\ stage[k] \in from
  /\ stage' = [stage EXCEPT ![k] = to]

Open(k) == Move(k, {"none"}, "open") /\ UNCHANGED ticketed

Offer(k) == Move(k, {"open"}, "offered") /\ UNCHANGED ticketed

Withdraw(k) == Move(k, {"offered"}, "open") /\ UNCHANGED ticketed

Accept(k) == Move(k, {"offered"}, "accepted") /\ UNCHANGED ticketed

WriteTicket(k) ==
  /\ stage[k] = "accepted" /\ k \notin ticketed
  /\ ticketed' = ticketed \cup {k}
  /\ UNCHANGED stage

Fulfil(k) ==
  /\ k \in ticketed
  /\ Move(k, {"accepted"}, "fulfilled")
  /\ UNCHANGED ticketed

\* Declined, resolved without a ticket, handed to a human or failed
Drop(k) ==
  /\ k \notin ticketed
  /\ Move(k, {"open", "offered", "accepted"}, "dropped")
  /\ UNCHANGED ticketed

Next ==
  \E k \in Cases :
    \/ Open(k) \/ Offer(k) \/ Withdraw(k) \/ Accept(k)
    \/ WriteTicket(k) \/ Fulfil(k) \/ Drop(k)

Spec == Init /\ [][Next]_vars
====
