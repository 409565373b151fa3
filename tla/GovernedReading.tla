-------------------------- MODULE GovernedReading --------------------------
(***************************************************************************)
(* What the tool governance promises to the sources of one Case: at most   *)
(* MaxReads reads, and for one query at one revision of its source one     *)
(* read, or a second one when the first failed for the moment.             *)
(***************************************************************************)
EXTENDS Naturals, FiniteSets

CONSTANT MaxReads

VARIABLE history    \* the reads, as records of query, source and status

SameQuery(r, s) == r.tool = s.tool /\ r.issue = s.issue /\ r.source = s.source

Init == history = {}

(* What may be asked again: nothing that was answered, and nothing twice. *)
MayRead(r) ==
    LET earlier == {s \in history : SameQuery(r, s)}
    IN  /\ Cardinality(earlier) < 2
        /\ \A s \in earlier : s.status = "retryable_error"

Read ==
    /\ Cardinality(history) < MaxReads
    /\ \E r \in history' \ history :
          MayRead(r) /\ history' = history \cup {r}

Spec == Init /\ [][Read]_history
=============================================================================
