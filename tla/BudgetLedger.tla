---------------------------- MODULE BudgetLedger ----------------------------
(***************************************************************************)
(* DevelopmentBudgetLedger: the append-only file that admits provider      *)
(* calls of one execution identity, as operators on its content.  Every    *)
(* operator is one critical section under the file lock.                   *)
(*                                                                         *)
(* ledger:  [calls |-> function from <<run, turn>> to [status, tokens],    *)
(*           stop  |-> reason of the last stop event, or "none"]           *)
(* binding: [ceiling, perRun, threshold]; threshold 0 stands for None      *)
(* Tokens that the provider did not report are Unreported.                 *)
(***************************************************************************)
EXTENDS Integers, FiniteSets, FiniteSetsExt

Unreported == -1

EmptyLedger == [calls |-> <<>>, stop |-> "none"]

Reasons == {"provider_budget_exhausted", "provider_invocation_incomplete",
            "token_threshold_exhausted", "token_usage_unavailable"}

Invocations(l) == DOMAIN l.calls
InvocationsOf(l, run) == {i \in Invocations(l) : i[1] = run}
Pending(l) == {i \in Invocations(l) : l.calls[i].status = "admitted"}
Terminal(l) == Invocations(l) \ Pending(l)
Reported(l) == {i \in Terminal(l) : l.calls[i].tokens # Unreported}

UsageComplete(l) == Pending(l) = {} /\ Reported(l) = Terminal(l)

Tokens(l) == LET tokens(i) == l.calls[i].tokens IN MapThenSumSet(tokens, Reported(l))

ThresholdExhausted(b, l) ==
    b.threshold > 0 /\ UsageComplete(l) /\ Reported(l) # {} /\ Tokens(l) >= b.threshold

(* The part of _rebuild that derives the stop reason. *)
StopReason(b, l) ==
    LET derived ==
          IF Pending(l) # {} THEN "provider_invocation_incomplete"
          ELSE IF ThresholdExhausted(b, l) THEN "token_threshold_exhausted"
          ELSE IF b.threshold > 0 /\ ~UsageComplete(l) THEN "token_usage_unavailable"
          ELSE l.stop
    IN  IF derived = "none" /\ Cardinality(Invocations(l)) >= b.ceiling
        THEN "provider_budget_exhausted" ELSE derived

Remaining(b, l) ==
    IF Cardinality(Invocations(l)) >= b.ceiling THEN 0
    ELSE b.ceiling - Cardinality(Invocations(l))

(* Variant: a stop that the ledger derives or keeps does not deny a call. *)
AdmissionIgnoringStops(b, l, run, turn) ==
    IF <<run, turn>> \in Invocations(l) THEN "replay_invocation_already_consumed"
    ELSE IF Cardinality(InvocationsOf(l, run)) >= b.perRun THEN "provider_budget_exhausted"
    ELSE "admitted"

(* The answer of admit_provider_call. *)
Admission(b, l, run, turn) ==
    IF <<run, turn>> \in Invocations(l) THEN "replay_invocation_already_consumed"
    ELSE IF StopReason(b, l) # "none" THEN StopReason(b, l)
    ELSE IF Cardinality(Invocations(l)) >= b.ceiling THEN "provider_budget_exhausted"
    ELSE IF Cardinality(InvocationsOf(l, run)) >= b.perRun THEN "provider_budget_exhausted"
    ELSE "admitted"

Admit(l, run, turn) ==
    [l EXCEPT !.calls = [i \in DOMAIN @ \cup {<<run, turn>>} |->
        IF i = <<run, turn>> THEN [status |-> "admitted", tokens |-> Unreported] ELSE @[i]]]

(* The denials after which the observer persists the stop for every run. *)
IsGlobalStop(b, l, reason) ==
    \/ reason \in Reasons \ {"provider_budget_exhausted"}
    \/ reason = "provider_budget_exhausted" /\ Remaining(b, l) = 0

(* force_stop_reason *)
ForceStop(b, l, reason) ==
    IF StopReason(b, l) = reason THEN l ELSE [l EXCEPT !.stop = reason]

(* complete_provider_call: a terminal call stays as it is; a stop that the
   completion brings about is persisted. *)
Complete(b, l, run, turn, status, tokens) ==
    IF <<run, turn>> \notin Pending(l) THEN l
    ELSE LET done == [l EXCEPT !.calls[<<run, turn>>] = [status |-> status, tokens |-> tokens]]
             reason == StopReason(b, done)
         IN  IF reason \in {"none", StopReason(b, l)} THEN done
             ELSE [done EXCEPT !.stop = reason]

(* The constructor: a call left pending is a stop, persisted unless the file
   has a stop event already. *)
Reopen(b, l) ==
    IF StopReason(b, l) = "provider_invocation_incomplete" /\ l.stop = "none"
    THEN [l EXCEPT !.stop = "provider_invocation_incomplete"] ELSE l

(* accounting_for: the calls of one run, whichever process made them. *)
AttemptedBy(l, run) == Cardinality(InvocationsOf(l, run))
Attempted(l) == Cardinality(Invocations(l))

=============================================================================
