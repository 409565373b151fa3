------------------------------- MODULE Rescue -------------------------------
(***************************************************************************)
(* run_rescue: one fixed identity that asks the provider through the       *)
(* investigation graph in three smokes.  Its ceiling is counted in memory; *)
(* what makes it hold over restarts is that an identity whose ledger file  *)
(* holds any event is never executed again.                                *)
(*                                                                         *)
(* Abstracted: the investigation after the selector's reply (the reads,    *)
(* the trace, the acceptance contract beyond its count of calls), the kind *)
(* of a provider failure, the digests and hashes.  One command at a time,  *)
(* which may die between any two steps; a line it was writing or a report  *)
(* cut off refuses the next start as a whole one does.  RescueSent is a    *)
(* ghost that counts the calls that left.                                  *)
(***************************************************************************)
EXTENDS Integers, FiniteSetsExt

CONSTANTS RescueCeiling, MaxRescueStarts

ASSUME RescueConstants == RescueCeiling \in Nat /\ MaxRescueStarts \in Nat

Smokes == 1..3

(* The smokes whose acceptance contract allows exactly one provider call. *)
SingleCall == {1, 3}

VARIABLES
    rescue,         \* the command: where it is, its smoke, its budget, its results
    rescueLedger,   \* the file: whether it has an event, admitted calls by smoke
    rescueReport,   \* smoke-summary.json
    rescueSent, rescueStarts

rescueVars == <<rescue, rescueLedger, rescueReport, rescueSent, rescueStarts>>

NoSmoke == [at |-> "down", smoke |-> 1, attempts |-> 0, fellBack |-> FALSE,
            results |-> [s \in Smokes |-> "none"]]

RescueInit ==
    /\ rescue = NoSmoke
    /\ rescueLedger = [bound |-> FALSE, admitted |-> [s \in Smokes |-> 0]]
    /\ rescueReport = [status |-> "none", calls |-> 0]
    /\ rescueSent = [s \in Smokes |-> 0]
    /\ rescueStarts = 0

TotalOf(calls) == LET of(s) == calls[s] IN MapThenSumSet(of, Smokes)

RescueWorks == rescue.at \notin {"down", "refused", "done"}

(* Variant: only a finished report refuses a second execution. *)
AlreadyExecutedReportOnly == rescueReport.status # "none"

(* The two refusals at the head of run_rescue. *)
AlreadyExecuted == rescueReport.status # "none" \/ rescueLedger.bound

(* run_rescue_preflight: the smokes are run, or all of them are blocked. *)
Preflighted ==
    \/ rescue' = [NoSmoke EXCEPT !.at = "select"]
    \/ rescue' = [NoSmoke EXCEPT !.at = "report", !.results = [s \in Smokes |-> "blocked"]]

(* The refusals, then the events that bind the manifest and the preflight. *)
StartRescue ==
    /\ ~RescueWorks /\ rescueStarts < MaxRescueStarts
    /\ rescueStarts' = rescueStarts + 1
    /\ IF AlreadyExecuted
       THEN rescue' = [NoSmoke EXCEPT !.at = "refused"] /\ UNCHANGED rescueLedger
       ELSE /\ rescueLedger' = [rescueLedger EXCEPT !.bound = TRUE]
            /\ Preflighted
    /\ UNCHANGED <<rescueReport, rescueSent>>

(* The tail of _run_smoke and of the loop over the smokes.  Only the first
   smoke, and only a failure before any response, blocks the others. *)
EndSmoke(status, early) ==
    LET smoke == rescue.smoke
        results == [s \in Smokes |->
                      IF s = smoke THEN status
                      ELSE IF s > smoke /\ smoke = 1 /\ early THEN "blocked"
                      ELSE rescue.results[s]]
    IN  rescue' = [rescue EXCEPT !.results = results, !.fellBack = FALSE,
                     !.at = IF "none" \in {results[s] : s \in Smokes}
                            THEN "select" ELSE "report",
                     !.smoke = IF @ = 3 THEN 3 ELSE @ + 1]

(* RescueProviderInvocationObserver.invoke up to the call, which the fallback
   to the JSON transport goes through as well. *)
AdmitRescueCall ==
    /\ rescue.at = "select"
    /\ IF rescue.attempts >= RescueCeiling
       THEN EndSmoke("failed", TRUE) /\ UNCHANGED rescueLedger
       ELSE /\ rescueLedger' = [rescueLedger EXCEPT !.admitted[rescue.smoke] = @ + 1]
            /\ rescue' = [rescue EXCEPT !.at = "call", !.attempts = @ + 1]
    /\ UNCHANGED <<rescueReport, rescueSent, rescueStarts>>

SendRescueCall ==
    /\ rescue.at = "call"
    /\ rescueSent' = [rescueSent EXCEPT ![rescue.smoke] = @ + 1]
    /\ rescue' = [rescue EXCEPT !.at = "wait"]
    /\ UNCHANGED <<rescueLedger, rescueReport, rescueStarts>>

(* A provider error or timeout. *)
RescueProviderFails ==
    /\ rescue.at = "wait"
    /\ EndSmoke("failed", TRUE)
    /\ UNCHANGED <<rescueLedger, rescueReport, rescueSent, rescueStarts>>

(* A response without a valid candidate is asked for once more as JSON. *)
RescueSchemaFailure ==
    /\ rescue.at = "wait"
    /\ \/ ~rescue.fellBack
          /\ rescue' = [rescue EXCEPT !.at = "select", !.fellBack = TRUE]
       \/ EndSmoke("failed", FALSE)
    /\ UNCHANGED <<rescueLedger, rescueReport, rescueSent, rescueStarts>>

(* The validator refuses the candidate: the graph selects again. *)
RescueCandidateRefused ==
    /\ rescue.at = "wait"
    /\ rescue' = [rescue EXCEPT !.at = "select"]
    /\ UNCHANGED <<rescueLedger, rescueReport, rescueSent, rescueStarts>>

(* The candidate is accepted and the investigation ends; the acceptance
   contract of the smoke decides, if its trace can be read. *)
RescueCandidateAccepted ==
    /\ rescue.at = "wait"
    /\ \/ /\ rescue.smoke \in SingleCall => rescueLedger.admitted[rescue.smoke] = 1
          /\ EndSmoke("passed", FALSE)
       \/ \E early \in BOOLEAN : EndSmoke("failed", early)
    /\ UNCHANGED <<rescueLedger, rescueReport, rescueSent, rescueStarts>>

(* Any other exception of the runtime. *)
RescueRunFails ==
    /\ rescue.at = "select"
    /\ EndSmoke("failed", TRUE)
    /\ UNCHANGED <<rescueLedger, rescueReport, rescueSent, rescueStarts>>

WriteRescueReport ==
    /\ rescue.at = "report"
    /\ rescueReport' =
          [status |-> IF \A s \in Smokes : rescue.results[s] = "passed" THEN "GO" ELSE "NO_GO",
           calls |-> TotalOf(rescueLedger.admitted)]
    /\ rescue' = [rescue EXCEPT !.at = "done"]
    /\ UNCHANGED <<rescueLedger, rescueSent, rescueStarts>>

CrashRescue ==
    /\ RescueWorks
    /\ rescue' = NoSmoke
    /\ UNCHANGED <<rescueLedger, rescueReport, rescueSent, rescueStarts>>

RescueNext ==
    \/ StartRescue \/ AdmitRescueCall \/ SendRescueCall
    \/ RescueProviderFails \/ RescueSchemaFailure \/ RescueCandidateRefused
    \/ RescueCandidateAccepted \/ RescueRunFails
    \/ WriteRescueReport \/ CrashRescue

-----------------------------------------------------------------------------
(* Over all executions and crashes the identity makes no more calls than its
   ceiling, although the counter lives in one process; its report counts at
   least the calls that were made; and a GO rests on three smokes, the first
   and the third of which asked the provider exactly once. *)
RescueKeepsBudget ==
    /\ TotalOf(rescueSent) <= RescueCeiling
    /\ rescueReport.status # "none" => rescueReport.calls >= TotalOf(rescueSent)
    /\ rescueReport.status = "GO" =>
          /\ \A s \in Smokes : rescueSent[s] > 0
          /\ \A s \in SingleCall : rescueSent[s] = 1

=============================================================================
