---------------------------- MODULE Diagnostics -----------------------------
(***************************************************************************)
(* run_live_selector_diagnostics: every input of the diagnostic manifest   *)
(* is put to the live selector, at most twice, until it passes its         *)
(* boundary.  The ledger file is all that the command remembers: it is     *)
(* read again at every start, whose report is returned and never saved.    *)
(*                                                                         *)
(* Abstracted: why a boundary fails, the projection of the response, the   *)
(* token usage.  One command at a time; it may be started at another       *)
(* source revision, and with another manifest in the working tree, and may *)
(* die between any two steps.  diagSent (calls that left) is a ghost.      *)
(***************************************************************************)
EXTENDS Integers, FiniteSetsExt

CONSTANTS
    Inputs,          \* inputs of the manifest, in the order of their numbers
    DiagCeiling,     \* DIAGNOSTIC_MAX_CALLS
    MaxAttempts,     \* DIAGNOSTIC_MAX_ATTEMPTS_PER_INPUT
    Revisions, Manifests,
    MaxDiagStarts

ASSUME DiagnosticConstants ==
    /\ Inputs \subseteq Nat /\ IsFiniteSet(Inputs)
    /\ DiagCeiling \in Nat /\ MaxAttempts \in Nat
    /\ MaxDiagStarts \in Nat

VARIABLES
    diagLedger,  \* admitted calls by input, manifests bound by revision,
                 \* passed boundaries <<input, revision, manifest>>
    diag,        \* the command
    diagSent, diagStarts

diagVars == <<diagLedger, diag, diagSent, diagStarts>>

NoDiag == [at |-> "down", pass |-> 1, todo |-> {}, failed |-> {}, passed |-> {},
           input |-> 0, revision |-> 0, manifest |-> 0]

DiagInit ==
    /\ diagLedger = [admitted |-> [i \in Inputs |-> 0],
                     bound |-> [r \in Revisions |-> {}], passes |-> {}]
    /\ diag = NoDiag
    /\ diagSent = [i \in Inputs |-> 0]
    /\ diagStarts = 0

Admissions == LET of(i) == diagLedger.admitted[i] IN MapThenSumSet(of, Inputs)

DiagWorks == diag.at \notin {"down", "blocked", "failed", "passed"}

(* Variant: an input that passed at any revision needs no retry. *)
PassedAtAnyRevision(revision) ==
    {i \in Inputs : \E pass \in diagLedger.passes : pass[1] = i}

(* _diagnostic_passed_ids *)
PassedIds(revision) ==
    {i \in Inputs : \E pass \in diagLedger.passes : pass[1] = i /\ pass[2] = revision}

(* The head of _run_live_selector_diagnostics: an invalid configuration and a
   second manifest at one revision are blocked; nothing is asked again when
   all inputs have passed, or when the ceiling is reached. *)
StartDiagnostics ==
    /\ ~DiagWorks /\ diagStarts < MaxDiagStarts
    /\ diagStarts' = diagStarts + 1
    /\ \E revision \in Revisions, manifest \in Manifests, configured \in BOOLEAN :
        LET bound == diagLedger.bound[revision]
            start(at, passed) ==
                diag' = [NoDiag EXCEPT !.at = at, !.passed = passed, !.todo = Inputs \ passed,
                           !.revision = revision, !.manifest = manifest]
        IN  IF ~configured \/ (bound # {} /\ bound # {manifest})
            THEN start("blocked", {}) /\ UNCHANGED diagLedger
            ELSE /\ diagLedger' = [diagLedger EXCEPT !.bound[revision] = {manifest}]
                 /\ LET passed == PassedIds(revision)
                    IN  IF passed = Inputs THEN start("passed", passed)
                        ELSE IF Admissions >= DiagCeiling THEN start("failed", passed)
                        ELSE start("next", passed)
    /\ UNCHANGED diagSent

(* The head of either loop.  The first puts every input that has not passed
   and keeps those that fail for the second; both end at the ceiling, of
   which the first asks only after a call. *)
NextInput ==
    /\ diag.at = "next"
    /\ LET input == Min(diag.todo)
           rest == diag.todo \ {input}
           exhausted == diagLedger.admitted[input] >= MaxAttempts
           full == Admissions >= DiagCeiling
       IN  diag' =
             IF diag.todo = {} /\ diag.pass = 1
               THEN [diag EXCEPT !.pass = 2, !.todo = diag.failed]
             ELSE IF diag.todo = {} \/ (diag.pass = 2 /\ full)
               THEN [diag EXCEPT !.at = "verdict"]
             ELSE IF exhausted
               THEN [diag EXCEPT !.todo = rest, !.failed = @ \cup {input}]
             ELSE [diag EXCEPT !.at = "admit", !.input = input, !.todo = rest]
    /\ UNCHANGED <<diagLedger, diagSent, diagStarts>>

(* _DiagnosticInvocationObserver.invoke up to the call; the observer counted
   the admissions of all inputs when it was built. *)
AdmitDiagnostic ==
    /\ diag.at = "admit"
    /\ IF Admissions >= DiagCeiling
       THEN /\ diag' = [diag EXCEPT !.at = "next", !.failed = @ \cup {diag.input}]
            /\ UNCHANGED diagLedger
       ELSE /\ diagLedger' = [diagLedger EXCEPT !.admitted[diag.input] = @ + 1]
            /\ diag' = [diag EXCEPT !.at = "call"]
    /\ UNCHANGED <<diagSent, diagStarts>>

SendDiagnostic ==
    /\ diag.at = "call"
    /\ diagSent' = [diagSent EXCEPT ![diag.input] = @ + 1]
    /\ diag' = [diag EXCEPT !.at = "wait"]
    /\ UNCHANGED <<diagLedger, diagStarts>>

(* The answer, or its failure, and the boundary event. *)
Boundary ==
    /\ diag.at = "wait"
    /\ \E passed \in BOOLEAN :
        /\ diagLedger' = IF passed
              THEN [diagLedger EXCEPT !.passes = @ \cup
                      {<<diag.input, diag.revision, diag.manifest>>}]
              ELSE diagLedger
        /\ LET ended == diag.pass = 1 /\ Admissions >= DiagCeiling
           IN  diag' = [diag EXCEPT !.at = "next",
                          !.todo = IF ended THEN {} ELSE @,
                          !.passed = IF passed THEN @ \cup {diag.input} ELSE @,
                          !.failed = IF passed THEN @ ELSE @ \cup {diag.input}]
    /\ UNCHANGED <<diagSent, diagStarts>>

Verdict ==
    /\ diag.at = "verdict"
    /\ diag' = [diag EXCEPT !.at = IF diag.passed = Inputs THEN "passed" ELSE "failed"]
    /\ UNCHANGED <<diagLedger, diagSent, diagStarts>>

CrashDiagnostics ==
    /\ DiagWorks
    /\ diag' = NoDiag
    /\ UNCHANGED <<diagLedger, diagSent, diagStarts>>

DiagNext ==
    \/ StartDiagnostics \/ NextInput \/ AdmitDiagnostic \/ SendDiagnostic
    \/ Boundary \/ Verdict \/ CrashDiagnostics

-----------------------------------------------------------------------------
(* Over all starts, revisions and crashes no more calls leave than the
   ceiling, and no input is put more than the allowed times; and a command
   that reports every input passed speaks of passes at the revision, and of
   the manifest, that it was started with. *)
DiagnosticsKeepBudget ==
    /\ LET of(i) == diagSent[i] IN MapThenSumSet(of, Inputs) <= DiagCeiling
    /\ \A i \in Inputs : diagSent[i] <= MaxAttempts
    /\ diag.at = "passed" => \A i \in Inputs :
          <<i, diag.revision, diag.manifest>> \in diagLedger.passes /\ diagSent[i] > 0

=============================================================================
