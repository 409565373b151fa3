------------------------------ MODULE Campaign ------------------------------
(***************************************************************************)
(* The live measurement programmes of evals/v3: the formal Development     *)
(* identity and its contingency, the Locked identity, and the formal-path  *)
(* canary.  Each walks through its planned runs in order; an agent run     *)
(* asks the budget ledger before every provider call; every run leaves one *)
(* record, and the complete set one report.                                *)
(*                                                                         *)
(* Disk: packages, budget ledgers, the databases of the runs (of which     *)
(* only the unique message id matters), records and reports.  (The execution    *)
(* state ledger is written for the reader only and left out.)             *)
(* Processes of the command line may be started again at any time, two may *)
(* work on one identity, and each may die between any two steps.           *)
(*                                                                         *)
(* Abstracted: the source revision and manifest bindings (one revision),   *)
(* the investigation inside a run (any number of selector turns, then any  *)
(* end), grading (a run is good or not), timestamps (two records or        *)
(* Development reports built at different times always differ).            *)
(*                                                                         *)
(* The ghosts: sent counts the provider calls of the observed selectors,   *)
(* unseen holds the identities in which a corrected pass called the        *)
(* provider with no observer, and overlapped those on which two processes  *)
(* worked at once.                                                         *)
(***************************************************************************)
EXTENDS BudgetLedger, Functions

CONSTANTS
    Procs,       \* processes of the command line
    MaxTurns,    \* selector turns of an agent run
    DevRuns,     \* planned runs of a Development identity
    LockedRuns,  \* planned runs of the Locked identity
    CanaryRuns,  \* smokes of the canary
    Ceiling,     \* provider calls of an identity
    PerRun,      \* provider calls of one run
    Threshold,   \* tokens after which no further call is admitted
    Usage,       \* token counts a response may report
    MaxStarts,   \* starts of a process; one beside a working process counts twice
    MaxCrashes

ASSUME CampaignConstants ==
    /\ MaxTurns \in Nat \ {0} /\ DevRuns \in Nat \ {0} /\ LockedRuns \in Nat \ {0} /\ CanaryRuns \in Nat \ {0}
    /\ Ceiling \in Nat \ {0} /\ PerRun \in Nat \ {0} /\ PerRun <= Ceiling
    /\ Threshold \in Nat /\ Usage \subseteq Nat /\ IsFiniteSet(Usage) /\ Usage # {}
    /\ MaxStarts \in Nat /\ MaxCrashes \in Nat

VARIABLES
    identities,  \* the execution identities of the programme that is run
    package,     \* identity -> whether its authorization package is written
    ledger,      \* identity -> budget ledger
    used,        \* identity -> runs whose database holds the customer message
    records,     \* identity -> run -> NoPaper, Torn or the run's record
    reports,     \* identity -> NoPaper, Torn or the report
    proc,        \* process -> what it is doing
    sent, unseen, overlapped,
    starts, crashes

disk == <<package, ledger, used, records, reports>>
ghosts == <<sent, unseen, overlapped>>
campaignVars == <<identities, disk, proc, ghosts, starts, crashes>>

Development == {"formal", "contingency"}

Turns == 1..MaxTurns
Planned(id) == 1..CASE id = "canary" -> CanaryRuns
                    [] id = "locked" -> LockedRuns
                    [] OTHER -> DevRuns

(* Per case the agent runs first, then the workflow; a canary has no workflow. *)
IsAgent(id, run) == id = "canary" \/ run % 2 = 1

Binding(id) ==
    IF id = "canary" THEN [ceiling |-> Ceiling, perRun |-> Ceiling, threshold |-> 0]
    ELSE [ceiling |-> Ceiling, perRun |-> PerRun, threshold |-> Threshold]

NoPaper == [status |-> "none", good |-> FALSE, calls |-> 0]
Torn == [status |-> "torn", good |-> FALSE, calls |-> 0]
NoReport == [conclusion |-> "none", calls |-> 0, recorded |-> 0]
TornReport == [conclusion |-> "torn", calls |-> 0, recorded |-> 0]

(* seen: the runs the process need not execute; mine: the canary's runs *)
Absent == [id |-> "none", at |-> "down", seen |-> {}, mine |-> <<>>,
           run |-> 0, turn |-> 0, paper |-> NoPaper, report |-> NoReport]

At(id, at, seen, mine) ==
    [Absent EXCEPT !.id = id, !.at = at, !.seen = seen, !.mine = mine]

Ended == {"down", "failed", "done"}
Works(p) == proc[p].at \notin Ended

CampaignInit ==
    /\ identities \in {Development, {"locked"}, {"canary"}}
    /\ package = [id \in identities |-> FALSE]
    /\ ledger = [id \in identities |-> EmptyLedger]
    /\ used = [id \in identities |-> {}]
    /\ records = [id \in identities |-> [run \in Planned(id) |-> NoPaper]]
    /\ reports = [id \in identities |-> NoReport]
    /\ proc = [p \in Procs |-> Absent]
    /\ sent = [id \in identities |-> [call \in Planned(id) \X Turns |-> 0]]
    /\ unseen = {} /\ overlapped = {}
    /\ starts = 0 /\ crashes = 0

-----------------------------------------------------------------------------
(* Authorization and start.                                                *)

IsReport(report) == report.conclusion \notin {"none", "torn"}

(* Variant: any -04 report opens the contingency. *)
PriorFailedBeforeAdmissionUnchecked == IsReport(reports["formal"])

(* -05 needs the one completed -04 report, without a provider or model call. *)
PriorFailedBeforeAdmission ==
    /\ IsReport(reports["formal"])
    /\ reports["formal"].calls = 0 /\ reports["formal"].recorded = 0

(* create_formal_execution_package; a package that exists is returned. *)
Authorize(id) ==
    /\ id \in Development /\ ~package[id]
    /\ id = "contingency" => PriorFailedBeforeAdmission
    /\ package' = [package EXCEPT ![id] = TRUE]
    /\ UNCHANGED <<identities, ledger, used, records, reports, proc,
                   ghosts, starts, crashes>>

Stored(id) == {run \in Planned(id) : records[id][run] # NoPaper}

(* Variant: a restart begins the plan from its first run. *)
LoadedForgetful(id) == {}

(* load_runs: the runs that need not be executed again. *)
Loaded(id) == IF id = "canary" THEN {} ELSE Stored(id)

(* The constructors of the runner and the canary, and the loading of the
   records.  The Locked command returns a report that exists, the canary
   refuses one; a torn file cannot be read. *)
Start(p, id) ==
    /\ ~Works(p) /\ id \in identities
    /\ id \in Development => package[id]
    /\ LET enter(at, seen) == At(id, at, seen, <<>>)
       IN  IF id = "canary" /\ reports[id] # NoReport
             THEN /\ proc' = [proc EXCEPT ![p] = enter("failed", {})]
                  /\ UNCHANGED ledger
           ELSE IF id = "locked" /\ reports[id] # NoReport
             THEN /\ proc' = [proc EXCEPT ![p] =
                        enter(IF IsReport(reports[id]) THEN "done" ELSE "failed", {})]
                  /\ UNCHANGED ledger
           ELSE /\ ledger' = [ledger EXCEPT ![id] = Reopen(Binding(id), @)]
                /\ proc' = [proc EXCEPT ![p] =
                      IF Torn \in Range(records[id]) THEN enter("failed", {})
                      ELSE enter("ready", Loaded(id))]
    /\ overlapped' = IF \E q \in Procs \ {p} : Works(q) /\ proc[q].id = id
                     THEN overlapped \cup {id} ELSE overlapped
    /\ starts' = starts + (IF \E q \in Procs : Works(q) THEN 2 ELSE 1)
    /\ starts' <= MaxStarts
    /\ UNCHANGED <<identities, package, used, records, reports, sent, unseen, crashes>>

-----------------------------------------------------------------------------
(* One run.                                                                *)

Left(p) == Planned(proc[p].id) \ proc[p].seen

(* Variant: a run that failed is recorded without its calls. *)
RecordWithoutFailedCalls(l, run, status, good) ==
    [status |-> status, good |-> good,
     calls |-> IF status = "completed" THEN AttemptedBy(l, run) ELSE 0]

(* _record_from_evidence and _failure_record, with accounting_for(run). *)
Record(l, run, status, good) ==
    [status |-> status, good |-> good, calls |-> AttemptedBy(l, run)]

Ends(p, run, status, good) ==
    proc' = [proc EXCEPT ![p].at = "save", ![p].run = run,
               ![p].paper = Record(ledger'[proc[p].id], run, status, good)]

(* The next planned run without a record.  A stop that the ledger already
   shows fails an agent run without executing it (not in the canary). *)
NextRun(p) ==
    /\ proc[p].at = "ready" /\ Left(p) # {}
    /\ UNCHANGED <<identities, disk, ghosts, starts, crashes>>
    /\ LET id == proc[p].id
           run == Min(Left(p))
       IN  IF /\ id # "canary" /\ IsAgent(id, run)
              /\ StopReason(Binding(id), ledger[id]) # "none"
           THEN Ends(p, run, "failed", FALSE)
           ELSE proc' = [proc EXCEPT ![p].at = "setup", ![p].run = run, ![p].turn = 0]

(* The runtime is built and the customer message stored under its fixed id:
   a second execution of the run meets the id of the first. *)
SetUp(p) ==
    /\ proc[p].at = "setup"
    /\ LET id == proc[p].id
           run == proc[p].run
       IN  \/ /\ run \notin used[id]
              /\ used' = [used EXCEPT ![id] = @ \cup {run}]
              /\ proc' = [proc EXCEPT ![p].at = "select"]
              /\ UNCHANGED ledger
           \/ /\ UNCHANGED <<used, ledger>>
              /\ \/ run \in used[id] /\ Ends(p, run, "collision", FALSE)
                 \/ Ends(p, run, "failed", FALSE)
    /\ UNCHANGED <<identities, package, records, reports, ghosts, starts, crashes>>

(* DevelopmentProviderInvocationObserver.invoke up to the call. *)
TakeTurn(p) ==
    /\ proc[p].at = "select" /\ IsAgent(proc[p].id, proc[p].run) /\ proc[p].turn < MaxTurns
    /\ LET id == proc[p].id
           b == Binding(id)
           turn == proc[p].turn + 1
           answer == Admission(b, ledger[id], proc[p].run, turn)
       IN  IF answer = "admitted"
           THEN /\ ledger' = [ledger EXCEPT ![id] = Admit(@, proc[p].run, turn)]
                /\ proc' = [proc EXCEPT ![p].at = "call", ![p].turn = turn]
           ELSE /\ ledger' = [ledger EXCEPT ![id] =
                      IF IsGlobalStop(b, @, answer) THEN ForceStop(b, @, answer) ELSE @]
                /\ Ends(p, proc[p].run, "failed", FALSE)
    /\ UNCHANGED <<identities, package, used, records, reports, ghosts, starts, crashes>>

Send(p) ==
    /\ proc[p].at = "call"
    /\ sent' = [sent EXCEPT ![proc[p].id][<<proc[p].run, proc[p].turn>>] = @ + 1]
    /\ proc' = [proc EXCEPT ![p].at = "wait"]
    /\ UNCHANGED <<identities, disk, unseen, overlapped, starts, crashes>>

(* The response, which may report its usage; or a provider error, timeout or
   cancellation, before which the usage callback has collected nothing. *)
Answer(p) ==
    /\ proc[p].at = "wait"
    /\ \E status \in {"completed", "failed"}, tokens \in Usage \cup {Unreported} :
        /\ status = "failed" => tokens = Unreported
        /\ ledger' = [ledger EXCEPT ![proc[p].id] =
              Complete(Binding(proc[p].id), @, proc[p].run, proc[p].turn, status, tokens)]
        /\ IF status = "completed" THEN proc' = [proc EXCEPT ![p].at = "select"]
                                   ELSE Ends(p, proc[p].run, "failed", FALSE)
    /\ UNCHANGED <<identities, package, used, records, reports, ghosts, starts, crashes>>

(* _apply_investigation_result after a first pass that contradicts the issue:
   the corrected pass builds a live model of its own, which no observer sees. *)
CorrectedPass(p) ==
    /\ proc[p].at = "select" /\ proc[p].turn > 0
    /\ unseen' = unseen \cup {proc[p].id}
    /\ proc' = [proc EXCEPT ![p].at = "corrected"]
    /\ UNCHANGED <<identities, disk, sent, overlapped, starts, crashes>>

(* The run completes, with or without passing its graders, or fails (schema,
   runtime, trace); an agent decides at least once before it completes. *)
FinishRun(p) ==
    /\ proc[p].at \in {"select", "corrected"}
    /\ UNCHANGED <<identities, disk, ghosts, starts, crashes>>
    /\ \/ /\ IsAgent(proc[p].id, proc[p].run) => proc[p].turn > 0
          /\ \E good \in BOOLEAN : Ends(p, proc[p].run, "completed", good)
       \/ Ends(p, proc[p].run, "failed", FALSE)

-----------------------------------------------------------------------------
(* Records.                                                                *)

(* The canary keeps its runs in memory; a run that failed before any call,
   or was cancelled, ends it. *)
KeepRun(p) ==
    /\ proc[p].at = "save" /\ proc[p].id = "canary"
    /\ LET run == proc[p].run
           paper == proc[p].paper
           mine == [r \in DOMAIN proc[p].mine \cup {run} |->
                      IF r = run THEN paper ELSE proc[p].mine[r]]
           blocked == paper.status # "completed" /\ paper.calls = 0
       IN  \E cancelled \in BOOLEAN :
             /\ cancelled => paper.status = "failed"
             /\ proc' = [proc EXCEPT ![p] =
                   At("canary", IF blocked \/ cancelled THEN "report" ELSE "ready",
                      @.seen \cup {run}, mine)]
    /\ UNCHANGED <<identities, disk, ghosts, starts, crashes>>

(* save_run: every record is read, and an existing record of the run has
   other timestamps. *)
CheckRecord(p) ==
    /\ proc[p].at = "save" /\ proc[p].id # "canary"
    /\ LET stored == records[proc[p].id]
       IN  proc' = [proc EXCEPT ![p] =
             IF Torn \in Range(stored) \/ stored[@.run] # NoPaper
             THEN At(@.id, "failed", {}, <<>>) ELSE [@ EXCEPT !.at = "write"]]
    /\ UNCHANGED <<identities, disk, ghosts, starts, crashes>>

WriteRecord(p) ==
    /\ proc[p].at = "write"
    /\ records' = [records EXCEPT ![proc[p].id][proc[p].run] = proc[p].paper]
    /\ proc' = [proc EXCEPT ![p] = At(@.id, "ready", @.seen \cup {@.run}, <<>>)]
    /\ UNCHANGED <<identities, package, ledger, used, reports, ghosts, starts, crashes>>

-----------------------------------------------------------------------------
(* Reports.                                                                *)

CallsIn(papers) ==
    LET calls(run) == papers[run].calls IN MapThenSumSet(calls, DOMAIN papers)

AllGood(papers) == \A run \in DOMAIN papers :
    papers[run].status = "completed" /\ papers[run].good

(* Variant: only a run that failed makes the measurement a NO_GO. *)
DevelopmentConclusionUngraded(papers) ==
    IF \A run \in DOMAIN papers : papers[run].status # "failed"
    THEN "PREFER_WORKFLOW" ELSE "NO_GO"

(* development_architecture_conclusion *)
DevelopmentConclusion(papers) == IF AllGood(papers) THEN "PREFER_WORKFLOW" ELSE "NO_GO"

(* evaluate_locked_decision: a harness failure leaves no measurement; the
   advantage rows and latencies are open. *)
LockedConclusions(papers, l) ==
    IF \E run \in DOMAIN papers : papers[run].status = "collision" THEN {"NOT_EMITTED"}
    ELSE IF ~AllGood(papers) THEN {"PREFER_WORKFLOW"}
    ELSE IF Reported(l) = {} THEN {"PREFER_WORKFLOW", "KEEP_EXPERIMENTAL"}
    ELSE IF Tokens(l) > Threshold THEN {"PREFER_WORKFLOW"}
    ELSE {"PREFER_WORKFLOW", "KEEP_EXPERIMENTAL", "ADOPT_AGENT"}

CanaryConclusion(papers) ==
    IF DOMAIN papers = Planned("canary") /\ AllGood(papers) THEN "passed"
    ELSE IF \E run \in DOMAIN papers :
              papers[run].status # "completed" /\ papers[run].calls = 0
         THEN "blocked" ELSE "failed"

(* validate_completeness and build_report; the canary's report counts the
   ledger's calls, which its runs must add up to. *)
BuildReport(p) ==
    /\ \/ proc[p].at = "ready" /\ Left(p) = {}
       \/ proc[p].at = "report"
    /\ LET id == proc[p].id
           papers == IF id = "canary" THEN proc[p].mine ELSE records[id]
           conclusions == CASE id = "canary" -> {CanaryConclusion(papers)}
                            [] id = "locked" -> LockedConclusions(papers, ledger[id])
                            [] OTHER -> {DevelopmentConclusion(papers)}
           calls == Attempted(ledger[id])
       IN  IF Torn \in Range(papers) \/ (id = "canary" /\ calls # CallsIn(papers))
           THEN proc' = [proc EXCEPT ![p] = At(id, "failed", {}, <<>>)]
           ELSE \E conclusion \in conclusions :
                  proc' = [proc EXCEPT ![p] = [At(id, "publish", {}, <<>>) EXCEPT
                    !.report = [conclusion |-> conclusion, calls |-> calls,
                                recorded |-> CallsIn(papers)]]]
    /\ UNCHANGED <<identities, disk, ghosts, starts, crashes>>

(* save_report; only a Locked report can be the one that exists. *)
PublishReport(p) ==
    /\ proc[p].at = "publish"
    /\ LET id == proc[p].id
           same == id = "locked" /\ reports[id] = proc[p].report
       IN  /\ reports' = IF reports[id] = NoReport
                         THEN [reports EXCEPT ![id] = proc[p].report] ELSE reports
           /\ proc' = [proc EXCEPT ![p] =
                 At(id, IF reports[id] = NoReport \/ same THEN "done" ELSE "failed", {}, <<>>)]
    /\ UNCHANGED <<identities, package, ledger, used, records, ghosts, starts, crashes>>

-----------------------------------------------------------------------------
(* A process dies; what it was writing may be cut off. *)
Crash(p) ==
    /\ Works(p) /\ crashes < MaxCrashes
    /\ crashes' = crashes + 1
    /\ proc' = [proc EXCEPT ![p] = Absent]
    /\ \/ UNCHANGED <<records, reports>>
       \/ /\ proc[p].at = "write" /\ UNCHANGED reports
          /\ records' = [records EXCEPT ![proc[p].id][proc[p].run] = Torn]
       \/ /\ proc[p].at = "publish" /\ reports[proc[p].id] = NoReport /\ UNCHANGED records
          /\ reports' = [reports EXCEPT ![proc[p].id] = TornReport]
    /\ UNCHANGED <<identities, package, ledger, used, ghosts, starts>>

Step(p) ==
    \/ \E id \in identities : Start(p, id)
    \/ NextRun(p) \/ SetUp(p)
    \/ TakeTurn(p) \/ Send(p) \/ Answer(p) \/ CorrectedPass(p) \/ FinishRun(p)
    \/ KeepRun(p) \/ CheckRecord(p) \/ WriteRecord(p)
    \/ BuildReport(p) \/ PublishReport(p)
    \/ Crash(p)

CampaignNext ==
    \/ \E id \in identities : Authorize(id)
    \/ \E p \in Procs : Step(p)

-----------------------------------------------------------------------------
(* Properties.                                                             *)

Calls(id) == {call \in Planned(id) \X Turns : sent[id][call] > 0}
CallsOf(id, run) == {call \in Calls(id) : call[1] = run}

(* DevelopmentBudgetLedger, whatever dies, restarts or runs twice: no call of
   an observed selector is made that the ledger does not hold, none twice for
   the same run and turn, and the ledger invents no completed call; an
   identity and each of its runs stay below their ceilings, and the token
   threshold is passed by no more than one answer. *)
LedgerGovernsCalls ==
    \A id \in identities :
        /\ \A call \in Planned(id) \X Turns : sent[id][call] <= 1
        /\ Calls(id) \subseteq Invocations(ledger[id])
        /\ {i \in Invocations(ledger[id]) : ledger[id].calls[i].status = "completed"}
             \subseteq Calls(id)
        /\ Cardinality(Calls(id)) <= Binding(id).ceiling
        /\ \A run \in Planned(id) : Cardinality(CallsOf(id, run)) <= Binding(id).perRun
        /\ Binding(id).threshold > 0 =>
             Tokens(ledger[id]) < Binding(id).threshold + Max(Usage)

(* With one process at a time, the record of a run counts every call the run
   made, those before a crash included, and the report of an identity adds
   up to its records. *)
RecordsCountEveryCall ==
    \A id \in identities \ overlapped :
        /\ \A run \in Stored(id) : records[id][run] # Torn
              => records[id][run].calls >= Cardinality(CallsOf(id, run))
        /\ IsReport(reports[id])
              => /\ reports[id].calls = reports[id].recorded
                 /\ reports[id].calls >= Cardinality(Calls(id))

(* With one process at a time, a report that speaks for the Agent rests on a
   complete set of completed, good runs, each of whose agents really asked
   the provider.  (A second process may replace a record under a report.) *)
FavourableMeansComplete ==
    \A id \in identities \ overlapped :
        reports[id].conclusion \in {"ADOPT_AGENT", "KEEP_EXPERIMENTAL", "passed"}
        \/ (id \in Development /\ reports[id].conclusion = "PREFER_WORKFLOW")
        => \A run \in Planned(id) :
             /\ id # "canary" => records[id][run].status = "completed" /\ records[id][run].good
             /\ IsAgent(id, run) => CallsOf(id, run) # {}

(* The contingency identity never adds a second budget to a first that was
   touched, by an observed call or by one of a corrected pass. *)
OneBudgetForBoth ==
    identities = Development /\ "formal" \notin overlapped /\ Calls("contingency") # {}
    => Calls("formal") = {} /\ "formal" \notin unseen

(* With one process at a time, a Development or Locked command that fails has
   its report already, or meets a file that a crash cut off.  (A canary that
   is started again after a crash and then cancelled leaves no report.) *)
FailureLeavesReport ==
    \A p \in Procs :
        proc[p].at = "failed" /\ proc[p].id \notin overlapped \cup {"canary"}
    => reports[proc[p].id] # NoReport \/ Torn \in Range(records[proc[p].id])

CampaignSpec == CampaignInit /\ [][CampaignNext]_campaignVars

=============================================================================
