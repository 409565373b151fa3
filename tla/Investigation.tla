--------------------------- MODULE Investigation ---------------------------
(***************************************************************************)
(* The investigations of one Case, Run by Run: the graph of                *)
(* agents/graph.py with the callbacks of application/investigation.py, the *)
(* governed tools, the evidence gate, and what application/service.py does *)
(* with a decision.  An action is one node of the graph, or a callback     *)
(* between two awaits that suspend; other requests move the ticket source  *)
(* in between.  Only one Run of a Case is active (CaseLifecycle).          *)
(*                                                                         *)
(* The selector is a language model: any candidate at any turn, or a       *)
(* provider failure.  The source answers, or fails for good or for now.    *)
(***************************************************************************)
EXTENDS CaseFacts

CONSTANTS
    Worlds,        \* what the sources say about the order (see World)
    FaultyTools,   \* the tools whose reads may fail
    MaxRuns,       \* bound: Runs of the Case
    MaxTroubles    \* bound: failed reads, provider failures, restarts between
                   \* Runs and changes of the ticket source, all together

ASSUME BoundsAssumption == MaxRuns \in Nat /\ MaxTroubles \in Nat

VARIABLES
    world,     \* the sources' immutable part
    source,    \* the ticket source: its revision, the issues with an open ticket
    case,      \* the Case row
    ledger,    \* case fact questions and assertions
    stored,    \* the stored case fact snapshot
    history,   \* the Case's actual reads (ToolCall rows)
    cache,     \* the service's CaseToolCache of this Case
    results,   \* the Run's latest row of each tool
    last,      \* the tool of the Run's last row, if that leaves a retry open
    run,       \* the Run and its coordinator
    budget,    \* ToolBudget
    call,      \* the tool call on its way to the tools node
    pc,        \* the node of the graph
    used       \* how much of the bounds is used, and what really was spent

vars == <<world, source, case, ledger, stored, history, cache, results, last,
          run, budget, call, pc, used>>

-----------------------------------------------------------------------------
(* The world *)

World ==
    [order : {"delivered", "shipped", "other"},
     target : {NONE, "delivered", "active", "other"},
     timeline : {NONE, "elsewhere", "within", "overdue", "contradicts"},
     proof : {NONE, "handed", "reception"},
     policy : [Issues -> {"eligible", "ineligible", "not_applicable", "unresolved"}],
     alerts : {NONE, "active"}]

ASSUME WorldsAssumption == Worlds \subseteq World

(* source_revision: only the ticket source ever changes. *)
Revision(tool) == IF tool = "tickets" THEN source.revision ELSE 0

SourceValue(tool, issue) ==
    CASE tool = "policy" -> world.policy[issue]
      [] tool = "tickets" -> IF issue \in source.active THEN "active" ELSE NONE
      [] OTHER -> world[tool]

-----------------------------------------------------------------------------
(* States and start *)

NoCall == [tool |-> NONE, issue |-> NONE]
NoRun == [n |-> 0, pass |-> 0, pending |-> NoCall, pendingSource |-> 0, corrected |-> FALSE,
          stop |-> FALSE, exhausted |-> FALSE, startedAt |-> 0,
          checked |-> FALSE, elsewhere |-> FALSE]

(* A Case that has just been created, or whose target package was asked for
   and named: the first of its two clarifications is then used. *)
Init ==
    /\ world \in Worlds
    /\ source = [revision |-> 0, active |-> {}]
    /\ \E issue \in Issues, asks \in (IF world.target = NONE THEN {0} ELSE {0, 1}) :
          case = [state |-> "new", issue |-> issue, reads |-> 0, turns |-> 0,
                  asks |-> asks, reason |-> NONE]
    /\ ledger = NewLedger
    /\ history = {}
    /\ stored = Rebuild({}, NewLedger)
    /\ cache = << >>
    /\ results = [t \in Tools |-> NotQueried]
    /\ last = NONE
    /\ run = NoRun
    /\ budget = [reads |-> 0, caseTurns |-> 0, runTurns |-> 0]
    /\ call = NoCall
    /\ pc = "idle"
    /\ used = [troubles |-> 0, turns |-> 0, correctedFailed |-> FALSE]

MoreTrouble == used.troubles < MaxTroubles
InTrouble == [used EXCEPT !.troubles = @ + 1]

(* Variant: each Run has reads of its own. *)
ReadsKnownOfRun == 0

(* investigate: the Case row and the tool rows, whichever counted more. *)
ReadsKnown ==
    IF case.reads >= Cardinality(history) THEN case.reads ELSE Cardinality(history)

(* investigate(): a new Run of the Case with a new coordinator. *)
StartRun(checked, elsewhere) ==
    /\ run.n < MaxRuns
    /\ run' = [NoRun EXCEPT !.n = run.n + 1, !.startedAt = source.revision,
                            !.checked = checked, !.elsewhere = elsewhere]
    /\ results' = [t \in Tools |-> NotQueried]
    /\ last' = NONE
    /\ budget' = [reads |-> ReadsKnown, caseTurns |-> case.turns, runTurns |-> 0]
    /\ call' = NoCall
    /\ pc' = "agent"

(* _create_and_investigate_case, or the Run that named the target package. *)
FirstInvestigation ==
    /\ pc = "idle" /\ case.state = "new"
    /\ \E elsewhere \in BOOLEAN : StartRun(FALSE, elsewhere)
    /\ UNCHANGED <<world, source, case, ledger, stored, history, cache, used>>

(* The service's cache of this Case, or after a restart the one that
   _load_case_cache makes of the tool rows when the next Run begins. *)
FindCache ==
    \/ UNCHANGED <<cache, used>>
    \/ /\ MoreTrouble
       /\ cache' = RebuildCache(history, [tool \in Tools |-> Revision(tool)])
       /\ used' = InTrouble

-----------------------------------------------------------------------------
(* The agent node: before_selector, on_agent_turn *)

(* SOURCE_REVISION_CHANGED_DURING_RETRY ends the observations. *)
RetrySourceChanged ==
    /\ pc = "agent" /\ run.pending # NoCall
    /\ Revision(run.pending.tool) # run.pendingSource
    /\ run' = [run EXCEPT !.pending = NoCall, !.stop = TRUE]
    /\ pc' = "gate"
    /\ UNCHANGED <<world, source, case, ledger, stored, history, cache, results,
                   last, budget, call, used>>

RetryDue == run.pending # NoCall /\ Revision(run.pending.tool) = run.pendingSource

(* The exact retry comes before everything else and costs no turn. *)
EmitExactRetry ==
    /\ pc = "agent" /\ RetryDue
    /\ budget.reads < MaxReads
    /\ call' = run.pending
    /\ pc' = "tools"
    /\ UNCHANGED <<world, source, case, ledger, stored, history, cache, results,
                   last, run, budget, used>>

(* Nothing is to be retried, or there is no read left to retry with. *)
NoRetryNow == run.pending = NoCall \/ (RetryDue /\ budget.reads >= MaxReads)

MayStopObserving ==
    \/ run.stop
    \/ Evaluable(case.issue, results) /\ ~NeedsCarrierContext(case.issue, results)

StopObserving ==
    /\ pc = "agent" /\ NoRetryNow /\ MayStopObserving
    /\ pc' = "gate"
    /\ UNCHANGED <<world, source, case, ledger, stored, history, cache, results,
                   last, run, budget, call, used>>

(* ToolBudgetExceeded *)
TurnRefused ==
    /\ pc = "agent" /\ NoRetryNow /\ ~MayStopObserving
    /\ TurnsSpent(budget)
    /\ run' = [run EXCEPT !.exhausted = TRUE]
    /\ pc' = "gate"
    /\ UNCHANGED <<world, source, case, ledger, stored, history, cache, results,
                   last, budget, call, used>>

TakeTurn ==
    /\ pc = "agent" /\ NoRetryNow /\ ~MayStopObserving
    /\ ~TurnsSpent(budget)
    /\ budget' = [budget EXCEPT !.caseTurns = @ + 1, !.runTurns = @ + 1]
    /\ used' = [used EXCEPT !.turns = @ + 1]
    /\ pc' = "select"
    /\ UNCHANGED <<world, source, case, ledger, stored, history, cache, results,
                   last, run, call>>

-----------------------------------------------------------------------------
(* select_observation *)

RejectionOf(candidate) ==
    Rejection(candidate, case.issue, results, run.pending.tool, budget)

AcceptObservation ==
    /\ pc = "select"
    /\ \E tool \in Tools :
          /\ RejectionOf(tool) = NONE
          /\ call' = [tool |-> tool, issue |-> case.issue]
    /\ pc' = "tools"
    /\ UNCHANGED <<world, source, case, ledger, stored, history, cache, results,
                   last, run, budget, used>>

AcceptFinish ==
    /\ pc = "select" /\ RejectionOf("finish") = NONE
    /\ pc' = "gate"
    /\ UNCHANGED <<world, source, case, ledger, stored, history, cache, results,
                   last, run, budget, call, used>>

(* One correction for each coordinator, then a rejection ends the pass. *)
CorrectSelector ==
    /\ pc = "select" /\ ~run.corrected
    /\ \E candidate \in Candidates : RejectionOf(candidate) \in Correctable
    /\ run' = [run EXCEPT !.corrected = TRUE]
    /\ pc' = "agent"
    /\ UNCHANGED <<world, source, case, ledger, stored, history, cache, results,
                   last, budget, call, used>>

RejectObservation ==
    /\ pc = "select"
    /\ \E candidate \in Candidates :
          /\ RejectionOf(candidate) # NONE
          /\ RejectionOf(candidate) \in Correctable => run.corrected
    /\ pc' = "gate"
    /\ UNCHANGED <<world, source, case, ledger, stored, history, cache, results,
                   last, run, budget, call, used>>

RunReads == Cardinality({h \in history : h.run = run.n})
Least(a, b) == IF a <= b THEN a ELSE b
Greatest(a, b) == IF a >= b THEN a ELSE b

(* _observed_run_usage, and what each of the callers makes of it: the usage
   of a first pass is added, that of a corrected pass only a lower bound. *)
UsageAfterFailure ==
    IF run.pass = 0
      THEN [case EXCEPT !.state = "awaiting_retry", !.reason = NONE,
                        !.reads = Least(MaxReads, case.reads + RunReads),
                        !.turns = Least(MaxCaseTurns, case.turns + budget.runTurns)]
      ELSE [case EXCEPT !.state = "awaiting_retry", !.reason = NONE,
                        !.reads = Least(MaxReads, Greatest(case.reads, RunReads)),
                        !.turns = Least(MaxCaseTurns, Greatest(case.turns, budget.runTurns))]

(* SelectorExecutionFailure: the provider failed and nothing is decided. *)
InvestigationFails ==
    /\ pc = "select" /\ MoreTrouble
    /\ case' = UsageAfterFailure
    /\ used' = [InTrouble EXCEPT !.correctedFailed = @ \/ run.pass = 1]
    /\ pc' = "idle"
    /\ UNCHANGED <<world, source, ledger, stored, history, cache, results, last,
                   run, budget, call>>

-----------------------------------------------------------------------------
(* The tools node: GovernedToolExecutor.execute_result and on_tool_result *)

(* Variant: the key of a cached result leaves the source's revision out. *)
CallKeyUnversioned == Key(call.tool, call.issue, 0)

CallKey == Key(call.tool, call.issue, Revision(call.tool))

Row(status, value, actual) ==
    [status |-> status, value |-> value,
     issue |-> IssueArgument(call.tool, call.issue), source |-> Revision(call.tool),
     attempt |-> results[call.tool].attempt + 1, actual |-> actual]

(* Variant: a retry that fails too leaves another one open. *)
OpensRetryAgain(row) == Temporary(row)

(* RetryController.issue: the first failure of a query, and only that. *)
OpensRetry(row) == Temporary(row) /\ row.attempt = 1

(* The coordinator's on_tool_result for a row of the called tool. *)
OnToolResult(row, spent) ==
    /\ results' = [results EXCEPT ![call.tool] = row]
    /\ budget' = spent
    /\ last' = IF OpensRetry(row) /\ row.actual THEN call.tool ELSE NONE
    /\ LET pending == IF OpensRetry(row) THEN call ELSE NoCall
       IN  run' = [run EXCEPT
              !.pending = pending,
              !.pendingSource = IF pending = NoCall THEN 0 ELSE row.source,
              !.stop = @ \/ StopsAfter(case.issue, world.target, call.tool, results',
                                       pending.tool, budget')]
    /\ call' = NoCall
    /\ pc' = "agent"

(* _validate_arguments, for a retry that an issue revision left behind *)
InScope ==
    /\ call.tool \in RelevantTools(case.issue)
    /\ IssueArgument(call.tool, call.issue) \in {NONE, case.issue}

CacheHit ==
    /\ pc = "tools" /\ InScope /\ Reusable(cache, CallKey)
    /\ OnToolResult(Row(Entry(cache, CallKey).status, Entry(cache, CallKey).value, FALSE),
                    budget)
    /\ UNCHANGED <<world, source, case, ledger, stored, history, cache, used>>

(* Outside the Case's scope, out of retries, or out of reads. *)
Blocked ==
    ~InScope \/ RetryExhausted(cache, CallKey) \/ budget.reads >= MaxReads

BlockCall ==
    /\ pc = "tools" /\ ~(InScope /\ Reusable(cache, CallKey)) /\ Blocked
    /\ OnToolResult(Row("non_retryable_error", NONE, FALSE), budget)
    /\ UNCHANGED <<world, source, case, ledger, stored, history, cache, used>>

ReadSource ==
    /\ pc = "tools" /\ ~Reusable(cache, CallKey) /\ ~Blocked
    /\ \E status \in Statuses \ {"not_queried"} :
          LET value == IF status = "success" THEN SourceValue(call.tool, call.issue) ELSE NONE
              row == Row(status, value, TRUE)
          IN  /\ status # "success" => call.tool \in FaultyTools
              /\ cache' = Store(cache, CallKey, status, value)
              /\ history' = history \cup
                   {[run |-> run.n, tool |-> call.tool, issue |-> row.issue,
                     source |-> row.source, attempt |-> row.attempt,
                     status |-> status, value |-> value]}
              /\ OnToolResult(row, [budget EXCEPT !.reads = @ + 1])
    /\ UNCHANGED <<world, source, case, ledger, stored, used>>

-----------------------------------------------------------------------------
(* The gate, and _apply_investigation_result *)

(* critical_retry_exhausted *)
SomeRetryExhausted ==
    \E t \in Tools :
        /\ Temporary(results[t])
        /\ RetryExhausted(cache, <<t, results[t].issue, Revision(t)>>)

GateBudgetExceeded ==
    \/ run.exhausted
    \/ budget.reads >= MaxReads /\ ~SomeRetryExhausted /\ ~Evaluable(case.issue, results)

GateFacts ==
    [results |-> results, target |-> world.target, businessDemo |-> BusinessDemo,
     retryExhausted |-> SomeRetryExhausted, stillMissing |-> TRUE,
     receptionChecked |-> run.checked, deliveredElsewhere |-> run.elsewhere]

Gate == EvaluateGate(case.issue, GateFacts, GateBudgetExceeded)

(* The Case row after a Run whose output is applied. *)
Counted(state, reason) ==
    [case EXCEPT !.state = state, !.reason = reason,
                 !.reads = budget.reads, !.turns = budget.caseTurns]

ApplyAndEnd ==
    /\ stored' = Rebuild(history, ledger)
    /\ pc' = "idle"
    /\ UNCHANGED <<world, source, history, cache, results, last, run, budget, call, used>>

MayRevise(gate) == run.pass = 0 /\ gate.revised \in Issues

(* Everything but a proposal, a question and a retry closes the Case. *)
CloseAfterInvestigation(gate) ==
    /\ \/ gate.decision = "revise_issue" /\ ~MayRevise(gate)
       \/ gate.decision \in {"complete_no_action", "require_human_support"}
    /\ case' = Counted("closed", gate.reason)
    /\ ApplyAndEnd
    /\ UNCHANGED ledger

ProposeTicket(gate) ==
    /\ gate.decision = "propose_ticket"
    /\ case' = Counted("proposed", gate.reason)
    /\ ApplyAndEnd
    /\ UNCHANGED ledger

RetryLater(gate) ==
    /\ gate.decision = "retry_later"
    /\ case' = Counted("awaiting_retry", gate.reason)
    /\ ApplyAndEnd
    /\ UNCHANGED ledger

(* BUSINESS_CLARIFICATION_LIMIT_REACHED, CASE_FACT_QUESTION_EXHAUSTED, or the
   customer is asked. *)
RequestBusinessClarification(gate) ==
    /\ gate.decision = "request_business_clarification"
    /\ LET asked == IF case.asks >= 2 THEN "limit" ELSE Ask(history, ledger, case.asks)
       IN  IF asked \in {"created", "repeated"}
             THEN /\ ledger' = [ledger EXCEPT !.asked = TRUE]
                  /\ case' = [Counted("awaiting_input", gate.reason) EXCEPT
                                !.asks = @ + (IF asked = "created" THEN 1 ELSE 0)]
             ELSE /\ case' = Counted("closed", "CLARIFICATION_EXHAUSTED")
                  /\ UNCHANGED ledger
    /\ stored' = Rebuild(history, ledger')
    /\ pc' = "idle"
    /\ UNCHANGED <<world, source, history, cache, results, last, run, budget, call, used>>

(* _revise_issue_and_continue_investigation: a second pass of the same Run
   with a new coordinator, which finds the Run's rows and a retry that the
   last of them leaves open, and without what the customer stated. *)
ReviseIssue(gate) ==
    /\ gate.decision = "revise_issue" /\ MayRevise(gate)
    /\ case' = [case EXCEPT !.issue = gate.revised, !.reads = budget.reads,
                            !.turns = budget.caseTurns]
    /\ LET open == last # NONE
           issue == IF last \in PerIssue THEN results[last].issue ELSE case.issue
       IN  run' = [run EXCEPT !.pass = 1, !.corrected = FALSE, !.stop = FALSE,
                     !.pending = IF open THEN [tool |-> last, issue |-> issue] ELSE NoCall,
                     !.pendingSource = IF open THEN results[last].source ELSE 0,
                     !.exhausted = FALSE, !.checked = FALSE, !.elsewhere = FALSE]
    /\ stored' = Rebuild(history, ledger)
    /\ pc' = "agent"
    /\ UNCHANGED <<world, source, ledger, history, cache, results, last, budget, call, used>>

-----------------------------------------------------------------------------
(* What happens to the Case between its Runs *)

(* _continue_business_clarification at its limit: the reply is not read. *)
CloseAtClarificationLimit ==
    /\ pc = "idle" /\ case.state = "awaiting_input" /\ case.asks >= 2
    /\ case' = [case EXCEPT !.state = "closed", !.reason = "CLARIFICATION_EXHAUSTED"]
    /\ UNCHANGED <<world, source, ledger, stored, history, cache, results, last,
                   run, budget, call, pc, used>>

(* The reply consumes the question, and the investigation goes on with it. *)
AnswerClarification ==
    /\ pc = "idle" /\ case.state = "awaiting_input" /\ case.asks < 2
    /\ \E reply \in Answers \ {NONE}, elsewhere \in BOOLEAN :
          /\ ledger' = IF ledger.answer = NONE THEN Answer(ledger, reply) ELSE ledger
          /\ StartRun(FactStatus(ledger') = "known_true", elsewhere)
    /\ FindCache
    /\ stored' = Rebuild(history, ledger')
    /\ UNCHANGED <<world, source, case, history>>

(* load_snapshot *)
SnapshotVerified == stored = Rebuild(history, ledger)

(* retry_case: a new Run without the customer's facts. *)
Retry ==
    /\ pc = "idle" /\ case.state = "awaiting_retry" /\ SnapshotVerified
    /\ StartRun(FALSE, FALSE)
    /\ FindCache
    /\ UNCHANGED <<world, source, case, ledger, stored, history>>

(* load_snapshot raises, and the Case awaits a retry as before. *)
RetryFails ==
    /\ pc = "idle" /\ case.state = "awaiting_retry" /\ ~SnapshotVerified
    /\ run.n < MaxRuns
    /\ run' = [NoRun EXCEPT !.n = run.n + 1, !.startedAt = source.revision]
    /\ UNCHANGED <<world, source, case, ledger, stored, history, cache, results,
                   last, budget, call, pc, used>>

(* The proposal expires or its evidence changed (CaseLifecycle). *)
ProposalLapses ==
    /\ pc = "idle" /\ case.state = "proposed"
    /\ case' = [case EXCEPT !.state = "awaiting_retry", !.reason = NONE]
    /\ UNCHANGED <<world, source, ledger, stored, history, cache, results, last,
                   run, budget, call, pc, used>>

(* Another Case's ticket is written, for this order or for another one. *)
TicketSourceChanges ==
    /\ case.state # "closed"
    /\ MoreTrouble
    /\ used' = InTrouble
    /\ \E written \in {{}} \cup {{issue} : issue \in Issues} :
          source' = [revision |-> source.revision + 1,
                     active |-> source.active \cup written]
    /\ UNCHANGED <<world, case, ledger, stored, history, cache, results, last,
                   run, budget, call, pc>>

AgentNode ==
    RetrySourceChanged \/ EmitExactRetry \/ StopObserving \/ TurnRefused \/ TakeTurn
SelectNode ==
    AcceptObservation \/ AcceptFinish \/ CorrectSelector \/ RejectObservation
ToolsNode == CacheHit \/ BlockCall \/ ReadSource
GateNode ==
    /\ pc = "gate"
    /\ \E gate \in {Gate} :
          \/ CloseAfterInvestigation(gate) \/ ProposeTicket(gate) \/ RetryLater(gate)
          \/ RequestBusinessClarification(gate) \/ ReviseIssue(gate)
BetweenRuns ==
    \/ FirstInvestigation \/ CloseAtClarificationLimit \/ AnswerClarification
    \/ Retry \/ RetryFails \/ ProposalLapses

(* Between its Runs the Case may stay as it is for ever; within one, a state
   without a step would be a deadlock. *)
StayIdle == pc = "idle" /\ UNCHANGED vars

Next ==
    \/ AgentNode \/ SelectNode \/ InvestigationFails \/ ToolsNode \/ GateNode
    \/ BetweenRuns \/ TicketSourceChanges \/ StayIdle

Spec == Init /\ [][Next]_vars

-----------------------------------------------------------------------------
(* Properties *)

(* investigate and _apply_investigation_result: a Case is investigated with at
   most MaxReads reads of the sources and MaxCaseTurns planning turns that are
   really taken, over all its Runs, corrected passes, failures and restarts.
   A corrected pass that fails loses the turns of one of its two passes. *)
CaseBudgets ==
    /\ Cardinality(history) <= MaxReads
    /\ used.correctedFailed \/ used.turns <= MaxCaseTurns

(* DOMAIN-CONTRACTS 7.1 to 7.4, read independently of the tables' code: what
   a proposal's evidence must say, and that it is what the sources say of the
   issue it was read for (of the tickets as long as their source is the same).
   The policy, and in a Run that corrected no issue the tickets too, must have
   been read for the issue of the Case.  After a correction the tickets may be
   those of the issue before it: see NoProposalOverTicket. *)
Evidence(t) == IF Completed(results[t]) THEN results[t].value ELSE "unavailable"
SourcesAgree == \A t \in Tools :
    Completed(results[t]) /\ results[t].source = Revision(t) =>
        results[t].value = SourceValue(t, results[t].issue)
AboutTheCase ==
    /\ results["policy"].issue = case.issue
    /\ run.pass = 0 => results["tickets"].issue = case.issue
GroundsSigned ==
    /\ world.target = "delivered" \/ (world.target = NONE /\ Evidence("order") = "delivered")
    /\ Evidence("timeline") \notin {"unavailable", NONE, "elsewhere"}
    /\ Evidence("proof") # "unavailable"
    /\ Evidence("proof") = "reception" => run.checked
    /\ ~run.elsewhere
GroundsStalled ==
    /\ world.target = "active" \/ (world.target = NONE /\ Evidence("order") = "shipped")
    /\ Evidence("timeline") = "overdue"
    /\ BusinessDemo /\ ~Missing(results["alerts"]) => Evidence("alerts") = NONE
ProposalIsGrounded ==
    (case.state = "proposed") =>
        /\ SourcesAgree
        /\ AboutTheCase
        /\ Evidence("tickets") = NONE
        /\ Evidence("policy") = "eligible"
        /\ IF case.issue = SNR THEN GroundsSigned ELSE GroundsStalled

(* DOMAIN-CONTRACTS 7.4: no proposal while an active ticket is there for what
   the Case is about, as far as the ticket source the evidence was read from
   can tell, corrected issues included. *)
NoProposalOverTicket ==
    (case.state = "proposed" /\ results["tickets"].source = source.revision) =>
        case.issue \notin source.active

(* The ticket evidence of a proposal was current when its Run began, even if
   the Run took it from the Case's cache. *)
FreshTickets ==
    (case.state = "proposed") =>
        /\ results["tickets"].source >= run.startedAt
        /\ results["tickets"].source = source.revision =>
              results["tickets"].issue \notin source.active

(* A Case is told to wait for unavailable evidence only if a later Run can
   still ask for it: required evidence was not asked for in this Run, or the
   query that failed has a retry left at the source's revision; and there are
   reads left, unless the alerts, which the gate may decide without, are what
   is unavailable. *)
RetryLaterCanRead ==
    (pc = "idle" /\ case.state = "awaiting_retry"
       /\ case.reason = "CRITICAL_EVIDENCE_UNAVAILABLE") =>
        /\ case.reads < MaxReads \/ Temporary(results["alerts"])
        /\ \/ \E t \in RequiredTools(case.issue) : Missing(results[t])
           \/ \E t \in RelevantTools(case.issue) :
                 /\ Temporary(results[t])
                 /\ ~RetryExhausted(cache, <<t, results[t].issue, Revision(t)>>)

(* A Case is handed to human support for evidence that stayed unavailable
   only after a final failure, or after the query was tried twice. *)
GivesUpAfterRetry ==
    (case.state = "closed" /\ case.reason = "CRITICAL_EVIDENCE_UNAVAILABLE_FINAL") =>
        \E t \in Tools :
            \/ Final(results[t])
            \/ /\ Temporary(results[t])
               /\ Cardinality({h \in history : h.tool = t /\ h.issue = results[t].issue}) >= 2

(* While the customer is asked where the parcel was left, the question is
   open, the next reply can consume it and the stored facts are the ledger's. *)
OpenQuestionIsAnswerable ==
    (case.state = "awaiting_input" /\ pc = "idle") =>
        /\ ledger.asked /\ ledger.answer = NONE
        /\ ProofFound(history)
        /\ SnapshotVerified

(* A Case that awaits a retry has the facts the retry verifies. *)
RetryFindsItsFacts == (case.state = "awaiting_retry" /\ pc = "idle") => SnapshotVerified

(* Every step of a Run brings it closer to its end, whatever the selector
   answers, the sources fail or the gate revises: with no deadlock, every Run
   ends after so many steps.  A turn is a read and at most one retry of it. *)
RetryOpen == run.pending # NoCall
StepsLeftInTurn ==
    CASE pc = "idle" -> 0
      [] pc = "gate" -> 1
      [] pc = "agent" /\ ~RetryOpen -> 2
      [] pc = "tools" /\ RetryOpen -> 3
      [] pc = "agent" /\ RetryOpen -> 4
      [] pc = "tools" /\ ~RetryOpen -> 5
      [] pc = "select" -> 6
StepsLeft == StepsLeftInTurn
               + 8 * (MaxRunTurns - budget.runTurns)
               + (IF run.pass = 0 THEN 8 * MaxRunTurns + 8 ELSE 0)
RunAdvances ==
    [][pc # "idle" /\ ~TicketSourceChanges => StepsLeft' < StepsLeft]_vars

Governed == INSTANCE GovernedReading

(* The reads of the sources are those that the governance promises. *)
KeepsGovernance == Governed!Spec
=============================================================================
