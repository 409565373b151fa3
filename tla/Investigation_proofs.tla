------------------------ MODULE Investigation_proofs ------------------------
(***************************************************************************)
(* A Case stays within its budgets, whatever the selector, the sources and *)
(* the customer do and however many Runs the Case has.  What makes it hold *)
(* is which counter bounds which: the ToolBudget of a Run never counts     *)
(* less than was spent, and the Case row, which the next ToolBudget starts *)
(* from, forgets nothing but the turns of a failed corrected pass.         *)
(*                                                                         *)
(* And a Run comes to its end.  For this its locals must be well formed at *)
(* every node (RunInv), and a query whose exact retry is open must be one  *)
(* that the observation core rejects, so that it is not asked both ways.   *)
(***************************************************************************)
EXTENDS Investigation, TLAPS, FiniteSetTheorems

Budgets == [reads : Nat, caseTurns : Nat, runTurns : Nat]
Spent == [troubles : Nat, turns : Nat, correctedFailed : BOOLEAN]

CountersType ==
    /\ IsFiniteSet(history)
    /\ {"reads", "turns"} \subseteq DOMAIN case
    /\ case.reads \in Nat /\ case.turns \in Nat
    /\ "pass" \in DOMAIN run /\ run.pass \in {0, 1}
    /\ budget \in Budgets
    /\ used \in Spent

(* During a Run the budget counts at least the Case's reads and, as long as
   no corrected pass failed, its turns; a first pass adds its own turns to
   those of the Case row.  Between Runs the row does. *)
BudgetCounts ==
    /\ pc # "idle" => Cardinality(history) <= budget.reads
    /\ pc # "idle" /\ run.pass = 0 => budget.caseTurns = case.turns + budget.runTurns
    /\ ~used.correctedFailed =>
          used.turns <= IF pc = "idle" THEN case.turns ELSE budget.caseTurns

BudgetInv == CountersType /\ BudgetCounts /\ CaseBudgets

-----------------------------------------------------------------------------
(* A Case starts with nothing spent. *)
LEMMA BudgetInvInit == Init => BudgetInv
<1> SUFFICES ASSUME Init PROVE BudgetInv
  OBVIOUS
<1>1. IsFiniteSet(history) /\ Cardinality(history) = 0
  BY FS_EmptySet DEF Init
<1>2. CountersType
  BY <1>1 DEF Init, CountersType, Budgets, Spent, NoRun
<1>3. BudgetCounts /\ CaseBudgets
  BY <1>1, LimitsAssumption DEF Init, BudgetCounts, CaseBudgets
<1> QED BY <1>2, <1>3 DEF BudgetInv

(* A new Run starts its budget from whichever counted more, the Case row or
   the tool rows. *)
LEMMA StartRunInv ==
  ASSUME BudgetInv, pc = "idle",
         NEW checked, NEW elsewhere, StartRun(checked, elsewhere),
         UNCHANGED <<case, history>>,
         used' = used \/ used' = InTrouble
  PROVE  BudgetInv'
<1>1. Cardinality(history) \in Nat
  BY FS_CardinalityType DEF BudgetInv, CountersType
<1>2. /\ used' \in Spent
      /\ used'.turns = used.turns /\ used'.correctedFailed = used.correctedFailed
  BY DEF BudgetInv, CountersType, Spent, InTrouble
<1>3. budget' \in Budgets /\ budget'.reads >= Cardinality(history)
      /\ budget'.caseTurns = case.turns /\ budget'.runTurns = 0
  BY <1>1 DEF StartRun, ReadsKnown, BudgetInv, CountersType, Budgets
<1>4. run'.pass = 0 /\ "pass" \in DOMAIN run' /\ pc' = "agent"
  BY DEF StartRun, NoRun
<1>5. CountersType'
  BY <1>2, <1>3, <1>4 DEF BudgetInv, CountersType
<1>6. BudgetCounts' /\ CaseBudgets'
  BY <1>1, <1>2, <1>3, <1>4 DEF BudgetInv, CountersType, BudgetCounts, CaseBudgets
<1> QED BY <1>5, <1>6 DEF BudgetInv

(* Every step between Runs keeps the counters or starts a Run. *)
LEMMA BetweenRunsInv == ASSUME BudgetInv, BetweenRuns PROVE BudgetInv'
<1>1. CASE FirstInvestigation
  BY <1>1, StartRunInv DEF FirstInvestigation
<1>2. CASE AnswerClarification
  BY <1>2, StartRunInv DEF AnswerClarification, FindCache
<1>3. CASE Retry
  BY <1>3, StartRunInv DEF Retry, FindCache
<1>4. CASE CloseAtClarificationLimit \/ ProposalLapses
  BY <1>4 DEF CloseAtClarificationLimit, ProposalLapses, BudgetInv, CountersType,
     BudgetCounts, CaseBudgets
<1>5. CASE RetryFails
  <2>1. run'.pass = 0 /\ "pass" \in DOMAIN run'
    BY <1>5 DEF RetryFails, NoRun
  <2> QED BY <1>5, <2>1 DEF RetryFails, BudgetInv, CountersType, BudgetCounts, CaseBudgets
<1> QED BY <1>1, <1>2, <1>3, <1>4, <1>5 DEF BetweenRuns

(* A turn is counted by the budget and by what was spent alike. *)
LEMMA TakeTurnInv == ASSUME BudgetInv, TakeTurn PROVE BudgetInv'
<1>1. budget' \in Budgets /\ budget'.reads = budget.reads
      /\ budget'.caseTurns = budget.caseTurns + 1 /\ budget'.runTurns = budget.runTurns + 1
  <2>1. budget \in [reads : Nat, caseTurns : Nat, runTurns : Nat]
    BY DEF BudgetInv, CountersType, Budgets
  <2>2. budget' = [budget EXCEPT !.caseTurns = budget.caseTurns + 1,
                                 !.runTurns = budget.runTurns + 1]
    BY DEF TakeTurn
  <2>3. budget' = [reads |-> budget.reads, caseTurns |-> budget.caseTurns + 1,
                   runTurns |-> budget.runTurns + 1]
    BY <2>1, <2>2
  <2> QED BY <2>1, <2>3 DEF Budgets
<1>2. used' \in Spent /\ used'.turns = used.turns + 1
      /\ used'.correctedFailed = used.correctedFailed
  BY DEF TakeTurn, BudgetInv, CountersType, Spent
<1>3. pc = "agent" /\ pc' = "select" /\ UNCHANGED <<case, history, run>>
      /\ budget.caseTurns < MaxCaseTurns
  BY LimitsAssumption DEF TakeTurn, TurnsSpent, BudgetInv, CountersType, Budgets
<1>4. CountersType'
  BY <1>1, <1>2, <1>3 DEF BudgetInv, CountersType
<1>5. BudgetCounts' /\ CaseBudgets'
  BY <1>1, <1>2, <1>3, LimitsAssumption
  DEF BudgetInv, CountersType, Budgets, Spent, BudgetCounts, CaseBudgets
<1> QED BY <1>4, <1>5 DEF BudgetInv

(* Every other step of the agent node and of the selection counts nothing. *)
LEMMA AgentInv == ASSUME BudgetInv, AgentNode \/ SelectNode PROVE BudgetInv'
<1>1. CASE TakeTurn
  BY <1>1, TakeTurnInv
<1>2. CASE RetrySourceChanged \/ TurnRefused \/ CorrectSelector
  <2>1. "pass" \in DOMAIN run' /\ run'.pass = run.pass
    BY <1>2 DEF RetrySourceChanged, TurnRefused, CorrectSelector, BudgetInv, CountersType
  <2>2. pc # "idle" /\ pc' # "idle" /\ UNCHANGED <<case, history, budget, used>>
    BY <1>2 DEF RetrySourceChanged, TurnRefused, CorrectSelector
  <2> QED BY <2>1, <2>2 DEF BudgetInv, CountersType, BudgetCounts, CaseBudgets
<1>3. CASE EmitExactRetry \/ StopObserving \/ AcceptObservation \/ AcceptFinish
           \/ RejectObservation
  <2>1. pc # "idle" /\ pc' # "idle" /\ UNCHANGED <<case, history, run, budget, used>>
    BY <1>3 DEF EmitExactRetry, StopObserving, AcceptObservation, AcceptFinish,
       RejectObservation
  <2> QED BY <2>1 DEF BudgetInv, CountersType, BudgetCounts, CaseBudgets
<1> QED BY <1>1, <1>2, <1>3 DEF AgentNode, SelectNode

(* A failed first pass adds its turns to the Case row; a failed corrected
   pass is what CaseBudgets excepts. *)
LEMMA InvestigationFailsInv == ASSUME BudgetInv, InvestigationFails PROVE BudgetInv'
<1>1. /\ used' \in Spent /\ used'.turns = used.turns
      /\ used'.correctedFailed = (used.correctedFailed \/ run.pass = 1)
  <2>1. used \in [troubles : Nat, turns : Nat, correctedFailed : BOOLEAN]
    BY DEF BudgetInv, CountersType, Spent
  <2>2. /\ InTrouble \in [troubles : Nat, turns : Nat, correctedFailed : BOOLEAN]
        /\ InTrouble.turns = used.turns /\ InTrouble.correctedFailed = used.correctedFailed
    BY <2>1 DEF InTrouble
  <2>3. PICK failed \in BOOLEAN :
          /\ failed = (used.correctedFailed \/ run.pass = 1)
          /\ used' = [InTrouble EXCEPT !.correctedFailed = failed]
    BY <2>2 DEF InvestigationFails
  <2> QED BY <2>2, <2>3 DEF Spent
<1>2. IsFiniteSet({h \in history : h.run = run.n})
  BY FS_Subset DEF BudgetInv, CountersType
<1>3. RunReads \in Nat
  BY <1>2, FS_CardinalityType DEF RunReads
<1>4. /\ {"reads", "turns"} \subseteq DOMAIN case'
      /\ case'.reads \in Nat /\ case'.turns \in Nat
      /\ run.pass = 0 => case'.turns = Least(MaxCaseTurns, case.turns + budget.runTurns)
  <2>1. CASE run.pass = 0
    BY <2>1, <1>3, LimitsAssumption
    DEF InvestigationFails, UsageAfterFailure, BudgetInv, CountersType, Budgets, Least
  <2>2. CASE run.pass # 0
    BY <2>2, <1>3, LimitsAssumption
    DEF InvestigationFails, UsageAfterFailure, BudgetInv, CountersType, Budgets, Least, Greatest
  <2> QED BY <2>1, <2>2
<1>5. pc = "select" /\ pc' = "idle" /\ UNCHANGED <<history, run, budget>>
  BY DEF InvestigationFails
<1>6. CountersType'
  BY <1>1, <1>4, <1>5 DEF BudgetInv, CountersType
<1>7. ~used'.correctedFailed => used'.turns <= case'.turns /\ used'.turns <= MaxCaseTurns
  BY <1>1, <1>4, <1>5, LimitsAssumption
  DEF BudgetInv, CountersType, BudgetCounts, CaseBudgets, Budgets, Spent, Least
<1> QED BY <1>1, <1>5, <1>6, <1>7
  DEF BudgetInv, CountersType, Spent, BudgetCounts, CaseBudgets

(* A row that the coordinator is told of leaves the turns alone. *)
LEMMA OnToolResultCounts ==
  ASSUME CountersType, NEW row, NEW spent, OnToolResult(row, spent)
  PROVE  /\ "pass" \in DOMAIN run' /\ run'.pass = run.pass
         /\ budget' = spent /\ pc' = "agent"
  BY DEF OnToolResult, CountersType

(* A read of a source is counted before it can be repeated. *)
LEMMA ReadSourceInv == ASSUME BudgetInv, ReadSource PROVE BudgetInv'
<1>1. PICK status, value, row, h :
        /\ history' = history \cup {h}
        /\ OnToolResult(row, [budget EXCEPT !.reads = @ + 1])
  BY DEF ReadSource
<1>2. "pass" \in DOMAIN run' /\ run'.pass = run.pass
      /\ budget' = [budget EXCEPT !.reads = @ + 1] /\ pc' = "agent"
  BY <1>1, OnToolResultCounts DEF BudgetInv
<1>3. budget' \in Budgets /\ budget'.reads = budget.reads + 1
      /\ budget'.caseTurns = budget.caseTurns /\ budget'.runTurns = budget.runTurns
  BY <1>2 DEF BudgetInv, CountersType, Budgets
<1>4. pc = "tools" /\ budget.reads < MaxReads /\ UNCHANGED <<case, used>>
  BY LimitsAssumption DEF ReadSource, Blocked, BudgetInv, CountersType, Budgets
<1>5. IsFiniteSet(history') /\ Cardinality(history') <= Cardinality(history) + 1
      /\ Cardinality(history') \in Nat /\ Cardinality(history) \in Nat
  <2>1. IsFiniteSet(history)
    BY DEF BudgetInv, CountersType
  <2>2. Cardinality(history) \in Nat
    BY <2>1, FS_CardinalityType
  <2>3. IsFiniteSet(history') /\ Cardinality(history') =
          IF h \in history THEN Cardinality(history) ELSE Cardinality(history) + 1
    BY <1>1, <2>1, FS_AddElement
  <2> QED BY <2>2, <2>3
<1>6. CountersType'
  BY <1>2, <1>3, <1>4, <1>5 DEF BudgetInv, CountersType
<1>7. BudgetCounts'
  BY <1>2, <1>3, <1>4, <1>5 DEF BudgetInv, CountersType, BudgetCounts, Budgets
<1>8. CaseBudgets'
  BY <1>2, <1>3, <1>4, <1>5, LimitsAssumption
  DEF BudgetInv, CountersType, BudgetCounts, CaseBudgets, Budgets
<1> QED BY <1>6, <1>7, <1>8 DEF BudgetInv

(* The tools node reads a source, or counts nothing. *)
LEMMA ToolsInv == ASSUME BudgetInv, ToolsNode PROVE BudgetInv'
<1>1. CASE ReadSource
  BY <1>1, ReadSourceInv
<1>2. CASE CacheHit \/ BlockCall
  <2>1. PICK row : OnToolResult(row, budget)
    BY <1>2 DEF CacheHit, BlockCall
  <2>2. "pass" \in DOMAIN run' /\ run'.pass = run.pass /\ budget' = budget /\ pc' = "agent"
    BY <2>1, OnToolResultCounts DEF BudgetInv
  <2>3. pc = "tools" /\ UNCHANGED <<case, history, used>>
    BY <1>2 DEF CacheHit, BlockCall
  <2> QED BY <2>2, <2>3 DEF BudgetInv, CountersType, BudgetCounts, CaseBudgets
<1> QED BY <1>1, <1>2 DEF ToolsNode

(* The Case row takes over the counters of the budget. *)
LEMMA CountedCounts ==
  ASSUME CountersType, NEW state, NEW reason
  PROVE  /\ {"reads", "turns", "asks"} \cap DOMAIN case \subseteq DOMAIN Counted(state, reason)
         /\ DOMAIN Counted(state, reason) = DOMAIN case
         /\ Counted(state, reason).reads = budget.reads
         /\ Counted(state, reason).turns = budget.caseTurns
  BY DEF CountersType, Counted

(* What is decided ends the Run with the Case row at its budget, or goes on
   with a corrected pass that has the same budget. *)
LEMMA GateNodeInv == ASSUME BudgetInv, GateNode PROVE BudgetInv'
<1>1. PICK gate :
        \/ CloseAfterInvestigation(gate) \/ ProposeTicket(gate) \/ RetryLater(gate)
        \/ RequestBusinessClarification(gate) \/ ReviseIssue(gate)
  BY DEF GateNode
<1>2. pc = "gate"
  BY DEF GateNode
<1>3. ASSUME {"reads", "turns"} \subseteq DOMAIN case',
             case'.reads = budget.reads, case'.turns = budget.caseTurns,
             pc' = "idle", UNCHANGED <<history, run, budget, used>>
      PROVE  BudgetInv'
  BY <1>2, <1>3 DEF BudgetInv, CountersType, BudgetCounts, CaseBudgets, Budgets
<1>4. CASE CloseAfterInvestigation(gate) \/ ProposeTicket(gate) \/ RetryLater(gate)
  <2>1. \E state, reason : case' = Counted(state, reason)
    BY <1>4 DEF CloseAfterInvestigation, ProposeTicket, RetryLater
  <2>2. pc' = "idle" /\ UNCHANGED <<history, run, budget, used>>
    BY <1>4 DEF CloseAfterInvestigation, ProposeTicket, RetryLater, ApplyAndEnd
  <2>3. CountersType BY DEF BudgetInv
  <2>4. {"reads", "turns"} \subseteq DOMAIN case'
        /\ case'.reads = budget.reads /\ case'.turns = budget.caseTurns
    BY <2>1, <2>3, CountedCounts DEF CountersType
  <2> QED BY <1>3, <2>2, <2>4
<1>5. CASE RequestBusinessClarification(gate)
  <2>1. CountersType BY DEF BudgetInv
  <2>2. \E state, reason : \/ case' = Counted(state, reason)
                           \/ \E n : case' = [Counted(state, reason) EXCEPT !.asks = n]
    BY <1>5 DEF RequestBusinessClarification
  <2>3. {"reads", "turns"} \subseteq DOMAIN case'
        /\ case'.reads = budget.reads /\ case'.turns = budget.caseTurns
    BY <2>1, <2>2, CountedCounts DEF CountersType
  <2>4. pc' = "idle" /\ UNCHANGED <<history, run, budget, used>>
    BY <1>5 DEF RequestBusinessClarification
  <2> QED BY <1>3, <2>3, <2>4
<1>6. CASE ReviseIssue(gate)
  <2>1. {"reads", "turns"} \subseteq DOMAIN case'
        /\ case'.reads = budget.reads /\ case'.turns = budget.caseTurns
    BY <1>6 DEF ReviseIssue, BudgetInv, CountersType
  <2>2. "pass" \in DOMAIN run' /\ run'.pass = 1
    BY <1>6 DEF ReviseIssue, BudgetInv, CountersType
  <2>3. pc' = "agent" /\ UNCHANGED <<history, budget, used>>
    BY <1>6 DEF ReviseIssue
  <2> QED BY <1>2, <2>1, <2>2, <2>3
    DEF BudgetInv, CountersType, BudgetCounts, CaseBudgets, Budgets
<1> QED BY <1>1, <1>4, <1>5, <1>6

(* Every step keeps the invariant. *)
LEMMA BudgetInvNext == BudgetInv /\ [Next]_vars => BudgetInv'
<1> SUFFICES ASSUME BudgetInv, [Next]_vars PROVE BudgetInv'
  OBVIOUS
<1>1. CASE AgentNode \/ SelectNode
  BY <1>1, AgentInv
<1>2. CASE InvestigationFails
  BY <1>2, InvestigationFailsInv
<1>3. CASE ToolsNode
  BY <1>3, ToolsInv
<1>4. CASE GateNode
  BY <1>4, GateNodeInv
<1>5. CASE BetweenRuns
  BY <1>5, BetweenRunsInv
<1>6. CASE TicketSourceChanges
  <2>1. /\ used' \in Spent
        /\ used'.turns = used.turns /\ used'.correctedFailed = used.correctedFailed
    BY <1>6 DEF TicketSourceChanges, InTrouble, BudgetInv, CountersType, Spent
  <2>2. UNCHANGED <<case, history, run, budget, pc>>
    BY <1>6 DEF TicketSourceChanges
  <2> QED BY <2>1, <2>2 DEF BudgetInv, CountersType, BudgetCounts, CaseBudgets
<1>7. CASE StayIdle \/ UNCHANGED vars
  BY <1>7 DEF StayIdle, vars, BudgetInv, CountersType, BudgetCounts, CaseBudgets
<1> QED BY <1>1, <1>2, <1>3, <1>4, <1>5, <1>6, <1>7 DEF Next

(* investigate and _apply_investigation_result: for any limits, any number of
   Runs and any worlds, a Case is investigated within its budgets. *)
THEOREM CaseStaysInBudget == Spec => []CaseBudgets
<1>1. BudgetInv => CaseBudgets
  BY DEF BudgetInv
<1> QED BY BudgetInvInit, BudgetInvNext, <1>1, PTL DEF Spec
-----------------------------------------------------------------------------
(* Decision tables *)

(* Any set of row numbers has a least one: of the intervals 1..i up to its
   members i, one contains no other. *)
LEMMA LeastRow ==
  ASSUME NEW n \in Nat, NEW S, S \subseteq 1..n, S # {}
  PROVE  \E i \in S : \A j \in S : i <= j
<1> DEFINE upTo == {1..i : i \in S}
<1>1. IsFiniteSet(1..n)
  BY FS_Interval
<1>2. \A i \in S : IsFiniteSet(1..i) /\ 1..i \subseteq 1..n
  BY <1>1, FS_Subset
<1>3. upTo \subseteq FiniteSubsetsOf(1..n) /\ upTo # {}
  BY <1>2 DEF FiniteSubsetsOf
<1>4. IsWellFoundedOn(StrictSubsetOrdering(1..n), FiniteSubsetsOf(1..n))
  BY FS_StrictSubsetOrderingWellFounded
<1>5. PICK T \in upTo : \A U \in upTo : ~(<<U, T>> \in StrictSubsetOrdering(1..n))
  <2> HIDE DEF upTo
  <2> QED BY <1>3, <1>4, WFMin
<1>6. PICK i \in S : T = 1..i
  OBVIOUS
<1>7. ASSUME NEW j \in S, j < i PROVE FALSE
  <2>1. 1..j \subseteq 1..i /\ i \in 1..i /\ i \notin 1..j
    BY <1>7
  <2>2. <<1..j, T>> \in StrictSubsetOrdering(1..n)
    BY <1>2, <1>6, <2>1 DEF StrictSubsetOrdering
  <2> QED BY <1>5, <2>2
<1> QED BY <1>7

(* A table with a row that holds is decided by one that holds when no earlier
   row does. *)
LEMMA FirstRowDecides ==
  ASSUME NEW table, NEW n \in Nat, DOMAIN table = 1..n, \E i \in 1..n : table[i][1]
  PROVE  \E i \in 1..n :
            /\ table[i][1]
            /\ \A j \in 1..n : j < i => ~table[j][1]
            /\ FirstRow(table) = table[i][2]
<1> DEFINE hits == {i \in DOMAIN table : table[i][1]}
           first == CHOOSE i \in hits : \A j \in hits : i <= j
<1>1. \E i \in hits : \A j \in hits : i <= j
  BY LeastRow
<1>2. first \in hits /\ \A j \in hits : first <= j
  BY <1>1
<1>3. FirstRow(table) = table[first][2]
  BY DEF FirstRow
<1> QED BY <1>2, <1>3

(* ObservationValidator: no candidate is accepted while a retry is open, and
   the rejection then asks for no correction unless nothing can be parsed. *)
LEMMA OpenRetryRejects ==
  ASSUME NEW candidate, NEW issue, NEW rows, NEW pending, pending # NONE, NEW limits
  PROVE  Rejection(candidate, issue, rows, pending, limits)
            \in {"INVALID_CANDIDATE_SCHEMA", "PENDING_EXACT_RETRY"}
<1> DEFINE table == <<
      <<candidate = "malformed", "INVALID_CANDIDATE_SCHEMA">>,
      <<pending # NONE, "PENDING_EXACT_RETRY">>,
      <<TurnsSpent(limits), "PLANNING_BUDGET_EXCEEDED">>,
      <<candidate = "finish",
        IF Evaluable(issue, rows) THEN NONE ELSE "PREMATURE_FINISH">>,
      <<candidate = "misaddressed", "INVALID_EVIDENCE_REQUIREMENT">>,
      <<candidate \notin RelevantTools(issue), "TOOL_NOT_RELEVANT_TO_ISSUE">>,
      <<candidate \in Tools /\ Satisfied(rows, candidate), "DUPLICATE_COMPLETED_READ">>,
      <<candidate \in Tools /\ UnavailableFinal(rows, pending, candidate),
        "RETRY_EXHAUSTED">>,
      <<TRUE, NONE>> >>
<1>a. DOMAIN table = 1..9
  OBVIOUS
<1>b. table[2][1]
  <2>1. table[2] = <<pending # NONE, "PENDING_EXACT_RETRY">>
    OBVIOUS
  <2>2. (pending # NONE) = TRUE
    OBVIOUS
  <2> QED BY <2>1, <2>2
<1>1. DOMAIN table = 1..9 /\ table[2][1]
  BY <1>a, <1>b
<1>2. PICK i \in 1..9 : /\ \A j \in 1..9 : j < i => ~table[j][1]
                        /\ FirstRow(table) = table[i][2]
  <2> HIDE DEF table
  <2>1. \E i \in 1..9 : table[i][1]
    BY <1>1
  <2> QED BY <1>1, <2>1, FirstRowDecides
<1>3. i \in {1, 2}
  <2> HIDE DEF table
  <2> QED BY <1>1, <1>2
<1> QED BY <1>2, <1>3 DEF Rejection

-----------------------------------------------------------------------------
(* What the variables hold, and what of the retry the nodes hand on.       *)

CaseStates == {"new", "proposed", "awaiting_retry", "awaiting_input", "closed"}
Values == {NONE, "delivered", "shipped", "other", "elsewhere", "within", "overdue",
           "contradicts", "handed", "reception", "eligible", "ineligible",
           "not_applicable", "unresolved", "active"}
Arguments(tool) == IF tool \in PerIssue THEN Issues ELSE {NONE}
Calls == [tool : Tools, issue : Issues]
Rows == [status : Statuses, value : Values, issue : Issues \cup {NONE}, source : Nat,
         attempt : Nat, actual : BOOLEAN]
ReadRows == [run : Nat, tool : Tools, issue : Issues \cup {NONE}, source : Nat,
             attempt : Nat, status : Statuses \ {"not_queried"}, value : Values]
Queries == Tools \X (Issues \cup {NONE}) \X Nat
Entries == [attempts : Nat, status : Statuses, value : Values]
RunRows == [n : Nat, pass : {0, 1}, pending : Calls \cup {NoCall}, pendingSource : Nat,
            corrected : BOOLEAN, stop : BOOLEAN, exhausted : BOOLEAN, startedAt : Nat,
            checked : BOOLEAN, elsewhere : BOOLEAN]

CaseRowType ==
    /\ DOMAIN case = {"state", "issue", "reads", "turns", "asks", "reason"}
    /\ case.state \in CaseStates /\ case.issue \in Issues
    /\ case.reads \in Nat /\ case.turns \in Nat /\ case.asks \in Nat

CacheType ==
    /\ DOMAIN cache \subseteq Queries
    /\ \A k \in DOMAIN cache : cache[k] \in Entries /\ k[2] \in Arguments(k[1])

TypeOK ==
    /\ world \in World
    /\ source \in [revision : Nat, active : SUBSET Issues]
    /\ CaseRowType
    /\ ledger \in [asked : BOOLEAN, answer : Answers]
    /\ history \subseteq ReadRows
    /\ \A h \in history : h.issue \in Arguments(h.tool)
    /\ CacheType
    /\ results \in [Tools -> Rows]
    /\ \A t \in Tools : ~Missing(results[t]) => results[t].issue \in Arguments(t)
    /\ last \in Tools \cup {NONE}
    /\ run \in RunRows
    /\ budget \in Budgets
    /\ call \in Calls \cup {NoCall}
    /\ pc \in {"idle", "agent", "select", "tools", "gate"}
    /\ used \in Spent

(* An open retry is of a tool whose only attempt failed for the moment; what
   the tools node is called with while one is open is that retry. *)
RetryOnce ==
    /\ last # NONE => Temporary(results[last]) /\ results[last].attempt = 1
    /\ pc # "idle" /\ RetryOpen =>
         Temporary(results[run.pending.tool]) /\ results[run.pending.tool].attempt = 1
    /\ pc = "tools" => call \in Calls
    /\ pc = "tools" /\ RetryOpen => call = run.pending

RunInv == TypeOK /\ RetryOnce

(* The names of tools and issues differ from what stands for none. *)
LEMMA Names ==
    /\ NONE \notin Tools /\ NONE \notin Issues /\ NONE \in Values
    /\ NoCall \notin Calls /\ NoCall.tool = NONE
    /\ Issues = {SNR, STALLED} /\ SNR # STALLED
    /\ \A t \in Tools, i \in Issues : IssueArgument(t, i) \in Arguments(t)
    /\ \A t \in Tools : Arguments(t) \subseteq Issues \cup {NONE}
  BY DEF NONE, Tools, Issues, SNR, STALLED, Values, NoCall, Calls, IssueArgument, Arguments,
     PerIssue

(* What a source says is one of the values. *)
LEMMA SourceValueType ==
  ASSUME world \in World, NEW t \in Tools, NEW i \in Issues
  PROVE  SourceValue(t, i) \in Values
<1>1. world.policy[i] \in Values
  BY DEF World, Values
<1>2. ASSUME t # "policy", t # "tickets" PROVE world[t] \in Values
  BY <1>2 DEF World, Values, Tools, NONE
<1> QED BY <1>1, <1>2 DEF SourceValue, Values, NONE

(* The entry of a key that the cache does not know is that of no read. *)
LEMMA EntryType ==
  ASSUME CacheType, NEW key
  PROVE  Entry(cache, key) \in Entries
  BY DEF CacheType, Entry, NoEntry, Entries, Values, Statuses, NONE

(* A Case starts with rows that nothing was read for. *)
LEMMA RunInvInit == Init => RunInv
<1> SUFFICES ASSUME Init PROVE RunInv
  OBVIOUS
<1>1. NotQueried \in Rows /\ NoRun \in RunRows /\ NoCall.tool = NONE
  BY DEF NotQueried, Rows, NoRun, RunRows, Statuses, Values, NoCall, NONE
<1>2. CaseRowType
  BY DEF Init, CaseRowType, CaseStates
<1>3. CacheType
  BY DEF Init, CacheType
<1>4. TypeOK
  BY <1>1, <1>2, <1>3, WorldsAssumption
  DEF Init, TypeOK, NewLedger, Answers, NotQueried, Missing, Budgets, Spent
<1>5. RetryOnce
  BY DEF Init, RetryOnce
<1> QED BY <1>4, <1>5 DEF RunInv

(* A new Run has rows, budget and coordinator of its own. *)
LEMMA StartRunType ==
  ASSUME TypeOK, IsFiniteSet(history), NEW checked \in BOOLEAN, NEW elsewhere \in BOOLEAN,
         StartRun(checked, elsewhere)
  PROVE  /\ run' \in RunRows /\ run'.pending = NoCall
         /\ run'.n = run.n + 1 /\ run'.pass = 0 /\ run'.startedAt = source.revision
         /\ results' = [t \in Tools |-> NotQueried]
         /\ last' = NONE /\ budget' \in Budgets /\ budget'.runTurns = 0
         /\ call' = NoCall /\ pc' = "agent"
<1>1. ReadsKnown \in Nat
  BY FS_CardinalityType DEF ReadsKnown, TypeOK, CaseRowType
<1>2. source.revision \in Nat /\ run.n \in Nat
  BY DEF TypeOK, RunRows
<1>3. run' = [n |-> run.n + 1, pass |-> 0, pending |-> NoCall, pendingSource |-> 0,
              corrected |-> FALSE, stop |-> FALSE, exhausted |-> FALSE,
              startedAt |-> source.revision, checked |-> checked, elsewhere |-> elsewhere]
  BY DEF StartRun, NoRun
<1>4. run' \in RunRows /\ run'.pending = NoCall /\ run'.pass = 0
      /\ run'.n = run.n + 1 /\ run'.startedAt = source.revision
  BY <1>2, <1>3 DEF RunRows
<1>5. budget' \in Budgets /\ budget'.runTurns = 0
  BY <1>1 DEF StartRun, TypeOK, CaseRowType, Budgets
<1> QED BY <1>4, <1>5 DEF StartRun

(* The cache that is made of the tool rows. *)
LEMMA RebuildCacheType ==
  ASSUME TypeOK, IsFiniteSet(history),
         cache' = RebuildCache(history, [tool \in Tools |-> Revision(tool)])
  PROVE  CacheType'
<1> DEFINE source_ == [tool \in Tools |-> Revision(tool)]
           keys == {<<h.tool, h.issue, source_[h.tool]>> : h \in history}
           asked(key) == {h \in history : h.tool = key[1] /\ h.issue = key[2]}
           read(key) == {h \in asked(key) : h.source = key[3]}
           settled(key) == {h \in read(key) : h.status # "retryable_error"}
           latest(key) ==
              IF settled(key) # {} THEN CHOOSE h \in settled(key) : TRUE
              ELSE IF read(key) # {} THEN CHOOSE h \in read(key) : TRUE
              ELSE NoEntry
<1>1. DOMAIN cache' = keys /\ \A k \in keys :
        cache'[k] = [attempts |-> Cardinality(asked(k)), status |-> latest(k).status,
                     value |-> latest(k).value]
  BY DEF RebuildCache
<1>2. \A k \in keys : Cardinality(asked(k)) \in Nat
  BY FS_Subset, FS_CardinalityType
<1>3. \A k \in keys : latest(k) \in history \/ latest(k) = NoEntry
  OBVIOUS
<1>4. \A k \in keys : latest(k).status \in Statuses /\ latest(k).value \in Values
  BY <1>3 DEF TypeOK, ReadRows, NoEntry, Statuses, Values, NONE
<1>5. \A t \in Tools : Revision(t) \in Nat
  BY DEF TypeOK, Revision
<1>6. \A k \in keys : k \in Queries /\ k[2] \in Arguments(k[1])
  BY <1>5 DEF TypeOK, ReadRows, Queries
<1>7. \A k \in keys : cache'[k] \in Entries
  <2>1. SUFFICES ASSUME NEW k \in keys PROVE cache'[k] \in Entries
    OBVIOUS
  <2> DEFINE count == Cardinality(asked(k))
             found == latest(k)
  <2>2. cache'[k] = [attempts |-> count, status |-> found.status, value |-> found.value]
    BY <1>1
  <2>3. count \in Nat /\ found.status \in Statuses /\ found.value \in Values
    BY <1>2, <1>4
  <2> HIDE DEF count, found
  <2> QED BY <2>2, <2>3 DEF Entries
<1> HIDE DEF keys
<1> QED BY <1>1, <1>6, <1>7 DEF CacheType
(* The steps between Runs. *)
LEMMA RunInvBetween ==
  ASSUME RunInv, IsFiniteSet(history), BetweenRuns PROVE RunInv'
<1>1. ASSUME NEW checked \in BOOLEAN, NEW elsewhere \in BOOLEAN, StartRun(checked, elsewhere),
             CacheType', ledger' \in [asked : BOOLEAN, answer : Answers],
             used' \in Spent, UNCHANGED <<world, source, case, history>>
      PROVE  RunInv'
  <2>1. /\ run' \in RunRows /\ run'.pending = NoCall
        /\ results' = [t \in Tools |-> NotQueried]
        /\ last' = NONE /\ budget' \in Budgets /\ call' = NoCall /\ pc' = "agent"
    BY <1>1, StartRunType DEF RunInv
  <2>2. results' \in [Tools -> Rows] /\ \A t \in Tools : Missing(results'[t])
    BY <2>1 DEF NotQueried, Missing, Rows, Statuses, Values, NONE
  <2>3. TypeOK'
    BY <1>1, <2>1, <2>2 DEF RunInv, TypeOK, CaseRowType
  <2>4. RetryOnce'
    BY <2>1 DEF RetryOnce, RetryOpen
  <2> QED BY <2>3, <2>4 DEF RunInv
<1>2. ASSUME FindCache, UNCHANGED history PROVE CacheType' /\ used' \in Spent
  <2>1. InTrouble \in Spent
    BY DEF InTrouble, RunInv, TypeOK, Spent
  <2> QED BY <1>2, <2>1, RebuildCacheType DEF FindCache, RunInv, TypeOK, CacheType
<1>3. CASE FirstInvestigation
  BY <1>1, <1>3 DEF FirstInvestigation, RunInv, TypeOK, CacheType
<1>4. CASE AnswerClarification
  <2>1. PICK reply \in Answers \ {NONE}, elsewhere \in BOOLEAN :
          /\ ledger' = IF ledger.answer = NONE THEN Answer(ledger, reply) ELSE ledger
          /\ StartRun(FactStatus(ledger') = "known_true", elsewhere)
    BY <1>4 DEF AnswerClarification
  <2>2. ledger' \in [asked : BOOLEAN, answer : Answers]
    BY <2>1 DEF Answer, RunInv, TypeOK
  <2>3. (FactStatus(ledger') = "known_true") \in BOOLEAN
    OBVIOUS
  <2> QED BY <1>1, <1>2, <1>4, <2>1, <2>2, <2>3 DEF AnswerClarification
<1>5. CASE Retry
  BY <1>1, <1>2, <1>5 DEF Retry, RunInv, TypeOK
<1>6. CASE RetryFails
  <2>1. run' = [n |-> run.n + 1, pass |-> 0, pending |-> NoCall, pendingSource |-> 0,
                corrected |-> FALSE, stop |-> FALSE, exhausted |-> FALSE,
                startedAt |-> source.revision, checked |-> FALSE, elsewhere |-> FALSE]
    BY <1>6 DEF RetryFails, NoRun
  <2>2. run' \in RunRows /\ run'.pending = NoCall
    BY <2>1 DEF RunInv, TypeOK, RunRows
  <2>3. TypeOK'
    BY <1>6, <2>2 DEF RetryFails, RunInv, TypeOK, CaseRowType, CacheType
  <2>4. RetryOnce'
    BY <1>6, <2>2 DEF RetryFails, RunInv, RetryOnce, RetryOpen
  <2> QED BY <2>3, <2>4 DEF RunInv
<1>7. CASE CloseAtClarificationLimit \/ ProposalLapses
  <2>1. CaseRowType' /\ pc = "idle"
    BY <1>7 DEF CloseAtClarificationLimit, ProposalLapses, RunInv, TypeOK, CaseRowType, CaseStates
  <2>2. UNCHANGED <<world, source, ledger, history, cache, results, last, run, budget, call,
                    pc, used>>
    BY <1>7 DEF CloseAtClarificationLimit, ProposalLapses
  <2> QED BY <2>1, <2>2 DEF RunInv, TypeOK, CacheType, RetryOnce, RetryOpen
<1> QED BY <1>3, <1>4, <1>5, <1>6, <1>7 DEF BetweenRuns

(* The agent node: the exact retry is the call that the tools node gets. *)
LEMMA RunInvAgent == ASSUME RunInv, AgentNode PROVE RunInv'
<1>1. UNCHANGED <<world, source, case, ledger, history, cache, results, last>>
  BY DEF AgentNode, RetrySourceChanged, EmitExactRetry, StopObserving, TurnRefused, TakeTurn
<1>2. /\ pc = "agent" /\ pc' \in {"select", "tools", "gate"}
      /\ call' \in Calls \cup {NoCall}
      /\ pc' = "tools" => call' = run.pending /\ RetryOpen /\ UNCHANGED run
  BY DEF AgentNode, RetrySourceChanged, EmitExactRetry, StopObserving, TurnRefused, TakeTurn,
     RunInv, TypeOK, RunRows, RetryDue, RetryOpen
<1>3. run' \in RunRows /\ run'.pending \in {run.pending, NoCall}
  <2>1. CASE RetrySourceChanged
    BY <2>1 DEF RetrySourceChanged, RunInv, TypeOK, RunRows
  <2>2. CASE TurnRefused
    BY <2>2 DEF TurnRefused, RunInv, TypeOK, RunRows
  <2>3. CASE EmitExactRetry \/ StopObserving \/ TakeTurn
    BY <2>3 DEF EmitExactRetry, StopObserving, TakeTurn, RunInv, TypeOK
  <2> QED BY <2>1, <2>2, <2>3 DEF AgentNode
<1>4. budget' \in Budgets /\ used' \in Spent
  <2>1. CASE TakeTurn
    <3>1. /\ budget \in [reads : Nat, caseTurns : Nat, runTurns : Nat]
          /\ used \in [troubles : Nat, turns : Nat, correctedFailed : BOOLEAN]
      BY DEF RunInv, TypeOK, Budgets, Spent
    <3>2. budget' = [budget EXCEPT !.caseTurns = budget.caseTurns + 1,
                                   !.runTurns = budget.runTurns + 1]
          /\ used' = [used EXCEPT !.turns = used.turns + 1]
      BY <2>1 DEF TakeTurn
    <3>3. budget' = [reads |-> budget.reads, caseTurns |-> budget.caseTurns + 1,
                     runTurns |-> budget.runTurns + 1]
      BY <3>1, <3>2
    <3>5. budget' \in Budgets
      BY <3>1, <3>3 DEF Budgets
    <3>4. used' \in Spent
      BY <3>1, <3>2 DEF Spent
    <3> QED BY <3>4, <3>5
  <2>2. CASE ~TakeTurn
    BY <2>2 DEF AgentNode, RetrySourceChanged, EmitExactRetry, StopObserving, TurnRefused,
       RunInv, TypeOK
  <2> QED BY <2>1, <2>2
<1>5. TypeOK'
  BY <1>1, <1>2, <1>3, <1>4 DEF RunInv, TypeOK, CaseRowType, CacheType
<1>6. RetryOnce'
  BY <1>1, <1>2, <1>3 DEF RunInv, TypeOK, RunRows, RetryOnce, RetryOpen
<1> QED BY <1>5, <1>6 DEF RunInv

(* The selection: with a retry open nothing is accepted, so the tools node is
   called with a new query only when there is none. *)
LEMMA RunInvSelect == ASSUME RunInv, SelectNode PROVE RunInv'
<1>1. UNCHANGED <<world, source, case, ledger, history, cache, results, last, budget, used>>
  BY DEF SelectNode, AcceptObservation, AcceptFinish, CorrectSelector, RejectObservation
<1>2. pc = "select" /\ pc' \in {"agent", "tools", "gate"}
  BY DEF SelectNode, AcceptObservation, AcceptFinish, CorrectSelector, RejectObservation
<1>3. run' \in RunRows /\ run'.pending = run.pending
  <2>1. CASE CorrectSelector
    BY <2>1 DEF CorrectSelector, RunInv, TypeOK, RunRows
  <2>2. CASE ~CorrectSelector
    BY <2>2 DEF SelectNode, AcceptObservation, AcceptFinish, RejectObservation, RunInv, TypeOK
  <2> QED BY <2>1, <2>2
<1>4. /\ call' \in Calls \cup {NoCall}
      /\ pc' = "tools" => call' \in Calls /\ ~RetryOpen
  <2>1. CASE AcceptObservation
    <3>1. PICK tool \in Tools :
            RejectionOf(tool) = NONE /\ call' = [tool |-> tool, issue |-> case.issue]
      BY <2>1 DEF AcceptObservation
    <3>2. call' \in Calls
      BY <3>1 DEF Calls, RunInv, TypeOK, CaseRowType
    <3>3. run.pending.tool = NONE
      BY <3>1, OpenRetryRejects DEF RejectionOf, NONE
    <3>4. run.pending \in Calls \cup {NoCall}
      BY DEF RunInv, TypeOK, RunRows
    <3>5. ~RetryOpen
      BY <3>3, <3>4, Names DEF RetryOpen, Calls
    <3> QED BY <3>2, <3>5
  <2>2. CASE ~AcceptObservation
    BY <2>2 DEF SelectNode, AcceptFinish, CorrectSelector, RejectObservation, RunInv, TypeOK
  <2> QED BY <2>1, <2>2
<1>5. TypeOK'
  BY <1>1, <1>2, <1>3, <1>4 DEF RunInv, TypeOK, CaseRowType, CacheType
<1>6. RetryOnce'
  BY <1>1, <1>2, <1>3, <1>4 DEF RunInv, RetryOnce, RetryOpen
<1> QED BY <1>5, <1>6 DEF RunInv

(* A provider failure. *)
LEMMA RunInvFails ==
  ASSUME RunInv, BudgetInv, InvestigationFails PROVE RunInv'
<1>1. IsFiniteSet({h \in history : h.run = run.n})
  BY FS_Subset DEF BudgetInv, CountersType
<1>2. RunReads \in Nat
  BY <1>1, FS_CardinalityType DEF RunReads
<1>3. CaseRowType'
  <2>1. CASE run.pass = 0
    BY <1>2, <2>1, LimitsAssumption
    DEF InvestigationFails, UsageAfterFailure, RunInv, TypeOK, CaseRowType, CaseStates, Budgets,
        Least
  <2>2. CASE run.pass # 0
    BY <1>2, <2>2, LimitsAssumption
    DEF InvestigationFails, UsageAfterFailure, RunInv, TypeOK, CaseRowType, CaseStates, Budgets,
        Least, Greatest
  <2> QED BY <2>1, <2>2
<1>4. used' \in Spent
  BY InvestigationFailsInv DEF BudgetInv, CountersType
<1>5. TypeOK'
  BY <1>3, <1>4 DEF InvestigationFails, RunInv, TypeOK, CacheType
<1>6. RetryOnce'
  BY DEF InvestigationFails, RunInv, RetryOnce, RetryOpen
<1> QED BY <1>5, <1>6 DEF RunInv

(* A row of the called tool. *)
LEMMA RowType ==
  ASSUME TypeOK, call \in Calls, NEW status \in Statuses, NEW value \in Values,
         NEW actual \in BOOLEAN
  PROVE  LET row == Row(status, value, actual)
         IN  /\ row \in Rows /\ row.issue \in Arguments(call.tool)
             /\ row.attempt = results[call.tool].attempt + 1
             /\ row.source = Revision(call.tool)
             /\ row.status = status /\ row.value = value
<1>1. call.tool \in Tools /\ call.issue \in Issues
  BY DEF Calls
<1>2. Revision(call.tool) \in Nat /\ results[call.tool].attempt \in Nat
  BY <1>1 DEF TypeOK, Revision, Rows
<1>3. IssueArgument(call.tool, call.issue) \in Arguments(call.tool)
      /\ IssueArgument(call.tool, call.issue) \in Issues \cup {NONE}
  BY <1>1, Names
<1> QED BY <1>2, <1>3 DEF Row, Rows

(* What the coordinator makes of a row: a first failure opens a retry of the
   call, whatever else closes it. *)
LEMMA OnToolResultInv ==
  ASSUME RunInv, pc = "tools", NEW row \in Rows, row.issue \in Arguments(call.tool),
         row.attempt = results[call.tool].attempt + 1,
         NEW spent \in Budgets, OnToolResult(row, spent)
  PROVE  /\ results' = [results EXCEPT ![call.tool] = row]
         /\ results' \in [Tools -> Rows]
         /\ \A t \in Tools : ~Missing(results'[t]) => results'[t].issue \in Arguments(t)
         /\ last' \in Tools \cup {NONE}
         /\ run' \in RunRows /\ run'.n = run.n /\ run'.startedAt = run.startedAt
         /\ run'.pending = (IF OpensRetry(row) THEN call ELSE NoCall)
         /\ RetryOpen => run'.pending = NoCall
         /\ budget' = spent /\ call' = NoCall /\ pc' = "agent"
         /\ RetryOnce'
<1>1. call \in Calls /\ call.tool \in Tools
  BY DEF RunInv, RetryOnce, Calls
<1>2. results' = [results EXCEPT ![call.tool] = row] /\ results' \in [Tools -> Rows]
      /\ results'[call.tool] = row /\ results[call.tool] \in Rows
  BY <1>1 DEF OnToolResult, RunInv, TypeOK
<1>3. \A t \in Tools : ~Missing(results'[t]) => results'[t].issue \in Arguments(t)
  BY <1>1, <1>2 DEF RunInv, TypeOK
<1>4. /\ last' \in Tools \cup {NONE} /\ budget' = spent /\ call' = NoCall /\ pc' = "agent"
      /\ last' # NONE => last' = call.tool /\ OpensRetry(row)
  BY <1>1 DEF OnToolResult
<1>5. PICK stop \in BOOLEAN, from \in Nat :
        run' = [run EXCEPT !.pending = IF OpensRetry(row) THEN call ELSE NoCall,
                           !.pendingSource = from, !.stop = stop]
  <2> DEFINE pending == IF OpensRetry(row) THEN call ELSE NoCall
             from == IF pending = NoCall THEN 0 ELSE row.source
             stop == run.stop \/ StopsAfter(case.issue, world.target, call.tool, results',
                                            pending.tool, budget')
  <2>1. run' = [run EXCEPT !.pending = pending, !.pendingSource = from, !.stop = stop]
    BY DEF OnToolResult
  <2>2. from \in Nat /\ stop \in BOOLEAN
    BY DEF Rows
  <2> QED BY <2>1, <2>2
<1>6. /\ run' \in RunRows /\ run'.n = run.n /\ run'.startedAt = run.startedAt
      /\ run'.pending = (IF OpensRetry(row) THEN call ELSE NoCall)
  <2>1. run \in RunRows
    BY DEF RunInv, TypeOK
  <2> QED BY <1>1, <1>5, <2>1 DEF RunRows
<1>7. RetryOpen => ~OpensRetry(row)
  BY DEF RunInv, RetryOnce, OpensRetry
<1>8. RetryOnce'
  <2>1. last' # NONE => Temporary(results'[last']) /\ results'[last'].attempt = 1
    BY <1>2, <1>4 DEF OpensRetry
  <2>2. run'.pending # NoCall =>
          /\ Temporary(results'[run'.pending.tool]) /\ results'[run'.pending.tool].attempt = 1
    BY <1>2, <1>6 DEF OpensRetry
  <2> QED BY <1>4, <2>1, <2>2 DEF RetryOnce, RetryOpen
<1>9. RetryOpen => run'.pending = NoCall
  BY <1>6, <1>7
<1> QED BY <1>2, <1>3, <1>4, <1>6, <1>8, <1>9
(* A cache that takes a result in, and one that keeps it. *)
LEMMA StoreType ==
  ASSUME CacheType, NEW key \in Queries, key[2] \in Arguments(key[1]),
         NEW status \in Statuses, NEW value \in Values, cache' = Store(cache, key, status, value)
  PROVE  /\ CacheType'
         /\ DOMAIN cache' = DOMAIN cache \cup {key}
         /\ cache'[key] = [attempts |-> Entry(cache, key).attempts + 1,
                           status |-> status, value |-> value]
         /\ \A k \in DOMAIN cache : k # key => cache'[k] = cache[k]
<1>1. Entry(cache, key).attempts \in Nat
  BY EntryType DEF Entries
<1>2. /\ DOMAIN cache' = DOMAIN cache \cup {key}
      /\ cache'[key] = [attempts |-> Entry(cache, key).attempts + 1,
                        status |-> status, value |-> value]
      /\ \A k \in DOMAIN cache : k # key => cache'[k] = cache[k]
  BY DEF Store
<1>3. cache'[key] \in Entries
  BY <1>1, <1>2 DEF Entries
<1> QED BY <1>2, <1>3 DEF CacheType

(* A read of the source: what it says is stored and recorded. *)
LEMMA ReadSourceSteps ==
  ASSUME RunInv, ReadSource
  PROVE  \E status \in Statuses \ {"not_queried"}, value \in Values, h \in ReadRows :
            /\ value = IF status = "success" THEN SourceValue(call.tool, call.issue) ELSE NONE
            /\ h = [run |-> run.n, tool |-> call.tool,
                    issue |-> IssueArgument(call.tool, call.issue),
                    source |-> Revision(call.tool), attempt |-> results[call.tool].attempt + 1,
                    status |-> status, value |-> value]
            /\ history' = history \cup {h}
            /\ cache' = Store(cache, CallKey, status, value)
            /\ OnToolResult(Row(status, value, TRUE), [budget EXCEPT !.reads = @ + 1])
<1>1. call \in Calls /\ call.tool \in Tools /\ call.issue \in Issues
  BY DEF RunInv, RetryOnce, ReadSource, Calls
<1>2. PICK status \in Statuses \ {"not_queried"} :
        LET value == IF status = "success" THEN SourceValue(call.tool, call.issue) ELSE NONE
            row == Row(status, value, TRUE)
        IN  /\ status # "success" => call.tool \in FaultyTools
            /\ cache' = Store(cache, CallKey, status, value)
            /\ history' = history \cup
                 {[run |-> run.n, tool |-> call.tool, issue |-> row.issue,
                   source |-> row.source, attempt |-> row.attempt,
                   status |-> status, value |-> value]}
            /\ OnToolResult(row, [budget EXCEPT !.reads = @ + 1])
  BY DEF ReadSource
<1> DEFINE value == IF status = "success" THEN SourceValue(call.tool, call.issue) ELSE NONE
           h == [run |-> run.n, tool |-> call.tool,
                 issue |-> IssueArgument(call.tool, call.issue),
                 source |-> Revision(call.tool), attempt |-> results[call.tool].attempt + 1,
                 status |-> status, value |-> value]
<1>3. value \in Values
  BY <1>1, SourceValueType, Names DEF RunInv, TypeOK
<1>4. h \in ReadRows
  <2>1. run.n \in Nat /\ results[call.tool].attempt \in Nat /\ Revision(call.tool) \in Nat
    BY <1>1 DEF RunInv, TypeOK, RunRows, Rows, Revision
  <2>2. IssueArgument(call.tool, call.issue) \in Issues \cup {NONE}
    BY <1>1, Names
  <2> HIDE DEF value
  <2> QED BY <1>1, <1>3, <2>1, <2>2 DEF ReadRows
<1>5. history' = history \cup {h}
  BY <1>2 DEF Row
<1>6. /\ cache' = Store(cache, CallKey, status, value)
      /\ OnToolResult(Row(status, value, TRUE), [budget EXCEPT !.reads = @ + 1])
  BY <1>2
<1> HIDE DEF h
<1>7. h = [run |-> run.n, tool |-> call.tool,
           issue |-> IssueArgument(call.tool, call.issue),
           source |-> Revision(call.tool), attempt |-> results[call.tool].attempt + 1,
           status |-> status, value |-> value]
  BY DEF h
<1> QED BY <1>3, <1>4, <1>5, <1>6, <1>7

(* The key of a call is one of the cache's. *)
LEMMA CallKeyType ==
  ASSUME RunInv, pc = "tools"
  PROVE  /\ CallKey \in Queries /\ CallKey[2] \in Arguments(CallKey[1])
         /\ CallKey = <<call.tool, IssueArgument(call.tool, call.issue), Revision(call.tool)>>
<1>1. call.tool \in Tools /\ call.issue \in Issues
  BY DEF RunInv, RetryOnce, Calls
<1>2. Revision(call.tool) \in Nat
  BY <1>1 DEF RunInv, TypeOK, Revision
<1> QED BY <1>1, <1>2, Names DEF CallKey, Key, Queries

(* The tools node answers from the cache, refuses the call, or reads. *)
LEMMA RunInvTools == ASSUME RunInv, ToolsNode PROVE RunInv'
<1>1. pc = "tools" /\ call \in Calls /\ UNCHANGED <<world, source, case, ledger, used>>
  BY DEF ToolsNode, CacheHit, BlockCall, ReadSource, RunInv, RetryOnce
<1>2. ASSUME NEW status \in Statuses, NEW value \in Values, NEW actual \in BOOLEAN,
             NEW spent \in Budgets, OnToolResult(Row(status, value, actual), spent),
             CacheType', history' \subseteq ReadRows,
             \A h \in history' : h.issue \in Arguments(h.tool)
      PROVE  RunInv'
  <2> DEFINE row == Row(status, value, actual)
  <2>1. /\ row \in Rows /\ row.issue \in Arguments(call.tool)
        /\ row.attempt = results[call.tool].attempt + 1
    BY <1>1, <1>2, RowType DEF RunInv
  <2> HIDE DEF row
  <2>2. OnToolResult(row, spent)
    BY <1>2 DEF row
  <2>3. /\ results' \in [Tools -> Rows]
        /\ \A t \in Tools : ~Missing(results'[t]) => results'[t].issue \in Arguments(t)
        /\ last' \in Tools \cup {NONE} /\ run' \in RunRows
        /\ budget' = spent /\ call' = NoCall /\ pc' = "agent"
        /\ RetryOnce'
    BY <1>1, <2>1, <2>2, OnToolResultInv
  <2>4. TypeOK'
    BY <1>1, <1>2, <2>3 DEF RunInv, TypeOK, CaseRowType
  <2> QED BY <2>3, <2>4 DEF RunInv
<1>3. budget \in Budgets /\ [budget EXCEPT !.reads = @ + 1] \in Budgets
  BY DEF RunInv, TypeOK, Budgets
<1>4. CASE CacheHit
  <2>1. Entry(cache, CallKey).status \in Statuses /\ Entry(cache, CallKey).value \in Values
    BY EntryType DEF RunInv, TypeOK, Entries
  <2> QED BY <1>2, <1>3, <1>4, <2>1 DEF CacheHit, RunInv, TypeOK, CacheType
<1>5. CASE BlockCall
  <2>1. "non_retryable_error" \in Statuses /\ NONE \in Values
    BY DEF Statuses, Values
  <2> QED BY <1>2, <1>3, <1>5, <2>1 DEF BlockCall, RunInv, TypeOK, CacheType
<1>6. CASE ReadSource
  <2>1. PICK status \in Statuses \ {"not_queried"}, value \in Values, h \in ReadRows :
            /\ h.tool = call.tool /\ h.issue = IssueArgument(call.tool, call.issue)
            /\ history' = history \cup {h}
            /\ cache' = Store(cache, CallKey, status, value)
            /\ OnToolResult(Row(status, value, TRUE), [budget EXCEPT !.reads = @ + 1])
    BY <1>6, ReadSourceSteps
  <2>2. CacheType'
    BY <1>1, <2>1, CallKeyType, StoreType DEF RunInv, TypeOK
  <2>3. history' \subseteq ReadRows /\ \A r \in history' : r.issue \in Arguments(r.tool)
    BY <1>1, <2>1, Names DEF RunInv, TypeOK, Calls
  <2> QED BY <1>2, <1>3, <2>1, <2>2, <2>3
<1> QED BY <1>4, <1>5, <1>6 DEF ToolsNode
(* The Case row that takes over the budget keeps its other columns. *)
LEMMA CountedType ==
  ASSUME TypeOK, NEW state \in CaseStates, NEW reason
  PROVE  LET row == Counted(state, reason)
         IN  /\ DOMAIN row = DOMAIN case
             /\ row.state = state /\ row.reason = reason
             /\ row.issue = case.issue /\ row.asks = case.asks
             /\ row.reads = budget.reads /\ row.turns = budget.caseTurns
  BY DEF Counted, TypeOK, CaseRowType

(* The decision of the gate ends the Run or hands the last row's retry to a
   corrected pass. *)
LEMMA RunInvGate == ASSUME RunInv, GateNode PROVE RunInv'
<1>1. PICK gate :
        \/ CloseAfterInvestigation(gate) \/ ProposeTicket(gate) \/ RetryLater(gate)
        \/ RequestBusinessClarification(gate) \/ ReviseIssue(gate)
  BY DEF GateNode
<1>2. budget.reads \in Nat /\ budget.caseTurns \in Nat /\ TypeOK
  BY DEF RunInv, TypeOK, Budgets
<1>3. ASSUME CaseRowType', ledger' \in [asked : BOOLEAN, answer : Answers], pc' = "idle",
             UNCHANGED <<world, source, history, cache, results, last, run, budget, call, used>>
      PROVE  RunInv'
  BY <1>3 DEF RunInv, TypeOK, CacheType, RetryOnce, RetryOpen
<1>4. CASE CloseAfterInvestigation(gate) \/ ProposeTicket(gate) \/ RetryLater(gate)
  <2>1. PICK state \in CaseStates : \E reason : case' = Counted(state, reason)
    BY <1>4 DEF CloseAfterInvestigation, ProposeTicket, RetryLater, CaseStates
  <2>2. CaseRowType'
    BY <1>2, <2>1, CountedType DEF CaseRowType, TypeOK
  <2>3. ledger' = ledger /\ ApplyAndEnd
    BY <1>4 DEF CloseAfterInvestigation, ProposeTicket, RetryLater
  <2> QED BY <1>2, <1>3, <2>2, <2>3 DEF ApplyAndEnd, TypeOK
<1>5. CASE RequestBusinessClarification(gate)
  <2> DEFINE asked == IF case.asks >= 2 THEN "limit" ELSE Ask(history, ledger, case.asks)
             n == IF asked = "created" THEN 1 ELSE 0
             row(state, reason) == Counted(state, reason)
  <2>1. \/ case' = row("closed", "CLARIFICATION_EXHAUSTED")
        \/ case' = [row("awaiting_input", gate.reason) EXCEPT !.asks = @ + n]
    BY <1>5 DEF RequestBusinessClarification
  <2>2. CaseRowType'
    <3>1. n \in Nat /\ {"closed", "awaiting_input"} \subseteq CaseStates
      BY DEF CaseStates
    <3>2. \A state \in {"closed", "awaiting_input"} : \A reason :
            /\ DOMAIN row(state, reason) = DOMAIN case
            /\ row(state, reason).state = state /\ row(state, reason).issue = case.issue
            /\ row(state, reason).asks = case.asks
            /\ row(state, reason).reads = budget.reads
            /\ row(state, reason).turns = budget.caseTurns
      BY <1>2, <3>1, CountedType
    <3> HIDE DEF n, row
    <3> QED BY <1>2, <2>1, <3>1, <3>2 DEF TypeOK, CaseRowType
  <2>3. ledger' \in [asked : BOOLEAN, answer : Answers]
    BY <1>2, <1>5 DEF RequestBusinessClarification, TypeOK
  <2> QED BY <1>3, <1>5, <2>2, <2>3 DEF RequestBusinessClarification
<1>6. CASE ReviseIssue(gate)
  <2>1. CaseRowType'
    BY <1>2, <1>6 DEF ReviseIssue, MayRevise, TypeOK, CaseRowType
  <2>2. PICK pending \in Calls \cup {NoCall}, from \in Nat :
          /\ pending # NoCall => last # NONE /\ pending.tool = last
          /\ run' = [run EXCEPT !.pass = 1, !.corrected = FALSE, !.stop = FALSE,
                       !.pending = pending, !.pendingSource = from,
                       !.exhausted = FALSE, !.checked = FALSE, !.elsewhere = FALSE]
    <3> DEFINE issue == IF last \in PerIssue THEN results[last].issue ELSE case.issue
               pending == IF last # NONE THEN [tool |-> last, issue |-> issue] ELSE NoCall
               from == IF last # NONE THEN results[last].source ELSE 0
    <3>1. last # NONE => last \in Tools /\ ~Missing(results[last]) /\ results[last] \in Rows
      BY DEF RunInv, TypeOK, RetryOnce, Temporary, Missing
    <3>2. last # NONE => issue \in Issues /\ from \in Nat
      BY <3>1 DEF RunInv, TypeOK, CaseRowType, Arguments, Rows
    <3>3. pending \in Calls \cup {NoCall} /\ from \in Nat
      BY <3>1, <3>2 DEF Calls
    <3>4. pending # NoCall => last # NONE /\ pending.tool = last
      OBVIOUS
    <3>5. run' = [run EXCEPT !.pass = 1, !.corrected = FALSE, !.stop = FALSE,
                       !.pending = pending, !.pendingSource = from,
                       !.exhausted = FALSE, !.checked = FALSE, !.elsewhere = FALSE]
      BY <1>6 DEF ReviseIssue
    <3> QED BY <3>3, <3>4, <3>5
  <2>3. run' \in RunRows /\ run'.pending = pending
    BY <1>2, <2>2 DEF TypeOK, RunRows
  <2>4. pc' = "agent" /\ UNCHANGED <<world, source, ledger, history, cache, results, last,
                                     budget, call, used>>
    BY <1>6 DEF ReviseIssue
  <2>5. TypeOK'
    BY <1>2, <2>1, <2>3, <2>4 DEF TypeOK, CacheType
  <2>6. RetryOnce'
    BY <2>2, <2>3, <2>4 DEF RunInv, RetryOnce, RetryOpen
  <2> QED BY <2>5, <2>6 DEF RunInv
<1> QED BY <1>1, <1>4, <1>5, <1>6

(* Another Case's ticket is written. *)
LEMMA RunInvSource == ASSUME RunInv, TicketSourceChanges PROVE RunInv'
<1>1. source' \in [revision : Nat, active : SUBSET Issues]
  <2>1. PICK written \in {{}} \cup {{issue} : issue \in Issues} :
          source' = [revision |-> source.revision + 1, active |-> source.active \cup written]
    BY DEF TicketSourceChanges
  <2> QED BY <2>1 DEF RunInv, TypeOK
<1>2. used' \in Spent
  BY DEF TicketSourceChanges, InTrouble, RunInv, TypeOK, Spent
<1>3. UNCHANGED <<world, case, ledger, history, cache, results, last, run, budget, call, pc>>
  BY DEF TicketSourceChanges
<1> QED BY <1>1, <1>2, <1>3 DEF RunInv, TypeOK, CaseRowType, CacheType, RetryOnce, RetryOpen

LEMMA RunInvNext == BudgetInv /\ RunInv /\ [Next]_vars => RunInv'
<1> SUFFICES ASSUME BudgetInv, RunInv, [Next]_vars PROVE RunInv'
  OBVIOUS
<1>1. IsFiniteSet(history)
  BY DEF BudgetInv, CountersType
<1>2. CASE StayIdle \/ UNCHANGED vars
  BY <1>2 DEF StayIdle, vars, RunInv, TypeOK, CaseRowType, CacheType, RetryOnce, RetryOpen
<1> QED BY <1>1, <1>2, RunInvAgent, RunInvSelect, RunInvFails, RunInvTools, RunInvGate,
           RunInvBetween, RunInvSource DEF Next

(* The variables of an investigation have their types, and a retry is open
   for the one first failure of its tool only. *)
THEOREM RunsAreWellFormed == Spec => [](BudgetInv /\ RunInv)
<1>1. Init => BudgetInv /\ RunInv
  BY BudgetInvInit, RunInvInit
<1>2. BudgetInv /\ RunInv /\ [Next]_vars => BudgetInv' /\ RunInv'
  BY BudgetInvNext, RunInvNext
<1> QED BY <1>1, <1>2, PTL DEF Spec

-----------------------------------------------------------------------------
(* Every step of a Run brings it closer to its end. *)

(* How a step counts down within a turn, between turns and between passes. *)
LEMMA StepsLeftType ==
  ASSUME RunInv
  PROVE  /\ StepsLeftInTurn \in 0..6
         /\ budget.runTurns \in Nat /\ run.pass \in {0, 1} /\ MaxRunTurns \in Nat
         /\ StepsLeft = StepsLeftInTurn + 8 * (MaxRunTurns - budget.runTurns)
                          + (IF run.pass = 0 THEN 8 * MaxRunTurns + 8 ELSE 0)
  BY LimitsAssumption DEF RunInv, TypeOK, Budgets, RunRows, StepsLeftInTurn, StepsLeft

LEMMA RunAdvancesNext ==
  ASSUME RunInv, RunInv', [Next]_vars, pc # "idle", ~TicketSourceChanges
  PROVE  StepsLeft' < StepsLeft \/ UNCHANGED vars
<1>0. /\ StepsLeftInTurn \in 0..6 /\ StepsLeftInTurn' \in 0..6
      /\ budget.runTurns \in Nat /\ run.pass \in {0, 1} /\ MaxRunTurns \in Nat
      /\ StepsLeft = StepsLeftInTurn + 8 * (MaxRunTurns - budget.runTurns)
                        + (IF run.pass = 0 THEN 8 * MaxRunTurns + 8 ELSE 0)
      /\ StepsLeft' = StepsLeftInTurn' + 8 * (MaxRunTurns - budget'.runTurns)
                        + (IF run'.pass = 0 THEN 8 * MaxRunTurns + 8 ELSE 0)
  BY StepsLeftType, StepsLeftType, LimitsAssumption
  DEF RunInv, TypeOK, Budgets, RunRows, StepsLeft, StepsLeftInTurn
<1>1. ASSUME budget'.runTurns = budget.runTurns, run'.pass = run.pass,
             StepsLeftInTurn' < StepsLeftInTurn
      PROVE  StepsLeft' < StepsLeft
  BY <1>0, <1>1
<1>2. CASE AgentNode
  <2>1. CASE TakeTurn
    <3>1. budget'.runTurns = budget.runTurns + 1 /\ run' = run
      BY <2>1 DEF TakeTurn, RunInv, TypeOK, Budgets
    <3>2. StepsLeftInTurn >= 2
      BY <2>1 DEF TakeTurn, StepsLeftInTurn, RetryOpen
    <3> QED BY <1>0, <3>1, <3>2
  <2>2. CASE RetrySourceChanged \/ TurnRefused
    <3>1. budget' = budget /\ run'.pass = run.pass /\ pc = "agent" /\ pc' = "gate"
      BY <2>2 DEF RetrySourceChanged, TurnRefused, RunInv, TypeOK, RunRows
    <3>2. StepsLeftInTurn' < StepsLeftInTurn
      BY <3>1 DEF StepsLeftInTurn, RetryOpen
    <3> QED BY <1>1, <3>1, <3>2
  <2>3. CASE EmitExactRetry \/ StopObserving
    <3>1. /\ budget' = budget /\ run' = run /\ pc = "agent"
          /\ pc' = "gate" \/ (pc' = "tools" /\ RetryOpen)
      BY <2>3 DEF EmitExactRetry, StopObserving, RetryDue, RetryOpen
    <3>2. StepsLeftInTurn' < StepsLeftInTurn
      BY <3>1 DEF StepsLeftInTurn, RetryOpen
    <3> QED BY <1>1, <3>1, <3>2
  <2> QED BY <1>2, <2>1, <2>2, <2>3 DEF AgentNode
<1>3. CASE SelectNode
  <2>1. /\ budget' = budget /\ run'.pass = run.pass /\ run'.pending = run.pending
        /\ pc = "select" /\ pc' \in {"agent", "tools", "gate"}
    BY <1>3 DEF SelectNode, AcceptObservation, AcceptFinish, CorrectSelector, RejectObservation,
       RunInv, TypeOK, RunRows
  <2>2. StepsLeftInTurn' < StepsLeftInTurn
    BY <2>1 DEF StepsLeftInTurn, RetryOpen
  <2> QED BY <1>1, <2>1, <2>2
<1>4. CASE InvestigationFails
  <2>1. budget' = budget /\ run' = run /\ pc = "select" /\ pc' = "idle"
    BY <1>4 DEF InvestigationFails
  <2>2. StepsLeftInTurn' < StepsLeftInTurn
    BY <2>1 DEF StepsLeftInTurn
  <2> QED BY <1>1, <2>1, <2>2
<1>5. CASE ToolsNode
  <2>1. PICK row, spent :
          /\ OnToolResult(row, spent) /\ spent.runTurns = budget.runTurns
          /\ row.attempt = results[call.tool].attempt + 1
    <3>1. [budget EXCEPT !.reads = @ + 1].runTurns = budget.runTurns
      BY DEF RunInv, TypeOK, Budgets
    <3>2. \A status, value, actual :
            Row(status, value, actual).attempt = results[call.tool].attempt + 1
      BY DEF Row
    <3>3. CASE CacheHit \/ BlockCall
      BY <3>2, <3>3 DEF CacheHit, BlockCall
    <3>4. CASE ReadSource
      BY <3>1, <3>2, <3>4 DEF ReadSource
    <3> QED BY <1>5, <3>3, <3>4 DEF ToolsNode
  <2>2. pc = "tools" /\ pc' = "agent" /\ budget'.runTurns = budget.runTurns
        /\ run'.pass = run.pass
    BY <1>5, <2>1 DEF ToolsNode, CacheHit, BlockCall, ReadSource, OnToolResult, RunInv, TypeOK,
       RunRows
  <2>3. RetryOpen => ~RetryOpen'
    <3> SUFFICES ASSUME RetryOpen PROVE ~RetryOpen'
      OBVIOUS
    <3>1. results[call.tool].attempt = 1
      BY <2>2 DEF RunInv, RetryOnce, RetryOpen
    <3>2. ~OpensRetry(row)
      BY ONLY <2>1, <3>1 DEF OpensRetry
    <3>3. "pending" \in DOMAIN run
      BY DEF RunInv, TypeOK, RunRows
    <3>4. run'.pending = NoCall
      BY ONLY <2>1, <3>2, <3>3 DEF OnToolResult
    <3> QED BY ONLY <3>4 DEF RetryOpen
  <2>4. StepsLeftInTurn' < StepsLeftInTurn
    BY <2>2, <2>3 DEF StepsLeftInTurn
  <2> QED BY <1>1, <2>2, <2>4
<1>6. CASE GateNode
  <2>1. PICK gate :
          \/ CloseAfterInvestigation(gate) \/ ProposeTicket(gate) \/ RetryLater(gate)
          \/ RequestBusinessClarification(gate) \/ ReviseIssue(gate)
    BY <1>6 DEF GateNode
  <2>2. pc = "gate" /\ StepsLeftInTurn = 1
    BY <1>6 DEF GateNode, StepsLeftInTurn
  <2>3. CASE ReviseIssue(gate)
    <3>1. run.pass = 0 /\ run'.pass = 1 /\ budget' = budget
      BY <2>3 DEF ReviseIssue, MayRevise, RunInv, TypeOK, RunRows
    <3> QED BY <1>0, <2>2, <3>1
  <2>4. CASE ~ReviseIssue(gate)
    <3>1. pc' = "idle" /\ run' = run /\ budget' = budget
      BY <2>1, <2>4 DEF CloseAfterInvestigation, ProposeTicket, RetryLater,
         RequestBusinessClarification, ApplyAndEnd
    <3>2. StepsLeftInTurn' = 0
      BY <3>1 DEF StepsLeftInTurn
    <3> QED BY <1>1, <2>2, <3>1, <3>2
  <2> QED BY <2>3, <2>4
<1>7. CASE BetweenRuns \/ StayIdle
  BY <1>7 DEF BetweenRuns, FirstInvestigation, CloseAtClarificationLimit, AnswerClarification,
     Retry, RetryFails, ProposalLapses, StayIdle
<1> QED BY <1>2, <1>3, <1>4, <1>5, <1>6, <1>7 DEF Next

(* before_selector admits a turn only below the limit of a Run. *)
TurnsLeft == budget.runTurns <= MaxRunTurns

LEMMA TurnsLeftNext == ASSUME RunInv, TurnsLeft, [Next]_vars PROVE TurnsLeft'
<1>0. budget \in Budgets /\ MaxRunTurns \in Nat
  BY LimitsAssumption DEF RunInv, TypeOK
<1>1. CASE AgentNode
  <2>1. CASE TakeTurn
    BY <1>0, <2>1 DEF TakeTurn, TurnsSpent, TurnsLeft, Budgets
  <2>2. CASE ~TakeTurn
    BY <1>1, <2>2 DEF AgentNode, RetrySourceChanged, EmitExactRetry, StopObserving, TurnRefused,
       TurnsLeft
  <2> QED BY <2>1, <2>2
<1>2. CASE SelectNode
  BY <1>2 DEF SelectNode, AcceptObservation, AcceptFinish, CorrectSelector, RejectObservation,
     TurnsLeft
<1>3. CASE InvestigationFails
  BY <1>3 DEF InvestigationFails, TurnsLeft
<1>4. CASE ToolsNode
  BY <1>0, <1>4 DEF ToolsNode, CacheHit, BlockCall, ReadSource, OnToolResult, TurnsLeft, Budgets
<1>5. CASE GateNode
  BY <1>5 DEF GateNode, CloseAfterInvestigation, ProposeTicket, RetryLater,
     RequestBusinessClarification, ReviseIssue, ApplyAndEnd, TurnsLeft
<1>6. CASE BetweenRuns
  <2>1. ASSUME NEW checked, NEW elsewhere, StartRun(checked, elsewhere)
        PROVE  TurnsLeft'
    BY <1>0, <2>1 DEF StartRun, TurnsLeft
  <2>2. CASE FirstInvestigation \/ AnswerClarification \/ Retry
    BY <2>1, <2>2 DEF FirstInvestigation, AnswerClarification, Retry
  <2>3. CASE CloseAtClarificationLimit \/ RetryFails \/ ProposalLapses
    BY <2>3 DEF CloseAtClarificationLimit, RetryFails, ProposalLapses, TurnsLeft
  <2> QED BY <1>6, <2>1, <2>2, <2>3 DEF BetweenRuns
<1>7. CASE TicketSourceChanges \/ StayIdle \/ UNCHANGED vars
  BY <1>7 DEF TicketSourceChanges, StayIdle, vars, TurnsLeft
<1> QED BY <1>1, <1>2, <1>3, <1>4, <1>5, <1>6, <1>7 DEF Next

(* What RunAdvances lowers is a natural number, so that it can be lowered only
   so often: the turns of a Run stay within its limit, a corrected pass's
   included. *)
THEOREM StepsLeftIsCounted == Spec => [](StepsLeft \in Nat)
<1> DEFINE Inv == BudgetInv /\ RunInv /\ TurnsLeft
<1>1. Init => TurnsLeft
  BY LimitsAssumption DEF Init, TurnsLeft
<1>2. Inv /\ [Next]_vars => Inv'
  BY BudgetInvNext, RunInvNext, TurnsLeftNext
<1>3. Inv => StepsLeft \in Nat
  <2> SUFFICES ASSUME Inv PROVE StepsLeft \in Nat
    OBVIOUS
  <2>1. budget.runTurns \in Nat /\ MaxRunTurns \in Nat /\ MaxRunTurns - budget.runTurns \in Nat
    BY LimitsAssumption DEF RunInv, TypeOK, Budgets, TurnsLeft
  <2> QED BY <2>1, StepsLeftType
<1>4. Init => BudgetInv /\ RunInv
  BY BudgetInvInit, RunInvInit
<1> QED BY <1>1, <1>2, <1>3, <1>4, PTL DEF Spec

(* For any limits and whatever the selector, the sources and the gate do, no
   Run goes on without end. *)
THEOREM RunsComeToTheirEnd == Spec => RunAdvances
<1>1. BudgetInv /\ RunInv /\ (BudgetInv /\ RunInv)' /\ [Next]_vars
        => [pc # "idle" /\ ~TicketSourceChanges => StepsLeft' < StepsLeft]_vars
  BY RunAdvancesNext
<1> QED BY RunsAreWellFormed, <1>1, PTL DEF Spec, RunAdvances

-----------------------------------------------------------------------------
(***************************************************************************)
(* The reads of the sources are those that the governance promises, for    *)
(* any number of Runs, failures, restarts and changes of the ticket        *)
(* source.  What makes it hold is what the cache knows of the history: a   *)
(* read at the current revision is always in it, with at least as many     *)
(* attempts as there were reads there and no more than there were reads of *)
(* the query at all, whoever made the cache.                               *)
(***************************************************************************)

ReadAt(k) == {h \in history : h.tool = k[1] /\ h.issue = k[2] /\ h.source = k[3]}
Asked(k) == {h \in history : h.tool = k[1] /\ h.issue = k[2]}

(* What the cache says of a key, against the reads it stands for. *)
KeyKnown(k) ==
    /\ k[3] <= Revision(k[1])
    /\ Cardinality(ReadAt(k)) <= cache[k].attempts
    /\ cache[k].attempts <= Cardinality(Asked(k))
    /\ cache[k].status = "not_queried" => ReadAt(k) = {}
    /\ cache[k].status = "retryable_error" => \A h \in ReadAt(k) : h.status = "retryable_error"

(* No read is of a later revision, and the cache has those of this one. *)
ReadsCached ==
    \A h \in history :
        /\ h.source <= Revision(h.tool)
        /\ h.source = Revision(h.tool) => <<h.tool, h.issue, h.source>> \in DOMAIN cache

(* The next call of a tool in this Run is not recorded yet. *)
NextReadIsNew ==
    \A h \in history :
        h.run <= run.n /\ (h.run = run.n => h.attempt <= results[h.tool].attempt)

ReadsInv ==
    /\ ReadsCached
    /\ \A k \in DOMAIN cache : KeyKnown(k)
    /\ NextReadIsNew

LEMMA ReadsInvInit == Init => ReadsInv
  BY DEF Init, ReadsInv, ReadsCached, NextReadIsNew

(* Steps that read nothing and leave the cache and the source alone. *)
LEMMA ReadsFrame ==
  ASSUME RunInv, RunInv', ReadsInv, UNCHANGED <<source, history, cache>>,
         \/ run'.n > run.n
         \/ run'.n = run.n /\ \A t \in Tools : results'[t].attempt >= results[t].attempt
  PROVE  ReadsInv'
<1>1. \A t : Revision(t)' = Revision(t)
  BY DEF Revision
<1>2. ReadsCached' /\ \A k \in DOMAIN cache' : KeyKnown(k)'
  BY <1>1 DEF ReadsInv, ReadsCached, KeyKnown, ReadAt, Asked
<1>3. /\ \A h \in history : h.run \in Nat /\ h.tool \in Tools /\ h.attempt \in Nat
      /\ run.n \in Nat /\ run'.n \in Nat
      /\ \A t \in Tools : results[t].attempt \in Nat /\ results'[t].attempt \in Nat
  BY DEF RunInv, TypeOK, ReadRows, RunRows, Rows
<1>4. NextReadIsNew'
  BY <1>3 DEF ReadsInv, NextReadIsNew
<1> QED BY <1>2, <1>4 DEF ReadsInv

(* The cache that a restart leaves to be made of the tool rows. *)
LEMMA RebuildKnows ==
  ASSUME TypeOK, IsFiniteSet(history), ReadsCached, UNCHANGED <<source, history>>,
         cache' = RebuildCache(history, [tool \in Tools |-> Revision(tool)])
  PROVE  ReadsCached' /\ \A k \in DOMAIN cache' : KeyKnown(k)'
<1> DEFINE now == [tool \in Tools |-> Revision(tool)]
           keys == {<<h.tool, h.issue, now[h.tool]>> : h \in history}
           asked(key) == {h \in history : h.tool = key[1] /\ h.issue = key[2]}
           read(key) == {h \in asked(key) : h.source = key[3]}
           settled(key) == {h \in read(key) : h.status # "retryable_error"}
           latest(key) ==
              IF settled(key) # {} THEN CHOOSE h \in settled(key) : TRUE
              ELSE IF read(key) # {} THEN CHOOSE h \in read(key) : TRUE
              ELSE NoEntry
<1>1. DOMAIN cache' = keys /\ \A k \in keys :
        cache'[k] = [attempts |-> Cardinality(asked(k)), status |-> latest(k).status,
                     value |-> latest(k).value]
  BY DEF RebuildCache
<1>2. \A t \in Tools : Revision(t)' = Revision(t) /\ now[t] = Revision(t) /\ Revision(t) \in Nat
  BY DEF Revision, TypeOK
<1>3. \A h \in history : h.tool \in Tools /\ h.status # "not_queried"
  BY DEF TypeOK, ReadRows
<1>4. ReadsCached'
  <2>1. SUFFICES ASSUME NEW h \in history
                 PROVE  /\ h.source <= Revision(h.tool)'
                        /\ h.source = Revision(h.tool)' => <<h.tool, h.issue, h.source>> \in keys
    BY <1>1 DEF ReadsCached
  <2>2. <<h.tool, h.issue, now[h.tool]>> \in keys
    OBVIOUS
  <2> HIDE DEF keys, now
  <2> QED BY <1>2, <1>3, <2>2 DEF ReadsCached
<1>5. ASSUME NEW k \in keys PROVE KeyKnown(k)'
  <2>1. k[3] = Revision(k[1])' /\ k[3] \in Nat
    BY <1>2, <1>3
  <2>2. asked(k) = Asked(k)' /\ read(k) = ReadAt(k)'
    BY DEF Asked, ReadAt
  <2>3. IsFiniteSet(asked(k)) /\ IsFiniteSet(read(k))
        /\ Cardinality(read(k)) <= Cardinality(asked(k))
        /\ Cardinality(asked(k)) \in Nat
    <3>1. asked(k) \subseteq history /\ read(k) \subseteq asked(k)
      OBVIOUS
    <3> QED BY <3>1, FS_Subset, FS_CardinalityType
  <2>4. cache'[k].attempts = Cardinality(asked(k)) /\ cache'[k].status = latest(k).status
    <3> DEFINE count == Cardinality(asked(k))
               found == latest(k)
    <3>1. cache'[k] = [attempts |-> count, status |-> found.status, value |-> found.value]
      BY <1>1
    <3> HIDE DEF count, found
    <3>2. cache'[k].attempts = count /\ cache'[k].status = found.status
      BY <3>1
    <3> QED BY <3>2 DEF count, found
  <2>5. latest(k).status = "not_queried" => read(k) = {}
    BY <1>3
  <2>6. latest(k).status = "retryable_error" => settled(k) = {}
    OBVIOUS
  <2> HIDE DEF asked, read, latest
  <2>7. cache'[k].status = "retryable_error" => \A h \in read(k) : h.status = "retryable_error"
    BY <2>4, <2>6
  <2> QED BY <2>1, <2>2, <2>3, <2>4, <2>5, <2>7 DEF KeyKnown
<1> QED BY <1>1, <1>4, <1>5

(* A new Run, and what it finds in the cache. *)
LEMMA ReadsInvBetween ==
  ASSUME BudgetInv, RunInv, RunInv', ReadsInv, BetweenRuns PROVE ReadsInv'
<1>1. IsFiniteSet(history) /\ run.n \in Nat
  BY DEF BudgetInv, CountersType, RunInv, TypeOK, RunRows
<1>2. UNCHANGED <<source, history>>
  BY DEF BetweenRuns, FirstInvestigation, CloseAtClarificationLimit, AnswerClarification, Retry,
     RetryFails, ProposalLapses
<1>3. CASE UNCHANGED cache
  <2>1. \/ run'.n = run.n + 1
        \/ UNCHANGED <<run, results>>
    BY DEF BetweenRuns, FirstInvestigation, CloseAtClarificationLimit, AnswerClarification,
       Retry, RetryFails, ProposalLapses, StartRun, NoRun
  <2>2. \A t \in Tools : results[t].attempt \in Nat
    BY DEF RunInv, TypeOK, Rows
  <2> QED BY <1>1, <1>2, <1>3, <2>1, <2>2, ReadsFrame
<1>4. CASE cache' = RebuildCache(history, [tool \in Tools |-> Revision(tool)])
           /\ \E checked, elsewhere : StartRun(checked, elsewhere)
  <2>1. ReadsCached' /\ \A k \in DOMAIN cache' : KeyKnown(k)'
    BY <1>1, <1>2, <1>4, RebuildKnows DEF RunInv, ReadsInv
  <2>2. run'.n = run.n + 1
    BY <1>4 DEF StartRun, NoRun
  <2>3. NextReadIsNew'
    <3>1. \A h \in history : h.run \in Nat
      BY DEF RunInv, TypeOK, ReadRows
    <3> QED BY <1>1, <1>2, <2>2, <3>1 DEF ReadsInv, NextReadIsNew
  <2> QED BY <2>1, <2>3 DEF ReadsInv
<1> QED BY <1>3, <1>4 DEF BetweenRuns, FirstInvestigation, CloseAtClarificationLimit,
     AnswerClarification, Retry, RetryFails, ProposalLapses, FindCache
(* What the cache says of the key of a call that is let through. *)
LEMMA ReadableKey ==
  ASSUME BudgetInv, RunInv, ReadsInv, ReadSource
  PROVE  LET entry == Entry(cache, CallKey)
         IN  /\ Cardinality(ReadAt(CallKey)) <= entry.attempts
             /\ entry.attempts <= Cardinality(Asked(CallKey))
             /\ Cardinality(ReadAt(CallKey)) < 2
             /\ \A h \in ReadAt(CallKey) : h.status = "retryable_error"
<1> DEFINE key == CallKey
           entry == Entry(cache, key)
<1>1. pc = "tools" /\ ~Reusable(cache, key) /\ ~RetryExhausted(cache, key)
  BY DEF ReadSource, Blocked
<1>2. key \in Queries /\ key[3] = Revision(key[1]) /\ key = <<key[1], key[2], key[3]>>
  BY <1>1, CallKeyType DEF Queries
<1>3. IsFiniteSet(ReadAt(key)) /\ IsFiniteSet(Asked(key))
      /\ Cardinality(ReadAt(key)) \in Nat /\ Cardinality(Asked(key)) \in Nat
  BY FS_Subset, FS_CardinalityType DEF BudgetInv, CountersType, ReadAt, Asked
<1>4. entry \in Entries /\ entry.status \in {"not_queried", "retryable_error"}
      /\ (entry.status = "retryable_error" => entry.attempts < 2)
  <2>1. entry \in Entries
    BY EntryType DEF RunInv, TypeOK
  <2> QED BY <1>1, <2>1 DEF Reusable, RetryExhausted, Entries, Statuses
<1>5. CASE key \in DOMAIN cache
  <2>1. entry = cache[key] /\ KeyKnown(key)
    BY <1>5 DEF Entry, ReadsInv
  <2>2. CASE entry.status = "not_queried"
    <3>1. ReadAt(key) = {}
      BY <2>1, <2>2 DEF KeyKnown
    <3> QED BY <2>1, <3>1, FS_EmptySet DEF KeyKnown
  <2>3. CASE entry.status = "retryable_error"
    BY <1>3, <1>4, <2>1, <2>3 DEF KeyKnown, Entries
  <2> QED BY <1>4, <2>2, <2>3
<1>6. CASE key \notin DOMAIN cache
  <2>1. ReadAt(key) = {}
    BY <1>2, <1>6 DEF ReadAt, ReadsInv, ReadsCached
  <2>2. entry.attempts = 0
    BY <1>6 DEF Entry, NoEntry
  <2> QED BY <1>3, <2>1, <2>2, FS_EmptySet
<1> QED BY <1>5, <1>6

(* A read: its key is the only one that the cache learns something about. *)
LEMMA ReadsInvRead ==
  ASSUME BudgetInv, RunInv, RunInv', ReadsInv, ReadSource PROVE ReadsInv'
<1>1. PICK status \in Statuses \ {"not_queried"}, value \in Values, h \in ReadRows :
        /\ h = [run |-> run.n, tool |-> call.tool,
                issue |-> IssueArgument(call.tool, call.issue),
                source |-> Revision(call.tool), attempt |-> results[call.tool].attempt + 1,
                status |-> status, value |-> value]
        /\ history' = history \cup {h}
        /\ cache' = Store(cache, CallKey, status, value)
        /\ OnToolResult(Row(status, value, TRUE), [budget EXCEPT !.reads = @ + 1])
  BY ReadSourceSteps
<1>2. pc = "tools" /\ UNCHANGED source /\ call \in Calls /\ call.tool \in Tools
  BY DEF ReadSource, RunInv, RetryOnce, Calls
<1>3. PICK key \in Queries :
        /\ key = CallKey /\ key[2] \in Arguments(key[1])
        /\ key = <<h.tool, h.issue, h.source>> /\ h.source = Revision(h.tool)
        /\ h.status = status /\ h.run = run.n /\ h.tool = call.tool
        /\ h.attempt = results[call.tool].attempt + 1
  BY <1>1, <1>2, CallKeyType
<1>a. PICK before \in Nat :
        /\ before = Entry(cache, key).attempts
        /\ Cardinality(ReadAt(key)) <= before /\ before <= Cardinality(Asked(key))
        /\ \A r \in ReadAt(key) : r.status = "retryable_error"
  BY <1>3, EntryType, ReadableKey DEF RunInv, TypeOK, Entries
<1>4. h \notin history
  <2>1. results[call.tool].attempt \in Nat
    BY <1>2 DEF RunInv, TypeOK, Rows
  <2> QED BY <1>3, <2>1 DEF ReadsInv, NextReadIsNew
<1>5. /\ DOMAIN cache' = DOMAIN cache \cup {key}
      /\ cache'[key] = [attempts |-> before + 1, status |-> status, value |-> value]
      /\ \A k \in DOMAIN cache : k # key => cache'[k] = cache[k]
  <2>1. CacheType /\ cache' = Store(cache, key, status, value)
    BY <1>1, <1>3 DEF RunInv, TypeOK
  <2>2. key \in Queries /\ key[2] \in Arguments(key[1])
    BY <1>3
  <2>3. status \in Statuses /\ value \in Values
    BY <1>1
  <2>4. /\ DOMAIN cache' = DOMAIN cache \cup {key}
        /\ cache'[key] = [attempts |-> Entry(cache, key).attempts + 1,
                          status |-> status, value |-> value]
        /\ \A k \in DOMAIN cache : k # key => cache'[k] = cache[k]
    BY ONLY <2>1, <2>2, <2>3, StoreType
  <2> QED BY <1>a, <2>4
<1>6. \A t : Revision(t)' = Revision(t)
  BY <1>2 DEF Revision
<1>7. IsFiniteSet(history) /\ IsFiniteSet(history')
  BY <1>1, FS_AddElement DEF BudgetInv, CountersType
<1>8. ReadsCached'
  <2>1. h.source \in Nat
    BY DEF ReadRows
  <2>2. SUFFICES ASSUME NEW r \in history'
                 PROVE  /\ r.source <= Revision(r.tool)'
                        /\ r.source = Revision(r.tool)' =>
                             <<r.tool, r.issue, r.source>> \in DOMAIN cache'
    BY DEF ReadsCached
  <2>3. CASE r \in history
    BY <1>5, <1>6, <2>3 DEF ReadsInv, ReadsCached
  <2>4. CASE r = h
    BY <1>3, <1>5, <1>6, <2>1, <2>4
  <2> QED BY <1>1, <2>3, <2>4
<1>9. NextReadIsNew'
  <2>1. PICK row : /\ results' = [results EXCEPT ![call.tool] = row]
                   /\ row.attempt = results[call.tool].attempt + 1
    <3>1. \A row, spent : OnToolResult(row, spent) =>
                             results' = [results EXCEPT ![call.tool] = row]
      BY DEF OnToolResult
    <3>2. \A actual : Row(status, value, actual).attempt = results[call.tool].attempt + 1
      BY DEF Row
    <3> QED BY <1>1, <3>1, <3>2
  <2>2. run'.n = run.n /\ run.n \in Nat
    BY <1>1 DEF OnToolResult, RunInv, TypeOK, RunRows
  <2>3. \A t \in Tools : results[t].attempt \in Nat
    BY DEF RunInv, TypeOK, Rows
  <2>4. /\ results'[call.tool].attempt = results[call.tool].attempt + 1
        /\ \A t \in Tools : results'[t].attempt >= results[t].attempt
                            /\ results'[t].attempt \in Nat
    BY <1>2, <2>1, <2>3 DEF RunInv, TypeOK
  <2>5. SUFFICES ASSUME NEW r \in history'
                 PROVE  r.run <= run'.n /\ (r.run = run'.n => r.attempt <= results'[r.tool].attempt)
    BY DEF NextReadIsNew
  <2>6. CASE r \in history
    <3>1. r.run <= run.n /\ (r.run = run.n => r.attempt <= results[r.tool].attempt)
      BY <2>6 DEF ReadsInv, NextReadIsNew
    <3>2. r.tool \in Tools /\ r.attempt \in Nat
      BY <2>6 DEF RunInv, TypeOK, ReadRows
    <3>3. results'[r.tool].attempt >= results[r.tool].attempt
          /\ results'[r.tool].attempt \in Nat /\ results[r.tool].attempt \in Nat
      BY <2>3, <2>4, <3>2
    <3> QED BY <2>2, <3>1, <3>2, <3>3
  <2>7. CASE r = h
    <3>1. r.run = run.n /\ r.attempt = results'[r.tool].attempt /\ r.attempt \in Nat
      BY <1>2, <1>3, <2>4, <2>7
    <3> QED BY <2>2, <3>1
  <2> QED BY <1>1, <2>6, <2>7
<1>10. KeyKnown(key)'
  <2>1. ReadAt(key)' = ReadAt(key) \cup {h} /\ Asked(key)' = Asked(key) \cup {h}
    BY <1>1, <1>3 DEF ReadAt, Asked
  <2>2. h \notin ReadAt(key) /\ h \notin Asked(key)
        /\ IsFiniteSet(ReadAt(key)) /\ IsFiniteSet(Asked(key))
    BY <1>4, <1>7, FS_Subset DEF ReadAt, Asked
  <2>3. /\ Cardinality(ReadAt(key)') = Cardinality(ReadAt(key)) + 1
        /\ Cardinality(Asked(key)') = Cardinality(Asked(key)) + 1
        /\ Cardinality(ReadAt(key)) \in Nat /\ Cardinality(Asked(key)) \in Nat
    BY <2>1, <2>2, FS_AddElement, FS_CardinalityType
  <2>4. key[3] <= Revision(key[1])'
    BY <1>3, <1>6 DEF Queries
  <2>5. cache'[key].status = status /\ cache'[key].attempts = before + 1
    BY <1>5
  <2>6. Cardinality(ReadAt(key)') <= before + 1 /\ before + 1 <= Cardinality(Asked(key)')
    BY <1>a, <2>3
  <2>7. status # "not_queried"
        /\ (status = "retryable_error" => \A r \in ReadAt(key)' : r.status = "retryable_error")
    BY <1>a, <1>3, <2>1
  <2> QED BY <2>4, <2>5, <2>6, <2>7 DEF KeyKnown
<1>11. ASSUME NEW k \in DOMAIN cache, k # key PROVE KeyKnown(k)'
  <2>1. KeyKnown(k) /\ cache'[k] = cache[k] /\ k \in Queries
    BY <1>5, <1>11 DEF ReadsInv, RunInv, TypeOK, CacheType
  <2>2. ReadAt(k)' = ReadAt(k)
    BY <1>1, <1>3, <1>11, <2>1 DEF ReadAt, Queries
  <2>3. Asked(k) \subseteq Asked(k)' /\ IsFiniteSet(Asked(k)')
    BY <1>1, <1>7, FS_Subset DEF Asked
  <2>4. Cardinality(Asked(k)) <= Cardinality(Asked(k)')
        /\ Cardinality(Asked(k)) \in Nat /\ Cardinality(Asked(k)') \in Nat
    BY <2>3, FS_Subset, FS_CardinalityType
  <2>5. cache[k].attempts \in Nat
    BY DEF RunInv, TypeOK, CacheType, Entries
  <2> QED BY <1>6, <2>1, <2>2, <2>4, <2>5 DEF KeyKnown
<1>12. \A k \in DOMAIN cache' : KeyKnown(k)'
  BY <1>5, <1>10, <1>11
<1> QED BY <1>8, <1>9, <1>12 DEF ReadsInv

(* The steps of a Run that read nothing. *)
LEMMA ReadsInvWithin ==
  ASSUME RunInv, RunInv', ReadsInv,
         AgentNode \/ SelectNode \/ InvestigationFails \/ CacheHit \/ BlockCall \/ GateNode
  PROVE  ReadsInv'
<1>1. UNCHANGED <<source, history, cache>>
  BY DEF AgentNode, RetrySourceChanged, EmitExactRetry, StopObserving, TurnRefused, TakeTurn,
     SelectNode, AcceptObservation, AcceptFinish, CorrectSelector, RejectObservation,
     InvestigationFails, CacheHit, BlockCall, GateNode, CloseAfterInvestigation, ProposeTicket,
     RetryLater, RequestBusinessClarification, ReviseIssue, ApplyAndEnd
<1>2. run'.n = run.n
  <2>1. run \in RunRows
    BY DEF RunInv, TypeOK
  <2>2. CASE RetrySourceChanged \/ TurnRefused \/ CorrectSelector
    BY <2>1, <2>2 DEF RetrySourceChanged, TurnRefused, CorrectSelector, RunRows
  <2>3. CASE CacheHit \/ BlockCall
    BY <2>1, <2>3 DEF CacheHit, BlockCall, OnToolResult, RunRows
  <2>4. ASSUME NEW gate, ReviseIssue(gate) PROVE run'.n = run.n
    BY <2>1, <2>4 DEF ReviseIssue, RunRows
  <2>5. CASE run' = run
    BY <2>5
  <2> QED BY <2>2, <2>3, <2>4, <2>5 DEF AgentNode, EmitExactRetry, StopObserving, TakeTurn,
       SelectNode, AcceptObservation, AcceptFinish, RejectObservation, InvestigationFails,
       GateNode, CloseAfterInvestigation, ProposeTicket, RetryLater,
       RequestBusinessClarification, ApplyAndEnd
<1>3. \A t \in Tools : results[t].attempt \in Nat
  BY DEF RunInv, TypeOK, Rows
<1>4. \A t \in Tools : results'[t].attempt >= results[t].attempt
  <2>1. CASE CacheHit \/ BlockCall
    <3>1. PICK row : row.attempt = results[call.tool].attempt + 1
                     /\ results' = [results EXCEPT ![call.tool] = row]
      BY <2>1 DEF CacheHit, BlockCall, OnToolResult, Row
    <3> QED BY <1>3, <3>1 DEF RunInv, TypeOK
  <2>2. CASE ~(CacheHit \/ BlockCall)
    <3>1. results' = results
      BY <2>2 DEF AgentNode, RetrySourceChanged, EmitExactRetry, StopObserving, TurnRefused,
         TakeTurn, SelectNode, AcceptObservation, AcceptFinish, CorrectSelector,
         RejectObservation, InvestigationFails, GateNode, CloseAfterInvestigation,
         ProposeTicket, RetryLater, RequestBusinessClarification, ReviseIssue, ApplyAndEnd
    <3> QED BY <1>3, <3>1
  <2> QED BY <2>1, <2>2
<1> QED BY <1>1, <1>2, <1>4, ReadsFrame

(* A new revision of the ticket source, of which nothing was read yet. *)
LEMMA ReadsInvSource ==
  ASSUME RunInv, ReadsInv, TicketSourceChanges PROVE ReadsInv'
<1>1. UNCHANGED <<history, cache, run, results>>
  BY DEF TicketSourceChanges
<1>2. \A t \in Tools : /\ Revision(t) \in Nat /\ Revision(t)' \in Nat
                       /\ Revision(t)' = IF t = "tickets" THEN Revision(t) + 1 ELSE Revision(t)
  BY DEF TicketSourceChanges, Revision, RunInv, TypeOK
<1>3. \A h \in history : h.tool \in Tools /\ h.source \in Nat
  BY DEF RunInv, TypeOK, ReadRows
<1>4. ReadsCached'
  <2>1. SUFFICES ASSUME NEW h \in history
                 PROVE  /\ h.source <= Revision(h.tool)'
                        /\ h.source = Revision(h.tool)' =>
                             <<h.tool, h.issue, h.source>> \in DOMAIN cache
    BY <1>1 DEF ReadsCached
  <2>2. /\ h.source <= Revision(h.tool)
        /\ h.source = Revision(h.tool) => <<h.tool, h.issue, h.source>> \in DOMAIN cache
    BY DEF ReadsInv, ReadsCached
  <2> QED BY <1>2, <1>3, <2>2
<1>5. ASSUME NEW k \in DOMAIN cache PROVE KeyKnown(k)'
  <2>1. k[1] \in Tools /\ k[3] \in Nat /\ KeyKnown(k)
    BY DEF RunInv, TypeOK, CacheType, Queries, ReadsInv
  <2>2. k[3] <= Revision(k[1])'
    BY <1>2, <2>1 DEF KeyKnown
  <2> QED BY <1>1, <2>1, <2>2 DEF KeyKnown, ReadAt, Asked
<1> QED BY <1>1, <1>4, <1>5 DEF ReadsInv, NextReadIsNew
CaseInv == BudgetInv /\ RunInv /\ ReadsInv

LEMMA CaseInvNext == CaseInv /\ [Next]_vars => CaseInv'
<1> SUFFICES ASSUME CaseInv, [Next]_vars PROVE CaseInv'
  OBVIOUS
<1>1. BudgetInv' /\ RunInv'
  BY BudgetInvNext, RunInvNext DEF CaseInv
<1>2. CASE StayIdle \/ UNCHANGED vars
  <2>1. UNCHANGED <<source, history, cache, run, results>>
    BY <1>2 DEF StayIdle, vars
  <2>2. run.n \in Nat /\ \A t \in Tools : results[t].attempt \in Nat
    BY DEF CaseInv, RunInv, TypeOK, RunRows, Rows
  <2> QED BY <1>1, <2>1, <2>2, ReadsFrame DEF CaseInv
<1> QED BY <1>1, <1>2, ReadsInvBetween, ReadsInvRead, ReadsInvWithin, ReadsInvSource
        DEF CaseInv, Next, ToolsNode

(* What the cache knows of the reads is always so. *)
THEOREM CacheKnowsTheReads == Spec => []CaseInv
<1>1. Init => CaseInv
  BY BudgetInvInit, RunInvInit, ReadsInvInit DEF CaseInv
<1> QED BY <1>1, CaseInvNext, PTL DEF Spec

-----------------------------------------------------------------------------
(* GovernedReading counts as this module does. *)
LEMMA SameCount == \A S : Governed!Cardinality(S) = Cardinality(S)
  BY Zenon DEF Governed!Cardinality, Cardinality

(* Every step is a read that the governance allows, or reads nothing. *)
LEMMA StepIsGoverned ==
  ASSUME CaseInv, [Next]_vars PROVE [Governed!Read]_history
<1>1. CASE ReadSource
  <2>1. PICK h :
          /\ h.tool = call.tool /\ h.issue = IssueArgument(call.tool, call.issue)
          /\ h.source = Revision(call.tool) /\ history' = history \cup {h}
    BY <1>1, ReadSourceSteps DEF CaseInv
  <2>2. CASE h \in history
    BY <2>1, <2>2
  <2>3. CASE h \notin history
    <3>1. Cardinality(history) < MaxReads
      <4>1. Cardinality(history) \in Nat /\ budget.reads \in Nat /\ MaxReads \in Nat
        BY FS_CardinalityType, LimitsAssumption DEF CaseInv, BudgetInv, CountersType, Budgets
      <4>2. Cardinality(history) <= budget.reads /\ budget.reads < MaxReads
        BY <1>1, <4>1 DEF ReadSource, Blocked, CaseInv, BudgetInv, BudgetCounts
      <4> QED BY <4>1, <4>2
    <3>2. {s \in history : Governed!SameQuery(h, s)} = ReadAt(CallKey)
      <4>1. pc = "tools"
        BY <1>1 DEF ReadSource
      <4>2. CallKey = <<h.tool, h.issue, h.source>>
        BY <2>1, <4>1, CallKeyType DEF CaseInv
      <4> QED BY <4>2 DEF Governed!SameQuery, ReadAt
    <3>3. /\ Cardinality(ReadAt(CallKey)) < 2
          /\ \A s \in ReadAt(CallKey) : s.status = "retryable_error"
      BY <1>1, ReadableKey DEF CaseInv
    <3>4. Governed!MayRead(h)
      BY <3>2, <3>3, SameCount DEF Governed!MayRead
    <3>5. h \in history' \ history
      BY <2>1, <2>3
    <3> QED BY <2>1, <3>1, <3>4, <3>5, SameCount DEF Governed!Read
  <2> QED BY <2>2, <2>3
<1>2. CASE ~ReadSource
  <2>1. CASE AgentNode \/ SelectNode \/ InvestigationFails
    BY <2>1 DEF AgentNode, RetrySourceChanged, EmitExactRetry, StopObserving, TurnRefused,
       TakeTurn, SelectNode, AcceptObservation, AcceptFinish, CorrectSelector,
       RejectObservation, InvestigationFails
  <2>2. CASE CacheHit \/ BlockCall \/ GateNode
    BY <2>2 DEF CacheHit, BlockCall, GateNode, CloseAfterInvestigation, ProposeTicket,
       RetryLater, RequestBusinessClarification, ReviseIssue, ApplyAndEnd
  <2>3. CASE BetweenRuns \/ TicketSourceChanges \/ StayIdle \/ UNCHANGED vars
    BY <2>3 DEF BetweenRuns, FirstInvestigation, CloseAtClarificationLimit, AnswerClarification,
       Retry, RetryFails, ProposalLapses, TicketSourceChanges, StayIdle, vars
  <2> QED BY <1>2, <2>1, <2>2, <2>3 DEF Next, ToolsNode
<1> QED BY <1>1, <1>2

(* CaseToolCache, ToolBudget and RetryController together implement
   GovernedReading: at most MaxReads reads of a Case, and for one query at one
   revision one read, or a second after a failure that may pass. *)
THEOREM ReadsAreGoverned == Spec => KeepsGovernance
<1>1. Init => Governed!Init
  BY DEF Init, Governed!Init
<1>2. CaseInv /\ [Next]_vars => [Governed!Read]_history
  BY StepIsGoverned
<1> QED BY CacheKnowsTheReads, <1>1, <1>2, PTL DEF Spec, KeepsGovernance, Governed!Spec
=============================================================================
