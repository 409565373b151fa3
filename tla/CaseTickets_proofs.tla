------------------------ MODULE CaseTickets_proofs ------------------------
(***************************************************************************)
(* A Case says the truth about its ticket.  The executor's transactions    *)
(* are apart, so the invariant adds what it may rely on between them:      *)
(* before the write there is no ticket of its Case, at the read-back it is *)
(* there, and a restart in between leaves action and Case executing.  From *)
(* this and CaseInv, each step maps to one of TicketPromise or to none.    *)
(***************************************************************************)
EXTENDS CaseLifecycle_proofs

Accounted(k) ==
    /\ \A t \in tickets : t.case = k =>
         /\ actions[k][t.version] \in {"submitted", "succeeded"}
         /\ cases[k].state = "executing_action" \/ cases[k].outcome = "ticket_created"
         /\ cases[k].scope = t.scope
    /\ cases[k].outcome = "ticket_created" =>
         /\ cases[k].state = "closed"
         /\ \E t \in tickets : t.case = k /\ actions[k][t.version] = "succeeded"

HandlerAccounts(r) ==
    /\ Step(r) = "submit" => actions[ctx[r].case][ctx[r].version] \in {"ready", "failed_retryable"}
    /\ Step(r) = "record_fault" => \A t \in tickets : t.case # ctx[r].case
    /\ Step(r) = "read_back" => NewTicket(r) \in tickets

AccountInv ==
    /\ \A k \in Cases : Accounted(k)
    /\ \A r \in Requests : HandlerAccounts(r)

-----------------------------------------------------------------------------
(* At first there is nothing to account for. *)
LEMMA AccountInvInit == Init => AccountInv
<1> SUFFICES ASSUME Init PROVE AccountInv
  OBVIOUS
<1>1. \A k \in Cases : Accounted(k)
  BY OutcomesAssumption DEF Init, Accounted, AbsentCase, CaseOutcomes
<1>2. \A r \in Requests : Step(r) = "idle"
  BY DEF Init, Step
<1>3. \A r \in Requests : HandlerAccounts(r)
  BY <1>2 DEF HandlerAccounts
<1> QED BY <1>1, <1>3 DEF AccountInv

(* A Case that neither executes nor is closed has no ticket. *)
LEMMA NoTicketBefore ==
  ASSUME AccountInv, NEW k \in Cases, cases[k].state \notin {"executing_action", "closed"}
  PROVE  cases[k].outcome # "ticket_created" /\ \A t \in tickets : t.case # k
  BY DEF AccountInv, Accounted

(* Nor does an executing one whose action was not submitted. *)
LEMMA NoTicketYet ==
  ASSUME CaseInv, AccountInv, NEW k \in Cases, NEW v \in Versions,
         actions[k][v] \in {"ready", "failed_retryable"}
  PROVE  \A t \in tickets : t.case # k
<1> SUFFICES ASSUME NEW t \in tickets, t.case = k PROVE FALSE
  OBVIOUS
<1>1. t.version \in Versions
  BY DEF CaseInv, TypeOK, Tickets
<1>2. actions[k][t.version] \in {"submitted", "succeeded"}
  BY DEF AccountInv, Accounted
<1>3. t.version = v
  BY <1>1, <1>2 DEF CaseInv, ActionsMatchCases, OneExecutionPerCase
<1> QED BY <1>2, <1>3

(* What was accounted for stays so while rows and tickets do. *)
LEMMA AccountedStays ==
  ASSUME NEW k \in Cases, Accounted(k), Kept(k),
         \A t : t.case = k => (t \in tickets' <=> t \in tickets)
  PROVE  Accounted(k)'
  BY DEF Accounted, Kept

(* A Case without tickets that does not claim one is accounted for. *)
LEMMA NothingToAccount ==
  ASSUME NEW k \in Cases, \A t \in tickets' : t.case # k, cases'[k].outcome # "ticket_created"
  PROVE  Accounted(k)'
  BY DEF Accounted

(* A handler outside the executor accounts for nothing. *)
LEMMA NotActing ==
  ASSUME NEW r \in Requests, Step(r)' \notin ActionSteps
  PROVE  HandlerAccounts(r)'
  BY DEF HandlerAccounts, ActionSteps

(* Nor does a handler lose what it relies on while its Case is kept. *)
LEMMA HandlerAccountsStays ==
  ASSUME NEW r \in Requests, HandlerAccounts(r), pc'[r] = pc[r], ctx'[r] = ctx[r],
         Step(r) \in ActionSteps =>
           Kept(ctx[r].case) /\ \A t : t.case = ctx[r].case => (t \in tickets' <=> t \in tickets)
  PROVE  HandlerAccounts(r)'
<1>1. Step(r)' = Step(r)
  BY DEF Step
<1>2. CASE Step(r) \notin ActionSteps
  BY <1>1, <1>2 DEF HandlerAccounts, ActionSteps
<1>3. CASE Step(r) \in ActionSteps
  <2>1. NewTicket(r)' = NewTicket(r) /\ NewTicket(r).case = ctx[r].case
    BY <1>3 DEF NewTicket, Kept
  <2> QED BY <1>1, <1>3, <2>1 DEF HandlerAccounts, Kept
<1> QED BY <1>2, <1>3

-----------------------------------------------------------------------------
(* The executor's own Case. *)
LEMMA ActsAccount ==
  ASSUME CaseInv, AccountInv, NEW r \in Requests, Acts(r)
  PROVE  (\A k \in Cases : k = ctx[r].case => Accounted(k)') /\ HandlerAccounts(r)'
<1>1. Step(r) = pc[r] /\ Step(r) \in ActionSteps
  BY DEF Acts, SubmitAction, SubmitFaultyAction, RecordActionFault, ReadBackTicket, Running,
     Step, ActionSteps
<1>2. PICK k \in Cases, v \in Versions :
        /\ k = ctx[r].case /\ v = ctx[r].version /\ cases[k].state = "executing_action"
        /\ \A w \in Versions : actions[k][w] # "absent" <=> w = v
  BY <1>1, Executing
<1>3. TypeOK /\ HandlerAccounts(r) /\ Accounted(k) /\ cases[k].outcome # "ticket_created"
  BY <1>2 DEF CaseInv, AccountInv, Accounted
<1>4. \A t \in tickets : t.case = k => t.version = v /\ t.scope = cases[k].scope
  <2>1. \A t \in tickets : t.version \in Versions
    BY <1>3 DEF TypeOK, Tickets
  <2> QED BY <1>2, <1>3, <2>1 DEF Accounted
<1>5. NewTicket(r).case = k /\ NewTicket(r).version = v /\ NewTicket(r).scope = cases[k].scope
  BY <1>2 DEF NewTicket
<1>6. ctx[r] \in Contexts
  BY <1>3 DEF TypeOK
<1>7. CASE SubmitAction(r)
  <2>1. actions'[k][v] = "submitted" /\ cases' = cases /\ tickets' = tickets \cup {NewTicket(r)}
        /\ UNCHANGED ctx /\ Step(r)' = "read_back"
    BY <1>2, <1>3, <1>7 DEF SubmitAction, TypeOK, Goto, Step
  <2>2. Accounted(k)'
    BY <1>2, <1>3, <1>4, <1>5, <2>1 DEF Accounted
  <2>3. NewTicket(r)' = NewTicket(r)
    BY <2>1 DEF NewTicket
  <2> QED BY <1>2, <2>1, <2>2, <2>3 DEF HandlerAccounts
<1>8. CASE SubmitFaultyAction(r)
  <2>1. \A t \in tickets : t.case # k
    BY <1>1, <1>2, <1>3, <1>8, NoTicketYet DEF SubmitFaultyAction, Running, HandlerAccounts
  <2>2. cases' = cases /\ tickets' = tickets /\ Step(r)' = "record_fault"
    BY <1>3, <1>8 DEF SubmitFaultyAction, TypeOK, Goto, Step
  <2>3. ctx'[r].case = k
    BY <1>2, <1>3, <1>6, <1>8 DEF SubmitFaultyAction, TypeOK, Contexts
  <2> QED BY <1>2, <1>3, <2>1, <2>2, <2>3, NothingToAccount DEF HandlerAccounts
<1>9. CASE RecordActionFault(r)
  <2>1. \A t \in tickets' : t.case # k
    BY <1>1, <1>2, <1>3, <1>9 DEF RecordActionFault, Running, HandlerAccounts
  <2>2. ctx[r].fault \in ScriptableFaults
    BY <1>1, <1>9 DEF RecordActionFault, Running, CaseInv, HandlersKnowTheirCase,
       HandlerKnowsItsCase
  <2>3. (\E o \in {"failed", "uncertain"} : CloseCase(k, o)) \/ MoveCase(k, "awaiting_retry")
    BY <1>2, <1>9, <2>2 DEF RecordActionFault, ScriptableFaults
  <2>4. cases'[k].outcome # "ticket_created"
    BY <1>3, <2>3 DEF CloseCase, MoveCase, TypeOK, CaseRows
  <2>5. Step(r)' = "idle"
    BY <1>3, <1>9 DEF RecordActionFault, Return, TypeOK, Step
  <2>6. Accounted(k)'
    BY <2>1, <2>4, NothingToAccount
  <2> QED BY <1>2, <2>5, <2>6, NotActing DEF ActionSteps
<1>10. CASE ReadBackTicket(r)
  <2>1. NewTicket(r) \in tickets /\ tickets' = tickets
    BY <1>1, <1>3, <1>10 DEF ReadBackTicket, Running, HandlerAccounts
  <2>2. actions'[k][v] = "succeeded" /\ CloseCase(k, "ticket_created")
    BY <1>2, <1>3, <1>5, <1>10, <2>1 DEF ReadBackTicket, TypeOK
  <2>3. cases'[k].state = "closed" /\ cases'[k].outcome = "ticket_created"
        /\ cases'[k].scope = cases[k].scope
    BY <1>3, <2>2 DEF CloseCase, TypeOK, CaseRows
  <2>4. Step(r)' = "idle"
    BY <1>3, <1>10 DEF ReadBackTicket, Return, TypeOK, Step
  <2>5. Accounted(k)'
    BY <1>4, <1>5, <2>1, <2>2, <2>3 DEF Accounted
  <2> QED BY <1>2, <2>4, <2>5, NotActing DEF ActionSteps
<1> QED BY <1>7, <1>8, <1>9, <1>10 DEF Acts

(* Before anything is executed there is no ticket, and none appears. *)
LEMMA EarlierStepsAccount ==
  ASSUME CaseInv, AccountInv, NEW r \in Requests, MovesCase(r) \/ Settles(r)
  PROVE  (\A k \in Cases : k = ctx[r].case => Accounted(k)') /\ HandlerAccounts(r)'
<1>1. TypeOK
  BY DEF CaseInv
<1>2. PICK k \in Cases :
        k = ctx[r].case /\ cases[k].state \notin {"executing_action", "closed"}
  <2>1. CASE MovesCase(r)
    <3>1. pc[r] \in {"ask_target", "clarification", "investigate"}
      BY ZenonT(150), <2>1 DEF MovesCase, RequestTargetClarification, SelectTarget, CloseAtClarificationLimit,
         InvestigationFails, ProposeTicket, RequestBusinessClarification, RetryLater,
         CloseAfterInvestigation, ReviseIssue, Running, Resumed
    <3>2. Step(r) = pc[r] /\ Step(r) \in CaseSteps
      BY <3>1 DEF Step, CaseSteps, ProposalSteps, ActionSteps
    <3>3. ctx[r].case \in Cases /\ cases[ctx[r].case].state \in StatesAt(pc[r])
      BY <3>2 DEF CaseInv, HandlersKnowTheirCase, HandlerKnowsItsCase
    <3> QED BY <3>1, <3>3, StepsAreDistinct
  <2>2. CASE Settles(r)
    <3>1. pc[r] \in {"confirmation", "decline"}
      BY <2>2 DEF Settles, ExpireProposal, InvalidateProposal, AcceptConfirmation, Decline,
         Deciding, Running
    <3>2. ctx[r].case \in Cases
      BY <3>1 DEF CaseInv, HandlersKnowTheirCase, HandlerKnowsItsCase, Step, CaseSteps,
         ProposalSteps
    <3> QED BY <2>2, <3>2, SettledIsAwaited
  <2> QED BY <2>1, <2>2
<1>3. cases[k].outcome # "ticket_created" /\ \A t \in tickets : t.case # k
  BY <1>2, NoTicketBefore
<1>4. UNCHANGED tickets
  BY ZenonT(150) DEF MovesCase, Settles, RequestTargetClarification, SelectTarget, CloseAtClarificationLimit,
     InvestigationFails, ProposeTicket, RequestBusinessClarification, RetryLater,
     CloseAfterInvestigation, ReviseIssue, ExpireProposal, InvalidateProposal,
     AcceptConfirmation, Decline
<1>5. cases[k] \in CaseRows
  BY <1>1, <1>2 DEF TypeOK
<1>6. cases'[k].outcome # "ticket_created"
  <2>1. CASE RequestTargetClarification(r) \/ CloseAtClarificationLimit(r)
             \/ InvestigationFails(r) \/ RequestBusinessClarification(r) \/ RetryLater(r)
             \/ CloseAfterInvestigation(r)
    <3>1. \/ \E o \in {"human_support_required", "resolved_no_action"} : CloseCase(k, o)
          \/ \E created \in {0, 1} : \E reception : AskCustomer(k, created, reception)
          \/ MoveCase(k, "awaiting_retry")
      BY <1>2, <2>1 DEF RequestTargetClarification, CloseAtClarificationLimit, InvestigationFails,
         RequestBusinessClarification, RetryLater, CloseAfterInvestigation
    <3>2. CASE \E o \in {"human_support_required", "resolved_no_action"} : CloseCase(k, o)
      BY <1>1, <1>5, <3>2 DEF CloseCase, TypeOK, CaseRows
    <3>3. CASE \E created \in {0, 1} : \E reception : AskCustomer(k, created, reception)
      BY <1>1, <1>3, <1>5, <3>3 DEF AskCustomer, TypeOK, CaseRows
    <3>4. CASE MoveCase(k, "awaiting_retry")
      BY <1>1, <1>3, <1>5, <3>4 DEF MoveCase, TypeOK, CaseRows
    <3> QED BY <3>1, <3>2, <3>3, <3>4
  <2>2. CASE SelectTarget(r)
    BY <1>1, <1>2, <1>3, <1>5, <2>2 DEF SelectTarget, TypeOK, CaseRows
  <2>3. CASE ProposeTicket(r)
    BY <1>1, <1>2, <1>3, <1>5, <2>3 DEF ProposeTicket, TypeOK, CaseRows
  <2>4. CASE ReviseIssue(r)
    BY <1>1, <1>2, <1>3, <1>5, <2>4 DEF ReviseIssue, TypeOK, CaseRows
  <2>5. CASE ExpireProposal(r) \/ InvalidateProposal(r) \/ AcceptConfirmation(r)
    <3>1. \E v, state, next : SettleProposal(k, v, state, next)
      BY <1>2, <2>5 DEF ExpireProposal, InvalidateProposal, AcceptConfirmation
    <3> QED BY <1>1, <1>2, <1>3, <1>5, <3>1 DEF SettleProposal, TypeOK, CaseRows
  <2>6. CASE Decline(r)
    BY <1>1, <1>2, <1>3, <1>5, <2>6 DEF Decline, TypeOK, CaseRows
  <2> QED BY <2>1, <2>2, <2>3, <2>4, <2>5, <2>6 DEF MovesCase, Settles
<1>7. Accounted(k)'
  <2>1. \A t \in tickets' : t.case # k
    BY <1>3, <1>4
  <2> QED BY <1>2, <1>6, <2>1, NothingToAccount
<1>8. CASE AcceptConfirmation(r)
  <2>1. ctx[r].version \in Versions
    BY <1>8 DEF AcceptConfirmation, Running, CaseInv, HandlersKnowTheirCase, HandlerKnowsItsCase,
       Step, ProposalSteps
  <2>2. actions'[k][ctx[r].version] = "ready" /\ UNCHANGED ctx /\ Step(r)' = "submit"
    BY <1>1, <1>2, <1>8, <2>1 DEF AcceptConfirmation, Goto, Step, TypeOK
  <2>3. HandlerAccounts(r)'
    BY <1>2, <2>2 DEF HandlerAccounts
  <2> QED BY <1>7, <2>3, <1>2
<1>9. CASE ~AcceptConfirmation(r)
  <2>1. pc'[r] \in {"idle", "fail_run", "investigate"}
    BY ZenonT(150), <1>1, <1>9 DEF MovesCase, Settles, RequestTargetClarification, SelectTarget,
       CloseAtClarificationLimit, InvestigationFails, ProposeTicket,
       RequestBusinessClarification, RetryLater, CloseAfterInvestigation, ReviseIssue,
       ExpireProposal, InvalidateProposal, Decline, Goto, Await, Return, control, TypeOK,
       Running, Resumed
  <2>2. HandlerAccounts(r)'
    BY <2>1 DEF HandlerAccounts, Step
  <2> QED BY <1>7, <2>2, <1>2
<1> QED BY <1>8, <1>9

(* A step that writes no row moves no handler between the executor's steps. *)
LEMMA QuietAccount ==
  ASSUME CaseInv, AccountInv, NEW r \in Requests, WritesNothing(r)
  PROVE  HandlerAccounts(r)'
<1>1. HandlerAccounts(r) /\ TypeOK
  BY DEF AccountInv, CaseInv
<1>2. UNCHANGED rows
  BY WritesNothingKeeps
<1>3. CASE StartRun(r)
  <2>1. UNCHANGED ctx /\ pc[r] = "start_run" /\ pc'[r] = ctx[r].entry
    BY <1>1, <1>3 DEF StartRun, Running, Goto, Await, TypeOK
  <2>2. pc'[r] \in ActionSteps => Step(r)' = Step(r)
    BY <2>1 DEF Step, ActionSteps
  <2>3. NewTicket(r)' = NewTicket(r)
    BY <1>2, <2>1 DEF NewTicket, rows
  <2>4. CASE pc'[r] \in ActionSteps
    BY <1>1, <1>2, <2>1, <2>2, <2>3, <2>4 DEF HandlerAccounts, rows
  <2>5. CASE pc'[r] \notin ActionSteps /\ pc'[r] # "start_run"
    BY <2>5 DEF HandlerAccounts, Step, ActionSteps
  <2>6. CASE pc'[r] = "start_run"
    <3>1. Step(r)' = Step(r)
      BY <2>1, <2>6 DEF Step
    <3> QED BY <1>1, <1>2, <2>1, <2>3, <3>1 DEF HandlerAccounts, rows
  <2> QED BY <2>4, <2>5, <2>6
<1>4. CASE ~StartRun(r)
  <2>1. pc'[r] \in {"idle", "fail_run", "route", "ask_target", "investigate"}
    BY <1>1, <1>4 DEF WritesNothing, Triage, TriageFails, CompleteWithoutCase, AskTargetAgain,
       ResumeInvestigation, RejectInconsistentFacts, FailRun, RejectDecision, RejectDuplicate,
       SubmitConflicts, Goto, Await, Return, TypeOK
  <2> QED BY <2>1 DEF HandlerAccounts, Step
<1> QED BY <1>3, <1>4

(* A new Case has no ticket. *)
LEMMA CreatesAccount ==
  ASSUME CaseInv, AccountInv, NEW r \in Requests, Creates(r)
  PROVE  (\A k \in Cases : Accounted(k)') /\ HandlerAccounts(r)'
<1>1. PICK o \in Cases, scope \in EntryScopes : CreateCase(r, o, scope)
  BY DEF Creates
<1>2. TypeOK
  BY DEF CaseInv
<1>3. \A t \in tickets' : t.case # o
  BY <1>1, NoTicketBefore DEF CreateCase
<1>4. cases'[o].outcome = None
  BY <1>1, <1>2 DEF CreateCase, TypeOK, AbsentCase
<1>5. Accounted(o)'
  BY <1>3, <1>4, OutcomesAssumption, NothingToAccount DEF CaseOutcomes
<1>6. \A k \in Cases : k # o => Accounted(k)'
  <2> SUFFICES ASSUME NEW k \in Cases, k # o PROVE Accounted(k)'
    OBVIOUS
  <2>1. Kept(k) /\ UNCHANGED tickets
    BY <1>1, <1>2 DEF CreateCase, Kept, TypeOK
  <2> QED BY <2>1, AccountedStays DEF AccountInv
<1>7. pc'[r] \in {"investigate", "ask_target"}
  BY <1>1, <1>2 DEF CreateCase, Goto, Await, TypeOK
<1> QED BY <1>5, <1>6, <1>7 DEF HandlerAccounts, Step

(* A handler that the loop serves is alone, and leaves the other locals. *)
LEMMA ServedAlone ==
  ASSUME CaseInv, NEW r \in Requests, Continues(r)
  PROVE  /\ loop = None \/ loop = r
         /\ \A q \in Requests : q # r => pc'[q] = pc[q] /\ ctx'[q] = ctx[q]
<1> TypeOK
  BY DEF CaseInv
<1>1. loop = None \/ loop = r
  BY ZenonT(150) DEF Continues, StartRun, Triage, TriageFails, CompleteWithoutCase, CreateCase,
     RequestTargetClarification, AskTargetAgain, SelectTarget, CloseAtClarificationLimit,
     ResumeInvestigation, RejectInconsistentFacts, InvestigationFails, ProposeTicket,
     RequestBusinessClarification, RetryLater, CloseAfterInvestigation, ReviseIssue, FailRun,
     RejectDecision, ExpireProposal, RejectDuplicate, InvalidateProposal, AcceptConfirmation,
     Decline, SubmitConflicts, SubmitAction, SubmitFaultyAction, RecordActionFault, ReadBackTicket, Deciding, Running, Resumed
<1>2. \/ \E step : Await(r, step)
      \/ \E step : Goto(r, step)
      \/ Return(r)
      \/ UNCHANGED control
  BY ZenonT(150) DEF Continues, StartRun, Triage, TriageFails, CompleteWithoutCase, CreateCase,
     RequestTargetClarification, AskTargetAgain, SelectTarget, CloseAtClarificationLimit,
     ResumeInvestigation, RejectInconsistentFacts, InvestigationFails, ProposeTicket,
     RequestBusinessClarification, RetryLater, CloseAfterInvestigation, ReviseIssue, FailRun,
     RejectDecision, ExpireProposal, RejectDuplicate, InvalidateProposal, AcceptConfirmation,
     Decline, SubmitConflicts, SubmitAction, SubmitFaultyAction, RecordActionFault, ReadBackTicket
<1>3. \A q \in Requests : q # r => pc'[q] = pc[q]
  BY <1>2 DEF Await, Goto, Return, control, TypeOK
<1>4. \A q \in Requests : q # r => ctx'[q] = ctx[q]
  BY ZenonT(150) DEF Continues, StartRun, Triage, TriageFails, CompleteWithoutCase, CreateCase,
     RequestTargetClarification, AskTargetAgain, SelectTarget, CloseAtClarificationLimit,
     ResumeInvestigation, RejectInconsistentFacts, InvestigationFails, ProposeTicket,
     RequestBusinessClarification, RetryLater, CloseAfterInvestigation, ReviseIssue, FailRun,
     RejectDecision, ExpireProposal, RejectDuplicate, InvalidateProposal, AcceptConfirmation,
     Decline, SubmitConflicts, SubmitAction, SubmitFaultyAction, RecordActionFault, ReadBackTicket, Return, TypeOK
<1> QED BY <1>1, <1>3, <1>4

(* The other handlers are in other Conversations, so at other Cases. *)
LEMMA OthersCaseKept ==
  ASSUME CaseInv, NEW r \in Requests, Continues(r), NEW q \in Requests \ {r},
         Step(q) \in ActionSteps
  PROVE  /\ Kept(ctx[q].case)
         /\ \A t : t.case = ctx[q].case => (t \in tickets' <=> t \in tickets)
<1> TypeOK
  BY DEF CaseInv
<1> DEFINE k == ctx[q].case
<1>1. k \in Cases /\ cases[k].state = "executing_action"
      /\ cases[k].conversation = ctx[q].conversation
  BY Executing
<1>2. pc[q] # "idle"
  BY DEF Step, ActionSteps
<1>3. lock[cases[k].conversation] = q
  BY <1>1, <1>2 DEF CaseInv, HandlersKnowTheirCase, HandlerKnowsItsCase
<1> HIDE DEF k
<1>4. CASE WritesNothing(r) \/ Creates(r)
  <2>1. Kept(k)
    BY ZenonT(150), <1>1, <1>4, WritesNothingKeeps DEF rows, Kept, Creates, CreateCase, TypeOK
  <2>2. UNCHANGED tickets
    BY ZenonT(150), <1>4, WritesNothingKeeps DEF rows, Creates, CreateCase
  <2> QED BY <2>1, <2>2 DEF k
<1>5. CASE MovesCase(r) \/ Settles(r) \/ Acts(r)
  <2>1. Step(r) \in CaseSteps /\ pc[r] # "idle"
    BY ZenonT(150), <1>5 DEF MovesCase, Acts, Settles, RequestTargetClarification, SelectTarget,
       CloseAtClarificationLimit, InvestigationFails, ProposeTicket,
       RequestBusinessClarification, RetryLater, CloseAfterInvestigation, ReviseIssue,
       SubmitAction, SubmitFaultyAction, RecordActionFault, ReadBackTicket, ExpireProposal,
       InvalidateProposal, AcceptConfirmation, Decline, Deciding, Running, Resumed, Step,
       CaseSteps, ProposalSteps, ActionSteps
  <2>2. lock[cases[ctx[r].case].conversation] = r
    BY <2>1 DEF CaseInv, HandlersKnowTheirCase, HandlerKnowsItsCase
  <2>3. ctx[r].case # k
    BY <1>3, <2>2
  <2>4. Kept(k)
    BY <1>1, <2>3, OtherCasesKept
  <2>5. tickets' = tickets \/ tickets' = tickets \cup {NewTicket(r)}
    BY ZenonT(150), <1>5 DEF MovesCase, Acts, Settles, RequestTargetClarification, SelectTarget,
       CloseAtClarificationLimit, InvestigationFails, ProposeTicket,
       RequestBusinessClarification, RetryLater, CloseAfterInvestigation, ReviseIssue,
       SubmitAction, SubmitFaultyAction, RecordActionFault, ReadBackTicket, ExpireProposal,
       InvalidateProposal, AcceptConfirmation, Decline
  <2>6. NewTicket(r).case # k
    BY <2>3 DEF NewTicket
  <2> QED BY <2>4, <2>5, <2>6 DEF k
<1> QED BY <1>4, <1>5, ContinuesCases

LEMMA OthersAccount ==
  ASSUME CaseInv, AccountInv, NEW r \in Requests, Continues(r), NEW q \in Requests \ {r}
  PROVE  HandlerAccounts(q)'
<1>1. HandlerAccounts(q) /\ pc'[q] = pc[q] /\ ctx'[q] = ctx[q]
  BY ServedAlone DEF AccountInv
<1> QED BY <1>1, OthersCaseKept, HandlerAccountsStays

(* Every step of a handler keeps the account. *)
LEMMA ContinuesAccount ==
  ASSUME CaseInv, AccountInv, NEW r \in Requests, Continues(r)
  PROVE  AccountInv'
<1>1. \A q \in Requests \ {r} : HandlerAccounts(q)'
  BY OthersAccount
<1>2. HandlerAccounts(r)'
  BY ContinuesCases, QuietAccount, CreatesAccount, EarlierStepsAccount, ActsAccount
<1>3. ASSUME NEW k \in Cases PROVE Accounted(k)'
  <2>1. CASE WritesNothing(r)
    BY <2>1, WritesNothingKeeps, AccountedStays DEF rows, Kept, AccountInv
  <2>2. CASE Creates(r)
    BY <2>2, CreatesAccount
  <2>3. CASE ~WritesNothing(r) /\ ~Creates(r) /\ k = ctx[r].case
    BY <2>3, ContinuesCases, EarlierStepsAccount, ActsAccount
  <2>4. CASE ~WritesNothing(r) /\ ~Creates(r) /\ k # ctx[r].case
    <3>1. Kept(k)
      BY <2>4, OtherCasesKept
    <3>2. tickets' = tickets \/ tickets' = tickets \cup {NewTicket(r)}
      BY ZenonT(150), <2>4, ContinuesCases DEF MovesCase, Acts, Settles, RequestTargetClarification,
         SelectTarget, CloseAtClarificationLimit, InvestigationFails, ProposeTicket,
         RequestBusinessClarification, RetryLater, CloseAfterInvestigation, ReviseIssue,
         SubmitAction, SubmitFaultyAction, RecordActionFault, ReadBackTicket, ExpireProposal,
         InvalidateProposal, AcceptConfirmation, Decline
    <3>3. NewTicket(r).case # k
      BY <2>4 DEF NewTicket
    <3> QED BY <3>1, <3>2, <3>3, AccountedStays DEF AccountInv
  <2> QED BY <2>1, <2>2, <2>3, <2>4
<1> QED BY <1>1, <1>2, <1>3 DEF AccountInv

(* A retry of an action finds it failed and without a ticket. *)
LEMMA ArrivesAccount ==
  ASSUME CaseInv, AccountInv, NEW r \in Requests, Arrives(r)
  PROVE  AccountInv'
<1>1. TypeOK /\ UNCHANGED <<tickets, actions>>
  BY ZenonT(150) DEF CaseInv, Arrives, SubmitMessage, RetryCase, DecideProposal, rows
<1>2. \A q \in Requests \ {r} : pc'[q] = pc[q] /\ ctx'[q] = ctx[q]
  BY ZenonT(300), <1>1 DEF Arrives, SubmitMessage, RetryCase, DecideProposal, Enter, TypeOK
<1>3. \A k \in Cases : Accounted(k)'
  <2> SUFFICES ASSUME NEW k \in Cases PROVE Accounted(k)'
    OBVIOUS
  <2>1. CASE UNCHANGED rows
    BY <2>1, AccountedStays DEF rows, Kept, AccountInv
  <2>2. ASSUME NEW o \in Cases, RetryCase(r, o) PROVE Accounted(k)'
    <3>1. CASE k # o
      BY ZenonT(150), <1>1, <2>2, <3>1, AccountedStays DEF RetryCase, MoveCase, Kept, AccountInv, TypeOK
    <3>2. CASE k = o
      <4>1. cases[k].outcome # "ticket_created" /\ \A t \in tickets : t.case # k
        BY ZenonT(150), <2>2, <3>2, NoTicketBefore DEF RetryCase, IsRetryable
      <4>2. \E state : MoveCase(k, state)
        BY ZenonT(150), <2>2, <3>2 DEF RetryCase
      <4>3. cases'[k].outcome = cases[k].outcome
        BY <1>1, <4>2 DEF MoveCase, TypeOK, CaseRows
      <4> QED BY <1>1, <4>1, <4>3, NothingToAccount
    <3> QED BY <3>1, <3>2
  <2> QED BY ZenonT(150), <2>1, <2>2 DEF Arrives, SubmitMessage, DecideProposal
<1>4. HandlerAccounts(r)'
  <2>1. ASSUME NEW o \in Cases, RetryCase(r, o) PROVE HandlerAccounts(r)'
    <3>1. CASE Enter(r, [NoContext EXCEPT !.conversation = cases[o].conversation, !.case = o,
                                          !.entry = "investigate"])
      BY <1>1, <3>1 DEF Enter, HandlerAccounts, Step, TypeOK, NoContext
    <3>2. ASSUME NEW v \in Resumable(o),
                 Enter(r, [NoContext EXCEPT !.conversation = cases[o].conversation, !.case = o,
                                            !.entry = "submit", !.version = v])
          PROVE  HandlerAccounts(r)'
      <4>1. Step(r)' = "submit" /\ ctx'[r].case = o /\ ctx'[r].version = v
        BY <1>1, <3>2 DEF Enter, Step, TypeOK, NoContext
      <4> QED BY <1>1, <3>2, <4>1 DEF HandlerAccounts, Resumable, ActionsOf
    <3> QED BY ZenonT(150), <2>1, <3>1, <3>2 DEF RetryCase
  <2>2. CASE (\E c \in Conversations : SubmitMessage(r, c))
             \/ \E o \in Cases, v \in Versions, asked \in Versions :
                  \/ DecideProposal(r, o, v, asked, "confirmation")
                  \/ DecideProposal(r, o, v, asked, "decline")
    <3>1. PICK context :
            /\ context.entry \in {"triage", "clarification", "confirmation", "decline"}
            /\ Enter(r, context)
      <4>1. ASSUME NEW c \in Conversations, SubmitMessage(r, c)
            PROVE  \E context : /\ context.entry \in {"triage", "clarification"}
                               /\ Enter(r, context)
        <5> DEFINE context == [NoContext EXCEPT !.conversation = c, !.case = activeCase[c],
                 !.entry = IF activeCase[c] = None THEN "triage" ELSE "clarification"]
        <5>1. Enter(r, context)
          BY <4>1 DEF SubmitMessage
        <5>2. context.entry \in {"triage", "clarification"}
          BY DEF NoContext
        <5> HIDE DEF context
        <5> QED BY <5>1, <5>2
      <4>2. ASSUME NEW o \in Cases, NEW v \in Versions, NEW asked \in Versions,
                   NEW decision \in {"confirmation", "decline"},
                   DecideProposal(r, o, v, asked, decision)
            PROVE  \E context : /\ context.entry \in {"confirmation", "decline"}
                               /\ Enter(r, context)
        <5> DEFINE context == [NoContext EXCEPT !.conversation = cases[o].conversation,
                 !.case = o, !.version = v, !.asked = asked, !.entry = decision]
        <5>1. Enter(r, context)
          BY <4>2 DEF DecideProposal
        <5>2. context.entry \in {"confirmation", "decline"}
          BY DEF NoContext
        <5> HIDE DEF context
        <5> QED BY <5>1, <5>2
      <4> QED BY <2>2, <4>1, <4>2
    <3>2. Step(r)' = context.entry
      BY <1>1, <3>1 DEF Enter, Step, TypeOK
    <3> QED BY <3>1, <3>2, NotActing DEF ActionSteps
  <2> QED BY <2>1, <2>2 DEF Arrives
<1>5. \A q \in Requests \ {r} : HandlerAccounts(q)'
  <2> SUFFICES ASSUME NEW q \in Requests \ {r} PROVE HandlerAccounts(q)'
    OBVIOUS
  <2>1. ASSUME Step(q) \in ActionSteps PROVE Kept(ctx[q].case)
    <3>1. ctx[q].case \in Cases /\ cases[ctx[q].case].state = "executing_action"
      BY <2>1, Executing
    <3> QED BY <3>1, ArrivalKeeps
  <2> QED BY <1>1, <1>2, <2>1, HandlerAccountsStays DEF AccountInv
<1> QED BY <1>3, <1>4, <1>5 DEF AccountInv

(* Every step, and every stuttering step, keeps the account. *)
LEMMA AccountInvNext == CaseInv /\ AccountInv /\ [Next]_vars => AccountInv'
<1> SUFFICES ASSUME CaseInv, AccountInv, [Next]_vars PROVE AccountInv'
  OBVIOUS
<1>1. ASSUME NEW r \in Requests, Arrives(r) \/ Continues(r) PROVE AccountInv'
  BY <1>1, ArrivesAccount, ContinuesAccount
<1>2. ASSUME NEW r \in Requests, ReadExistingTickets(r) PROVE AccountInv'
  <2>1. UNCHANGED <<rows, pc>> /\ pc[r] = "investigate"
        /\ \A q \in Requests \ {r} : ctx'[q] = ctx[q]
    BY <1>2 DEF ReadExistingTickets, control, Resumed, CaseInv, TypeOK
  <2>2. \A k \in Cases : Accounted(k)'
    BY <2>1, AccountedStays DEF rows, Kept, AccountInv
  <2>3. \A q \in Requests \ {r} : HandlerAccounts(q)'
    BY <2>1, HandlerAccountsStays DEF rows, Kept, AccountInv
  <2>4. HandlerAccounts(r)'
    BY <2>1 DEF HandlerAccounts, Step
  <2> QED BY <2>2, <2>3, <2>4 DEF AccountInv
<1>3. ASSUME NEW o \in Cases, NEW v \in Versions, ExpiryPasses(o, v) PROVE AccountInv'
  BY <1>3 DEF ExpiryPasses, control, AccountInv, Accounted, HandlerAccounts, Step, NewTicket
<1>4. CASE Crash
  BY <1>4 DEF Crash, rows, AccountInv, Accounted, HandlerAccounts, Step
<1>5. CASE UNCHANGED vars
  BY <1>5 DEF vars, rows, control, AccountInv, Accounted, HandlerAccounts, Step, NewTicket
<1> QED BY <1>1, <1>2, <1>3, <1>4, <1>5 DEF Next

(* _submit_and_verify_ticket_action: across retries, faults and restarts a
   Case that ended with a ticket has a verified one, and every ticket belongs
   to the confirmed Proposal of a Case that executes it or ended with it. *)
THEOREM TicketsAlwaysAccounted == Spec => []TicketsAreAccounted
<1>1. CaseInv /\ AccountInv => TicketsAreAccounted
  <2>1. CaseInv => \A t \in tickets : t.case \in Cases
    BY DEF CaseInv, TypeOK, Tickets
  <2> QED BY <2>1 DEF AccountInv, Accounted, TicketsAreAccounted
<1> QED BY AccountInvInit, AccountInvNext, CaseInvariant, <1>1, PTL DEF Spec

-----------------------------------------------------------------------------
(* The ticket view between the ticket transaction and the read-back: it lacks
   the ticket of the one handler the event loop runs there, and no other. *)
SourceInv ==
    /\ \A r \in Requests : pc[r] = "read_back" => loop = r
    /\ sourceTickets \subseteq tickets
    /\ \A t \in tickets \ sourceTickets : \E r \in Requests : pc[r] = "read_back" /\ t = NewTicket(r)
    /\ ticketRevision = Cardinality(sourceTickets)

(* At first the view and the table are empty. *)
LEMMA SourceInvInit == Init => SourceInv
  BY FS_EmptySet DEF Init, SourceInv

(* No handler is at its read-back while the loop serves anything else. *)
LEMMA NobodyReadsBack ==
  ASSUME SourceInv,
         \/ loop = None
         \/ \E r \in Requests : loop = r /\ pc[r] # "read_back"
  PROVE  \A q \in Requests : pc[q] # "read_back"
  BY ConstantsAssumption DEF SourceInv

(* What touches neither the table nor the view, at such a moment *)
LEMMA SourceKept ==
  ASSUME SourceInv, \A q \in Requests : pc[q] # "read_back",
         UNCHANGED <<tickets, source>>,
         \A q \in Requests : pc'[q] = "read_back" => loop' = q
  PROVE  SourceInv'
  BY DEF SourceInv, source

(* A handler's step but the two that write a ticket and show it *)
LEMMA OtherStepsKeepSource ==
  ASSUME CaseInv, SourceInv, NEW r \in Requests,
         Continues(r), ~SubmitAction(r), ~ReadBackTicket(r)
  PROVE  SourceInv'
<1>1. TypeOK
  BY DEF CaseInv
<1>2. loop = None \/ (loop = r /\ pc[r] # "read_back")
  BY ZenonT(150) DEF Continues, StartRun, Triage, TriageFails, CompleteWithoutCase, CreateCase,
     RequestTargetClarification, AskTargetAgain, SelectTarget, CloseAtClarificationLimit,
     ResumeInvestigation, RejectInconsistentFacts, InvestigationFails, ProposeTicket,
     RequestBusinessClarification, RetryLater, CloseAfterInvestigation, ReviseIssue, FailRun,
     RejectDecision, ExpireProposal, RejectDuplicate, InvalidateProposal, AcceptConfirmation,
     Decline, SubmitConflicts, SubmitFaultyAction, RecordActionFault, Deciding, Running, Resumed
<1>3. \A q \in Requests : pc[q] # "read_back"
  BY <1>2, NobodyReadsBack
<1>4. UNCHANGED <<tickets, source>>
  BY ZenonT(150) DEF Continues, StartRun, Triage, TriageFails, CompleteWithoutCase, CreateCase,
     RequestTargetClarification, AskTargetAgain, SelectTarget, CloseAtClarificationLimit,
     ResumeInvestigation, RejectInconsistentFacts, InvestigationFails, ProposeTicket,
     RequestBusinessClarification, RetryLater, CloseAfterInvestigation, ReviseIssue, FailRun,
     RejectDecision, ExpireProposal, RejectDuplicate, InvalidateProposal, AcceptConfirmation,
     Decline, SubmitConflicts, SubmitFaultyAction, RecordActionFault, rows
<1>5. \/ \E step \in {"triage", "investigate", "route"} : Await(r, step)
      \/ \E step : Goto(r, step)
      \/ Return(r)
      \/ UNCHANGED control
  BY ZenonT(150) DEF Continues, StartRun, Triage, TriageFails, CompleteWithoutCase, CreateCase,
     RequestTargetClarification, AskTargetAgain, SelectTarget, CloseAtClarificationLimit,
     ResumeInvestigation, RejectInconsistentFacts, InvestigationFails, ProposeTicket,
     RequestBusinessClarification, RetryLater, CloseAfterInvestigation, ReviseIssue, FailRun,
     RejectDecision, ExpireProposal, RejectDuplicate, InvalidateProposal, AcceptConfirmation,
     Decline, SubmitConflicts, SubmitFaultyAction, RecordActionFault
<1>6. \A q \in Requests : pc'[q] = "read_back" => loop' = q
  BY <1>1, <1>3, <1>5 DEF Await, Goto, Return, control, TypeOK
<1> QED BY <1>3, <1>4, <1>6, SourceKept

(* The ticket transaction leaves the view one ticket behind. *)
LEMMA SubmitKeepsSource ==
  ASSUME CaseInv, SourceInv, NEW r \in Requests, SubmitAction(r)
  PROVE  SourceInv'
<1>1. TypeOK
  BY DEF CaseInv
<1>2. \A q \in Requests : pc[q] # "read_back"
  BY NobodyReadsBack DEF SubmitAction, Running
<1>3. /\ tickets' = tickets \cup {NewTicket(r)} /\ UNCHANGED <<source, cases, ctx>>
      /\ pc' = [pc EXCEPT ![r] = "read_back"] /\ loop' = r
  BY DEF SubmitAction, Goto
<1>4. NewTicket(r)' = NewTicket(r)
  BY <1>3 DEF NewTicket
<1> QED BY <1>1, <1>2, <1>3, <1>4 DEF SourceInv, source, TypeOK

(* The read-back shows it, and counts it once. *)
LEMMA ReadBackKeepsSource ==
  ASSUME CaseInv, AccountInv, SourceInv, NEW r \in Requests, ReadBackTicket(r)
  PROVE  SourceInv'
<1>1. TypeOK
  BY DEF CaseInv
<1>2. loop = r /\ pc[r] = "read_back" /\ r # None
  BY ConstantsAssumption DEF ReadBackTicket, Running
<1>3. NewTicket(r) \in tickets
  BY <1>2 DEF AccountInv, HandlerAccounts, Step
<1>4. \A q \in Requests : pc[q] = "read_back" => q = r
  BY <1>2 DEF SourceInv
<1>5. /\ tickets' = tickets /\ sourceTickets' = sourceTickets \cup {NewTicket(r)}
      /\ ticketRevision' = ticketRevision + (IF NewTicket(r) \in sourceTickets THEN 0 ELSE 1)
  BY DEF ReadBackTicket
<1>6. \A q \in Requests : pc'[q] # "read_back"
  BY <1>1, <1>4 DEF ReadBackTicket, Return, TypeOK
<1>7. sourceTickets' = tickets'
  BY <1>3, <1>4, <1>5 DEF SourceInv
<1>8. IsFiniteSet(sourceTickets)
  BY <1>1, FS_Subset DEF SourceInv, TypeOK
<1>9. ticketRevision' = Cardinality(sourceTickets')
  <2>1. Cardinality(sourceTickets \cup {NewTicket(r)}) =
          IF NewTicket(r) \in sourceTickets THEN Cardinality(sourceTickets)
                                            ELSE Cardinality(sourceTickets) + 1
    BY <1>8, FS_AddElement
  <2>2. ticketRevision = Cardinality(sourceTickets) /\ ticketRevision \in Nat
    BY <1>1 DEF SourceInv, TypeOK
  <2> HIDE DEF NewTicket
  <2> QED BY <1>5, <2>1, <2>2
<1> QED BY <1>6, <1>7, <1>9 DEF SourceInv

(* Every step, a restart among them, keeps the view. *)
LEMMA SourceInvNext == CaseInv /\ AccountInv /\ SourceInv /\ [Next]_vars => SourceInv'
<1> SUFFICES ASSUME CaseInv, AccountInv, SourceInv, [Next]_vars PROVE SourceInv'
  OBVIOUS
<1>1. TypeOK
  BY DEF CaseInv
<1>2. ASSUME NEW r \in Requests, Continues(r) PROVE SourceInv'
  BY <1>2, OtherStepsKeepSource, SubmitKeepsSource, ReadBackKeepsSource
<1>3. ASSUME NEW r \in Requests, Arrives(r) PROVE SourceInv'
  <2>1. loop = None /\ UNCHANGED <<tickets, source>> /\ pc' = [pc EXCEPT ![r] = "start_run"]
    BY ZenonT(150), <1>3 DEF Arrives, SubmitMessage, RetryCase, DecideProposal, Enter, Resumed, rows
  <2>2. \A q \in Requests : pc[q] # "read_back"
    BY <2>1, NobodyReadsBack
  <2>3. \A q \in Requests : pc'[q] # "read_back"
    BY <1>1, <2>1, <2>2 DEF TypeOK
  <2> QED BY <2>1, <2>2, <2>3, SourceKept
<1>4. ASSUME \/ \E r \in Requests : ReadExistingTickets(r)
             \/ \E k \in Cases, v \in Versions : ExpiryPasses(k, v)
      PROVE SourceInv'
  <2>1. loop = None /\ UNCHANGED <<tickets, source, control>>
    BY <1>4 DEF ReadExistingTickets, ExpiryPasses, Resumed, rows, control, source
  <2>2. \A q \in Requests : pc[q] # "read_back"
    BY <2>1, NobodyReadsBack
  <2> QED BY <2>1, <2>2, SourceKept DEF control
<1>5. CASE Crash
  BY <1>5 DEF Crash, rows, SourceInv
<1>6. CASE UNCHANGED vars
  BY <1>6 DEF vars, rows, control, source, SourceInv, NewTicket
<1> QED BY <1>2, <1>3, <1>4, <1>5, <1>6 DEF Next

(* FixtureStore.add_ticket and load_persisted_tickets: between two executors
   the ticket view that reads and revalidation use is the ticket table, and
   its revision counts it, restarts included. *)
THEOREM SourceAlwaysShowsTickets == Spec => []SourceShowsTickets
<1>1. SourceInv => SourceShowsTickets
  BY DEF SourceInv, SourceShowsTickets
<1> QED BY SourceInvInit, SourceInvNext, AccountInvInit, AccountInvNext, CaseInvariant, <1>1,
           PTL DEF Spec

-----------------------------------------------------------------------------
(* A handler about to submit resumes a write that failed retryably, or it has
   just looked for a duplicate and the event loop has served nobody since. *)
SubmitsAtOnce(r) ==
    Step(r) = "submit" =>
      \/ actions[ctx[r].case][ctx[r].version] = "failed_retryable"
      \/ pc[r] = "submit" /\ loop = r /\ ~HasActiveTicket(ctx[r].case)

AtOnceInv == \A r \in Requests : SubmitsAtOnce(r)

(* At first nobody submits. *)
LEMMA AtOnceInvInit == Init => AtOnceInv
  BY DEF Init, AtOnceInv, SubmitsAtOnce, Step

(* A handler that goes on leaves the others what they rely on: those that
   looked for a duplicate run themselves. *)
LEMMA OthersSubmitAtOnce ==
  ASSUME CaseInv, AtOnceInv, NEW r \in Requests, Continues(r), NEW q \in Requests \ {r}
  PROVE  SubmitsAtOnce(q)'
<1>1. pc'[q] = pc[q] /\ ctx'[q] = ctx[q] /\ (loop = None \/ loop = r)
  BY ServedAlone
<1>2. Step(q)' = Step(q)
  BY <1>1 DEF Step
<1> SUFFICES ASSUME Step(q) = "submit" PROVE SubmitsAtOnce(q)'
  BY <1>2 DEF SubmitsAtOnce
<1>3. actions[ctx[q].case][ctx[q].version] = "failed_retryable"
  BY <1>1, ConstantsAssumption DEF AtOnceInv, SubmitsAtOnce
<1>4. Kept(ctx[q].case)
  BY OthersCaseKept DEF ActionSteps
<1> QED BY <1>1, <1>3, <1>4 DEF SubmitsAtOnce, Kept

(* A handler comes to the submission only from its own look, or from the start
   of a Run that resumes. *)
LEMMA ContinuesSubmitsAtOnce ==
  ASSUME CaseInv, AtOnceInv, NEW r \in Requests, Continues(r)
  PROVE  SubmitsAtOnce(r)'
<1>1. TypeOK /\ SubmitsAtOnce(r)
  BY DEF CaseInv, AtOnceInv
<1>2. CASE AcceptConfirmation(r)
  <2>1. /\ ~HasActiveTicket(ctx[r].case) /\ tickets' = tickets /\ ctx' = ctx
        /\ SettleProposal(ctx[r].case, ctx[r].version, "confirmed", "executing_action")
        /\ Goto(r, "submit") /\ pc[r] = "confirmation"
    BY <1>2 DEF AcceptConfirmation, Running
  <2>2. ctx[r].case \in Cases
    BY <2>1 DEF CaseInv, HandlersKnowTheirCase, HandlerKnowsItsCase, Step, CaseSteps, ProposalSteps
  <2>3. cases'[ctx[r].case].scope = cases[ctx[r].case].scope
    <3>1. cases[ctx[r].case] \in CaseRows
      BY <1>1, <2>2 DEF TypeOK
    <3> QED BY <1>1, <2>1, <2>2, <3>1 DEF SettleProposal, TypeOK, CaseRows
  <2>4. ~HasActiveTicket(ctx[r].case)'
    BY <2>1, <2>3 DEF HasActiveTicket
  <2>5. pc'[r] = "submit" /\ loop' = r
    BY <1>1, <2>1 DEF Goto, TypeOK
  <2> QED BY <2>4, <2>5 DEF SubmitsAtOnce
<1>3. CASE StartRun(r)
  <2>1. pc[r] = "start_run" /\ pc'[r] = ctx[r].entry /\ ctx' = ctx /\ actions' = actions
    BY <1>1, <1>3 DEF StartRun, Running, Goto, Await, TypeOK, rows
  <2>2. CASE pc'[r] = "submit"
    <3>1. actions[ctx[r].case][ctx[r].version] = "failed_retryable"
      BY <1>1, <2>1, <2>2 DEF SubmitsAtOnce, Step
    <3> QED BY <2>1, <3>1 DEF SubmitsAtOnce
  <2>3. CASE pc'[r] # "submit" /\ pc'[r] # "start_run"
    BY <2>3 DEF SubmitsAtOnce, Step
  <2>4. CASE pc'[r] = "start_run"
    <3>1. Step(r) # "submit" /\ Step(r)' # "submit"
      BY <2>1, <2>4 DEF Step
    <3> QED BY <3>1 DEF SubmitsAtOnce
  <2> QED BY <2>2, <2>3, <2>4
<1>4. CASE ~AcceptConfirmation(r) /\ ~StartRun(r)
  <2>1. pc'[r] \notin {"start_run", "submit"}
    BY ZenonT(150), <1>1, <1>4 DEF Continues, StartRun, Triage, TriageFails, CompleteWithoutCase, CreateCase,
     RequestTargetClarification, AskTargetAgain, SelectTarget, CloseAtClarificationLimit,
     ResumeInvestigation, RejectInconsistentFacts, InvestigationFails, ProposeTicket,
     RequestBusinessClarification, RetryLater, CloseAfterInvestigation, ReviseIssue, FailRun,
     RejectDecision, ExpireProposal, RejectDuplicate, InvalidateProposal, AcceptConfirmation,
     Decline, SubmitConflicts, SubmitAction, SubmitFaultyAction, RecordActionFault, ReadBackTicket, Goto, Await, Return, control, Running, Resumed, TypeOK
  <2> QED BY <2>1 DEF SubmitsAtOnce, Step
<1> QED BY <1>2, <1>3, <1>4

(* What each arriving request starts with: a retry that submits resumes. *)
LEMMA ArrivesWith ==
  ASSUME CaseInv, NEW r \in Requests, Arrives(r)
  PROVE  \E context :
           /\ Enter(r, context)
           /\ \/ context.entry \in {"triage", "clarification", "investigate", "confirmation", "decline"}
              \/ /\ context.entry = "submit"
                 /\ actions[context.case][context.version] = "failed_retryable"
<1>1. ASSUME NEW c \in Conversations, SubmitMessage(r, c)
      PROVE  \E context : context.entry \in {"triage", "clarification"} /\ Enter(r, context)
  <2> DEFINE context == [NoContext EXCEPT !.conversation = c, !.case = activeCase[c],
           !.entry = IF activeCase[c] = None THEN "triage" ELSE "clarification"]
  <2>1. Enter(r, context)
    BY <1>1 DEF SubmitMessage
  <2>2. context.entry \in {"triage", "clarification"}
    BY DEF NoContext
  <2> HIDE DEF context
  <2> QED BY <2>1, <2>2
<1>2. ASSUME NEW k \in Cases, RetryCase(r, k)
      PROVE  \E context :
               /\ Enter(r, context)
               /\ \/ context.entry = "investigate"
                  \/ /\ context.entry = "submit"
                     /\ actions[context.case][context.version] = "failed_retryable"
  <2> DEFINE context == [NoContext EXCEPT !.conversation = cases[k].conversation, !.case = k]
  <2>1. CASE Enter(r, [context EXCEPT !.entry = "investigate"])
    <3> DEFINE again == [context EXCEPT !.entry = "investigate"]
    <3>1. again.entry = "investigate"
      BY DEF NoContext
    <3> HIDE DEF again
    <3> QED BY <2>1, <3>1 DEF again
  <2>2. ASSUME NEW v \in Resumable(k), Enter(r, [context EXCEPT !.entry = "submit", !.version = v])
        PROVE  \E resumed : /\ Enter(r, resumed) /\ resumed.entry = "submit"
                            /\ actions[resumed.case][resumed.version] = "failed_retryable"
    <3> DEFINE resumed == [context EXCEPT !.entry = "submit", !.version = v]
    <3>1. resumed.entry = "submit" /\ resumed.case = k /\ resumed.version = v
      BY DEF NoContext
    <3>2. actions[k][v] = "failed_retryable"
      BY DEF Resumable, ActionsOf
    <3>3. Enter(r, resumed)
      BY <2>2
    <3> HIDE DEF resumed
    <3> QED BY <3>1, <3>2, <3>3
  <2> QED BY ZenonT(150), <1>2, <2>1, <2>2 DEF RetryCase
<1>3. ASSUME NEW k \in Cases, NEW v \in Versions, NEW asked \in Versions,
             NEW decision \in {"confirmation", "decline"},
             DecideProposal(r, k, v, asked, decision)
      PROVE  \E context : context.entry \in {"confirmation", "decline"} /\ Enter(r, context)
  <2> DEFINE context == [NoContext EXCEPT !.conversation = cases[k].conversation,
           !.case = k, !.version = v, !.asked = asked, !.entry = decision]
  <2>1. Enter(r, context)
    BY <1>3 DEF DecideProposal
  <2>2. context.entry \in {"confirmation", "decline"}
    BY DEF NoContext
  <2> HIDE DEF context
  <2> QED BY <2>1, <2>2
<1> QED BY <1>1, <1>2, <1>3 DEF Arrives

(* A step outside the handlers leaves everyone what it relies on, too. *)
LEMMA AtOnceKept ==
  ASSUME AtOnceInv, loop = None, UNCHANGED actions, NEW q \in Requests,
         Step(q)' = Step(q), ctx'[q] = ctx[q]
  PROVE  SubmitsAtOnce(q)'
  BY ConstantsAssumption DEF AtOnceInv, SubmitsAtOnce

(* Every step keeps it, restarts included. *)
LEMMA AtOnceInvNext == CaseInv /\ AtOnceInv /\ [Next]_vars => AtOnceInv'
<1> SUFFICES ASSUME CaseInv, AtOnceInv, [Next]_vars, NEW q \in Requests PROVE SubmitsAtOnce(q)'
  BY DEF AtOnceInv
<1>1. TypeOK
  BY DEF CaseInv
<1>2. ASSUME NEW r \in Requests, Continues(r) PROVE SubmitsAtOnce(q)'
  BY <1>2, ContinuesSubmitsAtOnce, OthersSubmitAtOnce
<1>3. ASSUME NEW r \in Requests, Arrives(r) PROVE SubmitsAtOnce(q)'
  <2>1. loop = None /\ UNCHANGED actions
    BY ZenonT(150), <1>3 DEF Arrives, SubmitMessage, RetryCase, DecideProposal, Enter, Resumed, rows
  <2>2. PICK context :
          /\ Enter(r, context)
          /\ \/ context.entry \in {"triage", "clarification", "investigate", "confirmation", "decline"}
             \/ /\ context.entry = "submit"
                /\ actions[context.case][context.version] = "failed_retryable"
    BY <1>3, ArrivesWith
  <2>3. Step(r)' = context.entry /\ ctx'[r] = context
        /\ \A p \in Requests : p # r => pc'[p] = pc[p] /\ ctx'[p] = ctx[p]
    BY <1>1, <2>2 DEF Enter, Step, TypeOK
  <2>4. CASE q = r
    BY <2>1, <2>2, <2>3, <2>4 DEF SubmitsAtOnce
  <2>5. CASE q # r
    BY <2>1, <2>3, <2>5, AtOnceKept DEF Step
  <2> QED BY <2>4, <2>5
<1>4. ASSUME \/ \E r \in Requests : ReadExistingTickets(r)
             \/ \E k \in Cases, v \in Versions : ExpiryPasses(k, v)
      PROVE SubmitsAtOnce(q)'
  <2>1. loop = None /\ UNCHANGED <<actions, pc>>
    BY <1>4 DEF ReadExistingTickets, ExpiryPasses, Resumed, rows, control
  <2>2. \/ ctx'[q] = ctx[q] /\ Step(q)' = Step(q)
        \/ Step(q)' = "investigate"
    BY <1>1, <1>4, <2>1 DEF ReadExistingTickets, ExpiryPasses, Resumed, Step, TypeOK
  <2>3. Step(q)' = "investigate" => SubmitsAtOnce(q)'
    BY DEF SubmitsAtOnce
  <2> QED BY <2>1, <2>2, <2>3, AtOnceKept
<1>5. CASE Crash
  <2>1. Step(q)' = "idle"
    BY <1>5 DEF Crash, Step
  <2> QED BY <2>1 DEF SubmitsAtOnce
<1>6. CASE UNCHANGED vars
  BY <1>6 DEF vars, rows, control, AtOnceInv, SubmitsAtOnce, Step, HasActiveTicket
<1> QED BY <1>2, <1>3, <1>4, <1>5, <1>6 DEF Next

LEMMA AtOnceInvHolds == Spec => []AtOnceInv
  BY AtOnceInvInit, AtOnceInvNext, CaseInvariant, PTL DEF Spec

(* A ticket that is written first covers no package of another one. *)
LEMMA FirstWriteOverlapsNone ==
  ASSUME CaseInv, AtOnceInv, NEW r \in Requests, SubmitAction(r),
         actions[ctx[r].case][ctx[r].version] # "failed_retryable",
         NEW t \in tickets, t.scope.order = NewTicket(r).scope.order,
         t.scope.issue = NewTicket(r).scope.issue
  PROVE  Covered(t) \cap Covered(NewTicket(r)) = {}
<1>1. NewTicket(r).scope = cases[ctx[r].case].scope
  BY DEF NewTicket
<1>2. ~Overlaps(NewTicket(r).scope, t)
  BY <1>1 DEF SubmitAction, Running, AtOnceInv, SubmitsAtOnce, Step, HasActiveTicket
<1> QED BY <1>2 DEF Overlaps, Covered

(* No other step writes a ticket. *)
LEMMA OnlySubmitWrites ==
  ASSUME [Next]_vars, tickets' # tickets
  PROVE  \E r \in Requests : SubmitAction(r)
<1>1. ~Crash /\ vars' # vars
  BY DEF Crash, rows, vars
<1>2. ASSUME NEW r \in Requests, Arrives(r) \/ ReadExistingTickets(r) PROVE FALSE
  BY ZenonT(150), <1>2 DEF Arrives, SubmitMessage, RetryCase, DecideProposal, ReadExistingTickets, rows
<1>3. ASSUME NEW k \in Cases, NEW v \in Versions, ExpiryPasses(k, v) PROVE FALSE
  BY <1>3 DEF ExpiryPasses
<1>4. ASSUME NEW r \in Requests, Continues(r) PROVE SubmitAction(r)
  BY ZenonT(150), <1>4 DEF Continues, StartRun, Triage, TriageFails, CompleteWithoutCase, CreateCase,
     RequestTargetClarification, AskTargetAgain, SelectTarget, CloseAtClarificationLimit,
     ResumeInvestigation, RejectInconsistentFacts, InvestigationFails, ProposeTicket,
     RequestBusinessClarification, RetryLater, CloseAfterInvestigation, ReviseIssue, FailRun,
     RejectDecision, ExpireProposal, RejectDuplicate, InvalidateProposal, AcceptConfirmation,
     Decline, SubmitConflicts, SubmitAction, SubmitFaultyAction, RecordActionFault, ReadBackTicket, rows
<1> QED BY <1>1, <1>2, <1>3, <1>4 DEF Next

(* confirm_proposal and the executor: between the look for duplicates and the
   transaction of the ticket no other handler runs, so a first write covers no
   package of an active ticket, for any targets, Conversations, faults and
   restarts.  The unique indexes alone only keep equal targets apart. *)
THEOREM FirstWritesNeverOverlap == Spec => FirstWritesDoNotOverlap
<1>1. CaseInv /\ AtOnceInv /\ [Next]_vars =>
        [\A new \in tickets' \ tickets, t \in tickets :
           /\ actions[new.case][new.version] = "ready"
           /\ t.scope.order = new.scope.order /\ t.scope.issue = new.scope.issue
           => Covered(t) \cap Covered(new) = {}]_vars
  <2> SUFFICES ASSUME CaseInv, AtOnceInv, [Next]_vars, NEW new \in tickets' \ tickets,
                      NEW t \in tickets, actions[new.case][new.version] = "ready",
                      t.scope.order = new.scope.order, t.scope.issue = new.scope.issue
               PROVE  Covered(t) \cap Covered(new) = {}
    OBVIOUS
  <2>1. PICK r \in Requests : SubmitAction(r)
    BY OnlySubmitWrites
  <2>2. new = NewTicket(r)
    BY <2>1 DEF SubmitAction
  <2>3. NewTicket(r).case = ctx[r].case /\ NewTicket(r).version = ctx[r].version
    BY DEF NewTicket
  <2>4. actions[ctx[r].case][ctx[r].version] # "failed_retryable"
    BY <2>2, <2>3
  <2> QED BY <2>1, <2>2, <2>4, FirstWriteOverlapsNone
<1> QED BY <1>1, AtOnceInvHolds, CaseInvariant, PTL DEF Spec, FirstWritesDoNotOverlap

-----------------------------------------------------------------------------
(* Without retryable write faults every write is a first one. *)
NothingToResume ==
    /\ \A k \in Cases, v \in Versions : actions[k][v] # "failed_retryable"
    /\ \A r \in Requests : Step(r) = "record_fault" => ctx[r].fault # "failed_retryable"

OverlapInv == NothingToResume /\ NoOverlappingTickets

(* At first there is neither ticket nor action. *)
LEMMA OverlapInvInit == Init => OverlapInv
  BY DEF Init, OverlapInv, NothingToResume, NoOverlappingTickets, Step

(* A step that writes no ticket *)
LEMMA NoTicketNoOverlap ==
  ASSUME OverlapInv, tickets' = tickets, NothingToResume'
  PROVE  OverlapInv'
  BY DEF OverlapInv, NoOverlappingTickets, Covered

(* No handler's step makes an action one to resume. *)
LEMMA ContinuesResumesNothing ==
  ASSUME "failed_retryable" \notin ActionFaults, CaseInv, OverlapInv, NEW r \in Requests, Continues(r)
  PROVE  NothingToResume'
<1>1. TypeOK /\ NothingToResume
  BY DEF CaseInv, OverlapInv
<1>2. \A k \in Cases, v \in Versions : actions'[k][v] # "failed_retryable"
  <2>1. CASE AcceptConfirmation(r) \/ SubmitAction(r) \/ SubmitFaultyAction(r) \/ ReadBackTicket(r)
    <3>1. \E k, v, state : /\ state \in {"ready", "submitted", "succeeded", "uncertain"}
                           /\ actions' = [actions EXCEPT ![k][v] = state]
      BY <2>1 DEF AcceptConfirmation, SubmitAction, SubmitFaultyAction, ReadBackTicket
    <3> QED BY <1>1, <3>1 DEF TypeOK, NothingToResume
  <2>2. CASE RecordActionFault(r)
    <3>1. ctx[r].fault # "failed_retryable"
      BY <1>1, <2>2 DEF RecordActionFault, Running, NothingToResume, Step
    <3> QED BY <1>1, <2>2, <3>1 DEF RecordActionFault, TypeOK, NothingToResume
  <2>3. CASE UNCHANGED actions
    BY <1>1, <2>3 DEF NothingToResume
  <2> QED BY ZenonT(150), <2>1, <2>2, <2>3 DEF Continues, StartRun, Triage, TriageFails, CompleteWithoutCase, CreateCase,
     RequestTargetClarification, AskTargetAgain, SelectTarget, CloseAtClarificationLimit,
     ResumeInvestigation, RejectInconsistentFacts, InvestigationFails, ProposeTicket,
     RequestBusinessClarification, RetryLater, CloseAfterInvestigation, ReviseIssue, FailRun,
     RejectDecision, ExpireProposal, RejectDuplicate, InvalidateProposal, AcceptConfirmation,
     Decline, SubmitConflicts, SubmitAction, SubmitFaultyAction, RecordActionFault, ReadBackTicket, rows
<1>3. ASSUME NEW q \in Requests, q # r, Step(q)' = "record_fault"
      PROVE  ctx'[q].fault # "failed_retryable"
  BY <1>1, <1>3, ServedAlone DEF Step, NothingToResume
<1>4. ASSUME Step(r)' = "record_fault" PROVE ctx'[r].fault # "failed_retryable"
  <2>1. CASE SubmitFaultyAction(r)
    <3>1. ctx[r] \in Contexts
      BY <1>1 DEF TypeOK
    <3> QED BY <1>1, <2>1, <3>1 DEF SubmitFaultyAction, TypeOK, Contexts
  <2>2. CASE StartRun(r)
    <3>1. UNCHANGED ctx /\ pc[r] = "start_run" /\ pc'[r] = ctx[r].entry
      BY <1>1, <2>2 DEF StartRun, Running, Goto, Await, TypeOK
    <3>2. Step(r) = "record_fault"
      BY <1>4, <3>1 DEF Step
    <3> QED BY <1>1, <3>1, <3>2 DEF NothingToResume
  <2>3. CASE ~SubmitFaultyAction(r) /\ ~StartRun(r)
    <3>1. pc'[r] \notin {"start_run", "record_fault"}
      BY ZenonT(150), <1>1, <2>3 DEF Continues, StartRun, Triage, TriageFails, CompleteWithoutCase, CreateCase,
     RequestTargetClarification, AskTargetAgain, SelectTarget, CloseAtClarificationLimit,
     ResumeInvestigation, RejectInconsistentFacts, InvestigationFails, ProposeTicket,
     RequestBusinessClarification, RetryLater, CloseAfterInvestigation, ReviseIssue, FailRun,
     RejectDecision, ExpireProposal, RejectDuplicate, InvalidateProposal, AcceptConfirmation,
     Decline, SubmitConflicts, SubmitAction, SubmitFaultyAction, RecordActionFault, ReadBackTicket, Goto, Await, Return, control, Running, Resumed, TypeOK
    <3> QED BY <1>4, <3>1 DEF Step
  <2> QED BY <2>1, <2>2, <2>3
<1> QED BY <1>2, <1>3, <1>4 DEF NothingToResume

(* The new ticket overlaps none. *)
LEMMA SubmitOverlapsNone ==
  ASSUME CaseInv, AtOnceInv, OverlapInv, NEW r \in Requests, SubmitAction(r)
  PROVE  NoOverlappingTickets'
<1>1. tickets' = tickets \cup {NewTicket(r)}
  BY DEF SubmitAction
<1>2. actions[ctx[r].case][ctx[r].version] # "failed_retryable"
  <2>1. Step(r) \in ActionSteps
    BY DEF SubmitAction, Running, Step, ActionSteps
  <2>2. ctx[r].case \in Cases /\ ctx[r].version \in Versions
    BY <2>1, Executing
  <2> QED BY <2>2 DEF OverlapInv, NothingToResume
<1>3. ASSUME NEW t \in tickets, t.scope.order = NewTicket(r).scope.order,
             t.scope.issue = NewTicket(r).scope.issue
      PROVE  Covered(t) \cap Covered(NewTicket(r)) = {}
  BY <1>2, <1>3, FirstWriteOverlapsNone
<1>4. NoOverlappingTickets
  BY DEF OverlapInv
<1> SUFFICES ASSUME NEW t \in tickets', NEW u \in tickets', t # u,
                    t.scope.order = u.scope.order, t.scope.issue = u.scope.issue
             PROVE  Covered(t) \cap Covered(u) = {}
  BY DEF NoOverlappingTickets, Covered
<1>5. CASE t \in tickets /\ u \in tickets
  BY <1>4, <1>5 DEF NoOverlappingTickets
<1>6. CASE t \in tickets /\ u = NewTicket(r)
  BY <1>3, <1>6
<1>7. CASE t = NewTicket(r) /\ u \in tickets
  BY <1>3, <1>7
<1> QED BY <1>1, <1>5, <1>6, <1>7

(* Every step keeps the tickets apart. *)
LEMMA OverlapInvNext ==
  ASSUME "failed_retryable" \notin ActionFaults
  PROVE  CaseInv /\ AtOnceInv /\ OverlapInv /\ [Next]_vars => OverlapInv'
<1> SUFFICES ASSUME CaseInv, AtOnceInv, OverlapInv, [Next]_vars PROVE OverlapInv'
  OBVIOUS
<1>1. TypeOK /\ NothingToResume
  BY DEF CaseInv, OverlapInv
<1>2. ASSUME NEW r \in Requests, Continues(r) PROVE OverlapInv'
  <2>1. NothingToResume'
    BY <1>2, ContinuesResumesNothing
  <2>2. CASE SubmitAction(r)
    BY <2>1, <2>2, SubmitOverlapsNone DEF OverlapInv
  <2>3. CASE ~SubmitAction(r)
    <3>1. tickets' = tickets
      BY ZenonT(150), <1>2, <2>3 DEF Continues, StartRun, Triage, TriageFails, CompleteWithoutCase, CreateCase,
     RequestTargetClarification, AskTargetAgain, SelectTarget, CloseAtClarificationLimit,
     ResumeInvestigation, RejectInconsistentFacts, InvestigationFails, ProposeTicket,
     RequestBusinessClarification, RetryLater, CloseAfterInvestigation, ReviseIssue, FailRun,
     RejectDecision, ExpireProposal, RejectDuplicate, InvalidateProposal, AcceptConfirmation,
     Decline, SubmitConflicts, SubmitAction, SubmitFaultyAction, RecordActionFault, ReadBackTicket, rows
    <3> QED BY <2>1, <3>1, NoTicketNoOverlap
  <2> QED BY <2>2, <2>3
<1>3. ASSUME NEW r \in Requests, Arrives(r) PROVE OverlapInv'
  <2>1. UNCHANGED <<tickets, actions>>
    BY ZenonT(150), <1>3 DEF Arrives, SubmitMessage, RetryCase, DecideProposal, rows
  <2>2. PICK context :
          /\ Enter(r, context)
          /\ \/ context.entry \in {"triage", "clarification", "investigate", "confirmation", "decline"}
             \/ context.entry = "submit"
    BY <1>3, ArrivesWith
  <2>3. Step(r)' = context.entry /\ \A q \in Requests : q # r => pc'[q] = pc[q] /\ ctx'[q] = ctx[q]
    BY <1>1, <2>2 DEF Enter, Step, TypeOK
  <2>4. \A q \in Requests : \/ Step(q)' # "record_fault"
                            \/ Step(q)' = Step(q) /\ ctx'[q] = ctx[q]
    BY <2>2, <2>3 DEF Step
  <2>5. NothingToResume'
    BY <1>1, <2>1, <2>4 DEF NothingToResume
  <2> QED BY <2>1, <2>5, NoTicketNoOverlap
<1>4. ASSUME \/ \E r \in Requests : ReadExistingTickets(r)
             \/ \E k \in Cases, v \in Versions : ExpiryPasses(k, v)
      PROVE OverlapInv'
  <2>1. UNCHANGED <<tickets, actions, pc>>
    BY <1>4 DEF ReadExistingTickets, ExpiryPasses, rows, control
  <2>2. \A q \in Requests : Step(q)' = Step(q) \/ Step(q)' = "investigate"
    BY <1>1, <1>4, <2>1 DEF ReadExistingTickets, ExpiryPasses, Resumed, Step, TypeOK
  <2>3. \A q \in Requests : Step(q) # "investigate" => ctx'[q] = ctx[q]
    BY <1>1, <1>4 DEF ReadExistingTickets, ExpiryPasses, Resumed, Step, TypeOK
  <2>4. NothingToResume'
    BY <1>1, <2>1, <2>2, <2>3 DEF NothingToResume
  <2> QED BY <2>1, <2>4, NoTicketNoOverlap
<1>5. CASE Crash
  <2>1. UNCHANGED <<tickets, actions>> /\ \A q \in Requests : Step(q)' = "idle"
    BY <1>5 DEF Crash, rows, Step
  <2> QED BY <1>1, <2>1, NoTicketNoOverlap DEF NothingToResume
<1>6. CASE UNCHANGED vars
  BY <1>6 DEF vars, rows, control, OverlapInv, NothingToResume, Step, NoOverlappingTickets, Covered
<1> QED BY <1>2, <1>3, <1>4, <1>5, <1>6 DEF Next

(* confirm_proposal and the executor: as long as no write fails retryably, no
   two active tickets for an issue of an order cover the same package, for any
   targets, Conversations and restarts.  retry_case resumes without a look for
   duplicates, and with such faults it is not so. *)
THEOREM NoTicketsOverlap ==
  ASSUME "failed_retryable" \notin ActionFaults
  PROVE  Spec => []NoOverlappingTickets
<1>1. OverlapInv => NoOverlappingTickets
  BY DEF OverlapInv
<1> QED BY OverlapInvInit, OverlapInvNext, AtOnceInvHolds, CaseInvariant, <1>1, PTL DEF Spec

-----------------------------------------------------------------------------
(***************************************************************************)
(* As long as the process runs, no handler leaves a Run or a Case in the   *)
(* middle, unless the unique index refuses a write it resumes: a Case that *)
(* is being investigated or executed has its handler at one of the steps   *)
(* that follow.                                                            *)
(***************************************************************************)
Busy(k) == cases[k].state \in {"investigating", "executing_action"}

BusySteps(state) == IF state = "investigating" THEN {"ask_target", "investigate"} ELSE ActionSteps

HeldBy(k, r) == ctx[r].case = k /\ Step(r) \in BusySteps(cases[k].state)

LookedAfter(k) == (\E r \in Requests : HeldBy(k, r)) \/ WriteRefused(k)

BusyCasesAreHeld == \A k \in Cases : Busy(k) => LookedAfter(k)

(* Where a Run starts *)
Entries == {"triage", "clarification", "investigate", "submit", "confirmation", "decline"}

RunsStart == \A r \in Requests : pc[r] = "start_run" => ctx[r].entry \in Entries

SettledInv == RunsStart /\ (crashes = 0 => BusyCasesAreHeld)

(* At first nothing is busy. *)
LEMMA SettledInvInit == Init => SettledInv
  BY DEF Init, SettledInv, RunsStart, BusyCasesAreHeld, Busy, AbsentCase

(* The unique index refuses only a write that is resumed: a first one has just
   looked for a duplicate, among which are the tickets of the same scope. *)
LEMMA ConflictsOnlyResumed ==
  ASSUME CaseInv, AtOnceInv, NEW r \in Requests, SubmitConflicts(r)
  PROVE  /\ pc[r] = "submit" /\ ViolatesUniqueTicket(NewTicket(r))
         /\ actions[ctx[r].case][ctx[r].version] = "failed_retryable"
<1>1. pc[r] = "submit" /\ Step(r) = "submit" /\ ViolatesUniqueTicket(NewTicket(r))
  BY DEF SubmitConflicts, Running, Step
<1>2. PICK t \in tickets : t.scope = cases[ctx[r].case].scope
  BY <1>1 DEF ViolatesUniqueTicket, NewTicket
<1>3. HasActiveTicket(ctx[r].case)
  BY <1>2 DEF HasActiveTicket, Overlaps
<1> QED BY <1>1, <1>3 DEF AtOnceInv, SubmitsAtOnce

(* Tickets stay active. *)
LEMMA TicketsStay ==
  ASSUME [Next]_vars PROVE tickets \subseteq tickets'
  BY OnlySubmitWrites DEF SubmitAction

(* What the index refuses it refuses for ever. *)
LEMMA RefusedStays ==
  ASSUME NEW k \in Cases, Kept(k), tickets \subseteq tickets', WriteRefused(k)
  PROVE  WriteRefused(k)'
  BY DEF WriteRefused, ViolatesUniqueTicket, Kept

(* A handler writes its own Run and no other. *)
LEMMA OtherRunsKept ==
  ASSUME CaseInv, NEW r \in Requests, Continues(r)
  PROVE  \A q \in Requests : q # r => runs'[q] = runs[q]
<1> TypeOK
  BY DEF CaseInv
<1> QED
  BY ZenonT(150) DEF Continues, StartRun, Triage, TriageFails, CompleteWithoutCase, CreateCase,
     RequestTargetClarification, AskTargetAgain, SelectTarget, CloseAtClarificationLimit,
     ResumeInvestigation, RejectInconsistentFacts, InvestigationFails, ProposeTicket,
     RequestBusinessClarification, RetryLater, CloseAfterInvestigation, ReviseIssue, FailRun,
     RejectDecision, ExpireProposal, RejectDuplicate, InvalidateProposal, AcceptConfirmation,
     Decline, SubmitConflicts, SubmitAction, SubmitFaultyAction, RecordActionFault,
     ReadBackTicket, SucceedRun, TypeOK

(* A handler returns with its Run succeeded or failed. *)
LEMMA ContinuesSettles ==
  ASSUME CaseInv, RunsStart, NEW r \in Requests, Continues(r), ~SubmitConflicts(r)
  PROVE  pc'[r] # "start_run" /\ (pc'[r] = "idle" => runs'[r] \in {"succeeded", "failed"})
<1> TypeOK
  BY DEF CaseInv
<1>1. \/ \E step \in Steps \ {"idle", "start_run"} : Goto(r, step) \/ Await(r, step)
      \/ StartRun(r)
      \/ UNCHANGED control /\ Resumed(r, "investigate")
      \/ Return(r) /\ (SucceedRun(r) \/ FailRun(r))
  BY ZenonT(150) DEF Continues, Triage, TriageFails, CompleteWithoutCase, CreateCase,
     RequestTargetClarification, AskTargetAgain, SelectTarget, CloseAtClarificationLimit,
     ResumeInvestigation, RejectInconsistentFacts, InvestigationFails, ProposeTicket,
     RequestBusinessClarification, RetryLater, CloseAfterInvestigation, ReviseIssue, FailRun,
     RejectDecision, ExpireProposal, RejectDuplicate, InvalidateProposal, AcceptConfirmation,
     Decline, SubmitAction, SubmitFaultyAction, RecordActionFault, ReadBackTicket, Steps
<1>2. CASE StartRun(r)
  <2>1. pc[r] = "start_run" /\ pc'[r] = ctx[r].entry
    BY <1>2 DEF StartRun, Running, Goto, Await, TypeOK
  <2> QED BY <2>1 DEF RunsStart, Entries
<1>3. CASE Return(r) /\ (SucceedRun(r) \/ FailRun(r))
  <2>1. runs'[r] \in {"succeeded", "failed"}
    BY <1>3 DEF SucceedRun, FailRun, TypeOK
  <2>2. pc'[r] = "idle"
    BY <1>3 DEF Return, TypeOK
  <2> QED BY <2>1, <2>2
<1> QED BY <1>1, <1>2, <1>3 DEF Goto, Await, control, Resumed, TypeOK

(* A Run starts where its request sent it. *)
LEMMA ContinuesStarts ==
  ASSUME CaseInv, RunsStart, NEW r \in Requests, Continues(r)
  PROVE  RunsStart'
<1>1. \A q \in Requests : q # r => pc'[q] = pc[q] /\ ctx'[q] = ctx[q]
  BY ServedAlone
<1>2. pc'[r] # "start_run"
  <2>1. CASE SubmitConflicts(r)
    BY <2>1 DEF SubmitConflicts, Return, CaseInv, TypeOK
  <2> QED BY <2>1, ContinuesSettles
<1> QED BY <1>1, <1>2 DEF RunsStart

(* A handler keeps the Cases of the others, and goes on with its own or leaves
   it where its customer can move it. *)
LEMMA OthersHold ==
  ASSUME CaseInv, BusyCasesAreHeld, NEW r \in Requests, Continues(r), NEW k \in Cases, Kept(k),
         Busy(k), ~HeldBy(k, r)
  PROVE  LookedAfter(k)'
<1>1. CASE WriteRefused(k)
  <2>1. [Next]_vars
    BY DEF Next
  <2>2. WriteRefused(k)'
    BY <1>1, <2>1, TicketsStay, RefusedStays
  <2> QED BY <2>2 DEF LookedAfter
<1>2. CASE ~WriteRefused(k)
  <2>1. PICK q \in Requests : HeldBy(k, q)
    BY <1>2 DEF BusyCasesAreHeld, LookedAfter
  <2>2. q # r
    BY <2>1
  <2>3. pc'[q] = pc[q] /\ ctx'[q] = ctx[q]
    BY <2>2, ServedAlone
  <2>4. HeldBy(k, q)'
    BY <2>1, <2>3 DEF HeldBy, Step, Kept
  <2> QED BY <2>4 DEF LookedAfter
<1> QED BY <1>1, <1>2

(* The steps that write nothing go on with the Case or have none that is busy,
   but for the write that the index refuses. *)
LEMMA WritesNothingHolds ==
  ASSUME CaseInv, AtOnceInv, BusyCasesAreHeld, NEW r \in Requests, Continues(r),
         WritesNothing(r), NEW k \in Cases, Busy(k)'
  PROVE  LookedAfter(k)'
<1> TypeOK
  BY DEF CaseInv
<1>1. Kept(k) /\ Busy(k)
  BY WritesNothingKeeps DEF rows, Kept, Busy
<1>2. CASE StartRun(r)
  <2>1. Step(r)' = Step(r) \/ Step(r) = "start_run"
    BY <1>2 DEF StartRun, Running, Goto, Await, Step, TypeOK
  <2>2. ctx' = ctx
    BY <1>2 DEF StartRun
  <2>3. HeldBy(k, r) => HeldBy(k, r)'
    BY <1>1, <2>1, <2>2 DEF HeldBy, BusySteps, ActionSteps, Kept
  <2> QED BY <1>1, <2>3, OthersHold DEF LookedAfter
<1>3. CASE SubmitConflicts(r) /\ k = ctx[r].case
  <2>1. pc[r] = "submit" /\ ViolatesUniqueTicket(NewTicket(r))
        /\ actions[k][ctx[r].version] = "failed_retryable"
    BY <1>3, ConflictsOnlyResumed
  <2>2. ctx[r].version \in Versions /\ cases[k].state = "executing_action"
    BY <1>3, <2>1, Executing DEF Step, ActionSteps
  <2>3. NewTicket(r) = [case |-> k, version |-> ctx[r].version, scope |-> cases[k].scope]
    BY <1>3 DEF NewTicket
  <2>4. WriteRefused(k)
    BY <2>1, <2>2, <2>3 DEF WriteRefused
  <2>5. tickets' = tickets
    BY WritesNothingKeeps DEF rows
  <2>6. WriteRefused(k)'
    BY <1>1, <2>4, <2>5, RefusedStays
  <2> QED BY <2>6 DEF LookedAfter
<1>4. CASE SubmitConflicts(r) /\ k # ctx[r].case
  <2>1. ~HeldBy(k, r)
    BY <1>4 DEF HeldBy
  <2> QED BY <1>1, <2>1, OthersHold
<1>5. CASE ~StartRun(r) /\ ~SubmitConflicts(r)
  <2>1. pc[r] \in {"triage", "route", "clarification", "fail_run", "confirmation", "decline"}
    BY <1>5 DEF WritesNothing, Triage, TriageFails, CompleteWithoutCase, AskTargetAgain,
       ResumeInvestigation, RejectInconsistentFacts, FailRun, RejectDecision, RejectDuplicate,
       Deciding, Running, Resumed
  <2>2. ~HeldBy(k, r)
    BY <2>1 DEF HeldBy, Step, BusySteps, ActionSteps
  <2> QED BY <1>1, <2>2, OthersHold
<1> QED BY <1>2, <1>3, <1>4, <1>5

(* A new Case is investigated, or its customer asked, by the handler that
   created it. *)
LEMMA CreatesHolds ==
  ASSUME CaseInv, BusyCasesAreHeld, NEW r \in Requests, Continues(r), Creates(r),
         NEW k \in Cases, Busy(k)'
  PROVE  LookedAfter(k)'
<1> TypeOK
  BY DEF CaseInv
<1>1. PICK o \in Cases, scope \in EntryScopes : CreateCase(r, o, scope)
  BY DEF Creates
<1>2. pc[r] = "route" /\ ~HeldBy(k, r)
  BY <1>1 DEF CreateCase, Resumed, HeldBy, Step, BusySteps, ActionSteps
<1>3. CASE k = o
  <2>1. cases'[k].state = "investigating"
    BY <1>1, <1>3 DEF CreateCase, TypeOK, AbsentCase
  <2>2. pc'[r] \in {"investigate", "ask_target"}
    BY <1>1 DEF CreateCase, Await, Goto, TypeOK
  <2>3. ctx'[r].case = k
    <3>1. ctx[r] \in Contexts
      BY DEF TypeOK
    <3> QED BY <1>1, <1>3, <3>1 DEF CreateCase, TypeOK, Contexts
  <2>4. HeldBy(k, r)'
    BY <2>1, <2>2, <2>3 DEF HeldBy, Step, BusySteps
  <2> QED BY <2>4 DEF LookedAfter
<1>4. CASE k # o
  <2>1. Kept(k)
    BY <1>1, <1>4 DEF CreateCase, Kept, TypeOK
  <2>2. Busy(k)
    BY <2>1 DEF Kept, Busy
  <2> QED BY <1>2, <2>1, <2>2, OthersHold
<1> QED BY <1>3, <1>4

(* An investigating handler goes on investigating or hands the Case over. *)
LEMMA MovesHolds ==
  ASSUME CaseInv, NEW r \in Requests, MovesCase(r), NEW k \in Cases, k = ctx[r].case, Busy(k)'
  PROVE  HeldBy(k, r)'
<1> TypeOK
  BY DEF CaseInv
<1>1. cases[k] \in CaseRows /\ ctx[r] \in Contexts
  BY DEF TypeOK
<1>2. /\ ~InvestigationFails(r) /\ ~RetryLater(r) /\ ~RequestTargetClarification(r)
      /\ ~RequestBusinessClarification(r) /\ ~CloseAtClarificationLimit(r)
      /\ ~CloseAfterInvestigation(r) /\ ~ProposeTicket(r)
  <2>1. ~ProposeTicket(r)
    <3> SUFFICES ASSUME ProposeTicket(r) PROVE FALSE
      OBVIOUS
    <3>1. \E v : cases' = [cases EXCEPT ![k] =
                    [@ EXCEPT !.state = "awaiting_customer_confirmation", !.activeProposal = v]]
      BY DEF ProposeTicket
    <3>2. cases'[k].state = "awaiting_customer_confirmation"
      BY <1>1, <3>1 DEF TypeOK, CaseRows
    <3> QED BY <3>2 DEF Busy
  <2>2. ~InvestigationFails(r) /\ ~RetryLater(r) /\ ~CloseAtClarificationLimit(r)
        /\ ~CloseAfterInvestigation(r)
    <3>1. ~MoveCase(k, "awaiting_retry")
      BY <1>1 DEF MoveCase, Busy, TypeOK, CaseRows
    <3>2. \A outcome : ~CloseCase(k, outcome)
      <4> SUFFICES ASSUME NEW outcome, CloseCase(k, outcome) PROVE FALSE
        OBVIOUS
      <4>1. cases'[k].state = "closed"
        BY <1>1 DEF CloseCase, TypeOK, CaseRows
      <4> QED BY <4>1 DEF Busy
    <3> QED BY <3>1, <3>2 DEF InvestigationFails, RetryLater, CloseAtClarificationLimit,
         CloseAfterInvestigation
  <2>3. ~RequestTargetClarification(r) /\ ~RequestBusinessClarification(r)
    <3> SUFFICES ASSUME RequestTargetClarification(r) \/ RequestBusinessClarification(r)
                 PROVE  FALSE
      OBVIOUS
    <3>1. \/ \E created, reception : AskCustomer(k, created, reception)
          \/ CloseCase(k, "human_support_required")
      BY DEF RequestTargetClarification, RequestBusinessClarification
    <3>2. cases'[k].state \in {"awaiting_customer_input", "closed"}
      <4>1. CASE \E created, reception : AskCustomer(k, created, reception)
        BY <1>1, <4>1 DEF AskCustomer, TypeOK, CaseRows
      <4>2. CASE CloseCase(k, "human_support_required")
        BY <1>1, <4>2 DEF CloseCase, TypeOK, CaseRows
      <4> QED BY <3>1, <4>1, <4>2
    <3> QED BY <3>2 DEF Busy
  <2> QED BY <2>1, <2>2, <2>3
<1>3. CASE SelectTarget(r)
  <2>1. cases'[k].state = "investigating"
    BY <1>1, <1>3 DEF SelectTarget, TypeOK, CaseRows
  <2>2. pc'[r] = "investigate" /\ ctx' = ctx
    BY <1>3 DEF SelectTarget, Await, TypeOK
  <2> QED BY <2>1, <2>2 DEF HeldBy, Step, BusySteps
<1>4. CASE ReviseIssue(r)
  <2>1. pc[r] = "investigate" /\ pc' = pc
    BY <1>4 DEF ReviseIssue, Resumed, control
  <2>2. cases[k].state \in {"investigating", "awaiting_customer_input"}
    BY <2>1, StepsAreDistinct DEF CaseInv, HandlersKnowTheirCase, HandlerKnowsItsCase, Step, CaseSteps, ProposalSteps
  <2>3. cases'[k].state = cases[k].state /\ ctx'[r].case = k
    BY <1>1, <1>4 DEF ReviseIssue, TypeOK, CaseRows, Contexts
  <2> QED BY <2>1, <2>2, <2>3 DEF HeldBy, Step, BusySteps, Busy
<1> QED BY <1>2, <1>3, <1>4 DEF MovesCase

(* A decision that is accepted is executed by its handler. *)
LEMMA SettlesHolds ==
  ASSUME CaseInv, NEW r \in Requests, Settles(r), NEW k \in Cases, k = ctx[r].case, Busy(k)'
  PROVE  HeldBy(k, r)'
<1> TypeOK
  BY DEF CaseInv
<1>1. cases[k] \in CaseRows
  BY DEF TypeOK
<1>2. ~ExpireProposal(r) /\ ~InvalidateProposal(r) /\ ~Decline(r)
  <2>1. ASSUME NEW v, NEW state, NEW next, SettleProposal(k, v, state, next)
        PROVE  cases'[k].state = next
    BY <1>1, <2>1 DEF SettleProposal, TypeOK, CaseRows
  <2>2. ~ExpireProposal(r) /\ ~InvalidateProposal(r)
    BY <2>1 DEF ExpireProposal, InvalidateProposal, Busy
  <2>3. ~Decline(r)
    <3> SUFFICES ASSUME Decline(r) PROVE FALSE
      OBVIOUS
    <3>1. cases' = [cases EXCEPT ![k] = [@ EXCEPT !.state = "closed",
                      !.outcome = "resolved_no_action", !.activeProposal = None,
                      !.reception = None]]
      BY DEF Decline
    <3>2. cases'[k].state = "closed"
      BY <1>1, <3>1 DEF TypeOK, CaseRows
    <3> QED BY <3>2 DEF Busy
  <2> QED BY <2>2, <2>3
<1>3. CASE AcceptConfirmation(r)
  <2>1. cases'[k].state = "executing_action"
    BY <1>1, <1>3 DEF AcceptConfirmation, SettleProposal, TypeOK, CaseRows
  <2>2. pc'[r] = "submit" /\ ctx' = ctx
    BY <1>3 DEF AcceptConfirmation, Goto, TypeOK
  <2> QED BY <2>1, <2>2 DEF HeldBy, Step, BusySteps, ActionSteps
<1> QED BY <1>2, <1>3 DEF Settles

(* The executor comes to its end. *)
LEMMA ActsHolds ==
  ASSUME CaseInv, NEW r \in Requests, Acts(r), NEW k \in Cases, k = ctx[r].case, Busy(k)'
  PROVE  HeldBy(k, r)'
<1> TypeOK
  BY DEF CaseInv
<1>1. cases[k] \in CaseRows /\ ctx[r] \in Contexts
  BY DEF TypeOK
<1>2. CASE SubmitAction(r) \/ SubmitFaultyAction(r)
  <2>1. pc[r] = "submit" /\ pc'[r] \in {"read_back", "record_fault"}
    BY <1>2 DEF SubmitAction, SubmitFaultyAction, Running, Goto, TypeOK
  <2>2. ctx'[r].case = k /\ cases' = cases
    BY <1>1, <1>2 DEF SubmitAction, SubmitFaultyAction, TypeOK, Contexts
  <2>3. cases[k].state = "executing_action"
    BY <2>1, StepsAreDistinct DEF CaseInv, HandlersKnowTheirCase, HandlerKnowsItsCase, Step, CaseSteps, ProposalSteps,
       ActionSteps
  <2> QED BY <2>1, <2>2, <2>3 DEF HeldBy, Step, BusySteps, ActionSteps
<1>3. CASE RecordActionFault(r) \/ ReadBackTicket(r)
  <2>1. RecordActionFault(r) => ctx[r].fault \in ScriptableFaults
    BY DEF RecordActionFault, Running, CaseInv, HandlersKnowTheirCase, HandlerKnowsItsCase, Step
  <2>2. (\E o : CloseCase(k, o)) \/ MoveCase(k, "awaiting_retry")
    BY <1>3, <2>1 DEF RecordActionFault, ReadBackTicket, ScriptableFaults
  <2>3. cases'[k].state \in {"closed", "awaiting_retry"}
    <3>1. CASE \E o : CloseCase(k, o)
      BY <1>1, <3>1 DEF CloseCase, TypeOK, CaseRows
    <3>2. CASE MoveCase(k, "awaiting_retry")
      BY <1>1, <3>2 DEF MoveCase, TypeOK, CaseRows
    <3> QED BY <2>2, <3>1, <3>2
  <2> QED BY <2>3 DEF Busy
<1> QED BY <1>2, <1>3 DEF Acts

(* Every step of a handler leaves each busy Case to a handler, or refused. *)
LEMMA ContinuesHolds ==
  ASSUME CaseInv, AtOnceInv, BusyCasesAreHeld, NEW r \in Requests, Continues(r)
  PROVE  BusyCasesAreHeld'
<1> SUFFICES ASSUME NEW k \in Cases, Busy(k)' PROVE LookedAfter(k)'
  BY DEF BusyCasesAreHeld
<1>1. CASE WritesNothing(r)
  BY <1>1, WritesNothingHolds
<1>2. CASE Creates(r)
  BY <1>2, CreatesHolds
<1>3. CASE MovesCase(r) \/ Settles(r) \/ Acts(r)
  <2>1. CASE k = ctx[r].case
    BY <1>3, <2>1, MovesHolds, SettlesHolds, ActsHolds DEF LookedAfter
  <2>2. CASE k # ctx[r].case /\ ~Creates(r)
    <3>1. Kept(k)
      BY <2>2, OtherCasesKept
    <3>2. Busy(k) /\ ~HeldBy(k, r)
      BY <2>2, <3>1 DEF Kept, Busy, HeldBy
    <3> QED BY <3>1, <3>2, OthersHold
  <2> QED BY <1>2, <2>1, <2>2
<1> QED BY <1>1, <1>2, <1>3, ContinuesCases

(* A request that arrives starts its Run, and works on the Case that it moves. *)
LEMMA ArrivesSettles ==
  ASSUME CaseInv, RunsStart, NEW r \in Requests, Arrives(r)
  PROVE  RunsStart' /\ (BusyCasesAreHeld => BusyCasesAreHeld')
<1> TypeOK
  BY DEF CaseInv
<1>1. PICK context : context.entry \in Entries /\ Enter(r, context)
                     /\ \A k \in Cases : \/ cases'[k] = cases[k]
                                         \/ /\ context.case = k
                                            /\ \/ cases'[k].state = "investigating" /\ context.entry = "investigate"
                                               \/ cases'[k].state = "executing_action" /\ context.entry = "submit"
  <2>1. ASSUME NEW c \in Conversations, SubmitMessage(r, c)
        PROVE  \E context : context.entry \in Entries /\ Enter(r, context) /\ cases' = cases
    <3> DEFINE context == [NoContext EXCEPT !.conversation = c, !.case = activeCase[c],
             !.entry = IF activeCase[c] = None THEN "triage" ELSE "clarification"]
    <3>1. Enter(r, context) /\ cases' = cases
      BY <2>1 DEF SubmitMessage, rows
    <3>2. context.entry \in Entries
      BY DEF NoContext, Entries
    <3> HIDE DEF context
    <3> QED BY <3>1, <3>2
  <2>2. ASSUME NEW o \in Cases, NEW v \in Versions, NEW asked \in Versions,
               NEW decision \in {"confirmation", "decline"},
               DecideProposal(r, o, v, asked, decision)
        PROVE  \E context : context.entry \in Entries /\ Enter(r, context) /\ cases' = cases
    <3> DEFINE context == [NoContext EXCEPT !.conversation = cases[o].conversation,
             !.case = o, !.version = v, !.asked = asked, !.entry = decision]
    <3>1. Enter(r, context) /\ cases' = cases
      BY <2>2 DEF DecideProposal, rows
    <3>2. context.entry \in Entries
      BY DEF NoContext, Entries
    <3> HIDE DEF context
    <3> QED BY <3>1, <3>2
  <2>3. ASSUME NEW o \in Cases, RetryCase(r, o)
        PROVE  \E context : /\ context.entry \in Entries /\ Enter(r, context) /\ context.case = o
                            /\ \/ MoveCase(o, "investigating") /\ context.entry = "investigate"
                               \/ MoveCase(o, "executing_action") /\ context.entry = "submit"
    <3>1. CASE MoveCase(o, "investigating")
               /\ Enter(r, [[NoContext EXCEPT !.conversation = cases[o].conversation, !.case = o]
                              EXCEPT !.entry = "investigate"])
      <4> DEFINE context == [[NoContext EXCEPT !.conversation = cases[o].conversation, !.case = o]
                              EXCEPT !.entry = "investigate"]
      <4>1. context.entry = "investigate" /\ context.case = o
        BY DEF NoContext
      <4>2. Enter(r, context) /\ MoveCase(o, "investigating")
        BY <3>1
      <4> HIDE DEF context
      <4> QED BY <4>1, <4>2 DEF Entries
    <3>2. ASSUME NEW v, MoveCase(o, "executing_action"),
                 Enter(r, [[NoContext EXCEPT !.conversation = cases[o].conversation, !.case = o]
                             EXCEPT !.entry = "submit", !.version = v])
          PROVE  \E context : /\ context.entry \in Entries /\ Enter(r, context) /\ context.case = o
                              /\ MoveCase(o, "executing_action") /\ context.entry = "submit"
      <4> DEFINE context == [[NoContext EXCEPT !.conversation = cases[o].conversation, !.case = o]
                              EXCEPT !.entry = "submit", !.version = v]
      <4>1. context.entry = "submit" /\ context.case = o
        BY DEF NoContext
      <4>2. Enter(r, context)
        BY <3>2
      <4> HIDE DEF context
      <4> QED BY <3>2, <4>1, <4>2 DEF Entries
    <3> QED BY <2>3, <3>1, <3>2 DEF RetryCase
  <2>4. ASSUME NEW o \in Cases, NEW state,
               MoveCase(o, state)
        PROVE  /\ \A k \in Cases : k # o => cases'[k] = cases[k]
               /\ cases'[o].state = state
    <3>1. cases[o] \in CaseRows
      BY DEF TypeOK
    <3> QED BY <2>4, <3>1 DEF MoveCase, TypeOK, CaseRows
  <2>5. CASE \E o \in Cases : RetryCase(r, o)
    <3>1. PICK o \in Cases : RetryCase(r, o)
      BY <2>5
    <3>2. PICK context :
            /\ context.entry \in Entries /\ Enter(r, context) /\ context.case = o
            /\ \/ MoveCase(o, "investigating") /\ context.entry = "investigate"
               \/ MoveCase(o, "executing_action") /\ context.entry = "submit"
      BY <2>3, <3>1
    <3>3. \A k \in Cases : k # o => cases'[k] = cases[k]
      BY <2>4, <3>2
    <3>4. \/ cases'[o].state = "investigating" /\ context.entry = "investigate"
          \/ cases'[o].state = "executing_action" /\ context.entry = "submit"
      BY <2>4, <3>2
    <3> QED BY <3>2, <3>3, <3>4
  <2> QED BY <2>1, <2>2, <2>5 DEF Arrives
<1>2. /\ pc[r] = "idle" /\ pc'[r] = "start_run" /\ ctx'[r] = context
      /\ \A q \in Requests : q # r => pc'[q] = pc[q] /\ ctx'[q] = ctx[q]
  BY <1>1 DEF Enter, Resumed, TypeOK
<1>3. RunsStart'
  BY <1>1, <1>2 DEF RunsStart
<1>4. UNCHANGED <<proposals, actions, tickets>>
  BY ZenonT(150) DEF Arrives, SubmitMessage, RetryCase, DecideProposal, rows
<1>5. ASSUME BusyCasesAreHeld, NEW k \in Cases, Busy(k)' PROVE LookedAfter(k)'
  <2>1. CASE cases'[k] = cases[k] /\ WriteRefused(k)
    <3>1. WriteRefused(k)'
      BY <1>4, <2>1, RefusedStays DEF Kept
    <3> QED BY <3>1 DEF LookedAfter
  <2>2. CASE cases'[k] = cases[k] /\ ~WriteRefused(k)
    <3>1. Busy(k)
      BY <1>5, <2>2 DEF Busy
    <3>2. PICK q \in Requests : HeldBy(k, q)
      BY <1>5, <2>2, <3>1 DEF BusyCasesAreHeld, LookedAfter
    <3>3. q # r
      BY <1>2, <3>2 DEF HeldBy, Step, BusySteps, ActionSteps
    <3>4. HeldBy(k, q)'
      BY <1>2, <2>2, <3>2, <3>3 DEF HeldBy, Step
    <3> QED BY <3>4 DEF LookedAfter
  <2>3. CASE cases'[k] # cases[k]
    <3>1. HeldBy(k, r)'
      BY <1>1, <1>2, <2>3 DEF HeldBy, Step, BusySteps, ActionSteps
    <3> QED BY <3>1 DEF LookedAfter
  <2> QED BY <2>1, <2>2, <2>3
<1> QED BY <1>3, <1>5 DEF BusyCasesAreHeld

(* The steps of nobody's handler leave everything where it is. *)
LEMMA QuietSettles ==
  ASSUME CaseInv, SettledInv,
         \/ \E r \in Requests : ReadExistingTickets(r)
         \/ \E k \in Cases, v \in Versions : ExpiryPasses(k, v)
         \/ UNCHANGED vars
  PROVE  SettledInv'
<1> TypeOK
  BY DEF CaseInv
<1>1. UNCHANGED <<cases, actions, tickets, pc, crashes>>
  BY DEF ReadExistingTickets, ExpiryPasses, vars, rows, control
<1>2. \A q \in Requests : ctx'[q].case = ctx[q].case /\ ctx'[q].entry = ctx[q].entry
  <2>1. \A q \in Requests : ctx[q] \in Contexts
    BY DEF TypeOK
  <2> QED BY <2>1 DEF ReadExistingTickets, ExpiryPasses, vars, TypeOK, Contexts
<1>3. \A k \in Cases, q \in Requests : HeldBy(k, q)' <=> HeldBy(k, q)
  BY <1>1, <1>2 DEF HeldBy, Step
<1>4. \A k \in Cases : WriteRefused(k)' <=> WriteRefused(k)
  BY <1>1 DEF WriteRefused, ViolatesUniqueTicket
<1>5. RunsStart'
  BY <1>1, <1>2 DEF SettledInv, RunsStart
<1>6. BusyCasesAreHeld => BusyCasesAreHeld'
  BY <1>1, <1>3, <1>4 DEF BusyCasesAreHeld, Busy, LookedAfter
<1> QED BY <1>1, <1>5, <1>6 DEF SettledInv

(* No handler and no request counts as a restart. *)
LEMMA NoRestart ==
  ASSUME NEW r \in Requests, Arrives(r) \/ Continues(r)
  PROVE  crashes' = crashes
<1>1. CASE Arrives(r)
  BY ZenonT(150), <1>1 DEF Arrives, SubmitMessage, RetryCase, DecideProposal
<1>2. CASE Continues(r)
  BY ZenonT(150), <1>2 DEF Continues, StartRun, Triage, TriageFails, CompleteWithoutCase, CreateCase,
     RequestTargetClarification, AskTargetAgain, SelectTarget, CloseAtClarificationLimit,
     ResumeInvestigation, RejectInconsistentFacts, InvestigationFails, ProposeTicket,
     RequestBusinessClarification, RetryLater, CloseAfterInvestigation, ReviseIssue, FailRun,
     RejectDecision, ExpireProposal, RejectDuplicate, InvalidateProposal, AcceptConfirmation,
     Decline, SubmitConflicts, SubmitAction, SubmitFaultyAction, RecordActionFault, ReadBackTicket
<1> QED BY <1>1, <1>2

(* Every step but a restart leaves the busy Cases looked after. *)
LEMMA SettledInvNext == CaseInv /\ AtOnceInv /\ SettledInv /\ [Next]_vars => SettledInv'
<1> SUFFICES ASSUME CaseInv, AtOnceInv, SettledInv, [Next]_vars PROVE SettledInv'
  OBVIOUS
<1> TypeOK
  BY DEF CaseInv
<1>1. ASSUME NEW r \in Requests, Continues(r) PROVE SettledInv'
  <2>1. RunsStart' /\ crashes' = crashes
    BY <1>1, ContinuesStarts, NoRestart DEF SettledInv
  <2>2. BusyCasesAreHeld => BusyCasesAreHeld'
    BY <1>1, ContinuesHolds
  <2> QED BY <2>1, <2>2 DEF SettledInv
<1>2. ASSUME NEW r \in Requests, Arrives(r) PROVE SettledInv'
  <2>1. RunsStart' /\ (BusyCasesAreHeld => BusyCasesAreHeld') /\ crashes' = crashes
    BY <1>2, ArrivesSettles, NoRestart DEF SettledInv
  <2> QED BY <2>1 DEF SettledInv
<1>3. CASE Crash
  <2>1. crashes' # 0 /\ \A q \in Requests : pc'[q] = "idle"
    BY <1>3 DEF Crash, TypeOK
  <2> QED BY <2>1 DEF SettledInv, RunsStart
<1> QED BY <1>1, <1>2, <1>3, QuietSettles DEF Next

LEMMA SettledInvHolds == Spec => []SettledInv
  BY SettledInvInit, SettledInvNext, AtOnceInvHolds, CaseInvariant, PTL DEF Spec

(* The handlers' error paths (_fail_run, `async with'): whatever fails, a
   handler that returns or raises has settled its Run, but for the write it
   resumes that the unique index refuses.  A restart strands a Run. *)
THEOREM EndedRunsAreSettled == Spec => RunsSettle
<1>1. CaseInv /\ AtOnceInv /\ SettledInv /\ [Next]_vars =>
        [\A r \in Requests :
           pc[r] # "idle" /\ pc'[r] = "idle" /\ crashes' = crashes =>
             \/ runs'[r] \in {"succeeded", "failed"}
             \/ /\ pc[r] = "submit"
                /\ actions[ctx[r].case][ctx[r].version] = "failed_retryable"
                /\ ViolatesUniqueTicket(NewTicket(r))]_vars
  <2> SUFFICES ASSUME CaseInv, AtOnceInv, SettledInv, [Next]_vars, NEW r \in Requests,
                      pc[r] # "idle", pc'[r] = "idle", crashes' = crashes
               PROVE  \/ runs'[r] \in {"succeeded", "failed"}
                      \/ /\ pc[r] = "submit"
                         /\ actions[ctx[r].case][ctx[r].version] = "failed_retryable"
                         /\ ViolatesUniqueTicket(NewTicket(r))
    OBVIOUS
  <2> TypeOK
    BY DEF CaseInv
  <2>1. ASSUME NEW q \in Requests, Continues(q) PROVE q = r
    BY <2>1, ServedAlone
  <2>2. CASE Continues(r)
    <3>1. CASE SubmitConflicts(r)
      BY <3>1, ConflictsOnlyResumed
    <3>2. CASE ~SubmitConflicts(r)
      BY <2>2, <3>2, ContinuesSettles DEF SettledInv
    <3> QED BY <3>1, <3>2
  <2>3. ASSUME NEW q \in Requests, Arrives(q) PROVE FALSE
    <3>1. \E context : Enter(q, context)
      BY <2>3, ArrivesWith
    <3> QED BY <3>1 DEF Enter, TypeOK
  <2>4. ASSUME \/ \E q \in Requests : ReadExistingTickets(q)
               \/ \E k \in Cases, v \in Versions : ExpiryPasses(k, v)
               \/ UNCHANGED vars
        PROVE  FALSE
    BY <2>4 DEF ReadExistingTickets, ExpiryPasses, vars, control
  <2>5. ~Crash
    BY DEF Crash, TypeOK
  <2> QED BY <2>1, <2>2, <2>3, <2>4, <2>5 DEF Next
<1> QED BY <1>1, SettledInvHolds, AtOnceInvHolds, CaseInvariant, PTL DEF Spec, RunsSettle

(* Whatever fails, as long as the process runs, an open Case that no handler
   serves awaits a message, a decision or a retry, or the unique index refuses
   the write it resumed. *)
THEOREM OpenCaseCanMove == Spec => []OnlyRefusedWritesStrand
<1>1. CaseInv /\ SettledInv => OnlyRefusedWritesStrand
  <2> SUFFICES ASSUME CaseInv, BusyCasesAreHeld, NEW k \in Cases, Unserved(k), ~WriteRefused(k)
               PROVE  HasMove(k)
    BY DEF SettledInv, OnlyRefusedWritesStrand
  <2>1. cases[k].state \in CaseStates
    BY DEF CaseInv, TypeOK, CaseRows
  <2>2. ~Busy(k)
    <3> SUFFICES ASSUME Busy(k) PROVE FALSE
      OBVIOUS
    <3>1. PICK r \in Requests : HeldBy(k, r)
      BY DEF BusyCasesAreHeld, LookedAfter
    <3>2. Step(r) \in CaseSteps /\ pc[r] # "idle"
      BY <3>1 DEF HeldBy, BusySteps, CaseSteps, ProposalSteps, ActionSteps, Step
    <3>3. cases[k].conversation = ctx[r].conversation /\ lock[ctx[r].conversation] = r
      BY <3>1, <3>2 DEF CaseInv, HandlersKnowTheirCase, HandlerKnowsItsCase, HeldBy
    <3> QED BY <3>3, ConstantsAssumption DEF Unserved
  <2> QED BY <2>1, <2>2 DEF CaseStates, IsOpen, Busy, Unserved, HasMove
<1> QED BY SettledInvHolds, CaseInvariant, <1>1, PTL

-----------------------------------------------------------------------------
(***************************************************************************)
(* The service implements TicketPromise: every transaction of a handler is *)
(* one step of the promise about one Case, or none, for any number of      *)
(* Conversations, Cases, requests, Proposals and restarts.                 *)
(***************************************************************************)

(* Stage by the row and the actions of a Case *)
StageOf(row, acts) ==
  CASE row.outcome = "ticket_created"         -> "fulfilled"
    [] row.state = "closed" /\ row.outcome # "ticket_created" -> "dropped"
    [] row.state = "absent"                   -> "none"
    [] row.state = "awaiting_customer_confirmation" -> "offered"
    [] OTHER -> IF \E v \in Versions : acts[v] # "absent" THEN "accepted" ELSE "open"

NoActions(acts) == \A v \in Versions : acts[v] = "absent"

Stages == [k \in Cases |-> Stage(k)]
Ticketed == {t.case : t \in tickets}

-----------------------------------------------------------------------------
(* The stage of a Case, before and after a step. *)
LEMMA StageIs ==
  \A k \in Cases : /\ Stage(k) = StageOf(cases[k], actions[k])
                   /\ Stage(k)' = StageOf(cases'[k], actions'[k])
  BY DEF Stage, StageOf

(* The stages by the state of the row. *)
LEMMA StageByState ==
  ASSUME NEW row, NEW acts, row.outcome # "ticket_created"
  PROVE  /\ row.state = "closed" => StageOf(row, acts) = "dropped"
         /\ row.state = "absent" => StageOf(row, acts) = "none"
         /\ row.state = "awaiting_customer_confirmation" => StageOf(row, acts) = "offered"
         /\ row.state \in {"investigating", "awaiting_customer_input", "awaiting_retry",
                           "executing_action"} =>
              StageOf(row, acts) = IF NoActions(acts) THEN "open" ELSE "accepted"
  BY DEF StageOf, NoActions

(* A Case with a ticket to show for it is fulfilled. *)
LEMMA StageFulfilled ==
  ASSUME NEW row, NEW acts, row.outcome = "ticket_created", row.state = "closed"
  PROVE  StageOf(row, acts) = "fulfilled"
  BY DEF StageOf

(* A step that moves the stage of one Case and writes no ticket *)
LEMMA OneCaseMoves ==
  ASSUME NEW k \in Cases, \A o \in Cases : o # k => Kept(o), tickets' = tickets
  PROVE  Stages' = [Stages EXCEPT ![k] = Stage(k)'] /\ Ticketed' = Ticketed
<1>1. \A o \in Cases : o # k => Stage(o)' = Stage(o)
  BY StageIs DEF Kept
<1>2. Stages' = [o \in Cases |-> Stage(o)']
  BY DEF Stages
<1> QED BY <1>1, <1>2 DEF Stages, Ticketed

(* Such a step is one of the promise if its stages follow one another so. *)
LEMMA MoveKeepsPromise ==
  ASSUME NEW k \in Cases, \A o \in Cases : o # k => Kept(o), tickets' = tickets,
         \/ Stage(k)' = Stage(k)
         \/ Stage(k) = "none" /\ Stage(k)' = "open"
         \/ Stage(k) = "open" /\ Stage(k)' = "offered"
         \/ Stage(k) = "offered" /\ Stage(k)' \in {"open", "accepted"}
         \/ Stage(k) = "accepted" /\ Stage(k)' = "fulfilled" /\ k \in Ticketed
         \/ /\ Stage(k) \in {"open", "offered", "accepted"} /\ Stage(k)' = "dropped"
            /\ k \notin Ticketed
  PROVE  Promise!Next \/ (Stages' = Stages /\ Ticketed' = Ticketed)
<1>1. Stages' = [Stages EXCEPT ![k] = Stage(k)'] /\ Ticketed' = Ticketed /\ Stages[k] = Stage(k)
  BY OneCaseMoves DEF Stages
<1>2. CASE Stage(k)' = Stage(k)
  <2>1. Stages' = Stages
    BY <1>1, <1>2 DEF Stages
  <2> QED BY <1>1, <2>1
<1>3. CASE Stage(k) = "none" /\ Stage(k)' = "open"
  BY <1>1, <1>3 DEF Stages, Ticketed, Promise!Next, Promise!Open, Promise!Move
<1>4. CASE Stage(k) = "open" /\ Stage(k)' = "offered"
  BY <1>1, <1>4 DEF Stages, Ticketed, Promise!Next, Promise!Offer, Promise!Move
<1>5. CASE Stage(k) = "offered" /\ Stage(k)' = "open"
  BY <1>1, <1>5 DEF Stages, Ticketed, Promise!Next, Promise!Withdraw, Promise!Move
<1>6. CASE Stage(k) = "offered" /\ Stage(k)' = "accepted"
  BY <1>1, <1>6 DEF Stages, Ticketed, Promise!Next, Promise!Accept, Promise!Move
<1>7. CASE Stage(k) = "accepted" /\ Stage(k)' = "fulfilled" /\ k \in Ticketed
  BY <1>1, <1>7 DEF Stages, Ticketed, Promise!Next, Promise!Fulfil, Promise!Move
<1>8. CASE Stage(k) \in {"open", "offered", "accepted"} /\ Stage(k)' = "dropped" /\ k \notin Ticketed
  BY <1>1, <1>8 DEF Stages, Ticketed, Promise!Next, Promise!Drop, Promise!Move
<1> QED BY <1>2, <1>3, <1>4, <1>5, <1>6, <1>7, <1>8

(* What does not touch a Case or a ticket is none of the promise's business. *)
LEMMA OutsidePromise ==
  ASSUME cases' = cases, actions' = actions, tickets' = tickets
  PROVE  Stages' = Stages /\ Ticketed' = Ticketed
<1>1. \A k \in Cases : Stage(k)' = Stage(k)
  BY StageIs
<1> QED BY <1>1 DEF Stages, Ticketed

(* Only a Case that executes, waits for a retry or is closed has actions. *)
LEMMA NoActionsBefore ==
  ASSUME CaseInv, NEW k \in Cases,
         cases[k].state \notin {"executing_action", "awaiting_retry", "closed"}
  PROVE  NoActions(actions[k])
  BY DEF CaseInv, ActionsMatchCases, NoActions

(* A Case without a ticket, and the outcomes it may then have *)
LEMMA NoneTicketed ==
  ASSUME NEW k \in Cases, \A t \in tickets : t.case # k
  PROVE  k \notin Ticketed
  BY DEF Ticketed

-----------------------------------------------------------------------------
(* submit_message opens a Case. *)
LEMMA CreatesPromise ==
  ASSUME CaseInv, AccountInv, NEW r \in Requests, Creates(r)
  PROVE  Promise!Next \/ (Stages' = Stages /\ Ticketed' = Ticketed)
<1>1. PICK k \in Cases, scope \in EntryScopes : CreateCase(r, k, scope)
  BY DEF Creates
<1>2. TypeOK
  BY DEF CaseInv
<1>3. /\ cases[k].state = "absent" /\ cases[k].outcome # "ticket_created"
      /\ tickets' = tickets /\ actions'[k] = actions[k] /\ NoActions(actions[k])
  BY <1>1, NoActionsBefore, NoTicketBefore DEF CreateCase
<1>4. cases'[k].state = "investigating" /\ cases'[k].outcome # "ticket_created"
  BY <1>1, <1>2, OutcomesAssumption DEF CreateCase, TypeOK, AbsentCase, CaseOutcomes
<1>5. Stage(k) = "none" /\ Stage(k)' = "open"
  BY <1>3, <1>4, StageIs, StageByState
<1>6. \A o \in Cases : o # k => Kept(o)
  BY <1>1, <1>2 DEF CreateCase, Kept, TypeOK
<1> QED BY <1>3, <1>5, <1>6, MoveKeepsPromise

(* What an investigation and its questions may make of a Case. *)
LEMMA MovedCase ==
  ASSUME CaseInv, NEW r \in Requests, MovesCase(r)
  PROVE  \E k \in Cases :
           /\ k = ctx[r].case /\ cases[k].state \in {"investigating", "awaiting_customer_input"}
           /\ cases'[k].state \in {"investigating", "awaiting_customer_input", "awaiting_retry",
                                   "awaiting_customer_confirmation", "closed"}
           /\ actions' = actions /\ tickets' = tickets
<1>1. TypeOK
  BY DEF CaseInv
<1>2. pc[r] \in {"ask_target", "clarification", "investigate"}
  BY ZenonT(150) DEF MovesCase, RequestTargetClarification, SelectTarget, CloseAtClarificationLimit,
     InvestigationFails, ProposeTicket, RequestBusinessClarification, RetryLater,
     CloseAfterInvestigation, ReviseIssue, Running, Resumed
<1>3. Step(r) = pc[r] /\ Step(r) \in CaseSteps
  BY <1>2 DEF Step, CaseSteps, ProposalSteps, ActionSteps
<1>4. PICK k \in Cases :
        k = ctx[r].case /\ cases[k].state \in {"investigating", "awaiting_customer_input"}
  BY <1>2, <1>3, StepsAreDistinct DEF CaseInv, HandlersKnowTheirCase, HandlerKnowsItsCase
<1>5. actions' = actions /\ tickets' = tickets
  BY ZenonT(150) DEF MovesCase, RequestTargetClarification, SelectTarget, CloseAtClarificationLimit,
     InvestigationFails, ProposeTicket, RequestBusinessClarification, RetryLater,
     CloseAfterInvestigation, ReviseIssue
<1>6. cases[k] \in CaseRows
  BY <1>1 DEF TypeOK
<1>7. CASE \/ \E o \in {"human_support_required", "resolved_no_action"} : CloseCase(k, o)
           \/ \E created \in {0, 1} : \E reception : AskCustomer(k, created, reception)
           \/ MoveCase(k, "awaiting_retry")
  <2>1. CASE \E o \in {"human_support_required", "resolved_no_action"} : CloseCase(k, o)
    BY <1>1, <1>4, <1>5, <1>6, <2>1 DEF CloseCase, TypeOK, CaseRows
  <2>2. CASE \E created \in {0, 1} : \E reception : AskCustomer(k, created, reception)
    BY <1>1, <1>4, <1>5, <1>6, <2>2 DEF AskCustomer, TypeOK, CaseRows
  <2>3. CASE MoveCase(k, "awaiting_retry")
    BY <1>1, <1>4, <1>5, <1>6, <2>3 DEF MoveCase, TypeOK, CaseRows
  <2> QED BY <1>7, <2>1, <2>2, <2>3
<1>8. CASE SelectTarget(r)
  BY <1>1, <1>4, <1>5, <1>6, <1>8 DEF SelectTarget, TypeOK, CaseRows
<1>9. CASE ProposeTicket(r)
  BY <1>1, <1>4, <1>5, <1>6, <1>9 DEF ProposeTicket, TypeOK, CaseRows
<1>10. CASE ReviseIssue(r)
  BY <1>1, <1>4, <1>5, <1>6, <1>10 DEF ReviseIssue, TypeOK, CaseRows
<1> QED BY <1>4, <1>7, <1>8, <1>9, <1>10 DEF MovesCase, RequestTargetClarification,
        CloseAtClarificationLimit, InvestigationFails, RequestBusinessClarification, RetryLater,
        CloseAfterInvestigation

(* An investigation offers a ticket, ends the Case without one, or neither. *)
LEMMA MovesPromise ==
  ASSUME CaseInv, AccountInv, AccountInv', NEW r \in Requests, Continues(r), MovesCase(r)
  PROVE  Promise!Next \/ (Stages' = Stages /\ Ticketed' = Ticketed)
<1>1. PICK k \in Cases :
        /\ k = ctx[r].case /\ cases[k].state \in {"investigating", "awaiting_customer_input"}
        /\ cases'[k].state \in {"investigating", "awaiting_customer_input", "awaiting_retry",
                                "awaiting_customer_confirmation", "closed"}
        /\ actions' = actions /\ tickets' = tickets
  BY MovedCase
<1>2. ~Creates(r)
  <2>1. pc[r] # "route"
    BY ZenonT(150) DEF MovesCase, RequestTargetClarification, SelectTarget, CloseAtClarificationLimit,
       InvestigationFails, ProposeTicket, RequestBusinessClarification, RetryLater,
       CloseAfterInvestigation, ReviseIssue, Running, Resumed
  <2> QED BY ZenonT(150), <2>1 DEF Creates, CreateCase, Resumed
<1>3. \A o \in Cases : o # k => Kept(o)
  BY <1>1, <1>2, OtherCasesKept
<1>4. NoActions(actions[k]) /\ cases[k].outcome # "ticket_created" /\ \A t \in tickets : t.case # k
  BY <1>1, NoActionsBefore, NoTicketBefore
<1>5. cases'[k].outcome # "ticket_created"
  BY <1>1, <1>4 DEF AccountInv, Accounted
<1>6. Stage(k) = "open" /\ Stage(k)' \in {"open", "offered", "dropped"}
  BY <1>1, <1>4, <1>5, StageIs, StageByState
<1>7. k \notin Ticketed
  BY <1>4, NoneTicketed
<1> QED BY <1>1, <1>3, <1>6, <1>7, MoveKeepsPromise

(* A decision withdraws the offer, accepts it or drops the Case. *)
LEMMA SettlesPromise ==
  ASSUME CaseInv, AccountInv, AccountInv', NEW r \in Requests, Continues(r), Settles(r)
  PROVE  Promise!Next \/ (Stages' = Stages /\ Ticketed' = Ticketed)
<1>1. pc[r] \in {"confirmation", "decline"} /\ TypeOK
  BY DEF Settles, ExpireProposal, InvalidateProposal, AcceptConfirmation, Decline, Deciding,
     Running, CaseInv
<1>2. PICK k \in Cases, v \in Versions : k = ctx[r].case /\ v = ctx[r].version
  BY <1>1 DEF CaseInv, HandlersKnowTheirCase, HandlerKnowsItsCase, Step, CaseSteps, ProposalSteps
<1>3. cases[k].state = "awaiting_customer_confirmation" /\ cases[k] \in CaseRows
  BY <1>1, <1>2, SettledIsAwaited DEF TypeOK
<1>4. \A o \in Cases : o # k => Kept(o)
  <2>1. ~Creates(r)
    BY ZenonT(150), <1>1 DEF Creates, CreateCase, Resumed
  <2> QED BY <1>2, <2>1, OtherCasesKept
<1>5. NoActions(actions[k]) /\ cases[k].outcome # "ticket_created" /\ \A t \in tickets : t.case # k
  BY <1>3, NoActionsBefore, NoTicketBefore
<1>6. tickets' = tickets
  BY DEF Settles, ExpireProposal, InvalidateProposal, AcceptConfirmation, Decline
<1>7. cases'[k].outcome # "ticket_created"
  BY <1>5, <1>6 DEF AccountInv, Accounted
<1>8. Stage(k) = "offered" /\ k \notin Ticketed
  BY <1>3, <1>5, StageIs, StageByState, NoneTicketed
<1>9. Stage(k)' \in {"open", "accepted", "dropped"}
  <2>1. CASE ExpireProposal(r) \/ InvalidateProposal(r)
    <3>1. (\E state : SettleProposal(k, v, state, "awaiting_retry")) /\ actions' = actions
      BY <1>2, <2>1 DEF ExpireProposal, InvalidateProposal
    <3>2. cases'[k].state = "awaiting_retry"
      BY <1>1, <1>3, <3>1 DEF SettleProposal, TypeOK, CaseRows
    <3> QED BY <1>7, <3>1, <3>2, StageIs, StageByState
  <2>2. CASE AcceptConfirmation(r)
    <3>1. SettleProposal(k, v, "confirmed", "executing_action")
      BY <1>2, <2>2 DEF AcceptConfirmation
    <3>2. cases'[k].state = "executing_action"
      BY <1>1, <1>3, <3>1 DEF SettleProposal, TypeOK, CaseRows
    <3> QED BY <1>7, <3>2, StageIs, StageByState
  <2>3. CASE Decline(r)
    <3>1. cases'[k].state = "closed"
      BY <1>1, <1>2, <1>3, <2>3 DEF Decline, TypeOK, CaseRows
    <3> QED BY <1>7, <3>1, StageIs, StageByState
  <2> QED BY <2>1, <2>2, <2>3 DEF Settles
<1> QED BY <1>4, <1>6, <1>8, <1>9, MoveKeepsPromise

(* The executor writes the one ticket of an accepted Case, and ends the Case
   as that ticket says. *)
LEMMA ActsPromise ==
  ASSUME CaseInv, AccountInv, AccountInv', NEW r \in Requests, Continues(r), Acts(r)
  PROVE  Promise!Next \/ (Stages' = Stages /\ Ticketed' = Ticketed)
<1>1. Step(r) = pc[r] /\ Step(r) \in ActionSteps
  BY DEF Acts, SubmitAction, SubmitFaultyAction, RecordActionFault, ReadBackTicket, Running,
     Step, ActionSteps
<1>2. PICK k \in Cases, v \in Versions :
        /\ k = ctx[r].case /\ v = ctx[r].version /\ cases[k].state = "executing_action"
        /\ \A w \in Versions : actions[k][w] # "absent" <=> w = v
  BY <1>1, Executing
<1>3. TypeOK /\ HandlerAccounts(r) /\ cases[k].outcome # "ticket_created" /\ cases[k] \in CaseRows
  BY <1>2 DEF CaseInv, AccountInv, Accounted, TypeOK
<1>4. Stage(k) = "accepted"
  BY <1>2, <1>3, StageIs, StageByState DEF NoActions
<1>5. \A o \in Cases : o # k => Kept(o)
  <2>1. ~Creates(r)
    BY ZenonT(150), <1>1 DEF Creates, CreateCase, Resumed, ActionSteps
  <2> QED BY <1>2, <2>1, OtherCasesKept
<1>6. CASE SubmitAction(r) \/ SubmitFaultyAction(r)
  <2>1. cases' = cases /\ actions'[k][v] = "submitted"
    BY <1>2, <1>3, <1>6 DEF SubmitAction, SubmitFaultyAction, TypeOK
  <2>2. Stage(k)' = "accepted"
    BY <1>2, <1>3, <2>1, StageIs, StageByState DEF NoActions
  <2>3. Stages' = Stages
    BY <1>4, <1>5, <2>2, StageIs DEF Stages, Kept
  <2>4. CASE SubmitFaultyAction(r)
    BY <1>4, <1>5, <2>2, <2>4, MoveKeepsPromise DEF SubmitFaultyAction
  <2>5. CASE SubmitAction(r)
    <3>1. tickets' = tickets \cup {NewTicket(r)} /\ NewTicket(r).case = k
      BY <1>2, <2>5 DEF SubmitAction, NewTicket
    <3>2. \A t \in tickets : t.case # k
      BY <1>1, <1>2, <1>3, <2>5, NoTicketYet DEF SubmitAction, Running, HandlerAccounts
    <3>3. k \notin Ticketed /\ Ticketed' = Ticketed \cup {k}
      BY <3>1, <3>2 DEF Ticketed
    <3>4. Stages[k] = "accepted"
      BY <1>4 DEF Stages
    <3> QED BY <2>3, <3>3, <3>4 DEF Promise!Next, Promise!WriteTicket, Stages, Ticketed
  <2> QED BY <1>6, <2>4, <2>5
<1>7. CASE RecordActionFault(r)
  <2>1. k \notin Ticketed
    BY <1>1, <1>2, <1>3, <1>7, NoneTicketed DEF RecordActionFault, Running, HandlerAccounts
  <2>2. ctx[r].fault \in ScriptableFaults
    BY <1>1, <1>7 DEF RecordActionFault, Running, CaseInv, HandlersKnowTheirCase,
       HandlerKnowsItsCase
  <2>3. tickets' = tickets /\ actions'[k][v] = ctx[r].fault
    BY <1>2, <1>3, <1>7 DEF RecordActionFault, TypeOK
  <2>4. CASE \E o \in {"failed", "uncertain"} : CloseCase(k, o)
    <3>1. cases'[k].state = "closed" /\ cases'[k].outcome # "ticket_created"
      BY <1>3, <2>4 DEF CloseCase, TypeOK, CaseRows
    <3>2. Stage(k)' = "dropped"
      BY <3>1, StageIs, StageByState
    <3> QED BY <1>4, <1>5, <2>1, <2>3, <3>2, MoveKeepsPromise
  <2>5. CASE MoveCase(k, "awaiting_retry")
    <3>1. cases'[k].state = "awaiting_retry" /\ cases'[k].outcome # "ticket_created"
      BY <1>3, <2>5 DEF MoveCase, TypeOK, CaseRows
    <3>2. ~NoActions(actions'[k])
      BY <2>2, <2>3 DEF NoActions, ScriptableFaults
    <3>3. Stage(k)' = "accepted"
      BY <3>1, <3>2, StageIs, StageByState
    <3> QED BY <1>4, <1>5, <2>3, <3>3, MoveKeepsPromise
  <2> QED BY <1>2, <1>7, <2>2, <2>4, <2>5 DEF RecordActionFault, ScriptableFaults
<1>8. CASE ReadBackTicket(r)
  <2>1. NewTicket(r) \in tickets /\ tickets' = tickets
    BY <1>1, <1>3, <1>8 DEF ReadBackTicket, Running, HandlerAccounts
  <2>2. NewTicket(r).case = k /\ NewTicket(r).version = v
    BY <1>2 DEF NewTicket
  <2>3. CloseCase(k, "ticket_created") /\ k \in Ticketed
    BY <1>2, <1>8, <2>1, <2>2 DEF ReadBackTicket, Ticketed
  <2>4. cases'[k].state = "closed" /\ cases'[k].outcome = "ticket_created"
    BY <1>3, <2>3 DEF CloseCase, TypeOK, CaseRows
  <2>5. Stage(k)' = "fulfilled"
    BY <2>4, StageIs, StageFulfilled
  <2> QED BY <1>4, <1>5, <2>1, <2>3, <2>5, MoveKeepsPromise
<1> QED BY <1>6, <1>7, <1>8 DEF Acts

(* retry_case resumes an accepted action or investigates again. *)
LEMMA RetryPromise ==
  ASSUME CaseInv, AccountInv, NEW r \in Requests, NEW k \in Cases, RetryCase(r, k)
  PROVE  Promise!Next \/ (Stages' = Stages /\ Ticketed' = Ticketed)
<1>1. /\ cases[k].state = "awaiting_retry" /\ cases[k].outcome # "ticket_created"
      /\ tickets' = tickets /\ actions' = actions /\ proposals' = proposals
  BY ZenonT(150), NoTicketBefore DEF RetryCase, IsRetryable
<1>2. TypeOK /\ cases[k] \in CaseRows
  BY DEF CaseInv, TypeOK
<1>3. \E state \in {"investigating", "executing_action"} : MoveCase(k, state)
  BY ZenonT(150) DEF RetryCase
<1>4. /\ cases'[k].state \in {"investigating", "executing_action"}
      /\ cases'[k].outcome # "ticket_created"
      /\ \A o \in Cases : o # k => Kept(o)
  BY <1>1, <1>2, <1>3 DEF MoveCase, Kept, TypeOK, CaseRows
<1>5. Stage(k)' = Stage(k)
  BY <1>1, <1>4, StageIs, StageByState
<1> QED BY <1>1, <1>4, <1>5, MoveKeepsPromise

(* Every step of the service is a step of the promise, or none. *)
LEMMA StepKeepsPromise ==
  CaseInv /\ AccountInv /\ AccountInv' /\ [Next]_vars =>
    [Promise!Next]_<<[k \in Cases |-> Stage(k)], {t.case : t \in tickets}>>
<1> SUFFICES ASSUME CaseInv, AccountInv, AccountInv', Next \/ UNCHANGED vars
             PROVE  Promise!Next \/ (Stages' = Stages /\ Ticketed' = Ticketed)
  BY DEF Stages, Ticketed
<1>1. ASSUME NEW r \in Requests, Continues(r)
      PROVE  Promise!Next \/ (Stages' = Stages /\ Ticketed' = Ticketed)
  <2>1. CASE WritesNothing(r)
    <3>1. cases' = cases /\ actions' = actions /\ tickets' = tickets
      BY <2>1, WritesNothingKeeps DEF rows
    <3> QED BY <3>1, OutsidePromise
  <2> QED BY <1>1, <2>1, ContinuesCases, CreatesPromise, MovesPromise, SettlesPromise, ActsPromise
<1>2. ASSUME NEW r \in Requests, Arrives(r)
      PROVE  Promise!Next \/ (Stages' = Stages /\ Ticketed' = Ticketed)
  <2>1. CASE \E k \in Cases : RetryCase(r, k)
    BY <2>1, RetryPromise
  <2>2. CASE ~\E k \in Cases : RetryCase(r, k)
    <3>1. cases' = cases /\ actions' = actions /\ tickets' = tickets
      BY ZenonT(150), <1>2, <2>2 DEF Arrives, SubmitMessage, DecideProposal, rows
    <3> QED BY <3>1, OutsidePromise
  <2> QED BY <2>1, <2>2
<1>3. ASSUME \/ \E r \in Requests : ReadExistingTickets(r)
             \/ \E k \in Cases, v \in Versions : ExpiryPasses(k, v)
             \/ Crash
             \/ UNCHANGED vars
      PROVE  Promise!Next \/ (Stages' = Stages /\ Ticketed' = Ticketed)
  <2>1. cases' = cases /\ actions' = actions /\ tickets' = tickets
    BY <1>3 DEF ReadExistingTickets, ExpiryPasses, Crash, vars, rows
  <2> QED BY <2>1, OutsidePromise
<1> QED BY <1>1, <1>2, <1>3 DEF Next

(* submit_message, retry_case, the decisions and the executor keep the promise
   to the customer: no ticket before its acceptance, at most one in a Case, no
   second acceptance, and an end of the Case that is true about it. *)
THEOREM PromiseIsKept == Spec => KeepsPromise
<1>1. Init => Promise!Init
  <2> SUFFICES ASSUME Init PROVE Promise!Init
    OBVIOUS
  <2>1. \A k \in Cases : Stage(k) = "none"
    <3> SUFFICES ASSUME NEW k \in Cases PROVE Stage(k) = "none"
      OBVIOUS
    <3>1. cases[k].state = "absent" /\ cases[k].outcome # "ticket_created"
      BY OutcomesAssumption DEF Init, AbsentCase, CaseOutcomes
    <3> QED BY <3>1, StageIs, StageByState
  <2> QED BY <2>1 DEF Init, Promise!Init
<1> QED BY AccountInvInit, AccountInvNext, StepKeepsPromise, CaseInvariant, <1>1, PTL
        DEF Spec, KeepsPromise, Promise!Spec, Promise!vars

-----------------------------------------------------------------------------
(***************************************************************************)
(* The transition tables.  What the other invariants do not say: the       *)
(* Proposals of a Case are numbered from 1, so that a new one is no old    *)
(* one; a handler's Run is queued until it starts and running until it     *)
(* returns; the action stays submitted until its outcome is recorded.      *)
(***************************************************************************)
NumberedFromOne(k) ==
    \A v \in Versions : proposals[k][v].state # "absent" =>
      \A w \in 1 .. v : proposals[k][w].state # "absent"

HandlerFollows(r) ==
    /\ pc[r] = "start_run" => runs[r] = "queued" /\ ctx[r].entry \in Entries
    /\ pc[r] \notin {"idle", "start_run"} => runs[r] = "running"
    /\ Step(r) \in {"record_fault", "read_back"} =>
         actions[ctx[r].case][ctx[r].version] = "submitted"

FollowInv ==
    /\ \A k \in Cases : NumberedFromOne(k)
    /\ \A r \in Requests : HandlerFollows(r)

(* What a step does to the rows of a Case, and to the Run of a request *)
RowsFollow(k) == \A v \in Versions :
    /\ Allows(ProposalTransitions \cup {<<"absent", "pending_confirmation">>},
              proposals[k][v].state, proposals'[k][v].state)
    /\ Allows(ActionTransitions \cup {<<"absent", "ready">>}, actions[k][v], actions'[k][v])

RunFollows(r) == Allows(RunTransitions, runs[r], runs'[r])

(* At first there is no Proposal and no Run. *)
LEMMA FollowInvInit == Init => FollowInv
<1> SUFFICES ASSUME Init PROVE FollowInv
  OBVIOUS
<1>1. \A k \in Cases : NumberedFromOne(k)
  BY DEF Init, NumberedFromOne, AbsentProposal
<1>2. \A r \in Requests : HandlerFollows(r)
  BY DEF Init, HandlerFollows, Step
<1> QED BY <1>1, <1>2 DEF FollowInv

(* Rows that are kept follow every table. *)
LEMMA KeptFollows ==
  ASSUME NEW k \in Cases, Kept(k)
  PROVE  RowsFollow(k) /\ (NumberedFromOne(k) => NumberedFromOne(k)')
<1>1. RowsFollow(k)
  BY DEF Kept, RowsFollow, Allows
<1>2. NumberedFromOne(k) => NumberedFromOne(k)'
  BY DEF Kept, NumberedFromOne
<1> QED BY <1>1, <1>2

(* A numbering does not depend on the states the Proposals go through. *)
LEMMA NumberingStays ==
  ASSUME NEW k \in Cases, NumberedFromOne(k),
         \A v \in Versions : proposals'[k][v].state = "absent" <=> proposals[k][v].state = "absent"
  PROVE  NumberedFromOne(k)'
<1> SUFFICES ASSUME NEW v \in Versions, proposals'[k][v].state # "absent", NEW w \in 1 .. v
             PROVE  proposals'[k][w].state # "absent"
  BY DEF NumberedFromOne
<1>1. w \in Versions
  BY ConstantsAssumption DEF Versions
<1>2. proposals[k][w].state # "absent"
  BY DEF NumberedFromOne
<1> QED BY <1>1, <1>2

(* Numbered without a gap, the versions used are those below the next. *)
LEMMA UsedVersions ==
  ASSUME NEW k \in Cases, NumberedFromOne(k), NEW v \in Versions
  PROVE  proposals[k][v].state # "absent" <=> v < NextVersion(k)
<1> DEFINE used == {u \in Versions : proposals[k][u].state # "absent"}
<1>1. Versions \subseteq Nat /\ IsFiniteSet(Versions)
  <2>1. Versions \subseteq Nat
    BY ConstantsAssumption DEF Versions
  <2>2. IsFiniteSet(Versions)
    BY FS_Interval, ConstantsAssumption, 1 \in Int, MaxProposals \in Int DEF Versions
  <2> QED BY <2>1, <2>2
<1>2. IsFiniteSet(used) /\ Cardinality(used) \in Nat /\ NextVersion(k) = Cardinality(used) + 1
  BY <1>1, FS_Subset, FS_CardinalityType DEF NextVersion
<1>3. /\ IsFiniteSet(1 .. v) /\ Cardinality(1 .. v) = v
      /\ IsFiniteSet(1 .. v - 1) /\ Cardinality(1 .. v - 1) = v - 1
  <2>1. v \in Int /\ v - 1 \in Int /\ 1 \in Int /\ v >= 1
    BY <1>1 DEF Versions
  <2>2. IsFiniteSet(1 .. v) /\ Cardinality(1 .. v) = v
    BY <2>1, FS_Interval
  <2>3. IsFiniteSet(1 .. v - 1) /\ Cardinality(1 .. v - 1) = v - 1
    BY <2>1, FS_Interval
  <2> QED BY <2>2, <2>3
<1>4. CASE proposals[k][v].state # "absent"
  <2>1. 1 .. v \subseteq used
    BY <1>4, ConstantsAssumption DEF NumberedFromOne, Versions
  <2>2. Cardinality(1 .. v) <= Cardinality(used)
    BY <1>2, <2>1, FS_Subset
  <2> QED BY <1>1, <1>2, <1>3, <1>4, <2>2
<1>5. CASE proposals[k][v].state = "absent"
  <2>1. used \subseteq 1 .. v - 1
    <3> SUFFICES ASSUME NEW u \in used, u >= v PROVE FALSE
      BY <1>1 DEF Versions
    <3>1. v \in 1 .. u
      BY DEF Versions
    <3> QED BY <1>5, <3>1 DEF NumberedFromOne
  <2>2. Cardinality(used) <= v - 1
    BY <1>3, <2>1, FS_Subset
  <2> QED BY <1>1, <1>2, <1>5, <2>2
<1> QED BY <1>4, <1>5

(* So the next one is new, and the ones before it are used. *)
LEMMA NextVersionIsNew ==
  ASSUME NEW k \in Cases, NumberedFromOne(k), NEW v \in Versions, v = NextVersion(k)
  PROVE  /\ proposals[k][v].state = "absent"
         /\ \A w \in 1 .. v - 1 : proposals[k][w].state # "absent"
<1>1. proposals[k][v].state = "absent"
  <2>1. v \in Nat
    BY ConstantsAssumption DEF Versions
  <2> QED BY <2>1, UsedVersions
<1>2. ASSUME NEW w \in 1 .. v - 1 PROVE proposals[k][w].state # "absent"
  <2>1. w \in Versions /\ w < v
    BY ConstantsAssumption DEF Versions
  <2> QED BY <2>1, UsedVersions
<1> QED BY <1>1, <1>2

(* The steps that write nothing, and those that open a Case, keep Proposals
   and actions. *)
LEMMA QuietFollows ==
  ASSUME CaseInv, NEW r \in Requests, WritesNothing(r) \/ Creates(r), NEW k \in Cases
  PROVE  RowsFollow(k) /\ (NumberedFromOne(k) => NumberedFromOne(k)')
<1>1. UNCHANGED <<proposals, actions>>
  <2>1. CASE WritesNothing(r)
    BY <2>1, WritesNothingKeeps DEF rows
  <2>2. CASE Creates(r)
    BY ZenonT(150), <2>2 DEF Creates, CreateCase
  <2> QED BY <2>1, <2>2
<1>2. RowsFollow(k)
  BY <1>1 DEF RowsFollow, Allows
<1>3. NumberedFromOne(k) => NumberedFromOne(k)'
  BY <1>1 DEF NumberedFromOne
<1> QED BY <1>2, <1>3

(* A new Proposal takes a version of its own; while its Case is investigated
   there is none to supersede. *)
LEMMA ProposeFollows ==
  ASSUME CaseInv, NEW r \in Requests, ProposeTicket(r), NEW k \in Cases, k = ctx[r].case,
         NumberedFromOne(k)
  PROVE  RowsFollow(k) /\ NumberedFromOne(k)'
<1>1. TypeOK
  BY DEF CaseInv
<1>2. PICK v \in Versions : v = NextVersion(k)
  BY NextVersionType DEF ProposeTicket
<1>3. /\ proposals[k][v].state = "absent"
      /\ \A w \in 1 .. v - 1 : proposals[k][w].state # "absent"
  BY <1>2, NextVersionIsNew
<1>4. actions' = actions
  BY DEF ProposeTicket
<1> DEFINE Offer(stands) ==
             [state |-> "pending_confirmation", evidence |-> ctx[r].seen.revision,
              stands |-> stands, process |-> crashes, expired |-> FALSE]
           pending == ProposalsOf(k, "pending_confirmation")
<1>5. PICK stands : \A w \in Versions : proposals'[k][w] =
        IF w = v THEN Offer(stands)
        ELSE IF w \in pending THEN Settled("superseded")
        ELSE proposals[k][w]
  <2>1. PICK stands \in Reproposals(k) : proposals' = [proposals EXCEPT ![k] =
          [w \in Versions |-> IF w = v THEN Offer(stands)
                             ELSE IF w \in pending THEN Settled("superseded")
                             ELSE proposals[k][w]]]
    BY <1>2, ZenonT(150) DEF ProposeTicket
  <2> HIDE DEF Offer, pending
  <2> QED BY <1>1, <2>1 DEF TypeOK
<1>6. proposals'[k][v].state = "pending_confirmation"
  <2>1. Offer(stands).state = "pending_confirmation"
    OBVIOUS
  <2> HIDE DEF Offer
  <2>2. proposals'[k][v] = Offer(stands)
    BY <1>5
  <2> QED BY <2>1, <2>2
<1> HIDE DEF Offer
<1>7. ASSUME NEW w \in Versions, w # v
      PROVE  \/ proposals'[k][w] = proposals[k][w]
             \/ /\ proposals[k][w].state = "pending_confirmation"
                /\ proposals'[k][w].state = "superseded"
  <2>1. CASE w \in pending
    <3>1. proposals[k][w].state = "pending_confirmation"
      BY <2>1 DEF ProposalsOf
    <3>2. proposals'[k][w] = Settled("superseded")
      BY <1>5, <1>7, <2>1
    <3> QED BY <3>1, <3>2, SettledRow DEF ProposalStates
  <2>2. CASE w \notin pending
    BY <1>5, <1>7, <2>2
  <2> QED BY <2>1, <2>2
<1>8. RowsFollow(k)
  BY <1>3, <1>4, <1>6, <1>7 DEF RowsFollow, Allows, ProposalTransitions
<1>9. NumberedFromOne(k)'
  <2> SUFFICES ASSUME NEW u \in Versions, proposals'[k][u].state # "absent", NEW w \in 1 .. u
               PROVE  proposals'[k][w].state # "absent"
    BY DEF NumberedFromOne
  <2>1. w \in Versions /\ w <= u
    BY ConstantsAssumption DEF Versions
  <2>2. CASE w = v
    BY <1>6, <2>2
  <2>3. CASE w # v
    <3>1. proposals[k][w].state # "absent"
      <4>1. CASE u = v
        <5>1. w \in 1 .. v - 1
          BY <2>1, <2>3, <4>1 DEF Versions
        <5> QED BY <1>3, <5>1
      <4>2. CASE u # v
        <5>1. proposals[k][u].state # "absent"
          BY <1>7, <4>2
        <5> QED BY <5>1 DEF NumberedFromOne
      <4> QED BY <4>1, <4>2
    <3> QED BY <1>7, <2>1, <2>3, <3>1
  <2> QED BY <2>2, <2>3
<1> QED BY <1>8, <1>9

(* The other steps that move a Case have nothing to do with its Proposals. *)
LEMMA MovesFollows ==
  ASSUME CaseInv, NEW r \in Requests, MovesCase(r), NEW k \in Cases, k = ctx[r].case,
         NumberedFromOne(k)
  PROVE  RowsFollow(k) /\ NumberedFromOne(k)'
<1>1. CASE ProposeTicket(r)
  BY <1>1, ProposeFollows
<1>2. CASE ~ProposeTicket(r)
  <2>1. UNCHANGED <<proposals, actions>>
    BY ZenonT(150), <1>2 DEF MovesCase, RequestTargetClarification, SelectTarget,
       CloseAtClarificationLimit, InvestigationFails, RequestBusinessClarification, RetryLater,
       CloseAfterInvestigation, ReviseIssue
  <2>2. RowsFollow(k)
    BY <2>1 DEF RowsFollow, Allows
  <2>3. NumberedFromOne(k)'
    BY <2>1 DEF NumberedFromOne
  <2> QED BY <2>2, <2>3
<1> QED BY <1>1, <1>2

(* A decision finds the Proposal pending, and its action not yet there. *)
LEMMA SettlesFollows ==
  ASSUME CaseInv, NEW r \in Requests, Settles(r), NEW k \in Cases, k = ctx[r].case,
         NumberedFromOne(k)
  PROVE  RowsFollow(k) /\ NumberedFromOne(k)'
<1>1. TypeOK
  BY DEF CaseInv
<1>2. pc[r] \in {"confirmation", "decline"} /\ Validation(r) \in {"valid", "expired"}
  BY DEF Settles, ExpireProposal, InvalidateProposal, AcceptConfirmation, Decline, Deciding,
     Running
<1>3. PICK v \in Versions : v = ctx[r].version
  BY <1>2 DEF CaseInv, HandlersKnowTheirCase, HandlerKnowsItsCase, Step, ProposalSteps
<1>4. proposals[k][v].state = "pending_confirmation"
  BY <1>2, <1>3 DEF Validation
<1>5. actions[k][v] = "absent"
  BY <1>4 DEF CaseInv, ActionsMatchCases, OneExecutionPerCase
<1>6. PICK state \in {"expired", "invalidated", "confirmed", "declined"} :
        proposals' = [proposals EXCEPT ![k][v] = Settled(state)]
  BY <1>3 DEF Settles, ExpireProposal, InvalidateProposal, AcceptConfirmation, Decline,
     SettleProposal
<1>7. proposals'[k][v].state = state /\ \A w \in Versions \ {v} : proposals'[k][w] = proposals[k][w]
  <2>1. state \in ProposalStates
    BY DEF ProposalStates
  <2>2. /\ proposals'[k][v].state = state
        /\ \A w \in Versions \ {v} : proposals'[k][w] = proposals[k][w]
    BY ONLY TypeOK, k \in Cases, v \in Versions, <1>6, <2>1, ProposalMoves
  <2> QED BY <2>2
<1>8. actions' = actions \/ actions' = [actions EXCEPT ![k][v] = "ready"]
  BY <1>3 DEF Settles, ExpireProposal, InvalidateProposal, AcceptConfirmation, Decline
<1>9. \A w \in Versions : actions'[k][w] = actions[k][w] \/ (w = v /\ actions'[k][w] = "ready")
  BY <1>1, <1>8 DEF TypeOK
<1>10. RowsFollow(k)
  BY <1>4, <1>5, <1>7, <1>9 DEF RowsFollow, Allows, ProposalTransitions
<1>11. \A w \in Versions : proposals'[k][w].state = "absent" <=> proposals[k][w].state = "absent"
  BY <1>4, <1>7
<1> QED BY <1>10, <1>11, NumberingStays

(* The executor submits what is ready or failed retryably, and records the
   outcome of what it submitted. *)
LEMMA ActsFollows ==
  ASSUME CaseInv, AccountInv, NEW r \in Requests, HandlerFollows(r), Acts(r),
         NEW k \in Cases, k = ctx[r].case, NumberedFromOne(k)
  PROVE  RowsFollow(k) /\ NumberedFromOne(k)'
<1>1. TypeOK /\ HandlerAccounts(r) /\ proposals' = proposals
  BY DEF CaseInv, AccountInv, Acts, SubmitAction, SubmitFaultyAction, RecordActionFault,
     ReadBackTicket
<1>2. Step(r) = pc[r] /\ Step(r) \in ActionSteps
  BY DEF Acts, SubmitAction, SubmitFaultyAction, RecordActionFault, ReadBackTicket, Running,
     Step, ActionSteps
<1>3. PICK v \in Versions : v = ctx[r].version
  BY <1>2, Executing
<1>4. PICK state \in ActionStates :
        /\ actions' = [actions EXCEPT ![k][v] = state]
        /\ <<actions[k][v], state>> \in ActionTransitions
  <2>1. CASE SubmitAction(r) \/ SubmitFaultyAction(r)
    <3>1. actions[k][v] \in {"ready", "failed_retryable"}
      BY <1>1, <1>2, <1>3, <2>1 DEF HandlerAccounts, SubmitAction, SubmitFaultyAction, Running
    <3>2. actions' = [actions EXCEPT ![k][v] = "submitted"]
      BY <1>3, <2>1 DEF SubmitAction, SubmitFaultyAction
    <3> QED BY <3>1, <3>2 DEF ActionStates, ActionTransitions
  <2>2. CASE RecordActionFault(r) \/ ReadBackTicket(r)
    <3>1. actions[k][v] = "submitted"
      BY <1>2, <1>3, <2>2 DEF HandlerFollows, RecordActionFault, ReadBackTicket, Running
    <3>2. \E state \in {"succeeded"} \cup ScriptableFaults : actions' = [actions EXCEPT ![k][v] = state]
      <4>1. CASE RecordActionFault(r)
        <5>1. ctx[r].fault \in ScriptableFaults
          BY <1>2, <4>1 DEF RecordActionFault, Running, CaseInv, HandlersKnowTheirCase,
             HandlerKnowsItsCase
        <5> QED BY <1>3, <4>1, <5>1 DEF RecordActionFault
      <4>2. CASE ReadBackTicket(r)
        BY <1>3, <4>2 DEF ReadBackTicket, ScriptableFaults
      <4> QED BY <2>2, <4>1, <4>2
    <3> QED BY <3>1, <3>2 DEF ActionStates, ActionTransitions
  <2> QED BY <2>1, <2>2 DEF Acts
<1>5. actions'[k][v] = state /\ \A w \in Versions \ {v} : actions'[k][w] = actions[k][w]
  <2>1. state \in ActionStates /\ actions' = [actions EXCEPT ![k][v] = state]
    BY <1>4
  <2> QED BY ONLY <1>1, <2>1, k \in Cases, v \in Versions, ActionMoves
<1>6. RowsFollow(k)
  BY <1>1, <1>4, <1>5 DEF RowsFollow, Allows
<1>7. NumberedFromOne(k)'
  BY <1>1 DEF NumberedFromOne
<1> QED BY <1>6, <1>7

(* Where a handler goes: it starts its Run, submits, goes on, or returns and
   ends its Run. *)
LEMMA ContinuesTo ==
  ASSUME NEW r \in Requests, Continues(r)
  PROVE  \/ StartRun(r) \/ SubmitAction(r) \/ SubmitFaultyAction(r)
         \/ /\ pc[r] \notin {"idle", "start_run"}
            /\ \/ /\ runs' = runs
                  /\ \/ \E step \in {"route", "investigate", "ask_target", "fail_run", "submit"} :
                          Goto(r, step) \/ Await(r, step)
                     \/ UNCHANGED control /\ pc[r] = "investigate"
               \/ Return(r) /\ \/ runs' = runs
                               \/ \E end \in {"succeeded", "failed"} : runs' = [runs EXCEPT ![r] = end]
<1>1. StartRun(r) \/ pc[r] \notin {"idle", "start_run"}
  BY ZenonT(150) DEF Continues, Triage, TriageFails, CompleteWithoutCase, CreateCase,
     RequestTargetClarification, AskTargetAgain, SelectTarget, CloseAtClarificationLimit,
     ResumeInvestigation, RejectInconsistentFacts, InvestigationFails, ProposeTicket,
     RequestBusinessClarification, RetryLater, CloseAfterInvestigation, ReviseIssue, FailRun,
     RejectDecision, ExpireProposal, RejectDuplicate, InvalidateProposal, AcceptConfirmation,
     Decline, SubmitConflicts, SubmitAction, SubmitFaultyAction, RecordActionFault,
     ReadBackTicket, Deciding, Running, Resumed
<1>2. CASE Triage(r) \/ TriageFails(r) \/ AskTargetAgain(r) \/ SelectTarget(r)
           \/ ResumeInvestigation(r) \/ RejectInconsistentFacts(r) \/ InvestigationFails(r)
           \/ RejectDecision(r) \/ ExpireProposal(r) \/ RejectDuplicate(r)
           \/ InvalidateProposal(r) \/ AcceptConfirmation(r)
           \/ \E k \in Cases, scope \in EntryScopes : CreateCase(r, k, scope)
  <2>1. /\ runs' = runs
        /\ \E step \in {"route", "investigate", "ask_target", "fail_run", "submit"} :
             Goto(r, step) \/ Await(r, step)
    BY ZenonT(150), <1>2 DEF Triage, TriageFails, CreateCase, AskTargetAgain, SelectTarget,
       ResumeInvestigation, RejectInconsistentFacts, InvestigationFails, RejectDecision,
       ExpireProposal, RejectDuplicate, InvalidateProposal, AcceptConfirmation
  <2> QED BY <1>1, <2>1
<1>3. CASE ReviseIssue(r)
  BY <1>3 DEF ReviseIssue, Resumed
<1>4. CASE CompleteWithoutCase(r) \/ RequestTargetClarification(r) \/ CloseAtClarificationLimit(r)
           \/ ProposeTicket(r) \/ RequestBusinessClarification(r) \/ RetryLater(r)
           \/ CloseAfterInvestigation(r) \/ FailRun(r) \/ Decline(r) \/ SubmitConflicts(r)
           \/ RecordActionFault(r) \/ ReadBackTicket(r)
  <2>1. Return(r) /\ \/ runs' = runs
                     \/ \E end \in {"succeeded", "failed"} : runs' = [runs EXCEPT ![r] = end]
    BY ZenonT(150), <1>4 DEF CompleteWithoutCase, RequestTargetClarification,
       CloseAtClarificationLimit, ProposeTicket, RequestBusinessClarification, RetryLater,
       CloseAfterInvestigation, FailRun, Decline, SubmitConflicts, RecordActionFault,
       ReadBackTicket, SucceedRun
  <2> QED BY <1>1, <2>1
<1> QED BY ZenonT(150), <1>2, <1>3, <1>4 DEF Continues

(* A handler's Run starts queued, is running while the handler goes on, and
   ends once. *)
LEMMA ContinuesRun ==
  ASSUME CaseInv, NEW r \in Requests, HandlerFollows(r), Continues(r)
  PROVE  RunFollows(r) /\ HandlerFollows(r)'
<1>1. TypeOK
  BY DEF CaseInv
<1>2. CASE StartRun(r)
  <2>1. /\ pc[r] = "start_run" /\ runs[r] = "queued" /\ ctx[r].entry \in Entries
        /\ pc'[r] = ctx[r].entry /\ runs'[r] = "running"
    BY <1>1, <1>2 DEF StartRun, Running, HandlerFollows, Goto, Await, TypeOK
  <2>2. RunFollows(r)
    BY <2>1 DEF RunFollows, Allows, RunTransitions
  <2> QED BY <2>1, <2>2 DEF HandlerFollows, Step, Entries
<1>3. CASE SubmitAction(r) \/ SubmitFaultyAction(r)
  <2>1. Step(r) = "submit" /\ pc[r] = "submit"
    BY <1>3 DEF SubmitAction, SubmitFaultyAction, Running, Step
  <2>2. PICK k \in Cases, v \in Versions : k = ctx[r].case /\ v = ctx[r].version
    BY <2>1, Executing DEF ActionSteps
  <2>3. actions' = [actions EXCEPT ![k][v] = "submitted"] /\ runs' = runs
    BY <1>3, <2>2 DEF SubmitAction, SubmitFaultyAction
  <2>4. actions'[k][v] = "submitted"
    BY <1>1, <2>3 DEF TypeOK
  <2>5. ctx'[r].case = k /\ ctx'[r].version = v
    <3>1. ctx[r] \in Contexts
      BY <1>1 DEF TypeOK
    <3> QED BY <1>1, <1>3, <2>2, <3>1 DEF SubmitAction, SubmitFaultyAction, TypeOK, Contexts
  <2>6. pc'[r] \in {"record_fault", "read_back"}
    BY <1>1, <1>3 DEF SubmitAction, SubmitFaultyAction, Goto, TypeOK
  <2>7. runs[r] = "running"
    BY <2>1 DEF HandlerFollows
  <2> QED BY <2>3, <2>4, <2>5, <2>6, <2>7 DEF HandlerFollows, RunFollows, Allows
<1>4. CASE ~StartRun(r) /\ ~SubmitAction(r) /\ ~SubmitFaultyAction(r)
  <2>1. runs[r] = "running" /\ pc[r] \notin {"idle", "start_run"}
    BY <1>4, ContinuesTo DEF HandlerFollows
  <2>2. \/ /\ runs'[r] = runs[r]
           /\ pc'[r] \in {"route", "investigate", "ask_target", "fail_run", "submit", "idle"}
        \/ pc'[r] = "idle" /\ runs'[r] \in {"succeeded", "failed"}
    BY <1>1, <1>4, ContinuesTo DEF Goto, Await, Return, control, TypeOK
  <2>3. RunFollows(r)
    BY <2>1, <2>2 DEF RunFollows, Allows, RunTransitions
  <2> QED BY <2>1, <2>2, <2>3 DEF HandlerFollows, Step
<1> QED BY <1>2, <1>3, <1>4

(* A handler that the event loop does not run keeps its Run and its write. *)
LEMMA OthersFollow ==
  ASSUME CaseInv, NEW r \in Requests, Continues(r), NEW q \in Requests \ {r}, HandlerFollows(q)
  PROVE  RunFollows(q) /\ HandlerFollows(q)'
<1>1. pc'[q] = pc[q] /\ ctx'[q] = ctx[q] /\ runs'[q] = runs[q]
  BY ServedAlone, OtherRunsKept
<1>2. Step(q)' = Step(q)
  BY <1>1 DEF Step
<1>3. Step(q) \in {"record_fault", "read_back"} => actions'[ctx[q].case] = actions[ctx[q].case]
  BY OthersCaseKept DEF Kept, ActionSteps
<1>4. HandlerFollows(q)'
  BY <1>1, <1>2, <1>3 DEF HandlerFollows
<1> QED BY <1>1, <1>4 DEF RunFollows, Allows

(* Every step of a handler follows the tables. *)
LEMMA ContinuesFollows ==
  ASSUME CaseInv, AccountInv, FollowInv, NEW r \in Requests, Continues(r)
  PROVE  /\ FollowInv'
         /\ \A k \in Cases : RowsFollow(k)
         /\ \A q \in Requests : RunFollows(q)
<1>1. ASSUME NEW q \in Requests PROVE RunFollows(q) /\ HandlerFollows(q)'
  BY ContinuesRun, OthersFollow DEF FollowInv
<1>2. ASSUME NEW k \in Cases PROVE RowsFollow(k) /\ NumberedFromOne(k)'
  <2>1. NumberedFromOne(k) /\ HandlerFollows(r)
    BY DEF FollowInv
  <2>2. CASE WritesNothing(r) \/ Creates(r)
    BY <2>1, <2>2, QuietFollows
  <2>3. CASE ~Creates(r) /\ k # ctx[r].case
    BY <2>1, <2>3, OtherCasesKept, KeptFollows
  <2>4. CASE k = ctx[r].case /\ (MovesCase(r) \/ Settles(r) \/ Acts(r))
    BY <2>1, <2>4, MovesFollows, SettlesFollows, ActsFollows
  <2> QED BY <2>2, <2>3, <2>4, ContinuesCases
<1> QED BY <1>1, <1>2 DEF FollowInv

(* A request that arrives starts a Run, and resumes a write at `submit'. *)
LEMMA ArrivalEnters ==
  ASSUME NEW r \in Requests, Arrives(r)
  PROVE  \E context : context.entry \in Entries /\ Enter(r, context)
<1>1. ASSUME NEW c \in Conversations, SubmitMessage(r, c)
      PROVE  \E context : context.entry \in Entries /\ Enter(r, context)
  <2> DEFINE context == [NoContext EXCEPT !.conversation = c, !.case = activeCase[c],
           !.entry = IF activeCase[c] = None THEN "triage" ELSE "clarification"]
  <2>1. Enter(r, context)
    BY <1>1 DEF SubmitMessage
  <2>2. context.entry \in Entries
    BY DEF NoContext, Entries
  <2> HIDE DEF context
  <2> QED BY <2>1, <2>2
<1>2. ASSUME NEW o \in Cases, NEW v \in Versions, NEW asked \in Versions,
             NEW decision \in {"confirmation", "decline"},
             DecideProposal(r, o, v, asked, decision)
      PROVE  \E context : context.entry \in Entries /\ Enter(r, context)
  <2> DEFINE context == [NoContext EXCEPT !.conversation = cases[o].conversation,
           !.case = o, !.version = v, !.asked = asked, !.entry = decision]
  <2>1. Enter(r, context)
    BY <1>2 DEF DecideProposal
  <2>2. context.entry \in Entries
    BY DEF NoContext, Entries
  <2> HIDE DEF context
  <2> QED BY <2>1, <2>2
<1>3. ASSUME NEW o \in Cases, RetryCase(r, o)
      PROVE  \E context : context.entry \in Entries /\ Enter(r, context)
  <2> DEFINE again == [NoContext EXCEPT !.conversation = cases[o].conversation, !.case = o,
                                        !.entry = "investigate"]
             resumed(v) == [NoContext EXCEPT !.conversation = cases[o].conversation, !.case = o,
                                             !.entry = "submit", !.version = v]
  <2>1. Enter(r, again) \/ \E v \in Resumable(o) : Enter(r, resumed(v))
    BY ZenonT(150), <1>3 DEF RetryCase
  <2>2. again.entry \in Entries /\ \A v : resumed(v).entry \in Entries
    BY DEF NoContext, Entries
  <2> HIDE DEF again, resumed
  <2> QED BY <2>1, <2>2
<1> QED BY <1>1, <1>2, <1>3 DEF Arrives

LEMMA ArrivesFollows ==
  ASSUME CaseInv, FollowInv, NEW r \in Requests, Arrives(r)
  PROVE  /\ FollowInv'
         /\ \A k \in Cases : RowsFollow(k)
         /\ \A q \in Requests : RunFollows(q) \/ (pc[q] = "idle" /\ runs'[q] = "queued")
<1>1. TypeOK
  BY DEF CaseInv
<1>2. UNCHANGED <<proposals, actions>>
  BY ZenonT(150) DEF Arrives, SubmitMessage, RetryCase, DecideProposal, rows
<1>3. PICK context : context.entry \in Entries /\ Enter(r, context)
  BY ArrivalEnters
<1>4. /\ pc[r] = "idle" /\ pc'[r] = "start_run" /\ ctx'[r].entry \in Entries /\ runs'[r] = "queued"
      /\ \A q \in Requests \ {r} : pc'[q] = pc[q] /\ ctx'[q] = ctx[q] /\ runs'[q] = runs[q]
  BY <1>1, <1>3 DEF Enter, Resumed, TypeOK
<1>5. \A k \in Cases : RowsFollow(k) /\ NumberedFromOne(k)'
  BY <1>2 DEF FollowInv, NumberedFromOne, RowsFollow, Allows
<1>6. HandlerFollows(r)'
  BY <1>4 DEF HandlerFollows, Step, Entries
<1>7. \A q \in Requests \ {r} : HandlerFollows(q)'
  BY <1>2, <1>4 DEF FollowInv, HandlerFollows, Step
<1> QED BY <1>4, <1>5, <1>6, <1>7 DEF FollowInv, RunFollows, Allows

(* Every step, and every stuttering step, follows the tables. *)
LEMMA FollowInvNext ==
  ASSUME CaseInv, AccountInv, FollowInv, [Next]_vars
  PROVE  /\ FollowInv'
         /\ \A k \in Cases : RowsFollow(k)
         /\ \A r \in Requests : RunFollows(r) \/ (pc[r] = "idle" /\ runs'[r] = "queued")
<1>1. ASSUME NEW r \in Requests, ReadExistingTickets(r)
      PROVE  /\ FollowInv'
             /\ \A k \in Cases : RowsFollow(k)
             /\ \A q \in Requests : RunFollows(q)
  <2>1. /\ UNCHANGED <<proposals, actions, runs, pc>> /\ pc[r] = "investigate"
        /\ \A q \in Requests \ {r} : ctx'[q] = ctx[q]
    BY <1>1 DEF ReadExistingTickets, rows, control, Resumed, CaseInv, TypeOK
  <2>2. \A k \in Cases : RowsFollow(k) /\ NumberedFromOne(k)'
    BY <2>1 DEF FollowInv, NumberedFromOne, RowsFollow, Allows
  <2>3. \A q \in Requests \ {r} : HandlerFollows(q)'
    BY <2>1 DEF FollowInv, HandlerFollows, Step
  <2>4. HandlerFollows(r)'
    BY <2>1 DEF FollowInv, HandlerFollows, Step
  <2> QED BY <2>1, <2>2, <2>3, <2>4 DEF FollowInv, RunFollows, Allows
<1>2. ASSUME NEW o \in Cases, NEW v \in Versions, ExpiryPasses(o, v)
      PROVE  /\ FollowInv'
             /\ \A k \in Cases : RowsFollow(k)
             /\ \A q \in Requests : RunFollows(q)
  <2>1. UNCHANGED <<actions, runs, pc, ctx>>
    BY <1>2 DEF ExpiryPasses, control
  <2>2. \A k \in Cases, w \in Versions : proposals'[k][w].state = proposals[k][w].state
    <3> SUFFICES ASSUME NEW k \in Cases, NEW w \in Versions
                 PROVE  proposals'[k][w].state = proposals[k][w].state
      OBVIOUS
    <3>1. /\ proposals \in [Cases -> [Versions -> ProposalRows]]
          /\ proposals[k][w] \in ProposalRows
      BY DEF CaseInv, TypeOK
    <3>2. proposals' = [proposals EXCEPT ![o][v].expired = TRUE]
      BY <1>2 DEF ExpiryPasses
    <3>3. \/ proposals'[k][w] = proposals[k][w]
          \/ proposals'[k][w] = [proposals[k][w] EXCEPT !.expired = TRUE]
      BY <3>1, <3>2
    <3> QED BY <3>1, <3>3 DEF ProposalRows
  <2>3. \A k \in Cases : RowsFollow(k) /\ NumberedFromOne(k)'
    BY <2>1, <2>2, NumberingStays DEF FollowInv, RowsFollow, Allows
  <2>4. \A q \in Requests : HandlerFollows(q)'
    BY <2>1 DEF FollowInv, HandlerFollows, Step
  <2> QED BY <2>1, <2>3, <2>4 DEF FollowInv, RunFollows, Allows
<1>3. ASSUME Crash
      PROVE  /\ FollowInv'
             /\ \A k \in Cases : RowsFollow(k)
             /\ \A q \in Requests : RunFollows(q)
  <2>1. UNCHANGED <<proposals, actions, runs>> /\ \A q \in Requests : pc'[q] = "idle"
    BY <1>3 DEF Crash, rows
  <2>2. \A k \in Cases : RowsFollow(k) /\ NumberedFromOne(k)'
    BY <2>1 DEF FollowInv, NumberedFromOne, RowsFollow, Allows
  <2>3. \A q \in Requests : HandlerFollows(q)'
    BY <2>1 DEF HandlerFollows, Step
  <2> QED BY <2>1, <2>2, <2>3 DEF FollowInv, RunFollows, Allows
<1>4. ASSUME UNCHANGED vars
      PROVE  /\ FollowInv'
             /\ \A k \in Cases : RowsFollow(k)
             /\ \A q \in Requests : RunFollows(q)
  <2>1. UNCHANGED <<proposals, actions, runs, pc, ctx>>
    BY <1>4 DEF vars, rows, control
  <2>2. \A k \in Cases : RowsFollow(k) /\ NumberedFromOne(k)'
    BY <2>1 DEF FollowInv, NumberedFromOne, RowsFollow, Allows
  <2>3. \A q \in Requests : HandlerFollows(q)'
    BY <2>1 DEF FollowInv, HandlerFollows, Step
  <2> QED BY <2>1, <2>2, <2>3 DEF FollowInv, RunFollows, Allows
<1> QED BY <1>1, <1>2, <1>3, <1>4, ContinuesFollows, ArrivesFollows DEF Next

(* _apply_investigation_result: the Proposals of a Case are numbered from 1
   without a gap, so a new one gets a version that was never used. *)
THEOREM ProposalsAreNumbered == Spec => []VersionsAreCounted
<1>1. CaseInv /\ AccountInv /\ FollowInv /\ [Next]_vars => FollowInv'
  BY FollowInvNext
<1>2. FollowInv => VersionsAreCounted
  BY UsedVersions DEF FollowInv, VersionsAreCounted
<1> QED BY <1>1, <1>2, AccountInvInit, AccountInvNext, FollowInvInit, CaseInvariant, PTL DEF Spec

(* update_proposal_state, update_action_state, update_run: whatever is
   interleaved, fails or restarts, the service asks for no move their tables
   (and those of domain/transitions.py) refuse, so no handler is left between
   two transactions by an InvalidStateTransitionError. *)
THEOREM LifecyclesFollowTables == Spec => FollowsTables
<1>1. CaseInv /\ AccountInv /\ FollowInv /\ [Next]_vars => FollowInv'
  BY FollowInvNext
<1>2. CaseInv /\ AccountInv /\ FollowInv /\ [Next]_vars =>
        [/\ \A k \in Cases, v \in Versions :
              /\ Allows(ProposalTransitions \cup {<<"absent", "pending_confirmation">>},
                        proposals[k][v].state, proposals'[k][v].state)
              /\ Allows(ActionTransitions \cup {<<"absent", "ready">>},
                        actions[k][v], actions'[k][v])
         /\ \A r \in Requests :
              \/ Allows(RunTransitions, runs[r], runs'[r])
              \/ pc[r] = "idle" /\ runs'[r] = "queued"]_vars
  BY FollowInvNext DEF RowsFollow, RunFollows
<1> QED BY <1>1, <1>2, AccountInvInit, AccountInvNext, FollowInvInit, CaseInvariant, PTL
        DEF Spec, FollowsTables
=============================================================================
