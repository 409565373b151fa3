---------------------------- MODULE CaseLifecycle ----------------------------
(***************************************************************************)
(* The write path of the after-sales service                               *)
(* (application/service.py over storage/repositories.py): customer         *)
(* messages, investigation outcomes, retries, confirmations, declines and  *)
(* the ticket executor, run by concurrent API requests on one event loop.  *)
(*                                                                         *)
(* Persistent state is SQLite, changed by one transaction per step.        *)
(* Volatile state is the per-Conversation lock, each request's             *)
(* continuation and the FixtureStore's ticket view; a crash drops it and   *)
(* startup rebuilds the ticket view.  Requests share one asyncio loop, so  *)
(* a handler runs alone from one suspension (waiting for triage, for       *)
(* demonstration pacing, or for the investigation) to the next: `loop' is  *)
(* the handler that runs.  A crash may hit between any two transactions.   *)
(*                                                                         *)
(* Left out: wording, events, tool calls and budgets, the content of       *)
(* evidence (a gate outcome is any outcome the tickets read allow).        *)
(***************************************************************************)
EXTENDS Integers, FiniteSets

CONSTANTS
  Conversations,  \* conversation_id values
  Cases,          \* case_id values; bounds the Cases ever created
  Requests,       \* API calls that may be in flight together
  Orders,         \* authorized orders; every Conversation may ask about each
  PackagesOf,     \* FixtureStore.get_shipments: order -> its packages
  ActionFaults,   \* write outcomes the fixture's action fault plan may script
  MaxProposals,   \* bound: Proposal versions of one Case
  MaxCrashes,     \* bound: process crashes
  None            \* Python's None

Packages == UNION {PackagesOf[o] : o \in Orders}

ScriptableFaults == {"failed_retryable", "failed_terminal", "uncertain"}

\* What the model needs of its parameters: None is nobody's identifier, the
\* fault plan scripts only the outcomes _record_scripted_action_fault accepts.
ASSUME ConstantsAssumption ==
  /\ None \notin Conversations \cup Cases \cup Requests \cup Packages \cup Nat
  /\ ActionFaults \subseteq ScriptableFaults
  /\ MaxProposals \in Nat \ {0}
  /\ MaxCrashes \in Nat
  /\ \A o \in Orders : IsFiniteSet(PackagesOf[o])

Versions == 1 .. MaxProposals
MaxClarifications == 2   \* Settings.max_business_clarifications

SNR     == "signed_not_received"
STALLED == "stalled_tracking"
Scopes  == [order : Orders, issue : {SNR, STALLED}, target : Packages \cup {None}]

CaseStates ==
  {"absent", "investigating", "awaiting_customer_input",
   "awaiting_customer_confirmation", "awaiting_retry", "executing_action",
   "closed"}
CaseOutcomes ==
  {"resolved_no_action", "ticket_created", "human_support_required",
   "uncertain", "failed"}

\* An open Case has no outcome: None is none of them.
ASSUME OutcomesAssumption == None \notin CaseOutcomes

ProposalStates ==
  {"absent", "pending_confirmation", "confirmed", "declined", "superseded",
   "expired", "invalidated"}
ActionStates ==
  {"absent", "ready", "submitted", "succeeded"} \cup ScriptableFaults
RunStates == {"absent", "queued", "running", "succeeded", "failed"}
Steps ==
  {"idle", "start_run", "triage", "route", "ask_target", "clarification",
   "investigate", "confirmation", "decline", "submit", "record_fault",
   "read_back", "fail_run"}

VARIABLES
  activeCase,      \* ConversationRow.active_case_id
  cases,           \* InvestigationCaseRow by case_id
  proposals,       \* ActionProposalRow by case_id and version
  actions,         \* ActionExecutionRow.action_state, one per Proposal
  tickets,         \* TicketRow; all of them stay active
  runs,            \* RunRow.run_state of the latest Run of each request
  lock,            \* CaseMutationCoordinator: the request inside each Conversation
  loop,            \* the request the event loop runs, None if all are suspended
  pc,              \* where each request continues
  ctx,             \* each request's local variables
  sourceTickets,   \* FixtureStore._dynamic_tickets
  ticketRevision,  \* FixtureStore._ticket_revision
  crashes          \* crashes so far

rows    == <<activeCase, cases, proposals, actions, tickets>>
source  == <<sourceTickets, ticketRevision>>
control == <<lock, loop, pc>>
vars    == <<rows, runs, control, ctx, source, crashes>>

-----------------------------------------------------------------------------
(***************************************************************************)
(* Rows and locals                                                         *)
(***************************************************************************)
AbsentCase ==
  [state |-> "absent", outcome |-> None, conversation |-> None, scope |-> None,
   clarifications |-> 0, activeProposal |-> None, reception |-> None]

AbsentProposal ==
  [state |-> "absent", evidence |-> 0, stands |-> TRUE, process |-> 0, expired |-> FALSE]

\* entry: the step that follows _start_run; asked: the proposal_version the
\* client sent; revisable: allow_issue_revision; seen: the Run's observation of
\* get_existing_logistics_tickets, the latest answer and the oldest revision.
NoContext ==
  [conversation |-> None, case |-> None, entry |-> "idle", version |-> None,
   asked |-> None, revisable |-> TRUE, seen |-> None, fault |-> None]

Observations == [revision : Nat, active : BOOLEAN]
Tickets == [case : Cases, version : Versions, scope : Scopes]

IsOpen(row) == row.state \notin {"absent", "closed"}

\* Variant: targets are compared as they are.
OverlapsExactly(scope, ticket) == ticket.scope = scope

\* Repository.get_active_ticket and FixtureStore.get_active_tickets: a scope
\* without a target matches every package, a ticket without one blocks all.
Overlaps(scope, ticket) ==
  /\ ticket.scope.order = scope.order
  /\ ticket.scope.issue = scope.issue
  /\ scope.target = None \/ ticket.scope.target \in {None, scope.target}

\* The two partial unique indexes of TicketRow.
ViolatesUniqueTicket(new) ==
  \E t \in tickets : t.scope = new.scope /\ <<t.case, t.version>> # <<new.case, new.version>>

\* The budget of two questions, checked before each of them.  (Variant: the
\* comparison lets a third one through.)
ClarificationsExhaustedLate(k) == cases[k].clarifications > MaxClarifications
ClarificationsExhausted(k) == cases[k].clarifications >= MaxClarifications

\* _select_target_shipment: a report of a missing delivery on a one-package
\* order always selects that package; otherwise the message decides.
Targets(order, issue) ==
  PackagesOf[order] \cup
    (IF issue = SNR /\ Cardinality(PackagesOf[order]) = 1 THEN {} ELSE {None})

EntryScopes == {s \in Scopes : s.target \in Targets(s.order, s.issue)}

\* _needs_partial_shipment_clarification, the part decided by the scope.
MayNeedTarget(scope) ==
  scope.issue = STALLED /\ scope.target = None /\ Cardinality(PackagesOf[scope.order]) > 1

\* _is_target_shipment_clarification_case
AwaitsTarget(row) == MayNeedTarget(row.scope) /\ row.clarifications > 0

ProposalsOf(k, state) == {v \in Versions : proposals[k][v].state = state}
ActionsOf(k, states) == {v \in Versions : actions[k][v] \in states}
NextVersion(k) == Cardinality({v \in Versions : proposals[k][v].state # "absent"}) + 1

\* A Proposal that is over: nothing reads its evidence and expiry any more, and
\* the model forgets them.
Settled(state) == [AbsentProposal EXCEPT !.state = state]

\* update_case with case_state CLOSED: the row keeps its outcome and the
\* Conversation loses its active Case.  (The model forgets the question.)
CloseCase(k, outcome) ==
  /\ cases' = [cases EXCEPT ![k] =
       [@ EXCEPT !.state = "closed", !.outcome = outcome, !.reception = None]]
  /\ activeCase' = [c \in Conversations |-> IF activeCase[c] = k THEN None ELSE activeCase[c]]

MoveCase(k, state) ==
  /\ cases' = [cases EXCEPT ![k].state = state]
  /\ UNCHANGED activeCase

\* The Case asks its customer; a question that is new counts.  `reception' is
\* the process in which the reception question was asked last.
AskCustomer(k, created, reception) ==
  /\ cases' = [cases EXCEPT ![k] =
       [@ EXCEPT !.state = "awaiting_customer_input",
                 !.clarifications = cases[k].clarifications + created,
                 !.reception = reception]]
  /\ UNCHANGED activeCase

-----------------------------------------------------------------------------
(***************************************************************************)
(* The event loop                                                          *)
(***************************************************************************)
Running(r, step) == loop = r /\ pc[r] = step
Resumed(r, step) == loop = None /\ pc[r] = step

Goto(r, step) ==
  /\ pc' = [pc EXCEPT ![r] = step]
  /\ loop' = r
  /\ UNCHANGED lock

Await(r, step) ==
  /\ pc' = [pc EXCEPT ![r] = step]
  /\ loop' = None
  /\ UNCHANGED lock

\* The handler returns or raises: `async with' releases the Conversation.
Return(r) ==
  /\ pc' = [pc EXCEPT ![r] = "idle"]
  /\ loop' = None
  /\ lock' = [c \in Conversations |-> IF lock[c] = r THEN None ELSE lock[c]]
  /\ ctx' = [ctx EXCEPT ![r] = NoContext]

\* Variant: the handler does not wait for the Conversation's lock.
EnterUnserialized(r, context) ==
  /\ Resumed(r, "idle")
  /\ lock' = [lock EXCEPT ![context.conversation] = r]
  /\ loop' = r
  /\ pc' = [pc EXCEPT ![r] = "start_run"]
  /\ ctx' = [ctx EXCEPT ![r] = context]
  /\ runs' = [runs EXCEPT ![r] = "queued"]

\* A request takes the Conversation's lock and inserts its Run.
Enter(r, context) ==
  /\ Resumed(r, "idle")
  /\ lock[context.conversation] = None
  /\ lock' = [lock EXCEPT ![context.conversation] = r]
  /\ loop' = r
  /\ pc' = [pc EXCEPT ![r] = "start_run"]
  /\ ctx' = [ctx EXCEPT ![r] = context]
  /\ runs' = [runs EXCEPT ![r] = "queued"]

\* update_run in a closing transaction of a handler
SucceedRun(r) == runs' = [runs EXCEPT ![r] = "succeeded"]

-----------------------------------------------------------------------------
Init ==
  /\ activeCase = [c \in Conversations |-> None]
  /\ cases = [k \in Cases |-> AbsentCase]
  /\ proposals = [k \in Cases |-> [v \in Versions |-> AbsentProposal]]
  /\ actions = [k \in Cases |-> [v \in Versions |-> "absent"]]
  /\ tickets = {}
  /\ runs = [r \in Requests |-> "absent"]
  /\ lock = [c \in Conversations |-> None]
  /\ loop = None
  /\ pc = [r \in Requests |-> "idle"]
  /\ ctx = [r \in Requests |-> NoContext]
  /\ sourceTickets = {}
  /\ ticketRevision = 0
  /\ crashes = 0

-----------------------------------------------------------------------------
(***************************************************************************)
(* submit_message up to the Case                                           *)
(***************************************************************************)
\* A new report, or the reply a Case in AWAITING_CUSTOMER_INPUT asked for.
\* Any other open Case is refused with ACTIVE_CASE_REQUIRES_RESOLUTION.
SubmitMessage(r, c) ==
  LET k == activeCase[c]
      context == [NoContext EXCEPT !.conversation = c, !.case = k,
                    !.entry = IF k = None THEN "triage" ELSE "clarification"]
  IN /\ k # None => cases[k].state = "awaiting_customer_input"
     /\ Enter(r, context)
     /\ UNCHANGED <<rows, source, crashes>>

\* _start_run; triage and the investigation suspend, the other steps go on.
StartRun(r) ==
  /\ Running(r, "start_run")
  /\ runs' = [runs EXCEPT ![r] = "running"]
  /\ IF ctx[r].entry \in {"triage", "investigate"}
       THEN Await(r, ctx[r].entry)
       ELSE Goto(r, ctx[r].entry)
  /\ UNCHANGED <<rows, ctx, source, crashes>>

\* triage.classify answers; the decision is stored and the handler pauses.
Triage(r) ==
  /\ Resumed(r, "triage")
  /\ Await(r, "route")
  /\ UNCHANGED <<rows, runs, ctx, source, crashes>>

\* Variant: the error is raised without _fail_run.
TriageFailsUnreported(r) ==
  /\ Resumed(r, "triage")
  /\ Return(r)
  /\ UNCHANGED <<rows, runs, source, crashes>>

\* triage.classify raises: TRIAGE_PROVIDER_FAILURE.
TriageFails(r) ==
  /\ Resumed(r, "triage")
  /\ Goto(r, "fail_run")
  /\ UNCHANGED <<rows, runs, ctx, source, crashes>>

\* A standard reply, an entry clarification or a refusal.
CompleteWithoutCase(r) ==
  /\ Resumed(r, "route")
  /\ SucceedRun(r)
  /\ Return(r)
  /\ UNCHANGED <<rows, source, crashes>>

\* _create_and_investigate_case: a supported report opens a Case.  An
\* unclear partial delivery first asks for the package.
CreateCase(r, k, scope) ==
  /\ Resumed(r, "route")
  /\ cases[k].state = "absent"
  /\ cases' = [cases EXCEPT ![k] =
       [AbsentCase EXCEPT !.state = "investigating",
          !.conversation = ctx[r].conversation, !.scope = scope]]
  /\ activeCase' = [activeCase EXCEPT ![ctx[r].conversation] = k]
  /\ ctx' = [ctx EXCEPT ![r].case = k]
  /\ \/ Await(r, "investigate")
     \/ MayNeedTarget(scope) /\ Goto(r, "ask_target")
  /\ UNCHANGED <<proposals, actions, tickets, runs, source, crashes>>

-----------------------------------------------------------------------------
(***************************************************************************)
(* Business clarifications                                                 *)
(***************************************************************************)
\* _request_target_shipment_clarification; at the limit it closes the Case.
RequestTargetClarification(r) ==
  LET k == ctx[r].case IN
  /\ Running(r, "ask_target")
  /\ IF ClarificationsExhausted(k) THEN CloseCase(k, "human_support_required")
                                   ELSE AskCustomer(k, 1, cases[k].reception)
  /\ SucceedRun(r)
  /\ Return(r)
  /\ UNCHANGED <<proposals, actions, tickets, source, crashes>>

\* _continue_target_shipment_clarification when the limit is reached or the
\* reply names no package
AskTargetAgain(r) ==
  /\ Running(r, "clarification")
  /\ AwaitsTarget(cases[ctx[r].case])
  /\ Goto(r, "ask_target")
  /\ UNCHANGED <<rows, runs, ctx, source, crashes>>

\* _continue_target_shipment_clarification when the reply names a package
SelectTarget(r) ==
  LET k == ctx[r].case IN
  /\ Running(r, "clarification")
  /\ AwaitsTarget(cases[k])
  /\ ~ClarificationsExhausted(k)
  /\ \E p \in PackagesOf[cases[k].scope.order] :
       cases' = [cases EXCEPT ![k] =
         [@ EXCEPT !.state = "investigating", !.scope = [cases[k].scope EXCEPT !.target = p]]]
  /\ Await(r, "investigate")
  /\ UNCHANGED <<activeCase, proposals, actions, tickets, runs, ctx, source, crashes>>

\* _continue_business_clarification after two questions: the reply is not
\* merged and the Case goes to human support.
CloseAtClarificationLimit(r) ==
  LET k == ctx[r].case IN
  /\ Running(r, "clarification")
  /\ ~AwaitsTarget(cases[k])
  /\ ClarificationsExhausted(k)
  /\ CloseCase(k, "human_support_required")
  /\ SucceedRun(r)
  /\ Return(r)
  /\ UNCHANGED <<proposals, actions, tickets, source, crashes>>

\* _continue_business_clarification merges the reply and investigates; the
\* Case row stays AWAITING_CUSTOMER_INPUT meanwhile.
ResumeInvestigation(r) ==
  LET k == ctx[r].case IN
  /\ Running(r, "clarification")
  /\ ~AwaitsTarget(cases[k])
  /\ ~ClarificationsExhausted(k)
  /\ Await(r, "investigate")
  /\ UNCHANGED <<rows, runs, ctx, source, crashes>>

\* CaseFactIntegrityError while the reply is merged: only the Run fails.
RejectInconsistentFacts(r) ==
  LET k == ctx[r].case IN
  /\ Running(r, "clarification")
  /\ ~AwaitsTarget(cases[k])
  /\ ~ClarificationsExhausted(k)
  /\ Goto(r, "fail_run")
  /\ UNCHANGED <<rows, runs, ctx, source, crashes>>

-----------------------------------------------------------------------------
(***************************************************************************)
(* Investigation: the handler is suspended in `await investigate'; its     *)
(* tool calls read the ticket view, other handlers run meanwhile.          *)
(***************************************************************************)
\* get_existing_logistics_tickets, tagged with the source revision.  All rows
\* of the Run stay evidence, so that the oldest revision counts.
ReadExistingTickets(r) ==
  LET scope == cases[ctx[r].case].scope
      seen == [revision |-> IF ctx[r].seen = None THEN ticketRevision
                                                  ELSE ctx[r].seen.revision,
               active |-> \E t \in sourceTickets : Overlaps(scope, t)]
  IN /\ Resumed(r, "investigate")
     /\ ctx' = [ctx EXCEPT ![r].seen = seen]
     /\ UNCHANGED <<rows, runs, control, source, crashes>>

\* investigate raises: the Case waits for a retry and the Run fails.
InvestigationFails(r) ==
  /\ Resumed(r, "investigate")
  /\ MoveCase(ctx[r].case, "awaiting_retry")
  /\ Goto(r, "fail_run")
  /\ UNCHANGED <<proposals, actions, tickets, runs, ctx, source, crashes>>

\* The gate proposes or asks about the delivery only after a completed read
\* showed no active ticket for the scope the Case had then.
SawNoActiveTicket(r) == ctx[r].seen # None /\ ~ctx[r].seen.active

\* Whether _revalidate_gate, which rebuilds the signed-not-received evidence
\* without reception_locations_checked, proposes the ticket again: the gate then
\* asks about the reception once more.  Only a deployment with other fixtures
\* can have changed the proof since the question.
Reproposals(k) ==
  IF cases[k].scope.issue # SNR \/ cases[k].reception = None THEN {TRUE}
  ELSE IF cases[k].reception = crashes THEN {FALSE}
  ELSE BOOLEAN

\* _apply_investigation_result with PROPOSE_TICKET
ProposeTicket(r) ==
  LET k == ctx[r].case
      v == NextVersion(k)
      pending == ProposalsOf(k, "pending_confirmation")
      Offer(stands) ==
        [state |-> "pending_confirmation", evidence |-> ctx[r].seen.revision,
         stands |-> stands, process |-> crashes, expired |-> FALSE]
  IN /\ Resumed(r, "investigate")
     /\ SawNoActiveTicket(r)
     /\ v <= MaxProposals
     /\ \E stands \in Reproposals(k) : proposals' = [proposals EXCEPT ![k] =
          [w \in Versions |->
             IF w = v THEN Offer(stands)
             ELSE IF w \in pending THEN Settled("superseded")
             ELSE proposals[k][w]]]
     /\ cases' = [cases EXCEPT ![k] =
          [@ EXCEPT !.state = "awaiting_customer_confirmation", !.activeProposal = v]]
     /\ SucceedRun(r)
     /\ Return(r)
     /\ UNCHANGED <<activeCase, actions, tickets, source, crashes>>

\* REQUEST_BUSINESS_CLARIFICATION; record_question may find the question
\* already open, and then it is asked again without being counted.
RequestBusinessClarification(r) ==
  LET k == ctx[r].case IN
  /\ Resumed(r, "investigate")
  /\ SawNoActiveTicket(r)
  /\ cases[k].scope.issue = SNR
  /\ ~ClarificationsExhausted(k)
  /\ \E created \in {0, 1} : AskCustomer(k, created, crashes)
  /\ SucceedRun(r)
  /\ Return(r)
  /\ UNCHANGED <<proposals, actions, tickets, source, crashes>>

\* RETRY_LATER
RetryLater(r) ==
  /\ Resumed(r, "investigate")
  /\ MoveCase(ctx[r].case, "awaiting_retry")
  /\ SucceedRun(r)
  /\ Return(r)
  /\ UNCHANGED <<proposals, actions, tickets, source, crashes>>

\* _close_after_investigation: no action, or human support for a decision,
\* an exhausted question or a second issue revision
CloseAfterInvestigation(r) ==
  /\ Resumed(r, "investigate")
  /\ \E outcome \in {"resolved_no_action", "human_support_required"} :
       CloseCase(ctx[r].case, outcome)
  /\ SucceedRun(r)
  /\ Return(r)
  /\ UNCHANGED <<proposals, actions, tickets, source, crashes>>

\* Variant: the corrected issue may be corrected again.
ReviseIssueRepeatedly(r) ==
  LET k == ctx[r].case IN
  /\ Resumed(r, "investigate")
  /\ cases[k].scope.target # None
  /\ cases' = [cases EXCEPT ![k].scope.issue = IF @ = SNR THEN STALLED ELSE SNR]
  /\ UNCHANGED <<activeCase, proposals, actions, tickets, runs, control, ctx, source, crashes>>

\* _revise_issue_and_continue_investigation, at most once in a Run.  A
\* stalled report is corrected only for a selected, delivered package.  What
\* the Run has read stays, although it was read for the other issue.
ReviseIssue(r) ==
  LET k == ctx[r].case IN
  /\ Resumed(r, "investigate")
  /\ ctx[r].revisable
  /\ cases[k].scope.issue = STALLED => cases[k].scope.target # None
  /\ LET revised == IF cases[k].scope.issue = SNR THEN STALLED ELSE SNR IN
     cases' = [cases EXCEPT ![k] = [@ EXCEPT !.scope = [cases[k].scope EXCEPT !.issue = revised]]]
  /\ ctx' = [ctx EXCEPT ![r] = [@ EXCEPT !.revisable = FALSE]]
  /\ UNCHANGED <<activeCase, proposals, actions, tickets, runs, control, source, crashes>>

\* _fail_run, then the handler raises its ApplicationError.
FailRun(r) ==
  /\ Running(r, "fail_run")
  /\ runs' = [runs EXCEPT ![r] = "failed"]
  /\ Return(r)
  /\ UNCHANGED <<rows, source, crashes>>

-----------------------------------------------------------------------------
(***************************************************************************)
(* retry_case                                                              *)
(***************************************************************************)
\* CASE_NOT_RETRYABLE.  (Variant: only a running execution is refused.)
IsRetryableLoosely(k) == cases[k].state \notin {"absent", "executing_action"}
IsRetryable(k) == cases[k].state = "awaiting_retry"

\* Variant: a failed write is forgotten and the Case investigated anew.
ResumableForgotten(k) == {v \in Versions : FALSE}
Resumable(k) == ActionsOf(k, {"failed_retryable"})

\* ACTION_RETRY_UNSAFE, and ACTION_RETRY_CONFLICT, refuse the retry.
RetryIsSafe(k) ==
  /\ ActionsOf(k, {"submitted", "uncertain"}) = {}
  /\ Cardinality(Resumable(k)) <= 1

\* A retryable action is resumed as it is, otherwise the Case is
\* investigated again.
RetryCase(r, k) ==
  LET context == [NoContext EXCEPT !.conversation = cases[k].conversation, !.case = k]
  IN /\ IsRetryable(k)
     /\ RetryIsSafe(k)
     /\ \/ /\ Resumable(k) = {}
           /\ MoveCase(k, "investigating")
           /\ Enter(r, [context EXCEPT !.entry = "investigate"])
        \/ \E v \in Resumable(k) :
             /\ MoveCase(k, "executing_action")
             /\ Enter(r, [context EXCEPT !.entry = "submit", !.version = v])
     /\ UNCHANGED <<proposals, actions, tickets, source, crashes>>

-----------------------------------------------------------------------------
(***************************************************************************)
(* confirm_proposal and decline_proposal                                   *)
(***************************************************************************)
\* The client names a Proposal and the version it saw.
DecideProposal(r, k, v, asked, decision) ==
  LET context == [NoContext EXCEPT !.conversation = cases[k].conversation,
                    !.case = k, !.version = v, !.asked = asked, !.entry = decision]
  IN /\ proposals[k][v].state # "absent"
     /\ Enter(r, context)
     /\ UNCHANGED <<rows, source, crashes>>

\* _validate_pending_proposal, in the order of its checks
Validation(r) ==
  LET k == ctx[r].case
      v == ctx[r].version
      proposal == proposals[k][v]
  IN IF ctx[r].asked # v THEN "version_conflict"
     ELSE IF proposal.state # "pending_confirmation" THEN "not_pending"
     ELSE IF proposal.expired THEN "expired"
     ELSE IF \/ cases[k].state # "awaiting_customer_confirmation"
             \/ cases[k].activeProposal # v THEN "not_active"
     ELSE "valid"

\* Variant: the Case keeps pointing at the Proposal it settled.
SettleProposalOnly(k, v, state, caseState) ==
  /\ proposals' = [proposals EXCEPT ![k][v].state = state]
  /\ cases' = [cases EXCEPT ![k].state = caseState]

\* update_proposal_state: an inactive Proposal is no Case's active Proposal.
SettleProposal(k, v, state, caseState) ==
  /\ proposals' = [proposals EXCEPT ![k][v] = Settled(state)]
  /\ cases' = [cases EXCEPT ![k] = [@ EXCEPT !.state = caseState,
       !.activeProposal = IF cases[k].activeProposal = v THEN None
                          ELSE cases[k].activeProposal]]

Deciding(r) == Running(r, "confirmation") \/ Running(r, "decline")

RejectDecision(r) ==
  /\ Deciding(r)
  /\ Validation(r) \in {"version_conflict", "not_pending", "not_active"}
  /\ Goto(r, "fail_run")
  /\ UNCHANGED <<rows, runs, ctx, source, crashes>>

\* PROPOSAL_EXPIRED: the Case goes back to AWAITING_RETRY.
ExpireProposal(r) ==
  /\ Deciding(r)
  /\ Validation(r) = "expired"
  /\ SettleProposal(ctx[r].case, ctx[r].version, "expired", "awaiting_retry")
  /\ Goto(r, "fail_run")
  /\ UNCHANGED <<activeCase, actions, tickets, runs, ctx, source, crashes>>

HasActiveTicket(k) == \E t \in tickets : Overlaps(cases[k].scope, t)

\* ACTIVE_TICKET_ALREADY_EXISTS: the Proposal stays pending.
RejectDuplicate(r) ==
  /\ Running(r, "confirmation")
  /\ Validation(r) = "valid"
  /\ HasActiveTicket(ctx[r].case)
  /\ Goto(r, "fail_run")
  /\ UNCHANGED <<rows, runs, ctx, source, crashes>>

\* _revalidate_gate: every row still has the current revision (of the sources
\* only the tickets change while a process runs), ...
EvidenceCurrent(k, v) == proposals[k][v].evidence = ticketRevision

\* ... and the gate, run again on the rebuilt evidence, proposes the ticket.
Revalidated(k, v) == EvidenceCurrent(k, v) /\ proposals[k][v].stands

\* The policy binding, the fact identity, the snapshot hash and the revisions
\* of the other sources can differ only if the process was deployed anew with
\* another corpus or other fixtures since the Proposal was made.
MayBeRedeployed(k, v) == proposals[k][v].process # crashes

\* PROPOSAL_INVALIDATED
InvalidateProposal(r) ==
  LET k == ctx[r].case
      v == ctx[r].version
  IN /\ Running(r, "confirmation")
     /\ Validation(r) = "valid"
     /\ ~HasActiveTicket(k)
     /\ ~Revalidated(k, v) \/ MayBeRedeployed(k, v)
     /\ SettleProposal(k, v, "invalidated", "awaiting_retry")
     /\ Goto(r, "fail_run")
     /\ UNCHANGED <<activeCase, actions, tickets, runs, ctx, source, crashes>>

\* The confirmed Proposal gets its one READY action.
AcceptConfirmation(r) ==
  LET k == ctx[r].case
      v == ctx[r].version
  IN /\ Running(r, "confirmation")
     /\ Validation(r) = "valid"
     /\ ~HasActiveTicket(k)
     /\ Revalidated(k, v)
     /\ SettleProposal(k, v, "confirmed", "executing_action")
     /\ actions' = [actions EXCEPT ![k][v] = "ready"]
     /\ Goto(r, "submit")
     /\ UNCHANGED <<activeCase, tickets, runs, ctx, source, crashes>>

Decline(r) ==
  LET k == ctx[r].case
      v == ctx[r].version
  IN /\ Running(r, "decline")
     /\ Validation(r) = "valid"
     /\ proposals' = [proposals EXCEPT ![k][v] = Settled("declined")]
     /\ cases' = [cases EXCEPT ![k] = [@ EXCEPT !.state = "closed",
          !.outcome = "resolved_no_action", !.activeProposal = None, !.reception = None]]
     /\ activeCase' = [c \in Conversations |->
          IF activeCase[c] = k THEN None ELSE activeCase[c]]
     /\ SucceedRun(r)
     /\ Return(r)
     /\ UNCHANGED <<actions, tickets, source, crashes>>

-----------------------------------------------------------------------------
(***************************************************************************)
(* _submit_and_verify_ticket_action                                        *)
(***************************************************************************)
NewTicket(r) ==
  [case |-> ctx[r].case, version |-> ctx[r].version, scope |-> cases[ctx[r].case].scope]

\* update_action_state refuses any other move to SUBMITTED.
Submittable(k, v) == actions[k][v] \in {"ready", "failed_retryable", "submitted"}

\* The action and its ticket are written in one transaction.
SubmitAction(r) ==
  LET k == ctx[r].case
      v == ctx[r].version
  IN /\ Running(r, "submit")
     /\ Submittable(k, v)
     /\ ~ViolatesUniqueTicket(NewTicket(r))
     /\ actions' = [actions EXCEPT ![k][v] = "submitted"]
     /\ tickets' = tickets \cup {NewTicket(r)}
     /\ Goto(r, "read_back")
     /\ UNCHANGED <<activeCase, cases, proposals, runs, ctx, source, crashes>>

\* The unique index raises IntegrityError: the transaction is rolled back
\* and nothing catches the error, so neither the Run nor the Case moves.
SubmitConflicts(r) ==
  /\ Running(r, "submit")
  /\ Submittable(ctx[r].case, ctx[r].version)
  /\ ViolatesUniqueTicket(NewTicket(r))
  /\ Return(r)
  /\ UNCHANGED <<rows, runs, source, crashes>>

\* Variant: the ticket is written before the scripted fault is looked up.
SubmitFaultyActionAfterWrite(r) ==
  LET k == ctx[r].case
      v == ctx[r].version
  IN /\ Running(r, "submit")
     /\ Submittable(k, v)
     /\ actions' = [actions EXCEPT ![k][v] = "submitted"]
     /\ tickets' = tickets \cup {NewTicket(r)}
     /\ \E fault \in ActionFaults : ctx' = [ctx EXCEPT ![r].fault = fault]
     /\ Goto(r, "record_fault")
     /\ UNCHANGED <<activeCase, cases, proposals, runs, source, crashes>>

\* A scripted fault is consumed instead of writing the ticket.
SubmitFaultyAction(r) ==
  LET k == ctx[r].case
      v == ctx[r].version
  IN /\ Running(r, "submit")
     /\ Submittable(k, v)
     /\ actions' = [actions EXCEPT ![k][v] = "submitted"]
     /\ \E fault \in ActionFaults : ctx' = [ctx EXCEPT ![r].fault = fault]
     /\ Goto(r, "record_fault")
     /\ UNCHANGED <<activeCase, cases, proposals, tickets, runs, source, crashes>>

\* Variant: an uncertain write is treated like a retryable one.
RecordActionFaultOptimistically(r) ==
  LET k == ctx[r].case
      fault == ctx[r].fault
  IN /\ Running(r, "record_fault")
     /\ actions' = [actions EXCEPT ![k][ctx[r].version] = fault]
     /\ IF fault = "failed_terminal" THEN CloseCase(k, "failed")
                                     ELSE MoveCase(k, "awaiting_retry")
     /\ SucceedRun(r)
     /\ Return(r)
     /\ UNCHANGED <<proposals, tickets, source, crashes>>

\* Variant: the Case is left to whoever reconciles the write.
RecordActionFaultKeepingCase(r) ==
  /\ Running(r, "record_fault")
  /\ actions' = [actions EXCEPT ![ctx[r].case][ctx[r].version] = ctx[r].fault]
  /\ SucceedRun(r)
  /\ Return(r)
  /\ UNCHANGED <<activeCase, cases, proposals, tickets, source, crashes>>

\* _record_scripted_action_fault
RecordActionFault(r) ==
  LET k == ctx[r].case
      fault == ctx[r].fault
  IN /\ Running(r, "record_fault")
     /\ actions' = [actions EXCEPT ![k][ctx[r].version] = fault]
     /\ CASE fault = "failed_retryable" -> MoveCase(k, "awaiting_retry")
          [] fault = "failed_terminal"  -> CloseCase(k, "failed")
          [] fault = "uncertain"        -> CloseCase(k, "uncertain")
     /\ SucceedRun(r)
     /\ Return(r)
     /\ UNCHANGED <<proposals, tickets, source, crashes>>

\* The ticket becomes visible at the source and is read back by its
\* idempotency key; a missing ticket leaves the outcome uncertain.
ReadBackTicket(r) ==
  LET k == ctx[r].case
      v == ctx[r].version
      found == \E t \in tickets : t.case = k /\ t.version = v
  IN /\ Running(r, "read_back")
     /\ sourceTickets' = sourceTickets \cup {NewTicket(r)}
     /\ ticketRevision' = ticketRevision + (IF NewTicket(r) \in sourceTickets THEN 0 ELSE 1)
     /\ actions' = [actions EXCEPT ![k][v] = IF found THEN "succeeded" ELSE "uncertain"]
     /\ CloseCase(k, IF found THEN "ticket_created" ELSE "uncertain")
     /\ SucceedRun(r)
     /\ Return(r)
     /\ UNCHANGED <<proposals, tickets, crashes>>

-----------------------------------------------------------------------------
(***************************************************************************)
(* The clock and the process                                               *)
(***************************************************************************)
\* expires_at passes.  A handler compares it with one reading of the clock.
ExpiryPasses(k, v) ==
  /\ loop = None
  /\ proposals[k][v].state = "pending_confirmation"
  /\ ~proposals[k][v].expired
  /\ proposals' = [proposals EXCEPT ![k][v].expired = TRUE]
  /\ UNCHANGED <<activeCase, cases, actions, tickets, runs, control, ctx, source, crashes>>

\* Variant: startup does not load the persisted tickets.
CrashWithoutReload ==
  /\ crashes < MaxCrashes
  /\ crashes' = crashes + 1
  /\ pc' = [r \in Requests |-> "idle"]
  /\ loop' = None
  /\ lock' = [c \in Conversations |-> None]
  /\ ctx' = [r \in Requests |-> NoContext]
  /\ sourceTickets' = {}
  /\ ticketRevision' = 0
  /\ UNCHANGED <<rows, runs>>

\* The process stops between two transactions and starts again: requests,
\* locks and the ticket view are gone, load_persisted_tickets adds one
\* revision for each active ticket.
Crash ==
  /\ crashes < MaxCrashes
  /\ crashes' = crashes + 1
  /\ pc' = [r \in Requests |-> "idle"]
  /\ loop' = None
  /\ lock' = [c \in Conversations |-> None]
  /\ ctx' = [r \in Requests |-> NoContext]
  /\ sourceTickets' = tickets
  /\ ticketRevision' = Cardinality(tickets)
  /\ UNCHANGED <<rows, runs>>

-----------------------------------------------------------------------------
\* A request comes in and gets its Conversation.
Arrives(r) ==
  \/ \E c \in Conversations : SubmitMessage(r, c)
  \/ \E k \in Cases : RetryCase(r, k)
  \/ \E k \in Cases, v \in Versions, asked \in Versions :
       \/ DecideProposal(r, k, v, asked, "confirmation")
       \/ DecideProposal(r, k, v, asked, "decline")

\* A handler goes on; a tool read does not by itself bring it to its end.
Continues(r) ==
  \/ StartRun(r) \/ Triage(r) \/ TriageFails(r) \/ CompleteWithoutCase(r)
  \/ \E k \in Cases, scope \in EntryScopes : CreateCase(r, k, scope)
  \/ RequestTargetClarification(r) \/ AskTargetAgain(r) \/ SelectTarget(r)
  \/ CloseAtClarificationLimit(r) \/ ResumeInvestigation(r) \/ RejectInconsistentFacts(r)
  \/ InvestigationFails(r) \/ ProposeTicket(r) \/ RequestBusinessClarification(r)
  \/ RetryLater(r) \/ CloseAfterInvestigation(r) \/ ReviseIssue(r) \/ FailRun(r)
  \/ RejectDecision(r) \/ ExpireProposal(r) \/ RejectDuplicate(r)
  \/ InvalidateProposal(r) \/ AcceptConfirmation(r) \/ Decline(r)
  \/ SubmitAction(r) \/ SubmitConflicts(r) \/ SubmitFaultyAction(r)
  \/ RecordActionFault(r) \/ ReadBackTicket(r)

Next ==
  \/ \E r \in Requests : Arrives(r) \/ Continues(r) \/ ReadExistingTickets(r)
  \/ \E k \in Cases, v \in Versions : ExpiryPasses(k, v)
  \/ Crash

Spec == Init /\ [][Next]_vars

\* asyncio runs every ready callback in FIFO order and the providers time
\* out, so a handler that can be resumed again and again is resumed.
FairSpec == Spec /\ \A r \in Requests : SF_vars(Continues(r))

-----------------------------------------------------------------------------
(***************************************************************************)
(* Properties                                                              *)
(***************************************************************************)
CaseRows ==
  [state : CaseStates, outcome : CaseOutcomes \cup {None},
   conversation : Conversations \cup {None}, scope : Scopes \cup {None},
   clarifications : 0 .. MaxClarifications, activeProposal : Versions \cup {None},
   reception : 0 .. MaxCrashes \cup {None}]

ProposalRows ==
  [state : ProposalStates, evidence : Nat, stands : BOOLEAN,
   process : 0 .. MaxCrashes, expired : BOOLEAN]

Contexts ==
  [conversation : Conversations \cup {None}, case : Cases \cup {None}, entry : Steps,
   version : Versions \cup {None}, asked : Versions \cup {None},
   revisable : BOOLEAN, seen : Observations \cup {None},
   fault : ScriptableFaults \cup {None}]

\* Every row and local keeps the values its column or annotation allows; the
\* clarification budget of update_case (0..2) is among them.
TypeOK ==
  /\ activeCase \in [Conversations -> Cases \cup {None}]
  /\ cases \in [Cases -> CaseRows]
  /\ proposals \in [Cases -> [Versions -> ProposalRows]]
  /\ actions \in [Cases -> [Versions -> ActionStates]]
  /\ tickets \subseteq Tickets /\ IsFiniteSet(tickets)
  /\ runs \in [Requests -> RunStates]
  /\ lock \in [Conversations -> Requests \cup {None}]
  /\ loop \in Requests \cup {None}
  /\ pc \in [Requests -> Steps]
  /\ ctx \in [Requests -> Contexts]
  /\ sourceTickets \subseteq Tickets
  /\ ticketRevision \in Nat
  /\ crashes \in 0 .. MaxCrashes

\* A Conversation has at most one open Case, and it is the active one
\* (create_case itself does not look; submit_message does, under the lock).
OneOpenCase ==
  \A c \in Conversations :
    /\ activeCase[c] # None =>
         IsOpen(cases[activeCase[c]]) /\ cases[activeCase[c]].conversation = c
    /\ \A k \in Cases : IsOpen(cases[k]) /\ cases[k].conversation = c => activeCase[c] = k

\* A Proposal can be confirmed exactly while its Case waits for that
\* confirmation: at most one is pending, no Case waits for nothing, and none
\* survives the Case's move elsewhere (_apply_investigation_result,
\* confirm_proposal, decline_proposal).
PendingMeansAwaited ==
  \A k \in Cases :
    /\ cases[k].state = "awaiting_customer_confirmation" <=> cases[k].activeProposal # None
    /\ \A v \in Versions :
         proposals[k][v].state = "pending_confirmation" <=> cases[k].activeProposal = v

\* Across retries, new Proposals and restarts a Case executes one confirmed
\* Proposal: retry_case resumes the action it finds, it never starts another.
OneExecutionPerCase ==
  \A k \in Cases : \A v, w \in Versions :
    /\ actions[k][v] # "absent" => proposals[k][v].state = "confirmed"
    /\ actions[k][v] # "absent" /\ actions[k][w] # "absent" => v = w

\* The versions used are those below the next one: the highest plus one, as
\* _apply_investigation_result computes it, is the number of Proposals plus
\* one, and uq_action_proposals_case_version never refuses it.
VersionsAreCounted ==
  \A k \in Cases, v \in Versions : proposals[k][v].state # "absent" <=> v < NextVersion(k)

\* A Case that ends with or is executing a ticket action says the truth about
\* the ticket: TICKET_CREATED exactly with a verified one, and a ticket only
\* for its confirmed Proposal, with the scope the customer confirmed.
TicketsAreAccounted ==
  /\ \A t \in tickets :
       /\ actions[t.case][t.version] \in {"submitted", "succeeded"}
       /\ cases[t.case].state = "executing_action" \/ cases[t.case].outcome = "ticket_created"
       /\ cases[t.case].scope = t.scope
  /\ \A k \in Cases : cases[k].outcome = "ticket_created" =>
       \E t \in tickets : t.case = k /\ actions[k][t.version] = "succeeded"

\* A Case that may be retried never carries a write in doubt: the
\* ACTION_RETRY_UNSAFE and ACTION_RETRY_CONFLICT branches of retry_case
\* defend against states the service does not produce.
RetryFindsNoDoubt ==
  \A k \in Cases : cases[k].state = "awaiting_retry" => RetryIsSafe(k)

\* While no handler is between the ticket transaction and the read-back, the
\* ticket view investigations read is the persisted one, restarts included.
SourceShowsTickets ==
  (\A r \in Requests : pc[r] # "read_back") =>
    sourceTickets = tickets /\ ticketRevision = Cardinality(tickets)

\* The packages a ticket is about; without a target it is about all.
Covered(t) == IF t.scope.target = None THEN PackagesOf[t.scope.order] ELSE {t.scope.target}

\* No two active tickets for one issue of an order cover the same package
\* (the unique indexes of TicketRow only keep equal scopes apart).  It holds as
\* long as no write is resumed, see FirstWritesDoNotOverlap.
NoOverlappingTickets ==
  \A t, u \in tickets :
    t # u /\ t.scope.order = u.scope.order /\ t.scope.issue = u.scope.issue =>
      Covered(t) \cap Covered(u) = {}

\* No handler serves the Case's Conversation.
Unserved(k) == IsOpen(cases[k]) /\ lock[cases[k].conversation] = None

\* Some API call moves the Case on: a message, a decision or a retry.
HasMove(k) ==
  cases[k].state \in
    {"awaiting_customer_input", "awaiting_customer_confirmation", "awaiting_retry"}

\* An open Case whose Conversation no handler serves can be moved on by some
\* API call (the states every handler's error path aims at).
OpenCaseHasMove == \A k \in Cases : Unserved(k) => HasMove(k)

\* The Case is executing a write that failed retryably, and the unique index
\* refuses the resumed write because of a ticket of another Case.
WriteRefused(k) ==
  /\ cases[k].state = "executing_action"
  /\ \E v \in Versions :
       /\ actions[k][v] = "failed_retryable"
       /\ ViolatesUniqueTicket([case |-> k, version |-> v, scope |-> cases[k].scope])

\* As long as the process runs, whatever fails, an open Case that no handler
\* serves can be moved on by some API call, with one exception: a resumed write
\* that meets another Case's ticket (the IntegrityError that
\* _submit_and_verify_ticket_action does not catch) leaves it executing.
OnlyRefusedWritesStrand ==
  crashes = 0 => \A k \in Cases : Unserved(k) => HasMove(k) \/ WriteRefused(k)

-----------------------------------------------------------------------------
(***************************************************************************)
(* The inductive invariant behind the safety properties: what each row     *)
(* says by itself, and what a handler may rely on at each of its steps     *)
(* because it holds its Conversation's lock.                               *)
(***************************************************************************)
\* The step a handler is at, or goes to once its Run has started
Step(r) == IF pc[r] = "start_run" THEN ctx[r].entry ELSE pc[r]

ActionSteps == {"submit", "record_fault", "read_back"}
ProposalSteps == ActionSteps \cup {"confirmation", "decline"}
CaseSteps == ProposalSteps \cup {"ask_target", "clarification", "investigate"}

\* The states of its Case a handler can rely on
StatesAt(step) ==
  CASE step \in ActionSteps -> {"executing_action"}
    [] step = "clarification" -> {"awaiting_customer_input"}
    [] step \in {"ask_target", "investigate"} -> {"investigating", "awaiting_customer_input"}
    [] OTHER -> CaseStates

\* A Case row is either absent, and then nothing refers to it, or owned and
\* scoped.
CasesHaveOwners ==
  \A k \in Cases :
    IF cases[k].state = "absent"
      THEN cases[k].conversation = None /\ \A v \in Versions : proposals[k][v].state = "absent"
      ELSE cases[k].conversation \in Conversations /\ cases[k].scope \in Scopes

\* A handler holds its Conversation's lock, and works on a Case of that
\* Conversation which no one else moves.
HandlerKnowsItsCase(r) ==
  /\ pc[r] # "idle" => ctx[r].conversation \in Conversations /\ lock[ctx[r].conversation] = r
  /\ Step(r) \in {"triage", "route"} => activeCase[ctx[r].conversation] = None
  /\ Step(r) \in CaseSteps =>
       /\ ctx[r].case \in Cases
       /\ cases[ctx[r].case].conversation = ctx[r].conversation
       /\ cases[ctx[r].case].state \in StatesAt(Step(r))
  /\ Step(r) \in ProposalSteps => ctx[r].version \in Versions
  /\ Step(r) \in ActionSteps => actions[ctx[r].case][ctx[r].version] # "absent"
  /\ Step(r) = "record_fault" => ctx[r].fault \in ScriptableFaults

HandlersKnowTheirCase == \A r \in Requests : HandlerKnowsItsCase(r)

\* Every action belongs to the one confirmed Proposal of a Case that is
\* executing it, may resume it, or is over.
ActionsMatchCases ==
  /\ OneExecutionPerCase
  /\ \A k \in Cases, v \in Versions : actions[k][v] # "absent" =>
       \/ cases[k].state \in {"executing_action", "closed"}
       \/ cases[k].state = "awaiting_retry" /\ actions[k][v] = "failed_retryable"

CaseInv ==
  /\ TypeOK
  /\ CasesHaveOwners
  /\ HandlersKnowTheirCase
  /\ OneOpenCase
  /\ PendingMeansAwaited
  /\ ActionsMatchCases

-----------------------------------------------------------------------------
\* While a handler waits for its investigation nobody else writes the Case or
\* its Proposals: what _apply_investigation_result remembers is still so.
InvestigatedCaseIsStable ==
  [][\A r \in Requests :
       LET k == ctx[r].case IN
       pc[r] = "investigate" /\ pc'[r] = "investigate" /\ ctx'[r].revisable = ctx[r].revisable =>
         cases'[k] = cases[k] /\ proposals'[k] = proposals[k]]_vars

\* A closed Case stays as it is, and so do its Proposals and actions.
ClosedIsFinal ==
  [][\A k \in Cases : cases[k].state = "closed" =>
       cases'[k] = cases[k] /\ proposals'[k] = proposals[k] /\ actions'[k] = actions[k]]_vars

\* What a Case means to its customer
Stage(k) ==
  CASE cases[k].outcome = "ticket_created"         -> "fulfilled"
    [] cases[k].state = "closed" /\ cases[k].outcome # "ticket_created" -> "dropped"
    [] cases[k].state = "absent"                   -> "none"
    [] cases[k].state = "awaiting_customer_confirmation" -> "offered"
    [] OTHER -> IF \E v \in Versions : actions[k][v] # "absent" THEN "accepted" ELSE "open"

Promise == INSTANCE TicketPromise WITH
  stage <- [k \in Cases |-> Stage(k)],
  ticketed <- {t.case : t \in tickets}

\* Every step of the service is a step of the promise or none of its business.
KeepsPromise == Promise!Spec

\* A Proposal that the gate would make again in the process that made it is
\* invalidated only when the tickets its evidence is about changed: some ticket
\* overlaps its scope.
OnlyRelevantChangeInvalidates ==
  [][\A k \in Cases, v \in Versions :
       /\ proposals[k][v].state # "invalidated" /\ proposals'[k][v].state = "invalidated"
       /\ proposals[k][v].stands /\ ~MayBeRedeployed(k, v)
       => HasActiveTicket(k)]_vars

\* The executor submits an action only when no active ticket covers the
\* scope already (a ticket of this very action does not count).
SubmitsOnlyWithoutDuplicate ==
  [][\A k \in Cases, v \in Versions :
       actions[k][v] # "submitted" /\ actions'[k][v] = "submitted" =>
         \A t \in tickets : Overlaps(cases[k].scope, t) => t.case = k]_vars

\* The first write of a confirmed Proposal never overlaps a ticket there is:
\* between confirm_proposal's look for duplicates and the transaction of the
\* ticket no other handler runs.  (Covered knows what the unique indexes do not:
\* a ticket without a target covers every package.)
FirstWritesDoNotOverlap ==
  [][\A new \in tickets' \ tickets, t \in tickets :
       /\ actions[new.case][new.version] = "ready"
       /\ t.scope.order = new.scope.order /\ t.scope.issue = new.scope.issue
       => Covered(t) \cap Covered(new) = {}]_vars

\* A handler that returns or raises leaves its Run succeeded or failed on every
\* path (_fail_run, SucceedRun), with one exception: the unique index refuses a
\* resumed write, and the IntegrityError leaves the Run running.
RunsSettle ==
  [][\A r \in Requests :
       pc[r] # "idle" /\ pc'[r] = "idle" /\ crashes' = crashes =>
         \/ runs'[r] \in {"succeeded", "failed"}
         \/ /\ pc[r] = "submit"
            /\ actions[ctx[r].case][ctx[r].version] = "failed_retryable"
            /\ ViolatesUniqueTicket(NewTicket(r))]_vars

\* The moves update_proposal_state, update_action_state and update_run
\* accept, by the same tables as domain/transitions.py.  Only Submittable is
\* a guard of the model; the other moves are not guarded.
ProposalTransitions ==
  {"pending_confirmation"} \X {"confirmed", "declined", "superseded", "expired", "invalidated"}
ActionTransitions ==
  ({"ready", "failed_retryable"} \X {"submitted"})
    \cup ({"submitted"} \X ({"succeeded"} \cup ScriptableFaults))
RunTransitions ==
  ({"queued"} \X {"running", "failed"}) \cup ({"running"} \X {"succeeded", "failed"})

Allows(table, was, is) == is # was => <<was, is>> \in table

\* No handler ever dies of an InvalidStateTransitionError halfway, across
\* faults, retries and restarts: a row is inserted in its first state (a
\* Proposal under a version never used before) and every later write is one
\* its table allows.
FollowsTables ==
  [][/\ \A k \in Cases, v \in Versions :
          /\ Allows(ProposalTransitions \cup {<<"absent", "pending_confirmation">>},
                    proposals[k][v].state, proposals'[k][v].state)
          /\ Allows(ActionTransitions \cup {<<"absent", "ready">>},
                    actions[k][v], actions'[k][v])
     /\ \A r \in Requests :
          \/ Allows(RunTransitions, runs[r], runs'[r])
          \/ pc[r] = "idle" /\ runs'[r] = "queued"]_vars

\* Every request that got its Conversation comes to an end and releases it.
RequestsEnd == \A r \in Requests : pc[r] # "idle" ~> pc[r] = "idle"
====
