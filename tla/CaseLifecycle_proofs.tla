------------------------ MODULE CaseLifecycle_proofs ------------------------
(***************************************************************************)
(* CaseInv is an inductive invariant of CaseLifecycle, for any number of   *)
(* Conversations, Cases, requests, orders, Proposals and crashes.  Every   *)
(* action that moves a row is the step of a handler that holds the lock of *)
(* the row's Conversation, so it leaves the other handlers' Cases alone    *)
(* (OthersUndisturbed); what remains is the handler's own Case.  That a    *)
(* closed Case and the Case of an investigation are left alone follows.    *)
(***************************************************************************)
EXTENDS CaseLifecycle, TLAPS, FiniteSetTheorems

-----------------------------------------------------------------------------
(***************************************************************************)
(* Control                                                                 *)
(***************************************************************************)
\* The states of its Case a handler may rely on at each step.
LEMMA StepsAreDistinct ==
  /\ StatesAt("clarification") = {"awaiting_customer_input"}
  /\ StatesAt("ask_target") = {"investigating", "awaiting_customer_input"}
  /\ StatesAt("investigate") = {"investigating", "awaiting_customer_input"}
  /\ StatesAt("confirmation") = CaseStates
  /\ StatesAt("decline") = CaseStates
  /\ StatesAt("submit") = {"executing_action"}
  /\ StatesAt("record_fault") = {"executing_action"}
  /\ StatesAt("read_back") = {"executing_action"}
  BY DEF StatesAt, ActionSteps

\* A continuation keeps the types of the control state.
LEMMA MoveType ==
  ASSUME TypeOK, NEW r \in Requests, NEW step \in Steps,
         Goto(r, step) \/ Await(r, step)
  PROVE  /\ pc' \in [Requests -> Steps]
         /\ loop' \in Requests \cup {None}
         /\ lock' = lock
  BY DEF TypeOK, Goto, Await

\* A handler that returns keeps the types of the control state.
LEMMA ReturnType ==
  ASSUME TypeOK, NEW r \in Requests, Return(r)
  PROVE  /\ pc' \in [Requests -> Steps]
         /\ loop' \in Requests \cup {None}
         /\ lock' \in [Conversations -> Requests \cup {None}]
         /\ ctx' \in [Requests -> Contexts]
<1>1. NoContext \in Contexts BY DEF NoContext, Contexts, Steps
<1> QED BY <1>1 DEF TypeOK, Return, Steps

\* A request that enters keeps the types of the control state.
LEMMA EnterType ==
  ASSUME TypeOK, NEW r \in Requests, NEW context \in Contexts,
         context.conversation \in Conversations, Enter(r, context)
  PROVE  /\ pc' \in [Requests -> Steps]
         /\ loop' \in Requests \cup {None}
         /\ lock' \in [Conversations -> Requests \cup {None}]
         /\ ctx' \in [Requests -> Contexts]
         /\ runs' \in [Requests -> RunStates]
  BY DEF TypeOK, Enter, Steps, RunStates

\* What handler r does to Conversations it has not locked is nothing.
LEMMA OthersUndisturbed ==
  ASSUME CaseInv, NEW r \in Requests,
         \A q \in Requests \ {r} : pc'[q] = pc[q] /\ ctx'[q] = ctx[q],
         \A c \in Conversations : lock[c] \in Requests \ {r} =>
           lock'[c] = lock[c] /\ activeCase'[c] \in {activeCase[c], None},
         \A k \in Cases :
           cases[k].conversation \in Conversations /\ lock[cases[k].conversation] \in Requests \ {r} =>
             cases'[k] = cases[k] /\ actions'[k] = actions[k]
  PROVE  \A q \in Requests \ {r} : HandlerKnowsItsCase(q)'
<1> SUFFICES ASSUME NEW q \in Requests \ {r} PROVE HandlerKnowsItsCase(q)'
  OBVIOUS
<1>1. HandlerKnowsItsCase(q) BY DEF CaseInv, HandlersKnowTheirCase
<1>2. pc'[q] = pc[q] /\ ctx'[q] = ctx[q] /\ Step(q)' = Step(q) BY DEF Step
<1>3. CASE pc[q] = "idle"
  BY <1>2, <1>3 DEF HandlerKnowsItsCase, Step, CaseSteps, ProposalSteps, ActionSteps
<1>4. CASE pc[q] # "idle"
  <2>1. /\ ctx[q].conversation \in Conversations
        /\ lock[ctx[q].conversation] = q
    BY <1>1, <1>4 DEF HandlerKnowsItsCase
  <2>2. /\ lock'[ctx[q].conversation] = q
        /\ activeCase'[ctx[q].conversation] \in {activeCase[ctx[q].conversation], None}
    BY <2>1
  <2>3. ASSUME Step(q) \in CaseSteps
        PROVE  cases'[ctx[q].case] = cases[ctx[q].case] /\ actions'[ctx[q].case] = actions[ctx[q].case]
    BY <1>1, <2>1, <2>3 DEF HandlerKnowsItsCase
  <2>4. ActionSteps \subseteq CaseSteps BY DEF CaseSteps, ProposalSteps
  <2> QED BY <1>1, <1>2, <2>1, <2>2, <2>3, <2>4 DEF HandlerKnowsItsCase
<1> QED BY <1>3, <1>4

\* A handler that has returned relies on nothing.
LEMMA IdleKnowsNothing ==
  ASSUME NEW r \in Requests, pc'[r] = "idle" PROVE HandlerKnowsItsCase(r)'
  BY DEF HandlerKnowsItsCase, Step, CaseSteps, ProposalSteps, ActionSteps

\* What rests on the rows alone survives every step that leaves them alone.
LEMMA RowsUnchanged ==
  ASSUME CaseInv, UNCHANGED rows
  PROVE  CasesHaveOwners' /\ OneOpenCase' /\ PendingMeansAwaited' /\ ActionsMatchCases'
<1> USE DEF rows, CaseInv
<1>1. CasesHaveOwners' BY DEF CasesHaveOwners
<1>2. OneOpenCase' BY DEF OneOpenCase
<1>3. PendingMeansAwaited' BY DEF PendingMeansAwaited
<1>4. ActionsMatchCases' BY DEF ActionsMatchCases, OneExecutionPerCase
<1> QED BY <1>1, <1>2, <1>3, <1>4

-----------------------------------------------------------------------------
(***************************************************************************)
(* Actions that change no row                                              *)
(***************************************************************************)
\* A handler goes on without touching a row.
LEMMA MoveWithoutRows ==
  ASSUME CaseInv, NEW r \in Requests, NEW step \in Steps,
         Goto(r, step) \/ Await(r, step),
         UNCHANGED <<rows, ctx, source, crashes>>, runs' \in [Requests -> RunStates],
         HandlerKnowsItsCase(r)'
  PROVE  CaseInv'
<1>1. TypeOK BY DEF CaseInv
<1>2. TypeOK' BY <1>1, MoveType DEF TypeOK, rows, source
<1>3. HandlersKnowTheirCase'
  <2>1. \A q \in Requests \ {r} : pc'[q] = pc[q] BY <1>1 DEF TypeOK, Goto, Await
  <2>2. lock' = lock BY <1>1, MoveType
  <2>3. \A q \in Requests \ {r} : HandlerKnowsItsCase(q)'
    BY <2>1, <2>2, OthersUndisturbed DEF rows
  <2> QED BY <2>3 DEF HandlersKnowTheirCase
<1> QED BY <1>2, <1>3, RowsUnchanged DEF CaseInv

\* A handler ends without touching a row.
LEMMA ReturnWithoutRows ==
  ASSUME CaseInv, NEW r \in Requests, Return(r),
         UNCHANGED <<rows, source, crashes>>, runs' \in [Requests -> RunStates]
  PROVE  CaseInv'
<1>1. TypeOK BY DEF CaseInv
<1>2. TypeOK' BY <1>1, ReturnType DEF TypeOK, rows, source
<1>3. HandlersKnowTheirCase'
  <2>1. \A q \in Requests \ {r} : pc'[q] = pc[q] /\ ctx'[q] = ctx[q]
    BY <1>1 DEF TypeOK, Return
  <2>2. \A c \in Conversations : lock[c] \in Requests \ {r} => lock'[c] = lock[c]
    BY <1>1 DEF Return
  <2>3. \A q \in Requests \ {r} : HandlerKnowsItsCase(q)'
    BY <2>1, <2>2, OthersUndisturbed DEF rows
  <2>4. HandlerKnowsItsCase(r)' BY <1>1, IdleKnowsNothing DEF Return, TypeOK
  <2> QED BY <2>3, <2>4 DEF HandlersKnowTheirCase
<1> QED BY <1>2, <1>3, RowsUnchanged DEF CaseInv

\* A request takes its Conversation without touching a row.
LEMMA EnterWithoutRows ==
  ASSUME CaseInv, NEW r \in Requests, NEW context \in Contexts,
         context.conversation \in Conversations, Enter(r, context),
         UNCHANGED <<rows, source, crashes>>,
         HandlerKnowsItsCase(r)'
  PROVE  CaseInv'
<1>1. TypeOK BY DEF CaseInv
<1>2. TypeOK' BY <1>1, EnterType DEF TypeOK, rows, source
<1>3. HandlersKnowTheirCase'
  <2>1. \A q \in Requests \ {r} : pc'[q] = pc[q] /\ ctx'[q] = ctx[q]
    BY <1>1 DEF TypeOK, Enter
  <2>2. \A c \in Conversations : lock[c] \in Requests \ {r} => lock'[c] = lock[c]
    BY <1>1, ConstantsAssumption DEF Enter, TypeOK
  <2>3. \A q \in Requests \ {r} : HandlerKnowsItsCase(q)'
    BY <2>1, <2>2, OthersUndisturbed DEF rows
  <2> QED BY <2>3 DEF HandlersKnowTheirCase
<1> QED BY <1>2, <1>3, RowsUnchanged DEF CaseInv

\* submit_message relies on the active Case it found under the lock.
LEMMA SubmitMessageInv ==
  ASSUME CaseInv, NEW r \in Requests, NEW c \in Conversations, SubmitMessage(r, c)
  PROVE  CaseInv'
<1> DEFINE k == activeCase[c]
           context == [NoContext EXCEPT !.conversation = c, !.case = k,
                         !.entry = IF k = None THEN "triage" ELSE "clarification"]
<1>1. TypeOK /\ OneOpenCase BY DEF CaseInv
<1>2. context \in Contexts BY <1>1 DEF TypeOK, Contexts, NoContext, Steps
<1>3. Enter(r, context) /\ UNCHANGED <<rows, source, crashes>> BY DEF SubmitMessage
<1>4. HandlerKnowsItsCase(r)'
  <2>1. pc'[r] = "start_run" /\ ctx'[r] = context /\ lock'[c] = r /\ UNCHANGED rows
    BY <1>1, <1>3 DEF Enter, TypeOK, NoContext
  <2>2. Step(r)' = IF k = None THEN "triage" ELSE "clarification"
    BY <2>1 DEF Step, NoContext
  <2>3. context.conversation = c /\ context.case = k BY DEF NoContext
  <2>4. CASE k = None
    BY <2>1, <2>2, <2>3, <2>4
    DEF HandlerKnowsItsCase, rows, CaseSteps, ProposalSteps, ActionSteps
  <2>5. CASE k # None
    <3>1. k \in Cases /\ cases[k].conversation = c BY <1>1, <2>5 DEF TypeOK, OneOpenCase
    <3>2. cases[k].state = "awaiting_customer_input" BY <2>5 DEF SubmitMessage
    <3> QED
      BY <2>1, <2>2, <2>3, <2>5, <3>1, <3>2, StepsAreDistinct
      DEF HandlerKnowsItsCase, rows, CaseSteps, ProposalSteps, ActionSteps
  <2> QED BY <2>4, <2>5
<1> QED BY <1>2, <1>3, <1>4, EnterWithoutRows DEF NoContext

\* confirm_proposal and decline_proposal rely on an existing Proposal only.
LEMMA DecideProposalInv ==
  ASSUME CaseInv, NEW r \in Requests, NEW k \in Cases, NEW v \in Versions,
         NEW asked \in Versions, NEW decision \in {"confirmation", "decline"},
         DecideProposal(r, k, v, asked, decision)
  PROVE  CaseInv'
<1> DEFINE context == [NoContext EXCEPT !.conversation = cases[k].conversation,
                    !.case = k, !.version = v, !.asked = asked, !.entry = decision]
<1>1. TypeOK /\ CasesHaveOwners BY DEF CaseInv
<1>2. cases[k].conversation \in Conversations
  BY <1>1 DEF CasesHaveOwners, DecideProposal
<1>3. context \in Contexts BY <1>1, <1>2 DEF TypeOK, Contexts, NoContext, Steps
<1>4. Enter(r, context) /\ UNCHANGED <<rows, source, crashes>> BY DEF DecideProposal
<1>5. HandlerKnowsItsCase(r)'
  <2>1. /\ pc'[r] = "start_run" /\ ctx'[r] = context /\ UNCHANGED rows
        /\ lock'[cases[k].conversation] = r
    BY <1>1, <1>2, <1>4 DEF Enter, TypeOK, NoContext
  <2>2. Step(r)' = decision BY <2>1 DEF Step, NoContext
  <2>3. context.conversation = cases[k].conversation /\ context.case = k /\ context.version = v
    BY DEF NoContext
  <2>4. cases[k].state \in CaseStates BY <1>1 DEF TypeOK, CaseRows
  <2> QED
    BY <1>2, <2>1, <2>2, <2>3, <2>4, StepsAreDistinct
    DEF HandlerKnowsItsCase, rows, CaseSteps, ProposalSteps, ActionSteps
<1> QED BY <1>2, <1>3, <1>4, <1>5, EnterWithoutRows DEF NoContext

\* _start_run changes only the Run.
LEMMA StartRunInv == ASSUME CaseInv, NEW r \in Requests, StartRun(r) PROVE CaseInv'
<1>1. TypeOK /\ HandlerKnowsItsCase(r) BY DEF CaseInv, HandlersKnowTheirCase
<1>2. pc[r] = "start_run" BY DEF StartRun, Running
<1>3. ctx[r].entry \in Steps BY <1>1 DEF TypeOK, Contexts
<1>4. Goto(r, ctx[r].entry) \/ Await(r, ctx[r].entry) BY DEF StartRun
<1>5. runs' \in [Requests -> RunStates] BY <1>1 DEF StartRun, TypeOK, RunStates
<1>6. HandlerKnowsItsCase(r)'
  <2>1. pc'[r] = ctx[r].entry /\ lock' = lock BY <1>1, <1>4 DEF Goto, Await, TypeOK
  <2>2. UNCHANGED <<rows, ctx>> BY DEF StartRun
  <2>3. Step(r) = ctx[r].entry BY <1>2 DEF Step
  <2>4. Step(r)' = Step(r) BY <2>1, <2>2, <2>3 DEF Step
  <2> QED BY <1>1, <1>2, <2>1, <2>2, <2>4 DEF HandlerKnowsItsCase, rows
<1> QED BY <1>3, <1>4, <1>5, <1>6, MoveWithoutRows DEF StartRun

\* A handler that is about to fail only needs its lock.
LEMMA MoveToFailRun ==
  ASSUME CaseInv, NEW r \in Requests, pc[r] # "idle", Goto(r, "fail_run"),
         UNCHANGED <<rows, runs, ctx, source, crashes>>
  PROVE  CaseInv'
<1>1. TypeOK /\ HandlerKnowsItsCase(r) BY DEF CaseInv, HandlersKnowTheirCase
<1>2. pc'[r] = "fail_run" /\ lock' = lock BY <1>1 DEF Goto, TypeOK
<1>3. HandlerKnowsItsCase(r)'
  BY <1>1, <1>2 DEF HandlerKnowsItsCase, Step, CaseSteps, ProposalSteps, ActionSteps
<1>4. "fail_run" \in Steps /\ runs' \in [Requests -> RunStates] BY <1>1 DEF Steps, TypeOK
<1> QED BY <1>3, <1>4, MoveWithoutRows

\* Triage knows of no Case.
LEMMA TriageInv == ASSUME CaseInv, NEW r \in Requests, Triage(r) PROVE CaseInv'
<1>1. TypeOK /\ HandlerKnowsItsCase(r) BY DEF CaseInv, HandlersKnowTheirCase
<1>2. pc[r] = "triage" /\ pc'[r] = "route" /\ UNCHANGED <<lock, rows, ctx>>
  BY <1>1 DEF Triage, Resumed, Await, TypeOK
<1>3. HandlerKnowsItsCase(r)'
  BY <1>1, <1>2 DEF HandlerKnowsItsCase, Step, rows, CaseSteps, ProposalSteps, ActionSteps
<1>4. "route" \in Steps /\ runs' \in [Requests -> RunStates] BY <1>1 DEF Triage, Steps, TypeOK
<1> QED BY <1>3, <1>4, MoveWithoutRows DEF Triage

\* From a reply to the question about the package, or to the investigation
LEMMA ContinueClarificationInv ==
  ASSUME CaseInv, NEW r \in Requests, AskTargetAgain(r) \/ ResumeInvestigation(r)
  PROVE  CaseInv'
<1>1. TypeOK /\ HandlerKnowsItsCase(r) BY DEF CaseInv, HandlersKnowTheirCase
<1>2. PICK step \in {"ask_target", "investigate"} : Goto(r, step) \/ Await(r, step)
  BY DEF AskTargetAgain, ResumeInvestigation
<1>3. /\ pc[r] = "clarification" /\ pc'[r] = step
      /\ UNCHANGED <<lock, rows, runs, ctx, source, crashes>>
  BY <1>1, <1>2 DEF AskTargetAgain, ResumeInvestigation, Running, Goto, Await, TypeOK
<1>4. HandlerKnowsItsCase(r)'
  BY <1>1, <1>3, StepsAreDistinct
  DEF HandlerKnowsItsCase, Step, rows, CaseSteps, ProposalSteps, ActionSteps
<1>5. step \in Steps /\ runs' \in [Requests -> RunStates] BY <1>1, <1>3 DEF Steps, TypeOK
<1> QED BY <1>2, <1>3, <1>4, <1>5, MoveWithoutRows

\* A ticket read changes only what the investigation remembers.
LEMMA ReadExistingTicketsInv ==
  ASSUME CaseInv, NEW r \in Requests, ReadExistingTickets(r) PROVE CaseInv'
<1> DEFINE scope == cases[ctx[r].case].scope
           revision == IF ctx[r].seen = None THEN ticketRevision ELSE ctx[r].seen.revision
           seen == [revision |-> revision,
                    active |-> \E t \in sourceTickets : Overlaps(scope, t)]
<1>1. TypeOK /\ HandlersKnowTheirCase BY DEF CaseInv
<1>2. ctx' = [ctx EXCEPT ![r].seen = seen] /\ UNCHANGED <<rows, runs, control, source, crashes>>
  BY DEF ReadExistingTickets
<1>3. seen \in Observations
  <2>1. ctx[r].seen # None => ctx[r].seen \in Observations BY <1>1 DEF TypeOK, Contexts
  <2>2. revision \in Nat BY <1>1, <2>1 DEF TypeOK, Observations
  <2> HIDE DEF revision
  <2> QED BY <2>2 DEF Observations
<1>4. ctx' \in [Requests -> Contexts]
  <2> DEFINE new == [ctx[r] EXCEPT !.seen = seen]
  <2>1. new \in Contexts
    <3> HIDE DEF seen
    <3>1. ctx[r] \in Contexts BY <1>1 DEF TypeOK
    <3> QED BY <1>3, <3>1, SMTT(60) DEF Contexts
  <2>2. ctx' = [ctx EXCEPT ![r] = new] BY <1>2
  <2> HIDE DEF new
  <2> QED BY <1>1, <2>1, <2>2 DEF TypeOK
<1>5. TypeOK' BY <1>1, <1>2, <1>4 DEF TypeOK, rows, control, source
<1>6. HandlersKnowTheirCase'
  <2> SUFFICES ASSUME NEW q \in Requests PROVE HandlerKnowsItsCase(q)'
    BY DEF HandlersKnowTheirCase
  <2> HIDE DEF seen
  <2>1. /\ ctx'[q].conversation = ctx[q].conversation /\ ctx'[q].case = ctx[q].case
        /\ ctx'[q].version = ctx[q].version /\ ctx'[q].fault = ctx[q].fault
        /\ ctx'[q].entry = ctx[q].entry
    BY <1>1, <1>2 DEF TypeOK, Contexts
  <2>2. UNCHANGED <<pc, lock, activeCase, cases, actions>> BY <1>2 DEF rows, control
  <2>3. HandlerKnowsItsCase(q) /\ Step(q)' = Step(q)
    BY <1>1, <2>1, <2>2 DEF HandlersKnowTheirCase, Step
  <2> QED BY <2>1, <2>2, <2>3 DEF HandlerKnowsItsCase
<1> QED BY <1>2, <1>5, <1>6, RowsUnchanged DEF CaseInv

-----------------------------------------------------------------------------
(***************************************************************************)
(* Actions that change the rows of the handler's own Case                  *)
(***************************************************************************)
\* What PendingMeansAwaited and ActionsMatchCases say of one Case
Pending(k) ==
  /\ cases[k].state = "awaiting_customer_confirmation" <=> cases[k].activeProposal # None
  /\ \A v \in Versions :
       proposals[k][v].state = "pending_confirmation" <=> cases[k].activeProposal = v

Acted(k) ==
  /\ \A v, w \in Versions :
       /\ actions[k][v] # "absent" => proposals[k][v].state = "confirmed"
       /\ actions[k][v] # "absent" /\ actions[k][w] # "absent" => v = w
  /\ \A v \in Versions : actions[k][v] # "absent" =>
       \/ cases[k].state \in {"executing_action", "closed"}
       \/ cases[k].state = "awaiting_retry" /\ actions[k][v] = "failed_retryable"

\* The invariants about all Cases are invariants of each Case.
LEMMA CaseByCase ==
  /\ PendingMeansAwaited <=> \A k \in Cases : Pending(k)
  /\ ActionsMatchCases <=> \A k \in Cases : Acted(k)
  BY DEF PendingMeansAwaited, Pending, ActionsMatchCases, OneExecutionPerCase, Acted

\* The Case of one Conversation changes and no other.
LEMMA CaseChanges ==
  ASSUME CaseInv, NEW k \in Cases,
         \A j \in Cases \ {k} : /\ cases'[j] = cases[j]
                                /\ proposals'[j] = proposals[j]
                                /\ actions'[j] = actions[j],
         IsOpen(cases[k]),
         cases'[k].state # "absent",
         cases'[k].conversation = cases[k].conversation,
         cases'[k].scope \in Scopes,
         \/ activeCase' = activeCase /\ cases'[k].state # "closed"
         \/ /\ cases'[k].state = "closed"
            /\ activeCase' = [c \in Conversations |-> IF activeCase[c] = k THEN None ELSE activeCase[c]],
         Pending(k)', Acted(k)'
  PROVE  CasesHaveOwners' /\ OneOpenCase' /\ PendingMeansAwaited' /\ ActionsMatchCases'
<1> USE DEF CaseInv
<1>1. CasesHaveOwners'
  BY DEF CasesHaveOwners, IsOpen
<1>2. OneOpenCase'
  <2> SUFFICES ASSUME NEW c \in Conversations
               PROVE  /\ activeCase'[c] # None =>
                           IsOpen(cases'[activeCase'[c]]) /\ cases'[activeCase'[c]].conversation = c
                      /\ \A j \in Cases : IsOpen(cases'[j]) /\ cases'[j].conversation = c =>
                           activeCase'[c] = j
    BY DEF OneOpenCase, IsOpen
  <2>1. activeCase[c] # None =>
          /\ activeCase[c] \in Cases
          /\ IsOpen(cases[activeCase[c]]) /\ cases[activeCase[c]].conversation = c
    BY DEF OneOpenCase, TypeOK
  <2>2. ASSUME activeCase'[c] # None
        PROVE  IsOpen(cases'[activeCase'[c]]) /\ cases'[activeCase'[c]].conversation = c
    <3>1. activeCase'[c] = activeCase[c] BY <2>2
    <3>2. CASE activeCase[c] = k
      BY <2>1, <2>2, <3>1, <3>2 DEF IsOpen
    <3>3. CASE activeCase[c] # k
      BY <2>1, <2>2, <3>1, <3>3
    <3> QED BY <3>2, <3>3
  <2>3. ASSUME NEW j \in Cases, IsOpen(cases'[j]), cases'[j].conversation = c
        PROVE  activeCase'[c] = j
    <3>1. IsOpen(cases[j]) /\ cases[j].conversation = c BY <2>3
    <3>2. activeCase[c] = j BY <3>1 DEF OneOpenCase
    <3>3. CASE j = k BY <2>3, <3>2, <3>3 DEF IsOpen
    <3>4. CASE j # k BY <3>2, <3>4
    <3> QED BY <3>3, <3>4
  <2> QED BY <2>2, <2>3
<1>3. PendingMeansAwaited'
  <2>1. \A j \in Cases \ {k} : Pending(j)' BY DEF PendingMeansAwaited, Pending
  <2> QED BY <2>1 DEF PendingMeansAwaited, Pending
<1>4. ActionsMatchCases'
  <2>1. \A j \in Cases \ {k} : Acted(j)' BY DEF ActionsMatchCases, OneExecutionPerCase, Acted
  <2> QED BY <2>1 DEF ActionsMatchCases, OneExecutionPerCase, Acted
<1> QED BY <1>1, <1>2, <1>3, <1>4

\* What the handler of a Case may rely on
LEMMA OwnCase ==
  ASSUME CaseInv, NEW r \in Requests, Step(r) \in CaseSteps
  PROVE  /\ pc[r] # "idle"
         /\ ctx[r].conversation \in Conversations /\ lock[ctx[r].conversation] = r
         /\ ctx[r].case \in Cases
         /\ cases[ctx[r].case].conversation = ctx[r].conversation
         /\ cases[ctx[r].case].state # "absent"
         /\ cases[ctx[r].case].state \in StatesAt(Step(r))
         /\ cases[ctx[r].case].scope \in Scopes
         /\ Step(r) \in ProposalSteps => ctx[r].version \in Versions
         /\ Step(r) \in ActionSteps => actions[ctx[r].case][ctx[r].version] # "absent"
<1>1. HandlerKnowsItsCase(r) /\ CasesHaveOwners BY DEF CaseInv, HandlersKnowTheirCase
<1>2. pc[r] # "idle" BY DEF Step, CaseSteps, ProposalSteps, ActionSteps
<1>3. ctx[r].conversation # None BY <1>1, <1>2, ConstantsAssumption DEF HandlerKnowsItsCase
<1> QED BY <1>1, <1>2, <1>3 DEF HandlerKnowsItsCase, CasesHaveOwners

\* The handler r of Case k moves its Case: the others notice nothing.
LEMMA OwnCaseStep ==
  ASSUME CaseInv, NEW r \in Requests, NEW k \in Cases,
         Step(r) \in CaseSteps, ctx[r].case = k,
         \A q \in Requests \ {r} : pc'[q] = pc[q] /\ ctx'[q] = ctx[q],
         \A c \in Conversations : lock[c] \in Requests \ {r} => lock'[c] = lock[c],
         \A j \in Cases \ {k} : /\ cases'[j] = cases[j]
                                /\ proposals'[j] = proposals[j]
                                /\ actions'[j] = actions[j],
         IsOpen(cases[k]),
         cases'[k].state # "absent",
         cases'[k].conversation = cases[k].conversation,
         cases'[k].scope \in Scopes,
         \/ activeCase' = activeCase /\ cases'[k].state # "closed"
         \/ /\ cases'[k].state = "closed"
            /\ activeCase' = [c \in Conversations |-> IF activeCase[c] = k THEN None ELSE activeCase[c]],
         Pending(k)', Acted(k)', TypeOK', HandlerKnowsItsCase(r)'
  PROVE  CaseInv'
<1>1. /\ ctx[r].conversation \in Conversations
      /\ lock[ctx[r].conversation] = r /\ cases[k].conversation = ctx[r].conversation
  BY OwnCase
<1>2. \A j \in Cases :
        cases[j].conversation \in Conversations /\ lock[cases[j].conversation] \in Requests \ {r} =>
          cases'[j] = cases[j] /\ actions'[j] = actions[j]
  BY <1>1
<1>3. \A c \in Conversations : activeCase'[c] \in {activeCase[c], None} OBVIOUS
<1>4. \A q \in Requests \ {r} : HandlerKnowsItsCase(q)' BY <1>2, <1>3, OthersUndisturbed
<1>5. HandlersKnowTheirCase' BY <1>4 DEF HandlersKnowTheirCase
<1>6. CasesHaveOwners' /\ OneOpenCase' /\ PendingMeansAwaited' /\ ActionsMatchCases'
  BY CaseChanges
<1> QED BY <1>5, <1>6 DEF CaseInv

\* A returning handler leaves every other handler and its lock alone.
LEMMA ReturnFrame ==
  ASSUME TypeOK, NEW r \in Requests, Return(r)
  PROVE  /\ \A q \in Requests \ {r} : pc'[q] = pc[q] /\ ctx'[q] = ctx[q]
         /\ \A c \in Conversations : lock[c] \in Requests \ {r} => lock'[c] = lock[c]
         /\ HandlerKnowsItsCase(r)'
<1>1. pc'[r] = "idle" BY DEF Return, TypeOK
<1> QED BY <1>1, IdleKnowsNothing DEF Return, TypeOK

\* A handler that goes on leaves every other handler and every lock alone.
LEMMA MoveFrame ==
  ASSUME TypeOK, NEW r \in Requests, NEW step \in Steps \ {"start_run"},
         Goto(r, step) \/ Await(r, step)
  PROVE  /\ \A q \in Requests \ {r} : pc'[q] = pc[q]
         /\ lock' = lock
         /\ pc'[r] = step
         /\ Step(r)' = step
  BY DEF Goto, Await, TypeOK, Step

\* A succeeded Run is a Run.
LEMMA SucceedType ==
  ASSUME TypeOK, NEW r \in Requests, SucceedRun(r)
  PROVE  runs' \in [Requests -> RunStates]
  BY DEF TypeOK, SucceedRun, RunStates

\* A handler outside the executor sees no action in a Case it works on.
LEMMA NotActed ==
  ASSUME CaseInv, NEW k \in Cases,
         cases[k].state \in {"investigating", "awaiting_customer_input", "awaiting_customer_confirmation"}
  PROVE  \A v \in Versions : actions[k][v] = "absent"
  BY DEF CaseInv, ActionsMatchCases

\* Closing a Case changes its state, outcome and question and no other Case.
LEMMA CloseCaseType ==
  ASSUME TypeOK, NEW k \in Cases, NEW outcome \in CaseOutcomes, CloseCase(k, outcome)
  PROVE  /\ cases' \in [Cases -> CaseRows]
         /\ activeCase' \in [Conversations -> Cases \cup {None}]
         /\ \A j \in Cases \ {k} : cases'[j] = cases[j]
         /\ cases'[k].state = "closed"
         /\ cases'[k].conversation = cases[k].conversation
         /\ cases'[k].scope = cases[k].scope
         /\ cases'[k].activeProposal = cases[k].activeProposal
<1> DEFINE row == [cases[k] EXCEPT !.state = "closed", !.outcome = outcome, !.reception = None]
<1>1. cases' = [cases EXCEPT ![k] = row] BY DEF CloseCase, TypeOK
<1>2. /\ row \in CaseRows /\ row.state = "closed" /\ row.conversation = cases[k].conversation
      /\ row.scope = cases[k].scope /\ row.activeProposal = cases[k].activeProposal
  BY DEF TypeOK, CaseRows, CaseStates
<1> HIDE DEF row
<1>3. activeCase' \in [Conversations -> Cases \cup {None}] BY DEF CloseCase, TypeOK
<1> QED BY <1>1, <1>2, <1>3 DEF TypeOK

\* A Case that moves keeps everything but its state.
LEMMA MoveCaseType ==
  ASSUME TypeOK, NEW k \in Cases, NEW state \in CaseStates, MoveCase(k, state)
  PROVE  /\ cases' \in [Cases -> CaseRows]
         /\ activeCase' = activeCase
         /\ \A j \in Cases \ {k} : cases'[j] = cases[j]
         /\ cases'[k].state = state
         /\ cases'[k].conversation = cases[k].conversation
         /\ cases'[k].scope = cases[k].scope
         /\ cases'[k].activeProposal = cases[k].activeProposal
  BY ZenonT(150) DEF TypeOK, MoveCase, CaseRows, CaseStates

\* A handler that waits for nobody's confirmation closes its Case and ends.
LEMMA CloseAndReturn ==
  ASSUME CaseInv, NEW r \in Requests, NEW outcome \in CaseOutcomes,
         Step(r) \in {"ask_target", "clarification", "investigate"},
         CloseCase(ctx[r].case, outcome), SucceedRun(r), Return(r),
         UNCHANGED <<proposals, actions, tickets, source, crashes>>
  PROVE  CaseInv'
<1>0. PICK k \in Cases : k = ctx[r].case
  BY OwnCase DEF CaseSteps, RequestTargetClarification, Running, Step
<1>1. TypeOK /\ PendingMeansAwaited BY DEF CaseInv
<1>2. /\ Step(r) \in CaseSteps /\ cases[k].scope \in Scopes
      /\ cases[k].state \in {"investigating", "awaiting_customer_input"}
  BY <1>0, OwnCase, StepsAreDistinct DEF CaseSteps
<1>3. TypeOK' BY <1>0, <1>1, <1>2, CloseCaseType, ReturnType, SucceedType DEF TypeOK, source
<1>4. Pending(k)' BY <1>0, <1>1, <1>2, CloseCaseType DEF PendingMeansAwaited, Pending
<1>5. Acted(k)' BY <1>0, <1>1, <1>2, NotActed, CloseCaseType DEF Acted
<1>6. IsOpen(cases[k]) BY <1>2 DEF IsOpen
<1> QED
  BY <1>0, <1>1, <1>2, <1>3, <1>4, <1>5, <1>6, CloseCaseType, ReturnFrame, OwnCaseStep, ZenonT(150) DEF CloseCase

\* A handler writes its Case's row, keeping who owns it and what it is about.
LEMMA UpdateCase ==
  ASSUME TypeOK, NEW k \in Cases, NEW row \in CaseRows, cases' = [cases EXCEPT ![k] = row]
  PROVE  /\ cases' \in [Cases -> CaseRows]
         /\ cases'[k] = row
         /\ \A j \in Cases \ {k} : cases'[j] = cases[j]
  BY DEF TypeOK

\* The Case waits for its customer or for a retry, and the handler ends.
LEMMA SuspendAndReturn ==
  ASSUME CaseInv, NEW r \in Requests, NEW k \in Cases, ctx[r].case = k,
         Step(r) \in {"ask_target", "clarification", "investigate"},
         NEW row \in CaseRows, cases' = [cases EXCEPT ![k] = row],
         row.state \in {"awaiting_customer_input", "awaiting_retry"},
         row.conversation = cases[k].conversation, row.scope = cases[k].scope,
         row.activeProposal = cases[k].activeProposal,
         UNCHANGED <<activeCase, proposals, actions, tickets, source, crashes>>,
         SucceedRun(r), Return(r)
  PROVE  CaseInv'
<1>1. TypeOK /\ PendingMeansAwaited BY DEF CaseInv
<1>2. /\ Step(r) \in CaseSteps /\ cases[k].scope \in Scopes
      /\ cases[k].state \in {"investigating", "awaiting_customer_input"}
  BY OwnCase, StepsAreDistinct DEF CaseSteps
<1>3. TypeOK' BY <1>1, UpdateCase, ReturnType, SucceedType DEF TypeOK, source
<1>4. Pending(k)' BY <1>1, <1>2, UpdateCase DEF PendingMeansAwaited, Pending
<1>5. Acted(k)' BY <1>2, NotActed DEF Acted
<1> QED
  BY <1>1, <1>2, <1>3, <1>4, <1>5, UpdateCase, ReturnFrame, OwnCaseStep DEF IsOpen

\* The clarification budget has room for one more question.
LEMMA AskCustomerRow ==
  ASSUME TypeOK, NEW k \in Cases, NEW created \in {0, 1},
         NEW reception \in 0 .. MaxCrashes \cup {None},
         ~ClarificationsExhausted(k), AskCustomer(k, created, reception)
  PROVE  \E row \in CaseRows :
           /\ cases' = [cases EXCEPT ![k] = row]
           /\ row.state = "awaiting_customer_input"
           /\ row.conversation = cases[k].conversation /\ row.scope = cases[k].scope
           /\ row.activeProposal = cases[k].activeProposal
<1> DEFINE count == cases[k].clarifications + created
           row == [cases[k] EXCEPT !.state = "awaiting_customer_input",
                                   !.clarifications = count, !.reception = reception]
<1>1. cases' = [cases EXCEPT ![k] = row] BY DEF AskCustomer, TypeOK
<1>2. count \in 0 .. MaxClarifications
  <2> DEFINE asked == cases[k].clarifications
  <2>1. asked \in 0 .. MaxClarifications BY DEF TypeOK, CaseRows
  <2>2. ~(asked >= MaxClarifications) BY DEF ClarificationsExhausted
  <2>3. created \in {0, 1} OBVIOUS
  <2> HIDE DEF asked
  <2>4. asked + created \in 0 .. MaxClarifications
    BY ONLY <2>1, <2>2, <2>3 DEF MaxClarifications
  <2> QED BY <2>4 DEF asked
<1>3. /\ row \in CaseRows /\ row.state = "awaiting_customer_input"
      /\ row.conversation = cases[k].conversation /\ row.scope = cases[k].scope
      /\ row.activeProposal = cases[k].activeProposal
  <2> HIDE DEF count
  <2> QED BY <1>2, ZenonT(150) DEF TypeOK, CaseRows, CaseStates
<1> HIDE DEF row
<1> QED BY <1>1, <1>3

\* _request_target_shipment_clarification asks or closes the Case.
LEMMA RequestTargetClarificationInv ==
  ASSUME CaseInv, NEW r \in Requests, RequestTargetClarification(r) PROVE CaseInv'
<1>1. TypeOK BY DEF CaseInv
<1>2. Step(r) = "ask_target" BY DEF RequestTargetClarification, Running, Step
<1>3. PICK k \in Cases : k = ctx[r].case BY <1>2, OwnCase DEF CaseSteps
<1>4. CASE ClarificationsExhausted(k)
  BY <1>2, <1>3, <1>4, CloseAndReturn DEF RequestTargetClarification, CaseOutcomes
<1>5. CASE ~ClarificationsExhausted(k)
  <2>1. AskCustomer(k, 1, cases[k].reception) BY <1>3, <1>5 DEF RequestTargetClarification
  <2>2. UNCHANGED activeCase BY <2>1 DEF AskCustomer
  <2>3. cases[k].reception \in 0 .. MaxCrashes \cup {None} BY <1>1 DEF TypeOK, CaseRows
  <2> QED
    BY <1>1, <1>2, <1>3, <1>5, <2>1, <2>2, <2>3, AskCustomerRow, SuspendAndReturn
    DEF RequestTargetClarification
<1> QED BY <1>4, <1>5

\* The investigation's question leaves no Proposal behind.
LEMMA RequestBusinessClarificationInv ==
  ASSUME CaseInv, NEW r \in Requests, RequestBusinessClarification(r) PROVE CaseInv'
<1>1. TypeOK BY DEF CaseInv
<1>2. Step(r) = "investigate" BY DEF RequestBusinessClarification, Resumed, Step
<1>3. PICK k \in Cases : k = ctx[r].case BY <1>2, OwnCase DEF CaseSteps
<1>4. PICK created \in {0, 1} : AskCustomer(k, created, crashes)
  BY <1>3 DEF RequestBusinessClarification
<1>5. ~ClarificationsExhausted(k) /\ UNCHANGED activeCase
  BY <1>3, <1>4 DEF RequestBusinessClarification, AskCustomer
<1>6. crashes \in 0 .. MaxCrashes \cup {None} BY <1>1 DEF TypeOK
<1> QED
  BY <1>1, <1>2, <1>3, <1>4, <1>5, <1>6, AskCustomerRow, SuspendAndReturn
  DEF RequestBusinessClarification

\* RETRY_LATER suspends the Case.
LEMMA RetryLaterInv == ASSUME CaseInv, NEW r \in Requests, RetryLater(r) PROVE CaseInv'
<1>1. TypeOK BY DEF CaseInv
<1>2. Step(r) = "investigate" BY DEF RetryLater, Resumed, Step
<1>3. PICK k \in Cases : k = ctx[r].case BY <1>2, OwnCase DEF CaseSteps
<1> DEFINE row == [cases[k] EXCEPT !.state = "awaiting_retry"]
<1>4. cases' = [cases EXCEPT ![k] = row] /\ UNCHANGED activeCase
  BY <1>1, <1>3 DEF RetryLater, MoveCase, TypeOK
<1>5. /\ row \in CaseRows /\ row.state = "awaiting_retry"
      /\ row.conversation = cases[k].conversation /\ row.scope = cases[k].scope
      /\ row.activeProposal = cases[k].activeProposal
  BY <1>1 DEF TypeOK, CaseRows, CaseStates
<1> HIDE DEF row
<1> QED BY <1>2, <1>3, <1>4, <1>5, SuspendAndReturn DEF RetryLater

\* The ends of an investigation, and of the clarifications, that close the Case.
LEMMA CloseCaseInv ==
  ASSUME CaseInv, NEW r \in Requests, CloseAtClarificationLimit(r) \/ CloseAfterInvestigation(r)
  PROVE  CaseInv'
<1>1. Step(r) \in {"clarification", "investigate"}
  BY DEF CloseAtClarificationLimit, CloseAfterInvestigation, Running, Resumed, Step
<1> QED BY <1>1, CloseAndReturn DEF CloseAtClarificationLimit, CloseAfterInvestigation, CaseOutcomes

\* A failed investigation suspends the Case before the Run fails.
LEMMA InvestigationFailsInv ==
  ASSUME CaseInv, NEW r \in Requests, InvestigationFails(r) PROVE CaseInv'
<1>1. TypeOK /\ PendingMeansAwaited BY DEF CaseInv
<1>2. Step(r) = "investigate" BY DEF InvestigationFails, Resumed, Step
<1>3. PICK k \in Cases : k = ctx[r].case BY <1>2, OwnCase DEF CaseSteps
<1>4. /\ Step(r) \in CaseSteps /\ pc[r] # "idle" /\ cases[k].scope \in Scopes
      /\ ctx[r].conversation \in Conversations /\ lock[ctx[r].conversation] = r
      /\ cases[k].state \in {"investigating", "awaiting_customer_input"}
  BY <1>2, <1>3, OwnCase, StepsAreDistinct DEF CaseSteps
<1>5. MoveCase(k, "awaiting_retry") /\ UNCHANGED <<proposals, actions, tickets, runs, ctx, source, crashes>>
  BY <1>3 DEF InvestigationFails
<1>6. "awaiting_retry" \in CaseStates /\ "fail_run" \in Steps \ {"start_run"} BY DEF CaseStates, Steps
<1>7. Goto(r, "fail_run") BY DEF InvestigationFails
<1>8. TypeOK'
  BY <1>1, <1>3, <1>5, <1>6, <1>7, MoveCaseType, MoveType DEF TypeOK, source
<1>9. HandlerKnowsItsCase(r)'
  BY <1>1, <1>4, <1>5, <1>6, <1>7, MoveFrame
  DEF HandlerKnowsItsCase, CaseSteps, ProposalSteps, ActionSteps
<1>10. Pending(k)' BY <1>1, <1>4, <1>5, <1>6, MoveCaseType DEF PendingMeansAwaited, Pending
<1>11. Acted(k)' BY <1>4, <1>5, NotActed DEF Acted
<1> QED
  BY <1>1, <1>3, <1>4, <1>5, <1>6, <1>7, <1>8, <1>9, <1>10, <1>11,
     MoveCaseType, MoveFrame, OwnCaseStep DEF IsOpen

\* A handler that is investigating goes on with a new scope.
LEMMA RescopeAndInvestigate ==
  ASSUME CaseInv, NEW r \in Requests, NEW k \in Cases, ctx[r].case = k,
         Step(r) \in {"clarification", "investigate"},
         NEW row \in CaseRows, cases' = [cases EXCEPT ![k] = row],
         row.state \in {"investigating", "awaiting_customer_input"}, row.scope \in Scopes,
         row.conversation = cases[k].conversation, row.activeProposal = cases[k].activeProposal,
         UNCHANGED <<activeCase, proposals, actions, tickets, runs, source, crashes>>,
         UNCHANGED lock, loop' \in Requests \cup {None},
         pc' = [pc EXCEPT ![r] = "investigate"],
         ctx' \in [Requests -> Contexts],
         \A q \in Requests \ {r} : ctx'[q] = ctx[q],
         ctx'[r].case = k, ctx'[r].conversation = ctx[r].conversation
  PROVE  CaseInv'
<1>1. TypeOK /\ PendingMeansAwaited BY DEF CaseInv
<1>2. /\ Step(r) \in CaseSteps /\ cases[k].scope \in Scopes /\ pc[r] # "idle"
      /\ ctx[r].conversation \in Conversations /\ lock[ctx[r].conversation] = r
      /\ cases[k].conversation = ctx[r].conversation
      /\ cases[k].state \in {"investigating", "awaiting_customer_input"}
  BY OwnCase, StepsAreDistinct DEF CaseSteps
<1>3. TypeOK' BY <1>1, UpdateCase DEF TypeOK, source, Steps
<1>4. pc'[r] = "investigate" /\ \A q \in Requests \ {r} : pc'[q] = pc[q] BY <1>1 DEF TypeOK
<1>5. HandlerKnowsItsCase(r)'
  BY <1>1, <1>2, <1>4, UpdateCase, StepsAreDistinct
  DEF HandlerKnowsItsCase, Step, CaseSteps, ProposalSteps, ActionSteps
<1>6. Pending(k)' BY <1>1, <1>2, UpdateCase DEF PendingMeansAwaited, Pending
<1>7. Acted(k)' BY <1>2, NotActed DEF Acted
<1> QED
  BY <1>1, <1>2, <1>3, <1>4, <1>5, <1>6, <1>7, UpdateCase, OwnCaseStep DEF IsOpen

\* The selected package becomes part of the scope of an unproposed Case.
LEMMA SelectTargetInv ==
  ASSUME CaseInv, NEW r \in Requests, SelectTarget(r) PROVE CaseInv'
<1>1. TypeOK BY DEF CaseInv
<1>2. Step(r) = "clarification" BY DEF SelectTarget, Running, Step
<1>3. PICK k \in Cases : k = ctx[r].case BY <1>2, OwnCase DEF CaseSteps
<1>4. cases[k].scope \in Scopes BY <1>2, <1>3, OwnCase DEF CaseSteps
<1>5. PICK p \in PackagesOf[cases[k].scope.order] : cases' = [cases EXCEPT ![k] =
        [@ EXCEPT !.state = "investigating", !.scope = [cases[k].scope EXCEPT !.target = p]]]
  BY <1>3 DEF SelectTarget
<1> DEFINE scope == [cases[k].scope EXCEPT !.target = p]
           row == [cases[k] EXCEPT !.state = "investigating", !.scope = scope]
<1>6. scope \in Scopes BY <1>4, <1>5 DEF Scopes, Packages
<1>7. cases' = [cases EXCEPT ![k] = row] BY <1>1, <1>5 DEF TypeOK
<1>8. /\ row \in CaseRows /\ row.state = "investigating" /\ row.scope \in Scopes
      /\ row.conversation = cases[k].conversation /\ row.activeProposal = cases[k].activeProposal
  <2> HIDE DEF scope
  <2> QED BY <1>1, <1>6 DEF TypeOK, CaseRows, CaseStates
<1> HIDE DEF row, scope
<1>9. /\ UNCHANGED <<activeCase, proposals, actions, tickets, runs, ctx, source, crashes, lock>>
      /\ loop' = None /\ pc' = [pc EXCEPT ![r] = "investigate"]
  BY DEF SelectTarget, Await
<1> QED BY <1>1, <1>2, <1>3, <1>7, <1>8, <1>9, RescopeAndInvestigate DEF TypeOK

\* The corrected issue becomes part of the scope of an unproposed Case.
LEMMA ReviseIssueInv ==
  ASSUME CaseInv, NEW r \in Requests, ReviseIssue(r) PROVE CaseInv'
<1>1. TypeOK BY DEF CaseInv
<1>2. Step(r) = "investigate" /\ pc[r] = "investigate" BY DEF ReviseIssue, Resumed, Step
<1>3. PICK k \in Cases : k = ctx[r].case BY <1>2, OwnCase DEF CaseSteps
<1>4. /\ cases[k].scope \in Scopes
      /\ cases[k].state \in {"investigating", "awaiting_customer_input"}
  BY <1>2, <1>3, OwnCase, StepsAreDistinct DEF CaseSteps
<1> DEFINE revised == IF cases[k].scope.issue = SNR THEN STALLED ELSE SNR
           scope == [cases[k].scope EXCEPT !.issue = revised]
           row == [cases[k] EXCEPT !.scope = scope]
           context == [ctx[r] EXCEPT !.revisable = FALSE]
<1>5. scope \in Scopes BY <1>4 DEF Scopes
<1>6. cases' = [cases EXCEPT ![k] = row] BY <1>1, <1>3 DEF ReviseIssue, TypeOK
<1>7. /\ row \in CaseRows /\ row.state = cases[k].state /\ row.scope \in Scopes
      /\ row.conversation = cases[k].conversation /\ row.activeProposal = cases[k].activeProposal
  <2> HIDE DEF scope
  <2> QED BY <1>1, <1>5 DEF TypeOK, CaseRows
<1>8. /\ context \in Contexts /\ context.case = ctx[r].case
      /\ context.conversation = ctx[r].conversation
  BY <1>1 DEF TypeOK, Contexts
<1>9. ctx' = [ctx EXCEPT ![r] = context] BY <1>1 DEF ReviseIssue, TypeOK
<1> HIDE DEF row, scope, context
<1>10. /\ UNCHANGED <<activeCase, proposals, actions, tickets, runs, lock, loop, pc, source, crashes>>
       /\ pc' = [pc EXCEPT ![r] = "investigate"]
  BY <1>1, <1>2 DEF ReviseIssue, control, TypeOK
<1>11. /\ ctx' \in [Requests -> Contexts] /\ ctx'[r] = context
       /\ \A q \in Requests \ {r} : ctx'[q] = ctx[q]
  BY <1>1, <1>8, <1>9 DEF TypeOK
<1> QED
  BY <1>1, <1>2, <1>3, <1>4, <1>6, <1>7, <1>8, <1>10, <1>11, RescopeAndInvestigate DEF TypeOK

\* The new Case was nobody's before.
LEMMA CreateCaseInv ==
  ASSUME CaseInv, NEW r \in Requests, NEW k \in Cases, NEW scope \in EntryScopes,
         CreateCase(r, k, scope)
  PROVE  CaseInv'
<1> DEFINE row == [AbsentCase EXCEPT !.state = "investigating",
                     !.conversation = ctx[r].conversation, !.scope = scope]
<1>1. TypeOK /\ HandlerKnowsItsCase(r) /\ CasesHaveOwners /\ OneOpenCase
  BY DEF CaseInv, HandlersKnowTheirCase
<1>2. PICK c \in Conversations : c = ctx[r].conversation
  BY <1>1 DEF HandlerKnowsItsCase, CreateCase, Resumed
<1>3. pc[r] = "route" /\ lock[c] = r /\ activeCase[c] = None
  BY <1>1, <1>2 DEF HandlerKnowsItsCase, CreateCase, Resumed, Step
<1>4. /\ row \in CaseRows /\ row.state = "investigating" /\ row.conversation = c
      /\ row.scope \in Scopes /\ row.activeProposal = None
  <2>1. scope \in Scopes BY DEF EntryScopes
  <2>2. AbsentCase \in CaseRows /\ AbsentCase.activeProposal = None
    BY DEF AbsentCase, CaseRows, CaseStates, MaxClarifications
  <2> QED BY <1>2, <2>1, <2>2 DEF CaseRows, CaseStates
<1>5. cases' = [cases EXCEPT ![k] = row] BY DEF CreateCase
<1> HIDE DEF row
<1>6. /\ cases' \in [Cases -> CaseRows] /\ cases'[k] = row
      /\ \A j \in Cases \ {k} : cases'[j] = cases[j]
  BY <1>1, <1>4, <1>5, UpdateCase
<1>7. /\ activeCase' \in [Conversations -> Cases \cup {None}] /\ activeCase'[c] = k
      /\ \A d \in Conversations \ {c} : activeCase'[d] = activeCase[d]
  BY <1>1, <1>2 DEF CreateCase, TypeOK
<1>8. ctx' \in [Requests -> Contexts] /\ ctx'[r].case = k /\ ctx'[r].conversation = c
      /\ \A q \in Requests \ {r} : ctx'[q] = ctx[q]
  BY <1>1, <1>2, ZenonT(150) DEF CreateCase, TypeOK, Contexts
<1>9. PICK step \in {"investigate", "ask_target"} : Goto(r, step) \/ Await(r, step)
  BY DEF CreateCase
<1>10. step \in Steps \ {"start_run"} BY <1>9 DEF Steps
<1>11. UNCHANGED <<proposals, actions, tickets, runs, source, crashes>> BY DEF CreateCase
<1>12. cases[k].state = "absent" /\ cases[k].conversation = None
  BY <1>1 DEF CreateCase, CasesHaveOwners
<1>13. TypeOK' BY <1>1, <1>6, <1>7, <1>8, <1>9, <1>10, <1>11, MoveType DEF TypeOK, source
<1>14. CasesHaveOwners' BY <1>1, <1>4, <1>6, <1>11 DEF CasesHaveOwners
<1>15. HandlersKnowTheirCase'
  <2>1. /\ \A q \in Requests \ {r} : pc'[q] = pc[q]
        /\ lock' = lock /\ pc'[r] = step /\ Step(r)' = step
    BY <1>1, <1>9, <1>10, MoveFrame
  <2>2. HandlerKnowsItsCase(r)'
    BY <1>3, <1>4, <1>6, <1>8, <1>9, <2>1, StepsAreDistinct
    DEF HandlerKnowsItsCase, CaseSteps, ProposalSteps, ActionSteps
  <2>3. \A d \in Conversations : lock[d] \in Requests \ {r} =>
          lock'[d] = lock[d] /\ activeCase'[d] \in {activeCase[d], None}
    BY <1>3, <1>7, <2>1
  <2>4. \A j \in Cases : cases[j].conversation \in Conversations =>
          cases'[j] = cases[j] /\ actions'[j] = actions[j]
    BY <1>6, <1>11, <1>12, ConstantsAssumption
  <2>5. \A q \in Requests \ {r} : HandlerKnowsItsCase(q)'
    BY <1>8, <2>1, <2>3, <2>4, OthersUndisturbed
  <2> QED BY <2>2, <2>5 DEF HandlersKnowTheirCase
<1>16. OneOpenCase'
  <2>1. \A d \in Conversations : activeCase[d] # k BY <1>1, <1>12, ConstantsAssumption DEF OneOpenCase, IsOpen
  <2>2. \A j \in Cases : ~(IsOpen(cases[j]) /\ cases[j].conversation = c)
    BY <1>1, <1>3, ConstantsAssumption DEF OneOpenCase
  <2>3. IsOpen(cases'[k]) /\ cases'[k].conversation = c BY <1>4, <1>6 DEF IsOpen
  <2>4. \A j \in Cases \ {k} : IsOpen(cases'[j]) <=> IsOpen(cases[j]) BY <1>6 DEF IsOpen
  <2>5. \A d \in Conversations : activeCase[d] \in Cases \cup {None} BY <1>1 DEF TypeOK
  <2>6. ASSUME NEW d \in Conversations, activeCase'[d] # None
        PROVE  IsOpen(cases'[activeCase'[d]]) /\ cases'[activeCase'[d]].conversation = d
    <3>1. CASE d = c BY <1>7, <2>3, <3>1
    <3>2. CASE d # c
      <4>1. activeCase'[d] = activeCase[d] /\ activeCase[d] \in Cases \ {k} BY <1>7, <2>1, <2>5, <2>6, <3>2
      <4> QED BY <1>1, <1>6, <2>4, <2>6, <4>1 DEF OneOpenCase
    <3> QED BY <3>1, <3>2
  <2>7. ASSUME NEW d \in Conversations, NEW j \in Cases, IsOpen(cases'[j]), cases'[j].conversation = d
        PROVE  activeCase'[d] = j
    <3>1. CASE j = k BY <1>7, <2>3, <2>7, <3>1
    <3>2. CASE j # k
      <4>1. IsOpen(cases[j]) /\ cases[j].conversation = d BY <1>6, <2>4, <2>7, <3>2
      <4>2. d # c /\ activeCase[d] = j BY <1>1, <2>2, <4>1 DEF OneOpenCase
      <4> QED BY <1>7, <4>2
    <3> QED BY <3>1, <3>2
  <2> QED BY <2>6, <2>7 DEF OneOpenCase, IsOpen
<1>17. PendingMeansAwaited'
  <2>1. \A v \in Versions : proposals[k][v].state = "absent" /\ v # None
    BY <1>1, <1>12, ConstantsAssumption DEF CasesHaveOwners, Versions
  <2>2. Pending(k)' BY <1>4, <1>6, <1>11, <2>1 DEF Pending
  <2>3. \A j \in Cases \ {k} : Pending(j)' BY <1>6, <1>11 DEF CaseInv, PendingMeansAwaited, Pending
  <2> QED BY <2>2, <2>3 DEF PendingMeansAwaited, Pending
<1>18. ActionsMatchCases'
  <2>1. \A v \in Versions : actions[k][v] = "absent"
    BY <1>1, <1>12 DEF CaseInv, CasesHaveOwners, ActionsMatchCases, OneExecutionPerCase
  <2>2. Acted(k)' BY <1>11, <2>1 DEF Acted
  <2>3. \A j \in Cases \ {k} : Acted(j)'
    BY <1>6, <1>11 DEF CaseInv, ActionsMatchCases, OneExecutionPerCase, Acted
  <2> QED BY <2>2, <2>3 DEF ActionsMatchCases, OneExecutionPerCase, Acted
<1> QED BY <1>13, <1>14, <1>15, <1>16, <1>17, <1>18 DEF CaseInv

\* Proposals are numbered from 1 without a gap as far as the bound allows.
LEMMA NextVersionType ==
  ASSUME NEW k \in Cases, NextVersion(k) <= MaxProposals PROVE NextVersion(k) \in Versions
<1> DEFINE used == {v \in Versions : proposals[k][v].state # "absent"}
<1>1. IsFiniteSet(Versions)
  BY FS_Interval, ConstantsAssumption, 1 \in Int, MaxProposals \in Int DEF Versions
<1>2. IsFiniteSet(used) BY <1>1, FS_Subset
<1>3. Cardinality(used) \in Nat BY <1>2, FS_CardinalityType
<1> QED BY <1>3, ConstantsAssumption DEF NextVersion, Versions

\* The new Proposal is the only pending one and the Case awaits it.
LEMMA ProposeTicketInv ==
  ASSUME CaseInv, NEW r \in Requests, ProposeTicket(r) PROVE CaseInv'
<1>1. TypeOK /\ PendingMeansAwaited BY DEF CaseInv
<1>2. Step(r) = "investigate" BY DEF ProposeTicket, Resumed, Step
<1>3. PICK k \in Cases : k = ctx[r].case BY <1>2, OwnCase DEF CaseSteps
<1>4. /\ Step(r) \in CaseSteps /\ cases[k].scope \in Scopes
      /\ cases[k].state \in {"investigating", "awaiting_customer_input"}
  BY <1>2, <1>3, OwnCase, StepsAreDistinct DEF CaseSteps
<1>5. PICK v \in Versions : v = NextVersion(k) BY <1>3, NextVersionType DEF ProposeTicket
<1>6. PICK stands \in Reproposals(k) : proposals' = [proposals EXCEPT ![k] =
        [w \in Versions |->
           IF w = v THEN [state |-> "pending_confirmation", evidence |-> ctx[r].seen.revision,
                          stands |-> stands, process |-> crashes, expired |-> FALSE]
           ELSE IF w \in ProposalsOf(k, "pending_confirmation") THEN Settled("superseded")
           ELSE proposals[k][w]]]
  BY <1>3, <1>5, ZenonT(150) DEF ProposeTicket
<1> DEFINE offer == [state |-> "pending_confirmation", evidence |-> ctx[r].seen.revision,
                     stands |-> stands, process |-> crashes, expired |-> FALSE]
           row == [cases[k] EXCEPT !.state = "awaiting_customer_confirmation", !.activeProposal = v]
           offers == [w \in Versions |-> IF w = v THEN offer ELSE proposals[k][w]]
<1>7. \A w \in Versions : proposals[k][w].state # "pending_confirmation"
  BY <1>1, <1>4, ConstantsAssumption DEF PendingMeansAwaited, Versions
<1>8. proposals' = [proposals EXCEPT ![k] = offers]
  <2>1. ProposalsOf(k, "pending_confirmation") = {} BY <1>7 DEF ProposalsOf
  <2> HIDE DEF offer
  <2>2. proposals' = [proposals EXCEPT ![k] =
          [w \in Versions |-> IF w = v THEN offer
                              ELSE IF w \in {} THEN Settled("superseded")
                              ELSE proposals[k][w]]]
    BY <1>6, <2>1 DEF offer
  <2>3. offers = [w \in Versions |-> IF w = v THEN offer
                              ELSE IF w \in {} THEN Settled("superseded")
                              ELSE proposals[k][w]]
    OBVIOUS
  <2> QED BY <2>2, <2>3
<1>9. offer \in ProposalRows /\ offer.state = "pending_confirmation"
  <2>1. ctx[r].seen \in Observations
    BY <1>1 DEF ProposeTicket, SawNoActiveTicket, TypeOK, Contexts
  <2>2. ctx[r].seen.revision \in Nat BY <2>1 DEF Observations
  <2>3. stands \in BOOLEAN BY DEF Reproposals
  <2>4. crashes \in 0 .. MaxCrashes BY <1>1 DEF TypeOK
  <2> QED BY <2>2, <2>3, <2>4 DEF ProposalRows, ProposalStates
<1>10. /\ row \in CaseRows /\ row.state = "awaiting_customer_confirmation"
      /\ row.conversation = cases[k].conversation /\ row.scope = cases[k].scope
      /\ row.activeProposal = v
  BY <1>1 DEF TypeOK, CaseRows, CaseStates
<1>11. cases' = [cases EXCEPT ![k] = row] BY <1>1, <1>3, <1>5 DEF ProposeTicket, TypeOK
<1> HIDE DEF row, offer
<1>12. /\ offers \in [Versions -> ProposalRows] /\ offers[v] = offer
       /\ \A w \in Versions \ {v} : offers[w] = proposals[k][w]
  BY <1>1, <1>9 DEF TypeOK
<1> HIDE DEF offers
<1>13. /\ proposals' \in [Cases -> [Versions -> ProposalRows]] /\ proposals'[k] = offers
       /\ \A j \in Cases \ {k} : proposals'[j] = proposals[j]
  BY <1>1, <1>8, <1>12 DEF TypeOK
<1>14. SucceedRun(r) /\ Return(r) /\ UNCHANGED <<activeCase, actions, tickets, source, crashes>>
  BY DEF ProposeTicket
<1>15. TypeOK'
  BY <1>1, <1>10, <1>11, <1>13, <1>14, UpdateCase, ReturnType, SucceedType DEF TypeOK, source
<1>16. Pending(k)'
  <2>1. v # None BY ConstantsAssumption DEF Versions
  <2>2. cases'[k].state = "awaiting_customer_confirmation" /\ cases'[k].activeProposal = v
    BY <1>1, <1>10, <1>11, UpdateCase
  <2>3. \A w \in Versions : proposals'[k][w].state = "pending_confirmation" <=> w = v
    BY <1>7, <1>9, <1>12, <1>13
  <2> QED BY <2>1, <2>2, <2>3 DEF Pending
<1>17. Acted(k)' BY <1>4, <1>14, NotActed DEF Acted
<1> QED
  BY <1>1, <1>3, <1>4, <1>10, <1>11, <1>13, <1>14, <1>15, <1>16, <1>17,
     UpdateCase, ReturnFrame, OwnCaseStep DEF IsOpen

-----------------------------------------------------------------------------
(***************************************************************************)
(* retry_case                                                              *)
(***************************************************************************)
\* A retry moves a Case whose Conversation nobody holds.
LEMMA EnterAndMove ==
  ASSUME CaseInv, NEW r \in Requests, NEW k \in Cases,
         NEW state \in {"investigating", "executing_action"}, NEW context \in Contexts,
         IsRetryable(k), MoveCase(k, state), Enter(r, context),
         context.conversation = cases[k].conversation,
         UNCHANGED <<proposals, actions, tickets, source, crashes>>,
         state = "investigating" => \A v \in Versions : actions[k][v] = "absent",
         HandlerKnowsItsCase(r)'
  PROVE  CaseInv'
<1>1. TypeOK /\ CasesHaveOwners /\ PendingMeansAwaited /\ ActionsMatchCases BY DEF CaseInv
<1>2. cases[k].state = "awaiting_retry" BY DEF IsRetryable
<1>3. cases[k].conversation \in Conversations /\ cases[k].scope \in Scopes
  BY <1>1, <1>2 DEF CasesHaveOwners
<1>4. state \in CaseStates BY DEF CaseStates
<1>5. TypeOK' BY <1>1, <1>3, <1>4, EnterType, MoveCaseType DEF TypeOK, source
<1>6. Pending(k)' BY <1>1, <1>2, <1>4, MoveCaseType DEF PendingMeansAwaited, Pending
<1>7. Acted(k)'
  BY <1>1, <1>4, MoveCaseType DEF ActionsMatchCases, OneExecutionPerCase, Acted
<1>8. /\ CasesHaveOwners' /\ OneOpenCase' /\ PendingMeansAwaited' /\ ActionsMatchCases'
  BY <1>1, <1>2, <1>3, <1>4, <1>6, <1>7, MoveCaseType, CaseChanges DEF IsOpen
<1>9. HandlersKnowTheirCase'
  <2>1. \A q \in Requests \ {r} : pc'[q] = pc[q] /\ ctx'[q] = ctx[q]
    BY <1>1 DEF TypeOK, Enter
  <2>2. lock[cases[k].conversation] = None BY DEF Enter
  <2>3. \A c \in Conversations : lock[c] \in Requests \ {r} => lock'[c] = lock[c]
    BY <1>1, <2>2, ConstantsAssumption DEF Enter, TypeOK
  <2>4. \A j \in Cases : lock[cases[j].conversation] \in Requests \ {r} =>
          cases'[j] = cases[j] /\ actions'[j] = actions[j]
    BY <1>1, <1>4, <2>2, MoveCaseType, ConstantsAssumption
  <2>5. UNCHANGED activeCase BY DEF MoveCase
  <2>6. \A q \in Requests \ {r} : HandlerKnowsItsCase(q)'
    BY <2>1, <2>3, <2>4, <2>5, OthersUndisturbed
  <2> QED BY <2>6 DEF HandlersKnowTheirCase
<1> QED BY <1>5, <1>8, <1>9 DEF CaseInv

\* A retry starts an investigation or resumes the one retryable action.
LEMMA RetryCaseInv ==
  ASSUME CaseInv, NEW r \in Requests, NEW k \in Cases, RetryCase(r, k) PROVE CaseInv'
<1> DEFINE context == [NoContext EXCEPT !.conversation = cases[k].conversation, !.case = k]
<1>1. TypeOK /\ CasesHaveOwners /\ ActionsMatchCases BY DEF CaseInv
<1>2. cases[k].state = "awaiting_retry" BY DEF RetryCase, IsRetryable
<1>3. PICK c \in Conversations : c = cases[k].conversation BY <1>1, <1>2 DEF CasesHaveOwners
<1>4. NoContext \in Contexts BY DEF NoContext, Contexts, Steps
<1>5. CASE /\ Resumable(k) = {} /\ MoveCase(k, "investigating")
           /\ Enter(r, [context EXCEPT !.entry = "investigate"])
  <2> DEFINE new == [context EXCEPT !.entry = "investigate"]
  <2>1. /\ new \in Contexts /\ new.conversation = c /\ new.case = k /\ new.entry = "investigate"
    BY <1>3, <1>4 DEF Contexts, Steps
  <2>2. Enter(r, new) BY <1>5
  <2> HIDE DEF new
  <2>3. \A v \in Versions : actions[k][v] = "absent"
    BY <1>1, <1>2, <1>5 DEF ActionsMatchCases, Resumable, ActionsOf
  <2>4. HandlerKnowsItsCase(r)'
    <3>1. pc'[r] = "start_run" /\ ctx'[r] = new /\ lock'[c] = r
      BY <1>1, <1>3, <2>1, <2>2 DEF Enter, TypeOK
    <3>2. Step(r)' = "investigate" BY <2>1, <3>1 DEF Step
    <3>3. cases'[k].state = "investigating" /\ cases'[k].conversation = c
      BY <1>1, <1>3, <1>5, MoveCaseType DEF CaseStates
    <3> QED
      BY <1>3, <2>1, <3>1, <3>2, <3>3, StepsAreDistinct
      DEF HandlerKnowsItsCase, CaseSteps, ProposalSteps, ActionSteps
  <2> QED BY <1>3, <1>5, <2>1, <2>2, <2>3, <2>4, EnterAndMove DEF RetryCase
<1>6. CASE \E v \in Resumable(k) :
             /\ MoveCase(k, "executing_action")
             /\ Enter(r, [context EXCEPT !.entry = "submit", !.version = v])
  <2>1. PICK v \in Resumable(k) : /\ MoveCase(k, "executing_action")
                                   /\ Enter(r, [context EXCEPT !.entry = "submit", !.version = v])
    BY <1>6
  <2> DEFINE new == [context EXCEPT !.entry = "submit", !.version = v]
  <2>2. v \in Versions /\ actions[k][v] # "absent" BY DEF Resumable, ActionsOf
  <2>3. /\ new \in Contexts /\ new.conversation = c /\ new.case = k
        /\ new.entry = "submit" /\ new.version = v
    BY <1>3, <1>4, <2>2 DEF Contexts, Steps
  <2>4. Enter(r, new) BY <2>1
  <2> HIDE DEF new
  <2>5. HandlerKnowsItsCase(r)'
    <3>1. pc'[r] = "start_run" /\ ctx'[r] = new /\ lock'[c] = r
      BY <1>1, <1>3, <2>3, <2>4 DEF Enter, TypeOK
    <3>2. Step(r)' = "submit" BY <2>3, <3>1 DEF Step
    <3>3. cases'[k].state = "executing_action" /\ cases'[k].conversation = c
      BY <1>1, <1>3, <2>1, MoveCaseType DEF CaseStates
    <3>4. actions' = actions BY DEF RetryCase
    <3> QED
      BY <1>3, <2>2, <2>3, <3>1, <3>2, <3>3, <3>4, StepsAreDistinct
      DEF HandlerKnowsItsCase, CaseSteps, ProposalSteps, ActionSteps
  <2> QED BY <1>3, <2>1, <2>3, <2>4, <2>5, EnterAndMove DEF RetryCase
<1> QED BY <1>5, <1>6 DEF RetryCase

-----------------------------------------------------------------------------
(***************************************************************************)
(* confirm_proposal, decline_proposal and the clock                        *)
(***************************************************************************)
\* Only the active Proposal of a waiting Case is pending.
LEMMA PendingIsAwaited ==
  ASSUME CaseInv, NEW k \in Cases, NEW v \in Versions,
         proposals[k][v].state = "pending_confirmation"
  PROVE  /\ cases[k].state = "awaiting_customer_confirmation" /\ IsOpen(cases[k])
         /\ cases[k].activeProposal = v
         /\ \A w \in Versions \ {v} : proposals[k][w].state # "pending_confirmation"
         /\ \A w \in Versions : actions[k][w] = "absent"
<1>1. v # None BY ConstantsAssumption DEF Versions
<1>2. cases[k].activeProposal = v /\ cases[k].state = "awaiting_customer_confirmation"
  BY <1>1 DEF CaseInv, PendingMeansAwaited
<1>3. \A w \in Versions \ {v} : proposals[k][w].state # "pending_confirmation"
  BY <1>2 DEF CaseInv, PendingMeansAwaited
<1> QED BY <1>2, <1>3, NotActed DEF IsOpen

\* A Proposal that is over is a Proposal.
LEMMA SettledRow ==
  ASSUME NEW state \in ProposalStates
  PROVE  Settled(state) \in ProposalRows /\ Settled(state).state = state
<1>1. 0 \in 0 .. MaxCrashes BY ConstantsAssumption
<1> QED BY <1>1 DEF Settled, AbsentProposal, ProposalRows, ProposalStates

\* Settling one Proposal changes no other Proposal.
LEMMA ProposalMoves ==
  ASSUME TypeOK, NEW k \in Cases, NEW v \in Versions, NEW state \in ProposalStates,
         proposals' = [proposals EXCEPT ![k][v] = Settled(state)]
  PROVE  /\ proposals' \in [Cases -> [Versions -> ProposalRows]]
         /\ \A j \in Cases \ {k} : proposals'[j] = proposals[j]
         /\ proposals'[k][v].state = state
         /\ \A w \in Versions \ {v} : proposals'[k][w] = proposals[k][w]
  BY SettledRow DEF TypeOK

\* A settled Proposal and its Case keep their types.
LEMMA SettleType ==
  ASSUME CaseInv, NEW k \in Cases, NEW v \in Versions,
         NEW state \in ProposalStates \ {"pending_confirmation"},
         NEW caseState \in {"awaiting_retry", "executing_action"},
         proposals[k][v].state = "pending_confirmation", SettleProposal(k, v, state, caseState)
  PROVE  /\ cases' \in [Cases -> CaseRows]
         /\ proposals' \in [Cases -> [Versions -> ProposalRows]]
         /\ \A j \in Cases \ {k} : cases'[j] = cases[j] /\ proposals'[j] = proposals[j]
         /\ cases'[k].state = caseState
         /\ cases'[k].conversation = cases[k].conversation
         /\ cases'[k].scope = cases[k].scope
         /\ proposals'[k][v].state = state
         /\ Pending(k)'
<1>1. TypeOK BY DEF CaseInv
<1> DEFINE row == [cases[k] EXCEPT !.state = caseState, !.activeProposal = None]
<1>2. cases' = [cases EXCEPT ![k] = row]
  BY <1>1, PendingIsAwaited, ZenonT(150) DEF SettleProposal, TypeOK
<1>3. /\ row \in CaseRows /\ row.state = caseState /\ row.conversation = cases[k].conversation
      /\ row.scope = cases[k].scope /\ row.activeProposal = None
  BY <1>1, ZenonT(150) DEF TypeOK, CaseRows, CaseStates
<1> HIDE DEF row
<1>4. proposals' = [proposals EXCEPT ![k][v] = Settled(state)] BY DEF SettleProposal
<1>5. /\ cases'[k] = row /\ cases' \in [Cases -> CaseRows]
      /\ \A j \in Cases \ {k} : cases'[j] = cases[j]
  BY <1>1, <1>2, <1>3, UpdateCase
<1>6. Pending(k)'
  <2>1. \A w \in Versions : proposals'[k][w].state # "pending_confirmation"
    <3>1. "pending_confirmation" # state /\ state \in ProposalStates OBVIOUS
    <3>2. /\ proposals'[k][v].state = state
          /\ \A w \in Versions \ {v} : proposals'[k][w] = proposals[k][w]
      BY <1>1, <1>4, <3>1, ProposalMoves
    <3> QED BY <3>1, <3>2, PendingIsAwaited
  <2>2. cases'[k].activeProposal = None /\ cases'[k].state # "awaiting_customer_confirmation"
    BY <1>3, <1>5
  <2>3. None \notin Versions BY ConstantsAssumption DEF Versions
  <2> QED BY <2>1, <2>2, <2>3 DEF Pending
<1> QED BY <1>1, <1>3, <1>4, <1>5, <1>6, ProposalMoves, ZenonT(150)

\* The decisions that withdraw the Proposal, and the failure they raise
LEMMA WithdrawProposalInv ==
  ASSUME CaseInv, NEW r \in Requests, ExpireProposal(r) \/ InvalidateProposal(r)
  PROVE  CaseInv'
<1>1. TypeOK /\ HandlerKnowsItsCase(r) BY DEF CaseInv, HandlersKnowTheirCase
<1>2. Step(r) \in {"confirmation", "decline"}
  BY DEF ExpireProposal, InvalidateProposal, Deciding, Running, Step
<1>3. PICK k \in Cases : k = ctx[r].case BY <1>2, OwnCase DEF CaseSteps, ProposalSteps
<1>4. PICK v \in Versions : v = ctx[r].version BY <1>2, OwnCase DEF CaseSteps, ProposalSteps
<1>5. /\ Step(r) \in CaseSteps /\ pc[r] # "idle" /\ cases[k].scope \in Scopes
      /\ ctx[r].conversation \in Conversations /\ lock[ctx[r].conversation] = r
  BY <1>2, <1>3, OwnCase DEF CaseSteps, ProposalSteps
<1>6. proposals[k][v].state = "pending_confirmation"
  BY <1>3, <1>4 DEF ExpireProposal, InvalidateProposal, Validation
<1>7. PICK state \in ProposalStates \ {"pending_confirmation"} :
        SettleProposal(k, v, state, "awaiting_retry")
  BY <1>3, <1>4 DEF ExpireProposal, InvalidateProposal, ProposalStates
<1>8. Goto(r, "fail_run") /\ UNCHANGED <<activeCase, actions, tickets, runs, ctx, source, crashes>>
  BY DEF ExpireProposal, InvalidateProposal
<1>9. "fail_run" \in Steps \ {"start_run"} BY DEF Steps
<1>10. TypeOK' BY <1>1, <1>6, <1>7, <1>8, <1>9, SettleType, MoveType DEF TypeOK, source
<1>11. HandlerKnowsItsCase(r)'
  BY <1>1, <1>5, <1>8, <1>9, MoveFrame
  DEF HandlerKnowsItsCase, CaseSteps, ProposalSteps, ActionSteps
<1>12. Pending(k)' BY <1>6, <1>7, SettleType
<1>13. Acted(k)' BY <1>6, <1>8, PendingIsAwaited DEF Acted
<1> QED
  BY <1>1, <1>3, <1>5, <1>6, <1>7, <1>8, <1>9, <1>10, <1>11, <1>12, <1>13,
     PendingIsAwaited, SettleType, MoveFrame, OwnCaseStep

\* The confirmed Proposal gets the first and only action of its Case.
LEMMA AcceptConfirmationInv ==
  ASSUME CaseInv, NEW r \in Requests, AcceptConfirmation(r) PROVE CaseInv'
<1>1. TypeOK /\ HandlerKnowsItsCase(r) BY DEF CaseInv, HandlersKnowTheirCase
<1>2. Step(r) = "confirmation" BY DEF AcceptConfirmation, Running, Step
<1>3. PICK k \in Cases : k = ctx[r].case BY <1>2, OwnCase DEF CaseSteps, ProposalSteps
<1>4. PICK v \in Versions : v = ctx[r].version BY <1>2, OwnCase DEF CaseSteps, ProposalSteps
<1>5. /\ Step(r) \in CaseSteps /\ pc[r] # "idle" /\ cases[k].scope \in Scopes
      /\ ctx[r].conversation \in Conversations /\ lock[ctx[r].conversation] = r
      /\ cases[k].conversation = ctx[r].conversation
  BY <1>2, <1>3, OwnCase DEF CaseSteps, ProposalSteps
<1>6. proposals[k][v].state = "pending_confirmation"
  BY <1>3, <1>4 DEF AcceptConfirmation, Validation
<1>7. /\ "confirmed" \in ProposalStates \ {"pending_confirmation"}
      /\ SettleProposal(k, v, "confirmed", "executing_action")
  BY <1>3, <1>4 DEF AcceptConfirmation, ProposalStates
<1>8. /\ Goto(r, "submit") /\ UNCHANGED <<activeCase, tickets, runs, ctx, source, crashes>>
      /\ actions' = [actions EXCEPT ![k][v] = "ready"]
  BY <1>3, <1>4 DEF AcceptConfirmation
<1>9. "submit" \in Steps \ {"start_run"} BY DEF Steps
<1>10. /\ actions' \in [Cases -> [Versions -> ActionStates]]
       /\ \A j \in Cases \ {k} : actions'[j] = actions[j]
       /\ actions'[k][v] = "ready" /\ \A w \in Versions \ {v} : actions'[k][w] = actions[k][w]
  BY <1>1, <1>8 DEF TypeOK, ActionStates
<1>11. TypeOK' BY <1>1, <1>6, <1>7, <1>8, <1>9, <1>10, SettleType, MoveType DEF TypeOK, source
<1>12. HandlerKnowsItsCase(r)'
  <2>1. Step(r)' = "submit" /\ pc'[r] = "submit" /\ lock' = lock BY <1>1, <1>8, <1>9, MoveFrame
  <2>2. cases'[k].state = "executing_action" /\ cases'[k].conversation = cases[k].conversation
    BY <1>6, <1>7, SettleType
  <2> QED
    BY <1>3, <1>4, <1>5, <1>8, <1>10, <2>1, <2>2, StepsAreDistinct
    DEF HandlerKnowsItsCase, CaseSteps, ProposalSteps, ActionSteps
<1>13. Pending(k)' BY <1>6, <1>7, SettleType
<1>14. Acted(k)' BY <1>6, <1>7, <1>10, PendingIsAwaited, SettleType DEF Acted
<1> QED
  BY <1>1, <1>3, <1>5, <1>6, <1>7, <1>8, <1>9, <1>10, <1>11, <1>12, <1>13, <1>14,
     PendingIsAwaited, SettleType, MoveFrame, OwnCaseStep

\* A declined Proposal closes its Case.
LEMMA DeclineInv == ASSUME CaseInv, NEW r \in Requests, Decline(r) PROVE CaseInv'
<1>1. TypeOK BY DEF CaseInv
<1>2. Step(r) = "decline" BY DEF Decline, Running, Step
<1>3. PICK k \in Cases : k = ctx[r].case BY <1>2, OwnCase DEF CaseSteps, ProposalSteps
<1>4. PICK v \in Versions : v = ctx[r].version BY <1>2, OwnCase DEF CaseSteps, ProposalSteps
<1>5. Step(r) \in CaseSteps /\ cases[k].scope \in Scopes
  BY <1>2, <1>3, OwnCase DEF CaseSteps, ProposalSteps
<1>6. proposals[k][v].state = "pending_confirmation"
  BY <1>3, <1>4 DEF Decline, Validation
<1> DEFINE row == [cases[k] EXCEPT !.state = "closed", !.outcome = "resolved_no_action",
                                   !.activeProposal = None, !.reception = None]
<1>7. cases' = [cases EXCEPT ![k] = row] BY <1>1, <1>3 DEF Decline, TypeOK
<1>8. /\ row \in CaseRows /\ row.state = "closed" /\ row.conversation = cases[k].conversation
      /\ row.scope = cases[k].scope /\ row.activeProposal = None
  BY <1>1, ZenonT(150) DEF TypeOK, CaseRows, CaseStates, CaseOutcomes
<1> HIDE DEF row
<1>9. /\ SucceedRun(r) /\ Return(r) /\ UNCHANGED <<actions, tickets, source, crashes>>
      /\ activeCase' = [c \in Conversations |-> IF activeCase[c] = k THEN None ELSE activeCase[c]]
      /\ proposals' = [proposals EXCEPT ![k][v] = Settled("declined")]
      /\ "declined" \in ProposalStates
  BY <1>3, <1>4 DEF Decline, ProposalStates
<1>10. activeCase' \in [Conversations -> Cases \cup {None}] BY <1>1, <1>9 DEF TypeOK
<1>11. TypeOK'
  BY <1>1, <1>7, <1>8, <1>9, <1>10, UpdateCase, ProposalMoves, ReturnType, SucceedType
  DEF TypeOK, source
<1>12. Pending(k)'
  <2>1. \A w \in Versions : proposals'[k][w].state # "pending_confirmation"
    <3>1. /\ proposals'[k][v].state = "declined"
          /\ \A w \in Versions \ {v} : proposals'[k][w] = proposals[k][w]
      BY <1>1, <1>9, ProposalMoves
    <3> QED BY <1>6, <3>1, PendingIsAwaited
  <2>2. cases'[k].activeProposal = None /\ cases'[k].state # "awaiting_customer_confirmation"
    BY <1>1, <1>7, <1>8, UpdateCase
  <2>3. None \notin Versions BY ConstantsAssumption DEF Versions
  <2> QED BY <2>1, <2>2, <2>3 DEF Pending
<1>13. Acted(k)' BY <1>6, <1>9, PendingIsAwaited DEF Acted
<1>14. \A j \in Cases \ {k} : cases'[j] = cases[j] /\ proposals'[j] = proposals[j]
  BY <1>1, <1>7, <1>8, <1>9, UpdateCase, ProposalMoves
<1>15. /\ cases'[k].state = "closed" /\ cases'[k].conversation = cases[k].conversation
       /\ cases'[k].scope \in Scopes /\ IsOpen(cases[k])
  BY <1>1, <1>5, <1>6, <1>7, <1>8, UpdateCase, PendingIsAwaited
<1> QED
  BY <1>1, <1>3, <1>5, <1>9, <1>11, <1>12, <1>13, <1>14, <1>15, ReturnFrame, OwnCaseStep

\* The passing of expires_at changes no state a handler relies on.
LEMMA ExpiryPassesInv ==
  ASSUME CaseInv, NEW k \in Cases, NEW v \in Versions, ExpiryPasses(k, v) PROVE CaseInv'
<1>1. TypeOK BY DEF CaseInv
<1> DEFINE offer == proposals[k][v]
           row == [offer EXCEPT !.expired = TRUE]
<1>2. row \in ProposalRows /\ row.state = proposals[k][v].state
  <2>1. offer \in ProposalRows BY <1>1 DEF TypeOK
  <2>2. row \in ProposalRows /\ row.state = offer.state
    <3> HIDE DEF offer
    <3> QED BY <2>1 DEF ProposalRows
  <2> QED BY <2>2
<1>3. proposals' = [proposals EXCEPT ![k] = [proposals[k] EXCEPT ![v] = row]]
  BY <1>1 DEF ExpiryPasses, TypeOK
<1> HIDE DEF row
<1>4. /\ proposals' \in [Cases -> [Versions -> ProposalRows]]
      /\ \A j \in Cases, w \in Versions : proposals'[j][w].state = proposals[j][w].state
  BY <1>1, <1>2, <1>3 DEF TypeOK
<1>5. UNCHANGED <<activeCase, cases, actions, tickets, runs, control, ctx, source, crashes>>
  BY DEF ExpiryPasses
<1>6. TypeOK' BY <1>1, <1>4, <1>5 DEF TypeOK, control, source
<1>7. CasesHaveOwners' BY <1>4, <1>5 DEF CaseInv, CasesHaveOwners
<1>8. HandlersKnowTheirCase'
  BY <1>5 DEF CaseInv, HandlersKnowTheirCase, HandlerKnowsItsCase, Step, control
<1>9. OneOpenCase' BY <1>5 DEF CaseInv, OneOpenCase
<1>10. PendingMeansAwaited' BY <1>4, <1>5 DEF CaseInv, PendingMeansAwaited
<1>11. ActionsMatchCases' BY <1>4, <1>5 DEF CaseInv, ActionsMatchCases, OneExecutionPerCase
<1> QED BY <1>6, <1>7, <1>8, <1>9, <1>10, <1>11 DEF CaseInv

-----------------------------------------------------------------------------
(***************************************************************************)
(* The ticket executor                                                     *)
(***************************************************************************)
\* What the executor may rely on: it executes the Case's only action.
LEMMA Executing ==
  ASSUME CaseInv, NEW r \in Requests, Step(r) \in ActionSteps
  PROVE  \E k \in Cases, v \in Versions :
           /\ k = ctx[r].case /\ v = ctx[r].version
           /\ cases[k].state = "executing_action" /\ IsOpen(cases[k])
           /\ cases[k].activeProposal = None /\ cases[k].scope \in Scopes
           /\ cases[k].conversation = ctx[r].conversation
           /\ \A w \in Versions : actions[k][w] # "absent" <=> w = v
<1>1. Step(r) \in ProposalSteps /\ Step(r) \in CaseSteps BY DEF CaseSteps, ProposalSteps
<1>2. PICK k \in Cases, v \in Versions : k = ctx[r].case /\ v = ctx[r].version BY <1>1, OwnCase
<1>3. /\ cases[k].state = "executing_action" /\ cases[k].scope \in Scopes
      /\ cases[k].conversation = ctx[r].conversation /\ actions[k][v] # "absent"
  BY <1>1, <1>2, OwnCase, StepsAreDistinct DEF ActionSteps
<1>4. cases[k].activeProposal = None BY <1>3 DEF CaseInv, PendingMeansAwaited
<1>5. \A w \in Versions : actions[k][w] # "absent" <=> w = v
  BY <1>3 DEF CaseInv, ActionsMatchCases, OneExecutionPerCase
<1> QED BY <1>2, <1>3, <1>4, <1>5 DEF IsOpen

\* Writing the state of one action changes no other action.
LEMMA ActionMoves ==
  ASSUME TypeOK, NEW k \in Cases, NEW v \in Versions, NEW state \in ActionStates,
         actions' = [actions EXCEPT ![k][v] = state]
  PROVE  /\ actions' \in [Cases -> [Versions -> ActionStates]]
         /\ \A j \in Cases \ {k} : actions'[j] = actions[j]
         /\ actions'[k][v] = state
         /\ \A w \in Versions \ {v} : actions'[k][w] = actions[k][w]
  BY DEF TypeOK

\* The ticket of an executing Case is a ticket.
LEMMA NewTicketType ==
  ASSUME CaseInv, NEW r \in Requests, Step(r) \in ActionSteps
  PROVE  NewTicket(r) \in Tickets
  BY Executing DEF NewTicket, Tickets

\* The write or its fault: the action is submitted, the Case still executing.
LEMMA SubmitInv ==
  ASSUME CaseInv, NEW r \in Requests, SubmitAction(r) \/ SubmitFaultyAction(r) PROVE CaseInv'
<1>1. TypeOK /\ HandlerKnowsItsCase(r) /\ PendingMeansAwaited /\ ActionsMatchCases
  BY DEF CaseInv, HandlersKnowTheirCase
<1>2. Step(r) = "submit" /\ pc[r] = "submit" BY DEF SubmitAction, SubmitFaultyAction, Running, Step
<1>3. Step(r) \in ActionSteps /\ Step(r) \in CaseSteps BY <1>2 DEF CaseSteps, ProposalSteps, ActionSteps
<1>4. PICK k \in Cases, v \in Versions :
        /\ k = ctx[r].case /\ v = ctx[r].version
        /\ cases[k].state = "executing_action" /\ IsOpen(cases[k])
        /\ cases[k].activeProposal = None /\ cases[k].scope \in Scopes
        /\ cases[k].conversation = ctx[r].conversation
        /\ \A w \in Versions : actions[k][w] # "absent" <=> w = v
  BY <1>3, Executing
<1>5. UNCHANGED <<activeCase, cases, proposals, runs, source, crashes>>
  BY DEF SubmitAction, SubmitFaultyAction
<1>6. actions' = [actions EXCEPT ![k][v] = "submitted"] /\ "submitted" \in ActionStates
  BY <1>4 DEF SubmitAction, SubmitFaultyAction, ActionStates
<1>7. tickets' \subseteq Tickets /\ IsFiniteSet(tickets')
  <2>1. NewTicket(r) \in Tickets /\ tickets \subseteq Tickets /\ IsFiniteSet(tickets)
    BY <1>1, <1>3, NewTicketType DEF TypeOK
  <2>2. IsFiniteSet(tickets \cup {NewTicket(r)}) BY <2>1, FS_AddElement
  <2>3. tickets' = tickets \/ tickets' = tickets \cup {NewTicket(r)}
    BY DEF SubmitAction, SubmitFaultyAction
  <2> QED BY <2>1, <2>2, <2>3
<1>8. /\ ctx' \in [Requests -> Contexts]
      /\ \A q \in Requests \ {r} : ctx'[q] = ctx[q]
      /\ ctx'[r].case = k /\ ctx'[r].version = v /\ ctx'[r].conversation = ctx[r].conversation
      /\ SubmitFaultyAction(r) => ctx'[r].fault \in ScriptableFaults
  <2>1. CASE SubmitAction(r) /\ ~SubmitFaultyAction(r) BY <1>1, <1>4, <2>1 DEF SubmitAction, TypeOK
  <2>2. CASE SubmitFaultyAction(r)
    <3>1. PICK fault \in ScriptableFaults : ctx' = [ctx EXCEPT ![r].fault = fault]
      BY <2>2, ConstantsAssumption DEF SubmitFaultyAction
    <3> DEFINE context == [ctx[r] EXCEPT !.fault = fault]
    <3>2. ctx' = [ctx EXCEPT ![r] = context] BY <1>1, <3>1 DEF TypeOK
    <3>3. /\ context \in Contexts /\ context.case = ctx[r].case /\ context.fault = fault
          /\ context.version = ctx[r].version /\ context.conversation = ctx[r].conversation
      BY <1>1 DEF TypeOK, Contexts
    <3> HIDE DEF context
    <3> QED BY <1>1, <1>4, <3>2, <3>3 DEF TypeOK
  <2> QED BY <2>1, <2>2
<1>9. PICK step \in {"read_back", "record_fault"} :
        Goto(r, step) /\ (step = "record_fault" => SubmitFaultyAction(r))
  BY DEF SubmitAction, SubmitFaultyAction
<1>10. step \in Steps \ {"start_run"} BY DEF Steps
<1>11. TypeOK' BY <1>1, <1>4, <1>5, <1>6, <1>7, <1>8, <1>9, <1>10, ActionMoves, MoveType DEF TypeOK, source
<1>12. HandlerKnowsItsCase(r)'
  <2>1. Step(r)' = step /\ pc'[r] = step /\ lock' = lock BY <1>1, <1>9, <1>10, MoveFrame
  <2>2. actions'[k][v] # "absent" BY <1>1, <1>4, <1>6, ActionMoves
  <2>3. ctx[r].conversation \in Conversations /\ lock[ctx[r].conversation] = r BY <1>3, OwnCase
  <2> QED
    BY <1>4, <1>5, <1>8, <1>9, <2>1, <2>2, <2>3, StepsAreDistinct
    DEF HandlerKnowsItsCase, CaseSteps, ProposalSteps, ActionSteps
<1>13. Pending(k)' BY <1>1, <1>5 DEF PendingMeansAwaited, Pending
<1>14. Acted(k)'
  <2>1. \A w \in Versions : actions'[k][w] # "absent" <=> w = v
    <3>1. /\ actions'[k][v] = "submitted"
          /\ \A w \in Versions \ {v} : actions'[k][w] = actions[k][w]
      BY ONLY <1>1, <1>6, k \in Cases, v \in Versions, ActionMoves
    <3> QED BY ONLY <1>4, <3>1
  <2>2. proposals[k][v].state = "confirmed" BY <1>1, <1>4 DEF ActionsMatchCases, OneExecutionPerCase
  <2> QED BY <1>4, <1>5, <2>1, <2>2 DEF Acted
<1> QED
  BY <1>1, <1>3, <1>4, <1>5, <1>6, <1>8, <1>9, <1>10, <1>11, <1>12, <1>13, <1>14,
     ActionMoves, MoveFrame, OwnCaseStep DEF IsOpen

\* The executor's last transaction: the action and the Case settle together.
LEMMA SettleActionAndReturn ==
  ASSUME CaseInv, NEW r \in Requests, Step(r) \in ActionSteps,
         NEW k \in Cases, NEW v \in Versions, k = ctx[r].case, v = ctx[r].version,
         NEW state \in ActionStates \ {"absent"}, actions' = [actions EXCEPT ![k][v] = state],
         \/ \E outcome \in CaseOutcomes : CloseCase(k, outcome)
         \/ state = "failed_retryable" /\ MoveCase(k, "awaiting_retry"),
         SucceedRun(r), Return(r), UNCHANGED <<proposals, tickets, crashes>>,
         sourceTickets' \subseteq Tickets, ticketRevision' \in Nat
  PROVE  CaseInv'
<1>1. TypeOK /\ PendingMeansAwaited /\ ActionsMatchCases BY DEF CaseInv
<1>2. Step(r) \in CaseSteps BY DEF CaseSteps, ProposalSteps
<1>3. /\ cases[k].state = "executing_action" /\ IsOpen(cases[k])
      /\ cases[k].activeProposal = None /\ cases[k].scope \in Scopes
      /\ \A w \in Versions : actions[k][w] # "absent" <=> w = v
  BY Executing
<1>4. "awaiting_retry" \in CaseStates BY DEF CaseStates
<1>5. /\ cases' \in [Cases -> CaseRows]
      /\ activeCase' \in [Conversations -> Cases \cup {None}]
      /\ \A j \in Cases \ {k} : cases'[j] = cases[j]
      /\ cases'[k].conversation = cases[k].conversation
      /\ cases'[k].scope = cases[k].scope
      /\ cases'[k].activeProposal = cases[k].activeProposal
      /\ \/ cases'[k].state = "closed"
         \/ cases'[k].state = "awaiting_retry" /\ state = "failed_retryable"
  <2>1. CASE \E outcome \in CaseOutcomes : CloseCase(k, outcome) BY <1>1, <2>1, CloseCaseType
  <2>2. CASE state = "failed_retryable" /\ MoveCase(k, "awaiting_retry")
    BY <1>1, <1>4, <2>2, MoveCaseType DEF TypeOK
  <2> QED BY <2>1, <2>2
<1>6. \/ activeCase' = activeCase /\ cases'[k].state # "closed"
      \/ /\ cases'[k].state = "closed"
         /\ activeCase' = [c \in Conversations |-> IF activeCase[c] = k THEN None ELSE activeCase[c]]
  BY <1>1, <1>4, CloseCaseType, MoveCaseType, ZenonT(150) DEF CloseCase
<1>7. /\ actions' \in [Cases -> [Versions -> ActionStates]]
      /\ \A j \in Cases \ {k} : actions'[j] = actions[j]
      /\ actions'[k][v] = state
      /\ \A w \in Versions : actions'[k][w] # "absent" <=> w = v
  <2>1. state # "absent" /\ state \in ActionStates OBVIOUS
  <2>2. /\ actions' \in [Cases -> [Versions -> ActionStates]]
        /\ \A j \in Cases \ {k} : actions'[j] = actions[j]
        /\ actions'[k][v] = state
        /\ \A w \in Versions \ {v} : actions'[k][w] = actions[k][w]
    BY <1>1, <2>1 DEF TypeOK
  <2> QED BY <1>3, <2>1, <2>2
<1>8. TypeOK' BY <1>1, <1>5, <1>7, ReturnType, SucceedType DEF TypeOK
<1>9. Pending(k)' BY <1>1, <1>3, <1>5 DEF PendingMeansAwaited, Pending
<1>10. Acted(k)'
  <2>1. proposals[k][v].state = "confirmed" BY <1>1, <1>3 DEF ActionsMatchCases, OneExecutionPerCase
  <2>2. proposals' = proposals OBVIOUS
  <2>3. ASSUME NEW w \in Versions, actions'[k][w] # "absent"
        PROVE  /\ w = v /\ proposals'[k][w].state = "confirmed"
               /\ \/ cases'[k].state \in {"executing_action", "closed"}
                  \/ cases'[k].state = "awaiting_retry" /\ actions'[k][w] = "failed_retryable"
    <3>1. w = v BY <1>7, <2>3
    <3> QED BY <1>5, <1>7, <2>1, <2>2, <3>1
  <2> QED BY <2>3 DEF Acted
<1>11. /\ \A q \in Requests \ {r} : pc'[q] = pc[q] /\ ctx'[q] = ctx[q]
       /\ \A c \in Conversations : lock[c] \in Requests \ {r} => lock'[c] = lock[c]
       /\ HandlerKnowsItsCase(r)'
  BY ONLY <1>1, r \in Requests, Return(r), ReturnFrame
<1>12. \A j \in Cases \ {k} : /\ cases'[j] = cases[j] /\ proposals'[j] = proposals[j]
                               /\ actions'[j] = actions[j]
  BY ONLY <1>5, <1>7, proposals' = proposals
<1>13. cases'[k].state # "absent" /\ cases'[k].scope \in Scopes
  BY ONLY <1>3, <1>5
<1>14. ctx[r].case = k
  OBVIOUS
<1> QED
  BY ONLY CaseInv, r \in Requests, k \in Cases, <1>2, <1>3, <1>5, <1>6, <1>8, <1>9, <1>10, <1>11,
     <1>12, <1>13, <1>14, OwnCaseStep

\* Each scripted fault settles the action and the Case together.
LEMMA RecordActionFaultInv ==
  ASSUME CaseInv, NEW r \in Requests, RecordActionFault(r) PROVE CaseInv'
<1>1. TypeOK /\ HandlerKnowsItsCase(r) BY DEF CaseInv, HandlersKnowTheirCase
<1>2. Step(r) = "record_fault" BY DEF RecordActionFault, Running, Step
<1>3. Step(r) \in ActionSteps BY <1>2 DEF ActionSteps
<1>4. PICK k \in Cases, v \in Versions : k = ctx[r].case /\ v = ctx[r].version BY <1>3, Executing
<1>5. PICK fault \in ScriptableFaults : fault = ctx[r].fault BY <1>1, <1>2 DEF HandlerKnowsItsCase
<1>6. fault \in ActionStates \ {"absent"} BY DEF ActionStates, ScriptableFaults
<1>7. actions' = [actions EXCEPT ![k][v] = fault] BY <1>4, <1>5 DEF RecordActionFault
<1>8. \/ \E outcome \in CaseOutcomes : CloseCase(k, outcome)
      \/ fault = "failed_retryable" /\ MoveCase(k, "awaiting_retry")
  BY <1>4, <1>5 DEF RecordActionFault, ScriptableFaults, CaseOutcomes
<1>9. /\ SucceedRun(r) /\ Return(r) /\ UNCHANGED <<proposals, tickets, crashes>>
      /\ sourceTickets' \subseteq Tickets /\ ticketRevision' \in Nat
  BY <1>1 DEF RecordActionFault, source, TypeOK
<1> QED BY <1>3, <1>4, <1>6, <1>7, <1>8, <1>9, SettleActionAndReturn

\* The read-back settles the action and closes the Case.
LEMMA ReadBackTicketInv ==
  ASSUME CaseInv, NEW r \in Requests, ReadBackTicket(r) PROVE CaseInv'
<1>1. TypeOK BY DEF CaseInv
<1>2. Step(r) \in ActionSteps BY DEF ReadBackTicket, Running, Step, ActionSteps
<1>3. PICK k \in Cases, v \in Versions : k = ctx[r].case /\ v = ctx[r].version BY <1>2, Executing
<1>4. PICK state \in {"succeeded", "uncertain"} : actions' = [actions EXCEPT ![k][v] = state]
  BY <1>3 DEF ReadBackTicket
<1>5. state \in ActionStates \ {"absent"} BY DEF ActionStates, ScriptableFaults
<1>6. \E outcome \in CaseOutcomes : CloseCase(k, outcome) BY <1>3 DEF ReadBackTicket, CaseOutcomes
<1>7. sourceTickets' \subseteq Tickets /\ ticketRevision' \in Nat
  BY <1>1, <1>2, NewTicketType DEF ReadBackTicket, TypeOK
<1> QED BY <1>2, <1>3, <1>4, <1>5, <1>6, <1>7, SettleActionAndReturn DEF ReadBackTicket

-----------------------------------------------------------------------------
(***************************************************************************)
(* The remaining actions, and the invariant                                *)
(***************************************************************************)
\* The steps that only lead to _fail_run.
LEMMA FailInv ==
  ASSUME CaseInv, NEW r \in Requests,
         \/ TriageFails(r) \/ RejectInconsistentFacts(r)
         \/ RejectDecision(r) \/ RejectDuplicate(r)
  PROVE  CaseInv'
<1>1. pc[r] # "idle" /\ Goto(r, "fail_run") /\ UNCHANGED <<rows, runs, ctx, source, crashes>>
  BY DEF TriageFails, RejectInconsistentFacts, RejectDecision, RejectDuplicate,
     Deciding, Running, Resumed
<1> QED BY <1>1, MoveToFailRun

\* The steps that end a handler without touching a row.
LEMMA EndInv ==
  ASSUME CaseInv, NEW r \in Requests,
         CompleteWithoutCase(r) \/ FailRun(r) \/ SubmitConflicts(r)
  PROVE  CaseInv'
<1>1. Return(r) /\ UNCHANGED <<rows, source, crashes>>
  BY DEF CompleteWithoutCase, FailRun, SubmitConflicts
<1>2. runs' \in [Requests -> RunStates]
  BY DEF CaseInv, TypeOK, CompleteWithoutCase, FailRun, SubmitConflicts, SucceedRun, RunStates
<1> QED BY <1>1, <1>2, ReturnWithoutRows

\* Every step of a running handler preserves the invariant.
LEMMA ContinuesInv ==
  ASSUME CaseInv, NEW r \in Requests, Continues(r) PROVE CaseInv'
  BY StartRunInv, TriageInv, FailInv, EndInv, CreateCaseInv, RequestTargetClarificationInv,
     ContinueClarificationInv, SelectTargetInv, CloseCaseInv, InvestigationFailsInv,
     ProposeTicketInv, RequestBusinessClarificationInv, RetryLaterInv, ReviseIssueInv,
     WithdrawProposalInv, AcceptConfirmationInv, DeclineInv, SubmitInv,
     RecordActionFaultInv, ReadBackTicketInv
  DEF Continues

\* Every arriving request preserves the invariant.
LEMMA ArrivesInv ==
  ASSUME CaseInv, NEW r \in Requests, Arrives(r) PROVE CaseInv'
  BY SubmitMessageInv, RetryCaseInv, DecideProposalInv DEF Arrives

\* A restart forgets the handlers and keeps the rows.
LEMMA CrashInv == ASSUME CaseInv, Crash PROVE CaseInv'
<1>1. TypeOK BY DEF CaseInv
<1>2. UNCHANGED <<rows, runs>> BY DEF Crash
<1>3. NoContext \in Contexts BY DEF NoContext, Contexts, Steps
<1>4. Cardinality(tickets) \in Nat BY <1>1, FS_CardinalityType DEF TypeOK
<1>5. crashes' \in 0 .. MaxCrashes BY <1>1, ConstantsAssumption DEF TypeOK, Crash
<1>6. TypeOK' BY <1>1, <1>2, <1>3, <1>4, <1>5 DEF TypeOK, Crash, rows, Steps
<1>7. \A r \in Requests : pc'[r] = "idle" BY DEF Crash
<1>8. HandlersKnowTheirCase' BY <1>7, IdleKnowsNothing DEF HandlersKnowTheirCase
<1> QED BY <1>2, <1>6, <1>8, RowsUnchanged DEF CaseInv

\* The empty database satisfies the invariant.
LEMMA InitInv == Init => CaseInv
<1> SUFFICES ASSUME Init PROVE CaseInv
  OBVIOUS
<1> USE DEF Init
<1>1. TypeOK
  <2>1. AbsentCase \in CaseRows BY DEF AbsentCase, CaseRows, CaseStates, MaxClarifications
  <2>2. 0 \in 0 .. MaxCrashes BY ConstantsAssumption
  <2>3. AbsentProposal \in ProposalRows BY <2>2 DEF AbsentProposal, ProposalRows, ProposalStates
  <2>4. NoContext \in Contexts BY DEF NoContext, Contexts, Steps
  <2>5. IsFiniteSet({}) BY FS_EmptySet
  <2> QED
    BY <2>1, <2>2, <2>3, <2>4, <2>5 DEF TypeOK, ActionStates, RunStates, Steps
<1>2. CasesHaveOwners BY DEF CasesHaveOwners, AbsentCase, AbsentProposal
<1>3. HandlersKnowTheirCase
  BY DEF HandlersKnowTheirCase, HandlerKnowsItsCase, Step, CaseSteps, ProposalSteps, ActionSteps
<1>4. OneOpenCase BY DEF OneOpenCase, IsOpen, AbsentCase
<1>5. PendingMeansAwaited
  BY ConstantsAssumption DEF PendingMeansAwaited, AbsentCase, AbsentProposal, Versions
<1>6. ActionsMatchCases BY DEF ActionsMatchCases, OneExecutionPerCase
<1> QED BY <1>1, <1>2, <1>3, <1>4, <1>5, <1>6 DEF CaseInv

\* Every step, and every stuttering step, preserves the invariant.
LEMMA NextInv == CaseInv /\ [Next]_vars => CaseInv'
<1> SUFFICES ASSUME CaseInv, [Next]_vars PROVE CaseInv'
  OBVIOUS
<1>1. ASSUME NEW r \in Requests, Arrives(r) \/ Continues(r) \/ ReadExistingTickets(r)
      PROVE  CaseInv'
  BY <1>1, ArrivesInv, ContinuesInv, ReadExistingTicketsInv
<1>2. ASSUME NEW k \in Cases, NEW v \in Versions, ExpiryPasses(k, v) PROVE CaseInv'
  BY <1>2, ExpiryPassesInv
<1>3. CASE Crash BY <1>3, CrashInv
<1>4. CASE UNCHANGED vars
  <2>1. UNCHANGED <<rows, source, runs, lock, loop, pc, ctx, crashes>> BY <1>4 DEF vars, control
  <2>2. TypeOK' BY <2>1 DEF CaseInv, TypeOK, rows, source
  <2>3. HandlersKnowTheirCase'
    BY <2>1 DEF CaseInv, HandlersKnowTheirCase, HandlerKnowsItsCase, Step, rows
  <2> QED BY <2>1, <2>2, <2>3, RowsUnchanged DEF CaseInv
<1> QED BY <1>1, <1>2, <1>3, <1>4 DEF Next

-----------------------------------------------------------------------------
(***************************************************************************)
(* What the service guarantees for every value of the constants            *)
(***************************************************************************)
\* Every reachable state of the write path satisfies the inductive invariant:
\* what a handler remembers of its Case across an await is still so.
THEOREM CaseInvariant == Spec => []CaseInv
  BY InitInv, NextInv, PTL DEF Spec

\* Rows and handler locals keep their types, the clarification budget and the
\* Proposal version range included (update_case, append-only Proposals).
THEOREM TypeCorrect == Spec => []TypeOK
<1>1. CaseInv => TypeOK BY DEF CaseInv
<1> QED BY <1>1, CaseInvariant, PTL

\* A Conversation never has two open Cases, and its open Case is the active
\* one: submit_message's check under the lock is enough, although create_case
\* and the schema do not enforce it.
THEOREM AtMostOneOpenCase == Spec => []OneOpenCase
<1>1. CaseInv => OneOpenCase BY DEF CaseInv
<1> QED BY <1>1, CaseInvariant, PTL

\* A pending Proposal is exactly the one its Case is waiting for, whatever
\* decisions, expiries and new investigations interleave.
THEOREM PendingIsAwaitedAlways == Spec => []PendingMeansAwaited
<1>1. CaseInv => PendingMeansAwaited BY DEF CaseInv
<1> QED BY <1>1, CaseInvariant, PTL

\* A Case executes at most one confirmed Proposal, across retries and crashes.
THEOREM AtMostOneExecution == Spec => []OneExecutionPerCase
<1>1. CaseInv => OneExecutionPerCase BY DEF CaseInv, ActionsMatchCases
<1> QED BY <1>1, CaseInvariant, PTL

\* retry_case never finds a write whose outcome is in doubt: its
\* ACTION_RETRY_UNSAFE and ACTION_RETRY_CONFLICT answers are unreachable.
THEOREM RetryIsAlwaysSafe == Spec => []RetryFindsNoDoubt
<1>1. CaseInv => RetryFindsNoDoubt
  <2> SUFFICES ASSUME CaseInv, NEW k \in Cases, cases[k].state = "awaiting_retry"
               PROVE  RetryIsSafe(k)
    BY DEF RetryFindsNoDoubt
  <2>1. \A v \in Versions : actions[k][v] \in {"absent", "failed_retryable"}
    BY DEF CaseInv, ActionsMatchCases
  <2>2. ActionsOf(k, {"submitted", "uncertain"}) = {} BY <2>1 DEF ActionsOf
  <2>3. \A v, w \in Resumable(k) : v = w
    BY DEF CaseInv, ActionsMatchCases, OneExecutionPerCase, Resumable, ActionsOf
  <2>4. Cardinality(Resumable(k)) <= 1
    <3>1. CASE Resumable(k) = {} BY <3>1, FS_EmptySet
    <3>2. CASE Resumable(k) # {}
      <4>1. PICK v \in Resumable(k) : TRUE BY <3>2
      <4>2. Resumable(k) = {v} BY <2>3, <4>1
      <4>3. Cardinality({v}) = 1 BY FS_Singleton
      <4>4. Cardinality(Resumable(k)) = 1 BY <4>2, <4>3
      <4> QED BY <4>4
    <3> QED BY <3>1, <3>2
  <2> QED BY <2>2, <2>4 DEF RetryIsSafe
<1> QED BY <1>1, CaseInvariant, PTL

-----------------------------------------------------------------------------
(***************************************************************************)
(* What no step of the service does to a Case: a closed Case is final, and *)
(* a Case under investigation is written by its own handler only.  Both    *)
(* follow from CaseInv and from one fact about the code: a handler writes  *)
(* the rows of the Case it works on, or creates a Case, and nothing else.  *)
(***************************************************************************)

(* The rows of a Case stay as they are. *)
Kept(k) == cases'[k] = cases[k] /\ proposals'[k] = proposals[k] /\ actions'[k] = actions[k]

-----------------------------------------------------------------------------
(* The handlers' steps, by what they write. *)
WritesNothing(r) ==
    \/ StartRun(r) \/ Triage(r) \/ TriageFails(r) \/ CompleteWithoutCase(r)
    \/ AskTargetAgain(r) \/ ResumeInvestigation(r) \/ RejectInconsistentFacts(r)
    \/ FailRun(r) \/ RejectDecision(r) \/ RejectDuplicate(r) \/ SubmitConflicts(r)

Creates(r) == \E k \in Cases, scope \in EntryScopes : CreateCase(r, k, scope)

MovesCase(r) ==
    \/ RequestTargetClarification(r) \/ SelectTarget(r) \/ CloseAtClarificationLimit(r)
    \/ InvestigationFails(r) \/ ProposeTicket(r) \/ RequestBusinessClarification(r)
    \/ RetryLater(r) \/ CloseAfterInvestigation(r) \/ ReviseIssue(r)

Settles(r) ==
    ExpireProposal(r) \/ InvalidateProposal(r) \/ AcceptConfirmation(r) \/ Decline(r)

Acts(r) ==
    SubmitAction(r) \/ SubmitFaultyAction(r) \/ RecordActionFault(r) \/ ReadBackTicket(r)

(* Every step of a handler is one of them. *)
LEMMA ContinuesCases ==
  ASSUME NEW r \in Requests, Continues(r)
  PROVE  WritesNothing(r) \/ Creates(r) \/ MovesCase(r) \/ Settles(r) \/ Acts(r)
  BY DEF Continues, WritesNothing, Creates, MovesCase, Settles, Acts

(* A handler that writes no row keeps every Case. *)
LEMMA WritesNothingKeeps ==
  ASSUME NEW r \in Requests, WritesNothing(r) PROVE UNCHANGED rows
  BY DEF WritesNothing, StartRun, Triage, TriageFails, CompleteWithoutCase, AskTargetAgain,
     ResumeInvestigation, RejectInconsistentFacts, FailRun, RejectDecision, RejectDuplicate,
     SubmitConflicts

(* A handler writes the Case it works on, or one that did not exist. *)
LEMMA OtherCasesKept ==
  ASSUME CaseInv, NEW r \in Requests, Continues(r),
         NEW k \in Cases, k # ctx[r].case, cases[k].state # "absent" \/ ~Creates(r)
  PROVE  Kept(k)
<1> TypeOK
  BY DEF CaseInv
<1>1. CASE WritesNothing(r)
  BY <1>1, WritesNothingKeeps DEF rows, Kept
<1>2. CASE Creates(r)
  BY ZenonT(150), <1>2 DEF Creates, CreateCase, Kept, TypeOK
<1>3. CASE MovesCase(r)
  <2>1. cases'[k] = cases[k]
    BY ZenonT(150), <1>3 DEF MovesCase, RequestTargetClarification, SelectTarget, CloseAtClarificationLimit,
       InvestigationFails, ProposeTicket, RequestBusinessClarification, RetryLater,
       CloseAfterInvestigation, ReviseIssue, CloseCase, MoveCase, AskCustomer, TypeOK
  <2>2. proposals'[k] = proposals[k] /\ actions'[k] = actions[k]
    BY ZenonT(150), <1>3 DEF MovesCase, RequestTargetClarification, SelectTarget, CloseAtClarificationLimit,
       InvestigationFails, ProposeTicket, RequestBusinessClarification, RetryLater,
       CloseAfterInvestigation, ReviseIssue, TypeOK
  <2> QED BY <2>1, <2>2 DEF Kept
<1>4. CASE Settles(r)
  BY <1>4 DEF Settles, ExpireProposal, InvalidateProposal, AcceptConfirmation, Decline,
     SettleProposal, Kept, TypeOK
<1>5. CASE Acts(r)
  <2>1. UNCHANGED proposals
    BY <1>5 DEF Acts, SubmitAction, SubmitFaultyAction, RecordActionFault, ReadBackTicket
  <2>2. actions'[k] = actions[k]
    BY <1>5 DEF Acts, SubmitAction, SubmitFaultyAction, RecordActionFault, ReadBackTicket, TypeOK
  <2>3. CASE RecordActionFault(r)
    <3>1. ctx[r].fault \in ScriptableFaults
      BY <2>3 DEF RecordActionFault, Running, CaseInv, HandlersKnowTheirCase,
         HandlerKnowsItsCase, Step
    <3>2. (\E o : CloseCase(ctx[r].case, o)) \/ MoveCase(ctx[r].case, "awaiting_retry")
      BY <2>3, <3>1 DEF RecordActionFault, ScriptableFaults
    <3> QED BY <2>1, <2>2, <3>2 DEF CloseCase, MoveCase, Kept, TypeOK
  <2>4. CASE ReadBackTicket(r)
    BY <2>1, <2>2, <2>4 DEF ReadBackTicket, CloseCase, Kept, TypeOK
  <2>5. CASE SubmitAction(r) \/ SubmitFaultyAction(r)
    BY <2>1, <2>2, <2>5 DEF SubmitAction, SubmitFaultyAction, Kept
  <2> QED BY <1>5, <2>3, <2>4, <2>5 DEF Acts
<1> QED BY <1>1, <1>2, <1>3, <1>4, <1>5, ContinuesCases

(* A handler that moves its Case or executes knows that it is not closed. *)
LEMMA WorkedOnIsOpen ==
  ASSUME CaseInv, NEW r \in Requests, MovesCase(r) \/ Acts(r)
  PROVE  ctx[r].case \in Cases /\ cases[ctx[r].case].state # "closed"
<1>1. pc[r] \in {"ask_target", "clarification", "investigate"} \cup ActionSteps
  BY ZenonT(150) DEF MovesCase, Acts, RequestTargetClarification, SelectTarget, CloseAtClarificationLimit,
     InvestigationFails, ProposeTicket, RequestBusinessClarification, RetryLater,
     CloseAfterInvestigation, ReviseIssue, SubmitAction, SubmitFaultyAction, RecordActionFault,
     ReadBackTicket, Running, Resumed, ActionSteps
<1>2. Step(r) = pc[r] /\ Step(r) \in CaseSteps
  BY <1>1 DEF Step, CaseSteps, ProposalSteps, ActionSteps
<1>3. HandlerKnowsItsCase(r)
  BY DEF CaseInv, HandlersKnowTheirCase
<1>4. ctx[r].case \in Cases /\ cases[ctx[r].case].state \in StatesAt(pc[r])
  BY <1>2, <1>3 DEF HandlerKnowsItsCase
<1> QED BY <1>1, <1>4, StepsAreDistinct DEF ActionSteps

(* A decision that is not rejected finds the Proposal its Case awaits. *)
LEMMA SettledIsAwaited ==
  ASSUME CaseInv, NEW r \in Requests, Settles(r)
  PROVE  cases[ctx[r].case].state = "awaiting_customer_confirmation"
<1>1. pc[r] \in {"confirmation", "decline"} /\ Validation(r) \in {"valid", "expired"}
  BY DEF Settles, ExpireProposal, InvalidateProposal, AcceptConfirmation, Decline, Deciding,
     Running
<1>2. ctx[r].case \in Cases /\ ctx[r].version \in Versions
  BY <1>1 DEF CaseInv, HandlersKnowTheirCase, HandlerKnowsItsCase, Step, CaseSteps, ProposalSteps
<1>3. proposals[ctx[r].case][ctx[r].version].state = "pending_confirmation"
  BY <1>1 DEF Validation
<1> QED BY <1>2, <1>3, ConstantsAssumption DEF CaseInv, PendingMeansAwaited, Versions

(* No handler writes a closed Case. *)
LEMMA ClosedKept ==
  ASSUME CaseInv, NEW r \in Requests, Continues(r), NEW k \in Cases, cases[k].state = "closed"
  PROVE  Kept(k)
<1>1. CASE k # ctx[r].case
  BY <1>1, OtherCasesKept
<1>2. CASE k = ctx[r].case
  <2>1. ~MovesCase(r) /\ ~Acts(r)
    BY <1>2, WorkedOnIsOpen
  <2>2. ~Settles(r)
    BY <1>2, SettledIsAwaited
  <2>3. CASE WritesNothing(r)
    BY <2>3, WritesNothingKeeps DEF rows, Kept
  <2>4. CASE Creates(r)
    BY <2>4 DEF Creates, CreateCase, Kept, CaseInv, TypeOK
  <2> QED BY <2>1, <2>2, <2>3, <2>4, ContinuesCases
<1> QED BY <1>1, <1>2

(* A request that arrives moves a Case that awaits a retry, and none whose
   Conversation is locked. *)
LEMMA ArrivalKeeps ==
  ASSUME CaseInv, NEW r \in Requests, Arrives(r), NEW k \in Cases,
         cases[k].state # "awaiting_retry" \/ lock[cases[k].conversation] # None
  PROVE  Kept(k)
<1>1. CASE \E c \in Conversations : SubmitMessage(r, c)
  BY <1>1 DEF SubmitMessage, rows, Kept
<1>2. ASSUME NEW o \in Cases, RetryCase(r, o) PROVE Kept(k)
  <2>1. o # k
    BY ZenonT(150), <1>2 DEF RetryCase, IsRetryable, Enter, NoContext
  <2> QED BY ZenonT(150), <1>2, <2>1 DEF RetryCase, MoveCase, Kept, CaseInv, TypeOK
<1>3. CASE \E o \in Cases, v \in Versions, asked \in Versions :
               DecideProposal(r, o, v, asked, "confirmation") \/ DecideProposal(r, o, v, asked, "decline")
  BY <1>3 DEF DecideProposal, rows, Kept
<1> QED BY <1>1, <1>2, <1>3 DEF Arrives

(* Only a pending Proposal expires, and its Case awaits the decision. *)
LEMMA ExpiryKeeps ==
  ASSUME CaseInv, NEW o \in Cases, NEW v \in Versions, ExpiryPasses(o, v),
         NEW k \in Cases, cases[k].state # "awaiting_customer_confirmation"
  PROVE  Kept(k)
<1>1. cases[o].state = "awaiting_customer_confirmation"
  BY ConstantsAssumption DEF ExpiryPasses, CaseInv, PendingMeansAwaited, Versions
<1> QED BY <1>1 DEF ExpiryPasses, Kept, CaseInv, TypeOK

-----------------------------------------------------------------------------
(* Case CLOSED is terminal: no message, retry, decision, late investigation
   or restart changes a closed Case, its Proposals or its actions. *)
THEOREM ClosedCaseIsFinal == Spec => ClosedIsFinal
<1>1. ASSUME CaseInv, [Next]_vars, NEW k \in Cases, cases[k].state = "closed"
      PROVE  Kept(k)
  <2>1. ASSUME NEW r \in Requests, Arrives(r) PROVE Kept(k)
    BY <1>1, <2>1, ArrivalKeeps
  <2>2. ASSUME NEW r \in Requests, Continues(r) PROVE Kept(k)
    BY <1>1, <2>2, ClosedKept
  <2>3. ASSUME NEW r \in Requests, ReadExistingTickets(r) PROVE Kept(k)
    BY <2>3 DEF ReadExistingTickets, rows, Kept
  <2>4. ASSUME NEW o \in Cases, NEW v \in Versions, ExpiryPasses(o, v) PROVE Kept(k)
    BY <1>1, <2>4, ExpiryKeeps
  <2>5. CASE Crash
    BY <2>5 DEF Crash, rows, Kept
  <2>6. CASE UNCHANGED vars
    BY <2>6 DEF vars, rows, Kept
  <2> QED BY <1>1, <2>1, <2>2, <2>3, <2>4, <2>5, <2>6 DEF Next
<1>2. CaseInv /\ [Next]_vars =>
        [\A k \in Cases : cases[k].state = "closed" =>
           cases'[k] = cases[k] /\ proposals'[k] = proposals[k] /\ actions'[k] = actions[k]]_vars
  BY <1>1 DEF Kept
<1> QED BY <1>2, CaseInvariant, PTL DEF Spec, ClosedIsFinal

(* What _apply_investigation_result remembers of its Case is still so when
   the investigation answers: no other handler, no expiry and no later request
   writes the Case or its Proposals meanwhile. *)
THEOREM InvestigationOwnsItsCase == Spec => InvestigatedCaseIsStable
<1>1. ASSUME CaseInv, [Next]_vars, NEW r \in Requests,
             pc[r] = "investigate", pc'[r] = "investigate",
             ctx'[r].revisable = ctx[r].revisable
      PROVE  Kept(ctx[r].case)
  <2> DEFINE k == ctx[r].case
  <2>1. /\ k \in Cases /\ cases[k].state \in {"investigating", "awaiting_customer_input"}
        /\ cases[k].conversation = ctx[r].conversation
        /\ ctx[r].conversation \in Conversations /\ lock[ctx[r].conversation] = r
    BY <1>1, StepsAreDistinct
    DEF CaseInv, HandlersKnowTheirCase, HandlerKnowsItsCase, Step, CaseSteps, ProposalSteps
  <2>2. TypeOK /\ r # None
    BY <1>1, ConstantsAssumption DEF CaseInv
  <2> HIDE DEF k
  <2>3. ASSUME NEW q \in Requests, Arrives(q) PROVE Kept(k)
    BY <1>1, <2>1, <2>2, <2>3, ArrivalKeeps
  <2>4. ASSUME NEW q \in Requests, q # r, Continues(q) PROVE Kept(k)
    <3>1. CASE ctx[q].case # k
      BY <1>1, <2>1, <2>4, <3>1, OtherCasesKept
    <3>2. CASE ctx[q].case = k /\ (MovesCase(q) \/ Acts(q) \/ Settles(q))
      <4>1. Step(q) \in CaseSteps /\ pc[q] # "idle"
        BY ZenonT(150), <3>2 DEF MovesCase, Acts, Settles, RequestTargetClarification, SelectTarget,
           CloseAtClarificationLimit, InvestigationFails, ProposeTicket,
           RequestBusinessClarification, RetryLater, CloseAfterInvestigation, ReviseIssue,
           SubmitAction, SubmitFaultyAction, RecordActionFault, ReadBackTicket, ExpireProposal,
           InvalidateProposal, AcceptConfirmation, Decline, Deciding, Running, Resumed, Step,
           CaseSteps, ProposalSteps, ActionSteps
      <4>2. cases[k].conversation = ctx[q].conversation /\ lock[ctx[q].conversation] = q
        BY <1>1, <3>2, <4>1 DEF CaseInv, HandlersKnowTheirCase, HandlerKnowsItsCase
      <4> QED BY <2>1, <2>4, <4>2
    <3>3. CASE WritesNothing(q)
      BY <3>3, WritesNothingKeeps DEF rows, Kept
    <3>4. CASE Creates(q)
      BY <2>1, <2>2, <3>4 DEF Creates, CreateCase, Kept, TypeOK
    <3> QED BY <2>4, <3>1, <3>2, <3>3, <3>4, ContinuesCases
  <2>5. CASE Continues(r)
    <3>1. CASE WritesNothing(r)
      BY <3>1, WritesNothingKeeps DEF rows, Kept
    <3>2. CASE ReviseIssue(r)
      BY <1>1, <2>2, <3>2 DEF ReviseIssue, TypeOK, Contexts
    <3>3. CASE Creates(r) \/ Settles(r) \/ Acts(r)
      BY <1>1, <3>3 DEF Creates, CreateCase, Settles, Acts, SubmitAction, SubmitFaultyAction,
         RecordActionFault, ReadBackTicket, ExpireProposal, InvalidateProposal,
         AcceptConfirmation, Decline, Deciding, Running, Resumed
    <3>4. CASE MovesCase(r) /\ ~ReviseIssue(r)
      BY <1>1, <2>2, <3>4 DEF MovesCase, RequestTargetClarification, SelectTarget,
         CloseAtClarificationLimit, InvestigationFails, ProposeTicket,
         RequestBusinessClarification, RetryLater, CloseAfterInvestigation, Running, Resumed,
         Goto, Await, Return, TypeOK
    <3> QED BY <2>5, <3>1, <3>2, <3>3, <3>4, ContinuesCases
  <2>6. ASSUME NEW q \in Requests, ReadExistingTickets(q) PROVE Kept(k)
    BY <2>6 DEF ReadExistingTickets, rows, Kept
  <2>7. ASSUME NEW o \in Cases, NEW v \in Versions, ExpiryPasses(o, v) PROVE Kept(k)
    BY <1>1, <2>1, <2>7, ExpiryKeeps
  <2>8. CASE Crash \/ UNCHANGED vars
    BY <2>8 DEF Crash, vars, rows, Kept
  <2> QED BY <1>1, <2>3, <2>4, <2>5, <2>6, <2>7, <2>8 DEF Next, k
<1>2. CaseInv /\ [Next]_vars =>
        [\A r \in Requests :
           LET k == ctx[r].case IN
           pc[r] = "investigate" /\ pc'[r] = "investigate"
             /\ ctx'[r].revisable = ctx[r].revisable =>
             cases'[k] = cases[k] /\ proposals'[k] = proposals[k]]_vars
  BY <1>1 DEF Kept
<1> QED BY <1>2, CaseInvariant, PTL DEF Spec, InvestigatedCaseIsStable
=============================================================================
