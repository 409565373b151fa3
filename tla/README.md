# A verification of the after-sales agent

The program is a demonstration of an after-sales service for logistics: customers
write messages in a Conversation, a triage model and a policy router decide
whether a report becomes an investigation Case, an agent investigates it with
read-only tools, a deterministic gate may offer a logistics ticket, and only the
customer's exact confirmation lets a deterministic executor write that ticket.
Everything runs in one Python process: FastAPI handlers on one asyncio loop over
SQLite, with an event log the browser follows over SSE. Beside the service stands an
evaluation that measures the agent against live providers from the command line, under
budgets that are kept in files.

These modules model the parts where order, concurrency, failure and limits matter. Paths
below are relative to `src/src/after_sales_agent/` unless they start with `docs/`,
`tests/` or `frontend/`.

## 1. Inventory

| Component | State | Operations | Interacts with | What must hold |
|---|---|---|---|---|
| Case write path (`application/service.py`, `storage/repositories.py`) | Conversation, Case, Run, Proposal, Action, Ticket rows | `submit_message`, `retry_case`, `confirm_proposal`, `decline_proposal`, `_submit_and_verify_ticket_action`, `reset_demo` | every other component | one open Case per Conversation; a Proposal is pending exactly while it is awaited; one executed action per Case; no write without a confirmation, none twice; every open Case can be moved on |
| Conversation serialization (`storage/locks.py`) | one asyncio lock per Conversation | `serialize` | all mutating handlers | a handler's remembered Case stays true across its awaits |
| Ticket source (`fixtures/catalog.py`) | `_dynamic_tickets`, `_ticket_revision`, consumed faults | `get_active_tickets`, `add_ticket`, `source_revision`, `consume_action_fault` | read tools, revalidation, executor | the view equals the persisted tickets, restarts included |
| Investigation loop (`application/investigation.py`, `adaptive_core.py`, `agents/graph.py`) | graph checkpoint, tool records, progress | `investigate` | tools, gate, events | ends within its budgets; never decides on missing or stale evidence |
| Strong workflow (`application/strong_workflow.py`) | none | `investigate` | tools, gate | the evaluation's deterministic baseline |
| Tool governance (`tools/`) | per-Case cache, attempt counts, Case and Run budgets | `execute_result`, `retry_exhausted_for` | catalog, loop | six actual reads per Case, at most one retry of a read, no stale cache hit |
| Case facts (`application/case_facts.py`, `domain/case_facts.py`) | assertions, questions, consumptions | `record_question`, merge, snapshot | clarifications, gate | each answer is consumed once, the snapshot is the ledger's |
| Evidence gate (`policy/evidence_gate.py`) | none | `evaluate` | loop, revalidation | no proposal on unavailable or conflicting evidence |
| Triage and router (`agents/triage.py`, `application/policy_router.py`) | none | `classify`, `route` | `submit_message` | a request survives what is blocked around it; a supported one names an order of the customer |
| Policy RAG (`policy/rag.py`, `corpus.py`) | index file, the index each process holds | `build_or_load`, `resolve`, `validate_policy_binding` | loop, gate, confirmation | a cited clause is the one active clause of the deployed corpus |
| Event log and SSE (`events/store.py`, `api/app.py`) | event rows, hub of queues | `append`, `list_after`, `subscribe` | all handlers, browser | no event skipped, repeated or reordered |
| Browser (`frontend/src`) | received events, cursor, the busy flags and controls, a conversation id in local storage | `useConversationEvents`, `App.tsx`, `conversationTimeline.ts`, `ProposalCard.tsx` | API | shows the log's prefix; offers what the service accepts |
| V3 measurement (`evals/v3/budget.py`, `execution_package.py`, `real_runner.py`, `formal_path_canary.py`) | package, budget ledger, run databases, records, reports | authorize, execute, restart of Development, contingency, Locked and canary identities | loop, provider, files | no call outside the ledger, no ceiling passed, no report on incomplete runs |
| Locked freeze (`evals/v3/locked.py`) | cases, inputs, freeze, probe, report, the git tree | create, probe, authorize, execute | the owner's edits and commits | what was accepted is what was frozen |
| Rescue and diagnostics (`evals/v3/a0_rescue.py`, `diagnostics.py`) | one ledger file each | one command each | provider | ceilings hold over restarts |
| V2 harness, scripts (`evals/`, `scripts/`) | report files | batch runs | service | outside the service |
| Transition tables (`domain/transitions.py`, and again in `update_run`, `update_proposal_state`, `update_action_state`) | none | `transition_*` (not called by the service), `update_*` | every handler | no handler asks for a refused move (Cases: see section 6) |
| Agents and providers (`agents/`), storage infrastructure (`storage/`) | none; tables | prompts and provider calls; transactions, migrations | everything | nondeterministic answers; atomic, durable transactions |

The hard behaviours are: handlers suspended for seconds inside an investigation
while others run; confirmation, expiry, decline and retry of the same Proposal;
two Conversations that ask for the same ticket; write outcomes that are failed,
retryable or unknown; a restart between two transactions of one handler; reads that
fail for now or for good, a source that moves while the agent thinks, and caches and
budgets that outlive the Run; replay of events racing new ones; answers and events that
reach the page in any order or not at all; measurement commands that die between a call
and its record, or run twice at once; an owner who edits and commits between the
checks of a command; processes that share an index file. `PROJECT.json` lists each at its
line under `hazards`.

## 2. Modules

| Module | What it is |
|---|---|
| `CaseLifecycle` | the write path, its lock, the event loop, the ticket source, the clock and restarts |
| `TicketPromise` | abstract: what a customer is promised about tickets; `CaseLifecycle` implements it (`KeepsPromise`) |
| `EventLog` | event store, hub, SSE streams and the browser's reconnecting reader |
| `OrderedDelivery` | abstract: each view shows the next event only; `EventLog` implements it (`KeepsOrder`) |
| `ObservationCore` | `adaptive_core.py`: which query may be asked next and why one is rejected, as operators |
| `EvidenceGate` | `evidence_gate.py`: both decision tables, the policy guard, unavailable evidence, issue correction, as operators |
| `ToolCache` | the cache of a Case: keys, sharing, the one retry, rebuilding from the rows |
| `CaseFacts` | the one fact question of a Case, its answer, the stored and the rebuilt snapshot |
| `Investigation` | the Runs of one Case over those four: the graph's nodes, the governed tools, the service's use of the result |
| `GovernedReading` | abstract: which reads of the sources a Case may ever make; `Investigation` implements it (`KeepsGovernance`) |
| `BudgetLedger` | `budget.py`: the append-only ledger of provider calls, as operators |
| `Campaign` | the measurement identities over that ledger, with several processes and crashes |
| `Rescue`, `Diagnostics` | the two commands that ask the provider outside a campaign |
| `LockedFreeze` | data, freeze, probe, authorization and acceptance of the Locked evaluation against an owner at work |
| `PolicyResolution` | the index file shared by processes, deployments, the resolver and the binding of a Proposal |
| `TriageRouting` | what a message without an open Case becomes |
| `CustomerPage` | the page's state and controls, from answers and events that come independently |
| `Standalone` | one of the last seven machines at a time: they share no variable and no file |
| `MCCaseLifecycle`, `MCEventLog`, `MCInvestigation`, `MCStandalone`, `MCCustomerPage` | instances for TLC |
| `CaseLifecycle_proofs`, `CaseTickets_proofs`, `EventLog_proofs`, `Investigation_proofs`, `InvestigationGate_proofs`, `LockedFreeze_proofs`, `Campaign_proofs`, `Standalone_proofs` | theorems and proofs, checked by TLAPS |

Definitions that have a comment naming a variant, and no use in the specification, are
plausible wrong versions of the definition that follows them; every property is tested
against one (`mutants` in `PROJECT.json`).

### CaseLifecycle

*State.* Each persistent table is a function of its key: `activeCase`, `cases`,
`proposals` (by Case and version), `actions` (one for each Proposal, as the unique
constraint has it), `tickets`, `runs` (the latest of each request). Volatile state
is the lock of each Conversation, `pc` and `ctx` (the continuation and the locals of
each request), `loop` (the request the event loop is running) and the ticket source.

*Steps.* An action is one transaction, or the piece of a handler between two
suspensions. A handler that reaches an `await` which really suspends (triage, pacing,
investigation) releases `loop` (`Await`); between two transactions without such an
await it keeps it (`Goto`), so no other handler runs there, but a `Crash` may come.
Appending an event commits synchronously and takes an uncontended lock, which does not
suspend; after its last transaction a handler only emits events, so the model lets it
return there. `Return` is the end of `async with serialize(...)`.

| Code | Actions |
|---|---|
| `submit_message` | `SubmitMessage`, `StartRun`, `Triage`, `TriageFails`, `CompleteWithoutCase`, `CreateCase` |
| target package questions | `RequestTargetClarification`, `AskTargetAgain`, `SelectTarget` |
| `_continue_business_clarification` | `CloseAtClarificationLimit`, `ResumeInvestigation`, `RejectInconsistentFacts` |
| tool reads during the investigation | `ReadExistingTickets` |
| `_apply_investigation_result` | `ProposeTicket`, `RequestBusinessClarification`, `RetryLater`, `CloseAfterInvestigation`, `ReviseIssue`, `InvestigationFails` |
| `retry_case` | `RetryCase` (either branch) |
| `confirm_proposal`, `decline_proposal` | `DecideProposal`, `RejectDecision`, `ExpireProposal`, `RejectDuplicate`, `InvalidateProposal`, `AcceptConfirmation`, `Decline` |
| executor | `SubmitAction`, `SubmitConflicts`, `SubmitFaultyAction`, `RecordActionFault`, `ReadBackTicket` |
| `_fail_run` | `FailRun` |
| clock, process | `ExpiryPasses`, `Crash` |

*Data.* An order is a value with a set of packages. A gate result is any outcome the
ticket reads allow: the agent, its tools and the policy are nondeterministic, except
that the gate offers a ticket only after a completed read that showed none; an issue
correction keeps the rows that were read (`seen`).

A confirmation compares three parts of a Proposal (`Revalidated`, `MayBeRedeployed`). `evidence` is the ticket revision the Proposal was made at. `stands` says whether the
gate, evaluated again by `_revalidate_gate`, would propose again: that function rebuilds the
signed-not-received evidence without the locations the customer has checked, so a Proposal made
after the reception question does not stand, unless a deployment changed the proof since
(`Reproposals`). The policy binding, the fact identity, the snapshot and the revisions of the
other sources live in files and fixtures that a running process reads once: they can differ
only in another process, so a Proposal carries its `process` and may fail when it meets a later
one (`MayBeRedeployed`). `reception` in the Case row says in which process the customer was
asked about the reception. A Proposal that is settled forgets these parts (`Settled`), because
nothing reads them any more.

Immutable tickets and investigations of the fixture only make a
read say "active"; every outcome that follows is in the model anyway.

### EventLog

One Conversation. An event is its sequence number. `AppendEvent` commits and notifies
in one step, which the code does because the hub's lock is never held across a
suspension. A stream is a generator of the SSE endpoint: `Connect` is the request with
its cursor, `StartStream` registers the queue and queries the first page, then
`SendReplayed`, `NextPage` and `SendLive` each run to the next suspension. `EndStream`
is the server noticing a dropped connection, `Unregister` the `finally`, which may run
later. `Receive` is `handleFrame` with its deduplication and its cursor; frames of a
lost connection are lost; a reload starts without a cursor; a `Restart` drops every
stream. `PageSize` stands for the limit of 500. `reset_demo` deletes a Conversation:
the model follows one until then (a reset in the middle of a paged replay would
let the stream skip what was deleted).

### Investigation

*State.* `case` is the Case row, `ledger` and `stored` the fact ledger and the fact
snapshot, `history` the ToolCall rows, all persistent; `cache` is the Case's cache,
`results`, `last`, `budget` and `call` the graph's state, `run` the locals of the handler,
`source` the ticket source. `world` is what the sources say about the order, chosen at the
start. `used` counts the bounds and the turns really taken.

*Steps.* `pc` names the graph's node: `agent` (the callbacks that decide before the
selector is asked), `select` (the language model, which suspends), `tools`, `gate`. A
restart is only taken between two Runs, because one within a Run strands the Case, which
`CaseLifecycle` models (`stranded_case`). The ticket source moves at any suspension.

| Code | Actions |
|---|---|
| `investigate`, up to the graph | `StartRun`, part of each action that begins a pass |
| `before_selector` | `RetrySourceChanged`, `EmitExactRetry`, `StopObserving`, and the conditions of `TakeTurn` |
| `call_model`, refusing a turn | `TurnRefused` |
| `select_observation` | `AcceptObservation`, `AcceptFinish`, `CorrectSelector`, `RejectObservation` |
| provider failure, in `_create_and_investigate_case`, `retry_case` or the corrected pass | `InvestigationFails` |
| `execute_result` and `on_tool_result` | `CacheHit`, `BlockCall`, `ReadSource` |
| `investigate`, from the graph to the gate, and `_apply_investigation_result` | `CloseAfterInvestigation`, `ProposeTicket`, `RetryLater`, `RequestBusinessClarification`, `ReviseIssue` |
| `_create_and_investigate_case` | `FirstInvestigation` |
| `_continue_business_clarification` | `AnswerClarification`, `CloseAtClarificationLimit` |
| `retry_case` | `Retry`, `RetryFails` |
| a decision on a Proposal that lapsed | `ProposalLapses` |
| `add_ticket`, by another request | `TicketSourceChanges` |

The selector is a language model, so any candidate may come at any turn. Payloads are
reduced to the facts the gate tells apart (`SourceValue`).

### The measurement programmes

`Campaign` walks an identity through its planned runs. An action is one file operation or
one call: `SetUp` opens the run's database, `TakeTurn` admits a call in the ledger under
the file lock, `Send` and `Answer` are the call, `KeepRun`, `CheckRecord` and
`WriteRecord` save the record (checked and written in two steps, as the code does),
`BuildReport` and `PublishReport` the report. A process may die between any two of
them, files may be cut off, and two processes may work on one identity.
`CorrectedPass` is the second pass of a live agent run, which the code calls without
the observer (section 6). `Rescue` and `Diagnostics` are single commands with a ledger and a
counter in memory. In `LockedFreeze`, each check of a command is a step, and `Edit`,
`Commit`, `Checkout` and `Interrupt` come between them; a digest is the version of the file.

### PolicyResolution, TriageRouting, CustomerPage

`PolicyResolution`: `LoadOrBuild` reads and validates the index file, `OpenTmp`,
`WriteTmp` and `ReplaceIndex` write it, in processes that were deployed with different
corpora; `Search` resolves, `ValidateBinding` is the check at confirmation. A content hash
is the content; the ranking is any.

`TriageRouting`: a message is the set of pattern families its text matches and the order
ids in it, in their order of writing; `SubmitMessage` classifies it with the deterministic
classifier or a live model, normalizes, routes and applies the entry question limit. An
order id that touches a Chinese letter is not an id for the pattern's word boundary, or is
cut: `CutId`.

`CustomerPage`: `page` holds the React state, `requests` the calls with their answers,
`service` the open Case and the event log of each Conversation. `Serve` runs a handler and
appends its events, `Deliver` and `ReadEvent` bring the answer and the next event to
the page in any order, `LoseAnswer`, `Reload` and `ProposalExpires` are what may go wrong.

## 3. Runs

| Run | Instance | Shows |
|---|---|---|
| `case_core` | 2 Conversations, 2 Cases, 2 requests, one order, all faults | `TypeOK`, `OneOpenCase`, `OnlyRefusedWritesStrand`, `InvestigatedCaseIsStable`, `KeepsPromise`, `FirstWritesDoNotOverlap`, `RunsSettle` |
| `case_retries` | 1 Conversation, 2 Cases, 2 Proposals each, all faults, one restart | `PendingMeansAwaited`, `OneExecutionPerCase`, `RetryFindsNoDoubt`, `TicketsAreAccounted`, `SourceShowsTickets`, `ClosedIsFinal` |
| `case_fair` | 2 Conversations, 2 requests, 1 Case, 2 Proposals, two packages, all faults, fairness, no restart | `RequestsEnd` |
| `events` | 2 browsers, 2 streams, 3 events, pages of 2, two faults, fairness | `StreamsMissNothing`, `StreamsOnlyAdvance`, `KeepsOrder`, `ViewsCatchUp`, `QueuesAreReleased` |
| `investigation` | 3 Runs, two orders (delivered in two packages with a reception proof; shipped and overdue with an alert), one trouble among failing ticket reads, provider failures, a restart and a changed source | `CaseBudgets`, `ProposalIsGrounded`, `FreshTickets`, `RetryLaterCanRead`, `GivesUpAfterRetry`, `OpenQuestionIsAnswerable`, `KeepsGovernance`, `RunAdvances` |
| `standalone` | each of the seven machines from its own start | see below |
| `duplicate_write` | 2 Conversations, retryable fault | **violation** of `SubmitsOnlyWithoutDuplicate` |
| `unrelated_ticket` | 2 Conversations, 2 orders | **violation** of `OnlyRelevantChangeInvalidates` |
| `stranded_case` | 1 Conversation, one restart | **violation** of `OpenCaseHasMove` |
| `corrected_tickets` | 1 Run, a late report of a delivered package, one ticket of another request | **violation** of `NoProposalOverTicket` |
| `retry_snapshot` | 1 Run that fails | **violation** of `RetryFindsItsFacts` |
| `page_retry_path` | 2 conversations, 4 requests, one reload | **violation** of `VisibleRetryPath` |

The properties of `standalone`:

| Machine | Property | Says |
|---|---|---|
| `Campaign` | `LedgerGovernsCalls` | no observed call is made that the ledger does not hold, none twice, no ceiling is passed |
| | `RecordsCountEveryCall` | records and reports count the calls that left, those before a crash included |
| | `FavourableMeansComplete` | a favourable report rests on complete, good runs that asked the provider |
| | `OneBudgetForBoth` | the contingency identity adds no second budget to a first that was touched |
| | `FailureLeavesReport` | a command that fails leaves its report |
| `Rescue` | `RescueKeepsBudget` | the ceiling, counted in memory, holds over restarts |
| `Diagnostics` | `DiagnosticsKeepBudget` | ceilings over starts, revisions and manifests; a pass is of this revision and manifest |
| `LockedFreeze` | `LockedRunsWhatWasFrozen` | the accepted report is of the frozen code and inputs |
| `PolicyResolution` | `ResolvesTheAuthority` | APPLICABLE cites the one active clause; an accepted binding still is one |
| `TriageRouting` | `RequestSurvivesUnsafeFragments` | blocked fragments around a supported request do not change it |
| `CustomerPage` | `ShowsTheChosenConversation` | a late answer to an earlier choice does not replace a later one |
| | `PageComesToRest` | when all has arrived, no control stays busy and what is offered is accepted |

*Bounds.* Two Conversations are needed for a competitor, two Cases for a closed one
beside an open one or for two that want the same ticket, two requests for one suspended handler and
one that runs. Handlers of one Conversation take turns under its lock, so in `case_retries` a single
request, which comes again and again, stands for all of them. A ticket without a target and one for
the package overlap although no index keeps them apart, so one package is enough for
`FirstWritesDoNotOverlap`; with two Cases and all faults `case_core` has the resumed write
that the index refuses, the exception `OnlyRefusedWritesStrand` and `RunsSettle` name. In
`case_fair` one Case is enough: a handler that such a refusal ends has ended. A second
Proposal shows what the first leaves behind; Proposals of one Case only meet through
the Case row. One restart reaches every pair of transactions, and what it leaves is an
ordinary starting point for all later requests. In `EventLog`, two streams give each browser one, or one browser
an abandoned and a running one; three events and pages of two give a full page and a short
one, with events arriving in between; what holds for more streams, events and faults is
proved (section 5).

`Investigation` has the code's six reads of a Case and eight turns of a Run. The turns of
a Case are 11 instead of 16, so that the limit bites within three Runs; with 16 and
with a third order the model was run as well, without an error. Three
Runs are a first one, one that meets what the first left, and one that meets what a retry
or an answer left. Its one trouble is placed at every step.

The ceilings of `Campaign` (three calls for an identity of two runs of at most two
turns, two calls of a run, a threshold that the second answer passes) are all reached.
Two processes and one crash give every overlap of two commands. `LockedFreeze`
has one edit and one interruption, `PolicyResolution` one deployment and one tick;
`TriageRouting` has seven of the seventeen families. The larger instances (three Locked
runs, two edits, two ticks and two deployments, all families) were run one machine at a
time, without an error. `CustomerPage` has two conversations, four requests and one
reload. Symmetry is used for the measurement processes only: the other sets of
`standalone` are ordered, or a single element of them is chosen.

*Deadlock* is not checked where the number of Cases, events, requests or commands is
bounded: those systems may stop with nothing to do. `investigation`, `corrected_tickets`
and `retry_snapshot` check it.

*Fairness.* `case_fair` assumes strong fairness of a handler's own steps
(`Continues`). The event loop serves ready callbacks in FIFO order, so a
handler that can be resumed is not passed over for ever by others, and the
provider's timeouts end every triage and investigation; tool reads
(`ReadExistingTickets`) are not progress and not in `Continues`. Nothing is assumed
about customers: no message, decision or retry is ever forced. `events` assumes
weak fairness of each stream, each reader and its reconnection; the number of faults
is bounded, because a connection that always breaks delivers nothing. `investigation`
needs no fairness: `RunAdvances` says that every step of a Run but a change of the source
lowers a natural number, so that a Run that takes its steps ends, and deadlock freedom
that it can take one. `CaseLifecycle` takes from this that an investigation ends.

## 4. What the violations say

* `duplicate_write`: `retry_case` resumes a write without the duplicate check that
  `confirm_proposal` makes (`service.py:2424`, against
  `docs/AGENT-MODULE-MATRIX.md:34` and `docs/DOMAIN-CONTRACTS.md:543`). With the same
  target, the unique index stops the second ticket with an `IntegrityError` that
  `_submit_and_verify_ticket_action` does not catch (`service.py:2825`): the Case stays
  executing and its Run running, without any restart, and no request moves either again. That
  is the one exception of `OnlyRefusedWritesStrand` and `RunsSettle`. First writes never overlap
  (`FirstWritesDoNotOverlap`), and without retryable faults no tickets do (`NoTicketsOverlap`).
* `unrelated_ticket`: the ticket revision is one counter for all orders, so any ticket
  invalidates every pending Proposal (`fixtures/catalog.py:407`, against
  `docs/DOMAIN-CONTRACTS.md:539`).
* `stranded_case`: startup does not recover Cases (`service.py:866`): after a restart
  a Case that was investigating or executing is refused by every entry point.
* `retry_snapshot`: `load_snapshot` demands that the stored fact snapshot be the one
  rebuilt from the ledger and the tool rows (`service.py:2489`). A Run that reads the
  delivery proof and then fails changes the second and never stores the first, so every
  retry fails for ever (against `docs/v3/02-evaluation-gates-and-lineage.md:449`).
* `corrected_tickets`: the corrected pass finds the rows its Run has read already
  (`service.py:2012`, `investigation.py:223-250`), in which the tickets were read for the old issue. The gate sees "no active
  ticket" and proposes although the source shows one for the corrected issue (against
  `docs/DOMAIN-CONTRACTS.md:483-493`). `confirm_proposal` looks in the ticket table itself and
  refuses such a Proposal, so no second ticket comes of it, but the customer was offered one.
* `page_retry_path`: the page derives its retry control from two event types
  (`frontend/src/lib/conversationTimeline.ts:232`); a Case suspended by a failed Run or
  by an expired or outdated Proposal has none, and its composer is refused (against
  `docs/AGENT-MODULE-MATRIX.md:35`).

## 5. What is proved

For every value of the constants that satisfies the named assumptions:

| Module | Theorem | States `Spec =>` |
|---|---|---|
| `CaseLifecycle_proofs` | `CaseInvariant` | `[]CaseInv` |
| | `TypeCorrect` | `[]TypeOK` |
| | `AtMostOneOpenCase` | `[]OneOpenCase` |
| | `PendingIsAwaitedAlways` | `[]PendingMeansAwaited` |
| | `AtMostOneExecution` | `[]OneExecutionPerCase` |
| | `RetryIsAlwaysSafe` | `[]RetryFindsNoDoubt` |
| | `ClosedCaseIsFinal` | `ClosedIsFinal` |
| | `InvestigationOwnsItsCase` | `InvestigatedCaseIsStable` |
| `CaseTickets_proofs` | `TicketsAlwaysAccounted` | `[]TicketsAreAccounted` |
| | `SourceAlwaysShowsTickets` | `[]SourceShowsTickets` |
| | `FirstWritesNeverOverlap` | `FirstWritesDoNotOverlap` |
| | `NoTicketsOverlap` | `[]NoOverlappingTickets`, if no write fails retryably |
| | `PromiseIsKept` | `KeepsPromise` (refinement of `TicketPromise`) |
| | `ProposalsAreNumbered` | `[]VersionsAreCounted` |
| | `LifecyclesFollowTables` | `FollowsTables` |
| | `EndedRunsAreSettled` | `RunsSettle` |
| | `OpenCaseCanMove` | `[]OnlyRefusedWritesStrand` |
| `EventLog_proofs` | `NoEventIsMissed` | `[]StreamsMissNothing` |
| | `StreamsAlwaysAdvance` | `StreamsOnlyAdvance` |
| | `OrderIsKept` | `KeepsOrder` (refinement of `OrderedDelivery`) |
| `Investigation_proofs` | `CaseStaysInBudget` | `[]CaseBudgets` |
| | `RunsAreWellFormed` | `[](BudgetInv /\ RunInv)` |
| | `RunsComeToTheirEnd` | `RunAdvances` |
| | `StepsLeftIsCounted` | `[](StepsLeft \in Nat)` |
| | `CacheKnowsTheReads` | `[]CaseInv` |
| | `ReadsAreGoverned` | `KeepsGovernance` (refinement of `GovernedReading`) |
| `InvestigationGate_proofs` | `DecisionsAreFounded` | `[]GateInv` |
| | `ProposalsAreGrounded` | `[]ProposalIsGrounded` |
| | `TicketsAreFresh` | `[]FreshTickets` |
| | `WaitingIsNotInVain` | `[]RetryLaterCanRead` |
| | `NothingIsGivenUpTooSoon` | `[]GivesUpAfterRetry` |
| | `OpenQuestionsAreAnswerable` | `[]OpenQuestionIsAnswerable` |
| `LockedFreeze_proofs` | `LockedReportIsFrozen` | `[]LockedRunsWhatWasFrozen` |
| `Campaign_proofs` | `CallsAreGoverned` | `[]LedgerGovernsCalls` |
| | `CallsAreCounted` | `[]RecordsCountEveryCall` |
| | `FavourIsEarned` | `[]FavourableMeansComplete` |
| | `FailureIsExplained` | `[]FailureLeavesReport` |
| | `BudgetsAreNotAdded` | `[]OneBudgetForBoth` |
| `Standalone_proofs` | `CampaignIsPart` | `CampaignSpec` |
| | `RescueStaysInBudget` | `[]RescueKeepsBudget` |
| | `DiagnosticsStayInBudget` | `[]DiagnosticsKeepBudget` |
| | `PolicyResolvesTheAuthority` | `[]ResolvesTheAuthority` |
| | `PageShowsItsChoice` | `[]ShowsTheChosenConversation` |
| | `PageRests` | `[]PageComesToRest` |
| | `TriageKeepsRequests` | `[]RequestSurvivesUnsafeFragments` |

`Spec` is the specification of the module the properties are stated in; for `Campaign_proofs`
it is `CampaignSpec`, and for `Standalone_proofs` `StandaloneSpec`, the specification TLC
checks. `CampaignIsPart` carries the results of the former over to the latter.

The assumptions say that constants are numbers or sets of the expected kind and that None
is no identifier and no outcome; that the amounts of tokens an answer may use and the
inputs of the diagnostics are finitely many; and that the clauses of a corpus differ in version or id, which
`PolicyCorpus.validate_corpus` enforces (`corpus.py:146`). `NoTicketsOverlap` assumes in addition that
`"failed_retryable"` is not among the faults; `duplicate_write` shows why it must.

*Cases.* None of the properties is inductive: that a Proposal is pending exactly
when awaited depends on which Case a suspended handler is about to write, and that a
Conversation has one open Case depends on what `submit_message` saw before triage
suspended. `CaseInv` adds what a handler may rely on at each of its steps because it
holds its lock (`HandlerKnowsItsCase`: whose Case, in which states, `StatesAt`), who
owns each row (`CasesHaveOwners`) and in which Case states an action may exist
(`ActionsMatchCases`). There is one lemma for each group of actions;
`OthersUndisturbed` and `OwnCaseStep` say once why a handler's write leaves the other
handlers' knowledge true, `CaseChanges` why it leaves the other Cases' invariants
true. A restart is the easy case: it forgets all handlers, and the row invariants do
not mention them.

*Histories of Cases.* A handler writes only the rows of its own Case (`OtherCasesKept`), and
that is not closed, by `CaseInv`.

*Tickets.* `AccountInv` adds what the executor may rely on between its transactions: before
the write its action is ready or failed retryably, when it records a fault there is no ticket of its
Case, at the read-back the ticket is there. `SourceInv` adds that the in-memory view lacks at most the
ticket of the one handler the loop runs at its read-back, so that another handler
never reads an outdated view. `AtOnceInv`: a handler that submits resumes a retryable write, or it
has just looked for duplicates and the loop has served nobody since; so a first write
overlaps with nothing. Without retryable faults there is nothing to resume, and `OverlapInv`
carries that over to all tickets.

*The promise.* Each transaction moves the stage of at most one Case by one step of
`TicketPromise`, or of none; the stage of the others is kept by `OtherCasesKept`.

*Nothing is left in the middle.* `SettledInv`: a Case that is investigated or executes has its handler
at a step that is followed by one which ends both (`BusyCasesAreHeld`), and a handler about to start its
Run came through an entry that needs one (`RunsStart`). Every way out of a handler settles its Run except
that of a refused insert, and by `AtOnceInv` the insert that the index refuses is a resumed
one: this is the exception both properties name, and no assumption on the faults or the number of Cases is
needed. They speak of the time before a restart; `stranded_case` shows why.

*Transition tables.* `update_run`, `update_proposal_state` and `update_action_state` refuse a move that
is not in their table, with an `InvalidStateTransitionError` that no handler expects. Apart from
`Submittable` the model has none of these guards, and `LifecyclesFollowTables` says that they are
never needed. `FollowInv` adds what it takes: a handler's Run is queued until it starts and running until it
returns (`HandlerFollows`; a restart leaves Runs as they are and no handler that could
move them), an action stays submitted until its outcome is recorded, and the Proposals of a
Case are numbered without a gap (`NumberedFromOne`), so that a new one never overwrites an old one.
From the last also follows that counting Proposals (`NextVersion`) and taking the highest version plus one,
as `_apply_investigation_result` does, are the same (`UsedVersions`). The two properties are in no run.

*Events.* `LogInv`: a running stream is registered, its page follows its cursor
without a gap, and every later event is in its page, in its queue or still to be
queried. `OrderInv`: the frames on a wire continue what its reader has received, and the
stream's cursor stands behind them, so that what the reader adds is always the
next event.

*Budgets.* `BudgetInv` says which counter bounds which: during a Run the budget counts at
least the Case's rows and turns, between Runs the Case row does.

*The end of a Run.* `StepsLeft` adds up the place in the graph, the turns left and the corrected
pass left, and is a natural number (`TurnsLeft`). That each step lowers it needs `RunInv`: the types of a Run's locals at each node, and
`RetryOnce`, by which an open retry is of a query that was tried exactly once. The observation
core rejects every candidate while one is open (`OpenRetryRejects`), so a turn cannot be
accepted without spending something. The decision tables are sequences of condition and
answer of which the first true row decides; `LeastRow` and `FirstRowDecides` give that row
from the well-foundedness of the numbers below the table's length, once for all tables.

*Governed reads.* `ReadsInv` compares the cache with the rows of the Case (`KeyKnown`): no
fewer attempts than there were reads at the revision, no more than there were reads of the
query at all. Neither half alone is inductive: the first limits what is asked next, the second
is needed because a cache rebuilt after a restart counts rows of other Runs.
A step that reads maps to `Read` of `GovernedReading`, every other one to a stutter.

*Decisions.* `GateIsGrounded` takes the gate apart without any state: what every decision of the
two tables rests on, row by row (`SignedGrounds`, `StalledGrounds`), policy guard and
unavailable evidence included. `TruthInv` says that rows, cache and history hold what the
sources said at the row's revision, whatever issue the row was read for (`RowsAgree`), `IssueInv`
that the tickets were read for the Case's issue until a pass corrects it (for the policy the gate's own
guard compares the issue). `TimelyInv` that the rows of a Run are not older than the
Run where the ticket source is concerned, `QuestionInv` that the ledger and the stored snapshot agree while
a question is open. Together they carry a decision's grounds from the gate into the Case row,
and from there through what changes while the Case waits: the source moves, and at a new
revision nothing was asked yet (`WaitGoesOn`).

*Freeze.* `FreezeInv`: every copy of a Freeze, in the tree, in a commit or in a command's
memory, names a commit that exists, and the code and inputs that run after the
authorization are what that commit holds.

*Sums.* The ledgers are added up with `MapThenSumSet`, a fold of the library that is
defined by a table over the subsets of a set. No induction is available, so the table
itself is taken apart: two tables agree where both are defined, and every finite set has
one, since a smallest set without one (`SmallestSet`, from the well-foundedness of strict
inclusion) would have one after all. From there follow the facts the ledgers need: a sum changes by what
one summand changes, and is zero, positive or bounded as its summands are.

*Measurement.* `CallsInv` holds for any number of processes. While a call is open it is the last of its
ledger and the tokens counted so far are below the threshold; a call is made only by the process that
opened it. That gives all the limits of `LedgerGovernsCalls`, the threshold with one answer to spare,
although a second process may append to the same file: the files are read again at every admission.
What reports and records say needs that no second process works on the identity, which is
what `overlapped` excludes: by `AloneInv` the one process at work executes only runs
that have no record, so its identity has no report, and what it
remembers of the records is what they say. A crash adds nothing but torn files. `PackagesOpen` says that
nothing happens under an identity before its package is written, and that the package of the contingency is
written only after the first identity has failed before its first admission; that no call is added to
the first one later is `AloneInv`'s, because the failed report closes it.

*Rescue and diagnostics.* The rescue counts in memory: the counter of the one process is the sum of
its ledger (`CounterIsLedger`), and no smoke has more calls sent than admitted. A restart meets a ledger or a
report and refuses, so no second counter ever starts from zero. The diagnostics count in a file that every
start reads; `DiagBudget` bounds what was admitted, `PassesAreEarned` ties a passed boundary to a call
that left, `CommandIsBound` the manifest of a command to the one its revision is bound to.

*Policy.* An index in memory has the clauses of the corpus its process was started with, whatever lies in
the shared file (`PolicyInv`); the resolver and the binding check look up clauses by version and id in that
corpus, and there the reference is unique.

*Page.* An answer is used only if its request has the page's generation, and each choice
has its own; so a Conversation on the page was delivered for the page's last choice
(`ShownWasDelivered`). That a page comes to rest (`PageRests`) needs an invariant over the page, its
requests and the logs together (`RestInv`), because what clears a control is either on its way as an answer
or lies in the part of the log that was not read. Of the page it says that an active Run has a request
that can still be refused or an unread end (`RunIsCleared`), likewise for a busy decision
(`BusyIsCleared`) and a retry (`RetryingIsCleared`), and that the Case it takes for open offers a
retry only if the service awaits it or an unread closure takes it back (`OfferIsTrue`). The page sets that
Case from three sources, so each of them must name a Case of that kind: a `case_created` event, which
precedes the closure (`CreatedBeforeClosed`); the answer to an opening, before which nothing was read
(`OffersAreTrue`, `OneOpening`); and the answer to a decision, which may come after later Runs
(`DecidedIsOver`: a decision that succeeded closed its Case or left a retry that resumes the submission,
and such a retry either closes the Case or leaves itself). `StepOf` collects what any outcome of a request adds to a log;
each handler is shown to be one, so the log lemmas are proved once.

*Triage.* The two signs of a supported issue are read first and are no blocked fragments, so the intent of
the safe part is that of the message (`FirstReading`, `SafeReading`). Ids are the distinct first mentions
(`LiteralIdsAreDistinct`), so one order of the customer is one id, however often it was written and among
whatever others (`SafeRequestIsTheRequest`). That the subsequence of a sequence takes each of its places
once (`SubsequenceTakes`) rests on the ranks of a finite set of numbers (`PlacesOf`).

*Only model-checked:* all liveness (`RequestsEnd`, `ViewsCatchUp`,
`QueuesAreReleased`), which the prover does not reach. Every invariant and every action property of
a passing run is stated by a theorem.

## 6. What is not modelled, and what was seen on the way

*Left out:*

* `reset_demo`: it takes no Conversation lock (`service.py:857`) and sets the ticket
  revision back; it is a tool of the demonstration.
* The crash between a transaction of the write path and its events (`service.py:1760`):
  needs Cases and events in one model.
* A crash within a Run, in `Investigation`: it strands the Case (`stranded_case`).
* The strong workflow: a fixed order of the reads and the gate that `Investigation` models
  in any order. `policy/retrieval_eval.py`, the V2 harness and the scripts: sequential batches
  that write one report.
* The functions of `domain/transitions.py`, which only `tests/unit/test_domain_contracts.py:61-117` calls.
  Its tables of Proposals, actions and Runs are those the repositories enforce
  (`LifecyclesFollowTables`). Its table of Cases is no specification of the service, because it
  forbids moves the service makes: from waiting for a confirmation or from executing to
  AWAITING_RETRY, from there to EXECUTING_ACTION, and from an answered question to
  AWAITING_CUSTOMER_CONFIRMATION.
* Models, prompts, schemas, error texts, views, the trace drawer and the evaluation view:
  data and presentation. Grading is one bit in `Campaign`, a metric of a decision one bit in
  `LockedFreeze`.
* The guard faults of the fixtures and `stop_after_actual_executions`, which only tests and
  scripts set.
* Branches the code cannot reach from its own states, kept as refusals or left out: the
  optimistic revision conflict of `update_case`, a lost ticket at read-back,
  `ACTION_RETRY_CONFLICT` and `ACTION_RETRY_UNSAFE` (shown unreachable by `RetryFindsNoDoubt`), a second fact question,
  `CUSTOMER_STILL_REPORTS_MISSING`, the persisted gate payload (`investigation.py:255`),
  `STUCK_REPEATED_DECISION`, `TARGET_SHIPMENT_NOT_FOUND`, `RETRY_IDENTITY_CONFLICT`.

*Modelled as the code has it, and worth a maintainer's look.* No document promises
the contrary clearly enough for a run of its own, or the property excepts it by name:

* Investigation: `retry_case` and the corrected pass do not hand on which reception
  locations the customer has checked, so an answered customer is asked again and the Case
  ends with `CASE_FACT_QUESTION_EXHAUSTED`. `_revalidate_gate` does not hand them on either
  (`service.py:3462-3480`; the field is False unless it is given, `evidence_gate.py:73`): a Proposal
  made after that answer is invalidated by every confirmation, with nothing changed, and the retry that
  follows asks again. After a correction, order, tracking and tickets read for the old issue count:
  `ProposalIsGrounded` names the one that depends on the issue, the tickets, and `corrected_tickets` shows
  what it does. The source revision of an exact retry is compared in
  `before_selector` and the read is made in a later node. A failed corrected pass sets the Case's turns
  to the larger of two counters (`service.py:2031`), losing those of one pass
  (`CaseBudgets` excepts it). A reply to a second clarification is never considered
  (`service.py:1141`).
* Triage: the entry limit counts only directly consecutive ambiguous decisions, and never
  `TRACKING_STATUS_REQUIRES_CLARIFICATION` (`docs/DOMAIN-CONTRACTS.md:89`). An order id
  written next to Chinese text is lost or cut.
* Policy: `validate_policy_binding` does not look for a version conflict that arose
  later. Two processes share one temporary file, so one may fail to rename it or leave a cut
  index, which readers rebuild.
* Page: an expired Proposal disables its buttons locally while the service expires it only
  when it is decided. A failed triage appends only `triage_failed` (`service.py:998-1006`),
  which the page ignores, so the composer can stay closed (`PageComesToRest` excepts it).
  The answers to a message, a decision and a retry are applied without the generation
  check that a choice of conversation has.
* Measurement: the corrected pass calls `investigate` without observer and selector
  (`service.py:2012-2024`), so in a live agent run its calls are in no ledger and under
  no timeout; `LedgerGovernsCalls` speaks of observed calls. A run that was interrupted is executed again
  after a restart and meets its own message id. A crash during a call makes the remaining
  runs incomplete, and the report prefers the workflow. Two processes on one identity may
  replace a record under a report (the properties except `overlapped`). A canary
  restarted after a crash and then cancelled leaves no report. An interrupted rescue can
  never be completed.
* Freeze: the first "blocked" probe is written once, so the Locked evaluation can never run
  after it (`locked.py:875-910`). Committing the freeze moves HEAD, which refuses an
  execution or a restart. The digest of the cases is compared with the Freeze only.

## 7. What could follow

1. `CaseEvents`: the write path with its event log and crashes between a transaction and
   its events, and what a page built from those events shows against the rows.
2. `reset_demo` beside running handlers and open streams.
