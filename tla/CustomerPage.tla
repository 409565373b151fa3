---------------------------- MODULE CustomerPage ----------------------------
(***************************************************************************)
(* The browser page (frontend App.tsx, conversationTimeline.ts and         *)
(* ProposalCard.tsx): which controls it enables, from answers of requests  *)
(* and from the events of the Conversation, which arrive independently.    *)
(*                                                                         *)
(* The service is reduced to what a page can see: the state of the open    *)
(* Case and, per request, the events a handler of service.py appends.      *)
(* Texts, the trace drawer and events without effect on a control are left *)
(* out; EventLog shows that events arrive once and in order.  A handler    *)
(* that an unexpected exception ends is left to CaseLifecycle.             *)
(***************************************************************************)
EXTENDS Integers, Sequences, FiniteSets, SequencesExt, FiniteSetsExt

CONSTANTS
    MaxConversations,  \* conversations the page may start
    MaxRequests,       \* requests of the page
    MaxReloads

ASSUME PageConstants ==
    MaxConversations \in Nat /\ MaxRequests \in Nat /\ MaxReloads \in Nat

VARIABLES
    page,       \* the React state, and how many events of the log it has read
    persisted,  \* the conversation id in localStorage, 0 for none
    requests,   \* requests in the order they were sent
    service,    \* per conversation, the open Case and the event log
    reloads

pageVars == <<page, persisted, requests, service, reloads>>

NewPage == [generation |-> 0, conversation |-> 0, booting |-> TRUE, read |-> 0,
            activeCase |-> 0, activeRun |-> FALSE, busy |-> 0, retrying |-> 0]

NewConversation == [state |-> "free", case |-> 0, proposal |-> 0, late |-> FALSE,
                    resumable |-> FALSE, log |-> <<>>, ok |-> TRUE]

Request(kind, generation, conversation, subject) ==
    [kind |-> kind, generation |-> generation, conversation |-> conversation,
     subject |-> subject, phase |-> "sent", awaited |-> TRUE, ok |-> FALSE, case |-> 0]

Ev(type, case, proposal) == [type |-> type, case |-> case, proposal |-> proposal]

PageInit ==
    /\ page = [NewPage EXCEPT !.generation = 1]
    /\ persisted = 0
    /\ requests = <<Request("create", 1, 0, 0)>>
    /\ service = <<>>
    /\ reloads = 0

-----------------------------------------------------------------------------
(* The service: what one request leaves and appends.                       *)

Outcome(srv, events, ok) == [srv EXCEPT !.log = @ \o events, !.ok = ok]
Moved(srv, state, events, ok) == [Outcome(srv, events, ok) EXCEPT !.state = state]

(* An investigation, after the events that precede it: it fails (corrected
   pass included), asks the customer, waits for evidence, proposes or closes;
   a fact snapshot that cannot be rebuilt closes whatever the gate said. *)
Investigated(srv, events) ==
    LET c == srv.case
        run(type) == Ev(type, c, 0)
    IN  {Moved(srv, "retry", Append(events, run("run_failed")), FALSE),
         Moved(srv, "input", Append(events, run("run_succeeded")), TRUE),
         Moved(srv, "retry", events \o <<run("gate_retry_later"), run("run_succeeded")>>, TRUE),
         Moved(srv, "free", events \o <<run("run_succeeded"), run("case_closed")>>, TRUE),
         Moved(srv, "free", events \o <<run("gate_retry_later"), run("run_succeeded"),
                                        run("case_closed")>>, TRUE),
         Moved([srv EXCEPT !.proposal = @ + 1, !.late = FALSE], "confirm",
               events \o <<Ev("proposal_created", c, srv.proposal + 1),
                           run("run_succeeded")>>, TRUE)}

(* _submit_and_verify_ticket_action *)
Executed(srv, events) ==
    LET run(type) == Ev(type, srv.case, 0)
    IN  {Moved([srv EXCEPT !.resumable = TRUE], "retry",
               events \o <<run("action_failed_retryable"), run("run_succeeded")>>, TRUE),
         Moved([srv EXCEPT !.resumable = FALSE], "free",
               events \o <<run("run_succeeded"), run("case_closed")>>, TRUE)}

Messaged(srv, newCase) ==
    LET entry == <<Ev("run_started", 0, 0)>>
        resumed == <<Ev("run_started", srv.case, 0)>>
        opened == [srv EXCEPT !.case = newCase, !.resumable = FALSE]
    IN  CASE srv.state = "free" ->
               {Outcome(srv, <<>>, FALSE),
                Outcome(srv, Append(entry, Ev("triage_failed", 0, 0)), FALSE),
                Outcome(srv, Append(entry, Ev("run_succeeded", 0, 0)), TRUE)}
               \cup Investigated(opened, Append(entry, Ev("case_created", opened.case, 0)))
          [] srv.state = "input" ->
               {Outcome(srv, Append(resumed, Ev("run_failed", srv.case, 0)), FALSE)}
               \cup Investigated(srv, resumed)
          [] OTHER -> {Outcome(srv, <<>>, FALSE)}

(* confirm_proposal and decline_proposal: the Run starts before the Proposal
   is looked at.  A second active ticket fails a confirmation and leaves the
   Proposal pending. *)
Decided(srv, kind, proposal) ==
    LET created == CHOOSE e \in ToSet(srv.log) :
                       e.type = "proposal_created" /\ e.proposal = proposal
        started == <<Ev("run_started", created.case, 0)>>
        settled == Append(started, Ev("proposal_settled", created.case, proposal))
        failed == Ev("run_failed", created.case, 0)
        active == srv.state = "confirm" /\ srv.proposal = proposal
    IN  CASE ~active -> {Outcome(srv, Append(started, failed), FALSE)}
          [] active /\ srv.late -> {Moved(srv, "retry", Append(settled, failed), FALSE)}
          [] active /\ ~srv.late /\ kind = "decline" ->
               {Moved(srv, "free", settled \o <<Ev("run_succeeded", srv.case, 0),
                                                Ev("case_closed", srv.case, 0)>>, TRUE)}
          [] OTHER ->
               {Outcome(srv, Append(started, failed), FALSE),
                Moved(srv, "retry", Append(settled, failed), FALSE)} \cup Executed(srv, settled)

Retried(srv, case) ==
    LET started == <<Ev("run_started", case, 0)>>
    IN  IF srv.state # "retry" \/ srv.case # case THEN {Outcome(srv, <<>>, FALSE)}
        ELSE IF srv.resumable THEN Executed(srv, started)
        ELSE Investigated(srv, started)

NewCase == 1 + Max({0} \cup {service[c].case : c \in DOMAIN service})

Outcomes(srv, request) ==
    CASE request.kind = "message" -> Messaged(srv, NewCase)
      [] request.kind \in {"confirm", "decline"} -> Decided(srv, request.kind, request.subject)
      [] request.kind = "retry" -> Retried(srv, request.subject)

(* A handler works under the Conversation lock, and the page reads its events
   and its answer in its own time: one step. *)
Serve(i) ==
    /\ requests[i].phase = "sent" /\ requests[i].kind \notin {"create", "restore"}
    /\ LET c == requests[i].conversation
       IN  \E outcome \in Outcomes(service[c], requests[i]) :
             /\ service' = [service EXCEPT ![c] = outcome]
             /\ requests' = [requests EXCEPT ![i].phase = "answered", ![i].ok = outcome.ok,
                                             ![i].case = outcome.case]
    /\ UNCHANGED <<page, persisted, reloads>>

(* create_conversation and get_conversation, which names the open Case or
   else the last one *)
Open(i) ==
    /\ requests[i].phase = "sent"
    /\ \/ /\ requests[i].kind = "create" /\ Len(service) < MaxConversations
          /\ service' = Append(service, NewConversation)
          /\ requests' = [requests EXCEPT ![i].phase = "answered", ![i].ok = TRUE,
                                          ![i].conversation = Len(service')]
       \/ /\ requests[i].kind = "restore" /\ UNCHANGED service
          /\ requests' = [requests EXCEPT ![i].phase = "answered", ![i].ok = TRUE,
                            ![i].case = service[requests[i].conversation].case]
    /\ UNCHANGED <<page, persisted, reloads>>

(* An answer is lost: fetch rejects, the service has done its work.  (A lost
   request looks like one the service refuses.) *)
LoseAnswer(i) ==
    /\ requests[i].phase = "answered" /\ requests[i].ok
    /\ requests' = [requests EXCEPT ![i].ok = FALSE]
    /\ UNCHANGED <<page, persisted, service, reloads>>

(* A Proposal passes its expires_at; nothing happens until it is decided. *)
ProposalExpires(c) ==
    /\ service[c].state = "confirm" /\ ~service[c].late
    /\ service' = [service EXCEPT ![c].late = TRUE]
    /\ UNCHANGED <<page, persisted, requests, reloads>>

-----------------------------------------------------------------------------
(* The page: events.                                                       *)

Events == IF page.conversation = 0 THEN <<>>
          ELSE SubSeq(service[page.conversation].log, 1, page.read)

(* Variant: a settled Proposal does not release the page. *)
OnEventKeepingBusy(p, e) ==
    [p EXCEPT
       !.activeCase = IF e.type = "case_created" THEN e.case
                      ELSE IF e.type = "case_closed" /\ @ = e.case THEN 0 ELSE @,
       !.activeRun = IF e.type = "run_started" THEN TRUE
                     ELSE @ /\ e.type \notin {"run_succeeded", "run_failed", "case_closed"},
       !.busy = IF e.type = "case_closed" THEN 0 ELSE @]

(* handleEvent; triage_failed changes nothing. *)
OnEvent(p, e) ==
    [p EXCEPT
       !.activeCase = IF e.type = "case_created" THEN e.case
                      ELSE IF e.type = "case_closed" /\ @ = e.case THEN 0 ELSE @,
       !.activeRun = IF e.type = "run_started" THEN TRUE
                     ELSE @ /\ e.type \notin {"run_succeeded", "run_failed", "case_closed"},
       !.busy = IF e.type \in {"proposal_settled", "case_closed"} THEN 0 ELSE @]

ReadEvent ==
    /\ page.conversation # 0
    /\ LET log == service[page.conversation].log
       IN  /\ page.read < Len(log)
           /\ page' = [OnEvent(page, log[page.read + 1]) EXCEPT !.read = @ + 1]
    /\ UNCHANGED <<persisted, requests, service, reloads>>

(* The enabled retry items of buildConversationTimeline. *)
RetryOffered(c) ==
    \E i \in DOMAIN Events :
        /\ Events[i].type \in {"gate_retry_later", "action_failed_retryable"}
        /\ Events[i].case = c /\ page.activeCase = c
        /\ \A j \in DOMAIN Events : j > i =>
             ~(Events[j].type = "run_started" /\ Events[j].case = c)

(* The cards whose buttons are enabled. *)
DecisionOffered(proposal) ==
    /\ \E i \in DOMAIN Events : Events[i].type = "proposal_created" /\ Events[i].proposal = proposal
    /\ ~ \E i \in DOMAIN Events : Events[i].type = "proposal_settled" /\ Events[i].proposal = proposal
    /\ proposal = service[page.conversation].proposal => ~service[page.conversation].late
    /\ page.busy # proposal

CanSend == page.conversation # 0 /\ ~page.booting /\ ~page.activeRun /\ page.busy = 0

-----------------------------------------------------------------------------
(* The page: requests.                                                     *)

Post(kind, subject, p) ==
    /\ Len(requests) < MaxRequests
    /\ requests' = Append(requests, Request(kind, p.generation, p.conversation, subject))
    /\ page' = p
    /\ UNCHANGED <<persisted, service, reloads>>

(* startConversation, by the customer menu, a scenario or a reset, of which
   the last two are open while a Run is active or a conversation is opened *)
StartConversation ==
    /\ Cardinality({i \in DOMAIN requests : requests[i].kind = "create"}) < MaxConversations
    /\ Post("create", 0, [NewPage EXCEPT !.generation = page.generation + 1])

SendMessage == CanSend /\ Post("message", 0, [page EXCEPT !.activeRun = TRUE])

Decide(kind) ==
    /\ page.conversation # 0 /\ page.busy = 0
    /\ \E proposal \in 1 .. service[page.conversation].proposal :
         /\ DecisionOffered(proposal)
         /\ Post(kind, proposal, [page EXCEPT !.busy = proposal, !.activeRun = TRUE])

Retry ==
    /\ page.conversation # 0 /\ page.retrying = 0
    /\ \E c \in 1 .. service[page.conversation].case :
         /\ RetryOffered(c)
         /\ Post("retry", c, [page EXCEPT !.retrying = c, !.activeRun = TRUE])

(* Variant: an answer opens its conversation whatever was chosen since. *)
OpenedUnguarded(p, request) ==
    IF request.ok
    THEN [p EXCEPT !.conversation = request.conversation, !.activeCase = request.case,
                   !.read = 0, !.booting = FALSE]
    ELSE [p EXCEPT !.booting = FALSE]

(* The answer to create or restore, for the generation that asked. *)
Opened(p, request) ==
    IF request.generation # p.generation THEN p
    ELSE IF request.ok
    THEN [p EXCEPT !.conversation = request.conversation, !.activeCase = request.case,
                   !.booting = FALSE]
    ELSE [p EXCEPT !.booting = FALSE]

(* The catch blocks, and what follows the other awaits: they do not ask which
   conversation is shown by now. *)
Answered(p, request) ==
    LET settle == [p EXCEPT !.activeRun = @ /\ request.ok]
    IN  CASE request.kind = "message" -> settle
          [] request.kind = "retry" -> [settle EXCEPT !.retrying = 0]
          [] request.kind \in {"confirm", "decline"} ->
               IF request.ok THEN [settle EXCEPT !.activeCase = request.case]
               ELSE [settle EXCEPT !.busy = 0]

Deliver(i) ==
    /\ requests[i].phase = "answered" /\ requests[i].awaited
    /\ LET request == requests[i]
           forgotten == request.kind = "restore" /\ ~request.ok
                        /\ request.generation = page.generation
       IN  /\ page' = CASE forgotten -> [NewPage EXCEPT !.generation = page.generation + 1]
                        [] ~forgotten /\ request.kind \in {"create", "restore"} ->
                             Opened(page, request)
                        [] OTHER -> Answered(page, request)
           /\ persisted' = IF forgotten THEN 0
                           ELSE IF request.kind = "create" /\ request.ok
                                   /\ request.generation = page.generation
                           THEN request.conversation ELSE persisted
           /\ requests' = LET rest == [requests EXCEPT ![i].phase = "done"]
                          IN  IF forgotten
                              THEN Append(rest, Request("create", page.generation + 1, 0, 0))
                              ELSE rest
    /\ UNCHANGED <<service, reloads>>

(* The page is loaded again: restoreOrStartConversation. *)
Reload ==
    /\ reloads < MaxReloads /\ Len(requests) < MaxRequests
    /\ persisted = 0 => Len(service) < MaxConversations
    /\ reloads' = reloads + 1
    /\ page' = [NewPage EXCEPT !.generation = page.generation + 1]
    /\ requests' = Append([i \in DOMAIN requests |-> [requests[i] EXCEPT !.awaited = FALSE]],
             Request(IF persisted = 0 THEN "create" ELSE "restore",
                     page'.generation, persisted, 0))
    /\ UNCHANGED <<persisted, service>>

PageNext ==
    \/ \E i \in DOMAIN requests : Serve(i) \/ Open(i) \/ LoseAnswer(i) \/ Deliver(i)
    \/ \E c \in DOMAIN service : ProposalExpires(c)
    \/ ReadEvent
    \/ StartConversation \/ SendMessage \/ Decide("confirm") \/ Decide("decline") \/ Retry
    \/ Reload

PageSpec == PageInit /\ [][PageNext]_pageVars

-----------------------------------------------------------------------------
(* Properties                                                              *)

(* Every request is over, and the page has read every event. *)
AtRest ==
    /\ page.conversation # 0 /\ ~page.booting
    /\ \A i \in DOMAIN requests :
         requests[i].phase = "done" \/ (requests[i].phase = "answered" /\ ~requests[i].awaited)
    /\ page.read = Len(service[page.conversation].log)

(* App.tsx startConversation and restoreOrStartConversation: the page shows
   the conversation of its last choice, however late the answer to an
   earlier choice comes. *)
ShowsTheChosenConversation ==
    page.conversation # 0 =>
        \E i \in DOMAIN requests :
            /\ requests[i].kind \in {"create", "restore"}
            /\ requests[i].generation = page.generation
            /\ requests[i].conversation = page.conversation

EndedByTriage ==
    \E i \in DOMAIN Events :
        /\ Events[i].type = "triage_failed"
        /\ \A j \in i + 1 .. Len(Events) : Events[j].type \notin {"run_started", "run_succeeded", "run_failed"}

(* handleEvent, handleConfirm, handleRetry: once everything has arrived, in
   whatever order answers and events came and whatever was lost, no control
   stays busy, the composer is closed only by the failed triage that ends a
   Run without a Run event, and what is offered is what the service accepts:
   retry of the Case that awaits it, a decision on the pending Proposal. *)
PageComesToRest ==
    AtRest =>
        LET srv == service[page.conversation]
        IN  /\ page.busy = 0 /\ page.retrying = 0
            /\ page.activeRun => EndedByTriage
            /\ \A c \in 1 .. srv.case :
                 RetryOffered(c) => srv.state = "retry" /\ srv.case = c
            /\ \A p \in 1 .. srv.proposal :
                 DecisionOffered(p) => srv.state = "confirm" /\ srv.proposal = p

(* docs/AGENT-MODULE-MATRIX.md:35: a failed Run leaves a visible retry path.
   Once the page is at rest, a Case that awaits a retry offers it. *)
VisibleRetryPath ==
    AtRest =>
        LET srv == service[page.conversation]
        IN  srv.state = "retry" => RetryOffered(srv.case)
=============================================================================
