------------------------------ MODULE EventLog ------------------------------
(***************************************************************************)
(* The canonical events of one Conversation and their delivery:            *)
(* EventStore.append, list_after and subscribe with the _EventHub          *)
(* (events/store.py), the SSE endpoint (api/app.py) and the browser's      *)
(* reconnecting reader (frontend useConversationEvents.ts).                *)
(*                                                                         *)
(* An event is its sequence number: the row is append-only, and sequences  *)
(* and event ids of a Conversation identify each other.  A step of the     *)
(* server runs from one suspension to the next (sending a frame, waiting   *)
(* for the queue); append commits, increments and notifies in one step     *)
(* because the hub's lock is never held across a suspension.  reset_demo   *)
(* ends a Conversation; the model follows one up to there.                 *)
(***************************************************************************)
EXTENDS Integers, Sequences, SequencesExt

CONSTANTS
  Clients,    \* mounted useConversationEvents hooks
  Streams,    \* StreamingResponse generators alive at the same time
  PageSize,   \* limit of list_after, 500 in the code
  MaxEvents,  \* bound: events of the Conversation
  MaxFaults,  \* bound: lost connections, reloads and restarts together
  None

ASSUME EventLogAssumption ==
  /\ None \notin Streams \cup Clients
  /\ PageSize \in Nat \ {0}
  /\ MaxEvents \in Nat
  /\ MaxFaults \in Nat

Sequence == 1 .. MaxEvents

VARIABLES
  log,     \* ConversationRow.next_event_sequence; EventRow 1 .. log exist
  hub,     \* _EventHub._subscribers: the streams with a registered queue
  queue,   \* asyncio.Queue of each stream
  stream,  \* locals of subscribe for each stream
  wire,    \* frames sent by a stream and not yet read by its client
  client,  \* state of each hook
  faults   \* faults so far

server == <<hub, queue, stream, wire>>
vars == <<log, server, client, faults>>

\* batch: what list_after returned and is not yet yielded; full: it was a
\* full page.
FreeStream == [phase |-> "free", cursor |-> 0, batch |-> <<>>, full |-> FALSE]

\* conn: the response being read; received: receivedSequences; last: the
\* sequence of lastEventId, 0 for null.
NewClient == [conn |-> None, received |-> {}, contiguous |-> 0, last |-> 0]

Init ==
  /\ log = 0
  /\ hub = {}
  /\ queue = [s \in Streams |-> <<>>]
  /\ stream = [s \in Streams |-> FreeStream]
  /\ wire = [s \in Streams |-> <<>>]
  /\ client = [b \in Clients |-> NewClient]
  /\ faults = 0

-----------------------------------------------------------------------------
(***************************************************************************)
(* The store                                                               *)
(***************************************************************************)
\* Variant: only streams that have finished their replay are notified.
AppendToLive ==
  /\ log < MaxEvents
  /\ log' = log + 1
  /\ queue' = [s \in Streams |->
       IF s \in hub /\ stream[s].phase = "live" THEN Append(queue[s], log') ELSE queue[s]]
  /\ UNCHANGED <<hub, stream, wire, client, faults>>

\* EventStore.append: the committed event goes to every registered queue.
AppendEvent ==
  /\ log < MaxEvents
  /\ log' = log + 1
  /\ queue' = [s \in Streams |-> IF s \in hub THEN Append(queue[s], log') ELSE queue[s]]
  /\ UNCHANGED <<hub, stream, wire, client, faults>>

\* list_after: the first page of events behind a cursor, in order
ListAfter(cursor) ==
  LET last == IF cursor + PageSize < log THEN cursor + PageSize ELSE log
  IN [i \in 1 .. (IF last > cursor THEN last - cursor ELSE 0) |-> cursor + i]

-----------------------------------------------------------------------------
(***************************************************************************)
(* subscribe, driven by the SSE endpoint                                   *)
(***************************************************************************)
\* subscribe asks for a page: an empty one ends the replay.
QueryPage(s) ==
  LET page == ListAfter(stream[s].cursor) IN
  stream' = [stream EXCEPT ![s] =
    [@ EXCEPT !.phase = IF page = <<>> THEN "live" ELSE "replay",
              !.batch = page, !.full = Len(page) = PageSize]]

\* Variant: the stream follows the log without replaying it.
StartStreamWithoutReplay(s) ==
  /\ stream[s].phase = "opened"
  /\ hub' = hub \cup {s}
  /\ stream' = [stream EXCEPT ![s].phase = "live"]
  /\ UNCHANGED <<log, queue, wire, client, faults>>

\* The generator starts: the queue is registered before the first query.
StartStream(s) ==
  /\ stream[s].phase = "opened"
  /\ hub' = hub \cup {s}
  /\ QueryPage(s)
  /\ UNCHANGED <<log, queue, wire, client, faults>>

\* A replayed event is sent; an event not after the cursor is skipped.
SendReplayed(s) ==
  LET event == Head(stream[s].batch)
      new == event > stream[s].cursor
  IN /\ stream[s].phase = "replay"
     /\ stream[s].batch # <<>>
     /\ stream' = [stream EXCEPT ![s] =
          [@ EXCEPT !.batch = Tail(stream[s].batch),
                   !.cursor = IF new THEN event ELSE stream[s].cursor]]
     /\ wire' = [wire EXCEPT ![s] = IF new THEN Append(@, event) ELSE @]
     /\ UNCHANGED <<log, hub, queue, client, faults>>

\* The page is used up: a full one asks for the next, another ends the replay.
NextPage(s) ==
  /\ stream[s].phase = "replay"
  /\ stream[s].batch = <<>>
  /\ IF stream[s].full THEN QueryPage(s)
                       ELSE stream' = [stream EXCEPT ![s].phase = "live"]
  /\ UNCHANGED <<log, hub, queue, wire, client, faults>>

\* Variant: queued events are sent without looking at the cursor.
SendLiveUnfiltered(s) ==
  /\ stream[s].phase = "live"
  /\ queue[s] # <<>>
  /\ queue' = [queue EXCEPT ![s] = Tail(@)]
  /\ stream' = [stream EXCEPT ![s].cursor = Head(queue[s])]
  /\ wire' = [wire EXCEPT ![s] = Append(@, Head(queue[s]))]
  /\ UNCHANGED <<log, hub, client, faults>>

\* A queued event is sent unless the replay sent it already.
SendLive(s) ==
  LET event == Head(queue[s])
      new == event > stream[s].cursor
  IN /\ stream[s].phase = "live"
     /\ queue[s] # <<>>
     /\ queue' = [queue EXCEPT ![s] = Tail(@)]
     /\ stream' = [stream EXCEPT ![s].cursor = IF new THEN event ELSE @]
     /\ wire' = [wire EXCEPT ![s] = IF new THEN Append(@, event) ELSE @]
     /\ UNCHANGED <<log, hub, client, faults>>

IsRead(s) == \E b \in Clients : client[b].conn = s

\* The server notices that nobody reads the response any more.
EndStream(s) ==
  /\ stream[s].phase \in {"opened", "replay", "live"}
  /\ ~IsRead(s)
  /\ stream' = [stream EXCEPT ![s].phase = "ended"]
  /\ UNCHANGED <<log, hub, queue, wire, client, faults>>

\* Variant: an abandoned generator keeps its registration.
UnregisterNothing(s) ==
  /\ stream[s].phase = "ended"
  /\ stream' = [stream EXCEPT ![s] = FreeStream]
  /\ queue' = [queue EXCEPT ![s] = <<>>]
  /\ wire' = [wire EXCEPT ![s] = <<>>]
  /\ UNCHANGED <<log, hub, client, faults>>

\* The `finally' of subscribe, which runs when the generator is closed; a
\* generator that never started has nothing to unregister.
Unregister(s) ==
  /\ stream[s].phase = "ended"
  /\ hub' = hub \ {s}
  /\ stream' = [stream EXCEPT ![s] = FreeStream]
  /\ queue' = [queue EXCEPT ![s] = <<>>]
  /\ wire' = [wire EXCEPT ![s] = <<>>]
  /\ UNCHANGED <<log, client, faults>>

-----------------------------------------------------------------------------
(***************************************************************************)
(* The browser                                                             *)
(***************************************************************************)
\* Variant: a client without a cursor gets the newest events only.
ConnectAtLatest(b, s) ==
  /\ client[b].conn = None
  /\ stream[s].phase = "free"
  /\ client' = [client EXCEPT ![b].conn = s]
  /\ stream' = [stream EXCEPT ![s] = [FreeStream EXCEPT !.phase = "opened",
       !.cursor = IF client[b].last = 0 THEN log ELSE client[b].last]]
  /\ UNCHANGED <<log, hub, queue, wire, faults>>

\* GET .../events; Last-Event-ID names an event of the log, which keeps it.
Connect(b, s) ==
  /\ client[b].conn = None
  /\ stream[s].phase = "free"
  /\ client' = [client EXCEPT ![b].conn = s]
  /\ stream' = [stream EXCEPT ![s] =
       [FreeStream EXCEPT !.phase = "opened", !.cursor = client[b].last]]
  /\ UNCHANGED <<log, hub, queue, wire, faults>>

\* The longest prefix of the log in a set of sequences, from a known start
Contiguous(from, received) ==
  CHOOSE n \in from .. MaxEvents :
    (from + 1) .. n \subseteq received /\ n + 1 \notin received

\* handleFrame: a known event is dropped, a new one becomes the cursor.
Receive(b) ==
  LET s == client[b].conn
      event == Head(wire[s])
      received == client[b].received \cup {event}
  IN /\ s # None
     /\ wire[s] # <<>>
     /\ wire' = [wire EXCEPT ![s] = Tail(@)]
     /\ client' = IF event \in client[b].received THEN client
                  ELSE [client EXCEPT ![b] = [@ EXCEPT
                         !.received = received, !.last = event,
                         !.contiguous = Contiguous(client[b].contiguous, received)]]
     /\ UNCHANGED <<log, hub, queue, stream, faults>>

Fault == faults < MaxFaults /\ faults' = faults + 1

\* The connection breaks; frames under way are lost, the server does not
\* know yet.
LoseConnection(b) ==
  /\ Fault
  /\ client[b].conn # None
  /\ client' = [client EXCEPT ![b].conn = None]
  /\ UNCHANGED <<log, server>>

\* The page is reloaded: the hook starts without a cursor.
Reload(b) ==
  /\ Fault
  /\ client' = [client EXCEPT ![b] = NewClient]
  /\ UNCHANGED <<log, server>>

\* The server process restarts: generators, queues and connections are gone.
Restart ==
  /\ Fault
  /\ hub' = {}
  /\ queue' = [s \in Streams |-> <<>>]
  /\ stream' = [s \in Streams |-> FreeStream]
  /\ wire' = [s \in Streams |-> <<>>]
  /\ client' = [b \in Clients |-> [client[b] EXCEPT !.conn = None]]
  /\ UNCHANGED log

-----------------------------------------------------------------------------
StreamStep(s) ==
  StartStream(s) \/ SendReplayed(s) \/ NextPage(s) \/ SendLive(s)
    \/ EndStream(s) \/ Unregister(s)

ClientStep(b) == Receive(b) \/ \E s \in Streams : Connect(b, s)

Next ==
  \/ AppendEvent \/ Restart
  \/ \E s \in Streams : StreamStep(s)
  \/ \E b \in Clients : ClientStep(b) \/ LoseConnection(b) \/ Reload(b)

Spec == Init /\ [][Next]_vars

\* The event loop resumes a generator that can go on; a hook reads what has
\* arrived and reconnects after its delay.
FairSpec ==
  /\ Spec
  /\ \A s \in Streams : WF_vars(StreamStep(s))
  /\ \A b \in Clients : WF_vars(Receive(b)) /\ WF_vars(\E s \in Streams : Connect(b, s))

-----------------------------------------------------------------------------
(***************************************************************************)
(* Properties                                                              *)
(***************************************************************************)
\* The events a running stream still has to query
Unqueried(s) ==
  IF stream[s].phase = "replay" /\ stream[s].full
    THEN {n \in Sequence : n > stream[s].cursor + Len(stream[s].batch)}
    ELSE {}

\* A stream that runs will get every event after its cursor: it is in its
\* page or its queue, or a later page is still to be queried.  Registering
\* before the replay, and replaying full pages to the end, make this so.
StreamsMissNothing ==
  \A s \in Streams : stream[s].phase \in {"replay", "live"} =>
    (stream[s].cursor + 1) .. log
      \subseteq ToSet(stream[s].batch) \cup ToSet(queue[s]) \cup Unqueried(s)

\* A stream sends each event once and in order, whatever replay and queue
\* hold in common.
StreamsOnlyAdvance ==
  [][\A s \in Streams :
       Len(wire'[s]) > Len(wire[s]) =>
         stream'[s].cursor > stream[s].cursor /\ Last(wire'[s]) = stream'[s].cursor]_vars

Delivery == INSTANCE OrderedDelivery WITH
  published <- log,
  shown <- [b \in Clients |-> client[b].received]

\* What a view shows grows by the next event only.
KeepsOrder == Delivery!Spec

\* Every committed event is shown by every view.
ViewsCatchUp ==
  \A b \in Clients : \A n \in Sequence :
    log >= n ~> client[b].contiguous >= n

\* The queue of a connection nobody reads is dropped from the hub; otherwise
\* it would take every later event of the Conversation.
QueuesAreReleased ==
  \A s \in Streams : s \in hub /\ ~IsRead(s) ~> s \notin hub
====
