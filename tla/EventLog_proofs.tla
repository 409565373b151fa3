-------------------------- MODULE EventLog_proofs --------------------------
(***************************************************************************)
(* No stream misses an event, for any number of clients, streams, events   *)
(* and faults and any page size.  A running stream is registered, so that  *)
(* it gets what is appended, and its page is what follows its cursor.  The *)
(* frames on the wire continue what the reader has: OrderedDelivery.       *)
(***************************************************************************)
EXTENDS EventLog, TLAPS

Phases == {"free", "opened", "replay", "live", "ended"}
StreamLocals == [phase : Phases, cursor : Nat, batch : Seq(Nat), full : BOOLEAN]

ClientType(c) ==
  {"conn", "last"} \subseteq DOMAIN c /\ c.conn \in Streams \cup {None} /\ c.last \in Nat

LogType ==
  /\ log \in Nat
  /\ hub \subseteq Streams
  /\ queue \in [Streams -> Seq(Nat)]
  /\ stream \in [Streams -> StreamLocals]
  /\ wire \in [Streams -> Seq(Nat)]
  /\ DOMAIN client = Clients
  /\ \A b \in Clients : ClientType(client[b])

Runs(s) == stream[s].phase \in {"replay", "live"}

(* What a stream at work knows of its page. *)
PageFollows(s) ==
  Runs(s) =>
    /\ s \in hub
    /\ \A i \in DOMAIN stream[s].batch : stream[s].batch[i] = stream[s].cursor + i
    /\ stream[s].phase = "live" => stream[s].batch = <<>>

Missing(s) == ((stream[s].cursor + 1) .. log)
                \ (ToSet(stream[s].batch) \cup ToSet(queue[s]) \cup Unqueried(s))

StreamInv(s) == PageFollows(s) /\ (Runs(s) => Missing(s) = {})

LogInv == LogType /\ log <= MaxEvents /\ \A s \in Streams : StreamInv(s)

-----------------------------------------------------------------------------
(* A page that follows its cursor begins with the next event. *)
LEMMA FirstOfPage ==
  ASSUME NEW q \in Seq(Nat), q # <<>>, NEW c \in Nat, \A i \in DOMAIN q : q[i] = c + i
  PROVE  Head(q) = c + 1
<1>1. Len(q) \in Nat \ {0} /\ DOMAIN q = 1 .. Len(q)
  OBVIOUS
<1> QED BY <1>1

(* The rest of a page follows the next cursor. *)
LEMMA RestOfPage ==
  ASSUME NEW q \in Seq(Nat), q # <<>>, NEW c \in Nat, \A i \in DOMAIN q : q[i] = c + i
  PROVE  Tail(q) \in Seq(Nat) /\ Len(Tail(q)) = Len(q) - 1
         /\ \A i \in DOMAIN Tail(q) : Tail(q)[i] = c + 1 + i
<1>1. Len(q) \in Nat \ {0} /\ DOMAIN q = 1 .. Len(q)
  OBVIOUS
<1>2. Tail(q) \in Seq(Nat) /\ Len(Tail(q)) = Len(q) - 1
  BY <1>1
<1>3. ASSUME NEW i \in DOMAIN Tail(q) PROVE Tail(q)[i] = c + 1 + i
  <2>1. i \in 1 .. (Len(q) - 1) /\ i \in Nat
    BY <1>1, <1>2, <1>3
  <2>2. Tail(q)[i] = q[i + 1] /\ i + 1 \in DOMAIN q
    BY <1>1, <2>1
  <2> QED BY <2>1, <2>2
<1> QED BY <1>2, <1>3

(* What taking from a queue does to the events it holds. *)
LEMMA HeadAndTail ==
  ASSUME NEW q \in Seq(Nat), q # <<>>
  PROVE  Head(q) \in Nat /\ Tail(q) \in Seq(Nat) /\ ToSet(q) \subseteq ToSet(Tail(q)) \cup {Head(q)}
<1>1. Head(q) = q[1] /\ Head(q) \in Nat /\ Tail(q) \in Seq(Nat) /\ Len(q) \in Nat \ {0}
      /\ Len(Tail(q)) = Len(q) - 1 /\ \A i \in 1 .. Len(q) - 1 : Tail(q)[i] = q[i + 1]
  OBVIOUS
<1>2. ASSUME NEW i \in 1 .. Len(q), i # 1 PROVE q[i] \in ToSet(Tail(q))
  <2>1. i - 1 \in DOMAIN Tail(q) /\ q[i] = Tail(q)[i - 1]
    BY <1>1, <1>2
  <2> QED BY <2>1 DEF ToSet
<1> QED BY <1>1, <1>2 DEF ToSet

(* What adding to a queue does to the events it holds. *)
LEMMA Appended ==
  ASSUME NEW q \in Seq(Nat), NEW n \in Nat
  PROVE  Append(q, n) \in Seq(Nat) /\ ToSet(q) \cup {n} \subseteq ToSet(Append(q, n))
<1>1. Append(q, n) \in Seq(Nat) /\ Len(Append(q, n)) = Len(q) + 1 /\ Append(q, n)[Len(q) + 1] = n
      /\ \A i \in 1 .. Len(q) : Append(q, n)[i] = q[i]
  OBVIOUS
<1>2. DOMAIN q \subseteq DOMAIN Append(q, n) /\ Len(q) + 1 \in DOMAIN Append(q, n)
  BY <1>1
<1> QED BY <1>1, <1>2 DEF ToSet

(* list_after returns what follows the cursor: a page that is not full ends
   with the log. *)
LEMMA PageFollowsCursor ==
  ASSUME NEW cursor \in Nat, log \in Nat, NEW page, page = ListAfter(cursor)
  PROVE  /\ page \in Seq(Nat) /\ \A i \in DOMAIN page : page[i] = cursor + i
         /\ \A n \in (cursor + 1) .. log :
              n \in ToSet(page) \/ (Len(page) = PageSize /\ n > cursor + Len(page))
<1> DEFINE last == IF cursor + PageSize < log THEN cursor + PageSize ELSE log
           size == IF last > cursor THEN last - cursor ELSE 0
<1>1. size \in Nat /\ last \in Nat /\ PageSize \in Nat \ {0}
  BY EventLogAssumption
<1>2. page = [i \in 1 .. size |-> cursor + i]
  BY DEF ListAfter
<1>3. ASSUME NEW n \in (cursor + 1) .. log, n <= cursor + size PROVE n \in ToSet(page)
  <2>1. n - cursor \in 1 .. size /\ n = cursor + (n - cursor)
    BY <1>1, <1>3
  <2> HIDE DEF size
  <2> QED BY <1>2, <2>1 DEF ToSet
<1>4. ASSUME NEW n \in (cursor + 1) .. log, n > cursor + size PROVE size = PageSize
  BY <1>1, <1>4
<1> HIDE DEF size
<1>5. page \in Seq(Nat) /\ Len(page) = size
  BY <1>1, <1>2
<1>6. \A i \in DOMAIN page : page[i] = cursor + i
  BY <1>2
<1>7. ASSUME NEW n \in (cursor + 1) .. log
      PROVE  n \in ToSet(page) \/ (Len(page) = PageSize /\ n > cursor + Len(page))
  BY <1>1, <1>3, <1>4, <1>5
<1> QED BY <1>5, <1>6, <1>7

-----------------------------------------------------------------------------
(* A step keeps the streams whose locals, registration and queue it keeps. *)
LEMMA StreamStays ==
  ASSUME NEW s \in Streams, StreamInv(s), stream'[s] = stream[s], queue'[s] = queue[s],
         log' = log, s \in hub => s \in hub'
  PROVE  StreamInv(s)'
  BY DEF StreamInv, PageFollows, Runs, Missing, Unqueried

(* At first no stream runs. *)
LEMMA LogInvInit == Init => LogInv
<1> SUFFICES ASSUME Init PROVE LogInv
  OBVIOUS
<1>1. LogType
  <2>1. FreeStream \in StreamLocals /\ ClientType(NewClient) /\ <<>> \in Seq(Nat)
    BY DEF FreeStream, StreamLocals, Phases, NewClient, ClientType
  <2> QED BY <2>1 DEF Init, LogType
<1>2. \A s \in Streams : ~Runs(s)
  BY DEF Init, Runs, FreeStream
<1> QED BY <1>1, <1>2, EventLogAssumption DEF LogInv, StreamInv, PageFollows, Init

(* append: a registered queue gets the event. *)
LEMMA AppendEventInv == ASSUME LogInv, AppendEvent PROVE LogInv'
<1>1. LogType /\ log' = log + 1 /\ log' \in Nat /\ log' <= MaxEvents
      /\ UNCHANGED <<hub, stream, wire, client>>
  BY EventLogAssumption DEF AppendEvent, LogInv, LogType
<1>2. \A s \in Streams : queue'[s] \in Seq(Nat) /\ ToSet(queue[s]) \subseteq ToSet(queue'[s])
                         /\ (s \in hub => log' \in ToSet(queue'[s]))
  <2> SUFFICES ASSUME NEW s \in Streams
               PROVE  queue'[s] \in Seq(Nat) /\ ToSet(queue[s]) \subseteq ToSet(queue'[s])
                      /\ (s \in hub => log' \in ToSet(queue'[s]))
    OBVIOUS
  <2>1. queue[s] \in Seq(Nat) /\ queue'[s] = IF s \in hub THEN Append(queue[s], log') ELSE queue[s]
    BY <1>1 DEF AppendEvent, LogType
  <2> QED BY <1>1, <2>1, Appended
<1>3. queue' \in [Streams -> Seq(Nat)]
  BY <1>2 DEF AppendEvent
<1>4. ASSUME NEW s \in Streams PROVE StreamInv(s)'
  <2>1. stream'[s] = stream[s] /\ PageFollows(s)' /\ Unqueried(s)' = Unqueried(s)
    BY <1>1 DEF LogInv, StreamInv, PageFollows, Runs, Unqueried
  <2>2. ASSUME Runs(s)', NEW n \in (stream'[s].cursor + 1) .. log'
        PROVE  n \in ToSet(stream'[s].batch) \cup ToSet(queue'[s]) \cup Unqueried(s)'
    <3>1. Runs(s) /\ s \in hub /\ Missing(s) = {}
      BY <2>1, <2>2 DEF LogInv, StreamInv, PageFollows, Runs
    <3>2. CASE n = log'
      BY <1>2, <3>1, <3>2
    <3>3. CASE n # log'
      <4>1. n \in (stream[s].cursor + 1) .. log
        BY <1>1, <2>1, <2>2, <3>3 DEF LogType, StreamLocals
      <4> QED BY <1>2, <2>1, <3>1, <4>1 DEF Missing
    <3> QED BY <3>2, <3>3
  <2> QED BY <2>1, <2>2 DEF StreamInv, Missing
<1> QED BY <1>1, <1>3, <1>4 DEF LogInv, LogType

(* A query leaves in the page, or for later pages, all that the cursor has
   not passed. *)
LEMMA QueryPageInv ==
  ASSUME LogInv, NEW s \in Streams, QueryPage(s), UNCHANGED <<log, queue, wire, client>>,
         hub' \subseteq Streams, hub \subseteq hub', s \in hub'
  PROVE  LogInv'
<1>1. LogType /\ stream[s] \in StreamLocals /\ stream[s].cursor \in Nat /\ log <= MaxEvents
  BY DEF LogInv, LogType, StreamLocals
<1>2. PICK page : page = ListAfter(stream[s].cursor)
  OBVIOUS
<1> DEFINE new == [stream[s] EXCEPT !.phase = IF page = <<>> THEN "live" ELSE "replay",
                                    !.batch = page, !.full = Len(page) = PageSize]
<1>3. stream' = [stream EXCEPT ![s] = new]
  BY <1>2 DEF QueryPage
<1>4. page \in Seq(Nat) /\ \A i \in DOMAIN page : page[i] = stream[s].cursor + i
  BY <1>1, <1>2, PageFollowsCursor DEF LogType
<1>5. /\ new \in StreamLocals /\ new.cursor = stream[s].cursor /\ new.batch = page
      /\ new.full = (Len(page) = PageSize)
      /\ new.phase = IF page = <<>> THEN "live" ELSE "replay"
  BY <1>1, <1>4 DEF StreamLocals, Phases
<1> HIDE DEF new
<1>6. stream' \in [Streams -> StreamLocals] /\ stream'[s] = new
      /\ \A t \in Streams \ {s} : stream'[t] = stream[t]
  BY <1>1, <1>3, <1>5 DEF LogType
<1>7. LogType'
  BY <1>1, <1>6 DEF LogType
<1>8. ASSUME NEW n \in (stream[s].cursor + 1) .. log
      PROVE  n \in ToSet(page) \cup Unqueried(s)'
  <2>1. n \in ToSet(page) \/ (Len(page) = PageSize /\ n > stream[s].cursor + Len(page))
    BY <1>1, <1>2, PageFollowsCursor DEF LogType
  <2>2. n \in Sequence
    BY <1>1, EventLogAssumption DEF LogType, Sequence
  <2>3. CASE Len(page) = PageSize /\ n > stream[s].cursor + Len(page)
    <3>1. page # <<>>
      BY <2>3, EventLogAssumption
    <3> QED BY <1>5, <1>6, <2>2, <2>3, <3>1 DEF Unqueried
  <2> QED BY <2>1, <2>3
<1>9. StreamInv(s)'
  <2>1. PageFollows(s)'
    BY <1>4, <1>5, <1>6 DEF PageFollows
  <2>2. Missing(s)' = {}
    BY <1>5, <1>6, <1>8 DEF Missing
  <2> QED BY <2>1, <2>2 DEF StreamInv
<1>10. \A t \in Streams \ {s} : StreamInv(t)'
  BY <1>6, StreamStays DEF LogInv
<1> QED BY <1>1, <1>7, <1>9, <1>10 DEF LogInv

(* A step that changes the locals and the queue of one stream. *)
LEMMA OneStream ==
  ASSUME LogInv, NEW s \in Streams, NEW new \in StreamLocals,
         stream' = [stream EXCEPT ![s] = new], queue' \in [Streams -> Seq(Nat)],
         \A t \in Streams \ {s} : queue'[t] = queue[t] /\ (t \in hub => t \in hub'),
         hub' \subseteq Streams, wire' \in [Streams -> Seq(Nat)], log' = log,
         DOMAIN client' = Clients,
         \A b \in Clients : ClientType(client'[b]),
         StreamInv(s)'
  PROVE  LogInv'
<1>1. stream' \in [Streams -> StreamLocals] /\ \A t \in Streams \ {s} : stream'[t] = stream[t]
  BY DEF LogInv, LogType
<1>2. \A t \in Streams \ {s} : StreamInv(t)'
  BY <1>1, StreamStays DEF LogInv
<1>3. LogType'
  BY <1>1 DEF LogInv, LogType
<1> QED BY <1>2, <1>3 DEF LogInv

(* The replay sends the next event of its page. *)
LEMMA SendReplayedInv == ASSUME LogInv, NEW s \in Streams, SendReplayed(s) PROVE LogInv'
<1>1. LogType /\ stream[s] \in StreamLocals /\ StreamInv(s)
  BY DEF LogInv, LogType
<1> DEFINE batch == stream[s].batch
           cursor == stream[s].cursor
<1>2. batch \in Seq(Nat) /\ cursor \in Nat /\ batch # <<>> /\ stream[s].phase = "replay"
  BY <1>1 DEF SendReplayed, StreamLocals
<1>3. s \in hub /\ \A i \in DOMAIN batch : batch[i] = cursor + i
  BY <1>1, <1>2 DEF StreamInv, PageFollows, Runs
<1>4. Head(batch) = cursor + 1
  BY <1>2, <1>3, FirstOfPage
<1>5. Tail(batch) \in Seq(Nat) /\ Len(Tail(batch)) = Len(batch) - 1 /\ Len(batch) \in Nat
       /\ \A i \in DOMAIN Tail(batch) : Tail(batch)[i] = cursor + 1 + i
  <2> HIDE DEF batch, cursor
  <2>1. Len(batch) \in Nat
    BY <1>2
  <2> QED BY <1>2, <1>3, <2>1, RestOfPage
<1>6. ToSet(batch) \subseteq ToSet(Tail(batch)) \cup {cursor + 1}
  BY <1>2, <1>4, HeadAndTail
<1>7. \A n \in (cursor + 1) .. log : n \in ToSet(batch) \cup ToSet(queue[s]) \cup Unqueried(s)
  BY <1>1, <1>2 DEF StreamInv, Runs, Missing
<1>8. \A n \in Nat : n > cursor + Len(batch) <=> n > cursor + 1 + Len(Tail(batch))
  BY <1>2, <1>5
<1>9. PICK rest \in Seq(Nat) : rest = Tail(batch)
  BY <1>5
<1> DEFINE new == [stream[s] EXCEPT !.batch = Tail(batch), !.cursor = cursor + 1]
<1>10. stream' = [stream EXCEPT ![s] = new]
  <2>1. stream' = [stream EXCEPT ![s] = [stream[s] EXCEPT !.batch = Tail(batch),
                     !.cursor = IF Head(batch) > cursor THEN Head(batch) ELSE cursor]]
    BY DEF SendReplayed
  <2>2. (IF Head(batch) > cursor THEN Head(batch) ELSE cursor) = cursor + 1
    BY <1>2, <1>4
  <2> QED BY <2>1, <2>2
<1>11. new \in StreamLocals /\ new.batch = Tail(batch) /\ new.cursor = cursor + 1
      /\ new.phase = stream[s].phase /\ new.full = stream[s].full
  <2>1. new = [stream[s] EXCEPT !.batch = rest, !.cursor = cursor + 1]
    BY <1>9
  <2>2. PICK old \in StreamLocals : old = stream[s]
    BY <1>1
  <2>3. PICK c \in Nat : c = cursor
    BY <1>2
  <2> DEFINE half == [old EXCEPT !.batch = rest]
  <2>4. half \in StreamLocals /\ half.batch = rest /\ half.phase = old.phase /\ half.full = old.full
    BY DEF StreamLocals
  <2>5. new = [half EXCEPT !.cursor = c + 1]
    BY <2>1, <2>2, <2>3
  <2> HIDE DEF half, new
  <2>6. c + 1 \in Nat
    OBVIOUS
  <2>7. new \in StreamLocals /\ new.batch = rest /\ new.cursor = c + 1
        /\ new.phase = old.phase /\ new.full = old.full
    BY <2>4, <2>5, <2>6 DEF StreamLocals
  <2> QED BY <1>9, <2>2, <2>3, <2>7
<1> HIDE DEF new
<1>12. stream' = [stream EXCEPT ![s] = new] /\ stream'[s] = new
  BY <1>1, <1>10 DEF LogType
<1>13. Unqueried(s)' = Unqueried(s)
  <2>1. CASE ~stream[s].full
    BY <1>11, <1>12, <2>1 DEF Unqueried
  <2>2. CASE stream[s].full
    <3>1. Unqueried(s)' = {n \in Sequence : n > cursor + 1 + Len(Tail(batch))}
      BY <1>2, <1>11, <1>12, <2>2 DEF Unqueried
    <3>2. Unqueried(s) = {n \in Sequence : n > cursor + Len(batch)}
      BY <1>2, <2>2 DEF Unqueried
    <3>3. Sequence \subseteq Nat
      BY DEF Sequence
    <3> QED BY <1>8, <3>1, <3>2, <3>3
  <2> QED BY <2>1, <2>2
<1>14. UNCHANGED <<log, hub, queue, client>>
  BY DEF SendReplayed
<1>15. wire' \in [Streams -> Seq(Nat)]
  BY <1>1, <1>2, <1>4, Appended DEF SendReplayed, LogType
<1>16. PageFollows(s)'
  BY <1>2, <1>3, <1>5, <1>11, <1>12, <1>14 DEF PageFollows
<1>17. ASSUME NEW n \in (cursor + 2) .. log
       PROVE  n \in ToSet(Tail(batch)) \cup ToSet(queue[s]) \cup Unqueried(s)
  <2>1. n \in (cursor + 1) .. log /\ n # cursor + 1
    BY <1>1, <1>2, <1>17 DEF LogType
  <2> QED BY <1>7, <1>6, <2>1
<1>18. Missing(s)' = {}
  BY <1>2, <1>11, <1>12, <1>13, <1>14, <1>17 DEF Missing
<1> QED BY <1>1, <1>11, <1>12, <1>14, <1>15, <1>16, <1>18, OneStream DEF LogType, StreamInv

(* A queued event is sent, or was sent by the replay. *)
LEMMA SendLiveInv == ASSUME LogInv, NEW s \in Streams, SendLive(s) PROVE LogInv'
<1>1. LogType /\ stream[s] \in StreamLocals /\ StreamInv(s) /\ queue[s] \in Seq(Nat)
  BY DEF LogInv, LogType
<1> DEFINE event == Head(queue[s])
           cursor == stream[s].cursor
           next == IF event > cursor THEN event ELSE cursor
           new == [stream[s] EXCEPT !.cursor = next]
<1>2. /\ cursor \in Nat /\ queue[s] # <<>> /\ stream[s].phase = "live" /\ stream[s].batch = <<>>
      /\ s \in hub
  BY <1>1 DEF SendLive, StreamLocals, StreamInv, PageFollows, Runs
<1>3. event \in Nat /\ next \in Nat /\ next >= cursor /\ next >= event
      /\ Tail(queue[s]) \in Seq(Nat) /\ ToSet(queue[s]) \subseteq ToSet(Tail(queue[s])) \cup {event}
  BY <1>1, <1>2, HeadAndTail
<1>4. new \in StreamLocals /\ new.cursor = next /\ new.phase = "live" /\ new.batch = <<>>
  BY <1>1, <1>2, <1>3 DEF StreamLocals
<1>5. stream' = [stream EXCEPT ![s] = new]
  BY <1>1 DEF SendLive, LogType
<1> HIDE DEF new, next, event
<1>6. stream'[s] = new /\ queue'[s] = Tail(queue[s])
  BY <1>1, <1>5 DEF SendLive, LogType
<1>7. UNCHANGED <<log, hub, client>>
  BY DEF SendLive
<1>8. queue' \in [Streams -> Seq(Nat)] /\ \A t \in Streams \ {s} : queue'[t] = queue[t]
  BY <1>1, <1>3 DEF SendLive, LogType
<1>9. wire' \in [Streams -> Seq(Nat)]
  BY <1>1, <1>3, Appended DEF SendLive, LogType, event
<1>10. PageFollows(s)'
  BY <1>2, <1>4, <1>6, <1>7 DEF PageFollows
<1>11. ASSUME NEW n \in (next + 1) .. log PROVE n \in ToSet(Tail(queue[s]))
  <2>1. n \in (cursor + 1) .. log /\ n # event
    BY <1>1, <1>2, <1>3, <1>11 DEF LogType
  <2>2. Unqueried(s) = {} /\ ToSet(stream[s].batch) = {}
    BY <1>2 DEF Unqueried, ToSet
  <2>3. n \in ToSet(queue[s])
    BY <1>1, <1>2, <2>1, <2>2 DEF StreamInv, Runs, Missing
  <2> QED BY <1>3, <2>1, <2>3
<1>12. Missing(s)' = {}
  BY <1>4, <1>6, <1>7, <1>11 DEF Missing
<1> QED BY <1>1, <1>4, <1>5, <1>7, <1>8, <1>9, <1>10, <1>12, OneStream DEF LogType, StreamInv

(* A stream turns live when it has sent a page that was not full. *)
LEMMA NextPageInv == ASSUME LogInv, NEW s \in Streams, NextPage(s) PROVE LogInv'
<1>1. LogType /\ stream[s] \in StreamLocals /\ StreamInv(s) /\ s \in hub
      /\ stream[s].phase = "replay" /\ stream[s].batch = <<>>
  BY DEF LogInv, LogType, NextPage, StreamInv, PageFollows, Runs
<1>2. UNCHANGED <<log, hub, queue, wire, client>>
  BY DEF NextPage
<1>3. CASE stream[s].full
  BY <1>1, <1>2, <1>3, QueryPageInv DEF NextPage, LogType
<1>4. CASE ~stream[s].full
  <2> DEFINE new == [stream[s] EXCEPT !.phase = "live"]
  <2>1. stream' = [stream EXCEPT ![s] = new]
    BY <1>1, <1>4 DEF NextPage, LogType
  <2>2. new \in StreamLocals /\ new.phase = "live" /\ new.batch = <<>>
        /\ new.cursor = stream[s].cursor
    BY <1>1 DEF StreamLocals, Phases
  <2> HIDE DEF new
  <2>3. stream'[s] = new
    BY <1>1, <2>1 DEF LogType
  <2>4. Unqueried(s) = {} /\ Missing(s) = {}
    BY <1>1, <1>4 DEF Unqueried, StreamInv, Runs
  <2>5. StreamInv(s)'
    BY <1>1, <1>2, <2>2, <2>3, <2>4 DEF StreamInv, PageFollows, Missing
  <2> QED BY <1>1, <1>2, <2>1, <2>2, <2>5, OneStream DEF LogType
<1> QED BY <1>3, <1>4

(* A step that changes what one client knows. *)
LEMMA OneClient ==
  ASSUME LogType, NEW b \in Clients, NEW c, ClientType(c), client' = [client EXCEPT ![b] = c]
  PROVE  DOMAIN client' = Clients /\ \A a \in Clients : ClientType(client'[a])
<1>1. \A a \in Clients : client'[a] = IF a = b THEN c ELSE client[a]
  BY DEF LogType
<1> QED BY <1>1 DEF LogType

(* A client takes up a connection or loses it. *)
LEMMA Connected ==
  ASSUME LogType, NEW b \in Clients, NEW s \in Streams \cup {None},
         client' = [client EXCEPT ![b].conn = s]
  PROVE  DOMAIN client' = Clients /\ \A a \in Clients : ClientType(client'[a])
<1>1. ClientType([client[b] EXCEPT !.conn = s])
  BY DEF LogType, ClientType
<1>2. client' = [client EXCEPT ![b] = [client[b] EXCEPT !.conn = s]]
  OBVIOUS
<1> QED BY <1>1, <1>2, OneClient

(* A stream that is opened, ends or is freed does not run. *)
LEMMA QuietStreamInv ==
  ASSUME LogInv, NEW s \in Streams,
         EndStream(s) \/ Unregister(s) \/ \E b \in Clients : Connect(b, s)
  PROVE  LogInv'
<1>1. LogType /\ stream[s] \in StreamLocals
  BY DEF LogInv, LogType
<1>2. PICK new \in StreamLocals :
        stream' = [stream EXCEPT ![s] = new] /\ new.phase \in {"free", "opened", "ended"}
  <2>1. CASE EndStream(s)
    <3>1. [stream[s] EXCEPT !.phase = "ended"] \in StreamLocals
      BY <1>1 DEF StreamLocals, Phases
    <3>2. [stream[s] EXCEPT !.phase = "ended"].phase = "ended"
      BY <1>1 DEF StreamLocals
    <3> QED BY <1>1, <2>1, <3>1, <3>2 DEF EndStream, LogType
  <2>2. CASE Unregister(s)
    <3>1. FreeStream \in StreamLocals /\ FreeStream.phase = "free"
      BY DEF FreeStream, StreamLocals, Phases
    <3> QED BY <2>2, <3>1 DEF Unregister
  <2>3. ASSUME NEW b \in Clients, Connect(b, s)
        PROVE  \E new \in StreamLocals :
                 stream' = [stream EXCEPT ![s] = new] /\ new.phase \in {"free", "opened", "ended"}
    <3>1. FreeStream \in StreamLocals /\ client[b].last \in Nat
      BY <1>1 DEF FreeStream, StreamLocals, Phases, LogType, ClientType
    <3>2. PICK free \in StreamLocals, last \in Nat : free = FreeStream /\ last = client[b].last
      BY <3>1
    <3> DEFINE new == [free EXCEPT !.phase = "opened", !.cursor = last]
    <3>3. new \in StreamLocals /\ new.phase = "opened"
      BY DEF StreamLocals, Phases
    <3>4. stream' = [stream EXCEPT ![s] = new]
      BY <2>3, <3>2 DEF Connect
    <3> HIDE DEF new
    <3> QED BY <3>3, <3>4
  <2> QED BY <2>1, <2>2, <2>3
<1>3. stream'[s] = new /\ log' = log
  BY <1>1, <1>2 DEF LogType, EndStream, Unregister, Connect
<1>4. StreamInv(s)'
  BY <1>2, <1>3 DEF StreamInv, PageFollows, Runs
<1>5. /\ queue' \in [Streams -> Seq(Nat)] /\ wire' \in [Streams -> Seq(Nat)]
      /\ hub' \subseteq Streams
      /\ \A t \in Streams \ {s} : queue'[t] = queue[t] /\ (t \in hub => t \in hub')
  <2>1. CASE Unregister(s)
    <3>1. <<>> \in Seq(Nat)
      OBVIOUS
    <3> QED BY <1>1, <2>1, <3>1 DEF LogType, Unregister
  <2>2. CASE UNCHANGED <<hub, queue, wire>>
    BY <1>1, <2>2 DEF LogType
  <2> QED BY <2>1, <2>2 DEF EndStream, Connect
<1>6. DOMAIN client' = Clients /\ \A b \in Clients : ClientType(client'[b])
  <2>1. CASE client' = client
    BY <1>1, <2>1 DEF LogType
  <2>2. ASSUME NEW b \in Clients, Connect(b, s)
        PROVE  DOMAIN client' = Clients /\ \A a \in Clients : ClientType(client'[a])
    BY <1>1, <2>2, Connected DEF LogType, Connect
  <2> QED BY <2>1, <2>2 DEF EndStream, Unregister
<1> QED BY <1>2, <1>3, <1>4, <1>5, <1>6, OneStream

(* What a client does leaves the streams as they are. *)
LEMMA ClientInv ==
  ASSUME LogInv, NEW b \in Clients, Receive(b) \/ LoseConnection(b) \/ Reload(b)
  PROVE  LogInv'
<1>1. LogType
  BY DEF LogInv
<1>2. UNCHANGED <<log, hub, queue, stream>>
  BY DEF Receive, LoseConnection, Reload, server
<1>3. /\ DOMAIN client' = Clients /\ wire' \in [Streams -> Seq(Nat)]
      /\ \A a \in Clients : ClientType(client'[a])
  <2>1. CASE LoseConnection(b)
    <3>1. client' = [client EXCEPT ![b].conn = None] /\ wire' = wire
      BY <2>1 DEF LoseConnection, server
    <3> QED BY <1>1, <3>1, Connected DEF LogType
  <2>2. CASE Reload(b)
    <3>1. client' = [client EXCEPT ![b] = NewClient] /\ wire' = wire
      BY <2>2 DEF Reload, server
    <3>2. ClientType(NewClient)
      BY DEF ClientType, NewClient
    <3> QED BY <1>1, <3>1, <3>2, OneClient DEF LogType
  <2>3. CASE Receive(b)
    <3> DEFINE s == client[b].conn
    <3>1. s \in Streams /\ wire[s] \in Seq(Nat) /\ wire[s] # <<>>
      BY <1>1, <2>3 DEF LogType, ClientType, Receive
    <3>2. Head(wire[s]) \in Nat /\ Tail(wire[s]) \in Seq(Nat)
      BY <3>1, HeadAndTail
    <3>3. wire' \in [Streams -> Seq(Nat)]
      BY <1>1, <2>3, <3>1, <3>2 DEF LogType, Receive
    <3>4. CASE client' = client
      BY <1>1, <3>3, <3>4 DEF LogType
    <3>5. CASE client' # client
      <4>1. PICK received, contiguous :
              client' = [client EXCEPT ![b] = [client[b] EXCEPT
                !.received = received, !.last = Head(wire[s]), !.contiguous = contiguous]]
        BY <2>3, <3>5 DEF Receive
      <4>2. ClientType([client[b] EXCEPT !.received = received, !.last = Head(wire[s]),
                                         !.contiguous = contiguous])
        BY <1>1, <3>2 DEF LogType, ClientType
      <4> QED BY <1>1, <3>3, <4>1, <4>2, OneClient
    <3> QED BY <3>4, <3>5
  <2> QED BY <2>1, <2>2, <2>3
<1>4. \A s \in Streams : StreamInv(s)'
  BY <1>2, StreamStays DEF LogInv
<1> QED BY <1>1, <1>2, <1>3, <1>4 DEF LogInv, LogType

(* Every step keeps the invariant. *)
LEMMA LogInvNext == LogInv /\ [Next]_vars => LogInv'
<1> SUFFICES ASSUME LogInv, [Next]_vars PROVE LogInv'
  OBVIOUS
<1>1. CASE AppendEvent
  BY <1>1, AppendEventInv
<1>2. CASE Restart
  <2>1. LogType'
    <3>1. FreeStream \in StreamLocals /\ <<>> \in Seq(Nat) /\ LogType
      BY DEF FreeStream, StreamLocals, Phases, LogInv
    <3>2. DOMAIN client' = Clients /\ \A b \in Clients : client'[b] = [client[b] EXCEPT !.conn = None]
      BY <1>2 DEF Restart
    <3>3. \A b \in Clients : ClientType([client[b] EXCEPT !.conn = None])
      BY <3>1 DEF LogType, ClientType
    <3>4. \A b \in Clients : ClientType(client'[b])
      BY <3>2, <3>3
    <3> QED BY <1>2, <3>1, <3>2, <3>4 DEF Restart, LogType
  <2>2. \A s \in Streams : ~Runs(s)'
    BY <1>2 DEF Restart, Runs, FreeStream
  <2> QED BY <1>2, <2>1, <2>2 DEF LogInv, StreamInv, PageFollows, Restart
<1>3. ASSUME NEW s \in Streams, StreamStep(s) PROVE LogInv'
  <2>1. CASE StartStream(s)
    <3>1. hub' = hub \cup {s} /\ QueryPage(s) /\ UNCHANGED <<log, queue, wire, client>>
      BY <2>1 DEF StartStream
    <3>2. hub \subseteq Streams
      BY DEF LogInv, LogType
    <3> QED BY <3>1, <3>2, QueryPageInv
  <2> QED BY <1>3, <2>1, SendReplayedInv, NextPageInv, SendLiveInv, QuietStreamInv DEF StreamStep
<1>4. ASSUME NEW b \in Clients, ClientStep(b) \/ LoseConnection(b) \/ Reload(b) PROVE LogInv'
  BY <1>4, ClientInv, QuietStreamInv DEF ClientStep
<1>5. CASE UNCHANGED vars
  <2>1. UNCHANGED <<log, hub, queue, stream, wire, client>>
    BY <1>5 DEF vars, server
  <2> QED BY <2>1 DEF LogInv, LogType, StreamInv, PageFollows, Runs, Missing, Unqueried
<1> QED BY <1>1, <1>2, <1>3, <1>4, <1>5 DEF Next

(* subscribe: between replay and queue no event falls through, however
   appends, pages, lost connections and restarts interleave. *)
THEOREM NoEventIsMissed == Spec => []StreamsMissNothing
<1>1. LogInv => StreamsMissNothing
  BY DEF LogInv, StreamInv, Runs, Missing, StreamsMissNothing
<1> QED BY LogInvInit, LogInvNext, <1>1, PTL DEF Spec

-----------------------------------------------------------------------------
(* The formula of StreamsOnlyAdvance, of one stream and one step *)
Advances(s) ==
  Len(wire'[s]) > Len(wire[s]) =>
    stream'[s].cursor > stream[s].cursor /\ Last(wire'[s]) = stream'[s].cursor

(* A frame that is added to a wire is its last one. *)
LEMMA LastFrame ==
  ASSUME NEW q \in Seq(Nat), NEW n \in Nat
  PROVE  Last(Append(q, n)) = n
  BY DEF Last

(* No other step than sending makes a wire longer. *)
LEMMA QuietWire ==
  ASSUME LogInv, NEW s \in Streams, NEW t \in Streams, wire' = [wire EXCEPT ![t] = Tail(@)],
         wire[t] # <<>>
  PROVE  Advances(s)
<1>1. wire[s] \in Seq(Nat) /\ wire[t] \in Seq(Nat)
  BY DEF LogInv, LogType
<1>2. wire'[s] = IF s = t THEN Tail(wire[s]) ELSE wire[s]
  BY DEF LogInv, LogType
<1>3. Len(wire[s]) \in Nat /\ (s = t => Len(Tail(wire[s])) = Len(wire[s]) - 1)
  BY <1>1
<1> QED BY <1>2, <1>3 DEF Advances

(* Sending advances the cursor to the frame that is sent. *)
LEMMA SendingAdvances ==
  ASSUME LogInv, NEW s \in Streams, NEW t \in Streams, SendReplayed(t) \/ SendLive(t)
  PROVE  Advances(s)
<1>1. LogType /\ stream[t] \in StreamLocals /\ stream[t].cursor \in Nat /\ wire[s] \in Seq(Nat)
  BY DEF LogInv, LogType, StreamLocals
<1>2. PICK event \in Nat :
        /\ event = Head(stream[t].batch) \/ event = Head(queue[t])
        /\ wire' = [wire EXCEPT ![t] = IF event > stream[t].cursor THEN Append(@, event) ELSE @]
        /\ stream'[t].cursor = IF event > stream[t].cursor THEN event ELSE stream[t].cursor
  <2>1. CASE SendReplayed(t)
    <3>1. stream[t].batch \in Seq(Nat) /\ Head(stream[t].batch) \in Nat
      BY <1>1, <2>1, HeadAndTail DEF SendReplayed, StreamLocals
    <3> QED BY <1>1, <2>1, <3>1 DEF SendReplayed, LogType, StreamLocals
  <2>2. CASE SendLive(t)
    <3>1. queue[t] \in Seq(Nat) /\ Head(queue[t]) \in Nat
      BY <1>1, <2>2, HeadAndTail DEF SendLive, LogType
    <3> QED BY <1>1, <2>2, <3>1 DEF SendLive, LogType, StreamLocals
  <2> QED BY <2>1, <2>2
<1>3. CASE s = t /\ event > stream[t].cursor
  BY <1>1, <1>2, <1>3, LastFrame DEF Advances, LogType
<1>4. CASE s # t \/ ~(event > stream[t].cursor)
  <2>1. wire'[s] = wire[s] /\ Len(wire[s]) \in Nat
    BY <1>1, <1>2, <1>4 DEF LogType
  <2> QED BY <2>1 DEF Advances
<1> QED BY <1>3, <1>4

(* subscribe: replay and queue together send each event once and in order. *)
THEOREM StreamsAlwaysAdvance == Spec => StreamsOnlyAdvance
<1>1. ASSUME LogInv, [Next]_vars, NEW s \in Streams PROVE Advances(s)
  <2>1. wire[s] \in Seq(Nat) /\ Len(wire[s]) \in Nat
    BY <1>1 DEF LogInv, LogType
  <2>2. CASE wire'[s] = wire[s]
    BY <2>1, <2>2 DEF Advances
  <2>3. CASE wire'[s] = <<>>
    BY <2>1, <2>3 DEF Advances
  <2>4. ASSUME NEW t \in Streams, StreamStep(t) PROVE Advances(s)
    <3>1. CASE SendReplayed(t) \/ SendLive(t)
      BY <1>1, <3>1, SendingAdvances
    <3>2. CASE Unregister(t)
      <4>1. wire'[s] = wire[s] \/ wire'[s] = <<>>
        BY <1>1, <3>2 DEF Unregister, LogInv, LogType
      <4> QED BY <2>2, <2>3, <4>1
    <3>3. CASE wire' = wire
      BY <2>2, <3>3
    <3> QED BY <2>4, <3>1, <3>2, <3>3 DEF StreamStep, StartStream, NextPage, EndStream
  <2>5. ASSUME NEW b \in Clients, Receive(b) PROVE Advances(s)
    <3>1. client[b].conn \in Streams
      BY <1>1, <2>5 DEF LogInv, LogType, ClientType, Receive
    <3> QED BY <1>1, <2>5, <3>1, QuietWire DEF Receive
  <2>6. CASE Restart
    <3>1. wire'[s] = <<>>
      BY <2>6 DEF Restart
    <3> QED BY <2>3, <3>1
  <2>7. CASE wire' = wire
    BY <2>2, <2>7
  <2> QED BY <1>1, <2>4, <2>5, <2>6, <2>7
        DEF Next, ClientStep, AppendEvent, Connect, LoseConnection, Reload, server, vars
<1>2. LogInv /\ [Next]_vars => [\A s \in Streams : Advances(s)]_vars
  BY <1>1
<1>3. [\A s \in Streams : Advances(s)]_vars =
      [\A s \in Streams :
         Len(wire'[s]) > Len(wire[s]) =>
           stream'[s].cursor > stream[s].cursor /\ Last(wire'[s]) = stream'[s].cursor]_vars
  BY DEF Advances
<1> QED BY LogInvInit, LogInvNext, <1>2, <1>3, PTL DEF Spec, StreamsOnlyAdvance, Advances

-----------------------------------------------------------------------------
(***************************************************************************)
(* The event log implements OrderedDelivery, for any number of clients,    *)
(* streams, events and faults and any page size: the frames on a wire      *)
(* continue what their reader has received, and end at the stream's        *)
(* cursor.                                                                 *)
(***************************************************************************)

Open == {"opened", "replay", "live"}

(* A queue holds events of the log in order. *)
QueueInv(s) ==
  \A i, j \in DOMAIN queue[s] :
    queue[s][i] <= log /\ (i < j => queue[s][i] < queue[s][j])

(* A stream sends events of the log. *)
PageInv(s) ==
  /\ stream[s].cursor <= log
  /\ stream[s].phase = "replay" => stream[s].cursor + Len(stream[s].batch) <= log

WireInv(s) == stream[s].phase \in {"free", "opened"} => wire[s] = <<>>

ServerInv(s) == QueueInv(s) /\ PageInv(s) /\ WireInv(s)

(* What a client reads begins behind its last event. *)
Reads(b, s) ==
  /\ stream[s].phase \in Open
  /\ stream[s].cursor = client[b].last + Len(wire[s])
  /\ \A i \in DOMAIN wire[s] : wire[s][i] = client[b].last + i

ReaderInv(b) ==
  /\ "received" \in DOMAIN client[b]
  /\ client[b].received = 1 .. client[b].last
  /\ client[b].last <= log
  /\ \A s \in Streams : client[b].conn = s => Reads(b, s)

SingleReader ==
  \A a, b \in Clients, s \in Streams : client[a].conn = s /\ client[b].conn = s => a = b

OrderInv ==
  /\ LogInv
  /\ \A s \in Streams : ServerInv(s)
  /\ \A b \in Clients : ReaderInv(b)
  /\ SingleReader

-----------------------------------------------------------------------------
(* Adding the next event to a queue keeps its order. *)
LEMMA QueueGrows ==
  ASSUME NEW q \in Seq(Nat), NEW n \in Nat,
         \A i, j \in DOMAIN q : q[i] <= n /\ (i < j => q[i] < q[j])
  PROVE  LET r == Append(q, n + 1) IN
         \A i, j \in DOMAIN r : r[i] <= n + 1 /\ (i < j => r[i] < r[j])
<1> DEFINE r == Append(q, n + 1)
<1>1. Len(q) \in Nat /\ DOMAIN q = 1 .. Len(q) /\ DOMAIN r = 1 .. (Len(q) + 1)
      /\ r[Len(q) + 1] = n + 1 /\ \A i \in DOMAIN q : r[i] = q[i] /\ q[i] \in Nat
  OBVIOUS
<1> HIDE DEF r
<1>2. ASSUME NEW i \in DOMAIN r, NEW j \in DOMAIN r
      PROVE  r[i] <= n + 1 /\ (i < j => r[i] < r[j])
  <2>1. (i \in DOMAIN q \/ i = Len(q) + 1) /\ (j \in DOMAIN q \/ j = Len(q) + 1)
    BY <1>1
  <2>2. CASE i \in DOMAIN q /\ j \in DOMAIN q
    BY <1>1, <2>2, SMTT(30)
  <2>3. CASE i \in DOMAIN q /\ j = Len(q) + 1
    BY <1>1, <2>3
  <2>4. CASE i = Len(q) + 1
    BY <1>1, <2>1, <2>4
  <2> QED BY <2>1, <2>2, <2>3, <2>4
<1> QED BY <1>2 DEF r

(* Taking the first event from a queue keeps its order. *)
LEMMA QueueShrinks ==
  ASSUME NEW q \in Seq(Nat), q # <<>>, NEW n \in Nat,
         \A i, j \in DOMAIN q : q[i] <= n /\ (i < j => q[i] < q[j])
  PROVE  /\ \A i, j \in DOMAIN Tail(q) :
              Tail(q)[i] <= n /\ (i < j => Tail(q)[i] < Tail(q)[j])
         /\ Head(q) \in Nat /\ Head(q) <= n /\ \A e \in ToSet(q) : Head(q) <= e
<1>1. Len(q) \in Nat \ {0} /\ DOMAIN q = 1 .. Len(q) /\ DOMAIN Tail(q) = 1 .. (Len(q) - 1)
      /\ Head(q) = q[1] /\ \A i \in DOMAIN Tail(q) : Tail(q)[i] = q[i + 1]
  OBVIOUS
<1>2. \A i \in DOMAIN Tail(q) : i + 1 \in DOMAIN q /\ i \in Nat
  BY <1>1
<1>3. ASSUME NEW e \in ToSet(q) PROVE Head(q) <= e
  <2>1. PICK i \in DOMAIN q : e = q[i]
    BY DEF ToSet
  <2>2. i = 1 \/ 1 < i
    BY <1>1
  <2>3. 1 \in DOMAIN q /\ q[1] \in Nat /\ q[i] \in Nat
    BY <1>1
  <2> QED BY <1>1, <2>1, <2>2, <2>3
<1>4. Head(q) \in Nat /\ Head(q) <= n
  BY <1>1
<1>5. ASSUME NEW i \in DOMAIN Tail(q), NEW j \in DOMAIN Tail(q)
      PROVE  Tail(q)[i] <= n /\ (i < j => Tail(q)[i] < Tail(q)[j])
  BY <1>1, <1>2, SMTT(30)
<1> QED BY <1>3, <1>4, <1>5

(* A reader's wire that gets the next event still continues what it has. *)
LEMMA FrameAdded ==
  ASSUME NEW w \in Seq(Nat), NEW last \in Nat, \A i \in DOMAIN w : w[i] = last + i
  PROVE  LET x == Append(w, last + Len(w) + 1) IN
         Len(x) = Len(w) + 1 /\ \A i \in DOMAIN x : x[i] = last + i
<1> DEFINE x == Append(w, last + Len(w) + 1)
<1>1. Len(w) \in Nat /\ DOMAIN w = 1 .. Len(w) /\ DOMAIN x = 1 .. (Len(w) + 1)
      /\ Len(x) = Len(w) + 1
      /\ x[Len(w) + 1] = last + Len(w) + 1 /\ \A i \in DOMAIN w : x[i] = w[i]
  OBVIOUS
<1> HIDE DEF x
<1>2. ASSUME NEW i \in DOMAIN x PROVE x[i] = last + i
  <2>1. CASE i \in DOMAIN w
    <3>1. x[i] = w[i]
      BY <1>1, <2>1
    <3>2. w[i] = last + i
      BY <2>1
    <3> QED BY <3>1, <3>2
  <2>2. CASE i = Len(w) + 1
    BY <1>1, <2>2
  <2> QED BY <1>1, <2>1, <2>2
<1> QED BY <1>1, <1>2 DEF x

-----------------------------------------------------------------------------
(* At first nothing is queued, sent or read. *)
LEMMA OrderInvInit == Init => OrderInv
<1> SUFFICES ASSUME Init PROVE OrderInv
  OBVIOUS
<1>1. LogInv
  BY LogInvInit
<1>2. \A s \in Streams : ServerInv(s)
  BY DEF Init, ServerInv, QueueInv, PageInv, WireInv, FreeStream
<1>3. \A b \in Clients : client[b] = NewClient
  BY DEF Init
<1>4. \A b \in Clients : ReaderInv(b)
  <2>1. "received" \in DOMAIN NewClient /\ NewClient.received = {} /\ NewClient.last = 0
        /\ NewClient.conn = None
    BY DEF NewClient
  <2>2. {} = 1 .. 0 /\ 0 <= log
    BY DEF Init
  <2> QED BY <1>3, <2>1, <2>2, EventLogAssumption DEF ReaderInv
<1>5. SingleReader
  BY <1>3, EventLogAssumption DEF SingleReader, NewClient
<1> QED BY <1>1, <1>2, <1>4, <1>5 DEF OrderInv

(* A step that changes one stream and no client. *)
LEMMA OneStreamInOrder ==
  ASSUME OrderInv, LogInv', NEW s \in Streams, log' = log, client' = client,
         \A t \in Streams \ {s} :
           stream'[t] = stream[t] /\ queue'[t] = queue[t] /\ wire'[t] = wire[t],
         ServerInv(s)', \A b \in Clients : client[b].conn = s => Reads(b, s)'
  PROVE  OrderInv'
<1>1. \A t \in Streams \ {s} : ServerInv(t)'
  BY DEF OrderInv, ServerInv, QueueInv, PageInv, WireInv
<1>2. ASSUME NEW b \in Clients PROVE ReaderInv(b)'
  <2>1. ASSUME NEW t \in Streams, client[b].conn = t PROVE Reads(b, t)'
    <3>1. CASE t # s
      BY <2>1, <3>1 DEF OrderInv, ReaderInv, Reads
    <3> QED BY <2>1, <3>1
  <2> QED BY <2>1 DEF OrderInv, ReaderInv
<1>3. SingleReader'
  BY DEF OrderInv, SingleReader
<1> QED BY <1>1, <1>2, <1>3 DEF OrderInv

(* append: the event is later than all that is queued. *)
LEMMA AppendInOrder == ASSUME OrderInv, LogInv', AppendEvent PROVE OrderInv'
<1>1. LogType /\ log \in Nat /\ log' = log + 1 /\ UNCHANGED <<stream, wire, client>>
  BY DEF OrderInv, LogInv, LogType, AppendEvent
<1>2. ASSUME NEW s \in Streams PROVE ServerInv(s)'
  <2>1. ServerInv(s) /\ queue[s] \in Seq(Nat) /\ stream[s] \in StreamLocals
    BY <1>1 DEF OrderInv, LogType
  <2>2. queue'[s] = queue[s] \/ queue'[s] = Append(queue[s], log + 1)
    BY <1>1 DEF AppendEvent
  <2>3. QueueInv(s)'
    <3>1. CASE queue'[s] = queue[s]
      <4>1. \A i \in DOMAIN queue[s] : queue[s][i] \in Nat /\ queue[s][i] <= log
        BY <2>1 DEF ServerInv, QueueInv
      <4> QED BY <1>1, <2>1, <3>1, <4>1 DEF ServerInv, QueueInv
    <3>2. CASE queue'[s] = Append(queue[s], log + 1)
      BY <1>1, <2>1, <3>2, QueueGrows DEF ServerInv, QueueInv
    <3> QED BY <2>2, <3>1, <3>2
  <2>4. PageInv(s)' /\ WireInv(s)'
    <3>1. stream[s].cursor \in Nat /\ Len(stream[s].batch) \in Nat
      BY <2>1 DEF StreamLocals
    <3> QED BY <1>1, <2>1, <3>1 DEF ServerInv, PageInv, WireInv
  <2> QED BY <2>3, <2>4 DEF ServerInv
<1>3. ASSUME NEW b \in Clients PROVE ReaderInv(b)'
  <2>1. client[b].last \in Nat
    BY <1>1 DEF LogType, ClientType
  <2> QED BY <1>1, <2>1 DEF OrderInv, ReaderInv, Reads
<1>4. SingleReader'
  BY <1>1 DEF OrderInv, SingleReader
<1> QED BY <1>2, <1>3, <1>4 DEF OrderInv

(* A page ends at the newest event. *)
LEMMA PageEnds ==
  ASSUME NEW cursor \in Nat, log \in Nat, cursor <= log
  PROVE  ListAfter(cursor) \in Seq(Nat) /\ cursor + Len(ListAfter(cursor)) <= log
<1>1. PICK last \in Nat : /\ last <= log /\ last >= cursor
                         /\ last = IF cursor + PageSize < log THEN cursor + PageSize ELSE log
  BY EventLogAssumption
<1>2. ListAfter(cursor) = [i \in 1 .. (IF last > cursor THEN last - cursor ELSE 0) |-> cursor + i]
  BY <1>1 DEF ListAfter
<1>3. (IF last > cursor THEN last - cursor ELSE 0) = last - cursor /\ last - cursor \in Nat
  BY <1>1
<1>4. ListAfter(cursor) = [i \in 1 .. (last - cursor) |-> cursor + i]
  BY <1>2, <1>3
<1>5. \A i \in 1 .. (last - cursor) : cursor + i \in Nat
  BY <1>3
<1>6. ListAfter(cursor) \in Seq(Nat) /\ Len(ListAfter(cursor)) = last - cursor
  BY <1>3, <1>4, <1>5
<1> QED BY <1>1, <1>6

(* A query moves no cursor and sends nothing. *)
LEMMA QueryInOrder ==
  ASSUME OrderInv, LogInv', NEW s \in Streams, QueryPage(s),
         stream[s].phase \in Open, UNCHANGED <<log, queue, wire, client>>
  PROVE  OrderInv'
<1>1. LogType /\ stream[s] \in StreamLocals /\ stream[s].cursor \in Nat /\ log \in Nat
      /\ ServerInv(s)
  BY DEF OrderInv, LogInv, LogType, StreamLocals
<1>2. PICK page \in Seq(Nat) : page = ListAfter(stream[s].cursor) /\ stream[s].cursor + Len(page) <= log
  BY <1>1, PageEnds DEF ServerInv, PageInv
<1>3. stream'[s].cursor = stream[s].cursor /\ stream'[s].batch = page
      /\ stream'[s].phase \in {"live", "replay"}
  BY <1>1, <1>2 DEF QueryPage, LogType, StreamLocals
<1>4. \A t \in Streams \ {s} : stream'[t] = stream[t]
  BY <1>1 DEF QueryPage, LogType
<1>5. ServerInv(s)'
  BY <1>1, <1>2, <1>3 DEF ServerInv, QueueInv, PageInv, WireInv
<1>6. ASSUME NEW b \in Clients, client[b].conn = s PROVE Reads(b, s)'
  BY <1>3, <1>6 DEF OrderInv, ReaderInv, Reads, Open
<1> QED BY <1>4, <1>5, <1>6, OneStreamInOrder

(* Sending the event behind the cursor continues the wire. *)
LEMMA SentInOrder ==
  ASSUME OrderInv, LogInv', NEW s \in Streams, UNCHANGED <<log, client>>,
         \A t \in Streams \ {s} :
           stream'[t] = stream[t] /\ queue'[t] = queue[t] /\ wire'[t] = wire[t],
         QueueInv(s)', PageInv(s)',
         stream'[s].phase = stream[s].phase, stream[s].phase \in {"replay", "live"},
         \/ stream'[s].cursor = stream[s].cursor + 1
            /\ wire'[s] = Append(wire[s], stream[s].cursor + 1)
         \/ stream'[s].cursor = stream[s].cursor /\ wire'[s] = wire[s]
  PROVE  OrderInv'
<1>1. wire[s] \in Seq(Nat) /\ \A b \in Clients : client[b].last \in Nat
  BY DEF OrderInv, LogInv, LogType, ClientType
<1>2. ServerInv(s)'
  BY DEF ServerInv, WireInv
<1>3. ASSUME NEW b \in Clients, client[b].conn = s PROVE Reads(b, s)'
  <2>1. Reads(b, s)
    BY <1>3 DEF OrderInv, ReaderInv
  <2>2. CASE stream'[s].cursor = stream[s].cursor /\ wire'[s] = wire[s]
    BY <2>1, <2>2 DEF Reads
  <2>3. CASE stream'[s].cursor = stream[s].cursor + 1
             /\ wire'[s] = Append(wire[s], stream[s].cursor + 1)
    <3>1. client[b].last \in Nat /\ Len(wire[s]) \in Nat
          /\ wire'[s] = Append(wire[s], client[b].last + Len(wire[s]) + 1)
      BY <1>1, <2>1, <2>3 DEF Reads
    <3>2. Len(wire'[s]) = Len(wire[s]) + 1
          /\ \A i \in DOMAIN wire'[s] : wire'[s][i] = client[b].last + i
      <4>1. PICK w \in Seq(Nat), last \in Nat : w = wire[s] /\ last = client[b].last
        BY <1>1
      <4>2. \A i \in DOMAIN w : w[i] = last + i
        BY <2>1, <4>1 DEF Reads
      <4>3. PICK x : x = Append(w, last + Len(w) + 1)
        OBVIOUS
      <4>4. Len(x) = Len(w) + 1 /\ \A i \in DOMAIN x : x[i] = last + i
        BY <4>2, <4>3, FrameAdded
      <4> QED BY <3>1, <4>1, <4>3, <4>4
    <3> QED BY <2>1, <2>3, <3>1, <3>2 DEF Reads
  <2> QED BY <2>2, <2>3
<1> QED BY <1>2, <1>3, OneStreamInOrder

(* The replay sends the next event of the log. *)
LEMMA ReplayInOrder == ASSUME OrderInv, LogInv', NEW s \in Streams, SendReplayed(s) PROVE OrderInv'
<1>1. LogType /\ StreamInv(s) /\ ServerInv(s) /\ UNCHANGED <<log, queue, client>>
      /\ stream[s].phase = "replay"
  BY DEF OrderInv, LogInv, SendReplayed
<1>2. PICK batch \in Seq(Nat), cursor \in Nat : batch = stream[s].batch /\ cursor = stream[s].cursor
  BY <1>1 DEF LogType, StreamLocals
<1>3. batch # <<>> /\ \A i \in DOMAIN batch : batch[i] = cursor + i
  BY <1>1, <1>2 DEF SendReplayed, StreamInv, PageFollows, Runs
<1>4. Head(batch) = cursor + 1 /\ Tail(batch) \in Seq(Nat) /\ Len(Tail(batch)) = Len(batch) - 1
      /\ Len(batch) \in Nat
  BY <1>3, FirstOfPage, RestOfPage
<1>5. stream' = [stream EXCEPT ![s] = [stream[s] EXCEPT !.batch = Tail(batch), !.cursor = cursor + 1]]
  <2>1. stream' = [stream EXCEPT ![s] = [stream[s] EXCEPT !.batch = Tail(batch),
                     !.cursor = IF Head(batch) > cursor THEN Head(batch) ELSE cursor]]
    BY <1>2 DEF SendReplayed
  <2>2. (IF Head(batch) > cursor THEN Head(batch) ELSE cursor) = cursor + 1
    BY <1>4
  <2> QED BY <2>1, <2>2
<1>6. wire' = [wire EXCEPT ![s] = Append(wire[s], cursor + 1)]
  <2>1. wire' = [wire EXCEPT ![s] = IF Head(batch) > cursor THEN Append(wire[s], Head(batch))
                                                            ELSE wire[s]]
    BY <1>2 DEF SendReplayed
  <2>2. (IF Head(batch) > cursor THEN Append(wire[s], Head(batch)) ELSE wire[s])
          = Append(wire[s], cursor + 1)
    BY <1>4
  <2> QED BY <2>1, <2>2
<1>7. stream'[s].phase = "replay" /\ stream'[s].cursor = cursor + 1 /\ stream'[s].batch = Tail(batch)
  BY <1>1, <1>5 DEF LogType, StreamLocals
<1>8. \A t \in Streams \ {s} : stream'[t] = stream[t] /\ wire'[t] = wire[t]
  BY <1>1, <1>5, <1>6 DEF LogType
<1>9. wire'[s] = Append(wire[s], cursor + 1)
  BY <1>1, <1>6 DEF LogType
<1>10. QueueInv(s)'
  BY <1>1 DEF ServerInv, QueueInv
<1>11. PageInv(s)'
  <2>1. cursor + Len(batch) <= log /\ log \in Nat
    BY <1>1, <1>2 DEF ServerInv, PageInv, LogType
  <2>2. cursor + 1 + Len(Tail(batch)) <= log /\ cursor + 1 <= log
    BY <1>3, <1>4, <2>1
  <2> QED BY <1>1, <1>7, <2>2 DEF PageInv
<1> QED BY <1>1, <1>2, <1>7, <1>8, <1>9, <1>10, <1>11, SentInOrder

(* A live stream sends the next event of the log, because the queue misses
   none behind the cursor. *)
LEMMA LiveInOrder == ASSUME OrderInv, LogInv', NEW s \in Streams, SendLive(s) PROVE OrderInv'
<1>1. LogType /\ StreamInv(s) /\ ServerInv(s) /\ UNCHANGED <<log, client>>
      /\ stream[s].phase = "live" /\ log \in Nat
  BY DEF OrderInv, LogInv, LogType, SendLive
<1>2. PICK q \in Seq(Nat), cursor \in Nat : q = queue[s] /\ cursor = stream[s].cursor
  BY <1>1 DEF LogType, StreamLocals
<1>3. q # <<>> /\ \A i, j \in DOMAIN q : q[i] <= log /\ (i < j => q[i] < q[j])
  BY <1>1, <1>2 DEF SendLive, ServerInv, QueueInv
<1>4. /\ \A i, j \in DOMAIN Tail(q) : Tail(q)[i] <= log /\ (i < j => Tail(q)[i] < Tail(q)[j])
      /\ Head(q) \in Nat /\ Head(q) <= log /\ \A e \in ToSet(q) : Head(q) <= e
  BY <1>1, <1>3, QueueShrinks
<1>5. Head(q) > cursor => Head(q) = cursor + 1
  <2>1. ASSUME Head(q) > cursor PROVE cursor + 1 \in ToSet(q)
    <3>1. cursor + 1 \in (cursor + 1) .. log
      BY <1>1, <1>4, <2>1
    <3>2. stream[s].batch = <<>> /\ Unqueried(s) = {}
      BY <1>1 DEF StreamInv, PageFollows, Runs, Unqueried
    <3>3. ToSet(stream[s].batch) = {}
      BY <3>2 DEF ToSet
    <3> QED BY <1>1, <1>2, <3>1, <3>2, <3>3 DEF StreamInv, Runs, Missing
  <2>2. ASSUME Head(q) > cursor PROVE Head(q) <= cursor + 1
    BY <1>4, <2>1, <2>2
  <2> QED BY <1>4, <2>2
<1>6. stream' = [stream EXCEPT ![s].cursor = IF Head(q) > cursor THEN cursor + 1 ELSE cursor]
  BY <1>2, <1>5 DEF SendLive
<1>7. wire' = [wire EXCEPT ![s] = IF Head(q) > cursor THEN Append(wire[s], cursor + 1) ELSE wire[s]]
  BY <1>2, <1>5 DEF SendLive
<1>8. queue' = [queue EXCEPT ![s] = Tail(q)]
  BY <1>2 DEF SendLive
<1>9. stream'[s].phase = "live"
      /\ stream'[s].cursor = IF Head(q) > cursor THEN cursor + 1 ELSE cursor
  BY <1>1, <1>6 DEF LogType, StreamLocals
<1>10. \A t \in Streams \ {s} : stream'[t] = stream[t] /\ wire'[t] = wire[t] /\ queue'[t] = queue[t]
  BY <1>1, <1>6, <1>7, <1>8 DEF LogType
<1>11. wire'[s] = IF Head(q) > cursor THEN Append(wire[s], cursor + 1) ELSE wire[s]
  BY <1>1, <1>7 DEF LogType
<1>12. QueueInv(s)'
  <2>1. queue'[s] = Tail(q) /\ log' = log
    BY <1>1, <1>8 DEF LogType
  <2> QED BY <1>4, <2>1 DEF QueueInv
<1>13. PageInv(s)'
  BY <1>1, <1>2, <1>4, <1>5, <1>9 DEF ServerInv, PageInv
<1> QED BY <1>1, <1>2, <1>9, <1>10, <1>11, <1>12, <1>13, SentInOrder

(* The steps of a stream that read no page and send nothing. *)
LEMMA QuietInOrder ==
  ASSUME OrderInv, LogInv', NEW s \in Streams, EndStream(s) \/ Unregister(s)
  PROVE  OrderInv'
<1>1. LogType /\ stream[s] \in StreamLocals /\ ServerInv(s) /\ UNCHANGED <<log, client>>
      /\ log \in Nat
  BY DEF OrderInv, LogInv, LogType, EndStream, Unregister
<1>2. \A b \in Clients : client[b].conn # s
  BY DEF EndStream, Unregister, IsRead, OrderInv, ReaderInv, Reads, Open
<1>3. \A t \in Streams \ {s} :
        stream'[t] = stream[t] /\ queue'[t] = queue[t] /\ wire'[t] = wire[t]
  BY <1>1 DEF EndStream, Unregister, LogType
<1>4. ServerInv(s)'
  <2>1. CASE EndStream(s)
    <3>1. stream'[s].phase = "ended" /\ stream'[s].cursor = stream[s].cursor
          /\ queue'[s] = queue[s]
      BY <1>1, <2>1 DEF EndStream, LogType, StreamLocals
    <3> QED BY <1>1, <3>1 DEF ServerInv, QueueInv, PageInv, WireInv
  <2>2. CASE Unregister(s)
    <3>1. stream'[s] = FreeStream /\ queue'[s] = <<>> /\ wire'[s] = <<>>
      BY <1>1, <2>2 DEF Unregister, LogType
    <3> QED BY <1>1, <3>1 DEF ServerInv, QueueInv, PageInv, WireInv, FreeStream
  <2> QED BY <2>1, <2>2
<1> QED BY <1>1, <1>2, <1>3, <1>4, OneStreamInOrder

(* A page that is used up: the next one, or the queue. *)
LEMMA NextPageInOrder ==
  ASSUME OrderInv, LogInv', NEW s \in Streams, NextPage(s) PROVE OrderInv'
<1>1. LogType /\ stream[s] \in StreamLocals /\ ServerInv(s) /\ stream[s].phase = "replay"
      /\ UNCHANGED <<log, queue, wire, client>>
  BY DEF OrderInv, LogInv, LogType, NextPage
<1>2. CASE QueryPage(s)
  BY <1>1, <1>2, QueryInOrder DEF Open
<1>3. CASE stream' = [stream EXCEPT ![s].phase = "live"]
  <2>1. stream'[s].phase = "live" /\ stream'[s].cursor = stream[s].cursor
        /\ \A t \in Streams \ {s} : stream'[t] = stream[t]
    BY <1>1, <1>3 DEF LogType, StreamLocals
  <2>2. QueueInv(s)' /\ PageInv(s)'
    BY <1>1, <2>1 DEF ServerInv, QueueInv, PageInv
  <2>3. ServerInv(s)'
    BY <2>1, <2>2 DEF ServerInv, WireInv
  <2>4. ASSUME NEW b \in Clients, client[b].conn = s PROVE Reads(b, s)'
    BY <1>1, <2>1, <2>4 DEF OrderInv, ReaderInv, Reads, Open
  <2> QED BY <1>1, <2>1, <2>3, <2>4, OneStreamInOrder
<1> QED BY <1>2, <1>3 DEF NextPage

(* Every step of a stream *)
LEMMA StreamInOrder ==
  ASSUME OrderInv, LogInv', NEW s \in Streams, StreamStep(s) PROVE OrderInv'
<1>1. CASE StartStream(s)
  BY <1>1, QueryInOrder DEF StartStream, Open
<1> QED BY <1>1, ReplayInOrder, NextPageInOrder, LiveInOrder, QuietInOrder DEF StreamStep

-----------------------------------------------------------------------------
(* A step that changes one client. *)
LEMMA OneClientInOrder ==
  ASSUME OrderInv, LogInv', log' = log, NEW b \in Clients,
         \A s \in Streams : ServerInv(s)',
         \A a \in Clients \ {b} : client'[a] = client[a],
         \A a \in Clients \ {b}, s \in Streams :
           client[a].conn = s => s # client'[b].conn /\ stream'[s] = stream[s] /\ wire'[s] = wire[s],
         ReaderInv(b)'
  PROVE  OrderInv'
<1>1. ASSUME NEW a \in Clients \ {b} PROVE ReaderInv(a)'
  BY DEF OrderInv, ReaderInv, Reads
<1>2. SingleReader'
  BY DEF OrderInv, SingleReader
<1> QED BY <1>1, <1>2 DEF OrderInv

(* A connection takes a free stream, behind the client's last event. *)
LEMMA ConnectInOrder ==
  ASSUME OrderInv, LogInv', NEW b \in Clients, NEW s \in Streams, Connect(b, s)
  PROVE  OrderInv'
<1>1. LogType /\ ReaderInv(b) /\ ServerInv(s) /\ UNCHANGED <<log, queue, wire>>
      /\ stream[s].phase = "free" /\ client[b].last \in Nat
  BY DEF OrderInv, LogInv, LogType, ClientType, Connect
<1>2. client'[b] = [client[b] EXCEPT !.conn = s] /\ \A a \in Clients \ {b} : client'[a] = client[a]
  BY <1>1 DEF Connect, LogType
<1>3. client'[b].conn = s /\ client'[b].last = client[b].last
      /\ client'[b].received = client[b].received /\ "received" \in DOMAIN client'[b]
  BY <1>1, <1>2 DEF ReaderInv, LogType, ClientType
<1>4. stream'[s].phase = "opened" /\ stream'[s].cursor = client[b].last
      /\ \A t \in Streams \ {s} : stream'[t] = stream[t]
  BY <1>1 DEF Connect, LogType, FreeStream
<1>5. wire'[s] = <<>>
  BY <1>1 DEF ServerInv, WireInv
<1>6. ServerInv(s)'
  BY <1>1, <1>4, <1>5 DEF ServerInv, QueueInv, PageInv, WireInv, ReaderInv
<1>7. \A t \in Streams \ {s} : ServerInv(t)'
  BY <1>1, <1>4 DEF OrderInv, ServerInv, QueueInv, PageInv, WireInv
<1>8. \A a \in Clients : client[a].conn # s
  BY <1>1 DEF OrderInv, ReaderInv, Reads, Open
<1>9. ReaderInv(b)'
  <2>1. Reads(b, s)'
    BY <1>1, <1>3, <1>4, <1>5 DEF Reads, Open
  <2> QED BY <1>1, <1>3, <2>1 DEF ReaderInv
<1>10. \A a \in Clients \ {b}, t \in Streams :
         client[a].conn = t => t # client'[b].conn /\ stream'[t] = stream[t] /\ wire'[t] = wire[t]
  BY <1>1, <1>3, <1>4, <1>8
<1> QED BY <1>1, <1>2, <1>6, <1>7, <1>9, <1>10, OneClientInOrder

(* handleFrame gets the event behind the last one, never a known one. *)
LEMMA FrameIsNext ==
  ASSUME OrderInv, NEW b \in Clients, Receive(b)
  PROVE  /\ client[b].conn \in Streams
         /\ Head(wire[client[b].conn]) = client[b].last + 1
         /\ client[b].last + 1 <= log
         /\ client[b].received = 1 .. client[b].last
         /\ client[b].last \in Nat
         /\ client' = [client EXCEPT ![b] = [client[b] EXCEPT
              !.received = 1 .. (client[b].last + 1), !.last = client[b].last + 1,
              !.contiguous = Contiguous(client[b].contiguous, 1 .. (client[b].last + 1))]]
<1>1. LogType /\ ReaderInv(b) /\ log \in Nat
  BY DEF OrderInv, LogInv, LogType
<1>2. client[b].conn \in Streams /\ client[b].last \in Nat
  BY <1>1 DEF LogType, ClientType, Receive
<1>3. PICK s \in Streams, last \in Nat : s = client[b].conn /\ last = client[b].last
  BY <1>2
<1>4. PICK w \in Seq(Nat) : w = wire[s]
  BY <1>1 DEF LogType
<1>5. w # <<>> /\ (\A i \in DOMAIN w : w[i] = last + i) /\ stream[s].cursor = last + Len(w)
  BY <1>1, <1>3, <1>4 DEF Receive, ReaderInv, Reads
<1>6. Head(w) = last + 1
  BY <1>5, FirstOfPage
<1>7. Len(w) \in Nat \ {0}
  BY <1>5
<1>8. stream[s].cursor <= log
  BY DEF OrderInv, ServerInv, PageInv
<1>9. last + 1 <= log
  BY <1>1, <1>5, <1>7, <1>8
<1>10. client[b].received = 1 .. last /\ last + 1 \notin 1 .. last
       /\ (1 .. last) \cup {last + 1} = 1 .. (last + 1)
  BY <1>1, <1>3 DEF ReaderInv
<1>11. client' = [client EXCEPT ![b] = [client[b] EXCEPT
         !.received = 1 .. (last + 1), !.last = last + 1,
         !.contiguous = Contiguous(client[b].contiguous, 1 .. (last + 1))]]
  BY <1>3, <1>4, <1>6, <1>10 DEF Receive
<1> QED BY <1>2, <1>3, <1>4, <1>6, <1>9, <1>10, <1>11

(* The locals of a hook that has handled the next event *)
LEMMA HandledFrame ==
  ASSUME OrderInv, NEW b \in Clients, Receive(b)
  PROVE  /\ client'[b].conn = client[b].conn
         /\ client'[b].last = client[b].last + 1
         /\ client'[b].received = 1 .. (client[b].last + 1)
         /\ "received" \in DOMAIN client'[b]
         /\ \A a \in Clients \ {b} : client'[a] = client[a]
<1>1. DOMAIN client = Clients /\ {"conn", "last", "received"} \subseteq DOMAIN client[b]
  BY DEF OrderInv, LogInv, LogType, ClientType, ReaderInv
<1>2. PICK received, last, contiguous :
        /\ client' = [client EXCEPT ![b] = [client[b] EXCEPT
             !.received = received, !.last = last, !.contiguous = contiguous]]
        /\ received = 1 .. (client[b].last + 1)
        /\ last = client[b].last + 1
  BY FrameIsNext
<1>3. client'[b] = [client[b] EXCEPT
        !.received = received, !.last = last, !.contiguous = contiguous]
  BY <1>1, <1>2
<1>4. client'[b].conn = client[b].conn /\ client'[b].last = last
      /\ client'[b].received = received /\ DOMAIN client'[b] = DOMAIN client[b]
  BY <1>1, <1>3
<1> QED BY <1>1, <1>2, <1>4

(* Receiving keeps the order. *)
LEMMA ReceiveInOrder ==
  ASSUME OrderInv, LogInv', NEW b \in Clients, Receive(b) PROVE OrderInv'
<1>1. LogType /\ ReaderInv(b) /\ UNCHANGED <<log, queue, stream>>
  BY DEF OrderInv, LogInv, Receive
<1>2. PICK s \in Streams, last \in Nat : s = client[b].conn /\ last = client[b].last
  BY FrameIsNext
<1>3. /\ client'[b].conn = s /\ client'[b].last = last + 1
      /\ client'[b].received = 1 .. (last + 1) /\ "received" \in DOMAIN client'[b]
      /\ \A a \in Clients \ {b} : client'[a] = client[a]
      /\ last + 1 <= log
  BY <1>2, FrameIsNext, HandledFrame
<1>4. PICK w \in Seq(Nat) : w = wire[s]
  BY <1>1 DEF LogType
<1>5. Reads(b, s)
  BY <1>1, <1>2 DEF ReaderInv
<1>6. w # <<>> /\ (\A i \in DOMAIN w : w[i] = last + i) /\ stream[s].cursor = last + Len(w)
  BY <1>2, <1>4, <1>5 DEF Receive, Reads
<1>7. Tail(w) \in Seq(Nat) /\ Len(Tail(w)) = Len(w) - 1 /\ Len(w) \in Nat
      /\ \A i \in DOMAIN Tail(w) : Tail(w)[i] = last + 1 + i
  BY <1>6, RestOfPage
<1>8. wire'[s] = Tail(w) /\ \A t \in Streams \ {s} : wire'[t] = wire[t]
  BY <1>1, <1>2, <1>4 DEF Receive, LogType
<1>9. ReaderInv(b)'
  <2>1. Reads(b, s)'
    BY <1>1, <1>3, <1>5, <1>6, <1>7, <1>8 DEF Reads
  <2> QED BY <1>1, <1>3, <2>1 DEF ReaderInv
<1>10. \A t \in Streams : ServerInv(t)'
  <2>1. stream[s].phase \notin {"free", "opened"}
    BY <1>4, <1>6 DEF OrderInv, ServerInv, WireInv
  <2> QED BY <1>1, <1>8, <2>1 DEF OrderInv, ServerInv, QueueInv, PageInv, WireInv
<1>11. \A a \in Clients \ {b}, t \in Streams :
         client[a].conn = t => t # client'[b].conn /\ stream'[t] = stream[t] /\ wire'[t] = wire[t]
  BY <1>1, <1>2, <1>3, <1>8 DEF OrderInv, SingleReader
<1> QED BY <1>1, <1>3, <1>9, <1>10, <1>11, OneClientInOrder

(* A lost connection or a reload leaves a client that reads nothing. *)
LEMMA LostInOrder ==
  ASSUME OrderInv, LogInv', NEW b \in Clients, LoseConnection(b) \/ Reload(b) PROVE OrderInv'
<1>1. LogType /\ ReaderInv(b) /\ UNCHANGED <<log, queue, stream, wire>> /\ log \in Nat
  BY DEF OrderInv, LogInv, LogType, LoseConnection, Reload, server
<1>2. /\ \A a \in Clients \ {b} : client'[a] = client[a]
      /\ client'[b] = [client[b] EXCEPT !.conn = None] \/ client'[b] = NewClient
  BY <1>1 DEF LoseConnection, Reload, LogType
<1>3. client'[b].conn = None /\ "received" \in DOMAIN client'[b]
      /\ client'[b].received = 1 .. client'[b].last /\ client'[b].last <= log
  <2>1. CASE client'[b] = [client[b] EXCEPT !.conn = None]
    BY <1>1, <2>1 DEF LogType, ClientType, ReaderInv
  <2>2. CASE client'[b] = NewClient
    <3>1. {} = 1 .. 0 /\ 0 <= log
      BY <1>1
    <3> QED BY <2>2, <3>1 DEF NewClient
  <2> QED BY <1>2, <2>1, <2>2
<1>4. ReaderInv(b)'
  BY <1>1, <1>3, EventLogAssumption DEF ReaderInv
<1>5. \A t \in Streams : ServerInv(t)'
  BY <1>1 DEF OrderInv, ServerInv, QueueInv, PageInv, WireInv
<1> QED BY <1>1, <1>2, <1>3, <1>4, <1>5, EventLogAssumption, OneClientInOrder

(* A restart leaves no stream and no connection. *)
LEMMA RestartInOrder == ASSUME OrderInv, LogInv', Restart PROVE OrderInv'
<1>1. LogType /\ log' = log /\ log \in Nat
  BY DEF OrderInv, LogInv, LogType, Restart
<1>2. ASSUME NEW s \in Streams PROVE ServerInv(s)'
  <2>1. stream'[s] = FreeStream /\ queue'[s] = <<>> /\ wire'[s] = <<>>
    BY DEF Restart
  <2> QED BY <1>1, <2>1 DEF ServerInv, QueueInv, PageInv, WireInv, FreeStream
<1>3. ASSUME NEW b \in Clients PROVE client'[b].conn = None /\ ReaderInv(b)'
  <2>1. client'[b] = [client[b] EXCEPT !.conn = None] /\ ReaderInv(b) /\ ClientType(client[b])
    BY <1>1 DEF Restart, OrderInv, LogType
  <2>2. client'[b].conn = None /\ client'[b].last = client[b].last
        /\ client'[b].received = client[b].received /\ "received" \in DOMAIN client'[b]
    BY <2>1 DEF ClientType, ReaderInv
  <2> QED BY <1>1, <2>1, <2>2, EventLogAssumption DEF ReaderInv
<1>4. SingleReader'
  BY <1>3, EventLogAssumption DEF SingleReader
<1> QED BY <1>2, <1>3, <1>4 DEF OrderInv

(* Every step keeps the order. *)
LEMMA OrderInvNext == OrderInv /\ [Next]_vars => OrderInv'
<1> SUFFICES ASSUME OrderInv, [Next]_vars PROVE OrderInv'
  OBVIOUS
<1>1. LogInv'
  BY LogInvNext DEF OrderInv
<1>2. CASE UNCHANGED vars
  <2>1. UNCHANGED <<log, hub, queue, stream, wire, client>>
    BY <1>2 DEF vars, server
  <2> QED BY <1>1, <2>1
          DEF OrderInv, ServerInv, QueueInv, PageInv, WireInv, ReaderInv, Reads, SingleReader
<1>3. CASE Next
  BY <1>1, <1>3, AppendInOrder, RestartInOrder, StreamInOrder, ReceiveInOrder, ConnectInOrder,
     LostInOrder DEF Next, ClientStep
<1> QED BY <1>2, <1>3

-----------------------------------------------------------------------------
(* A step of the event service is a step of its promise, or none. *)
LEMMA StepKeepsOrder ==
  OrderInv /\ [Next]_vars =>
    [Delivery!Next]_<<log, [b \in Clients |-> client[b].received]>>
<1> DEFINE shown == [b \in Clients |-> client[b].received]
<1> SUFFICES ASSUME OrderInv, Next \/ UNCHANGED vars
             PROVE  Delivery!Next \/ (log' = log /\ shown' = shown)
  OBVIOUS
<1>1. LogType
  BY DEF OrderInv, LogInv
<1>2. CASE AppendEvent
  BY <1>2 DEF AppendEvent, Delivery!Next, Delivery!Publish
<1>3. ASSUME NEW b \in Clients, Receive(b) PROVE Delivery!Next
  <2>1. PICK last \in Nat : last = client[b].last /\ last + 1 <= log
    BY <1>3, FrameIsNext
  <2>2. log' = log /\ log \in Nat /\ last + 1 \in 1 .. log
    BY <1>1, <1>3, <2>1 DEF Receive, LogType
  <2>3. /\ client[b].received = 1 .. last /\ client'[b].received = 1 .. (last + 1)
        /\ \A a \in Clients \ {b} : client'[a] = client[a]
    BY <1>3, <2>1, FrameIsNext, HandledFrame
  <2>4. shown[b] = 1 .. last /\ shown' = [shown EXCEPT ![b] = 1 .. (last + 1)]
    BY <2>3
  <2>5. PICK n \in 1 .. log : n = last + 1 /\ n - 1 = last
    BY <2>2
  <2>6. shown[b] = 1 .. (n - 1) /\ shown' = [shown EXCEPT ![b] = 1 .. n]
    BY <2>4, <2>5
  <2>7. Delivery!Show(b)
    BY <2>2, <2>6 DEF Delivery!Show
  <2> QED BY <2>7 DEF Delivery!Next
<1>4. ASSUME NEW b \in Clients, Reload(b) PROVE Delivery!Next
  <2>1. log' = log /\ shown' = [shown EXCEPT ![b] = {}]
    BY <1>1, <1>4 DEF Reload, NewClient, LogType
  <2> QED BY <2>1 DEF Delivery!Next, Delivery!Reload
<1>5. CASE log' = log /\ \A b \in Clients : client'[b].received = client[b].received
  BY <1>5
<1>6. ASSUME NEW b \in Clients, NEW c \in Streams \cup {None}, client' = [client EXCEPT ![b].conn = c]
      PROVE  \A a \in Clients : client'[a].received = client[a].received
  BY <1>1, <1>6 DEF LogType
<1>7. CASE Restart
  BY <1>5, <1>7 DEF Restart
<1>8. ASSUME NEW b \in Clients, NEW s \in Streams, Connect(b, s)
      PROVE  log' = log /\ \A a \in Clients : client'[a].received = client[a].received
  BY <1>6, <1>8 DEF Connect
<1>9. ASSUME NEW b \in Clients, LoseConnection(b)
      PROVE  log' = log /\ \A a \in Clients : client'[a].received = client[a].received
  BY <1>6, <1>9 DEF LoseConnection
<1>10. ASSUME NEW s \in Streams, StreamStep(s) PROVE log' = log /\ client' = client
  BY <1>10 DEF StreamStep, StartStream, SendReplayed, NextPage, SendLive, EndStream, Unregister
<1>11. CASE UNCHANGED vars
  BY <1>11 DEF vars
<1> QED BY <1>2, <1>3, <1>4, <1>5, <1>7, <1>8, <1>9, <1>10, <1>11 DEF Next, ClientStep

(* EventStore and useConversationEvents: what every view shows is the
   oldest part of the log and grows by its next event only. *)
THEOREM OrderIsKept == Spec => KeepsOrder
<1>1. Init => Delivery!Init
  BY DEF Init, Delivery!Init, NewClient
<1> QED BY OrderInvInit, OrderInvNext, StepKeepsOrder, <1>1, PTL
        DEF Spec, KeepsOrder, Delivery!Spec, Delivery!vars
=============================================================================
