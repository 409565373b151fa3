------------------------- MODULE Standalone_proofs -------------------------
(***************************************************************************)
(* What the standalone parts promise, for every value of their constants.  *)
(* A behaviour of StandaloneSpec is one of each part, most of them         *)
(* stuttering, so that each part is proved about by its own steps.         *)
(***************************************************************************)
EXTENDS Standalone, Campaign_proofs, SequenceTheorems

-----------------------------------------------------------------------------
(* Sequences, as the sequence of their own elements. *)

IsSequence(s) == Len(s) \in Nat /\ s \in Seq({s[i] : i \in 1 .. Len(s)})

LEMMA FunctionIsSequence ==
  ASSUME NEW n \in Nat, NEW f, f = [i \in 1 .. n |-> f[i]]
  PROVE  IsSequence(f) /\ Len(f) = n
<1>1. f \in [1 .. n -> {f[i] : i \in 1 .. n}]
  OBVIOUS
<1>2. f \in Seq({f[i] : i \in 1 .. n}) /\ Len(f) = n
  BY <1>1
<1> QED BY <1>2 DEF IsSequence

LEMMA ChangeIsSequence ==
  ASSUME NEW s, IsSequence(s), NEW i, NEW x
  PROVE  LET t == [s EXCEPT ![i] = x]
         IN  /\ IsSequence(t) /\ Len(t) = Len(s)
             /\ \A j \in 1 .. Len(s) : t[j] = IF j = i THEN x ELSE s[j]
<1> DEFINE t == [s EXCEPT ![i] = x]
<1>1. DOMAIN s = 1 .. Len(s) /\ Len(s) \in Nat
  BY DEF IsSequence
<1>2. t = [j \in 1 .. Len(s) |-> t[j]]
  BY <1>1
<1>3. \A j \in 1 .. Len(s) : t[j] = IF j = i THEN x ELSE s[j]
  BY <1>1
<1> HIDE DEF t
<1>4. IsSequence(t) /\ Len(t) = Len(s)
  BY <1>1, <1>2, FunctionIsSequence
<1> QED BY <1>3, <1>4 DEF t

LEMMA AppendIsSequence ==
  ASSUME NEW s, IsSequence(s), NEW x
  PROVE  LET t == Append(s, x)
         IN  /\ IsSequence(t) /\ Len(t) = Len(s) + 1
             /\ \A j \in 1 .. Len(s) : t[j] = s[j]
             /\ t[Len(s) + 1] = x
<1> DEFINE S == {s[i] : i \in 1 .. Len(s)} \cup {x}
           t == Append(s, x)
<1>1. s \in Seq(S) /\ x \in S /\ Len(s) \in Nat
  BY DEF IsSequence
<1>2. /\ t \in Seq(S) /\ Len(t) = Len(s) + 1
      /\ \A j \in 1 .. Len(s) : t[j] = s[j]
      /\ t[Len(s) + 1] = x
  BY <1>1
<1> HIDE DEF t
<1>3. t = [j \in 1 .. Len(s) + 1 |-> t[j]]
  <2>1. t \in [1 .. Len(s) + 1 -> S]
    BY <1>1, <1>2
  <2> QED BY <2>1
<1>4. IsSequence(t)
  BY <1>1, <1>3, FunctionIsSequence
<1> QED BY <1>2, <1>4 DEF t

-----------------------------------------------------------------------------
(* CustomerPage *)

Kinds == {"create", "restore", "message", "confirm", "decline", "retry"}
RequestFields == {"kind", "generation", "conversation", "subject", "phase", "awaited", "ok", "case"}

PageType ==
    /\ DOMAIN page = {"generation", "conversation", "booting", "read",
                      "activeCase", "activeRun", "busy", "retrying"}
    /\ IsSequence(requests)
    /\ \A i \in DOMAIN requests :
         DOMAIN requests[i] = RequestFields /\ requests[i].kind \in Kinds

(* The conversation that is shown is that of an answer which was delivered to
   the generation that asked; an answer still on its way may change. *)
ShownWasDelivered ==
    page.conversation # 0 =>
        \E i \in DOMAIN requests :
            /\ requests[i].kind \in {"create", "restore"}
            /\ requests[i].generation = page.generation
            /\ requests[i].conversation = page.conversation
            /\ requests[i].phase = "done"

PageInv == PageType /\ ShownWasDelivered

LEMMA PageInvInit == PageInit => PageInv
<1> SUFFICES ASSUME PageInit PROVE PageInv
  OBVIOUS
<1>1. requests = <<Request("create", 1, 0, 0)>> /\ page = [NewPage EXCEPT !.generation = 1]
  BY DEF PageInit
<1>2. Len(requests) = 1 /\ DOMAIN requests = {1} /\ requests = [i \in 1 .. 1 |-> requests[i]]
  BY <1>1
<1>3. IsSequence(requests)
  BY <1>2, FunctionIsSequence
<1>4. page.conversation = 0 /\ PageType
  BY <1>1, <1>2, <1>3 DEF NewPage, PageType, Request, RequestFields, Kinds
<1> QED BY <1>4 DEF PageInv, ShownWasDelivered

(* What is done stays done: a step that keeps the page's choice, and the
   requests that were delivered. *)
LEMMA PageFrame ==
  ASSUME PageInv, PageType',
         page'.conversation = page.conversation, page'.generation = page.generation,
         \A i \in DOMAIN requests :
           requests[i].phase = "done" => i \in DOMAIN requests' /\ requests'[i] = requests[i]
  PROVE  PageInv'
  BY DEF PageInv, ShownWasDelivered

(* One request changes. *)
LEMMA RequestChanges ==
  ASSUME PageInv, NEW i \in DOMAIN requests, NEW x, DOMAIN x = RequestFields, x.kind \in Kinds,
         requests' = [requests EXCEPT ![i] = x], UNCHANGED page, requests[i].phase # "done"
  PROVE  PageInv'
<1>0. IsSequence(requests) /\ DOMAIN requests = 1 .. Len(requests)
  BY DEF PageInv, PageType, IsSequence
<1>1. /\ IsSequence(requests') /\ DOMAIN requests' = DOMAIN requests
      /\ \A j \in DOMAIN requests : requests'[j] = IF j = i THEN x ELSE requests[j]
  <2>1. /\ IsSequence(requests') /\ Len(requests') = Len(requests)
        /\ \A j \in 1 .. Len(requests) : requests'[j] = IF j = i THEN x ELSE requests[j]
    BY <1>0, ChangeIsSequence
  <2> QED BY <1>0, <2>1 DEF IsSequence
<1>2. PageType'
  BY <1>1 DEF PageInv, PageType
<1> QED BY <1>1, <1>2, PageFrame

LEMMA ServiceKeepsPage ==
  ASSUME PageInv, NEW i \in DOMAIN requests, Serve(i) \/ Open(i) \/ LoseAnswer(i)
  PROVE  PageInv'
<1>1. DOMAIN requests[i] = RequestFields /\ requests[i].kind \in Kinds
  BY DEF PageInv, PageType
<1>2. PICK x : /\ DOMAIN x = RequestFields /\ x.kind = requests[i].kind
               /\ requests' = [requests EXCEPT ![i] = x]
               /\ requests[i].phase # "done" /\ UNCHANGED page
  <2>1. CASE Serve(i)
    <3>1. PICK outcome : requests' = [requests EXCEPT ![i].phase = "answered", ![i].ok = outcome.ok,
                                                      ![i].case = outcome.case]
      BY <2>1 DEF Serve
    <3> DEFINE x == [requests[i] EXCEPT !.phase = "answered", !.ok = outcome.ok,
                                        !.case = outcome.case]
    <3>2. requests' = [requests EXCEPT ![i] = x]
      BY <3>1
    <3>3. DOMAIN x = RequestFields /\ x.kind = requests[i].kind
      BY <1>1 DEF RequestFields
    <3> QED BY <2>1, <3>2, <3>3 DEF Serve
  <2>2. CASE Open(i)
    <3>1. \/ requests' = [requests EXCEPT ![i].phase = "answered", ![i].ok = TRUE,
                                          ![i].conversation = Len(service')]
          \/ requests' = [requests EXCEPT ![i].phase = "answered", ![i].ok = TRUE,
                            ![i].case = service[requests[i].conversation].case]
      BY <2>2 DEF Open
    <3> DEFINE x == [requests[i] EXCEPT !.phase = "answered", !.ok = TRUE,
                                        !.conversation = Len(service')]
               y == [requests[i] EXCEPT !.phase = "answered", !.ok = TRUE,
                                        !.case = service[requests[i].conversation].case]
    <3>2. requests' = [requests EXCEPT ![i] = x] \/ requests' = [requests EXCEPT ![i] = y]
      BY <3>1
    <3>3. /\ DOMAIN x = RequestFields /\ x.kind = requests[i].kind
          /\ DOMAIN y = RequestFields /\ y.kind = requests[i].kind
      BY <1>1 DEF RequestFields
    <3> HIDE DEF x, y
    <3> QED BY <2>2, <3>2, <3>3 DEF Open
  <2>3. CASE LoseAnswer(i)
    <3> DEFINE x == [requests[i] EXCEPT !.ok = FALSE]
    <3>1. requests' = [requests EXCEPT ![i] = x]
      BY <2>3 DEF LoseAnswer
    <3>2. DOMAIN x = RequestFields /\ x.kind = requests[i].kind
      BY <1>1 DEF RequestFields
    <3> QED BY <2>3, <3>1, <3>2 DEF LoseAnswer
  <2> QED BY <2>1, <2>2, <2>3
<1> QED BY <1>1, <1>2, RequestChanges

(* A request is added by the page. *)
LEMMA RequestIsPosted ==
  ASSUME PageInv, NEW kind \in Kinds, NEW g, NEW c, NEW subject,
         requests' = Append(requests, Request(kind, g, c, subject)),
         DOMAIN page' = DOMAIN page,
         \/ page'.conversation = page.conversation /\ page'.generation = page.generation
         \/ page'.conversation = 0
  PROVE  PageInv'
<1>0. IsSequence(requests) /\ DOMAIN requests = 1 .. Len(requests) /\ Len(requests) \in Nat
  BY DEF PageInv, PageType, IsSequence
<1>1. /\ IsSequence(requests') /\ DOMAIN requests' = 1 .. Len(requests) + 1
      /\ \A j \in DOMAIN requests : requests'[j] = requests[j]
      /\ requests'[Len(requests) + 1] = Request(kind, g, c, subject)
  <2>1. IsSequence(requests') /\ Len(requests') = Len(requests) + 1
    BY <1>0, AppendIsSequence
  <2>2. /\ \A j \in 1 .. Len(requests) : requests'[j] = requests[j]
        /\ requests'[Len(requests) + 1] = Request(kind, g, c, subject)
    BY <1>0, AppendIsSequence
  <2> QED BY <1>0, <2>1, <2>2 DEF IsSequence
<1>2. PageType'
  <2>1. ASSUME NEW j \in DOMAIN requests'
        PROVE  DOMAIN requests'[j] = RequestFields /\ requests'[j].kind \in Kinds
    <3>1. CASE j \in DOMAIN requests
      BY <1>1, <3>1 DEF PageInv, PageType
    <3>2. CASE j = Len(requests) + 1
      BY <1>1, <3>2 DEF Request, RequestFields
    <3> QED BY <1>0, <1>1, <3>1, <3>2
  <2> QED BY <1>1, <2>1 DEF PageInv, PageType
<1>3. CASE page'.conversation = page.conversation /\ page'.generation = page.generation
  BY <1>0, <1>1, <1>2, <1>3, PageFrame
<1>4. CASE page'.conversation = 0
  BY <1>2, <1>4 DEF PageInv, ShownWasDelivered
<1> QED BY <1>3, <1>4

LEMMA PagePosts ==
  ASSUME PageInv,
         StartConversation \/ SendMessage \/ Decide("confirm") \/ Decide("decline") \/ Retry
  PROVE  PageInv'
<1> DEFINE Posts(kind, subject, p) ==
        /\ Post(kind, subject, p) /\ DOMAIN p = DOMAIN page
        /\ \/ p.conversation = page.conversation /\ p.generation = page.generation
           \/ p.conversation = 0
<1>1. PICK kind \in Kinds : \E subject, p : Posts(kind, subject, p)
  <2>1. DOMAIN page = {"generation", "conversation", "booting", "read",
                       "activeCase", "activeRun", "busy", "retrying"}
    BY DEF PageInv, PageType
  <2>2. CASE StartConversation
    <3> DEFINE p == [NewPage EXCEPT !.generation = page.generation + 1]
    <3>1. DOMAIN p = DOMAIN page /\ p.conversation = 0
      BY <2>1 DEF NewPage
    <3>2. Post("create", 0, p)
      BY <2>2 DEF StartConversation
    <3> QED BY <3>1, <3>2 DEF Kinds
  <2>3. CASE SendMessage
    BY <2>1, <2>3 DEF SendMessage, Kinds
  <2>4. ASSUME NEW kind \in {"confirm", "decline"}, Decide(kind)
        PROVE  \E subject, p : Posts(kind, subject, p)
    <3>1. PICK proposal : Post(kind, proposal, [page EXCEPT !.busy = proposal, !.activeRun = TRUE])
      BY <2>4 DEF Decide
    <3> DEFINE p == [page EXCEPT !.busy = proposal, !.activeRun = TRUE]
    <3>2. /\ DOMAIN p = DOMAIN page /\ p.conversation = page.conversation
          /\ p.generation = page.generation
      BY <2>1
    <3>3. Posts(kind, proposal, p)
      BY <3>1, <3>2
    <3> QED BY <3>3
  <2>5. CASE Retry
    <3>1. PICK c : Post("retry", c, [page EXCEPT !.retrying = c, !.activeRun = TRUE])
      BY <2>5 DEF Retry
    <3> DEFINE p == [page EXCEPT !.retrying = c, !.activeRun = TRUE]
    <3>2. /\ DOMAIN p = DOMAIN page /\ p.conversation = page.conversation
          /\ p.generation = page.generation
      BY <2>1
    <3>3. Posts("retry", c, p)
      BY <3>1, <3>2
    <3> QED BY <3>3 DEF Kinds
  <2> QED BY <2>2, <2>3, <2>4, <2>5 DEF Kinds
<1> QED BY <1>1, RequestIsPosted DEF Post

(* An answer arrives, for whatever the page shows by then. *)
LEMMA DeliverKeepsPage ==
  ASSUME PageInv, NEW i \in DOMAIN requests, Deliver(i)
  PROVE  PageInv'
<1> DEFINE request == requests[i]
           forgotten == request.kind = "restore" /\ ~request.ok
                        /\ request.generation = page.generation
           x == [request EXCEPT !.phase = "done"]
           rest == [requests EXCEPT ![i] = x]
<1>0. /\ IsSequence(requests) /\ DOMAIN requests = 1 .. Len(requests)
      /\ DOMAIN request = RequestFields /\ request.kind \in Kinds
      /\ DOMAIN page = {"generation", "conversation", "booting", "read",
                        "activeCase", "activeRun", "busy", "retrying"}
      /\ request.phase = "answered"
  BY DEF PageInv, PageType, IsSequence, Deliver
<1>1. /\ DOMAIN x = RequestFields /\ x.kind = request.kind /\ x.phase = "done"
      /\ x.generation = request.generation /\ x.conversation = request.conversation
  BY <1>0 DEF RequestFields
<1>2. /\ IsSequence(rest) /\ Len(rest) = Len(requests)
      /\ \A j \in DOMAIN requests : rest[j] = IF j = i THEN x ELSE requests[j]
  <2> HIDE DEF x
  <2>1. IsSequence(rest) /\ Len(rest) = Len(requests)
    BY <1>0, ChangeIsSequence
  <2>2. \A j \in 1 .. Len(requests) : rest[j] = IF j = i THEN x ELSE requests[j]
    BY <1>0
  <2> HIDE DEF rest
  <2> QED BY <1>0, <2>1, <2>2
<1>3. CASE forgotten
  <2>1. page' = [NewPage EXCEPT !.generation = page.generation + 1]
    BY <1>3 DEF Deliver
  <2>2. requests' = Append(rest, Request("create", page.generation + 1, 0, 0))
    BY <1>3 DEF Deliver
  <2>3. page'.conversation = 0 /\ DOMAIN page' = DOMAIN page
    BY <1>0, <2>1 DEF NewPage
  <2> DEFINE n == Request("create", page.generation + 1, 0, 0)
  <2>4. DOMAIN n = RequestFields /\ n.kind \in Kinds
    BY DEF Request, RequestFields, Kinds
  <2>5. /\ IsSequence(requests') /\ DOMAIN requests' = 1 .. Len(rest) + 1
        /\ \A j \in 1 .. Len(rest) : requests'[j] = rest[j]
        /\ requests'[Len(rest) + 1] = n
    <3> HIDE DEF n, rest
    <3>1. IsSequence(requests') /\ Len(requests') = Len(rest) + 1
      BY <1>2, <2>2, AppendIsSequence DEF n
    <3>2. /\ \A j \in 1 .. Len(rest) : requests'[j] = rest[j]
          /\ requests'[Len(rest) + 1] = n
      BY <1>2, <2>2, AppendIsSequence DEF n
    <3> QED BY <3>1, <3>2 DEF IsSequence
  <2>6. \A j \in DOMAIN requests' :
          DOMAIN requests'[j] = RequestFields /\ requests'[j].kind \in Kinds
    <3> HIDE DEF n, rest, x
    <3>1. \A j \in 1 .. Len(rest) : DOMAIN rest[j] = RequestFields /\ rest[j].kind \in Kinds
      BY <1>0, <1>1, <1>2 DEF PageInv, PageType
    <3>2. Len(rest) \in Nat
      BY <1>2 DEF IsSequence
    <3> QED BY <2>4, <2>5, <3>1, <3>2
  <2> QED BY <1>0, <2>3, <2>5, <2>6 DEF PageInv, PageType, ShownWasDelivered
<1>4. CASE ~forgotten
  <2>1. requests' = rest
    <3>1. requests' = [requests EXCEPT ![i].phase = "done"]
      BY <1>4 DEF Deliver
    <3> QED BY <3>1
  <2>2. /\ DOMAIN page' = DOMAIN page
        /\ \/ page'.conversation = page.conversation /\ page'.generation = page.generation
           \/ /\ request.kind \in {"create", "restore"} /\ request.generation = page.generation
              /\ page'.conversation = request.conversation
              /\ page'.generation = page.generation
    <3>1. CASE request.kind \in {"create", "restore"}
      <4>1. page' = Opened(page, request)
        BY <1>4, <3>1 DEF Deliver
      <4> HIDE DEF request
      <4> QED BY <1>0, <3>1, <4>1 DEF Opened
    <3>2. CASE request.kind \notin {"create", "restore"}
      <4>1. page' = Answered(page, request)
        BY <1>4, <3>2 DEF Deliver
      <4> HIDE DEF request
      <4> QED BY <1>0, <3>2, <4>1 DEF Answered, Kinds
    <3> QED BY <3>1, <3>2
  <2> HIDE DEF rest, x
  <2>3. PageType'
    <3>1. DOMAIN requests' = DOMAIN requests /\ IsSequence(requests')
      BY <1>0, <1>2, <2>1 DEF IsSequence
    <3>2. \A j \in DOMAIN requests' :
            DOMAIN requests'[j] = RequestFields /\ requests'[j].kind \in Kinds
      BY <1>0, <1>1, <1>2, <2>1, <3>1 DEF PageInv, PageType
    <3> QED BY <2>2, <3>1, <3>2 DEF PageInv, PageType
  <2>4. CASE page'.conversation = page.conversation /\ page'.generation = page.generation
    BY <1>0, <1>2, <2>1, <2>3, <2>4, PageFrame DEF IsSequence
  <2>5. CASE /\ request.kind \in {"create", "restore"} /\ request.generation = page.generation
             /\ page'.conversation = request.conversation
             /\ page'.generation = page.generation
    <3>1. i \in DOMAIN requests' /\ requests'[i] = x
      BY <1>0, <1>2, <2>1 DEF IsSequence
    <3> QED BY <1>1, <2>3, <2>5, <3>1 DEF PageInv, ShownWasDelivered
  <2> QED BY <2>2, <2>4, <2>5
<1> QED BY <1>3, <1>4

LEMMA PageInvNext == PageInv /\ [PageNext]_pageVars => PageInv'
<1> SUFFICES ASSUME PageInv, [PageNext]_pageVars PROVE PageInv'
  OBVIOUS
<1>0. /\ IsSequence(requests) /\ DOMAIN requests = 1 .. Len(requests) /\ Len(requests) \in Nat
      /\ DOMAIN page = {"generation", "conversation", "booting", "read",
                        "activeCase", "activeRun", "busy", "retrying"}
  BY DEF PageInv, PageType, IsSequence
<1>1. ASSUME NEW i \in DOMAIN requests, Serve(i) \/ Open(i) \/ LoseAnswer(i) \/ Deliver(i)
      PROVE  PageInv'
  BY <1>1, ServiceKeepsPage, DeliverKeepsPage
<1>2. CASE ReadEvent \/ \E c \in DOMAIN service : ProposalExpires(c)
  <2>1. UNCHANGED requests /\ DOMAIN page' = DOMAIN page
        /\ page'.conversation = page.conversation /\ page'.generation = page.generation
    BY <1>0, <1>2 DEF ReadEvent, OnEvent, ProposalExpires
  <2> QED BY <2>1, PageFrame DEF PageInv, PageType
<1>3. CASE StartConversation \/ SendMessage \/ Decide("confirm") \/ Decide("decline") \/ Retry
  BY <1>3, PagePosts
<1>4. CASE Reload
  <2> DEFINE forgot == [i \in DOMAIN requests |-> [requests[i] EXCEPT !.awaited = FALSE]]
             n == Request(IF persisted = 0 THEN "create" ELSE "restore",
                          page'.generation, persisted, 0)
  <2>1. requests' = Append(forgot, n) /\ page'.conversation = 0 /\ DOMAIN page' = DOMAIN page
    BY <1>0, <1>4 DEF Reload, NewPage
  <2>2. IsSequence(forgot) /\ Len(forgot) = Len(requests)
    <3>1. forgot = [i \in 1 .. Len(requests) |-> forgot[i]]
      BY <1>0
    <3> HIDE DEF forgot
    <3> QED BY <1>0, <3>1, FunctionIsSequence
  <2>3. /\ \A j \in 1 .. Len(requests) :
             DOMAIN forgot[j] = RequestFields /\ forgot[j].kind \in Kinds
        /\ DOMAIN n = RequestFields /\ n.kind \in Kinds
    BY <1>0 DEF PageInv, PageType, Request, RequestFields, Kinds
  <2> HIDE DEF forgot, n
  <2>4. /\ IsSequence(requests') /\ Len(requests') = Len(requests) + 1
        /\ \A j \in 1 .. Len(requests) : requests'[j] = forgot[j]
        /\ requests'[Len(requests) + 1] = n
    BY <2>1, <2>2, AppendIsSequence
  <2>5. PageType'
    <3>1. IsSequence(requests)' /\ DOMAIN requests' = 1 .. Len(requests) + 1
      BY ONLY <1>0, <2>4 DEF IsSequence
    <3>2. \A j \in DOMAIN requests' :
             DOMAIN requests'[j] = RequestFields /\ requests'[j].kind \in Kinds
      BY ONLY <1>0, <2>3, <2>4, <3>1
    <3> QED BY ONLY <1>0, <2>1, <3>1, <3>2 DEF PageType
  <2> QED BY <2>1, <2>5 DEF PageInv, ShownWasDelivered
<1>5. CASE UNCHANGED pageVars
  BY <1>5, PageFrame DEF pageVars, PageInv, PageType
<1> QED BY <1>1, <1>2, <1>3, <1>4, <1>5 DEF PageNext

(* A step of the whole is a step of the page or leaves it alone. *)
LEMMA PageSteps == [StandaloneNext]_standaloneVars => [PageNext]_pageVars
  BY DEF StandaloneNext, standaloneVars, allParts, Fixed, pageVars

(* startConversation and restoreOrStartConversation (App.tsx): for any number
   of conversations, requests and reloads, in whatever order the answers come
   and whatever is lost, the page shows the conversation of its last choice. *)
THEOREM PageShowsItsChoice == StandaloneSpec => []ShowsTheChosenConversation
<1>1. StandaloneInit => PageInv
  BY PageInvInit DEF StandaloneInit
<1>2. PageInv => ShowsTheChosenConversation
  BY DEF PageInv, ShownWasDelivered, ShowsTheChosenConversation
<1> QED BY <1>1, <1>2, PageSteps, PageInvNext, PTL DEF StandaloneSpec

-----------------------------------------------------------------------------
(* CustomerPage at rest.  What clears a control is either still on its way to
   the page or in the part of the log it has not read, so the invariant speaks
   of the log of each conversation (every Run in it ends, an open Proposal is
   the awaited one, an offer of a retry that still hangs is awaited or taken
   back by the closure of its Case), of the requests (a decision that was
   answered leaves no offer of its Case but a true one; one opening per
   generation of the page) and of the page (each busy control has a request
   or an unread event that clears it).  A request adds to a log as StepOf
   says, whichever of its outcomes it takes. *)

EventTypes == {"run_started", "run_failed", "run_succeeded", "gate_retry_later", "case_closed",
               "proposal_created", "action_failed_retryable", "triage_failed", "case_created",
               "proposal_settled"}
LogEvents == [type : EventTypes, case : Nat, proposal : Nat]
Served == [state : {"free", "retry", "input", "confirm"}, case : Nat, proposal : Nat,
           late : BOOLEAN, resumable : BOOLEAN, log : Seq(LogEvents), ok : BOOLEAN]
Asked == [kind : Kinds, generation : Nat, conversation : Nat, subject : Nat,
          phase : {"sent", "answered", "done"}, awaited : BOOLEAN, ok : BOOLEAN, case : Nat]
Shown == [generation : Nat, conversation : Nat, booting : BOOLEAN, read : Nat,
          activeCase : Nat, activeRun : BOOLEAN, busy : Nat, retrying : Nat]
Opening == {"create", "restore"}
Deciding == {"confirm", "decline"}

EndTypes == {"run_succeeded", "run_failed", "case_closed"}
HangTypes == {"gate_retry_later", "action_failed_retryable"}
SettleTypes == {"proposal_settled", "case_closed"}

(* After the first k events of the log a Run on the page still ends. *)
EndsInTriage(log) ==
    \E i \in DOMAIN log :
        /\ log[i].type = "triage_failed"
        /\ \A j \in DOMAIN log :
             j > i => log[j].type \notin {"run_started", "run_succeeded", "run_failed"}
RunEnds(log, k) ==
    EndsInTriage(log) \/ \E j \in DOMAIN log : j > k /\ log[j].type \in EndTypes
Settles(log, k) == \E j \in DOMAIN log : j > k /\ log[j].type \in SettleTypes
Closes(log, c, k) ==
    \E j \in DOMAIN log : j > k /\ log[j].type = "case_closed" /\ log[j].case = c

(* An offer of a retry that no later Run of the Case takes back. *)
Hangs(log, c) ==
    \E i \in DOMAIN log :
        /\ log[i].type \in HangTypes /\ log[i].case = c
        /\ \A j \in DOMAIN log : j > i => ~(log[j].type = "run_started" /\ log[j].case = c)
AwaitsRetry(srv, c) == srv.state = "retry" /\ srv.case = c

CreatedAt(log, i, p) == log[i].type = "proposal_created" /\ log[i].proposal = p
Settled(log, p) == \E j \in DOMAIN log : log[j].type = "proposal_settled" /\ log[j].proposal = p

(* One conversation *)
LogIsOfItsCases(srv) ==
    \A i \in DOMAIN srv.log :
        /\ srv.log[i].case <= srv.case
        /\ srv.log[i].type = "proposal_created" => srv.log[i].proposal <= srv.proposal
OpenProposalIsAwaited(srv) ==
    /\ \A i \in DOMAIN srv.log : srv.log[i].type = "proposal_created" =>
         \/ Settled(srv.log, srv.log[i].proposal)
         \/ srv.state = "confirm" /\ srv.proposal = srv.log[i].proposal
    /\ srv.state = "confirm" =>
         /\ \E i \in DOMAIN srv.log : CreatedAt(srv.log, i, srv.proposal)
         /\ \A i \in DOMAIN srv.log :
              CreatedAt(srv.log, i, srv.proposal) => srv.log[i].case = srv.case
RunsOfLogEnd(srv) ==
    \A i \in DOMAIN srv.log : srv.log[i].type = "run_started" => RunEnds(srv.log, i)
CreatedBeforeClosed(srv) ==
    \A i, j \in DOMAIN srv.log :
        srv.log[i].type = "case_created" /\ srv.log[j].type = "case_closed"
        /\ srv.log[i].case = srv.log[j].case => i < j
OffersAreTrue(srv) ==
    \A c \in Nat \ {0} :
        Hangs(srv.log, c) => AwaitsRetry(srv, c) \/ Closes(srv.log, c, 0)
ConversationInv(srv) ==
    /\ LogIsOfItsCases(srv) /\ OpenProposalIsAwaited(srv)
    /\ RunsOfLogEnd(srv) /\ CreatedBeforeClosed(srv) /\ OffersAreTrue(srv)
ServiceInv == \A x \in DOMAIN service : ConversationInv(service[x])

(* No conversation names the open Case of another. *)
CasesAreOwn ==
    \A x, y \in DOMAIN service : x # y /\ service[y].case # 0 =>
        /\ service[x].case # service[y].case
        /\ \A i \in DOMAIN service[x].log : service[x].log[i].case # service[y].case

(* Requests *)
RequestsAreKnown ==
    \A i \in DOMAIN requests :
        LET r == requests[i]
        IN  /\ r.generation <= page.generation
            /\ r.conversation <= Len(service)
            /\ r.kind # "create" => r.conversation # 0
            /\ r.kind \in Deciding =>
                 /\ \E j \in DOMAIN service[r.conversation].log :
                      CreatedAt(service[r.conversation].log, j, r.subject)
                 /\ r.phase # "sent" => r.case <= service[r.conversation].case

(* A generation of the page asks for one conversation, and shows none until
   the answer has come. *)
OneOpening ==
    \A i \in DOMAIN requests :
        requests[i].kind \in Opening /\ requests[i].generation = page.generation =>
            /\ page.conversation # 0 => requests[i].phase = "done"
            /\ \A j \in DOMAIN requests :
                 requests[j].kind \in Opening /\ requests[j].generation = page.generation => j = i

(* A decision that succeeded closed its Case or left it to a resumable retry. *)
DecidedIsOver ==
    \A i \in DOMAIN requests :
        LET r == requests[i]
        IN  r.kind \in Deciding /\ r.phase # "sent" /\ r.ok /\ r.case # 0 =>
              \A x \in DOMAIN service :
                 LET srv == service[x]
                 IN  /\ srv.case = r.case =>
                          srv.state = "free" \/ (srv.state = "retry" /\ srv.resumable)
                     /\ Hangs(srv.log, r.case) => AwaitsRetry(srv, r.case) /\ srv.resumable

(* Page *)
PageIsBlank ==
    page.conversation = 0 =>
        page.read = 0 /\ ~page.activeRun /\ page.busy = 0 /\ page.retrying = 0

Sent(i) ==
    /\ requests[i].awaited /\ requests[i].phase = "sent"
    /\ requests[i].generation = page.generation /\ requests[i].conversation = page.conversation
Refused(i) == requests[i].awaited /\ requests[i].phase = "answered" /\ ~requests[i].ok

RunIsCleared ==
    page.activeRun =>
        \/ \E i \in DOMAIN requests : requests[i].kind \notin Opening /\ (Sent(i) \/ Refused(i))
        \/ RunEnds(service[page.conversation].log, page.read)
BusyIsCleared ==
    page.busy # 0 =>
        \/ \E i \in DOMAIN requests : requests[i].kind \in Deciding /\ (Sent(i) \/ Refused(i))
        \/ Settles(service[page.conversation].log, page.read)
RetryingIsCleared ==
    page.retrying # 0 =>
        \E i \in DOMAIN requests :
            requests[i].kind = "retry" /\ requests[i].awaited /\ requests[i].phase # "done"
OfferIsTrue ==
    page.conversation # 0 /\ page.activeCase # 0 =>
        LET srv == service[page.conversation]
        IN  Hangs(srv.log, page.activeCase) =>
              AwaitsRetry(srv, page.activeCase) \/ Closes(srv.log, page.activeCase, page.read)

RestType ==
    /\ page \in Shown /\ page.conversation <= Len(service)
    /\ persisted \in 0 .. Len(service)
    /\ requests \in Seq(Asked) /\ service \in Seq(Served)

ReadIsOfLog ==
    page.conversation # 0 => page.read <= Len(service[page.conversation].log)

(* The inductive invariant *)
RestInv ==
    /\ RestType /\ ReadIsOfLog
    /\ ServiceInv /\ CasesAreOwn
    /\ RequestsAreKnown /\ OneOpening /\ DecidedIsOver
    /\ PageIsBlank /\ RunIsCleared /\ BusyIsCleared /\ RetryingIsCleared /\ OfferIsTrue

(* What a request adds to a conversation. *)
NoOffer(new) == \A n \in DOMAIN new : new[n].type \notin HangTypes

StepOf(srv, out, new) ==
    /\ out \in Served /\ new \in Seq(LogEvents) /\ out.log = srv.log \o new
    /\ srv.case <= out.case /\ srv.proposal <= out.proposal
    /\ \A n \in DOMAIN new :
         LET e == new[n]
         IN  /\ e.type = "run_started" => n = 1
             /\ e.case <= out.case
             /\ e.case \notin {0, out.case} =>
                  \E i \in DOMAIN srv.log : srv.log[i].case = e.case
             /\ e.type = "case_created" =>
                  /\ e.case = out.case /\ srv.case < out.case
                  /\ \A m \in DOMAIN new : new[m].type = "case_closed" => n < m
             /\ e.type \in HangTypes =>
                  /\ e.case = out.case
                  /\ \/ out.state = "retry"
                     \/ \E m \in DOMAIN new : new[m].type = "case_closed" /\ new[m].case = out.case
             /\ e.type = "proposal_created" =>
                  /\ srv.state # "confirm" /\ out.state = "confirm"
                  /\ e.case = out.case /\ e.proposal = out.proposal
                  /\ out.proposal = srv.proposal + 1
    /\ new # << >> => \/ \E n \in DOMAIN new : new[n].type \in EndTypes
                      \/ Len(new) = 2 /\ new[2].type = "triage_failed"
    /\ out.ok => \E n \in DOMAIN new : new[n].type \in EndTypes
    /\ srv.state = "retry" =>
         \/ AwaitsRetry(out, srv.case)
         \/ 1 \in DOMAIN new /\ new[1].type = "run_started" /\ new[1].case = srv.case
    /\ srv.state = "confirm" =>
         \/ out.state = "confirm" /\ out.proposal = srv.proposal /\ out.case = srv.case
         \/ Settled(new, srv.proposal)
    /\ out.state = "confirm" =>
         \/ srv.state = "confirm" /\ out.proposal = srv.proposal /\ out.case = srv.case
         \/ \E n \in DOMAIN new : CreatedAt(new, n, out.proposal)
    /\ out.case # srv.case => srv.state = "free"
    /\ srv.state = "free" /\ out.case = srv.case => out.state = "free" /\ NoOffer(new)
    /\ srv.state = "retry" /\ srv.resumable =>
         /\ out.case = srv.case
         /\ \/ out.state = "retry" /\ out.resumable
            \/ out.state = "free" /\ NoOffer(new)

-----------------------------------------------------------------------------
(* A log grows. *)

(* u is s followed by t. *)
LogIsExtended(s, t, u) ==
    /\ DOMAIN s = 1 .. Len(s) /\ Len(s) \in Nat
    /\ DOMAIN t = 1 .. Len(t) /\ Len(t) \in Nat /\ Len(u) = Len(s) + Len(t)
    /\ DOMAIN u = 1 .. Len(s) + Len(t)
    /\ \A i \in DOMAIN s : i \in DOMAIN u /\ u[i] = s[i]
    /\ \A n \in DOMAIN t : Len(s) + n \in DOMAIN u /\ u[Len(s) + n] = t[n]
    /\ \A i \in DOMAIN u : i \in DOMAIN s \/ \E n \in DOMAIN t : i = Len(s) + n

LEMMA LogGrows ==
  ASSUME NEW S, NEW s \in Seq(S), NEW t \in Seq(S)
  PROVE  s \o t \in Seq(S) /\ LogIsExtended(s, t, s \o t)
<1> DEFINE u == s \o t
<1>1. /\ u \in Seq(S) /\ Len(u) = Len(s) + Len(t)
      /\ \A i \in 1 .. Len(s) : u[i] = s[i]
      /\ \A n \in 1 .. Len(t) : u[Len(s) + n] = t[n]
  OBVIOUS
<1>2. DOMAIN s = 1 .. Len(s) /\ DOMAIN t = 1 .. Len(t) /\ Len(s) \in Nat /\ Len(t) \in Nat
  OBVIOUS
<1> HIDE DEF u
<1>3. DOMAIN u = 1 .. Len(s) + Len(t)
  BY <1>1, <1>2
<1>4. ASSUME NEW i \in DOMAIN u, i \notin DOMAIN s
      PROVE  \E n \in DOMAIN t : i = Len(s) + n
  <2>1. i - Len(s) \in DOMAIN t /\ i = Len(s) + (i - Len(s))
    BY <1>2, <1>3, <1>4
  <2> QED BY <2>1
<1>5. \A n \in DOMAIN t : Len(s) + n \in DOMAIN u
  BY <1>2, <1>3
<1>6. LogIsExtended(s, t, u)
  BY <1>1, <1>2, <1>3, <1>4, <1>5 DEF LogIsExtended
<1> QED BY <1>1, <1>6 DEF u

(* The same for the log of a conversation that a request was served in. *)
LEMMA ServedLogGrows ==
  ASSUME NEW srv \in Served, NEW out, NEW new, StepOf(srv, out, new)
  PROVE  /\ srv.log \in Seq(LogEvents) /\ new \in Seq(LogEvents) /\ out.log \in Seq(LogEvents)
         /\ LogIsExtended(srv.log, new, out.log)
<1>1. srv.log \in Seq(LogEvents) /\ new \in Seq(LogEvents) /\ out.log = srv.log \o new
  BY DEF StepOf, Served
<1>2. srv.log \o new \in Seq(LogEvents) /\ LogIsExtended(srv.log, new, srv.log \o new)
  BY ONLY <1>1, LogGrows
<1> QED BY <1>1, <1>2

(* A Run that ends, or a Proposal that is settled, in what was not read yet. *)
LEMMA RunEndsGrows ==
  ASSUME NEW srv \in Served, NEW out, NEW new, StepOf(srv, out, new), NEW k \in Nat,
         k <= Len(srv.log), RunEnds(srv.log, k)
  PROVE  RunEnds(out.log, k)
<1> DEFINE L == Len(srv.log)
<1>0. /\ DOMAIN srv.log = 1 .. L /\ L \in Nat /\ DOMAIN new = 1 .. Len(new) /\ Len(new) \in Nat
      /\ DOMAIN out.log = 1 .. L + Len(new)
      /\ \A i \in DOMAIN srv.log : i \in DOMAIN out.log /\ out.log[i] = srv.log[i]
      /\ \A n \in DOMAIN new : L + n \in DOMAIN out.log /\ out.log[L + n] = new[n]
  BY ServedLogGrows DEF LogIsExtended
<1> HIDE DEF L
<1>1. CASE \E j \in DOMAIN srv.log : j > k /\ srv.log[j].type \in EndTypes
  BY <1>0, <1>1 DEF RunEnds
<1>2. CASE \E n \in DOMAIN new : new[n].type \in EndTypes
  <2>1. PICK n \in DOMAIN new : new[n].type \in EndTypes
    BY <1>2
  <2>2. L + n > k /\ L + n \in DOMAIN out.log
    BY <1>0, <2>1 DEF L
  <2> QED BY <1>0, <2>1, <2>2 DEF RunEnds
<1>3. CASE Len(new) = 2 /\ new[2].type = "triage_failed"
  <2>1. /\ L + 2 \in DOMAIN out.log /\ out.log[L + 2].type = "triage_failed"
        /\ \A j \in DOMAIN out.log : ~(j > L + 2)
    BY <1>0, <1>3
  <2> QED BY <2>1 DEF RunEnds, EndsInTriage
<1>4. CASE new = << >> /\ EndsInTriage(srv.log)
  <2>1. DOMAIN out.log = DOMAIN srv.log
    BY <1>0, <1>4
  <2> QED BY <1>0, <1>4, <2>1 DEF RunEnds, EndsInTriage
<1>5. new # << >> => \/ \E n \in DOMAIN new : new[n].type \in EndTypes
                     \/ Len(new) = 2 /\ new[2].type = "triage_failed"
  BY DEF StepOf
<1> QED BY <1>1, <1>2, <1>3, <1>4, <1>5 DEF RunEnds

(* An offer in the log after a step. *)
LEMMA OfferOfStep ==
  ASSUME NEW srv \in Served, NEW out, NEW new, StepOf(srv, out, new), NEW c, Hangs(out.log, c)
  PROVE  \/ c = out.case /\ \E n \in DOMAIN new : new[n].type \in HangTypes
         \/ Hangs(srv.log, c) /\ ~(1 \in DOMAIN new /\ new[1].type = "run_started" /\ new[1].case = c)
<1> DEFINE L == Len(srv.log)
<1>0. /\ DOMAIN srv.log = 1 .. L /\ L \in Nat /\ DOMAIN new = 1 .. Len(new) /\ Len(new) \in Nat
      /\ DOMAIN out.log = 1 .. L + Len(new)
      /\ \A i \in DOMAIN srv.log : i \in DOMAIN out.log /\ out.log[i] = srv.log[i]
      /\ \A n \in DOMAIN new : L + n \in DOMAIN out.log /\ out.log[L + n] = new[n]
      /\ \A i \in DOMAIN out.log : i \in DOMAIN srv.log \/ \E n \in DOMAIN new : i = L + n
  BY ServedLogGrows DEF LogIsExtended
<1> HIDE DEF L
<1>1. PICK i \in DOMAIN out.log :
        /\ out.log[i].type \in HangTypes /\ out.log[i].case = c
        /\ \A j \in DOMAIN out.log :
             j > i => ~(out.log[j].type = "run_started" /\ out.log[j].case = c)
  BY DEF Hangs
<1>2. CASE i \in DOMAIN srv.log
  <2>1. Hangs(srv.log, c)
    BY <1>0, <1>1, <1>2 DEF Hangs
  <2>2. ASSUME 1 \in DOMAIN new, new[1].type = "run_started", new[1].case = c PROVE FALSE
    <3>1. L + 1 \in DOMAIN out.log /\ out.log[L + 1] = new[1] /\ L + 1 > i
      BY <1>0, <1>2, <2>2
    <3> QED BY <1>1, <2>2, <3>1
  <2> QED BY <2>1, <2>2
<1>3. CASE \E n \in DOMAIN new : i = L + n
  <2>1. PICK n \in DOMAIN new : i = L + n
    BY <1>3
  <2>2. new[n].type \in HangTypes /\ new[n].case = c
    BY <1>0, <1>1, <2>1
  <2>3. new[n].type \in HangTypes => new[n].case = out.case
    BY DEF StepOf
  <2> QED BY <2>1, <2>2, <2>3
<1> QED BY <1>0, <1>2, <1>3

LEMMA OfferIsNewOrOld ==
  ASSUME NEW srv \in Served, NEW out, NEW new, StepOf(srv, out, new), NEW c, Hangs(out.log, c)
  PROVE  \/ AwaitsRetry(out, c)
         \/ \E n \in DOMAIN new : new[n].type = "case_closed" /\ new[n].case = c
         \/ Hangs(srv.log, c) /\ ~AwaitsRetry(srv, c)
<1>1. CASE c = out.case /\ \E n \in DOMAIN new : new[n].type \in HangTypes
  <2>1. PICK n \in DOMAIN new : new[n].type \in HangTypes
    BY <1>1
  <2>2. \/ out.state = "retry"
        \/ \E m \in DOMAIN new : new[m].type = "case_closed" /\ new[m].case = out.case
    BY <2>1 DEF StepOf
  <2> QED BY <1>1, <2>2 DEF AwaitsRetry
<1>2. CASE /\ Hangs(srv.log, c)
           /\ ~(1 \in DOMAIN new /\ new[1].type = "run_started" /\ new[1].case = c)
  <2>1. srv.state = "retry" =>
         \/ AwaitsRetry(out, srv.case)
         \/ 1 \in DOMAIN new /\ new[1].type = "run_started" /\ new[1].case = srv.case
    BY DEF StepOf
  <2> QED BY <1>2, <2>1 DEF AwaitsRetry
<1> QED BY <1>1, <1>2, OfferOfStep

-----------------------------------------------------------------------------
(* What holds of one conversation survives a request. *)

LEMMA CasesOfLogGrow ==
  ASSUME NEW srv \in Served, NEW out, NEW new, StepOf(srv, out, new), LogIsOfItsCases(srv)
  PROVE  LogIsOfItsCases(out)
<1> DEFINE L == Len(srv.log)
<1>0. /\ srv.log \in Seq(LogEvents) /\ new \in Seq(LogEvents)
      /\ \A i \in DOMAIN srv.log : i \in DOMAIN out.log /\ out.log[i] = srv.log[i]
      /\ \A n \in DOMAIN new : L + n \in DOMAIN out.log /\ out.log[L + n] = new[n]
      /\ \A i \in DOMAIN out.log : i \in DOMAIN srv.log \/ \E n \in DOMAIN new : i = L + n
  BY ServedLogGrows DEF LogIsExtended
<1>1. /\ srv.case \in Nat /\ out.case \in Nat /\ srv.proposal \in Nat /\ out.proposal \in Nat
      /\ srv.case <= out.case /\ srv.proposal <= out.proposal
  BY DEF StepOf, Served
<1> HIDE DEF L
<1> SUFFICES ASSUME NEW i \in DOMAIN out.log
             PROVE  /\ out.log[i].case <= out.case
                    /\ out.log[i].type = "proposal_created" => out.log[i].proposal <= out.proposal
  BY DEF LogIsOfItsCases
<1>2. CASE i \in DOMAIN srv.log
  <2>1. srv.log[i] \in LogEvents
    BY <1>0, <1>2
  <2>2. /\ srv.log[i].case <= srv.case
        /\ srv.log[i].type = "proposal_created" => srv.log[i].proposal <= srv.proposal
    BY <1>2 DEF LogIsOfItsCases
  <2>3. srv.log[i].case \in Nat /\ srv.log[i].proposal \in Nat
    BY <2>1 DEF LogEvents
  <2>4. out.log[i] = srv.log[i]
    BY <1>0, <1>2
  <2> QED BY <1>1, <2>2, <2>3, <2>4
<1>3. CASE \E n \in DOMAIN new : i = L + n
  <2>1. PICK n \in DOMAIN new : i = L + n
    BY <1>3
  <2>2. out.log[i] = new[n]
    BY <1>0, <2>1
  <2>3. /\ new[n].case <= out.case
        /\ new[n].type = "proposal_created" => new[n].proposal = out.proposal
    BY <2>1 DEF StepOf, HangTypes
  <2> QED BY <1>1, <2>2, <2>3
<1> QED BY <1>0, <1>2, <1>3

LEMMA AwaitedProposalGrows ==
  ASSUME NEW srv \in Served, NEW out, NEW new, StepOf(srv, out, new),
         LogIsOfItsCases(srv), OpenProposalIsAwaited(srv)
  PROVE  OpenProposalIsAwaited(out)
<1> DEFINE L == Len(srv.log)
<1>0. /\ srv.log \in Seq(LogEvents) /\ new \in Seq(LogEvents)
      /\ \A i \in DOMAIN srv.log : i \in DOMAIN out.log /\ out.log[i] = srv.log[i]
      /\ \A n \in DOMAIN new : L + n \in DOMAIN out.log /\ out.log[L + n] = new[n]
      /\ \A i \in DOMAIN out.log : i \in DOMAIN srv.log \/ \E n \in DOMAIN new : i = L + n
  BY ServedLogGrows DEF LogIsExtended
<1>1. srv.proposal \in Nat
  BY DEF Served
<1> HIDE DEF L
<1>2. \A p : Settled(srv.log, p) => Settled(out.log, p)
  BY <1>0 DEF Settled
<1>3. \A p : Settled(new, p) => Settled(out.log, p)
  BY <1>0 DEF Settled
<1>4. \A n \in DOMAIN new : new[n].type = "proposal_created" =>
         /\ srv.state # "confirm" /\ out.state = "confirm"
         /\ new[n].case = out.case /\ new[n].proposal = out.proposal
         /\ out.proposal = srv.proposal + 1
  BY DEF StepOf
<1>5. ASSUME NEW i \in DOMAIN out.log, out.log[i].type = "proposal_created"
      PROVE  \/ Settled(out.log, out.log[i].proposal)
             \/ out.state = "confirm" /\ out.proposal = out.log[i].proposal
  <2>1. CASE i \in DOMAIN srv.log
    <3>1. out.log[i] = srv.log[i]
      BY <1>0, <2>1
    <3>2. \/ Settled(srv.log, srv.log[i].proposal)
          \/ srv.state = "confirm" /\ srv.proposal = srv.log[i].proposal
      BY <1>5, <2>1, <3>1 DEF OpenProposalIsAwaited
    <3>3. srv.state = "confirm" =>
            \/ out.state = "confirm" /\ out.proposal = srv.proposal
            \/ Settled(new, srv.proposal)
      BY DEF StepOf
    <3> QED BY <1>2, <1>3, <3>1, <3>2, <3>3
  <2>2. CASE \E n \in DOMAIN new : i = L + n
    BY <1>0, <1>4, <1>5, <2>2
  <2> QED BY <1>0, <2>1, <2>2
<1>6. ASSUME out.state = "confirm"
      PROVE  /\ \E i \in DOMAIN out.log : CreatedAt(out.log, i, out.proposal)
             /\ \A i \in DOMAIN out.log :
                  CreatedAt(out.log, i, out.proposal) => out.log[i].case = out.case
  <2>1. CASE srv.state = "confirm" /\ out.proposal = srv.proposal /\ out.case = srv.case
    <3>1. /\ \E i \in DOMAIN srv.log : CreatedAt(srv.log, i, srv.proposal)
          /\ \A i \in DOMAIN srv.log :
               CreatedAt(srv.log, i, srv.proposal) => srv.log[i].case = srv.case
      BY <2>1 DEF OpenProposalIsAwaited
    <3>2. \E i \in DOMAIN out.log : CreatedAt(out.log, i, out.proposal)
      BY <1>0, <2>1, <3>1 DEF CreatedAt
    <3>3. ASSUME NEW i \in DOMAIN out.log, CreatedAt(out.log, i, out.proposal)
          PROVE  out.log[i].case = out.case
      <4>1. i \in DOMAIN srv.log
        BY <1>0, <1>4, <2>1, <3>3 DEF CreatedAt
      <4> QED BY <1>0, <2>1, <3>1, <3>3, <4>1 DEF CreatedAt
    <3> QED BY <3>2, <3>3
  <2>2. CASE \E n \in DOMAIN new : CreatedAt(new, n, out.proposal)
    <3>1. PICK n \in DOMAIN new : CreatedAt(new, n, out.proposal)
      BY <2>2
    <3>2. out.proposal = srv.proposal + 1
      BY <1>4, <3>1 DEF CreatedAt
    <3>3. \E i \in DOMAIN out.log : CreatedAt(out.log, i, out.proposal)
      BY <1>0, <3>1 DEF CreatedAt
    <3>4. ASSUME NEW i \in DOMAIN out.log, CreatedAt(out.log, i, out.proposal)
          PROVE  out.log[i].case = out.case
      <4>1. CASE i \in DOMAIN srv.log
        <5>1. srv.log[i].type = "proposal_created" /\ srv.log[i].proposal = srv.proposal + 1
          BY <1>0, <3>2, <3>4, <4>1 DEF CreatedAt
        <5>2. srv.log[i].proposal <= srv.proposal
          BY <4>1, <5>1 DEF LogIsOfItsCases
        <5> QED BY <1>1, <5>1, <5>2
      <4>2. CASE \E m \in DOMAIN new : i = L + m
        BY <1>0, <1>4, <3>4, <4>2 DEF CreatedAt
      <4> QED BY <1>0, <4>1, <4>2
    <3> QED BY <3>3, <3>4
  <2> QED BY <1>6, <2>1, <2>2 DEF StepOf
<1> QED BY <1>5, <1>6 DEF OpenProposalIsAwaited

LEMMA RunsOfLogGrow ==
  ASSUME NEW srv \in Served, NEW out, NEW new, StepOf(srv, out, new), RunsOfLogEnd(srv)
  PROVE  RunsOfLogEnd(out)
<1> DEFINE L == Len(srv.log)
<1>0. /\ DOMAIN srv.log = 1 .. L /\ L \in Nat /\ DOMAIN new = 1 .. Len(new) /\ Len(new) \in Nat
      /\ DOMAIN out.log = 1 .. L + Len(new)
      /\ \A i \in DOMAIN srv.log : i \in DOMAIN out.log /\ out.log[i] = srv.log[i]
      /\ \A n \in DOMAIN new : L + n \in DOMAIN out.log /\ out.log[L + n] = new[n]
      /\ \A i \in DOMAIN out.log : i \in DOMAIN srv.log \/ \E n \in DOMAIN new : i = L + n
  BY ServedLogGrows DEF LogIsExtended
<1> SUFFICES ASSUME NEW i \in DOMAIN out.log, out.log[i].type = "run_started"
             PROVE  RunEnds(out.log, i)
  BY DEF RunsOfLogEnd
<1>1. CASE i \in DOMAIN srv.log
  <2>1. RunEnds(srv.log, i) /\ i \in Nat /\ i <= Len(srv.log)
    BY <1>0, <1>1 DEF RunsOfLogEnd
  <2> HIDE DEF L
  <2> QED BY <2>1, RunEndsGrows
<1> HIDE DEF L
<1>2. CASE \E n \in DOMAIN new : i = L + n
  <2>1. PICK n \in DOMAIN new : i = L + n
    BY <1>2
  <2>2. n = 1 /\ new[1].type = "run_started" /\ new # << >>
    <3>1. new[n].type = "run_started"
      BY ONLY <1>0, <2>1, out.log[i].type = "run_started"
    <3>2. \A k \in DOMAIN new : new[k].type = "run_started" => k = 1
      BY ONLY StepOf(srv, out, new) DEF StepOf
    <3> QED BY ONLY <2>1, <3>1, <3>2
  <2>3. CASE \E m \in DOMAIN new : new[m].type \in EndTypes
    <3>1. PICK m \in DOMAIN new : new[m].type \in EndTypes
      BY <2>3
    <3>2. m # 1
      BY <2>2, <3>1 DEF EndTypes
    <3>3. L + m > i /\ L + m \in DOMAIN out.log
      BY <1>0, <2>1, <2>2, <3>1, <3>2
    <3> QED BY <1>0, <3>1, <3>3 DEF RunEnds
  <2>4. CASE Len(new) = 2 /\ new[2].type = "triage_failed"
    <3>1. /\ L + 2 \in DOMAIN out.log /\ out.log[L + 2].type = "triage_failed"
          /\ \A j \in DOMAIN out.log : ~(j > L + 2)
      BY <1>0, <2>4
    <3> QED BY <3>1 DEF RunEnds, EndsInTriage
  <2> QED BY <2>2, <2>3, <2>4 DEF StepOf
<1> QED BY <1>0, <1>1, <1>2

LEMMA CreatedBeforeClosedGrows ==
  ASSUME NEW srv \in Served, NEW out, NEW new, StepOf(srv, out, new),
         LogIsOfItsCases(srv), CreatedBeforeClosed(srv)
  PROVE  CreatedBeforeClosed(out)
<1> DEFINE L == Len(srv.log)
<1>0. /\ DOMAIN srv.log = 1 .. L /\ L \in Nat /\ DOMAIN new = 1 .. Len(new) /\ Len(new) \in Nat
      /\ \A i \in DOMAIN srv.log : i \in DOMAIN out.log /\ out.log[i] = srv.log[i]
      /\ \A n \in DOMAIN new : L + n \in DOMAIN out.log /\ out.log[L + n] = new[n]
      /\ \A i \in DOMAIN out.log : i \in DOMAIN srv.log \/ \E n \in DOMAIN new : i = L + n
  BY ServedLogGrows DEF LogIsExtended
<1>1. srv.case \in Nat /\ out.case \in Nat
  BY DEF StepOf, Served
<1> HIDE DEF L
<1>2. \A n \in DOMAIN new : new[n].type = "case_created" =>
         /\ new[n].case = out.case /\ srv.case < out.case
         /\ \A m \in DOMAIN new : new[m].type = "case_closed" => n < m
  BY DEF StepOf
<1> SUFFICES ASSUME NEW i \in DOMAIN out.log, NEW j \in DOMAIN out.log,
                    out.log[i].type = "case_created", out.log[j].type = "case_closed",
                    out.log[i].case = out.log[j].case
             PROVE  i < j
  BY DEF CreatedBeforeClosed
<1>3. CASE i \in DOMAIN srv.log /\ j \in DOMAIN srv.log
  BY <1>0, <1>3 DEF CreatedBeforeClosed
<1>4. CASE i \in DOMAIN srv.log /\ \E m \in DOMAIN new : j = L + m
  BY <1>0, <1>4
<1>5. CASE j \in DOMAIN srv.log /\ \E n \in DOMAIN new : i = L + n
  <2>1. PICK n \in DOMAIN new : i = L + n
    BY <1>5
  <2>2. out.log[j].case = out.case /\ srv.case < out.case
    BY <1>0, <1>2, <2>1
  <2>3. srv.log[j].case <= srv.case /\ out.log[j] = srv.log[j]
    BY <1>0, <1>5 DEF LogIsOfItsCases
  <2> QED BY <1>1, <2>2, <2>3
<1>6. CASE (\E n \in DOMAIN new : i = L + n) /\ \E m \in DOMAIN new : j = L + m
  <2>1. PICK n \in DOMAIN new : i = L + n
    BY <1>6
  <2>2. PICK m \in DOMAIN new : j = L + m
    BY <1>6
  <2>3. n < m
    BY <1>0, <1>2, <2>1, <2>2
  <2> QED BY <1>0, <2>1, <2>2, <2>3
<1> QED BY <1>0, <1>3, <1>4, <1>5, <1>6

LEMMA OffersStayTrue ==
  ASSUME NEW srv \in Served, NEW out, NEW new, StepOf(srv, out, new), OffersAreTrue(srv)
  PROVE  OffersAreTrue(out)
<1> DEFINE L == Len(srv.log)
<1>0. /\ DOMAIN srv.log = 1 .. L /\ L \in Nat /\ DOMAIN new = 1 .. Len(new) /\ Len(new) \in Nat
      /\ \A i \in DOMAIN srv.log : i \in DOMAIN out.log /\ out.log[i] = srv.log[i]
      /\ \A n \in DOMAIN new : L + n \in DOMAIN out.log /\ out.log[L + n] = new[n]
  BY ServedLogGrows DEF LogIsExtended
<1> HIDE DEF L
<1> SUFFICES ASSUME NEW c \in Nat \ {0}, Hangs(out.log, c)
             PROVE  AwaitsRetry(out, c) \/ Closes(out.log, c, 0)
  BY DEF OffersAreTrue
<1>1. CASE \E n \in DOMAIN new : new[n].type = "case_closed" /\ new[n].case = c
  <2>1. PICK n \in DOMAIN new : new[n].type = "case_closed" /\ new[n].case = c
    BY <1>1
  <2>2. L + n \in DOMAIN out.log /\ L + n > 0 /\ out.log[L + n] = new[n]
    BY <1>0, <2>1
  <2> QED BY <2>1, <2>2 DEF Closes
<1>2. CASE Hangs(srv.log, c) /\ ~AwaitsRetry(srv, c)
  <2>1. Closes(srv.log, c, 0)
    BY <1>2 DEF OffersAreTrue
  <2> QED BY <1>0, <2>1 DEF Closes
<1> QED BY <1>1, <1>2, OfferIsNewOrOld

LEMMA ConversationStep ==
  ASSUME NEW srv \in Served, NEW out, NEW new, StepOf(srv, out, new), ConversationInv(srv)
  PROVE  ConversationInv(out)
  BY CasesOfLogGrow, AwaitedProposalGrows, RunsOfLogGrow, CreatedBeforeClosedGrows, OffersStayTrue
     DEF ConversationInv

-----------------------------------------------------------------------------
(* Every outcome of a request is a step of its conversation. *)

States == {"free", "retry", "input", "confirm"}
KnownCase(srv, out, c) ==
    c <= out.case /\ (c \notin {0, out.case} => \E i \in DOMAIN srv.log : srv.log[i].case = c)

(* The events before the work of a Run, and those of the work. *)
HeadOf(srv, out, pre) ==
    /\ pre \in Seq(LogEvents)
    /\ \A n \in DOMAIN pre :
         /\ pre[n].type \in {"run_started", "case_created", "proposal_settled"}
         /\ pre[n].type = "run_started" => n = 1
         /\ KnownCase(srv, out, pre[n].case)
         /\ pre[n].type = "case_created" => pre[n].case = out.case /\ srv.case < out.case
TailOf(srv, out, tail) ==
    /\ tail \in Seq(LogEvents)
    /\ \A n \in DOMAIN tail :
         /\ tail[n].type \notin {"run_started", "case_created"}
         /\ KnownCase(srv, out, tail[n].case)
         /\ tail[n].type \in HangTypes =>
              /\ tail[n].case = out.case
              /\ \/ out.state = "retry"
                 \/ \E m \in DOMAIN tail :
                      tail[m].type = "case_closed" /\ tail[m].case = out.case
         /\ tail[n].type = "proposal_created" =>
              /\ srv.state # "confirm" /\ out.state = "confirm"
              /\ tail[n].case = out.case /\ tail[n].proposal = out.proposal
              /\ out.proposal = srv.proposal + 1
    /\ \E n \in DOMAIN tail : tail[n].type \in EndTypes
MovesOn(srv, out, pre, tail) ==
    /\ srv.case <= out.case /\ srv.proposal <= out.proposal
    /\ srv.state = "retry" =>
         \/ AwaitsRetry(out, srv.case)
         \/ 1 \in DOMAIN pre /\ pre[1].type = "run_started" /\ pre[1].case = srv.case
    /\ srv.state = "confirm" =>
         \/ out.state = "confirm" /\ out.proposal = srv.proposal /\ out.case = srv.case
         \/ Settled(pre, srv.proposal)
    /\ out.state = "confirm" =>
         \/ srv.state = "confirm" /\ out.proposal = srv.proposal /\ out.case = srv.case
         \/ \E n \in DOMAIN tail : CreatedAt(tail, n, out.proposal)
    /\ out.case # srv.case => srv.state = "free"
    /\ srv.state = "free" /\ out.case = srv.case => out.state = "free" /\ NoOffer(tail)
    /\ srv.state = "retry" /\ srv.resumable =>
         /\ out.case = srv.case
         /\ \/ out.state = "retry" /\ out.resumable
            \/ out.state = "free" /\ NoOffer(tail)

LEMMA NoOfferOfParts ==
  ASSUME NEW srv, NEW out, NEW pre, NEW tail, HeadOf(srv, out, pre), tail \in Seq(LogEvents),
         NoOffer(tail)
  PROVE  NoOffer(pre \o tail)
<1> DEFINE new == pre \o tail
<1>1. LogIsExtended(pre, tail, new)
  BY LogGrows DEF HeadOf
<1> HIDE DEF new
<1>2. NoOffer(new)
  BY <1>1 DEF HeadOf, NoOffer, HangTypes, LogIsExtended
<1> QED BY <1>2 DEF new

LEMMA StepOfParts ==
  ASSUME NEW srv \in Served, NEW out \in Served, NEW pre, NEW tail,
         HeadOf(srv, out, pre), TailOf(srv, out, tail), MovesOn(srv, out, pre, tail),
         out.log = srv.log \o (pre \o tail)
  PROVE  StepOf(srv, out, pre \o tail)
<1> DEFINE new == pre \o tail
           K == Len(pre)
<1>1. pre \in Seq(LogEvents) /\ tail \in Seq(LogEvents)
  BY DEF HeadOf, TailOf
<1>2. new \in Seq(LogEvents) /\ LogIsExtended(pre, tail, new)
  BY <1>1, LogGrows
<1>3. NoOffer(tail) => NoOffer(new)
  BY <1>1, NoOfferOfParts
<1>a. out.log = srv.log \o new
  OBVIOUS
<1> HIDE DEF new
<1>4. /\ DOMAIN pre = 1 .. K /\ K \in Nat /\ DOMAIN tail = 1 .. Len(tail) /\ Len(tail) \in Nat
      /\ \A i \in DOMAIN pre : i \in DOMAIN new /\ new[i] = pre[i]
      /\ \A n \in DOMAIN tail : K + n \in DOMAIN new /\ new[K + n] = tail[n]
      /\ \A i \in DOMAIN new : i \in DOMAIN pre \/ \E n \in DOMAIN tail : i = K + n
  BY <1>2 DEF LogIsExtended
<1>5. \A p : Settled(pre, p) => Settled(new, p)
  BY <1>4 DEF Settled
<1> HIDE DEF K
<1>6. ASSUME NEW n \in DOMAIN new
      PROVE  /\ new[n].type = "run_started" => n = 1
             /\ new[n].case <= out.case
             /\ new[n].case \notin {0, out.case} =>
                  \E i \in DOMAIN srv.log : srv.log[i].case = new[n].case
             /\ new[n].type = "case_created" =>
                  /\ new[n].case = out.case /\ srv.case < out.case
                  /\ \A m \in DOMAIN new : new[m].type = "case_closed" => n < m
             /\ new[n].type \in HangTypes =>
                  /\ new[n].case = out.case
                  /\ \/ out.state = "retry"
                     \/ \E m \in DOMAIN new :
                          new[m].type = "case_closed" /\ new[m].case = out.case
             /\ new[n].type = "proposal_created" =>
                  /\ srv.state # "confirm" /\ out.state = "confirm"
                  /\ new[n].case = out.case /\ new[n].proposal = out.proposal
                  /\ out.proposal = srv.proposal + 1
  <2>1. CASE n \in DOMAIN pre
    <3>1. /\ new[n].type \in {"run_started", "case_created", "proposal_settled"}
          /\ new[n].type = "run_started" => n = 1
          /\ KnownCase(srv, out, new[n].case)
          /\ new[n].type = "case_created" => new[n].case = out.case /\ srv.case < out.case
      BY <1>4, <2>1 DEF HeadOf
    <3>2. ASSUME NEW m \in DOMAIN new, new[m].type = "case_closed" PROVE n < m
      <4>1. m \notin DOMAIN pre
        BY <1>4, <3>2 DEF HeadOf
      <4> QED BY <1>4, <2>1, <3>2, <4>1
    <3> QED BY <3>1, <3>2 DEF KnownCase, HangTypes
  <2>2. CASE \E k \in DOMAIN tail : n = K + k
    <3>1. PICK k \in DOMAIN tail : n = K + k
      BY <2>2
    <3>2. new[n] = tail[k]
      BY <1>4, <3>1
    <3>3. /\ tail[k].type \notin {"run_started", "case_created"}
          /\ KnownCase(srv, out, tail[k].case)
          /\ tail[k].type \in HangTypes =>
              /\ tail[k].case = out.case
              /\ \/ out.state = "retry"
                 \/ \E m \in DOMAIN tail :
                      tail[m].type = "case_closed" /\ tail[m].case = out.case
          /\ tail[k].type = "proposal_created" =>
              /\ srv.state # "confirm" /\ out.state = "confirm"
              /\ tail[k].case = out.case /\ tail[k].proposal = out.proposal
              /\ out.proposal = srv.proposal + 1
      BY <3>1 DEF TailOf
    <3> QED BY <1>4, <3>2, <3>3 DEF KnownCase
  <2> QED BY <1>4, <2>1, <2>2
<1>7. \E n \in DOMAIN new : new[n].type \in EndTypes
  BY <1>4 DEF TailOf
<1>8. out.state = "confirm" =>
         \/ srv.state = "confirm" /\ out.proposal = srv.proposal /\ out.case = srv.case
         \/ \E n \in DOMAIN new : CreatedAt(new, n, out.proposal)
  BY <1>4 DEF MovesOn, CreatedAt
<1>9. srv.state = "retry" =>
         \/ AwaitsRetry(out, srv.case)
         \/ 1 \in DOMAIN new /\ new[1].type = "run_started" /\ new[1].case = srv.case
  BY <1>4 DEF MovesOn
<1>10. StepOf(srv, out, new)
  BY <1>2, <1>3, <1>5, <1>6, <1>7, <1>8, <1>9, <1>a DEF StepOf, MovesOn
<1> QED BY <1>10 DEF new

(* Short sequences of events. *)
IsPair(s, a, b) == s \in Seq(LogEvents) /\ DOMAIN s = 1 .. 2 /\ Len(s) = 2 /\ s[1] = a /\ s[2] = b
IsSingle(s, a) == s \in Seq(LogEvents) /\ DOMAIN s = 1 .. 1 /\ s[1] = a

LEMMA EventFields ==
  ASSUME NEW type \in EventTypes, NEW c \in Nat, NEW p \in Nat
  PROVE  /\ Ev(type, c, p) \in LogEvents
         /\ Ev(type, c, p).type = type /\ Ev(type, c, p).case = c /\ Ev(type, c, p).proposal = p
  BY DEF Ev, LogEvents

LEMMA NamedEvents ==
  /\ "run_started" \in EventTypes /\ "run_failed" \in EventTypes
  /\ "run_succeeded" \in EventTypes /\ "gate_retry_later" \in EventTypes
  /\ "case_closed" \in EventTypes /\ "proposal_created" \in EventTypes
  /\ "action_failed_retryable" \in EventTypes /\ "triage_failed" \in EventTypes
  /\ "case_created" \in EventTypes /\ "proposal_settled" \in EventTypes
  BY DEF EventTypes

LEMMA SingleEvent ==
  ASSUME NEW a \in LogEvents
  PROVE  IsSingle(<<a>>, a)
  BY DEF IsSingle

LEMMA PairOfEvents ==
  ASSUME NEW a \in LogEvents, NEW b \in LogEvents
  PROVE  /\ IsPair(<<a, b>>, a, b)
         /\ IsPair(Append(<<a>>, b), a, b)
<1> DEFINE s == <<a>>
<1>1. s \in Seq(LogEvents) /\ Len(s) = 1 /\ s[1] = a
  OBVIOUS
<1> HIDE DEF s
<1> DEFINE t == Append(s, b)
<1>4. /\ t \in Seq(LogEvents) /\ Len(t) = Len(s) + 1 /\ t[Len(s) + 1] = b
      /\ \A i \in 1 .. Len(s) : t[i] = s[i]
  <2>1. t \in Seq(LogEvents)
    BY ONLY <1>1, b \in LogEvents, AppendProperties
  <2>2. Len(t) = Len(s) + 1
    BY ONLY <1>1, b \in LogEvents, AppendProperties
  <2>3. t[Len(s) + 1] = b
    BY ONLY <1>1, b \in LogEvents, AppendProperties
  <2>4. \A i \in 1 .. Len(s) : t[i] = s[i]
    BY ONLY <1>1, b \in LogEvents, AppendProperties
  <2> QED BY ONLY <2>1, <2>2, <2>3, <2>4
<1> HIDE DEF t
<1>5. DOMAIN t = 1 .. Len(t)
  BY <1>4
<1>6. IsPair(t, a, b)
  BY <1>1, <1>4, <1>5 DEF IsPair
<1>2. IsPair(Append(s, b), a, b)
  BY <1>6 DEF t
<1>3. IsPair(<<a, b>>, a, b)
  BY DEF IsPair
<1> QED BY <1>2, <1>3 DEF s

(* The fields of an outcome, whatever the request is answered. *)
IsOutcome(srv, out, st, events) ==
    /\ out \in Served /\ out.log = srv.log \o events /\ out.state = st
    /\ out.case = srv.case /\ out.proposal = srv.proposal /\ out.resumable = srv.resumable

LEMMA OutcomeFields ==
  ASSUME NEW srv \in Served, NEW events \in Seq(LogEvents), NEW st \in States
  PROVE  /\ IsOutcome(srv, Outcome(srv, events, TRUE), srv.state, events)
         /\ IsOutcome(srv, Outcome(srv, events, FALSE), srv.state, events)
         /\ IsOutcome(srv, Moved(srv, st, events, TRUE), st, events)
         /\ IsOutcome(srv, Moved(srv, st, events, FALSE), st, events)
         /\ Outcome(srv, events, FALSE).ok = FALSE /\ Moved(srv, st, events, FALSE).ok = FALSE
<1>1. srv.log \o events \in Seq(LogEvents)
  BY LogGrows DEF Served
<1> DEFINE log == srv.log \o events
<1> HIDE DEF log
<1>2. /\ [srv EXCEPT !.log = log, !.ok = TRUE] \in Served
      /\ [srv EXCEPT !.log = log, !.ok = FALSE] \in Served
      /\ [srv EXCEPT !.log = log, !.ok = TRUE, !.state = st] \in Served
      /\ [srv EXCEPT !.log = log, !.ok = FALSE, !.state = st] \in Served
  BY <1>1 DEF Served, States, log
<1>3. /\ Outcome(srv, events, TRUE) = [srv EXCEPT !.log = log, !.ok = TRUE]
      /\ Outcome(srv, events, FALSE) = [srv EXCEPT !.log = log, !.ok = FALSE]
      /\ Moved(srv, st, events, TRUE) = [srv EXCEPT !.log = log, !.ok = TRUE, !.state = st]
      /\ Moved(srv, st, events, FALSE) = [srv EXCEPT !.log = log, !.ok = FALSE, !.state = st]
  BY DEF Outcome, Moved, Served, log
<1>4. IsOutcome(srv, Outcome(srv, events, TRUE), srv.state, events)
  BY <1>2, <1>3 DEF Served, IsOutcome, log
<1>5. /\ IsOutcome(srv, Outcome(srv, events, FALSE), srv.state, events)
      /\ Outcome(srv, events, FALSE).ok = FALSE
  BY <1>2, <1>3 DEF Served, IsOutcome, log
<1>6. IsOutcome(srv, Moved(srv, st, events, TRUE), st, events)
  BY <1>2, <1>3 DEF Served, IsOutcome, log
<1>7. /\ IsOutcome(srv, Moved(srv, st, events, FALSE), st, events)
      /\ Moved(srv, st, events, FALSE).ok = FALSE
  BY <1>2, <1>3 DEF Served, IsOutcome, log
<1> QED BY <1>4, <1>5, <1>6, <1>7

IsTriple(s, a, b, c) ==
    s \in Seq(LogEvents) /\ DOMAIN s = 1 .. 3 /\ s[1] = a /\ s[2] = b /\ s[3] = c

LEMMA TripleOfEvents ==
  ASSUME NEW a \in LogEvents, NEW b \in LogEvents, NEW c \in LogEvents
  PROVE  IsTriple(<<a, b, c>>, a, b, c)
  BY DEF IsTriple

(* What the work of a Run appends for the Case it is about. *)
AppendedBy(base, out, tail) ==
    /\ out \in Served /\ out.case = base.case /\ base.proposal <= out.proposal
    /\ tail \in Seq(LogEvents)
    /\ \A n \in DOMAIN tail :
         /\ tail[n].type \notin {"run_started", "case_created"}
         /\ tail[n].case = base.case
         /\ tail[n].type \in HangTypes =>
              \/ out.state = "retry"
              \/ \E m \in DOMAIN tail : tail[m].type = "case_closed"
         /\ tail[n].type = "proposal_created" =>
              /\ out.state = "confirm" /\ tail[n].proposal = out.proposal
              /\ out.proposal = base.proposal + 1
    /\ \E n \in DOMAIN tail : tail[n].type \in EndTypes
    /\ out.state = "confirm" => \E n \in DOMAIN tail : CreatedAt(tail, n, out.proposal)

LEMMA InvestigatedAppends ==
  ASSUME NEW base \in Served, NEW events \in Seq(LogEvents), NEW out \in Investigated(base, events)
  PROVE  \E tail : out.log = base.log \o (events \o tail) /\ AppendedBy(base, out, tail)
<1> DEFINE c == base.case
           failed == Ev("run_failed", c, 0)
           succeeded == Ev("run_succeeded", c, 0)
           later == Ev("gate_retry_later", c, 0)
           closed == Ev("case_closed", c, 0)
           next == base.proposal + 1
           created == Ev("proposal_created", c, next)
           proposing == [base EXCEPT !.proposal = next, !.late = FALSE]
<1>1. c \in Nat /\ base.proposal \in Nat /\ next \in Nat
  BY DEF Served
<1>a. proposing = [base EXCEPT !.proposal = base.proposal + 1, !.late = FALSE]
  OBVIOUS
<1> HIDE DEF next
<1>2. /\ failed \in LogEvents /\ failed.type = "run_failed" /\ failed.case = c
      /\ succeeded \in LogEvents /\ succeeded.type = "run_succeeded" /\ succeeded.case = c
      /\ later \in LogEvents /\ later.type = "gate_retry_later" /\ later.case = c
      /\ closed \in LogEvents /\ closed.type = "case_closed" /\ closed.case = c
      /\ created \in LogEvents /\ created.type = "proposal_created" /\ created.case = c
      /\ created.proposal = next
  <2> HIDE DEF c
  <2>1. failed \in LogEvents /\ failed.type = "run_failed" /\ failed.case = c
    BY ONLY <1>1, 0 \in Nat, NamedEvents, EventFields
  <2>2. succeeded \in LogEvents /\ succeeded.type = "run_succeeded" /\ succeeded.case = c
    BY ONLY <1>1, 0 \in Nat, NamedEvents, EventFields
  <2>3. later \in LogEvents /\ later.type = "gate_retry_later" /\ later.case = c
    BY ONLY <1>1, 0 \in Nat, NamedEvents, EventFields
  <2>4. closed \in LogEvents /\ closed.type = "case_closed" /\ closed.case = c
    BY ONLY <1>1, 0 \in Nat, NamedEvents, EventFields
  <2>5. /\ created \in LogEvents /\ created.type = "proposal_created" /\ created.case = c
        /\ created.proposal = next
    BY ONLY <1>1, 0 \in Nat, NamedEvents, EventFields
  <2> HIDE DEF failed, succeeded, later, closed, created
  <2> QED BY ONLY <2>1, <2>2, <2>3, <2>4, <2>5
<1>3. /\ proposing \in Served /\ proposing.log = base.log /\ proposing.case = c
      /\ proposing.proposal = next
  BY <1>1 DEF Served
<1>4. \A e \in LogEvents : Append(events, e) = events \o <<e>>
  BY AppendIsConcat
<1>5. \/ out = Moved(base, "retry", events \o <<failed>>, FALSE)
      \/ out = Moved(base, "input", events \o <<succeeded>>, TRUE)
      \/ out = Moved(base, "retry", events \o <<later, succeeded>>, TRUE)
      \/ out = Moved(base, "free", events \o <<succeeded, closed>>, TRUE)
      \/ out = Moved(base, "free", events \o <<later, succeeded, closed>>, TRUE)
      \/ out = Moved(proposing, "confirm", events \o <<created, succeeded>>, TRUE)
  BY <1>2, <1>4, <1>a DEF Investigated, next
<1> HIDE DEF c, failed, succeeded, later, closed, created, proposing
<1>6. ASSUME NEW e \in LogEvents, NEW st \in States, e.case = c,
             \/ out = Moved(base, st, events \o <<e>>, TRUE)
             \/ out = Moved(base, st, events \o <<e>>, FALSE), e.type \in {"run_failed", "run_succeeded"},
             st # "confirm"
      PROVE  \E tail : out.log = base.log \o (events \o tail) /\ AppendedBy(base, out, tail)
  <2> DEFINE tail == <<e>>
  <2>1. IsSingle(tail, e)
    BY SingleEvent
  <2> HIDE DEF tail
  <2>2. events \o tail \in Seq(LogEvents)
    BY <2>1, LogGrows DEF IsSingle
  <2>3. IsOutcome(base, out, st, events \o tail)
    BY <1>6, <2>2, OutcomeFields DEF tail
  <2>4. /\ out \in Served /\ out.log = base.log \o (events \o tail) /\ out.case = c
        /\ out.proposal = base.proposal /\ out.state = st
    BY <2>3 DEF IsOutcome, c
  <2>5. AppendedBy(base, out, tail)
    BY <1>1, <1>6, <2>1, <2>3, <2>4 DEF AppendedBy, IsSingle, HangTypes, EndTypes, c
  <2> QED BY <2>4, <2>5
<1>7. ASSUME NEW a \in LogEvents, NEW b \in LogEvents, NEW from \in Served,
             NEW st \in States, a.case = c, b.case = c,
             out = Moved(from, st, events \o <<a, b>>, TRUE),
             from.log = base.log, from.case = c,
             \/ /\ from = base /\ st = "retry" /\ a.type = "gate_retry_later"
                /\ b.type = "run_succeeded"
             \/ from = base /\ st = "free" /\ a.type = "run_succeeded" /\ b.type = "case_closed"
             \/ /\ from.proposal = base.proposal + 1 /\ st = "confirm"
                /\ a.type = "proposal_created" /\ a.proposal = from.proposal
                /\ b.type = "run_succeeded"
      PROVE  \E tail : out.log = base.log \o (events \o tail) /\ AppendedBy(base, out, tail)
  <2> DEFINE tail == <<a, b>>
  <2>1. IsPair(tail, a, b)
    BY PairOfEvents
  <2> HIDE DEF tail
  <2>2. events \o tail \in Seq(LogEvents)
    BY <2>1, LogGrows DEF IsPair
  <2>3. IsOutcome(from, out, st, events \o tail)
    BY <1>7, <2>2, OutcomeFields DEF tail
  <2>4. /\ out \in Served /\ out.log = base.log \o (events \o tail) /\ out.case = c
        /\ out.proposal = from.proposal /\ out.state = st
    BY <1>7, <2>3 DEF IsOutcome
  <2>0. /\ a.case = c /\ b.case = c
        /\ \/ /\ from.proposal = base.proposal /\ st = "retry"
              /\ a.type = "gate_retry_later" /\ b.type = "run_succeeded"
           \/ /\ from.proposal = base.proposal /\ st = "free"
              /\ a.type = "run_succeeded" /\ b.type = "case_closed"
           \/ /\ from.proposal = base.proposal + 1 /\ st = "confirm"
              /\ a.type = "proposal_created" /\ a.proposal = from.proposal
              /\ b.type = "run_succeeded"
    BY <1>7
  <2>5. base.proposal <= out.proposal /\ out.case = base.case
    BY <1>1, <2>0, <2>4 DEF c
  <2>6. AppendedBy(base, out, tail)
    BY <1>1, <2>0, <2>1, <2>4, <2>5
       DEF AppendedBy, IsPair, HangTypes, EndTypes, CreatedAt, c
  <2> QED BY <2>4, <2>6
<1>8. ASSUME out = Moved(base, "free", events \o <<later, succeeded, closed>>, TRUE)
      PROVE  \E tail : out.log = base.log \o (events \o tail) /\ AppendedBy(base, out, tail)
  <2> DEFINE tail == <<later, succeeded, closed>>
  <2>1. IsTriple(tail, later, succeeded, closed)
    BY <1>2, TripleOfEvents
  <2> HIDE DEF tail
  <2>2. events \o tail \in Seq(LogEvents)
    BY <2>1, LogGrows DEF IsTriple
  <2>3. IsOutcome(base, out, "free", events \o tail)
    BY <1>8, <2>2, OutcomeFields DEF tail, States
  <2>4. /\ out \in Served /\ out.log = base.log \o (events \o tail) /\ out.case = c
        /\ out.proposal = base.proposal /\ out.state = "free"
    BY <2>3 DEF IsOutcome, c
  <2>5. AppendedBy(base, out, tail)
    BY <1>1, <1>2, <2>1, <2>3, <2>4 DEF AppendedBy, IsTriple, HangTypes, EndTypes, c
  <2> QED BY <2>4, <2>5
<1>9. base.log = base.log /\ base.case = c
  BY DEF c
<1> QED BY <1>2, <1>3, <1>5, <1>6, <1>7, <1>8, <1>9 DEF States, next

(* An execution leaves a retry that resumes it, or a closed Case. *)
LEMMA ExecutedAppends ==
  ASSUME NEW base \in Served, NEW events \in Seq(LogEvents), NEW out \in Executed(base, events)
  PROVE  \E tail :
           /\ out.log = base.log \o (events \o tail) /\ AppendedBy(base, out, tail)
           /\ out.proposal = base.proposal
           /\ \/ out.state = "retry" /\ out.resumable = TRUE
              \/ out.state = "free" /\ NoOffer(tail)
<1> DEFINE c == base.case
           succeeded == Ev("run_succeeded", c, 0)
           later == Ev("action_failed_retryable", c, 0)
           closed == Ev("case_closed", c, 0)
           resuming == [base EXCEPT !.resumable = TRUE]
           ended == [base EXCEPT !.resumable = FALSE]
<1>1. c \in Nat /\ base.proposal \in Nat
  BY DEF Served
<1>2. /\ succeeded \in LogEvents /\ succeeded.type = "run_succeeded" /\ succeeded.case = c
      /\ later \in LogEvents /\ later.type = "action_failed_retryable" /\ later.case = c
      /\ closed \in LogEvents /\ closed.type = "case_closed" /\ closed.case = c
  BY <1>1, EventFields DEF EventTypes
<1>3. /\ resuming \in Served /\ resuming.log = base.log /\ resuming.case = c
      /\ resuming.proposal = base.proposal /\ resuming.resumable = TRUE
      /\ ended \in Served /\ ended.log = base.log /\ ended.case = c
      /\ ended.proposal = base.proposal
  BY <1>1 DEF Served
<1>4. \/ out = Moved(resuming, "retry", events \o <<later, succeeded>>, TRUE)
      \/ out = Moved(ended, "free", events \o <<succeeded, closed>>, TRUE)
  BY DEF Executed
<1> HIDE DEF c, succeeded, later, closed, resuming, ended
<1>5. ASSUME NEW a \in LogEvents, NEW b \in LogEvents, NEW from \in Served,
             NEW st \in States, a.case = c, b.case = c,
             out = Moved(from, st, events \o <<a, b>>, TRUE),
             from.log = base.log, from.case = c, from.proposal = base.proposal,
             \/ /\ st = "retry" /\ from.resumable = TRUE
                /\ a.type = "action_failed_retryable" /\ b.type = "run_succeeded"
             \/ st = "free" /\ a.type = "run_succeeded" /\ b.type = "case_closed"
      PROVE  \E tail :
               /\ out.log = base.log \o (events \o tail) /\ AppendedBy(base, out, tail)
               /\ out.proposal = base.proposal
               /\ \/ out.state = "retry" /\ out.resumable = TRUE
                  \/ out.state = "free" /\ NoOffer(tail)
  <2> DEFINE tail == <<a, b>>
  <2>1. IsPair(tail, a, b)
    BY PairOfEvents
  <2> HIDE DEF tail
  <2>2. events \o tail \in Seq(LogEvents)
    BY <2>1, LogGrows DEF IsPair
  <2>3. IsOutcome(from, out, st, events \o tail)
    BY <1>5, <2>2, OutcomeFields DEF tail
  <2>4. /\ out \in Served /\ out.log = base.log \o (events \o tail) /\ out.case = c
        /\ out.proposal = base.proposal /\ out.state = st
    BY <1>5, <2>3 DEF IsOutcome
  <2>8. out.resumable = from.resumable
    BY <2>3 DEF IsOutcome
  <2>0. /\ a.case = c /\ b.case = c
        /\ \/ /\ st = "retry" /\ a.type = "action_failed_retryable"
              /\ b.type = "run_succeeded"
           \/ st = "free" /\ a.type = "run_succeeded" /\ b.type = "case_closed"
    BY <1>5
  <2>5. base.proposal <= out.proposal /\ out.case = base.case
    BY <1>1, <2>4 DEF c
  <2>6. AppendedBy(base, out, tail)
    BY <1>1, <2>0, <2>1, <2>4, <2>5
       DEF AppendedBy, IsPair, HangTypes, EndTypes, CreatedAt, c
  <2>7. st = "free" => NoOffer(tail)
    BY <1>5, <2>1 DEF NoOffer, HangTypes, IsPair
  <2> QED BY <1>5, <2>4, <2>6, <2>7, <2>8
<1> QED BY <1>2, <1>3, <1>4, <1>5 DEF States

LEMMA TailOfWork ==
  ASSUME NEW srv \in Served, NEW base \in Served, NEW out, NEW tail, AppendedBy(base, out, tail),
         base.proposal = srv.proposal, srv.state = "confirm" => out.state # "confirm"
  PROVE  TailOf(srv, out, tail)
<1>1. out.case \in Nat /\ out.case = base.case
  BY DEF AppendedBy, Served
<1>2. ASSUME NEW n \in DOMAIN tail
      PROVE  /\ tail[n].type \notin {"run_started", "case_created"}
             /\ KnownCase(srv, out, tail[n].case)
             /\ tail[n].type \in HangTypes =>
                  /\ tail[n].case = out.case
                  /\ \/ out.state = "retry"
                     \/ \E m \in DOMAIN tail :
                          tail[m].type = "case_closed" /\ tail[m].case = out.case
             /\ tail[n].type = "proposal_created" =>
                  /\ srv.state # "confirm" /\ out.state = "confirm"
                  /\ tail[n].case = out.case /\ tail[n].proposal = out.proposal
                  /\ out.proposal = srv.proposal + 1
  BY <1>1, <1>2 DEF AppendedBy, KnownCase
<1> QED BY <1>2 DEF AppendedBy, TailOf

(* Nothing happens. *)
LEMMA SilentStep ==
  ASSUME NEW srv \in Served
  PROVE  StepOf(srv, Outcome(srv, << >>, FALSE), << >>)
<1> DEFINE out == Outcome(srv, << >>, FALSE)
           new == << >>
<1>1. new \in Seq(LogEvents) /\ DOMAIN new = {} /\ new = << >>
  OBVIOUS
<1> HIDE DEF new
<1>a. srv.state \in States /\ srv.case \in Nat /\ srv.proposal \in Nat
  BY DEF Served, States
<1>2. IsOutcome(srv, out, srv.state, new) /\ out.ok = FALSE
  BY <1>1, <1>a, OutcomeFields
<1> HIDE DEF out
<1>3. /\ out \in Served /\ out.log = srv.log \o new /\ out.state = srv.state
      /\ out.case = srv.case /\ out.proposal = srv.proposal
  BY <1>2 DEF IsOutcome
<1>4. srv.resumable => out.resumable
  BY <1>2 DEF IsOutcome
<1>5. NoOffer(new) /\ \A n \in DOMAIN new : FALSE
  BY <1>1 DEF NoOffer
<1>6. ~out.ok
  BY <1>2
<1>7. StepOf(srv, out, new)
  BY <1>1, <1>3, <1>4, <1>5, <1>6, <1>a DEF StepOf, AwaitsRetry
<1> QED BY <1>7 DEF out, new

(* A Run that triage ends. *)
LEMMA TriageStep ==
  ASSUME NEW srv \in Served, NEW new, srv.state = "free",
         new = Append(<<Ev("run_started", 0, 0)>>, Ev("triage_failed", 0, 0))
  PROVE  StepOf(srv, Outcome(srv, new, FALSE), new)
<1> DEFINE out == Outcome(srv, new, FALSE)
           a == Ev("run_started", 0, 0)
           b == Ev("triage_failed", 0, 0)
<1>1. /\ a \in LogEvents /\ a.type = "run_started" /\ a.case = 0
      /\ b \in LogEvents /\ b.type = "triage_failed" /\ b.case = 0
  BY EventFields DEF EventTypes
<1> HIDE DEF a, b
<1>2. IsPair(new, a, b)
  BY <1>1, PairOfEvents DEF a, b
<1>a. srv.state \in States /\ srv.case \in Nat /\ srv.proposal \in Nat
  BY DEF Served, States
<1>3. IsOutcome(srv, out, srv.state, new) /\ out.ok = FALSE
  BY <1>2, <1>a, OutcomeFields DEF IsPair
<1> HIDE DEF out
<1>4. /\ out \in Served /\ out.log = srv.log \o new /\ out.state = srv.state
      /\ out.case = srv.case /\ out.proposal = srv.proposal
  BY <1>3 DEF IsOutcome
<1>5. \A n \in DOMAIN new :
        /\ new[n].type \in {"run_started", "triage_failed"} /\ new[n].case = 0
        /\ new[n].type = "run_started" => n = 1
  BY <1>1, <1>2 DEF IsPair
<1>6. NoOffer(new) /\ Len(new) = 2 /\ new[2].type = "triage_failed" /\ new \in Seq(LogEvents)
  BY <1>1, <1>2, <1>5 DEF NoOffer, HangTypes, IsPair
<1>7. ~out.ok
  BY <1>3
<1>8. StepOf(srv, out, new)
  BY <1>4, <1>5, <1>6, <1>7, <1>a DEF StepOf, HangTypes
<1> QED BY <1>8 DEF out

(* A Run that changes nothing else. *)
LEMMA ShortStep ==
  ASSUME NEW srv \in Served, NEW out, NEW c \in Nat, NEW type \in {"run_failed", "run_succeeded"},
         KnownCase(srv, srv, c),
         IsOutcome(srv, out, srv.state, Append(<<Ev("run_started", c, 0)>>, Ev(type, c, 0)))
  PROVE  \E new : StepOf(srv, out, new)
<1> DEFINE a == Ev("run_started", c, 0)
           b == Ev(type, c, 0)
           pre == <<a>>
           tail == <<b>>
<1>1. /\ a \in LogEvents /\ a.type = "run_started" /\ a.case = c
      /\ b \in LogEvents /\ b.type = type /\ b.case = c
  BY EventFields DEF EventTypes
<1> HIDE DEF a, b
<1>2. IsSingle(pre, a) /\ IsSingle(tail, b)
  BY <1>1, SingleEvent
<1>3. Append(pre, b) = pre \o tail
  BY <1>1, <1>2, AppendIsConcat DEF IsSingle
<1>a. srv.case \in Nat /\ srv.proposal \in Nat
  BY DEF Served
<1>4. /\ out \in Served /\ out.log = srv.log \o (pre \o tail) /\ out.state = srv.state
      /\ out.case = srv.case /\ out.proposal = srv.proposal
  BY <1>3 DEF IsOutcome, a, b
<1>5. srv.resumable => out.resumable
  BY DEF IsOutcome
<1> HIDE DEF pre, tail
<1>6. KnownCase(srv, out, c)
  BY <1>4 DEF KnownCase
<1>7. HeadOf(srv, out, pre)
  BY <1>1, <1>2, <1>6 DEF HeadOf, IsSingle
<1>8. TailOf(srv, out, tail) /\ NoOffer(tail)
  BY <1>1, <1>2, <1>6 DEF TailOf, IsSingle, HangTypes, EndTypes, NoOffer
<1>9. MovesOn(srv, out, pre, tail)
  BY <1>4, <1>5, <1>8, <1>a DEF MovesOn, AwaitsRetry
<1> QED BY <1>4, <1>7, <1>8, <1>9, StepOfParts

(* A Run that resumes the Case. *)
Resumes(srv, out, pre, tail) ==
    /\ srv.state \in {"input", "retry"}
    /\ IsSingle(pre, Ev("run_started", srv.case, 0))
    /\ out.log = srv.log \o (pre \o tail) /\ AppendedBy(srv, out, tail)
    /\ srv.state = "retry" /\ srv.resumable =>
         \/ out.state = "retry" /\ out.resumable
         \/ out.state = "free" /\ NoOffer(tail)

LEMMA ResumedStep ==
  ASSUME NEW srv \in Served, NEW out, NEW pre, NEW tail, Resumes(srv, out, pre, tail)
  PROVE  \E new : StepOf(srv, out, new)
<1> DEFINE a == Ev("run_started", srv.case, 0)
<1>a. srv.case \in Nat /\ srv.proposal \in Nat
  BY DEF Served
<1>1. a \in LogEvents /\ a.type = "run_started" /\ a.case = srv.case
  BY <1>a, EventFields DEF EventTypes
<1>2. IsSingle(pre, a) /\ AppendedBy(srv, out, tail) /\ srv.state \in {"input", "retry"}
  BY DEF Resumes
<1> HIDE DEF a
<1>3. /\ out \in Served /\ out.log = srv.log \o (pre \o tail) /\ out.case = srv.case
      /\ srv.proposal <= out.proposal
      /\ out.state = "confirm" => \E n \in DOMAIN tail : CreatedAt(tail, n, out.proposal)
  BY DEF AppendedBy, Resumes
<1>4. HeadOf(srv, out, pre)
  BY <1>1, <1>2, <1>3, <1>a DEF HeadOf, IsSingle, KnownCase
<1>5. TailOf(srv, out, tail)
  BY <1>2, TailOfWork
<1>6. MovesOn(srv, out, pre, tail)
  BY <1>1, <1>2, <1>3, <1>a DEF MovesOn, IsSingle, Resumes
<1> QED BY <1>3, <1>4, <1>5, <1>6, StepOfParts

(* A message that opens a Case. *)
LEMMA OpenedStep ==
  ASSUME NEW srv \in Served, NEW base \in Served, NEW out, NEW tail, srv.state = "free",
         base.proposal = srv.proposal, base.case > srv.case,
         out.log = srv.log \o (Append(<<Ev("run_started", 0, 0)>>, Ev("case_created", base.case, 0)) \o tail),
         AppendedBy(base, out, tail)
  PROVE  \E new : StepOf(srv, out, new)
<1> DEFINE a == Ev("run_started", 0, 0)
           b == Ev("case_created", base.case, 0)
           pre == Append(<<a>>, b)
<1>a. srv.case \in Nat /\ srv.proposal \in Nat /\ base.case \in Nat
  BY DEF Served
<1>1. /\ a \in LogEvents /\ a.type = "run_started" /\ a.case = 0
      /\ b \in LogEvents /\ b.type = "case_created" /\ b.case = base.case
  BY ONLY <1>a, 0 \in Nat, NamedEvents, EventFields
<1> HIDE DEF a, b
<1>2. IsPair(pre, a, b)
  BY <1>1, PairOfEvents
<1>3. /\ out \in Served /\ out.log = srv.log \o (pre \o tail) /\ out.case = base.case
      /\ srv.proposal <= out.proposal
      /\ out.state = "confirm" => \E n \in DOMAIN tail : CreatedAt(tail, n, out.proposal)
  BY DEF AppendedBy, a, b
<1> HIDE DEF pre
<1>4. HeadOf(srv, out, pre)
  BY <1>1, <1>2, <1>3, <1>a DEF HeadOf, IsPair, KnownCase
<1>5. TailOf(srv, out, tail)
  BY TailOfWork
<1>6. MovesOn(srv, out, pre, tail)
  BY <1>3, <1>a DEF MovesOn
<1> QED BY <1>3, <1>4, <1>5, <1>6, StepOfParts

(* A decision that settles its Proposal. *)
Decides(srv, out, new) ==
    /\ out.case = srv.case
    /\ 1 \in DOMAIN new /\ new[1].type = "run_started" /\ new[1].case = srv.case
    /\ \E n \in DOMAIN new : new[n].type \in SettleTypes

LEMMA SettledStep ==
  ASSUME NEW srv \in Served, NEW out, NEW tail, srv.state = "confirm", out.state # "confirm",
         out.log = srv.log \o (Append(<<Ev("run_started", srv.case, 0)>>,
                                      Ev("proposal_settled", srv.case, srv.proposal)) \o tail),
         AppendedBy(srv, out, tail)
  PROVE  \E new : /\ StepOf(srv, out, new) /\ Decides(srv, out, new)
                  /\ NoOffer(tail) => NoOffer(new)
<1> DEFINE a == Ev("run_started", srv.case, 0)
           b == Ev("proposal_settled", srv.case, srv.proposal)
           pre == Append(<<a>>, b)
<1>a. srv.case \in Nat /\ srv.proposal \in Nat
  BY DEF Served
<1>1. /\ a \in LogEvents /\ a.type = "run_started" /\ a.case = srv.case
      /\ b \in LogEvents /\ b.type = "proposal_settled" /\ b.case = srv.case
      /\ b.proposal = srv.proposal
  BY <1>a, EventFields DEF EventTypes
<1> HIDE DEF a, b
<1>2. IsPair(pre, a, b)
  BY <1>1, PairOfEvents
<1>3. /\ out \in Served /\ out.log = srv.log \o (pre \o tail) /\ out.case = srv.case
      /\ srv.proposal <= out.proposal /\ tail \in Seq(LogEvents)
  BY DEF AppendedBy, a, b
<1> HIDE DEF pre
<1>4. HeadOf(srv, out, pre)
  BY <1>1, <1>2, <1>3, <1>a DEF HeadOf, IsPair, KnownCase
<1>5. TailOf(srv, out, tail)
  BY TailOfWork
<1>b. Settled(pre, srv.proposal)
  BY <1>1, <1>2 DEF Settled, IsPair
<1>6. MovesOn(srv, out, pre, tail)
  BY <1>3, <1>a, <1>b DEF MovesOn
<1>7. StepOf(srv, out, pre \o tail)
  BY <1>3, <1>4, <1>5, <1>6, StepOfParts
<1>8. NoOffer(tail) => NoOffer(pre \o tail)
  BY <1>3, <1>4, NoOfferOfParts
<1> DEFINE new == pre \o tail
<1>9. LogIsExtended(pre, tail, new)
  BY <1>2, <1>3, LogGrows DEF IsPair
<1> HIDE DEF new
<1>10. 1 \in DOMAIN new /\ new[1] = a /\ 2 \in DOMAIN new /\ new[2] = b
  BY <1>2, <1>9 DEF LogIsExtended, IsPair
<1>11. Decides(srv, out, new)
  BY <1>1, <1>3, <1>10 DEF Decides, SettleTypes
<1> QED BY <1>7, <1>8, <1>11 DEF new

LEMMA MessagedIsStep ==
  ASSUME NEW srv \in Served, NEW newCase \in Nat, newCase > srv.case, NEW out \in Messaged(srv, newCase)
  PROVE  (\E new : StepOf(srv, out, new)) /\ out.case \in {srv.case, newCase}
<1> DEFINE entry == <<Ev("run_started", 0, 0)>>
           resumed == <<Ev("run_started", srv.case, 0)>>
           opened == [srv EXCEPT !.case = newCase, !.resumable = FALSE]
           created == Ev("case_created", newCase, 0)
<1>a. srv.state \in States /\ srv.case \in Nat /\ srv.proposal \in Nat
  BY DEF Served, States
<1>1. /\ opened \in Served /\ opened.log = srv.log /\ opened.case = newCase
      /\ opened.proposal = srv.proposal
  BY DEF Served
<1>2. /\ Ev("run_started", 0, 0) \in LogEvents /\ Ev("run_started", srv.case, 0) \in LogEvents
      /\ created \in LogEvents /\ Ev("triage_failed", 0, 0) \in LogEvents
      /\ Ev("run_succeeded", 0, 0) \in LogEvents /\ Ev("run_failed", srv.case, 0) \in LogEvents
  BY <1>a, EventFields DEF EventTypes
<1>3. entry \in Seq(LogEvents) /\ resumed \in Seq(LogEvents)
  BY <1>2
<1>4. /\ Append(entry, created) \in Seq(LogEvents)
      /\ Append(entry, Ev("triage_failed", 0, 0)) \in Seq(LogEvents)
      /\ Append(entry, Ev("run_succeeded", 0, 0)) \in Seq(LogEvents)
      /\ Append(resumed, Ev("run_failed", srv.case, 0)) \in Seq(LogEvents)
  BY <1>2, <1>3, AppendProperties
<1>5. /\ srv.state = "free" =>
            \/ out = Outcome(srv, << >>, FALSE)
            \/ out = Outcome(srv, Append(entry, Ev("triage_failed", 0, 0)), FALSE)
            \/ out = Outcome(srv, Append(entry, Ev("run_succeeded", 0, 0)), TRUE)
            \/ out \in Investigated(opened, Append(entry, created))
      /\ srv.state = "input" =>
            \/ out = Outcome(srv, Append(resumed, Ev("run_failed", srv.case, 0)), FALSE)
            \/ out \in Investigated(srv, resumed)
      /\ srv.state \notin {"free", "input"} => out = Outcome(srv, << >>, FALSE)
  BY <1>1 DEF Messaged
<1> HIDE DEF opened, created
<1>6. CASE out = Outcome(srv, << >>, FALSE)
  <2>1. << >> \in Seq(LogEvents)
    OBVIOUS
  <2>2. IsOutcome(srv, out, srv.state, << >>)
    BY <1>6, <1>a, <2>1, OutcomeFields
  <2> QED BY <1>6, <2>2, SilentStep DEF IsOutcome
<1>7. CASE srv.state = "free" /\ out = Outcome(srv, Append(entry, Ev("triage_failed", 0, 0)), FALSE)
  <2>1. IsOutcome(srv, out, srv.state, Append(entry, Ev("triage_failed", 0, 0)))
    BY <1>4, <1>7, <1>a, OutcomeFields
  <2>2. out.case = srv.case
    BY <2>1 DEF IsOutcome
  <2>3. StepOf(srv, out, Append(entry, Ev("triage_failed", 0, 0)))
    BY <1>7, TriageStep
  <2> QED BY <2>2, <2>3
<1>8. CASE srv.state = "free" /\ out = Outcome(srv, Append(entry, Ev("run_succeeded", 0, 0)), TRUE)
  <2>1. IsOutcome(srv, out, srv.state, Append(entry, Ev("run_succeeded", 0, 0)))
    BY <1>4, <1>8, <1>a, OutcomeFields
  <2>2. KnownCase(srv, srv, 0)
    BY <1>a DEF KnownCase
  <2>3. \E new : StepOf(srv, out, new)
    BY <2>1, <2>2, ShortStep
  <2>4. out.case = srv.case
    BY <2>1 DEF IsOutcome
  <2> QED BY <2>3, <2>4
<1>9. CASE srv.state = "free" /\ out \in Investigated(opened, Append(entry, created))
  <2>1. PICK tail : /\ out.log = opened.log \o (Append(entry, created) \o tail)
                    /\ AppendedBy(opened, out, tail)
    BY <1>1, <1>4, <1>9, InvestigatedAppends
  <2>2. out.case = newCase
    BY <1>1, <2>1 DEF AppendedBy
  <2>3. \E new : StepOf(srv, out, new)
    BY <1>1, <1>9, <2>1, OpenedStep DEF created
  <2> QED BY <2>2, <2>3
<1>10. CASE srv.state = "input" /\ out = Outcome(srv, Append(resumed, Ev("run_failed", srv.case, 0)), FALSE)
  <2>1. IsOutcome(srv, out, srv.state, Append(resumed, Ev("run_failed", srv.case, 0)))
    BY <1>4, <1>10, <1>a, OutcomeFields
  <2>2. KnownCase(srv, srv, srv.case)
    BY <1>a DEF KnownCase
  <2>3. \E new : StepOf(srv, out, new)
    BY <1>a, <2>1, <2>2, ShortStep
  <2>4. out.case = srv.case
    BY <2>1 DEF IsOutcome
  <2> QED BY <2>3, <2>4
<1>11. CASE srv.state = "input" /\ out \in Investigated(srv, resumed)
  <2>1. PICK tail : out.log = srv.log \o (resumed \o tail) /\ AppendedBy(srv, out, tail)
    BY <1>3, <1>11, InvestigatedAppends
  <2>2. out.case = srv.case
    BY <2>1 DEF AppendedBy
  <2>4. Ev("run_started", srv.case, 0) \in LogEvents
    BY <1>a, EventFields DEF EventTypes
  <2>5. IsSingle(resumed, Ev("run_started", srv.case, 0))
    BY <1>11, <2>4, SingleEvent
  <2> HIDE DEF resumed
  <2>6. Resumes(srv, out, resumed, tail)
    BY <1>11, <2>1, <2>5 DEF Resumes
  <2>3. \E new : StepOf(srv, out, new)
    BY ONLY srv \in Served, <2>6, ResumedStep
  <2> QED BY <2>2, <2>3
<1> QED BY <1>5, <1>6, <1>7, <1>8, <1>9, <1>10, <1>11

LEMMA RetriedIsStep ==
  ASSUME NEW srv \in Served, NEW c, NEW out \in Retried(srv, c)
  PROVE  (\E new : StepOf(srv, out, new)) /\ out.case = srv.case
<1> DEFINE started == <<Ev("run_started", c, 0)>>
<1>a. srv.state \in States /\ srv.case \in Nat /\ srv.proposal \in Nat /\ srv.resumable \in BOOLEAN
  BY DEF Served, States
<1>1. \/ out = Outcome(srv, << >>, FALSE)
      \/ srv.state = "retry" /\ srv.case = c /\ srv.resumable /\ out \in Executed(srv, started)
      \/ srv.state = "retry" /\ srv.case = c /\ ~srv.resumable /\ out \in Investigated(srv, started)
  BY DEF Retried
<1>2. CASE out = Outcome(srv, << >>, FALSE)
  <2>1. << >> \in Seq(LogEvents)
    OBVIOUS
  <2>2. IsOutcome(srv, out, srv.state, << >>)
    BY <1>2, <1>a, <2>1, OutcomeFields
  <2> QED BY <1>2, <2>2, SilentStep DEF IsOutcome
<1>3. ASSUME srv.case = c PROVE started \in Seq(LogEvents)
  <2>1. Ev("run_started", c, 0) \in LogEvents
    BY <1>3, <1>a, EventFields DEF EventTypes
  <2> QED BY <2>1
<1>4. CASE srv.state = "retry" /\ srv.case = c /\ out \in Executed(srv, started)
  <2>1. PICK tail :
           /\ out.log = srv.log \o (started \o tail) /\ AppendedBy(srv, out, tail)
           /\ \/ out.state = "retry" /\ out.resumable = TRUE
              \/ out.state = "free" /\ NoOffer(tail)
    BY <1>3, <1>4, ExecutedAppends
  <2>2. out.case = srv.case
    BY <2>1 DEF AppendedBy
  <2>4. Ev("run_started", srv.case, 0) \in LogEvents
    BY <1>a, EventFields DEF EventTypes
  <2>5. IsSingle(started, Ev("run_started", srv.case, 0))
    BY <1>4, <2>4, SingleEvent
  <2> HIDE DEF started
  <2>6. Resumes(srv, out, started, tail)
    BY <1>4, <2>1, <2>5 DEF Resumes
  <2>3. \E new : StepOf(srv, out, new)
    BY ONLY srv \in Served, <2>6, ResumedStep
  <2> QED BY <2>2, <2>3
<1>5. CASE srv.state = "retry" /\ srv.case = c /\ ~srv.resumable /\ out \in Investigated(srv, started)
  <2>1. PICK tail : out.log = srv.log \o (started \o tail) /\ AppendedBy(srv, out, tail)
    BY <1>3, <1>5, InvestigatedAppends
  <2>2. out.case = srv.case
    BY <2>1 DEF AppendedBy
  <2>4. Ev("run_started", srv.case, 0) \in LogEvents
    BY <1>a, EventFields DEF EventTypes
  <2>5. IsSingle(started, Ev("run_started", srv.case, 0))
    BY <1>5, <2>4, SingleEvent
  <2> HIDE DEF started
  <2>6. Resumes(srv, out, started, tail)
    BY <1>5, <2>1, <2>5 DEF Resumes
  <2>3. \E new : StepOf(srv, out, new)
    BY ONLY srv \in Served, <2>6, ResumedStep
  <2> QED BY <2>2, <2>3
<1> QED BY <1>1, <1>2, <1>4, <1>5

DecidedOk(srv, out, new) ==
    out.ok => /\ Decides(srv, out, new)
              /\ \/ out.state = "retry" /\ out.resumable
                 \/ out.state = "free" /\ NoOffer(new)

LEMMA DecidedIsStep ==
  ASSUME NEW srv \in Served, LogIsOfItsCases(srv), OpenProposalIsAwaited(srv),
         NEW p, \E j \in DOMAIN srv.log : CreatedAt(srv.log, j, p),
         NEW kind \in Deciding, NEW out \in Decided(srv, kind, p)
  PROVE  (\E new : StepOf(srv, out, new) /\ DecidedOk(srv, out, new)) /\ out.case = srv.case
<1> DEFINE IsCreated(e) == e.type = "proposal_created" /\ e.proposal = p
           created == CHOOSE e \in ToSet(srv.log) : IsCreated(e)
           c == created.case
           started == <<Ev("run_started", c, 0)>>
           settled == Append(started, Ev("proposal_settled", c, p))
           failed == Ev("run_failed", c, 0)
           succeeded == Ev("run_succeeded", srv.case, 0)
           closed == Ev("case_closed", srv.case, 0)
           active == srv.state = "confirm" /\ srv.proposal = p
<1>a. srv.state \in States /\ srv.case \in Nat /\ srv.proposal \in Nat /\ srv.log \in Seq(LogEvents)
  BY DEF Served, States
<1>1. PICK i \in DOMAIN srv.log : created = srv.log[i] /\ CreatedAt(srv.log, i, p)
  <2>1. ToSet(srv.log) = {srv.log[j] : j \in DOMAIN srv.log}
    BY DEF ToSet
  <2>2. \E e \in ToSet(srv.log) : IsCreated(e)
    BY <2>1 DEF CreatedAt
  <2> HIDE DEF IsCreated
  <2>3. created \in ToSet(srv.log) /\ IsCreated(created)
    BY <2>2
  <2> QED BY <2>1, <2>3 DEF CreatedAt, IsCreated
<1>2. c \in Nat /\ p \in Nat /\ KnownCase(srv, srv, c)
  <2>1. srv.log[i] \in LogEvents
    BY <1>1, <1>a
  <2>2. srv.log[i].case \in Nat /\ srv.log[i].proposal \in Nat
    BY <2>1 DEF LogEvents
  <2>3. srv.log[i].case <= srv.case
    BY <1>1 DEF LogIsOfItsCases
  <2> QED BY <1>1, <2>2, <2>3 DEF KnownCase, CreatedAt
<1>3. active => c = srv.case
  BY <1>1 DEF OpenProposalIsAwaited
<1>4. \/ out = Outcome(srv, Append(started, failed), FALSE)
      \/ active /\ out = Moved(srv, "retry", Append(settled, failed), FALSE)
      \/ active /\ out = Moved(srv, "free", settled \o <<succeeded, closed>>, TRUE)
      \/ active /\ out \in Executed(srv, settled)
  BY DEF Decided, Deciding
<1> HIDE DEF created, c, active, failed, succeeded, closed
<1>5. /\ Ev("run_started", c, 0) \in LogEvents /\ Ev("proposal_settled", c, p) \in LogEvents
      /\ failed \in LogEvents /\ failed.type = "run_failed" /\ failed.case = c
  BY ONLY <1>2, 0 \in Nat, NamedEvents, EventFields DEF failed
<1>b. /\ succeeded \in LogEvents /\ succeeded.type = "run_succeeded" /\ succeeded.case = srv.case
      /\ closed \in LogEvents /\ closed.type = "case_closed" /\ closed.case = srv.case
  <2>1. succeeded \in LogEvents /\ succeeded.type = "run_succeeded" /\ succeeded.case = srv.case
    BY ONLY <1>a, 0 \in Nat, NamedEvents, EventFields DEF succeeded
  <2>2. closed \in LogEvents /\ closed.type = "case_closed" /\ closed.case = srv.case
    BY ONLY <1>a, 0 \in Nat, NamedEvents, EventFields DEF closed
  <2> QED BY ONLY <2>1, <2>2
<1>6. started \in Seq(LogEvents)
  BY <1>5
<1>7. settled \in Seq(LogEvents) /\ Append(started, failed) \in Seq(LogEvents)
  BY <1>5, <1>6, AppendProperties
<1>8. Append(settled, failed) = settled \o <<failed>>
  BY <1>5, <1>7, AppendIsConcat
<1>9. active => settled = Append(<<Ev("run_started", srv.case, 0)>>,
                                 Ev("proposal_settled", srv.case, srv.proposal))
  BY <1>3 DEF active
<1> HIDE DEF settled
<1>10. CASE out = Outcome(srv, Append(started, failed), FALSE)
  <2>1. IsOutcome(srv, out, srv.state, Append(started, failed)) /\ out.ok = FALSE
    BY <1>7, <1>10, <1>a, OutcomeFields
  <2>2. \E new : StepOf(srv, out, new)
    BY <1>2, <2>1, ShortStep DEF failed
  <2>3. ~out.ok /\ out.case = srv.case
    BY <2>1 DEF IsOutcome
  <2> QED BY <2>2, <2>3 DEF DecidedOk
<1>11. CASE active /\ out = Moved(srv, "retry", Append(settled, failed), FALSE)
  <2> DEFINE tail == <<failed>>
  <2>1. IsSingle(tail, failed)
    BY <1>5, SingleEvent
  <2>2. settled \o tail \in Seq(LogEvents)
    BY <1>7, <2>1, LogGrows DEF IsSingle
  <2>3. IsOutcome(srv, out, "retry", settled \o tail) /\ out.ok = FALSE
    BY <1>8, <1>11, <2>2, OutcomeFields DEF States
  <2> HIDE DEF tail
  <2>4. /\ out \in Served /\ out.log = srv.log \o (settled \o tail) /\ out.state = "retry"
        /\ out.case = srv.case /\ out.proposal = srv.proposal
    BY <2>3 DEF IsOutcome
  <2>8. failed.case = srv.case
    BY <1>3, <1>5, <1>11
  <2>5. AppendedBy(srv, out, tail)
    BY <1>5, <1>a, <2>1, <2>4, <2>8 DEF AppendedBy, IsSingle, HangTypes, EndTypes
  <2>6. \E new : StepOf(srv, out, new)
    BY <1>9, <1>11, <2>4, <2>5, SettledStep DEF active
  <2>7. ~out.ok
    BY <2>3
  <2> QED BY <2>4, <2>6, <2>7 DEF DecidedOk
<1>12. CASE active /\ out = Moved(srv, "free", settled \o <<succeeded, closed>>, TRUE)
  <2> DEFINE tail == <<succeeded, closed>>
  <2>1. IsPair(tail, succeeded, closed)
    BY <1>b, PairOfEvents
  <2>2. settled \o tail \in Seq(LogEvents)
    BY <1>7, <2>1, LogGrows DEF IsPair
  <2>3. IsOutcome(srv, out, "free", settled \o tail)
    BY <1>12, <2>2, OutcomeFields DEF States
  <2> HIDE DEF tail
  <2>4. /\ out \in Served /\ out.log = srv.log \o (settled \o tail) /\ out.state = "free"
        /\ out.case = srv.case /\ out.proposal = srv.proposal
    BY <2>3 DEF IsOutcome
  <2>5. AppendedBy(srv, out, tail)
    BY <1>b, <1>a, <2>1, <2>4 DEF AppendedBy, IsPair, HangTypes, EndTypes
  <2>6. NoOffer(tail)
    BY <1>b, <2>1 DEF NoOffer, HangTypes, IsPair
  <2>7. \E new : StepOf(srv, out, new) /\ Decides(srv, out, new) /\ NoOffer(new)
    BY <1>9, <1>12, <2>4, <2>5, <2>6, SettledStep DEF active
  <2> QED BY <2>4, <2>7 DEF DecidedOk
<1>13. CASE active /\ out \in Executed(srv, settled)
  <2>1. PICK tail :
           /\ out.log = srv.log \o (settled \o tail) /\ AppendedBy(srv, out, tail)
           /\ \/ out.state = "retry" /\ out.resumable = TRUE
              \/ out.state = "free" /\ NoOffer(tail)
    BY <1>7, <1>13, ExecutedAppends
  <2>2. out.case = srv.case
    BY <2>1 DEF AppendedBy
  <2>3. \E new : /\ StepOf(srv, out, new) /\ Decides(srv, out, new)
                 /\ NoOffer(tail) => NoOffer(new)
    BY <1>9, <1>13, <2>1, SettledStep DEF active
  <2> QED BY <2>1, <2>2, <2>3 DEF DecidedOk
<1> QED BY <1>4, <1>10, <1>11, <1>12, <1>13

-----------------------------------------------------------------------------
(* The steps. *)

LEMMA Replaced ==
  ASSUME NEW S, NEW s \in Seq(S), NEW i \in DOMAIN s, NEW x \in S
  PROVE  LET t == [s EXCEPT ![i] = x]
         IN  /\ t \in Seq(S) /\ DOMAIN t = DOMAIN s /\ Len(t) = Len(s)
             /\ \A j \in DOMAIN s : t[j] = IF j = i THEN x ELSE s[j]
  OBVIOUS

LEMMA Added ==
  ASSUME NEW S, NEW s \in Seq(S), NEW x \in S
  PROVE  LET t == Append(s, x)
         IN  /\ t \in Seq(S) /\ Len(t) = Len(s) + 1 /\ Len(s) \in Nat
             /\ DOMAIN s = 1 .. Len(s) /\ DOMAIN t = 1 .. Len(s) + 1
             /\ \A j \in DOMAIN s : j \in DOMAIN t /\ t[j] = s[j]
             /\ t[Len(s) + 1] = x
             /\ \A j \in DOMAIN t : j \in DOMAIN s \/ j = Len(s) + 1
<1> DEFINE t == Append(s, x)
<1>1. /\ t \in Seq(S) /\ Len(t) = Len(s) + 1
      /\ \A j \in 1 .. Len(s) : t[j] = s[j]
      /\ t[Len(s) + 1] = x
  BY AppendProperties
<1>2. Len(s) \in Nat /\ DOMAIN s = 1 .. Len(s)
  OBVIOUS
<1> HIDE DEF t
<1>3. DOMAIN t = 1 .. Len(s) + 1
  BY <1>1, <1>2
<1> QED BY <1>1, <1>2, <1>3 DEF t

LEMMA FreshRequest ==
  ASSUME NEW kind \in Kinds, NEW g \in Nat, NEW c \in Nat, NEW subject \in Nat
  PROVE  Request(kind, g, c, subject) \in Asked
  BY DEF Request, Asked

LEMMA ForgottenRequest ==
  ASSUME NEW x \in Asked
  PROVE  LET y == [x EXCEPT !.awaited = FALSE]
         IN  /\ y \in Asked
             /\ y.kind = x.kind /\ y.subject = x.subject /\ y.generation = x.generation
             /\ y.conversation = x.conversation /\ y.case = x.case /\ y.phase = x.phase
             /\ y.ok <=> x.ok
  BY DEF Asked

(* NewCase is new to every conversation. *)
LEMMA NewCaseIsNew ==
  ASSUME service \in Seq(Served)
  PROVE  NewCase \in Nat /\ \A c \in DOMAIN service : service[c].case < NewCase
<1> DEFINE D == DOMAIN service
           K == {0} \cup {service[c].case : c \in D}
<1>1. IsFiniteSet(D) /\ \A c \in D : service[c].case \in Nat
  <2>1. D = 1 .. Len(service) /\ Len(service) \in Nat
    OBVIOUS
  <2>2. IsFiniteSet(1 .. Len(service))
    BY <2>1, FS_Interval
  <2>3. \A c \in D : service[c] \in Served
    OBVIOUS
  <2> QED BY <2>1, <2>2, <2>3 DEF Served
<1>2. \E m \in K : \A k \in K : m >= k
  <2>1. CASE D = {}
    BY <2>1
  <2>2. CASE D # {}
    <3> DEFINE Above(x) == {c \in D : service[c].case >= service[x].case}
               B == {Above(x) : x \in D}
    <3>1. B \subseteq SUBSET D /\ B # {}
      BY <2>2
    <3> HIDE DEF B, D
    <3>2. PICK T \in B : \A U \in B : U \subseteq T => U = T
      BY <1>1, <3>1, SmallestSet
    <3>3. PICK x \in D : T = Above(x)
      BY DEF B
    <3>4. ASSUME NEW y \in D PROVE service[x].case >= service[y].case
      <4>1. Above(y) \in B
        BY DEF B
      <4>2. ASSUME service[y].case > service[x].case PROVE FALSE
        <5>1. Above(y) \subseteq T
          BY <1>1, <3>3, <4>2
        <5>2. x \notin Above(y) /\ x \in T
          BY <1>1, <3>3, <4>2
        <5> QED BY <3>2, <4>1, <5>1, <5>2
      <4> QED BY <1>1, <4>2
    <3>5. service[x].case \in K /\ \A k \in K : service[x].case >= k
      BY <1>1, <3>4
    <3> QED BY <3>5
  <2> QED BY <2>1, <2>2
<1> HIDE DEF K
<1>3. Max(K) \in K /\ \A k \in K : Max(K) >= k
  BY <1>2 DEF Max
<1>4. Max(K) \in Nat
  BY <1>1, <1>3 DEF K
<1>5. NewCase = 1 + Max(K)
  BY DEF NewCase, K
<1>6. \A c \in D : service[c].case \in K
  BY DEF K
<1> HIDE DEF D
<1>7. \A c \in D : service[c].case < NewCase
  BY <1>1, <1>3, <1>4, <1>5, <1>6
<1> QED BY <1>4, <1>5, <1>7 DEF D

(* What Serve does to one request and one conversation. *)
Answering(i, c, out, new) ==
    /\ requests[i].phase = "sent" /\ requests[i].kind \notin Opening
    /\ c = requests[i].conversation /\ c \in DOMAIN service
    /\ StepOf(service[c], out, new)
    /\ requests[i].kind \in Deciding => DecidedOk(service[c], out, new)
    /\ out.case # service[c].case => \A x \in DOMAIN service : service[x].case < out.case
    /\ service' = [service EXCEPT ![c] = out]
    /\ requests' = [requests EXCEPT ![i] =
                      [requests[i] EXCEPT !.phase = "answered", !.ok = out.ok, !.case = out.case]]
    /\ UNCHANGED <<page, persisted>>

LEMMA ServeIsAnswering ==
  ASSUME RestType, ServiceInv, RequestsAreKnown, NEW i \in DOMAIN requests, Serve(i)
  PROVE  \E c, out, new : Answering(i, c, out, new)
<1> DEFINE c == requests[i].conversation
           srv == service[c]
           r == requests[i]
<1>1. r \in Asked /\ requests \in Seq(Asked) /\ service \in Seq(Served)
  BY DEF RestType
<1>2. r.kind \in Kinds \ Opening /\ r.conversation \in Nat
  BY <1>1 DEF Serve, Asked, Opening
<1>3. c \in DOMAIN service
  <2>1. r.conversation <= Len(service) /\ r.conversation # 0
    BY <1>2 DEF RequestsAreKnown, Opening
  <2> QED BY <1>1, <1>2, <2>1
<1>4. srv \in Served /\ ConversationInv(srv)
  BY <1>1, <1>3 DEF ServiceInv
<1>5. PICK out \in Outcomes(srv, r) :
        /\ service' = [service EXCEPT ![c] = out]
        /\ requests' = [requests EXCEPT ![i].phase = "answered", ![i].ok = out.ok,
                                        ![i].case = out.case]
  BY DEF Serve
<1>6. requests' = [requests EXCEPT ![i] =
                      [requests[i] EXCEPT !.phase = "answered", !.ok = out.ok, !.case = out.case]]
  BY <1>5
<1>7. NewCase \in Nat /\ \A x \in DOMAIN service : service[x].case < NewCase
  BY <1>1, NewCaseIsNew
<1>8. PICK new : /\ StepOf(srv, out, new)
                 /\ r.kind \in Deciding => DecidedOk(srv, out, new)
                 /\ out.case \in {srv.case, NewCase}
  <2>1. CASE r.kind = "message"
    <3>1. out \in Messaged(srv, NewCase)
      BY <1>5, <2>1 DEF Outcomes
    <3>2. NewCase > srv.case
      BY <1>3, <1>4, <1>7 DEF Served
    <3> HIDE DEF srv
    <3>3. (\E new : StepOf(srv, out, new)) /\ out.case \in {srv.case, NewCase}
      BY <1>4, <1>7, <3>1, <3>2, MessagedIsStep
    <3>4. r.kind \notin Deciding
      BY <2>1 DEF Deciding
    <3> QED BY <3>3, <3>4
  <2>2. CASE r.kind = "retry"
    <3>1. out \in Retried(srv, r.subject)
      BY <1>5, <2>2 DEF Outcomes
    <3> HIDE DEF srv
    <3>2. (\E new : StepOf(srv, out, new)) /\ out.case = srv.case
      BY <1>4, <3>1, RetriedIsStep
    <3>3. r.kind \notin Deciding
      BY <2>2 DEF Deciding
    <3> QED BY <3>2, <3>3
  <2>3. CASE r.kind \in Deciding
    <3>1. out \in Decided(srv, r.kind, r.subject)
      BY <1>5, <2>3 DEF Outcomes, Deciding
    <3>2. \E j \in DOMAIN srv.log : CreatedAt(srv.log, j, r.subject)
      BY <2>3 DEF RequestsAreKnown
    <3> HIDE DEF srv
    <3>3. LogIsOfItsCases(srv) /\ OpenProposalIsAwaited(srv)
      BY <1>4 DEF ConversationInv
    <3>4. (\E new : StepOf(srv, out, new) /\ DecidedOk(srv, out, new)) /\ out.case = srv.case
      BY <1>4, <2>3, <3>1, <3>2, <3>3, DecidedIsStep
    <3> QED BY <3>4
  <2> QED BY <1>2, <2>1, <2>2, <2>3 DEF Kinds, Opening, Deciding
<1>9. out.case # srv.case => \A x \in DOMAIN service : service[x].case < out.case
  BY <1>7, <1>8
<1>10. r.phase = "sent" /\ UNCHANGED <<page, persisted>>
  BY DEF Serve
<1>11. Answering(i, c, out, new)
  BY <1>2, <1>3, <1>5, <1>6, <1>8, <1>9, <1>10 DEF Answering
<1> QED BY <1>11

AnswerFrame(i, c, out) ==
    /\ out \in Served /\ service \in Seq(Served) /\ service' \in Seq(Served)
    /\ DOMAIN service' = DOMAIN service /\ Len(service') = Len(service) /\ c \in DOMAIN service
    /\ \A x \in DOMAIN service : service'[x] = IF x = c THEN out ELSE service[x]
    /\ requests' \in Seq(Asked) /\ DOMAIN requests' = DOMAIN requests
    /\ \A j \in DOMAIN requests : j # i => requests'[j] = requests[j]
    /\ requests'[i].phase = "answered" /\ requests'[i].case = out.case
    /\ requests'[i].kind = requests[i].kind /\ requests'[i].subject = requests[i].subject
    /\ requests'[i].generation = requests[i].generation
    /\ requests'[i].conversation = requests[i].conversation
    /\ requests'[i].awaited <=> requests[i].awaited
    /\ requests'[i].ok <=> out.ok

LEMMA AnsweringFrame ==
  ASSUME RestType, NEW i \in DOMAIN requests, NEW c, NEW out, NEW new, Answering(i, c, out, new)
  PROVE  AnswerFrame(i, c, out)
<1>1. requests \in Seq(Asked) /\ service \in Seq(Served) /\ requests[i] \in Asked
  BY DEF RestType
<1>2. out \in Served /\ c \in DOMAIN service
  BY DEF Answering, StepOf
<1> DEFINE x == [requests[i] EXCEPT !.phase = "answered", !.ok = out.ok, !.case = out.case]
<1>3. x \in Asked
  BY <1>1, <1>2 DEF Asked, Served
<1>4. /\ x.phase = "answered" /\ x.case = out.case /\ x.kind = requests[i].kind
      /\ x.subject = requests[i].subject /\ x.generation = requests[i].generation
      /\ x.conversation = requests[i].conversation
  BY <1>1 DEF Asked
<1>5. (x.awaited <=> requests[i].awaited) /\ (x.ok <=> out.ok)
  BY <1>1 DEF Asked
<1>6. requests' = [requests EXCEPT ![i] = x] /\ service' = [service EXCEPT ![c] = out]
  BY DEF Answering
<1> HIDE DEF x
<1>7. /\ requests' \in Seq(Asked) /\ DOMAIN requests' = DOMAIN requests
      /\ \A j \in DOMAIN requests : requests'[j] = IF j = i THEN x ELSE requests[j]
  BY <1>1, <1>3, <1>6, Replaced
<1>8. /\ service' \in Seq(Served) /\ DOMAIN service' = DOMAIN service
      /\ Len(service') = Len(service)
      /\ \A y \in DOMAIN service : service'[y] = IF y = c THEN out ELSE service[y]
  BY <1>1, <1>2, <1>6, Replaced
<1> QED BY <1>1, <1>2, <1>4, <1>5, <1>7, <1>8 DEF AnswerFrame

LEMMA ServeKeepsService ==
  ASSUME RestInv, NEW i \in DOMAIN requests, NEW c, NEW out, NEW new, Answering(i, c, out, new)
  PROVE  RestType' /\ ServiceInv' /\ CasesAreOwn' /\ ReadIsOfLog'
<1>1. AnswerFrame(i, c, out) /\ RestType
  BY AnsweringFrame DEF RestInv
<1> DEFINE srv == service[c]
<1>2. StepOf(srv, out, new) /\ c \in DOMAIN service /\ srv \in Served /\ UNCHANGED <<page, persisted>>
  BY <1>1 DEF Answering, AnswerFrame
<1>3. RestType'
  BY <1>1, <1>2 DEF RestType, AnswerFrame
<1>4. ServiceInv'
  <2>1. ConversationInv(srv)
    BY <1>2 DEF RestInv, ServiceInv
  <2> HIDE DEF srv
  <2>2. ConversationInv(out)
    BY <1>2, <2>1, ConversationStep
  <2>3. ASSUME NEW x \in DOMAIN service' PROVE ConversationInv(service'[x])
    <3>1. x \in DOMAIN service /\ service'[x] = IF x = c THEN out ELSE service[x]
      BY <1>1 DEF AnswerFrame
    <3> QED BY <2>2, <3>1 DEF RestInv, ServiceInv
  <2> QED BY <2>3 DEF ServiceInv
<1>5. /\ srv.log \in Seq(LogEvents) /\ new \in Seq(LogEvents)
      /\ LogIsExtended(srv.log, new, out.log)
  <2> HIDE DEF srv
  <2> QED BY <1>2, ServedLogGrows
<1>6. CasesAreOwn'
  <2> SUFFICES ASSUME NEW x \in DOMAIN service, NEW y \in DOMAIN service, x # y,
                      service'[y].case # 0
               PROVE  /\ service'[x].case # service'[y].case
                      /\ \A k \in DOMAIN service'[x].log :
                           service'[x].log[k].case # service'[y].case
    BY <1>1 DEF CasesAreOwn, AnswerFrame
  <2>1. /\ service[y].case # 0 => /\ service[x].case # service[y].case
                                  /\ \A k \in DOMAIN service[x].log :
                                       service[x].log[k].case # service[y].case
    BY DEF RestInv, CasesAreOwn
  <2>2. \A z \in DOMAIN service :
          /\ service[z].case \in Nat
          /\ \A k \in DOMAIN service[z].log :
               service[z].log[k].case \in Nat /\ service[z].log[k].case <= service[z].case
    <3> SUFFICES ASSUME NEW z \in DOMAIN service
                 PROVE  /\ service[z].case \in Nat
                        /\ \A k \in DOMAIN service[z].log :
                             service[z].log[k].case \in Nat /\ service[z].log[k].case <= service[z].case
      OBVIOUS
    <3>1. service[z] \in Served
      BY <1>1 DEF AnswerFrame
    <3>2. \A k \in DOMAIN service[z].log : service[z].log[k] \in LogEvents
      BY <3>1 DEF Served
    <3>3. LogIsOfItsCases(service[z])
      BY DEF RestInv, ServiceInv, ConversationInv
    <3> QED BY <3>1, <3>2, <3>3 DEF LogIsOfItsCases, Served, LogEvents
  <2>3. out.case # srv.case => \A z \in DOMAIN service : service[z].case < out.case
    BY DEF Answering
  <2>4. out.case \in Nat
    BY <1>1 DEF AnswerFrame, Served
  <2>5. CASE x # c /\ y # c
    BY <1>1, <2>1, <2>5 DEF AnswerFrame
  <2>6. CASE y = c
    <3>1. service'[y] = out /\ service'[x] = service[x]
      BY <1>1, <2>6 DEF AnswerFrame
    <3>2. CASE out.case = srv.case
      BY <2>1, <2>6, <3>1, <3>2
    <3>3. CASE out.case # srv.case
      <4>1. service[x].case < out.case
        BY <2>3, <3>3
      <4>2. \A k \in DOMAIN service[x].log :
              service[x].log[k].case \in Nat /\ service[x].log[k].case < out.case
        BY <2>2, <2>4, <4>1
      <4> HIDE DEF srv
      <4> QED BY <2>2, <2>4, <3>1, <4>1, <4>2
    <3> QED BY <3>2, <3>3
  <2>7. CASE x = c
    <3>1. service'[x] = out /\ service'[y] = service[y] /\ service[y].case # 0
      BY <1>1, <2>7 DEF AnswerFrame
    <3>2. out.case # service[y].case
      <4>1. service[c].case # service[y].case
        BY <2>1, <2>7, <3>1
      <4>2. out.case # srv.case => service[y].case < out.case
        BY <2>3
      <4> QED BY <2>2, <2>4, <4>1, <4>2
    <3>3. ASSUME NEW k \in DOMAIN out.log PROVE out.log[k].case # service[y].case
      <4>1. CASE k \in DOMAIN srv.log
        <5>1. out.log[k] = srv.log[k]
          BY <1>5, <4>1 DEF LogIsExtended
        <5> QED BY <2>1, <2>7, <3>1, <4>1, <5>1
      <4>2. CASE \E n \in DOMAIN new : k = Len(srv.log) + n
        <5>1. PICK n \in DOMAIN new : k = Len(srv.log) + n
          BY <4>2
        <5>2. out.log[k] = new[n]
          BY <1>5, <5>1 DEF LogIsExtended
        <5>3. new[n].case \notin {0, out.case} => \E m \in DOMAIN srv.log : srv.log[m].case = new[n].case
          BY <1>2, <5>1 DEF StepOf
        <5>4. new[n].case # service[y].case
          BY <2>1, <2>7, <3>1, <3>2, <5>3
        <5> QED BY <5>2, <5>4
      <4> QED BY <1>5, <4>1, <4>2 DEF LogIsExtended
    <3> QED BY <3>1, <3>2, <3>3
  <2> QED BY <2>5, <2>6, <2>7
<1>7. ReadIsOfLog'
  <2> SUFFICES ASSUME page.conversation # 0
               PROVE  page.read <= Len(service'[page.conversation].log)
    BY <1>2 DEF ReadIsOfLog
  <2>1. page.conversation \in DOMAIN service /\ page.read \in Nat
    BY <1>1 DEF RestType, Shown, AnswerFrame
  <2>2. page.read <= Len(service[page.conversation].log)
    BY DEF RestInv, ReadIsOfLog
  <2>3. Len(srv.log) <= Len(out.log) /\ Len(srv.log) \in Nat /\ Len(out.log) \in Nat
    BY <1>5 DEF LogIsExtended
  <2>4. service'[page.conversation] = IF page.conversation = c THEN out ELSE service[page.conversation]
    BY <1>1, <2>1 DEF AnswerFrame
  <2> QED BY <2>1, <2>2, <2>3, <2>4
<1> QED BY <1>3, <1>4, <1>6, <1>7

LEMMA ServeKeepsRequests ==
  ASSUME RestInv, NEW i \in DOMAIN requests, NEW c, NEW out, NEW new, Answering(i, c, out, new)
  PROVE  RequestsAreKnown' /\ OneOpening' /\ PageIsBlank' /\ RetryingIsCleared'
<1>1. AnswerFrame(i, c, out) /\ RestType
  BY AnsweringFrame DEF RestInv
<1> DEFINE srv == service[c]
<1>2. /\ StepOf(srv, out, new) /\ c \in DOMAIN service /\ srv \in Served /\ page' = page
      /\ requests[i].conversation = c /\ requests[i].kind \notin Opening
      /\ requests[i].phase = "sent"
  BY <1>1 DEF Answering, AnswerFrame
<1>3. /\ LogIsExtended(srv.log, new, out.log)
      /\ srv.case <= out.case /\ srv.case \in Nat /\ out.case \in Nat
  <2> HIDE DEF srv
  <2> QED BY <1>2, ServedLogGrows DEF StepOf, Served
<1>4. RequestsAreKnown'
  <2> SUFFICES ASSUME NEW j \in DOMAIN requests
               PROVE  /\ requests'[j].generation <= page.generation
                      /\ requests'[j].conversation <= Len(service)
                      /\ requests'[j].kind # "create" => requests'[j].conversation # 0
                      /\ requests'[j].kind \in Deciding =>
                           LET z == requests'[j].conversation
                           IN  /\ \E k \in DOMAIN service'[z].log :
                                    CreatedAt(service'[z].log, k, requests'[j].subject)
                               /\ requests'[j].phase # "sent" =>
                                    requests'[j].case <= service'[z].case
    BY <1>1, <1>2 DEF RequestsAreKnown, AnswerFrame
  <2>1. /\ requests[j].generation <= page.generation
        /\ requests[j].conversation <= Len(service)
        /\ requests[j].kind # "create" => requests[j].conversation # 0
        /\ requests[j].kind \in Deciding =>
             /\ \E k \in DOMAIN service[requests[j].conversation].log :
                  CreatedAt(service[requests[j].conversation].log, k, requests[j].subject)
             /\ requests[j].phase # "sent" =>
                  requests[j].case <= service[requests[j].conversation].case
    BY DEF RestInv, RequestsAreKnown
  <2>2. /\ requests'[j].generation = requests[j].generation
        /\ requests'[j].conversation = requests[j].conversation
        /\ requests'[j].kind = requests[j].kind
        /\ requests'[j].subject = requests[j].subject
    BY <1>1 DEF AnswerFrame
  <2>3. ASSUME requests[j].kind \in Deciding
        PROVE  LET z == requests[j].conversation
               IN  /\ \E k \in DOMAIN service'[z].log :
                        CreatedAt(service'[z].log, k, requests[j].subject)
                   /\ requests'[j].phase # "sent" =>
                        requests'[j].case <= service'[z].case
    <3> DEFINE z == requests[j].conversation
    <3>1. z \in DOMAIN service /\ requests[j].case \in Nat
      <4>1. requests[j] \in Asked
        BY <1>1 DEF RestType
      <4>2. z \in Nat /\ z # 0 /\ z <= Len(service)
        BY <2>1, <2>3, <4>1 DEF Asked, Deciding
      <4> QED BY <1>1, <4>1, <4>2 DEF AnswerFrame, Asked
    <3> HIDE DEF z
    <3>2. service'[z] = IF z = c THEN out ELSE service[z]
      BY <1>1, <3>1 DEF AnswerFrame
    <3>3. \E k \in DOMAIN service'[z].log : CreatedAt(service'[z].log, k, requests[j].subject)
      BY <1>3, <2>1, <2>3, <3>2 DEF LogIsExtended, CreatedAt, z
    <3>4. ASSUME requests'[j].phase # "sent" PROVE requests'[j].case <= service'[z].case
      <4>1. CASE j = i
        BY <1>1, <1>2, <1>3, <3>2, <4>1 DEF AnswerFrame, z
      <4>2. CASE j # i
        <5>1. requests'[j] = requests[j]
          BY <1>1, <4>2 DEF AnswerFrame
        <5>2. requests[j].case <= service[z].case
          BY <2>1, <2>3, <3>4, <5>1 DEF z
        <5> QED BY <1>3, <3>1, <3>2, <5>1, <5>2
      <4> QED BY <4>1, <4>2
    <3> QED BY <3>3, <3>4 DEF z
  <2> QED BY <2>1, <2>2, <2>3
<1>5. OneOpening'
  <2>1. /\ DOMAIN requests' = DOMAIN requests
        /\ \A j \in DOMAIN requests : /\ requests'[j].kind = requests[j].kind
                                      /\ requests'[j].generation = requests[j].generation
                                      /\ j # i => requests'[j].phase = requests[j].phase
    BY <1>1 DEF AnswerFrame
  <2> QED BY <1>2, <2>1 DEF RestInv, OneOpening
<1>6. PageIsBlank'
  BY <1>2 DEF RestInv, PageIsBlank
<1>7. RetryingIsCleared'
  <2> SUFFICES ASSUME page.retrying # 0
               PROVE  \E j \in DOMAIN requests' :
                        /\ requests'[j].kind = "retry" /\ requests'[j].awaited
                        /\ requests'[j].phase # "done"
    BY <1>2 DEF RetryingIsCleared
  <2>1. PICK j \in DOMAIN requests :
          requests[j].kind = "retry" /\ requests[j].awaited /\ requests[j].phase # "done"
    BY DEF RestInv, RetryingIsCleared
  <2>2. /\ requests'[j].kind = "retry" /\ requests'[j].awaited /\ requests'[j].phase # "done"
        /\ j \in DOMAIN requests'
    BY <1>1, <2>1 DEF AnswerFrame
  <2> QED BY <2>2
<1> QED BY <1>4, <1>5, <1>6, <1>7

LEMMA ServeKeepsDecisions ==
  ASSUME RestInv, NEW i \in DOMAIN requests, NEW c, NEW out, NEW new, Answering(i, c, out, new),
         CasesAreOwn'
  PROVE  DecidedIsOver'
<1>1. AnswerFrame(i, c, out) /\ RestType
  BY AnsweringFrame DEF RestInv
<1> DEFINE srv == service[c]
<1>2. /\ StepOf(srv, out, new) /\ c \in DOMAIN service /\ srv \in Served
      /\ requests[i].kind \in Deciding => DecidedOk(srv, out, new)
      /\ out.case # srv.case => \A x \in DOMAIN service : service[x].case < out.case
  BY <1>1 DEF Answering, AnswerFrame
<1> HIDE DEF srv
<1> SUFFICES ASSUME NEW j \in DOMAIN requests, requests'[j].kind \in Deciding,
                    requests'[j].phase # "sent", requests'[j].ok, requests'[j].case # 0,
                    NEW x \in DOMAIN service
             PROVE  /\ service'[x].case = requests'[j].case =>
                         \/ service'[x].state = "free"
                         \/ service'[x].state = "retry" /\ service'[x].resumable
                    /\ Hangs(service'[x].log, requests'[j].case) =>
                         AwaitsRetry(service'[x], requests'[j].case) /\ service'[x].resumable
  BY <1>1 DEF DecidedIsOver, AnswerFrame
<1>3. CASE j = i
  <2>1. /\ DecidedOk(srv, out, new) /\ out.ok /\ requests'[j].case = out.case
    BY <1>1, <1>2, <1>3 DEF AnswerFrame
  <2>2. /\ Decides(srv, out, new)
        /\ \/ out.state = "retry" /\ out.resumable
           \/ out.state = "free" /\ NoOffer(new)
    BY <2>1 DEF DecidedOk
  <2>3. CASE x = c
    <3>1. service'[x] = out
      BY <1>1, <2>3 DEF AnswerFrame
    <3>2. ASSUME Hangs(out.log, out.case) PROVE AwaitsRetry(out, out.case) /\ out.resumable
      <4>1. \E n \in DOMAIN new : new[n].type \in HangTypes
        BY <1>2, <2>2, <3>2, OfferOfStep DEF Decides
      <4> QED BY <2>2, <4>1 DEF NoOffer, AwaitsRetry
    <3> QED BY <2>1, <2>2, <3>1, <3>2
  <2>4. CASE x # c
    <3>1. service'[x] = service[x] /\ service'[c] = out
      BY <1>1, <2>4 DEF AnswerFrame
    <3>2. /\ service'[x].case # out.case
          /\ \A k \in DOMAIN service'[x].log : service'[x].log[k].case # out.case
      BY <1>1, <2>1, <2>4, <3>1 DEF CasesAreOwn, AnswerFrame
    <3> QED BY <2>1, <3>2 DEF Hangs
  <2> QED BY <2>3, <2>4
<1>4. CASE j # i
  <2> DEFINE k == requests[j].case
  <2>1. requests'[j] = requests[j]
    BY <1>1, <1>4 DEF AnswerFrame
  <2>2. \A y \in DOMAIN service :
          /\ service[y].case = k =>
               service[y].state = "free" \/ (service[y].state = "retry" /\ service[y].resumable)
          /\ Hangs(service[y].log, k) => AwaitsRetry(service[y], k) /\ service[y].resumable
    BY <2>1 DEF RestInv, DecidedIsOver
  <2>3. CASE x # c
    BY <1>1, <2>1, <2>2, <2>3 DEF AnswerFrame
  <2>4. CASE x = c
    <3>1. service'[x] = out
      BY <1>1, <2>4 DEF AnswerFrame
    <3>2. out.case = k => out.case = srv.case
      <4>1. requests[j].conversation \in DOMAIN service
        <5>1. requests[j] \in Asked
          BY <1>1 DEF RestType
        <5>2. requests[j].kind \in Deciding /\ requests[j].conversation <= Len(service)
              /\ requests[j].conversation # 0
          BY <2>1 DEF RestInv, RequestsAreKnown, Deciding
        <5> QED BY <1>1, <5>1, <5>2 DEF Asked, AnswerFrame
      <4>2. k <= service[requests[j].conversation].case
        BY <2>1 DEF RestInv, RequestsAreKnown
      <4>3. service[requests[j].conversation].case \in Nat /\ k \in Nat /\ out.case \in Nat
        <5>1. service[requests[j].conversation] \in Served /\ requests[j] \in Asked /\ out \in Served
          BY <1>1, <4>1 DEF RestType, AnswerFrame
        <5> QED BY <5>1 DEF Served, Asked
      <4> QED BY <1>2, <4>1, <4>2, <4>3
    <3>3. /\ srv.case = k => srv.state = "free" \/ (srv.state = "retry" /\ srv.resumable)
          /\ Hangs(srv.log, k) => AwaitsRetry(srv, k) /\ srv.resumable
      BY <1>2, <2>2 DEF srv
    <3> HIDE DEF k
    <3>4. /\ srv.state = "free" /\ out.case = srv.case => out.state = "free" /\ NoOffer(new)
          /\ srv.state = "retry" /\ srv.resumable =>
               /\ out.case = srv.case
               /\ \/ out.state = "retry" /\ out.resumable
                  \/ out.state = "free" /\ NoOffer(new)
          /\ srv.state = "retry" =>
               \/ AwaitsRetry(out, srv.case)
               \/ 1 \in DOMAIN new /\ new[1].type = "run_started" /\ new[1].case = srv.case
      BY <1>2 DEF StepOf
    <3>5. out.case = k => out.state = "free" \/ (out.state = "retry" /\ out.resumable)
      BY <3>2, <3>3, <3>4
    <3>6. ASSUME Hangs(out.log, k) PROVE AwaitsRetry(out, k) /\ out.resumable
      <4>1. CASE k = out.case /\ \E n \in DOMAIN new : new[n].type \in HangTypes
        BY <3>2, <3>3, <3>4, <4>1 DEF NoOffer, AwaitsRetry
      <4>2. CASE /\ Hangs(srv.log, k)
                 /\ ~(1 \in DOMAIN new /\ new[1].type = "run_started" /\ new[1].case = k)
        <5>1. AwaitsRetry(srv, k) /\ srv.resumable
          BY <3>3, <4>2
        <5> QED BY <3>4, <4>2, <5>1 DEF AwaitsRetry
      <4> QED BY <1>2, <3>6, <4>1, <4>2, OfferOfStep
    <3> QED BY <2>1, <3>1, <3>5, <3>6 DEF k
  <2> QED BY <2>3, <2>4
<1> QED BY <1>3, <1>4

LEMMA ServeClearsPage ==
  ASSUME RestInv, NEW i \in DOMAIN requests, NEW c, NEW out, NEW new, Answering(i, c, out, new)
  PROVE  RunIsCleared' /\ BusyIsCleared' /\ OfferIsTrue'
<1>1. AnswerFrame(i, c, out) /\ RestType
  BY AnsweringFrame DEF RestInv
<1> DEFINE srv == service[c]
           pc == page.conversation
           L == Len(srv.log)
<1>2. /\ StepOf(srv, out, new) /\ c \in DOMAIN service /\ srv \in Served /\ page' = page
      /\ requests[i].conversation = c /\ requests[i].kind \notin Opening
      /\ requests[i].phase = "sent"
      /\ requests[i].kind \in Deciding => DecidedOk(srv, out, new)
  BY <1>1 DEF Answering, AnswerFrame
<1>3. LogIsExtended(srv.log, new, out.log)
  <2> HIDE DEF srv
  <2> QED BY <1>2, ServedLogGrows
<1>4. page.read \in Nat /\ pc \in Nat /\ (pc # 0 => pc \in DOMAIN service)
  BY <1>1 DEF RestType, Shown, AnswerFrame
<1>5. pc = c => page.read <= L
  BY <1>1, <1>4 DEF RestInv, ReadIsOfLog, AnswerFrame
<1>6. pc \in DOMAIN service => service'[pc] = IF pc = c THEN out ELSE service[pc]
  BY <1>1 DEF AnswerFrame
<1> HIDE DEF pc, srv, L
<1>7. \A n \in DOMAIN new :
        L + n > page.read \/ pc # c
  BY <1>3, <1>4, <1>5 DEF LogIsExtended, L
<1>8. ASSUME NEW j \in DOMAIN requests, Sent(j) \/ Refused(j)
      PROVE  \/ j \in DOMAIN requests' /\ requests'[j].kind = requests[j].kind
                /\ (Sent(j)' \/ Refused(j)')
             \/ j = i /\ out.ok /\ pc = c
  <2>1. CASE j # i
    BY <1>1, <1>2, <1>8, <2>1 DEF AnswerFrame, Sent, Refused
  <2>2. CASE j = i
    <3>1. Sent(i)
      BY <1>2, <1>8, <2>2 DEF Refused
    <3>2. pc = c /\ requests[i].awaited
      BY <1>2, <3>1 DEF Sent, pc
    <3>3. ~out.ok => Refused(i)'
      BY <1>1, <3>2 DEF AnswerFrame, Refused
    <3> QED BY <1>1, <2>2, <3>2, <3>3 DEF AnswerFrame
  <2> QED BY <2>1, <2>2
<1>9. RunIsCleared'
  <2> SUFFICES ASSUME page.activeRun
               PROVE  \/ \E j \in DOMAIN requests' : requests'[j].kind \notin Opening
                                                     /\ (Sent(j)' \/ Refused(j)')
                      \/ RunEnds(service'[pc].log, page.read)
    BY <1>2 DEF RunIsCleared, pc
  <2>0. pc # 0
    BY DEF RestInv, PageIsBlank, pc
  <2>1. CASE \E j \in DOMAIN requests : requests[j].kind \notin Opening /\ (Sent(j) \/ Refused(j))
    <3>1. PICK j \in DOMAIN requests : requests[j].kind \notin Opening /\ (Sent(j) \/ Refused(j))
      BY <2>1
    <3>2. CASE j = i /\ out.ok /\ pc = c
      <4>1. PICK n \in DOMAIN new : new[n].type \in EndTypes
        BY <1>2, <3>2 DEF StepOf
      <4>2. L + n \in DOMAIN out.log /\ out.log[L + n] = new[n] /\ L + n > page.read
        BY <1>3, <1>7, <3>2, <4>1 DEF LogIsExtended, L
      <4>3. RunEnds(out.log, page.read)
        BY <4>1, <4>2 DEF RunEnds
      <4> QED BY <1>4, <1>6, <2>0, <3>2, <4>3
    <3>3. CASE j \in DOMAIN requests' /\ requests'[j].kind = requests[j].kind
               /\ (Sent(j)' \/ Refused(j)')
      BY <3>1, <3>3
    <3> QED BY <1>8, <3>1, <3>2, <3>3
  <2>2. CASE RunEnds(service[pc].log, page.read)
    <3>1. CASE pc = c
      <4>1. RunEnds(out.log, page.read)
        BY <1>2, <1>4, <1>5, <2>2, <3>1, RunEndsGrows DEF srv, L
      <4> QED BY <1>4, <1>6, <2>0, <3>1, <4>1
    <3> QED BY <1>4, <1>6, <2>0, <2>2, <3>1
  <2> QED BY <2>1, <2>2 DEF RestInv, RunIsCleared, pc
<1>10. BusyIsCleared'
  <2> SUFFICES ASSUME page.busy # 0
               PROVE  \/ \E j \in DOMAIN requests' : requests'[j].kind \in Deciding
                                                     /\ (Sent(j)' \/ Refused(j)')
                      \/ Settles(service'[pc].log, page.read)
    BY <1>2 DEF BusyIsCleared, pc
  <2>0. pc # 0
    BY DEF RestInv, PageIsBlank, pc
  <2>1. CASE \E j \in DOMAIN requests : requests[j].kind \in Deciding /\ (Sent(j) \/ Refused(j))
    <3>1. PICK j \in DOMAIN requests : requests[j].kind \in Deciding /\ (Sent(j) \/ Refused(j))
      BY <2>1
    <3>2. CASE j = i /\ out.ok /\ pc = c
      <4>1. PICK n \in DOMAIN new : new[n].type \in SettleTypes
        BY <1>2, <3>1, <3>2 DEF DecidedOk, Decides
      <4>2. L + n \in DOMAIN out.log /\ out.log[L + n] = new[n] /\ L + n > page.read
        BY <1>3, <1>7, <3>2, <4>1 DEF LogIsExtended, L
      <4>3. Settles(out.log, page.read)
        BY <4>1, <4>2 DEF Settles
      <4> QED BY <1>4, <1>6, <2>0, <3>2, <4>3
    <3>3. CASE j \in DOMAIN requests' /\ requests'[j].kind = requests[j].kind
               /\ (Sent(j)' \/ Refused(j)')
      BY <3>1, <3>3
    <3> QED BY <1>8, <3>1, <3>2, <3>3
  <2>2. CASE Settles(service[pc].log, page.read)
    <3>1. CASE pc = c
      <4>1. Settles(out.log, page.read)
        BY <1>3, <2>2, <3>1 DEF Settles, LogIsExtended, srv
      <4> QED BY <1>4, <1>6, <2>0, <3>1, <4>1
    <3> QED BY <1>4, <1>6, <2>0, <2>2, <3>1
  <2> QED BY <2>1, <2>2 DEF RestInv, BusyIsCleared, pc
<1>11. OfferIsTrue'
  <2> DEFINE a == page.activeCase
  <2> SUFFICES ASSUME pc # 0, a # 0, Hangs(service'[pc].log, a)
               PROVE  AwaitsRetry(service'[pc], a) \/ Closes(service'[pc].log, a, page.read)
    BY <1>2 DEF OfferIsTrue, pc
  <2>1. Hangs(service[pc].log, a) => AwaitsRetry(service[pc], a) \/ Closes(service[pc].log, a, page.read)
    BY DEF RestInv, OfferIsTrue, pc
  <2> HIDE DEF a
  <2>2. CASE pc # c
    BY <1>4, <1>6, <2>1, <2>2
  <2>3. CASE pc = c
    <3>1. service'[pc] = out /\ service[pc] = srv
      BY <1>4, <1>6, <2>3 DEF srv
    <3>2. CASE \E n \in DOMAIN new : new[n].type = "case_closed" /\ new[n].case = a
      <4>1. PICK n \in DOMAIN new : new[n].type = "case_closed" /\ new[n].case = a
        BY <3>2
      <4>2. L + n \in DOMAIN out.log /\ out.log[L + n] = new[n] /\ L + n > page.read
        BY <1>3, <1>7, <2>3, <4>1 DEF LogIsExtended, L
      <4> QED BY <3>1, <4>1, <4>2 DEF Closes
    <3>3. CASE Hangs(srv.log, a) /\ ~AwaitsRetry(srv, a)
      <4>1. Closes(srv.log, a, page.read)
        BY <2>1, <3>1, <3>3
      <4> QED BY <1>3, <3>1, <4>1 DEF Closes, LogIsExtended
    <3>4. \/ AwaitsRetry(out, a)
          \/ \E n \in DOMAIN new : new[n].type = "case_closed" /\ new[n].case = a
          \/ Hangs(srv.log, a) /\ ~AwaitsRetry(srv, a)
      BY <1>2, <3>1, OfferIsNewOrOld
    <3> QED BY <3>1, <3>2, <3>3, <3>4
  <2> QED BY <2>2, <2>3
<1> QED BY <1>9, <1>10, <1>11

LEMMA ServeKeepsRest ==
  ASSUME RestInv, NEW i \in DOMAIN requests, Serve(i)
  PROVE  RestInv'
<1>1. PICK c, out, new : Answering(i, c, out, new)
  BY ServeIsAnswering DEF RestInv
<1>2. RestType' /\ ServiceInv' /\ CasesAreOwn' /\ ReadIsOfLog'
  BY <1>1, ServeKeepsService
<1>3. RequestsAreKnown' /\ OneOpening' /\ PageIsBlank' /\ RetryingIsCleared'
  BY <1>1, ServeKeepsRequests
<1>4. DecidedIsOver'
  BY <1>1, <1>2, ServeKeepsDecisions
<1>5. RunIsCleared' /\ BusyIsCleared' /\ OfferIsTrue'
  BY <1>1, ServeClearsPage
<1> QED BY <1>2, <1>3, <1>4, <1>5 DEF RestInv

-----------------------------------------------------------------------------
(* A conversation is opened, or an answer is lost. *)

LEMMA BlankConversation ==
  /\ NewConversation \in Served /\ ConversationInv(NewConversation)
  /\ NewConversation.case = 0 /\ Len(NewConversation.log) = 0
  /\ \A k \in DOMAIN NewConversation.log : FALSE
  /\ \A c : ~Hangs(NewConversation.log, c)
<1>1. NewConversation.log = << >> /\ NewConversation.case = 0 /\ NewConversation.state = "free"
  BY DEF NewConversation
<1>2. << >> \in Seq(LogEvents) /\ Len(<< >>) = 0 /\ DOMAIN << >> = {}
  OBVIOUS
<1>3. NewConversation \in Served
  BY <1>2 DEF NewConversation, Served
<1> DEFINE srv == NewConversation
<1> HIDE DEF srv
<1>4. \A k \in DOMAIN srv.log : FALSE
  BY <1>1, <1>2 DEF srv
<1>5. \A c : ~Hangs(srv.log, c)
  BY <1>4 DEF Hangs
<1>6. srv.state = "free"
  BY <1>1 DEF srv
<1>7. ConversationInv(srv)
  BY <1>4, <1>5, <1>6 DEF ConversationInv, LogIsOfItsCases, OpenProposalIsAwaited, RunsOfLogEnd,
                         CreatedBeforeClosed, OffersAreTrue
<1> QED BY <1>1, <1>2, <1>3, <1>4, <1>5, <1>7 DEF srv

(* One request is answered, or its answer is lost. *)
ChangeFrame(i) ==
    /\ requests' \in Seq(Asked) /\ DOMAIN requests' = DOMAIN requests
    /\ \A j \in DOMAIN requests : j # i => requests'[j] = requests[j]
    /\ requests'[i].phase = "answered" /\ requests'[i].kind = requests[i].kind
    /\ requests'[i].generation = requests[i].generation
    /\ requests'[i].subject = requests[i].subject
    /\ requests'[i].awaited <=> requests[i].awaited

LEMMA ChangedKeeps ==
  ASSUME RestInv, NEW i \in DOMAIN requests, ChangeFrame(i), requests[i].phase # "done",
         UNCHANGED page,
         requests[i].kind \in Opening \/ ~(Sent(i) \/ Refused(i)),
         \A x \in DOMAIN service : x \in DOMAIN service' /\ service'[x] = service[x]
  PROVE  /\ OneOpening' /\ PageIsBlank' /\ RetryingIsCleared' /\ ReadIsOfLog'
         /\ RunIsCleared' /\ BusyIsCleared' /\ OfferIsTrue'
<1>0. page.conversation # 0 =>
        /\ page.conversation \in DOMAIN service
        /\ service'[page.conversation] = service[page.conversation]
  BY DEF RestInv, RestType, Shown
<1>1. OneOpening'
  <2>1. /\ DOMAIN requests' = DOMAIN requests
        /\ \A j \in DOMAIN requests : /\ requests'[j].kind = requests[j].kind
                                      /\ requests'[j].generation = requests[j].generation
                                      /\ j # i => requests'[j].phase = requests[j].phase
    BY DEF ChangeFrame
  <2> QED BY <2>1 DEF RestInv, OneOpening
<1>2. PageIsBlank'
  BY DEF RestInv, PageIsBlank
<1>3. RetryingIsCleared'
  <2> SUFFICES ASSUME page.retrying # 0
               PROVE  \E j \in DOMAIN requests' :
                        /\ requests'[j].kind = "retry" /\ requests'[j].awaited
                        /\ requests'[j].phase # "done"
    BY DEF RetryingIsCleared
  <2>1. PICK j \in DOMAIN requests :
          requests[j].kind = "retry" /\ requests[j].awaited /\ requests[j].phase # "done"
    BY DEF RestInv, RetryingIsCleared
  <2>2. /\ requests'[j].kind = "retry" /\ requests'[j].awaited /\ requests'[j].phase # "done"
        /\ j \in DOMAIN requests'
    BY <2>1 DEF ChangeFrame
  <2> QED BY <2>2
<1>4. ReadIsOfLog'
  BY <1>0 DEF RestInv, ReadIsOfLog
<1>5. ASSUME NEW j \in DOMAIN requests, requests[j].kind \notin Opening, Sent(j) \/ Refused(j)
      PROVE  /\ j \in DOMAIN requests' /\ requests'[j].kind = requests[j].kind
             /\ Sent(j)' \/ Refused(j)'
  <2>1. j # i
    BY <1>5
  <2>2. requests'[j] = requests[j] /\ j \in DOMAIN requests'
    BY <2>1 DEF ChangeFrame
  <2> QED BY <1>5, <2>2 DEF Sent, Refused
<1>6. RunIsCleared'
  <2> SUFFICES ASSUME page.activeRun
               PROVE  \/ \E j \in DOMAIN requests' : requests'[j].kind \notin Opening
                                                     /\ (Sent(j)' \/ Refused(j)')
                      \/ RunEnds(service'[page.conversation].log, page.read)
    BY DEF RunIsCleared
  <2>1. page.conversation # 0
    BY DEF RestInv, PageIsBlank
  <2>2. \/ \E j \in DOMAIN requests : requests[j].kind \notin Opening /\ (Sent(j) \/ Refused(j))
        \/ RunEnds(service[page.conversation].log, page.read)
    BY DEF RestInv, RunIsCleared
  <2> QED BY <1>0, <1>5, <2>1, <2>2
<1>7. BusyIsCleared'
  <2> SUFFICES ASSUME page.busy # 0
               PROVE  \/ \E j \in DOMAIN requests' : requests'[j].kind \in Deciding
                                                     /\ (Sent(j)' \/ Refused(j)')
                      \/ Settles(service'[page.conversation].log, page.read)
    BY DEF BusyIsCleared
  <2>1. page.conversation # 0
    BY DEF RestInv, PageIsBlank
  <2>2. \/ \E j \in DOMAIN requests : requests[j].kind \in Deciding /\ (Sent(j) \/ Refused(j))
        \/ Settles(service[page.conversation].log, page.read)
    BY DEF RestInv, BusyIsCleared
  <2>3. \A k : k \in Deciding => k \notin Opening
    BY DEF Deciding, Opening
  <2> QED BY <1>0, <1>5, <2>1, <2>2, <2>3
<1>8. OfferIsTrue'
  BY <1>0 DEF RestInv, OfferIsTrue
<1> QED BY <1>1, <1>2, <1>3, <1>4, <1>6, <1>7, <1>8

LEMMA ServiceStays ==
  ASSUME RestInv, UNCHANGED service
  PROVE  ServiceInv' /\ CasesAreOwn'
  BY DEF RestInv, ServiceInv, CasesAreOwn

LEMMA LoseAnswerKeepsRest ==
  ASSUME RestInv, NEW i \in DOMAIN requests, LoseAnswer(i)
  PROVE  RestInv'
<1>1. requests \in Seq(Asked) /\ requests[i] \in Asked /\ RestType
  BY DEF RestInv, RestType
<1> DEFINE x == [requests[i] EXCEPT !.ok = FALSE]
<1>2. /\ requests' = [requests EXCEPT ![i] = x] /\ UNCHANGED <<page, persisted, service>>
      /\ requests[i].phase = "answered" /\ requests[i].ok
  BY DEF LoseAnswer
<1>3. /\ x \in Asked /\ x.phase = requests[i].phase /\ x.kind = requests[i].kind
      /\ x.generation = requests[i].generation /\ x.subject = requests[i].subject
      /\ x.conversation = requests[i].conversation /\ x.case = requests[i].case
  BY <1>1 DEF Asked
<1>4. (x.awaited <=> requests[i].awaited) /\ ~x.ok
  BY <1>1 DEF Asked
<1> HIDE DEF x
<1>5. /\ requests' \in Seq(Asked) /\ DOMAIN requests' = DOMAIN requests
      /\ \A j \in DOMAIN requests : requests'[j] = IF j = i THEN x ELSE requests[j]
  BY <1>1, <1>2, <1>3, Replaced
<1>6. ChangeFrame(i)
  BY <1>2, <1>3, <1>4, <1>5 DEF ChangeFrame
<1>7. /\ OneOpening' /\ PageIsBlank' /\ RetryingIsCleared' /\ ReadIsOfLog'
      /\ RunIsCleared' /\ BusyIsCleared' /\ OfferIsTrue'
  <2>1. ~(Sent(i) \/ Refused(i))
    BY <1>2 DEF Sent, Refused
  <2> QED BY <1>2, <1>6, <2>1, ChangedKeeps
<1>8. RestType'
  BY <1>1, <1>2, <1>5 DEF RestType
<1>9. RequestsAreKnown'
  <2>1. \A j \in DOMAIN requests :
          /\ requests'[j].kind = requests[j].kind /\ requests'[j].subject = requests[j].subject
          /\ requests'[j].generation = requests[j].generation
          /\ requests'[j].conversation = requests[j].conversation
          /\ requests'[j].phase = requests[j].phase /\ requests'[j].case = requests[j].case
    BY <1>3, <1>5
  <2> QED BY <1>2, <1>5, <2>1 DEF RestInv, RequestsAreKnown
<1>10. DecidedIsOver'
  <2>1. ASSUME NEW j \in DOMAIN requests, requests'[j].ok
        PROVE  requests'[j] = requests[j]
    BY <1>4, <1>5, <2>1
  <2> QED BY <1>2, <1>5, <2>1 DEF RestInv, DecidedIsOver
<1> QED BY <1>2, <1>7, <1>8, <1>9, <1>10, ServiceStays DEF RestInv

LEMMA RestoreKeepsRest ==
  ASSUME RestInv, NEW i \in DOMAIN requests, requests[i].phase = "sent",
         requests[i].kind = "restore", UNCHANGED <<page, persisted, service>>,
         requests' = [requests EXCEPT ![i].phase = "answered", ![i].ok = TRUE,
                            ![i].case = service[requests[i].conversation].case]
  PROVE  RestInv'
<1>1. requests \in Seq(Asked) /\ requests[i] \in Asked /\ RestType
  BY DEF RestInv, RestType
<1>0. page' = page /\ service' = service
  OBVIOUS
<1>2. service[requests[i].conversation].case \in Nat
  <2>1. requests[i].conversation <= Len(service) /\ requests[i].conversation # 0
    BY DEF RestInv, RequestsAreKnown
  <2>2. requests[i].conversation \in DOMAIN service /\ service \in Seq(Served)
    BY <1>1, <2>1 DEF Asked, RestType
  <2>3. service[requests[i].conversation] \in Served
    BY <2>2
  <2> QED BY <2>3 DEF Served
<1> DEFINE x == [requests[i] EXCEPT !.phase = "answered", !.ok = TRUE,
                            !.case = service[requests[i].conversation].case]
<1>3. requests' = [requests EXCEPT ![i] = x]
  OBVIOUS
<1>4. /\ x \in Asked /\ x.phase = "answered" /\ x.kind = "restore"
      /\ x.generation = requests[i].generation /\ x.subject = requests[i].subject
      /\ x.conversation = requests[i].conversation
  BY <1>1, <1>2 DEF Asked
<1>5. x.awaited <=> requests[i].awaited
  BY <1>1 DEF Asked
<1> HIDE DEF x
<1>6. /\ requests' \in Seq(Asked) /\ DOMAIN requests' = DOMAIN requests
      /\ \A j \in DOMAIN requests : requests'[j] = IF j = i THEN x ELSE requests[j]
  BY <1>1, <1>3, <1>4, Replaced
<1>7. ChangeFrame(i)
  BY <1>4, <1>5, <1>6 DEF ChangeFrame
<1>8. /\ OneOpening' /\ PageIsBlank' /\ RetryingIsCleared' /\ ReadIsOfLog'
      /\ RunIsCleared' /\ BusyIsCleared' /\ OfferIsTrue'
  BY <1>7, ChangedKeeps DEF Opening
<1>9. RestType'
  BY <1>1, <1>6 DEF RestType
<1>10. \A j \in DOMAIN requests : requests'[j].kind \in Deciding => requests'[j] = requests[j]
  BY <1>4, <1>6 DEF Deciding
<1>11. RequestsAreKnown'
  <2>1. \A j \in DOMAIN requests :
          /\ requests'[j].kind = requests[j].kind
          /\ requests'[j].generation = requests[j].generation
          /\ requests'[j].conversation = requests[j].conversation
    BY <1>4, <1>6
  <2> QED BY ONLY RestInv, <1>0, <1>6, <1>10, <2>1 DEF RestInv, RequestsAreKnown
<1>12. DecidedIsOver'
  BY ONLY RestInv, <1>0, <1>6, <1>10 DEF RestInv, DecidedIsOver
<1> QED BY <1>8, <1>9, <1>11, <1>12, ServiceStays DEF RestInv

LEMMA CreateKeepsRest ==
  ASSUME RestInv, NEW i \in DOMAIN requests, requests[i].phase = "sent",
         requests[i].kind = "create", UNCHANGED <<page, persisted>>,
         service' = Append(service, NewConversation),
         requests' = [requests EXCEPT ![i].phase = "answered", ![i].ok = TRUE,
                                      ![i].conversation = Len(service')]
  PROVE  RestInv'
<1>1. requests \in Seq(Asked) /\ requests[i] \in Asked /\ RestType /\ service \in Seq(Served)
  BY DEF RestInv, RestType
<1> DEFINE N == Len(service) + 1
<1>2. /\ service' \in Seq(Served) /\ Len(service') = N /\ Len(service) \in Nat
      /\ DOMAIN service = 1 .. Len(service)
      /\ \A y \in DOMAIN service : y \in DOMAIN service' /\ service'[y] = service[y]
      /\ service'[N] = NewConversation
      /\ \A y \in DOMAIN service' : y \in DOMAIN service \/ y = N
  BY <1>1, BlankConversation, Added
<1>a. N \in Nat
  BY <1>2
<1> DEFINE x == [requests[i] EXCEPT !.phase = "answered", !.ok = TRUE, !.conversation = N]
<1>3. requests' = [requests EXCEPT ![i] = x]
  BY <1>2
<1> HIDE DEF N
<1>4. /\ x \in Asked /\ x.phase = "answered" /\ x.kind = "create"
      /\ x.generation = requests[i].generation /\ x.subject = requests[i].subject
      /\ x.conversation = N
  BY ONLY requests[i].kind = "create", <1>1, <1>a DEF Asked
<1>5. x.awaited <=> requests[i].awaited
  BY <1>1 DEF Asked
<1> HIDE DEF x
<1>6. /\ requests' \in Seq(Asked) /\ DOMAIN requests' = DOMAIN requests
      /\ \A j \in DOMAIN requests : requests'[j] = IF j = i THEN x ELSE requests[j]
  BY ONLY i \in DOMAIN requests, <1>1, <1>3, <1>4, Replaced
<1>7. ChangeFrame(i)
  BY <1>4, <1>5, <1>6 DEF ChangeFrame
<1>8. /\ OneOpening' /\ PageIsBlank' /\ RetryingIsCleared' /\ ReadIsOfLog'
      /\ RunIsCleared' /\ BusyIsCleared' /\ OfferIsTrue'
  BY <1>2, <1>7, ChangedKeeps DEF Opening
<1>9. RestType'
  BY <1>1, <1>2, <1>6 DEF RestType, N, Shown
<1>10. \A j \in DOMAIN requests : requests'[j].kind \in Deciding => requests'[j] = requests[j]
  BY <1>4, <1>6 DEF Deciding
<1>11. RequestsAreKnown'
  <2> SUFFICES ASSUME NEW j \in DOMAIN requests
               PROVE  /\ requests'[j].generation <= page.generation
                      /\ requests'[j].conversation <= Len(service')
                      /\ requests'[j].kind # "create" => requests'[j].conversation # 0
                      /\ requests'[j].kind \in Deciding =>
                           LET z == requests'[j].conversation
                           IN  /\ \E k \in DOMAIN service'[z].log :
                                    CreatedAt(service'[z].log, k, requests'[j].subject)
                               /\ requests'[j].phase # "sent" =>
                                    requests'[j].case <= service'[z].case
    BY <1>6 DEF RequestsAreKnown
  <2>1. CASE j = i
    BY <1>2, <1>4, <1>6, <2>1 DEF RestInv, RequestsAreKnown, Deciding
  <2>2. CASE j # i
    <3>1. requests'[j] = requests[j] /\ requests[j] \in Asked
      BY <1>1, <1>6, <2>2
    <3>2. /\ requests[j].conversation <= Len(service) /\ requests[j].conversation \in Nat
          /\ requests[j].kind \in Deciding => requests[j].conversation # 0
      BY <3>1 DEF RestInv, RequestsAreKnown, Deciding, Asked
    <3>3. requests[j].kind \in Deciding =>
            service'[requests[j].conversation] = service[requests[j].conversation]
      BY <1>2, <3>2
    <3>4. requests[j].conversation <= Len(service')
      BY <1>2, <3>2 DEF N
    <3> QED BY <3>1, <3>3, <3>4 DEF RestInv, RequestsAreKnown
  <2> QED BY <2>1, <2>2
<1>12. DecidedIsOver'
  <2> SUFFICES ASSUME NEW j \in DOMAIN requests, requests'[j].kind \in Deciding,
                      requests'[j].phase # "sent", requests'[j].ok, requests'[j].case # 0,
                      NEW y \in DOMAIN service'
               PROVE  /\ service'[y].case = requests'[j].case =>
                           \/ service'[y].state = "free"
                           \/ service'[y].state = "retry" /\ service'[y].resumable
                      /\ Hangs(service'[y].log, requests'[j].case) =>
                           AwaitsRetry(service'[y], requests'[j].case) /\ service'[y].resumable
    BY <1>6 DEF DecidedIsOver
  <2>1. CASE y = N
    BY <1>2, <2>1, BlankConversation
  <2>2. CASE y \in DOMAIN service
    <3>1. requests'[j] = requests[j] /\ service'[y] = service[y]
      BY <1>2, <1>10, <2>2
    <3> QED BY <2>2, <3>1 DEF RestInv, DecidedIsOver
  <2> QED BY <1>2, <2>1, <2>2
<1>13. ServiceInv'
  <2>1. ASSUME NEW y \in DOMAIN service' PROVE ConversationInv(service'[y])
    BY <1>2, BlankConversation DEF RestInv, ServiceInv
  <2> QED BY <2>1 DEF ServiceInv
<1>14. CasesAreOwn'
  <2> SUFFICES ASSUME NEW y \in DOMAIN service', NEW z \in DOMAIN service', y # z,
                      service'[z].case # 0
               PROVE  /\ service'[y].case # service'[z].case
                      /\ \A k \in DOMAIN service'[y].log :
                           service'[y].log[k].case # service'[z].case
    BY DEF CasesAreOwn
  <2>1. z \in DOMAIN service /\ service'[z] = service[z]
    BY <1>2, BlankConversation
  <2>2. CASE y = N
    BY <1>2, <2>2, BlankConversation
  <2>3. CASE y \in DOMAIN service
    BY <1>2, <2>1, <2>3 DEF RestInv, CasesAreOwn
  <2> QED BY <1>2, <2>2, <2>3
<1> QED BY <1>8, <1>9, <1>11, <1>12, <1>13, <1>14 DEF RestInv

LEMMA OpenKeepsRest ==
  ASSUME RestInv, NEW i \in DOMAIN requests, Open(i)
  PROVE  RestInv'
  BY RestoreKeepsRest, CreateKeepsRest DEF Open

(* A Proposal expires. *)
LEMMA ExpiryKeepsRest ==
  ASSUME RestInv, NEW c \in DOMAIN service, ProposalExpires(c)
  PROVE  RestInv'
<1>1. service \in Seq(Served) /\ RestType /\ service[c] \in Served
  BY DEF RestInv, RestType
<1> DEFINE x == [service[c] EXCEPT !.late = TRUE]
<1>2. service' = [service EXCEPT ![c] = x] /\ UNCHANGED <<page, persisted, requests>>
  BY DEF ProposalExpires
<1>3. /\ x \in Served /\ x.state = service[c].state /\ x.case = service[c].case
      /\ x.proposal = service[c].proposal /\ x.log = service[c].log
  BY <1>1 DEF Served
<1>4. x.resumable <=> service[c].resumable
  BY <1>1 DEF Served
<1> HIDE DEF x
<1>5. /\ service' \in Seq(Served) /\ DOMAIN service' = DOMAIN service /\ Len(service') = Len(service)
      /\ \A y \in DOMAIN service : service'[y] = IF y = c THEN x ELSE service[y]
  BY <1>1, <1>2, <1>3, Replaced
<1>6. \A y \in DOMAIN service :
        /\ service'[y].state = service[y].state /\ service'[y].case = service[y].case
        /\ service'[y].proposal = service[y].proposal /\ service'[y].log = service[y].log
        /\ service'[y].resumable <=> service[y].resumable
  BY <1>3, <1>4, <1>5
<1>7. page.conversation # 0 => page.conversation \in DOMAIN service
  BY <1>1 DEF RestType, Shown
<1>8. RestType'
  BY <1>1, <1>2, <1>5 DEF RestType
<1>9. ServiceInv'
  <2>1. ASSUME NEW y \in DOMAIN service PROVE ConversationInv(service'[y])
    <3>1. ConversationInv(service[y])
      BY DEF RestInv, ServiceInv
    <3> QED BY <1>6, <3>1 DEF ConversationInv, LogIsOfItsCases, OpenProposalIsAwaited, RunsOfLogEnd,
                              CreatedBeforeClosed, OffersAreTrue, AwaitsRetry
  <2> QED BY <1>5, <2>1 DEF ServiceInv
<1>10. CasesAreOwn'
  BY <1>5, <1>6 DEF RestInv, CasesAreOwn
<1>11. RequestsAreKnown'
  <2>1. \A j \in DOMAIN requests : requests[j].kind \in Deciding =>
          requests[j].conversation \in DOMAIN service
    <3> SUFFICES ASSUME NEW j \in DOMAIN requests, requests[j].kind \in Deciding
                 PROVE  requests[j].conversation \in DOMAIN service
      OBVIOUS
    <3>1. requests[j].conversation # 0 /\ requests[j].conversation <= Len(service)
      BY DEF RestInv, RequestsAreKnown, Deciding
    <3>2. requests[j] \in Asked
      BY <1>1 DEF RestType
    <3> QED BY <1>1, <3>1, <3>2 DEF Asked
  <2> QED BY <1>2, <1>5, <1>6, <2>1 DEF RestInv, RequestsAreKnown
<1>12. DecidedIsOver'
  BY <1>2, <1>5, <1>6 DEF RestInv, DecidedIsOver, AwaitsRetry
<1>13. ReadIsOfLog' /\ OneOpening' /\ PageIsBlank' /\ RetryingIsCleared'
  BY <1>2, <1>6, <1>7 DEF RestInv, ReadIsOfLog, OneOpening, PageIsBlank, RetryingIsCleared
<1>14. OfferIsTrue'
  BY <1>2, <1>6, <1>7 DEF RestInv, OfferIsTrue, AwaitsRetry
<1>15. RunIsCleared' /\ BusyIsCleared'
  <2>1. \A j : (Sent(j)' <=> Sent(j)) /\ (Refused(j)' <=> Refused(j))
    BY <1>2 DEF Sent, Refused
  <2>2. page.activeRun \/ page.busy # 0 => page.conversation # 0
    BY DEF RestInv, PageIsBlank
  <2> QED BY <1>2, <1>6, <1>7, <2>1, <2>2 DEF RestInv, RunIsCleared, BusyIsCleared
<1> QED BY <1>8, <1>9, <1>10, <1>11, <1>12, <1>13, <1>14, <1>15 DEF RestInv

-----------------------------------------------------------------------------
(* The page starts again, blank, under a new generation: the requests it sent
   keep what they were about. *)
LEMMA BlankPageRests ==
  ASSUME RestInv, UNCHANGED service, page' = [NewPage EXCEPT !.generation = page.generation + 1],
         persisted' \in 0 .. Len(service),
         NEW kind \in Opening, NEW c \in Nat, c <= Len(service), kind # "create" => c # 0,
         NEW n, n \notin DOMAIN requests, requests' \in Seq(Asked),
         DOMAIN requests' = DOMAIN requests \cup {n},
         requests'[n] = Request(kind, page.generation + 1, c, 0),
         \A j \in DOMAIN requests :
           /\ requests'[j].kind = requests[j].kind /\ requests'[j].subject = requests[j].subject
           /\ requests'[j].generation = requests[j].generation
           /\ requests'[j].conversation = requests[j].conversation
           /\ requests'[j].case = requests[j].case
           /\ requests'[j].phase # "sent" => requests[j].phase # "sent"
           /\ requests'[j].ok => requests[j].ok
  PROVE  RestInv'
<1>1. /\ page \in Shown /\ page.generation \in Nat /\ service \in Seq(Served)
      /\ requests \in Seq(Asked)
  BY DEF RestInv, RestType, Shown
<1>2. /\ page' \in Shown /\ page'.generation = page.generation + 1 /\ page'.conversation = 0
      /\ page'.read = 0 /\ page'.activeCase = 0 /\ page'.busy = 0 /\ page'.retrying = 0
  <2> DEFINE g == page.generation + 1
  <2>1. page' = [generation |-> g, conversation |-> 0, booting |-> TRUE, read |-> 0,
                 activeCase |-> 0, activeRun |-> FALSE, busy |-> 0, retrying |-> 0]
    BY DEF NewPage
  <2>2. g \in Nat
    BY <1>1
  <2> HIDE DEF g
  <2>3. page' \in Shown
    <3>1. 0 \in Nat /\ TRUE \in BOOLEAN /\ FALSE \in BOOLEAN
      OBVIOUS
    <3> QED BY ONLY <2>1, <2>2, <3>1, Zenon DEF Shown
  <2>4. /\ page'.generation = g /\ page'.conversation = 0 /\ page'.read = 0
        /\ page'.activeCase = 0 /\ page'.busy = 0 /\ page'.retrying = 0
    BY <2>1
  <2> QED BY <2>3, <2>4 DEF g
<1>3. ~page'.activeRun
  BY <1>1 DEF NewPage
<1>4. /\ requests'[n].kind = kind /\ requests'[n].generation = page.generation + 1
      /\ requests'[n].conversation = c /\ requests'[n].phase = "sent"
  BY DEF Request
<1>5. kind \notin Deciding
  BY DEF Opening, Deciding
<1>6. \A j \in DOMAIN requests : requests[j].generation <= page.generation
                                 /\ requests[j].generation \in Nat
  <2>1. \A j \in DOMAIN requests : requests[j] \in Asked
    BY <1>1
  <2>2. \A j \in DOMAIN requests : requests[j].generation \in Nat
    BY <2>1 DEF Asked
  <2>3. \A j \in DOMAIN requests : requests[j].generation <= page.generation
    BY DEF RestInv, RequestsAreKnown
  <2> QED BY <2>2, <2>3
<1>0. service' = service
  OBVIOUS
<1>7. RestType'
  <2>1. Len(service') \in Nat
    BY <1>0, <1>1
  <2> QED BY <1>0, <1>1, <1>2, <2>1 DEF RestType
<1>8. ReadIsOfLog' /\ PageIsBlank' /\ RunIsCleared' /\ BusyIsCleared' /\ RetryingIsCleared' /\ OfferIsTrue'
  BY <1>2, <1>3 DEF ReadIsOfLog, PageIsBlank, RunIsCleared, BusyIsCleared, RetryingIsCleared, OfferIsTrue
<1>9. OneOpening'
  <2>1. \A j \in DOMAIN requests' : requests'[j].generation = page'.generation => j = n
    BY <1>1, <1>2, <1>6
  <2> QED BY <1>2, <2>1 DEF OneOpening
<1>10. RequestsAreKnown'
  <2> SUFFICES ASSUME NEW j \in DOMAIN requests'
               PROVE  /\ requests'[j].generation <= page'.generation
                      /\ requests'[j].conversation <= Len(service')
                      /\ requests'[j].kind # "create" => requests'[j].conversation # 0
                      /\ requests'[j].kind \in Deciding =>
                           LET z == requests'[j].conversation
                           IN  /\ \E k \in DOMAIN service'[z].log :
                                    CreatedAt(service'[z].log, k, requests'[j].subject)
                               /\ requests'[j].phase # "sent" =>
                                    requests'[j].case <= service'[z].case
    BY DEF RequestsAreKnown
  <2>1. CASE j = n
    BY <1>0, <1>1, <1>2, <1>4, <1>5, <2>1
  <2>2. CASE j \in DOMAIN requests
    <3>1. requests[j].generation <= page.generation + 1
      BY <1>1, <1>6, <2>2
    <3> QED BY <1>0, <1>2, <2>2, <3>1 DEF RestInv, RequestsAreKnown
  <2> QED BY <2>1, <2>2
<1>11. DecidedIsOver'
  <2>1. ASSUME NEW j \in DOMAIN requests', requests'[j].kind \in Deciding
        PROVE  /\ j \in DOMAIN requests /\ requests[j].kind \in Deciding
               /\ requests[j].case = requests'[j].case
               /\ requests'[j].phase # "sent" => requests[j].phase # "sent"
               /\ requests'[j].ok => requests[j].ok
    BY <1>4, <1>5, <2>1
  <2> QED BY <1>0, <2>1 DEF RestInv, DecidedIsOver
<1> QED BY <1>7, <1>8, <1>9, <1>10, <1>11, ServiceStays DEF RestInv

(* The page sends a request in the conversation it shows. *)
LEMMA PostedRests ==
  ASSUME RestInv, UNCHANGED <<service, persisted>>, page.conversation # 0,
         NEW kind \in Kinds \ Opening, NEW subject \in Nat,
         kind \in Deciding =>
           \E j \in DOMAIN service[page.conversation].log :
             CreatedAt(service[page.conversation].log, j, subject),
         requests' = Append(requests, Request(kind, page.generation, page.conversation, subject)),
         page' \in Shown, page'.generation = page.generation,
         page'.conversation = page.conversation, page'.read = page.read,
         page'.activeCase = page.activeCase,
         page'.busy # 0 => page.busy # 0 \/ kind \in Deciding,
         page'.retrying # 0 => page.retrying # 0 \/ kind = "retry"
  PROVE  RestInv'
<1> DEFINE r == Request(kind, page.generation, page.conversation, subject)
<1>0. service' = service /\ persisted' = persisted
  OBVIOUS
<1>1. /\ page \in Shown /\ page.generation \in Nat /\ page.conversation \in Nat
      /\ service \in Seq(Served) /\ requests \in Seq(Asked) /\ page.conversation <= Len(service)
  BY DEF RestInv, RestType, Shown
<1>2. /\ r \in Asked /\ r.kind = kind /\ r.generation = page.generation
      /\ r.conversation = page.conversation /\ r.subject = subject /\ r.phase = "sent"
  BY <1>1 DEF Request, Asked
<1>a. r.awaited
  BY DEF Request
<1>b. requests' = Append(requests, r)
  OBVIOUS
<1> HIDE DEF r
<1>3. PICK n :
        /\ requests' \in Seq(Asked) /\ n \in DOMAIN requests' /\ requests'[n] = r
        /\ \A j \in DOMAIN requests : j \in DOMAIN requests' /\ requests'[j] = requests[j]
        /\ \A j \in DOMAIN requests' : j \in DOMAIN requests \/ j = n
  BY ONLY <1>1, <1>2, <1>b, Added
<1>4. Sent(n)' /\ n \in DOMAIN requests' /\ requests'[n].kind = kind
  <2>1. /\ requests'[n].awaited /\ requests'[n].phase = "sent"
        /\ requests'[n].generation = page.generation
        /\ requests'[n].conversation = page.conversation
    BY <1>2, <1>a, <1>3
  <2>2. page'.generation = page.generation /\ page'.conversation = page.conversation
    OBVIOUS
  <2>3. Sent(n)'
    BY <2>1, <2>2 DEF Sent
  <2> QED BY <1>2, <1>3, <2>3
<1>5. \A j \in DOMAIN requests : Sent(j) \/ Refused(j) => Sent(j)' \/ Refused(j)'
  BY <1>3 DEF Sent, Refused
<1>6. RestType' /\ ReadIsOfLog'
  BY <1>0, <1>1, <1>3 DEF RestInv, RestType, ReadIsOfLog
<1>7. RequestsAreKnown'
  <2> SUFFICES ASSUME NEW j \in DOMAIN requests'
               PROVE  /\ requests'[j].generation <= page'.generation
                      /\ requests'[j].conversation <= Len(service')
                      /\ requests'[j].kind # "create" => requests'[j].conversation # 0
                      /\ requests'[j].kind \in Deciding =>
                           LET z == requests'[j].conversation
                           IN  /\ \E k \in DOMAIN service'[z].log :
                                    CreatedAt(service'[z].log, k, requests'[j].subject)
                               /\ requests'[j].phase # "sent" =>
                                    requests'[j].case <= service'[z].case
    BY DEF RequestsAreKnown
  <2>1. CASE j = n
    <3>1. /\ requests'[j].generation = page.generation
          /\ requests'[j].conversation = page.conversation /\ requests'[j].kind = kind
          /\ requests'[j].subject = subject /\ requests'[j].phase = "sent"
      BY ONLY <1>2, <1>3, <2>1
    <3>2. page'.generation = page.generation /\ page.conversation # 0
      OBVIOUS
    <3>3. kind \in Deciding =>
            \E k \in DOMAIN service[page.conversation].log :
              CreatedAt(service[page.conversation].log, k, subject)
      OBVIOUS
    <3> QED BY ONLY <1>0, <1>1, <3>1, <3>2, <3>3
  <2>2. CASE j \in DOMAIN requests
    BY <1>0, <1>3, <2>2 DEF RestInv, RequestsAreKnown
  <2> QED BY <1>3, <2>1, <2>2
<1>8. OneOpening'
  <2>1. \A j \in DOMAIN requests' : requests'[j].kind \in Opening =>
          j \in DOMAIN requests /\ requests'[j] = requests[j]
    BY <1>2, <1>3
  <2>2. page'.generation = page.generation /\ page'.conversation = page.conversation
    OBVIOUS
  <2> QED BY ONLY RestInv, <2>1, <2>2 DEF RestInv, OneOpening
<1>9. DecidedIsOver'
  <2>1. \A j \in DOMAIN requests' : requests'[j].phase # "sent" =>
          j \in DOMAIN requests /\ requests'[j] = requests[j]
    BY <1>2, <1>3
  <2> QED BY ONLY RestInv, <1>0, <2>1 DEF RestInv, DecidedIsOver
<1>10. PageIsBlank'
  BY DEF PageIsBlank
<1>11. RunIsCleared'
  <2>1. kind \notin Opening
    OBVIOUS
  <2>2. \E i \in DOMAIN requests' : requests'[i].kind \notin Opening /\ (Sent(i)' \/ Refused(i)')
    BY <1>4, <2>1
  <2> QED BY <2>2 DEF RunIsCleared
<1>12. BusyIsCleared'
  <2> SUFFICES ASSUME page'.busy # 0
               PROVE  \/ \E j \in DOMAIN requests' : requests'[j].kind \in Deciding
                                                     /\ (Sent(j)' \/ Refused(j)')
                      \/ Settles(service'[page'.conversation].log, page'.read)
    BY DEF BusyIsCleared
  <2>1. CASE kind \in Deciding
    <3>1. requests'[n].kind \in Deciding
      BY <1>4, <2>1
    <3> QED BY <1>4, <3>1
  <2>2. CASE page.busy # 0
    <3>1. \/ \E j \in DOMAIN requests : requests[j].kind \in Deciding /\ (Sent(j) \/ Refused(j))
          \/ Settles(service[page.conversation].log, page.read)
      BY <2>2 DEF RestInv, BusyIsCleared
    <3> QED BY <1>0, <1>3, <1>5, <3>1
  <2> QED BY <2>1, <2>2
<1>13. RetryingIsCleared'
  <2> SUFFICES ASSUME page'.retrying # 0
               PROVE  \E j \in DOMAIN requests' :
                        /\ requests'[j].kind = "retry" /\ requests'[j].awaited
                        /\ requests'[j].phase # "done"
    BY DEF RetryingIsCleared
  <2>1. CASE kind = "retry"
    BY <1>2, <1>3, <1>a, <2>1
  <2>2. CASE page.retrying # 0
    BY <1>3, <2>2 DEF RestInv, RetryingIsCleared
  <2> QED BY <2>1, <2>2
<1>14. OfferIsTrue'
  BY <1>0 DEF RestInv, OfferIsTrue
<1> QED BY <1>0, <1>6, <1>7, <1>8, <1>9, <1>10, <1>11, <1>12, <1>13, <1>14, ServiceStays DEF RestInv

LEMMA StartKeepsRest ==
  ASSUME RestInv, StartConversation
  PROVE  RestInv'
<1>1. /\ page.generation \in Nat /\ requests \in Seq(Asked) /\ service \in Seq(Served)
      /\ persisted \in 0 .. Len(service)
  BY DEF RestInv, RestType, Shown
<1> DEFINE r == Request("create", page.generation + 1, 0, 0)
           n == Len(requests) + 1
<1>2. /\ page' = [NewPage EXCEPT !.generation = page.generation + 1]
      /\ service' = service /\ persisted' = persisted /\ requests' = Append(requests, r)
  BY DEF StartConversation, Post, NewPage
<1>3. r \in Asked
  BY <1>1 DEF Request, Asked, Kinds
<1>4. Len(service) \in Nat
  BY <1>1
<1> HIDE DEF r
<1>5. /\ requests' \in Seq(Asked) /\ n \notin DOMAIN requests
      /\ DOMAIN requests' = DOMAIN requests \cup {n} /\ requests'[n] = r
      /\ \A j \in DOMAIN requests : requests'[j] = requests[j]
  BY ONLY <1>1, <1>2, <1>3, Added
<1> HIDE DEF n
<1>6. /\ "create" \in Opening /\ 0 \in Nat /\ 0 <= Len(service) /\ persisted' \in 0 .. Len(service)
      /\ requests'[n] = Request("create", page.generation + 1, 0, 0)
      /\ UNCHANGED service
  BY <1>1, <1>2, <1>4, <1>5 DEF Opening, r
<1>7. \A j \in DOMAIN requests :
           /\ requests'[j].kind = requests[j].kind /\ requests'[j].subject = requests[j].subject
           /\ requests'[j].generation = requests[j].generation
           /\ requests'[j].conversation = requests[j].conversation
           /\ requests'[j].case = requests[j].case
           /\ requests'[j].phase # "sent" => requests[j].phase # "sent"
           /\ requests'[j].ok => requests[j].ok
  BY <1>5
<1> QED BY ONLY RestInv, <1>2, <1>5, <1>6, <1>7, BlankPageRests

LEMMA ReloadKeepsRest ==
  ASSUME RestInv, Reload
  PROVE  RestInv'
<1>1. /\ page.generation \in Nat /\ requests \in Seq(Asked) /\ service \in Seq(Served)
      /\ persisted \in 0 .. Len(service)
  BY DEF RestInv, RestType, Shown
<1> DEFINE kind == IF persisted = 0 THEN "create" ELSE "restore"
           r == Request(kind, page.generation + 1, persisted, 0)
           n == Len(requests) + 1
           left == [i \in DOMAIN requests |-> [requests[i] EXCEPT !.awaited = FALSE]]
<1>2. /\ page' = [NewPage EXCEPT !.generation = page.generation + 1]
      /\ page'.generation = page.generation + 1
      /\ service' = service /\ persisted' = persisted
  BY DEF Reload, NewPage
<1>3. requests' = Append(left, r)
  BY <1>2 DEF Reload
<1>4. kind \in Opening /\ persisted \in Nat /\ persisted <= Len(service) /\ (kind # "create" => persisted # 0)
  <2>1. Len(service) \in Nat
    BY <1>1
  <2> QED BY <1>1, <2>1 DEF Opening
<1> HIDE DEF kind
<1>5. r \in Asked
  BY <1>1, <1>4 DEF Request, Asked, Kinds, Opening
<1>6. \A j \in DOMAIN requests : requests[j] \in Asked
  BY <1>1
<1>7. /\ left \in Seq(Asked) /\ DOMAIN left = DOMAIN requests /\ Len(left) = Len(requests)
      /\ \A j \in DOMAIN requests : left[j] = [requests[j] EXCEPT !.awaited = FALSE]
  <2>1. \A j \in DOMAIN requests : [requests[j] EXCEPT !.awaited = FALSE] \in Asked
    BY <1>6 DEF Asked
  <2>2. DOMAIN requests = 1 .. Len(requests) /\ Len(requests) \in Nat
    BY <1>1
  <2>3. left \in [1 .. Len(requests) -> Asked]
    BY <2>1, <2>2
  <2>4. left \in Seq(Asked) /\ Len(left) = Len(requests)
    BY <2>2, <2>3
  <2> QED BY <2>2, <2>3, <2>4
<1> HIDE DEF r, left
<1>8. /\ requests' \in Seq(Asked) /\ n \notin DOMAIN requests
      /\ DOMAIN requests' = DOMAIN requests \cup {n} /\ requests'[n] = r
      /\ \A j \in DOMAIN requests : requests'[j] = left[j]
  BY ONLY <1>3, <1>5, <1>7, Added
<1> HIDE DEF n
<1>9. \A j \in DOMAIN requests :
           /\ requests'[j].kind = requests[j].kind /\ requests'[j].subject = requests[j].subject
           /\ requests'[j].generation = requests[j].generation
           /\ requests'[j].conversation = requests[j].conversation
           /\ requests'[j].case = requests[j].case
           /\ requests'[j].phase # "sent" => requests[j].phase # "sent"
           /\ requests'[j].ok => requests[j].ok
  <2> SUFFICES ASSUME NEW j \in DOMAIN requests
               PROVE  /\ requests'[j].kind = requests[j].kind
                      /\ requests'[j].subject = requests[j].subject
                      /\ requests'[j].generation = requests[j].generation
                      /\ requests'[j].conversation = requests[j].conversation
                      /\ requests'[j].case = requests[j].case
                      /\ requests'[j].phase = requests[j].phase
                      /\ requests'[j].ok <=> requests[j].ok
    OBVIOUS
  <2> DEFINE y == [requests[j] EXCEPT !.awaited = FALSE]
  <2>1. requests[j] \in Asked /\ requests'[j] = y
    BY <1>6, <1>7, <1>8
  <2>2. /\ y.kind = requests[j].kind /\ y.subject = requests[j].subject
        /\ y.generation = requests[j].generation /\ y.conversation = requests[j].conversation
        /\ y.case = requests[j].case /\ y.phase = requests[j].phase
        /\ y.ok <=> requests[j].ok
    BY ONLY <2>1, ForgottenRequest
  <2> HIDE DEF y
  <2> QED BY ONLY <2>1, <2>2
<1>10. /\ persisted' \in 0 .. Len(service) /\ UNCHANGED service
       /\ requests'[n] = Request(kind, page.generation + 1, persisted, 0)
  BY <1>1, <1>2, <1>8 DEF r
<1> QED BY ONLY RestInv, <1>2, <1>4, <1>8, <1>9, <1>10, BlankPageRests

LEMMA SendKeepsRest ==
  ASSUME RestInv, SendMessage
  PROVE  RestInv'
<1>0. page \in Shown /\ page.conversation # 0
  BY DEF RestInv, RestType, SendMessage, CanSend
<1>1. /\ UNCHANGED <<service, persisted>> /\ page' = [page EXCEPT !.activeRun = TRUE]
      /\ requests' = Append(requests, Request("message", page.generation, page.conversation, 0))
  <2>1. Post("message", 0, [page EXCEPT !.activeRun = TRUE])
    BY DEF SendMessage
  <2>2. /\ [page EXCEPT !.activeRun = TRUE].generation = page.generation
        /\ [page EXCEPT !.activeRun = TRUE].conversation = page.conversation
    BY <1>0 DEF Shown
  <2> QED BY <2>1, <2>2 DEF Post
<1>2. /\ page'.generation = page.generation /\ page'.conversation = page.conversation
      /\ page'.read = page.read /\ page'.activeCase = page.activeCase
      /\ page'.busy = page.busy /\ page'.retrying = page.retrying
  BY <1>0, <1>1 DEF Shown
<1>3. page' \in Shown
  BY <1>0, <1>1 DEF Shown
<1>4. "message" \in Kinds \ Opening /\ "message" \notin Deciding /\ 0 \in Nat
  BY DEF Kinds, Opening, Deciding
<1> QED BY ONLY RestInv, <1>0, <1>1, <1>2, <1>3, <1>4, PostedRests

LEMMA DecideKeepsRest ==
  ASSUME RestInv, NEW kind \in Deciding, Decide(kind)
  PROVE  RestInv'
<1>0. page \in Shown /\ page.conversation # 0 /\ service \in Seq(Served)
  BY DEF RestInv, RestType, Decide
<1>1. PICK proposal \in 1 .. service[page.conversation].proposal :
         /\ DecisionOffered(proposal)
         /\ Post(kind, proposal, [page EXCEPT !.busy = proposal, !.activeRun = TRUE])
  BY DEF Decide
<1>2. page.conversation \in DOMAIN service
  BY <1>0 DEF RestInv, RestType, Shown
<1>3. service[page.conversation] \in Served
  BY <1>0, <1>2
<1>4. proposal \in Nat
  BY <1>1, <1>3 DEF Served
<1>5. \E j \in DOMAIN service[page.conversation].log :
        CreatedAt(service[page.conversation].log, j, proposal)
  <2> DEFINE log == service[page.conversation].log
  <2>1. PICK i \in DOMAIN Events : Events[i].type = "proposal_created" /\ Events[i].proposal = proposal
    BY <1>1 DEF DecisionOffered
  <2>2. log \in Seq(LogEvents) /\ page.read \in Nat /\ page.read <= Len(log)
    BY <1>0, <1>3 DEF Served, Shown, RestInv, ReadIsOfLog
  <2>3. Events = SubSeq(log, 1, page.read)
    BY <1>0 DEF Events
  <2> HIDE DEF log
  <2>4. i \in DOMAIN log /\ Events[i] = log[i]
    BY <2>1, <2>2, <2>3
  <2> QED BY <2>1, <2>4 DEF CreatedAt, log
<1>6. /\ UNCHANGED <<service, persisted>>
      /\ page' = [page EXCEPT !.busy = proposal, !.activeRun = TRUE]
      /\ requests' = Append(requests, Request(kind, page.generation, page.conversation, proposal))
  <2> DEFINE p == [page EXCEPT !.busy = proposal, !.activeRun = TRUE]
  <2>1. p.generation = page.generation /\ p.conversation = page.conversation
    BY <1>0 DEF Shown
  <2> QED BY <1>1, <2>1 DEF Post
<1>7. /\ page'.generation = page.generation /\ page'.conversation = page.conversation
      /\ page'.read = page.read /\ page'.activeCase = page.activeCase
      /\ page'.retrying = page.retrying
  BY <1>0, <1>6 DEF Shown
<1>8. page' \in Shown
  BY <1>0, <1>4, <1>6 DEF Shown
<1>9. kind \in Kinds \ Opening
  BY DEF Kinds, Opening, Deciding
<1> QED BY ONLY RestInv, <1>0, <1>4, <1>5, <1>6, <1>7, <1>8, <1>9, PostedRests

LEMMA RetryKeepsRest ==
  ASSUME RestInv, Retry
  PROVE  RestInv'
<1>0. page \in Shown /\ page.conversation # 0 /\ service \in Seq(Served)
  BY DEF RestInv, RestType, Retry
<1>1. PICK c \in 1 .. service[page.conversation].case :
         Post("retry", c, [page EXCEPT !.retrying = c, !.activeRun = TRUE])
  BY DEF Retry
<1>2. page.conversation \in DOMAIN service
  BY <1>0 DEF RestInv, RestType, Shown
<1>3. service[page.conversation] \in Served
  BY <1>0, <1>2
<1>4. c \in Nat
  BY <1>1, <1>3 DEF Served
<1>6. /\ UNCHANGED <<service, persisted>>
      /\ page' = [page EXCEPT !.retrying = c, !.activeRun = TRUE]
      /\ requests' = Append(requests, Request("retry", page.generation, page.conversation, c))
  <2> DEFINE p == [page EXCEPT !.retrying = c, !.activeRun = TRUE]
  <2>1. p.generation = page.generation /\ p.conversation = page.conversation
    BY <1>0 DEF Shown
  <2> QED BY <1>1, <2>1 DEF Post
<1>7. /\ page'.generation = page.generation /\ page'.conversation = page.conversation
      /\ page'.read = page.read /\ page'.activeCase = page.activeCase
      /\ page'.busy = page.busy
  BY <1>0, <1>6 DEF Shown
<1>8. page' \in Shown
  BY <1>0, <1>4, <1>6 DEF Shown
<1>9. "retry" \in Kinds \ Opening /\ "retry" \notin Deciding
  BY DEF Kinds, Opening, Deciding
<1> QED BY ONLY RestInv, <1>0, <1>4, <1>6, <1>7, <1>8, <1>9, PostedRests

(* The page reads the next event of the log. *)
LEMMA ReadKeepsRest ==
  ASSUME RestInv, ReadEvent
  PROVE  RestInv'
<1> DEFINE srv == service[page.conversation]
           log == srv.log
           k == page.read + 1
           e == log[k]
<1>0. page \in Shown /\ page.conversation # 0 /\ service \in Seq(Served)
  BY DEF RestInv, RestType, ReadEvent
<1>1. page.conversation \in DOMAIN service
  BY <1>0 DEF RestInv, RestType, Shown
<1>2. log \in Seq(LogEvents)
  <2>1. srv \in Served
    BY <1>0, <1>1
  <2> QED BY <2>1 DEF Served
<1>3. page.read \in Nat /\ page.read < Len(log)
  BY <1>0 DEF Shown, ReadEvent
<1>4. k \in DOMAIN log /\ k \in Nat /\ DOMAIN log \subseteq Nat /\ k <= Len(log)
  BY <1>2, <1>3
<1>5. e \in LogEvents
  BY <1>2, <1>4
<1>6. UNCHANGED <<persisted, requests, service>> /\ page' = [OnEvent(page, e) EXCEPT !.read = @ + 1]
  BY DEF ReadEvent
<1>7. ConversationInv(srv)
  BY <1>1 DEF RestInv, ServiceInv
<1>8. PICK pg : pg = page'
  OBVIOUS
<1>9. /\ pg.generation = page.generation /\ pg.conversation = page.conversation
      /\ pg.read = k /\ pg.retrying = page.retrying
      /\ pg.activeCase = IF e.type = "case_created" THEN e.case
                         ELSE IF e.type = "case_closed" /\ page.activeCase = e.case THEN 0
                         ELSE page.activeCase
      /\ pg.busy = IF e.type \in SettleTypes THEN 0 ELSE page.busy
  BY <1>0, <1>6, <1>8 DEF OnEvent, Shown, SettleTypes
<1>10. pg.activeRun <=> e.type = "run_started" \/ (page.activeRun /\ e.type \notin EndTypes)
  BY <1>0, <1>6, <1>8 DEF OnEvent, Shown, EndTypes
<1>11. pg \in Shown
  <2>1. e.case \in Nat
    BY <1>5 DEF LogEvents
  <2> HIDE DEF e, k
  <2>2. OnEvent(page, e) \in Shown
    BY <1>0, <2>1 DEF OnEvent, Shown
  <2>3. pg = [OnEvent(page, e) EXCEPT !.read = @ + 1]
    BY <1>6, <1>8
  <2> QED BY ONLY <2>2, <2>3 DEF Shown
<1>12. PICK lg : lg = log
  OBVIOUS
<1>13. PICK sv : sv = srv
  OBVIOUS
<1>a. service'[page'.conversation] = sv /\ sv.log = lg
  BY <1>6, <1>8, <1>9, <1>12, <1>13
<1>b. service' = service /\ requests' = requests /\ persisted' = persisted /\ page' = pg
  BY <1>6, <1>8
<1> HIDE DEF srv, log, e, k
<1>14. RestType' /\ ReadIsOfLog'
  <2>1. RestType'
    BY <1>b, <1>9, <1>11 DEF RestInv, RestType
  <2> QED BY <2>1, <1>a, <1>b, <1>9, <1>4, <1>12 DEF ReadIsOfLog
<1>15. RequestsAreKnown' /\ OneOpening' /\ DecidedIsOver' /\ RetryingIsCleared' /\ CasesAreOwn' /\ ServiceInv'
  BY <1>b, <1>9, ServiceStays DEF RestInv, RequestsAreKnown, OneOpening, DecidedIsOver, RetryingIsCleared
<1>16. PageIsBlank'
  BY <1>0, <1>b, <1>9 DEF PageIsBlank
<1>17. \A j : (Sent(j)' <=> Sent(j)) /\ (Refused(j)' <=> Refused(j))
  BY <1>b, <1>9 DEF Sent, Refused
<1>18. lg[k] = e /\ k \in DOMAIN lg /\ DOMAIN lg \subseteq Nat
       /\ \A j \in DOMAIN lg : j > page.read /\ j # k => j > k
  BY <1>3, <1>4, <1>12 DEF e, k
<1>19. RunIsCleared'
  <2> SUFFICES ASSUME pg.activeRun
               PROVE  \/ \E i \in DOMAIN requests : requests[i].kind \notin Opening /\ (Sent(i) \/ Refused(i))
                      \/ RunEnds(lg, k)
    BY <1>17, <1>a, <1>b, <1>9 DEF RunIsCleared
  <2>1. CASE e.type = "run_started"
    BY <1>7, <1>12, <1>13, <1>18, <1>a, <2>1 DEF ConversationInv, RunsOfLogEnd
  <2>2. CASE page.activeRun /\ e.type \notin EndTypes
    <3>1. \/ \E i \in DOMAIN requests : requests[i].kind \notin Opening /\ (Sent(i) \/ Refused(i))
          \/ RunEnds(lg, page.read)
      BY <2>2, <1>12, <1>13 DEF RestInv, RunIsCleared, log, srv
    <3> QED BY <1>18, <2>2, <3>1 DEF RunEnds
  <2> QED BY <1>10, <2>1, <2>2
<1>20. BusyIsCleared'
  <2> SUFFICES ASSUME pg.busy # 0
               PROVE  \/ \E i \in DOMAIN requests : requests[i].kind \in Deciding /\ (Sent(i) \/ Refused(i))
                      \/ Settles(lg, k)
    BY <1>17, <1>a, <1>b, <1>9 DEF BusyIsCleared
  <2>1. page.busy # 0 /\ e.type \notin SettleTypes
    BY <1>9
  <2>2. \/ \E i \in DOMAIN requests : requests[i].kind \in Deciding /\ (Sent(i) \/ Refused(i))
        \/ Settles(lg, page.read)
    BY <2>1, <1>12, <1>13 DEF RestInv, BusyIsCleared, log, srv
  <2> QED BY <1>18, <2>1, <2>2 DEF Settles
<1>21. OfferIsTrue'
  <2> SUFFICES ASSUME pg.activeCase # 0, Hangs(lg, pg.activeCase)
               PROVE  AwaitsRetry(sv, pg.activeCase) \/ Closes(lg, pg.activeCase, k)
    BY <1>a, <1>b, <1>9 DEF OfferIsTrue
  <2>1. CASE e.type = "case_created"
    <3>1. pg.activeCase = e.case /\ e.case \in Nat \ {0}
      BY <1>5, <1>9, <2>1 DEF LogEvents
    <3>2. AwaitsRetry(sv, e.case) \/ Closes(lg, e.case, 0)
      BY <1>7, <1>12, <1>13, <1>a, <3>1 DEF ConversationInv, OffersAreTrue
    <3>3. ASSUME Closes(lg, e.case, 0) PROVE Closes(lg, e.case, k)
      <4>1. PICK j \in DOMAIN lg : lg[j].type = "case_closed" /\ lg[j].case = e.case
        BY <3>3 DEF Closes
      <4>2. k < j
        BY <1>7, <1>13, <1>a, <1>18, <2>1, <4>1 DEF ConversationInv, CreatedBeforeClosed
      <4>3. j > k
        BY <4>1, <4>2, <1>18, <1>4
      <4> QED BY <4>1, <4>3 DEF Closes
    <3> QED BY <3>1, <3>2, <3>3
  <2>2. CASE e.type # "case_created"
    <3>1. /\ pg.activeCase = page.activeCase /\ page.activeCase # 0
          /\ ~(e.type = "case_closed" /\ e.case = page.activeCase)
      BY <1>9, <2>2
    <3>2. AwaitsRetry(sv, page.activeCase) \/ Closes(lg, page.activeCase, page.read)
      BY <1>0, <1>12, <1>13, <1>a, <3>1 DEF RestInv, OfferIsTrue, log, srv
    <3> QED BY <1>18, <3>1, <3>2 DEF Closes
  <2> QED BY <2>1, <2>2
<1> QED BY <1>14, <1>15, <1>16, <1>19, <1>20, <1>21 DEF RestInv

-----------------------------------------------------------------------------
(* An answer arrives: the request is over. *)
LEMMA DoneRequest ==
  ASSUME requests \in Seq(Asked), NEW i \in DOMAIN requests, requests[i].phase = "answered"
  PROVE  LET rest == [requests EXCEPT ![i].phase = "done"]
         IN  /\ rest \in Seq(Asked) /\ DOMAIN rest = DOMAIN requests /\ Len(rest) = Len(requests)
             /\ \A j \in DOMAIN requests : j # i => rest[j] = requests[j]
             /\ rest[i].phase = "done" /\ rest[i].kind = requests[i].kind
             /\ rest[i].generation = requests[i].generation
             /\ rest[i].conversation = requests[i].conversation
             /\ rest[i].subject = requests[i].subject /\ rest[i].case = requests[i].case
             /\ rest[i].ok <=> requests[i].ok
<1> DEFINE x == [requests[i] EXCEPT !.phase = "done"]
           rest == [requests EXCEPT ![i] = x]
<1>1. requests[i] \in Asked
  OBVIOUS
<1>2. /\ x \in Asked /\ x.phase = "done" /\ x.kind = requests[i].kind
      /\ x.generation = requests[i].generation /\ x.conversation = requests[i].conversation
      /\ x.subject = requests[i].subject /\ x.case = requests[i].case
  BY <1>1 DEF Asked
<1>3. x.ok <=> requests[i].ok
  BY <1>1 DEF Asked
<1>4. rest = [requests EXCEPT ![i].phase = "done"]
  OBVIOUS
<1> HIDE DEF x
<1>5. /\ rest \in Seq(Asked) /\ DOMAIN rest = DOMAIN requests /\ Len(rest) = Len(requests)
      /\ \A j \in DOMAIN requests : rest[j] = IF j = i THEN x ELSE requests[j]
  BY ONLY <1>2, requests \in Seq(Asked), i \in DOMAIN requests, Replaced
<1> HIDE DEF rest
<1>6. rest[i] = x /\ \A j \in DOMAIN requests : j # i => rest[j] = requests[j]
  BY <1>5
<1> QED BY <1>2, <1>3, <1>4, <1>5, <1>6

IsDone(i) ==
    /\ requests' \in Seq(Asked) /\ DOMAIN requests' = DOMAIN requests
    /\ \A j \in DOMAIN requests : j # i => requests'[j] = requests[j]
    /\ requests'[i].phase = "done" /\ requests'[i].kind = requests[i].kind
    /\ requests'[i].generation = requests[i].generation
    /\ requests'[i].conversation = requests[i].conversation
    /\ requests'[i].subject = requests[i].subject /\ requests'[i].case = requests[i].case
    /\ requests'[i].ok <=> requests[i].ok

LEMMA DoneKeepsRequests ==
  ASSUME RestInv, NEW i \in DOMAIN requests, requests[i].phase = "answered", IsDone(i),
         service' = service, page'.generation = page.generation,
         \/ page'.conversation = page.conversation
         \/ requests[i].kind \in Opening /\ requests[i].generation = page.generation
  PROVE  RequestsAreKnown' /\ OneOpening' /\ DecidedIsOver'
<1>1. \A j \in DOMAIN requests :
        /\ requests'[j].kind = requests[j].kind /\ requests'[j].subject = requests[j].subject
        /\ requests'[j].generation = requests[j].generation
        /\ requests'[j].conversation = requests[j].conversation
        /\ requests'[j].case = requests[j].case
        /\ requests'[j].phase # "sent" <=> requests[j].phase # "sent"
        /\ requests[j].phase = "done" => requests'[j].phase = "done"
  <2> SUFFICES ASSUME NEW j \in DOMAIN requests
               PROVE  /\ requests'[j].kind = requests[j].kind /\ requests'[j].subject = requests[j].subject
                      /\ requests'[j].generation = requests[j].generation
                      /\ requests'[j].conversation = requests[j].conversation
                      /\ requests'[j].case = requests[j].case
                      /\ requests'[j].phase # "sent" <=> requests[j].phase # "sent"
                      /\ requests[j].phase = "done" => requests'[j].phase = "done"
    OBVIOUS
  <2>1. CASE j = i
    BY <2>1 DEF IsDone
  <2>2. CASE j # i
    BY <2>2 DEF IsDone
  <2> QED BY <2>1, <2>2
<1>2. \A j \in DOMAIN requests : requests'[j].ok <=> requests[j].ok
  BY DEF IsDone
<1>3. DOMAIN requests' = DOMAIN requests /\ requests'[i].phase = "done"
  BY DEF IsDone
<1>4. RequestsAreKnown'
  BY <1>1, <1>3 DEF RestInv, RequestsAreKnown
<1>5. DecidedIsOver'
  BY <1>1, <1>2, <1>3 DEF RestInv, DecidedIsOver
<1>6. OneOpening'
  <2>1. CASE page'.conversation = page.conversation
    BY <1>1, <1>3, <2>1 DEF RestInv, OneOpening
  <2>2. CASE requests[i].kind \in Opening /\ requests[i].generation = page.generation
    <3>1. \A j \in DOMAIN requests :
            requests[j].kind \in Opening /\ requests[j].generation = page.generation => j = i
      BY <2>2 DEF RestInv, OneOpening
    <3> QED BY <1>1, <1>3, <3>1 DEF OneOpening
  <2> QED BY <2>1, <2>2
<1> QED BY <1>4, <1>5, <1>6

(* The answer to a request of the conversation: message, retry or decision. *)
LEMMA AnsweredRests ==
  ASSUME RestInv, NEW i \in DOMAIN requests, requests[i].phase = "answered", IsDone(i),
         requests[i].kind \notin Opening, requests[i].awaited,
         UNCHANGED <<service, persisted>>, page' = Answered(page, requests[i])
  PROVE  RestInv'
<1> DEFINE kind == requests[i].kind
<1>0. /\ page \in Shown /\ requests[i] \in Asked /\ service' = service /\ persisted' = persisted
  BY DEF RestInv, RestType
<1>1. PICK pg : pg = page'
  OBVIOUS
<1>2. kind \in {"message", "retry", "confirm", "decline"}
  BY <1>0 DEF Asked, Kinds, Opening
<1>3. /\ pg.generation = page.generation /\ pg.conversation = page.conversation
      /\ pg.read = page.read
      /\ pg.retrying = IF kind = "retry" THEN 0 ELSE page.retrying
  <2>1. CASE kind = "message"
    BY <1>0, <1>1, <2>1 DEF Answered, Shown
  <2>2. CASE kind = "retry"
    BY <1>0, <1>1, <2>2 DEF Answered, Shown
  <2>3. CASE kind \in Deciding /\ requests[i].ok
    BY <1>0, <1>1, <2>3 DEF Answered, Shown, Deciding
  <2>4. CASE kind \in Deciding /\ ~requests[i].ok
    BY <1>0, <1>1, <2>4 DEF Answered, Shown, Deciding
  <2> QED BY <1>2, <2>1, <2>2, <2>3, <2>4 DEF Deciding
<1>4. /\ kind \in Deciding /\ requests[i].ok => pg.activeCase = requests[i].case
      /\ ~(kind \in Deciding /\ requests[i].ok) => pg.activeCase = page.activeCase
      /\ kind \in Deciding /\ ~requests[i].ok => pg.busy = 0
      /\ ~(kind \in Deciding /\ ~requests[i].ok) => pg.busy = page.busy
  <2>1. CASE kind = "message"
    BY <1>0, <1>1, <2>1 DEF Answered, Shown, Deciding
  <2>2. CASE kind = "retry"
    BY <1>0, <1>1, <2>2 DEF Answered, Shown, Deciding
  <2>3. CASE kind \in Deciding /\ requests[i].ok
    BY <1>0, <1>1, <2>3 DEF Answered, Shown, Deciding
  <2>4. CASE kind \in Deciding /\ ~requests[i].ok
    BY <1>0, <1>1, <2>4 DEF Answered, Shown, Deciding
  <2> QED BY <1>2, <2>1, <2>2, <2>3, <2>4 DEF Deciding
<1>5. pg.activeRun <=> page.activeRun /\ requests[i].ok
  <2>1. CASE kind = "message"
    BY <1>0, <1>1, <2>1 DEF Answered, Shown
  <2>2. CASE kind = "retry"
    BY <1>0, <1>1, <2>2 DEF Answered, Shown
  <2>3. CASE kind \in Deciding /\ requests[i].ok
    BY <1>0, <1>1, <2>3 DEF Answered, Shown, Deciding
  <2>4. CASE kind \in Deciding /\ ~requests[i].ok
    BY <1>0, <1>1, <2>4 DEF Answered, Shown, Deciding
  <2> QED BY <1>2, <2>1, <2>2, <2>3, <2>4 DEF Deciding
<1>6. pg \in Shown
  <2> DEFINE settle == [page EXCEPT !.activeRun = @ /\ requests[i].ok]
  <2>1. (page.activeRun /\ requests[i].ok) \in BOOLEAN
    OBVIOUS
  <2>2. settle \in Shown
    BY ONLY <1>0, <2>1 DEF Shown
  <2>3. requests[i].case \in Nat /\ 0 \in Nat
    BY <1>0 DEF Asked
  <2>4. pg \in {settle, [settle EXCEPT !.retrying = 0], [settle EXCEPT !.busy = 0],
                [settle EXCEPT !.activeCase = requests[i].case]}
    <3>1. CASE kind = "message"
      BY <1>1, <3>1 DEF Answered
    <3>2. CASE kind = "retry"
      BY <1>1, <3>2 DEF Answered
    <3>3. CASE kind \in Deciding /\ requests[i].ok
      BY <1>1, <3>3 DEF Answered, Deciding
    <3>4. CASE kind \in Deciding /\ ~requests[i].ok
      BY <1>1, <3>4 DEF Answered, Deciding
    <3> QED BY <1>2, <3>1, <3>2, <3>3, <3>4 DEF Deciding
  <2> HIDE DEF settle
  <2>5. /\ [settle EXCEPT !.retrying = 0] \in Shown /\ [settle EXCEPT !.busy = 0] \in Shown
        /\ [settle EXCEPT !.activeCase = requests[i].case] \in Shown
    BY ONLY <2>2, <2>3 DEF Shown
  <2> QED BY <2>2, <2>4, <2>5
<1>7. PICK rq : rq = requests'
  OBVIOUS
<1>8. PICK kd : kd = kind
  OBVIOUS
<1> HIDE DEF kind
<1>9. \A j \in DOMAIN requests : j # i =>
        /\ j \in DOMAIN requests' /\ requests'[j] = requests[j]
        /\ (Sent(j) => Sent(j)') /\ (Refused(j) => Refused(j)')
  BY <1>1, <1>3 DEF IsDone, Sent, Refused
<1>10. ~Sent(i) /\ (Refused(i) <=> ~requests[i].ok)
  BY DEF Sent, Refused
<1>11. RestType' /\ ReadIsOfLog'
  BY <1>0, <1>1, <1>3, <1>6 DEF RestInv, RestType, ReadIsOfLog, IsDone
<1>12. RequestsAreKnown' /\ OneOpening' /\ DecidedIsOver'
  BY <1>0, <1>1, <1>3, DoneKeepsRequests
<1>13. PageIsBlank'
  BY <1>1, <1>3, <1>4, <1>5 DEF RestInv, PageIsBlank
<1>14. RunIsCleared'
  <2> SUFFICES ASSUME page'.activeRun
               PROVE  \/ \E j \in DOMAIN requests' :
                           requests'[j].kind \notin Opening /\ (Sent(j)' \/ Refused(j)')
                      \/ RunEnds(service[page.conversation].log, page.read)
    BY <1>0, <1>1, <1>3 DEF RunIsCleared
  <2>1. page.activeRun /\ requests[i].ok
    BY <1>1, <1>5
  <2>2. \/ \E j \in DOMAIN requests : requests[j].kind \notin Opening /\ (Sent(j) \/ Refused(j))
        \/ RunEnds(service[page.conversation].log, page.read)
    BY <2>1 DEF RestInv, RunIsCleared
  <2> QED BY <1>9, <1>10, <2>1, <2>2
<1>15. BusyIsCleared'
  <2> SUFFICES ASSUME page'.busy # 0
               PROVE  \/ \E j \in DOMAIN requests' :
                           requests'[j].kind \in Deciding /\ (Sent(j)' \/ Refused(j)')
                      \/ Settles(service[page.conversation].log, page.read)
    BY <1>0, <1>1, <1>3 DEF BusyIsCleared
  <2>1. page.busy # 0 /\ ~(requests[i].kind \in Deciding /\ ~requests[i].ok)
    BY <1>1, <1>4 DEF kind
  <2>2. \/ \E j \in DOMAIN requests : requests[j].kind \in Deciding /\ (Sent(j) \/ Refused(j))
        \/ Settles(service[page.conversation].log, page.read)
    BY <2>1 DEF RestInv, BusyIsCleared
  <2> QED BY <1>9, <1>10, <2>1, <2>2
<1>16. RetryingIsCleared'
  <2> SUFFICES ASSUME page'.retrying # 0
               PROVE  \E j \in DOMAIN requests' :
                        requests'[j].kind = "retry" /\ requests'[j].awaited /\ requests'[j].phase # "done"
    BY DEF RetryingIsCleared
  <2>1. page.retrying # 0 /\ requests[i].kind # "retry"
    BY <1>1, <1>3 DEF kind
  <2>2. \E j \in DOMAIN requests :
          requests[j].kind = "retry" /\ requests[j].awaited /\ requests[j].phase # "done"
    BY <2>1 DEF RestInv, RetryingIsCleared
  <2> QED BY <1>9, <2>1, <2>2
<1>17. OfferIsTrue'
  <2> SUFFICES ASSUME page.conversation # 0, pg.activeCase # 0,
                      Hangs(service[page.conversation].log, pg.activeCase)
               PROVE  \/ AwaitsRetry(service[page.conversation], pg.activeCase)
                      \/ Closes(service[page.conversation].log, pg.activeCase, page.read)
    BY <1>0, <1>1, <1>3 DEF OfferIsTrue
  <2>1. CASE requests[i].kind \in Deciding /\ requests[i].ok
    <3>1. page.conversation \in DOMAIN service
      BY <1>0 DEF RestInv, RestType, Shown
    <3>2. pg.activeCase = requests[i].case
      BY <1>4, <2>1 DEF kind
    <3> QED BY <2>1, <3>1, <3>2 DEF RestInv, DecidedIsOver
  <2>2. CASE ~(requests[i].kind \in Deciding /\ requests[i].ok)
    BY <1>4, <2>2 DEF RestInv, OfferIsTrue, kind
  <2> QED BY <2>1, <2>2
<1> QED BY <1>0, <1>11, <1>12, <1>13, <1>14, <1>15, <1>16, <1>17, ServiceStays DEF RestInv

(* The answer to the opening of a conversation. *)
LEMMA OpenedRests ==
  ASSUME RestInv, NEW i \in DOMAIN requests, requests[i].phase = "answered", IsDone(i),
         requests[i].kind \in Opening, service' = service, persisted' \in 0 .. Len(service),
         page' = Opened(page, requests[i])
  PROVE  RestInv'
<1> DEFINE r == requests[i]
<1>0. /\ page \in Shown /\ r \in Asked /\ r.conversation <= Len(service)
      /\ service \in Seq(Served) /\ UNCHANGED service
  BY DEF RestInv, RestType, RequestsAreKnown
<1>1. PICK pg : pg = page'
  OBVIOUS
<1>2. ASSUME pg.activeRun <=> page.activeRun, pg.generation = page.generation,
             pg.conversation = page.conversation, pg.read = page.read, pg.busy = page.busy,
             pg.retrying = page.retrying, pg.activeCase = page.activeCase, pg \in Shown
      PROVE  RestInv'
  <2>1. \A j \in DOMAIN requests : j # i =>
          /\ j \in DOMAIN requests' /\ requests'[j] = requests[j]
          /\ (Sent(j) => Sent(j)') /\ (Refused(j) => Refused(j)')
    BY <1>1, <1>2 DEF IsDone, Sent, Refused
  <2>2. r.kind \notin Deciding /\ r.kind # "retry"
    BY DEF Opening, Deciding
  <2>3. RestType' /\ ReadIsOfLog'
    BY <1>0, <1>1, <1>2 DEF RestInv, RestType, ReadIsOfLog, IsDone
  <2>4. RequestsAreKnown' /\ OneOpening' /\ DecidedIsOver'
    BY <1>1, <1>2, DoneKeepsRequests
  <2>5. PageIsBlank' /\ OfferIsTrue'
    BY <1>1, <1>2 DEF RestInv, PageIsBlank, OfferIsTrue
  <2>6. RunIsCleared'
    BY <1>1, <1>2, <2>1 DEF RestInv, RunIsCleared
  <2>7. BusyIsCleared'
    BY <1>1, <1>2, <2>1, <2>2 DEF RestInv, BusyIsCleared
  <2>8. RetryingIsCleared'
    BY <1>1, <1>2, <2>1, <2>2 DEF RestInv, RetryingIsCleared
  <2> QED BY <1>0, <2>3, <2>4, <2>5, <2>6, <2>7, <2>8, ServiceStays DEF RestInv
<1>3. CASE r.generation # page.generation
  <2>1. pg = page
    BY <1>1, <1>3 DEF Opened
  <2> QED BY <1>0, <1>2, <2>1
<1>4. CASE r.generation = page.generation /\ ~r.ok
  <2>1. pg = [page EXCEPT !.booting = FALSE]
    BY <1>1, <1>4 DEF Opened
  <2>2. /\ pg.generation = page.generation
        /\ pg.conversation = page.conversation /\ pg.read = page.read /\ pg.busy = page.busy
        /\ pg.retrying = page.retrying /\ pg.activeCase = page.activeCase
    BY <1>0, <2>1 DEF Shown
  <2>3. pg.activeRun <=> page.activeRun
    BY <1>0, <2>1 DEF Shown
  <2>4. pg \in Shown
    BY ONLY <1>0, <2>1 DEF Shown
  <2> QED BY <1>2, <2>2, <2>3, <2>4
<1>5. CASE r.generation = page.generation /\ r.ok
  <2>1. pg = [page EXCEPT !.conversation = r.conversation, !.activeCase = r.case, !.booting = FALSE]
    BY <1>1, <1>5 DEF Opened
  <2>2. page.conversation = 0
    BY <1>5 DEF RestInv, OneOpening
  <2>3. page.read = 0 /\ ~page.activeRun /\ page.busy = 0 /\ page.retrying = 0
    BY <2>2 DEF RestInv, PageIsBlank
  <2>4. /\ pg.generation = page.generation
        /\ pg.conversation = r.conversation /\ pg.read = 0 /\ pg.busy = 0
        /\ pg.retrying = 0 /\ pg.activeCase = r.case
    BY <1>0, <2>1, <2>3 DEF Shown
  <2>5. ~pg.activeRun
    BY <1>0, <2>1, <2>3 DEF Shown
  <2>6. r.conversation \in Nat /\ r.case \in Nat
    BY <1>0 DEF Asked
  <2>7. pg \in Shown
    BY ONLY <1>0, <2>1, <2>6 DEF Shown
  <2>8. RequestsAreKnown' /\ OneOpening' /\ DecidedIsOver'
    BY <1>1, <1>5, <2>4, DoneKeepsRequests
  <2>9. RestType'
    BY <1>0, <1>1, <2>4, <2>7 DEF RestType, IsDone
  <2>10. r.conversation # 0 => r.conversation \in DOMAIN service
    BY <1>0, <2>6
  <2>11. ReadIsOfLog'
    <3>1. ASSUME r.conversation # 0 PROVE 0 <= Len(service[r.conversation].log)
      <4>1. service[r.conversation] \in Served
        BY <1>0, <2>10, <3>1
      <4> QED BY <4>1 DEF Served
    <3> QED BY <1>0, <1>1, <2>4, <3>1 DEF ReadIsOfLog
  <2>12. PageIsBlank' /\ RunIsCleared' /\ BusyIsCleared' /\ RetryingIsCleared'
    BY <1>1, <2>4, <2>5 DEF PageIsBlank, RunIsCleared, BusyIsCleared, RetryingIsCleared
  <2>13. OfferIsTrue'
    <3> SUFFICES ASSUME r.conversation # 0, r.case # 0,
                        Hangs(service[r.conversation].log, r.case)
                 PROVE  \/ AwaitsRetry(service[r.conversation], r.case)
                        \/ Closes(service[r.conversation].log, r.case, 0)
      BY <1>0, <1>1, <2>4 DEF OfferIsTrue
    <3> QED BY <2>6, <2>10 DEF RestInv, ServiceInv, ConversationInv, OffersAreTrue
  <2> QED BY <1>0, <2>8, <2>9, <2>11, <2>12, <2>13, ServiceStays DEF RestInv
<1> QED BY <1>3, <1>4, <1>5

LEMMA DeliverKeepsRest ==
  ASSUME RestInv, NEW i \in DOMAIN requests, Deliver(i)
  PROVE  RestInv'
<1> DEFINE r == requests[i]
           forgotten == r.kind = "restore" /\ ~r.ok /\ r.generation = page.generation
           rest == [requests EXCEPT ![i].phase = "done"]
<1>1. /\ requests \in Seq(Asked) /\ r \in Asked /\ page \in Shown /\ service \in Seq(Served)
      /\ persisted \in 0 .. Len(service) /\ r.conversation <= Len(service)
      /\ page.generation \in Nat
  BY DEF RestInv, RestType, RequestsAreKnown, Shown
<1>2. /\ r.phase = "answered" /\ r.awaited /\ service' = service
      /\ page' = CASE forgotten -> [NewPage EXCEPT !.generation = page.generation + 1]
                   [] ~forgotten /\ r.kind \in Opening -> Opened(page, r)
                   [] OTHER -> Answered(page, r)
      /\ persisted' = IF forgotten THEN 0
                      ELSE IF r.kind = "create" /\ r.ok /\ r.generation = page.generation
                      THEN r.conversation ELSE persisted
      /\ requests' = IF forgotten
                     THEN Append(rest, Request("create", page.generation + 1, 0, 0))
                     ELSE rest
  BY DEF Deliver, Opening
<1>3. /\ rest \in Seq(Asked) /\ DOMAIN rest = DOMAIN requests /\ Len(rest) = Len(requests)
      /\ \A j \in DOMAIN requests : j # i => rest[j] = requests[j]
      /\ rest[i].phase = "done" /\ rest[i].kind = requests[i].kind
      /\ rest[i].generation = requests[i].generation
      /\ rest[i].conversation = requests[i].conversation
      /\ rest[i].subject = requests[i].subject /\ rest[i].case = requests[i].case
      /\ rest[i].ok <=> requests[i].ok
  BY ONLY <1>1, <1>2, i \in DOMAIN requests, DoneRequest
<1> HIDE DEF rest
<1>4. ASSUME ~forgotten PROVE IsDone(i)
  BY <1>2, <1>3, <1>4 DEF IsDone
<1>5. CASE ~forgotten /\ r.kind \in Opening
  <2>1. page' = Opened(page, r)
    BY <1>2, <1>5
  <2>2. persisted' \in 0 .. Len(service)
    <3>1. r.conversation \in Nat /\ Len(service) \in Nat
      BY <1>1 DEF Asked
    <3> QED BY <1>1, <1>2, <1>5, <3>1
  <2> QED BY <1>2, <1>4, <1>5, <2>1, <2>2, OpenedRests
<1>6. CASE r.kind \notin Opening
  <2>1. ~forgotten
    BY <1>6 DEF Opening
  <2>2. page' = Answered(page, r) /\ persisted' = persisted
    BY <1>2, <1>6, <2>1 DEF Opening
  <2> QED BY <1>2, <1>4, <1>6, <2>1, <2>2, AnsweredRests
<1>7. CASE forgotten
  <2>1. /\ page' = [NewPage EXCEPT !.generation = page.generation + 1] /\ persisted' = 0
        /\ requests' = Append(rest, Request("create", page.generation + 1, 0, 0))
    BY <1>2, <1>7
  <2> DEFINE n == Len(requests) + 1
             x == Request("create", page.generation + 1, 0, 0)
  <2>2. x \in Asked
    <3>1. page.generation + 1 \in Nat /\ 0 \in Nat /\ "create" \in Kinds
      BY <1>1 DEF Kinds
    <3> QED BY ONLY <3>1, FreshRequest
  <2> HIDE DEF x
  <2>3. /\ requests' \in Seq(Asked) /\ n \notin DOMAIN requests
        /\ DOMAIN requests' = DOMAIN requests \cup {n} /\ requests'[n] = x
        /\ \A j \in DOMAIN requests : requests'[j] = rest[j]
    <3>1. requests' = Append(rest, x)
      BY <2>1 DEF x
    <3> QED BY ONLY <1>3, <2>2, <3>1, Added
  <2> HIDE DEF n
  <2>4. \A j \in DOMAIN requests :
           /\ requests'[j].kind = requests[j].kind /\ requests'[j].subject = requests[j].subject
           /\ requests'[j].generation = requests[j].generation
           /\ requests'[j].conversation = requests[j].conversation
           /\ requests'[j].case = requests[j].case
           /\ requests'[j].phase # "sent" => requests[j].phase # "sent"
           /\ requests'[j].ok => requests[j].ok
    <3> SUFFICES ASSUME NEW j \in DOMAIN requests
                 PROVE  /\ rest[j].kind = requests[j].kind /\ rest[j].subject = requests[j].subject
                        /\ rest[j].generation = requests[j].generation
                        /\ rest[j].conversation = requests[j].conversation
                        /\ rest[j].case = requests[j].case
                        /\ rest[j].phase # "sent" => requests[j].phase # "sent"
                        /\ rest[j].ok => requests[j].ok
      BY <2>3
    <3> QED BY <1>2, <1>3
  <2>5. Len(service) \in Nat
    BY <1>1
  <2>6. /\ "create" \in Opening /\ 0 \in Nat /\ 0 <= Len(service) /\ persisted' \in 0 .. Len(service)
        /\ requests'[n] = Request("create", page.generation + 1, 0, 0) /\ UNCHANGED service
    BY <1>2, <2>1, <2>3, <2>5 DEF Opening, x
  <2> QED BY ONLY RestInv, <2>1, <2>3, <2>4, <2>6, BlankPageRests
<1> QED BY <1>5, <1>6, <1>7

LEMMA RestInvInit == PageInit => RestInv
<1> SUFFICES ASSUME PageInit PROVE RestInv
  OBVIOUS
<1> DEFINE r == Request("create", 1, 0, 0)
<1>1. /\ page = [NewPage EXCEPT !.generation = 1] /\ persisted = 0
      /\ requests = << r >> /\ service = << >>
  BY DEF PageInit
<1>2. r \in Asked /\ r.kind = "create" /\ r.generation = 1 /\ r.conversation = 0 /\ r.phase = "sent"
  BY DEF Request, Asked, Kinds
<1> HIDE DEF r
<1>3. requests \in Seq(Asked) /\ \A j \in DOMAIN requests : j = 1 /\ requests[j] = r
  BY <1>1, <1>2
<1>4. service \in Seq(Served) /\ Len(service) = 0 /\ DOMAIN service = {}
  BY <1>1
<1>5. /\ page.generation = 1 /\ page.conversation = 0 /\ page.read = 0 /\ page.busy = 0
      /\ page.retrying = 0
  BY <1>1 DEF NewPage
<1>6. ~page.activeRun
  BY <1>1 DEF NewPage
<1>7. page \in Shown
  <2>1. page = [generation |-> 1, conversation |-> 0, booting |-> TRUE, read |-> 0,
                activeCase |-> 0, activeRun |-> FALSE, busy |-> 0, retrying |-> 0]
    BY <1>1 DEF NewPage
  <2>2. 0 \in Nat /\ 1 \in Nat /\ TRUE \in BOOLEAN /\ FALSE \in BOOLEAN
    OBVIOUS
  <2> QED BY ONLY <2>1, <2>2, Zenon DEF Shown
<1>8. RestType /\ ReadIsOfLog
  BY <1>1, <1>3, <1>4, <1>5, <1>7 DEF RestType, ReadIsOfLog
<1>9. ServiceInv /\ CasesAreOwn
  BY <1>4 DEF ServiceInv, CasesAreOwn
<1>10. RequestsAreKnown /\ OneOpening /\ DecidedIsOver
  BY <1>2, <1>3, <1>4, <1>5 DEF RequestsAreKnown, OneOpening, DecidedIsOver, Deciding
<1>11. PageIsBlank /\ RunIsCleared /\ BusyIsCleared /\ RetryingIsCleared /\ OfferIsTrue
  BY <1>5, <1>6 DEF PageIsBlank, RunIsCleared, BusyIsCleared, RetryingIsCleared, OfferIsTrue
<1> QED BY <1>8, <1>9, <1>10, <1>11 DEF RestInv

LEMMA RestInvNext == RestInv /\ [PageNext]_pageVars => RestInv'
<1> SUFFICES ASSUME RestInv, [PageNext]_pageVars PROVE RestInv'
  OBVIOUS
<1>1. ASSUME NEW i \in DOMAIN requests, Serve(i) \/ Open(i) \/ LoseAnswer(i) \/ Deliver(i)
      PROVE  RestInv'
  BY <1>1, ServeKeepsRest, OpenKeepsRest, LoseAnswerKeepsRest, DeliverKeepsRest
<1>2. ASSUME NEW c \in DOMAIN service, ProposalExpires(c) PROVE RestInv'
  BY <1>2, ExpiryKeepsRest
<1>3. CASE ReadEvent
  BY <1>3, ReadKeepsRest
<1>4. CASE StartConversation \/ Reload
  BY <1>4, StartKeepsRest, ReloadKeepsRest
<1>5. CASE SendMessage \/ Decide("confirm") \/ Decide("decline") \/ Retry
  <2>1. "confirm" \in Deciding /\ "decline" \in Deciding
    BY DEF Deciding
  <2> QED BY <1>5, <2>1, SendKeepsRest, DecideKeepsRest, RetryKeepsRest
<1>6. CASE UNCHANGED pageVars
  <2>0. /\ page' = page /\ persisted' = persisted /\ requests' = requests /\ service' = service
    BY <1>6 DEF pageVars
  <2>1. RestType' /\ ReadIsOfLog'
    BY <2>0 DEF RestInv, RestType, ReadIsOfLog
  <2>2. RequestsAreKnown' /\ OneOpening' /\ DecidedIsOver'
    BY <2>0 DEF RestInv, RequestsAreKnown, OneOpening, DecidedIsOver
  <2>3. \A j : (Sent(j)' <=> Sent(j)) /\ (Refused(j)' <=> Refused(j))
    BY <2>0 DEF Sent, Refused
  <2>4. PageIsBlank' /\ RunIsCleared' /\ BusyIsCleared' /\ RetryingIsCleared' /\ OfferIsTrue'
    BY <2>0, <2>3 DEF RestInv, PageIsBlank, RunIsCleared, BusyIsCleared, RetryingIsCleared, OfferIsTrue
  <2> QED BY <2>0, <2>1, <2>2, <2>4, ServiceStays DEF RestInv
<1> QED BY <1>1, <1>2, <1>3, <1>4, <1>5, <1>6 DEF PageNext

LEMMA RestIsTrue == RestInv => PageComesToRest
<1> SUFFICES ASSUME RestInv, AtRest
             PROVE  LET srv == service[page.conversation]
                    IN  /\ page.busy = 0 /\ page.retrying = 0
                        /\ page.activeRun => EndedByTriage
                        /\ \A c \in 1 .. srv.case :
                             RetryOffered(c) => srv.state = "retry" /\ srv.case = c
                        /\ \A p \in 1 .. srv.proposal :
                             DecisionOffered(p) => srv.state = "confirm" /\ srv.proposal = p
  BY DEF PageComesToRest
<1> DEFINE srv == service[page.conversation]
           log == srv.log
<1>1. /\ page \in Shown /\ page.conversation # 0 /\ service \in Seq(Served)
      /\ page.conversation \in DOMAIN service /\ page.read = Len(log)
  BY DEF RestInv, RestType, Shown, AtRest
<1>2. srv \in Served
  BY <1>1
<1>3. log \in Seq(LogEvents)
  BY <1>2 DEF Served
<1>4. Events = log
  <2>1. Events = SubSeq(log, 1, page.read)
    BY <1>1 DEF Events
  <2>2. SubSeq(log, 1, Len(log)) = log
    BY <1>3
  <2> QED BY <1>1, <2>1, <2>2
<1>5. ConversationInv(srv)
  BY <1>1 DEF RestInv, ServiceInv
<1>6. \A i \in DOMAIN requests : ~Sent(i) /\ ~Refused(i)
  BY DEF AtRest, Sent, Refused
<1> HIDE DEF srv
<1>7. DOMAIN log = 1 .. Len(log) /\ Len(log) \in Nat /\ \A j \in DOMAIN log : ~(j > page.read)
  BY <1>1, <1>3
<1>8. page.busy = 0
  <2>1. ~Settles(log, page.read)
    BY <1>7 DEF Settles
  <2> QED BY <1>6, <2>1 DEF RestInv, BusyIsCleared, srv
<1>9. page.retrying = 0
  BY DEF RestInv, RetryingIsCleared, AtRest
<1>10. ASSUME page.activeRun PROVE EndedByTriage
  <2>1. RunEnds(log, page.read)
    BY <1>6, <1>10 DEF RestInv, RunIsCleared, srv
  <2>2. PICK i \in DOMAIN log :
          /\ log[i].type = "triage_failed"
          /\ \A j \in DOMAIN log :
               j > i => log[j].type \notin {"run_started", "run_succeeded", "run_failed"}
    BY <1>7, <2>1 DEF RunEnds, EndsInTriage
  <2>3. \A j \in i + 1 .. Len(log) : j \in DOMAIN log /\ j > i
    BY <1>7
  <2> QED BY <1>4, <2>2, <2>3 DEF EndedByTriage
<1>11. ASSUME NEW c \in 1 .. srv.case, RetryOffered(c)
       PROVE  srv.state = "retry" /\ srv.case = c
  <2>1. Hangs(log, c) /\ page.activeCase = c
    BY <1>4, <1>11 DEF RetryOffered, Hangs, HangTypes
  <2>2. c # 0
    OBVIOUS
  <2>3. AwaitsRetry(srv, c) \/ Closes(log, c, page.read)
    BY <1>1, <2>1, <2>2 DEF RestInv, OfferIsTrue, srv
  <2> QED BY <1>7, <2>3 DEF AwaitsRetry, Closes
<1>12. ASSUME NEW p \in 1 .. srv.proposal, DecisionOffered(p)
       PROVE  srv.state = "confirm" /\ srv.proposal = p
  <2>1. PICK i \in DOMAIN log : log[i].type = "proposal_created" /\ log[i].proposal = p
    BY <1>4, <1>12 DEF DecisionOffered
  <2>2. ~Settled(log, p)
    BY <1>4, <1>12 DEF DecisionOffered, Settled
  <2> QED BY <1>5, <2>1, <2>2 DEF ConversationInv, OpenProposalIsAwaited
<1> QED BY <1>8, <1>9, <1>10, <1>11, <1>12 DEF srv

(* handleEvent, handleConfirm and handleRetry of App.tsx: for any number of
   conversations, requests and reloads, in whatever order answers and events
   come and whatever answer is lost, a page that has received everything keeps
   no control busy, keeps its composer closed only after a failed triage, and
   offers only the retry and the decision that the service accepts. *)
THEOREM PageRests == StandaloneSpec => []PageComesToRest
<1>1. StandaloneInit => RestInv
  BY RestInvInit DEF StandaloneInit
<1> QED BY <1>1, RestIsTrue, PageSteps, RestInvNext, PTL DEF StandaloneSpec

-----------------------------------------------------------------------------
(* PolicyResolution *)

(* What the resolver answers is true of the corpus, if the candidates are
   clauses of it. *)
ResolutionHolds(status, clause, corpus, scope, time) ==
    LET authority == AuthoritySet(corpus, scope, time)
    IN  /\ status \notin {"citation_not_found", "citation_hash_mismatch", "valid"}
        /\ status = "APPLICABLE" => authority = {clause}
        /\ status = "NOT_APPLICABLE" => authority = {}
        /\ status = "VERSION_CONFLICT" => Cardinality(authority) > 1

LEMMA ResolverIsRight ==
  ASSUME NEW corpus \in Corpora, NEW candidates \in SUBSET corpus, NEW scope, NEW time
  PROVE  LET r == Resolve(corpus, candidates, scope, time)
         IN  ResolutionHolds(r.status, r.clause, corpus, scope, time)
<1> DEFINE authority == AuthoritySet(corpus, scope, time)
           r == Resolve(corpus, candidates, scope, time)
<1>1. \A c \in candidates : Lookup(corpus, Reference(c)) = {c}
  BY PolicyConstants DEF Lookup, Reference
<1>2. IsFiniteSet(authority) /\ Cardinality(authority) \in Nat
  <2>1. authority \subseteq corpus /\ IsFiniteSet(corpus)
    BY PolicyConstants DEF AuthoritySet
  <2> QED BY <2>1, FS_Subset, FS_CardinalityType
<1>3. CASE Cardinality({c.version : c \in authority}) > 1
  <2>1. r = Resolved("VERSION_CONFLICT", NoClause)
    BY <1>1, <1>3 DEF Resolve
  <2>2. /\ Cardinality({c.version : c \in authority}) <= Cardinality(authority)
        /\ Cardinality({c.version : c \in authority}) \in Nat
    <3> DEFINE f == [c \in authority |-> c.version]
    <3>1. f \in Surjection(authority, {c.version : c \in authority})
      BY DEF Surjection
    <3> HIDE DEF f
    <3> QED BY <1>2, <3>1, FS_Surjection, FS_CardinalityType
  <2>3. Cardinality(authority) > 1
    <3> HIDE DEF authority
    <3> QED BY <1>2, <1>3, <2>2
  <2> HIDE DEF authority
  <2> QED BY <2>1, <2>3 DEF Resolved, ResolutionHolds, authority
<1>4. CASE ~(Cardinality({c.version : c \in authority}) > 1) /\ Cardinality(authority) > 1
  <2>1. r = Resolved("duplicate_active_clause", NoClause)
    BY <1>1, <1>4 DEF Resolve
  <2> QED BY <2>1 DEF Resolved, ResolutionHolds
<1>5. CASE ~(Cardinality({c.version : c \in authority}) > 1) /\ ~(Cardinality(authority) > 1)
  <2>1. CASE authority = {}
    <3>1. r = Resolved("NOT_APPLICABLE", NoClause)
      BY <1>1, <1>5, <2>1 DEF Resolve
    <3> QED BY <2>1, <3>1 DEF Resolved, ResolutionHolds
  <2>2. CASE authority # {} /\ authority \subseteq candidates
    <3> DEFINE clause == CHOOSE c \in authority : TRUE
    <3>1. r = Resolved("APPLICABLE", clause)
      BY <1>1, <1>5, <2>2 DEF Resolve
    <3>2. authority = {clause}
      <4>1. clause \in authority
        BY <2>2
      <4> HIDE DEF clause, authority
      <4>2. Cardinality(authority) = 1
        BY <1>2, <1>5, <2>2, FS_EmptySet
      <4> QED BY <1>2, <4>1, <4>2, FS_Singleton
    <3> HIDE DEF clause
    <3> QED BY <3>1, <3>2 DEF Resolved, ResolutionHolds
  <2>3. CASE authority # {} /\ ~(authority \subseteq candidates)
    <3>1. r = Resolved("NO_HIT", NoClause)
      BY <1>1, <1>5, <2>3 DEF Resolve
    <3> QED BY <3>1 DEF Resolved, ResolutionHolds
  <2> QED BY <1>5, <2>1, <2>2, <2>3
<1> QED BY <1>3, <1>4, <1>5

(* A process answers from the clauses of the corpus it was deployed with,
   whatever the index file holds by then. *)
PolicyInv ==
    /\ deployed \in [Services -> Corpora]
    /\ DOMAIN cached = Services
    /\ \A s \in Services : cached[s] # NoIndex => cached[s].clauses = deployed[s]
    /\ ResolvesTheAuthority

LEMMA PolicyInvInit == PolicyInit => PolicyInv
  BY DEF PolicyInit, PolicyInv, ResolvesTheAuthority, NoAnswer

LEMMA PolicyInvNext == PolicyInv /\ [PolicyNext]_policyVars => PolicyInv'
<1> SUFFICES ASSUME PolicyInv, [PolicyNext]_policyVars PROVE PolicyInv'
  OBVIOUS
<1>1. ASSUME NEW s \in Services, LoadOrBuild(s) \/ OpenTmp(s) \/ WriteTmp(s) \/ ReplaceIndex(s)
      PROVE  PolicyInv'
  <2>1. UNCHANGED <<answer, deployed>>
    BY <1>1 DEF LoadOrBuild, OpenTmp, WriteTmp, ReplaceIndex
  <2>2. \/ UNCHANGED cached
        \/ \E index : cached' = [cached EXCEPT ![s] = index] /\ index.clauses = deployed[s]
    <3>1. CASE LoadOrBuild(s)
      BY <3>1 DEF LoadOrBuild, MatchesCurrent
    <3>2. CASE OpenTmp(s) \/ WriteTmp(s)
      BY <3>2 DEF OpenTmp, WriteTmp
    <3>3. CASE ReplaceIndex(s)
      <4>1. Index(deployed[s]).clauses = deployed[s]
        BY DEF Index
      <4>2. UNCHANGED cached \/ cached' = [cached EXCEPT ![s] = Index(deployed[s])]
        BY <3>3 DEF ReplaceIndex
      <4> QED BY <4>1, <4>2
    <3> QED BY <1>1, <3>1, <3>2, <3>3
  <2>3. ResolvesTheAuthority'
    BY <2>1 DEF PolicyInv, ResolvesTheAuthority
  <2> QED BY <2>1, <2>2, <2>3 DEF PolicyInv
<1>2. ASSUME NEW s \in Services, NEW corpus \in Corpora, Deploy(s, corpus)
      PROVE  PolicyInv'
  <2>1. ResolvesTheAuthority'
    BY <1>2 DEF Deploy, PolicyInv, ResolvesTheAuthority
  <2> QED BY <1>2, <2>1 DEF Deploy, PolicyInv
<1>3. ASSUME NEW s \in Services, NEW scope \in Scopes, Search(s, scope)
      PROVE  PolicyInv'
  <2>1. UNCHANGED <<deployed, cached>> /\ cached[s] # NoIndex /\ cached[s].clauses = deployed[s]
    BY <1>3 DEF Search, PolicyInv
  <2>2. PICK candidates \in SUBSET deployed[s] :
          \E r \in {Resolved("NO_HIT", NoClause), Resolve(deployed[s], candidates, scope, now)} :
          answer' = [kind |-> "search", corpus |-> deployed[s], scope |-> scope,
                     time |-> now, status |-> r.status, clause |-> r.clause]
    BY <1>3, <2>1 DEF Search
  <2>3. PICK result \in {Resolved("NO_HIT", NoClause),
                         Resolve(deployed[s], candidates, scope, now)} :
          answer' = [kind |-> "search", corpus |-> deployed[s], scope |-> scope,
                     time |-> now, status |-> result.status, clause |-> result.clause]
    BY <2>2
  <2>4. ResolutionHolds(result.status, result.clause, deployed[s], scope, now)
    <3>1. CASE result = Resolved("NO_HIT", NoClause)
      BY <3>1 DEF Resolved, ResolutionHolds
    <3>2. CASE result = Resolve(deployed[s], candidates, scope, now)
      BY <3>2, ResolverIsRight DEF PolicyInv
    <3> QED BY <3>1, <3>2
  <2>5. ResolvesTheAuthority'
    BY <2>3, <2>4 DEF ResolvesTheAuthority, ResolutionHolds
  <2> QED BY <2>1, <2>5 DEF PolicyInv
<1>4. ASSUME NEW s \in Services, NEW scope \in Scopes, ValidateBinding(s, scope)
      PROVE  PolicyInv'
  <2>1. answer' = [kind |-> "validation", corpus |-> deployed[s], scope |-> scope, time |-> now,
                   status |-> IF BindingHolds(deployed[s], scope, now) THEN "valid" ELSE "invalid",
                   clause |-> binding]
    BY <1>4 DEF ValidateBinding
  <2>2. BindingHolds(deployed[s], scope, now) => binding \in AuthoritySet(deployed[s], scope, now)
    BY DEF BindingHolds, AuthoritySet, Lookup
  <2>3. ResolvesTheAuthority'
    BY <2>1, <2>2 DEF ResolvesTheAuthority
  <2> QED BY <1>4, <2>3 DEF ValidateBinding, PolicyInv
<1>5. CASE Tick \/ UNCHANGED policyVars
  BY <1>5 DEF Tick, policyVars, PolicyInv, ResolvesTheAuthority
<1> QED BY <1>1, <1>2, <1>3, <1>4, <1>5 DEF PolicyNext

LEMMA PolicySteps == [StandaloneNext]_standaloneVars => [PolicyNext]_policyVars
  BY DEF StandaloneNext, standaloneVars, allParts, Fixed, policyVars

(* LocalPolicyIndexStore and PolicyResolver: for any corpora, processes,
   deployments, crashes and rankings, a citation is never refused for the
   index's sake, APPLICABLE is the one active clause, and an accepted binding
   is an active clause of the corpus deployed by then. *)
THEOREM PolicyResolvesTheAuthority == StandaloneSpec => []ResolvesTheAuthority
<1>1. StandaloneInit => PolicyInv
  BY PolicyInvInit DEF StandaloneInit
<1>2. PolicyInv => ResolvesTheAuthority
  BY DEF PolicyInv
<1> QED BY <1>1, <1>2, PolicySteps, PolicyInvNext, PTL DEF StandaloneSpec

-----------------------------------------------------------------------------
(* Rescue *)

LEMMA TotalIsSum == \A calls : TotalOf(calls) = SumOver(calls, Smokes)
  BY DEF TotalOf, SumOver

LEMMA SmokesFinite == IsFiniteSet(Smokes)
<1>1. 1 \in Int /\ 3 \in Int
  OBVIOUS
<1>2. IsFiniteSet(1..3)
  BY ONLY <1>1, FS_Interval
<1> QED BY <1>2 DEF Smokes

InSmoke == {"select", "call", "wait"}
SmokeResults == {"none", "passed", "failed", "blocked"}

Commands == [at : InSmoke \cup {"report", "down", "refused", "done"}, smoke : Smokes,
             attempts : Nat, fellBack : BOOLEAN, results : [Smokes -> SmokeResults]]

RescueType ==
    /\ rescue \in Commands
    /\ rescueLedger \in [bound : BOOLEAN, admitted : [Smokes -> Nat]]
    /\ rescueReport \in [status : {"none", "GO", "NO_GO"}, calls : Nat]
    /\ rescueSent \in [Smokes -> Nat]

(* The counter in memory is the number of admitted calls while a command
   works, and no command works on a ledger it did not begin. *)
CounterIsLedger ==
    /\ ~rescueLedger.bound => ~RescueWorks /\ SumOver(rescueLedger.admitted, Smokes) = 0
    /\ RescueWorks => /\ SumOver(rescueLedger.admitted, Smokes) = rescue.attempts
                      /\ rescueReport.status = "none"
    /\ SumOver(rescueLedger.admitted, Smokes) <= RescueCeiling

SentWereAdmitted ==
    /\ \A s \in Smokes : rescueSent[s] <= rescueLedger.admitted[s]
    /\ rescue.at = "call" => rescueSent[rescue.smoke] < rescueLedger.admitted[rescue.smoke]
    /\ rescue.at = "wait" => rescueSent[rescue.smoke] > 0

(* A smoke that passed made its calls, and is over. *)
SmokesInOrder ==
    /\ rescue.at \in InSmoke =>
         \A s \in Smokes : s >= rescue.smoke <=> rescue.results[s] = "none"
    /\ \A s \in Smokes : rescue.results[s] = "passed" =>
         /\ rescueSent[s] > 0
         /\ s \in SingleCall => rescueSent[s] = 1 /\ rescueLedger.admitted[s] = 1

(* The report speaks of calls after which no further one is made. *)
ReportIsLast ==
    rescueReport.status # "none" =>
      /\ rescueReport.calls >= SumOver(rescueSent, Smokes)
      /\ rescueReport.status = "GO" =>
           /\ \A s \in Smokes : rescueSent[s] > 0
           /\ \A s \in SingleCall : rescueSent[s] = 1

RescueInv == RescueType /\ CounterIsLedger /\ SentWereAdmitted /\ SmokesInOrder /\ ReportIsLast

LEMMA RescueInvInit == RescueInit => RescueInv
<1> SUFFICES ASSUME RescueInit PROVE RescueInv
  OBVIOUS
<1>1. RescueType
  BY DEF RescueInit, NoSmoke, RescueType, Commands, Smokes, SmokeResults, InSmoke
<1>2. SumOver(rescueLedger.admitted, Smokes) = 0
  BY SmokesFinite, SumOfZeros DEF RescueInit
<1>3. CounterIsLedger
  BY <1>2, RescueConstants DEF RescueInit, NoSmoke, CounterIsLedger, RescueWorks
<1>4. SentWereAdmitted /\ SmokesInOrder /\ ReportIsLast
  BY DEF RescueInit, NoSmoke, SentWereAdmitted, SmokesInOrder, ReportIsLast, InSmoke
<1> QED BY <1>1, <1>3, <1>4 DEF RescueInv

(* The end of a smoke. *)
LEMMA EndSmokeKeeps ==
  ASSUME RescueInv, NEW status \in {"passed", "failed"}, NEW early \in BOOLEAN,
         EndSmoke(status, early), rescue.at \in InSmoke,
         UNCHANGED <<rescueLedger, rescueReport, rescueSent>>,
         status = "passed" =>
           /\ rescueSent[rescue.smoke] > 0
           /\ rescue.smoke \in SingleCall =>
                rescueSent[rescue.smoke] = 1 /\ rescueLedger.admitted[rescue.smoke] = 1
  PROVE  RescueInv'
<1> DEFINE smoke == rescue.smoke
           results == [s \in Smokes |->
                         IF s = smoke THEN status
                         ELSE IF s > smoke /\ smoke = 1 /\ early THEN "blocked"
                         ELSE rescue.results[s]]
<1>1. /\ rescue.smoke \in Smokes /\ rescue.results \in [Smokes -> SmokeResults]
      /\ results \in [Smokes -> SmokeResults]
  BY DEF RescueInv, RescueType, Commands, SmokeResults
<1>2. /\ rescue'.results = results
      /\ rescue'.at \in {"select", "report"}
      /\ rescue'.at = "select" => \E s \in Smokes : results[s] = "none"
      /\ rescue'.smoke = IF smoke = 3 THEN 3 ELSE smoke + 1
      /\ rescue'.attempts = rescue.attempts
  BY DEF EndSmoke, RescueInv, RescueType, Commands
<1>3. RescueType'
  <2>1. /\ rescue' = [rescue EXCEPT !.results = results, !.fellBack = FALSE,
                         !.at = rescue'.at, !.smoke = rescue'.smoke]
        /\ rescue'.at \in {"select", "report"} /\ rescue'.smoke \in Smokes
    BY <1>1, <1>2 DEF EndSmoke, RescueInv, RescueType, Commands, Smokes
  <2> HIDE DEF results
  <2> QED BY <1>1, <2>1 DEF RescueInv, RescueType, Commands, InSmoke
<1>4. rescue'.at = "select" =>
        \A s \in Smokes : s >= rescue'.smoke <=> results[s] = "none"
  <2>1. \A s \in Smokes : s >= smoke <=> rescue.results[s] = "none"
    BY DEF RescueInv, SmokesInOrder
  <2>2. \A s \in Smokes : results[s] = "none" => s > smoke /\ ~(smoke = 1 /\ early)
    BY <1>1, <2>1 DEF Smokes
  <2>3. CASE smoke = 1 /\ early
    BY <1>2, <2>2, <2>3
  <2>4. CASE smoke = 3
    BY <1>2, <2>2, <2>4 DEF Smokes
  <2>5. CASE smoke # 3 /\ ~(smoke = 1 /\ early)
    BY <1>1, <1>2, <2>1, <2>5 DEF Smokes
  <2> QED BY <2>3, <2>4, <2>5
<1>5. SmokesInOrder'
  <2>1. \A s \in Smokes : results[s] = "passed" =>
          (s = smoke /\ status = "passed") \/ rescue.results[s] = "passed"
    OBVIOUS
  <2> HIDE DEF results
  <2> QED BY <1>2, <1>4, <2>1 DEF RescueInv, SmokesInOrder, InSmoke
<1> HIDE DEF results
<1>6. RescueWorks /\ RescueWorks'
  BY <1>2 DEF RescueWorks, InSmoke
<1>7. CounterIsLedger' /\ SentWereAdmitted' /\ ReportIsLast'
  BY <1>2, <1>6 DEF RescueInv, CounterIsLedger, SentWereAdmitted, ReportIsLast
<1> QED BY <1>3, <1>5, <1>7 DEF RescueInv

LEMMA AdmitRescueKeeps == ASSUME RescueInv, AdmitRescueCall PROVE RescueInv'
<1>1. CASE rescue.attempts >= RescueCeiling
  BY <1>1, EndSmokeKeeps DEF AdmitRescueCall, InSmoke
<1>2. CASE ~(rescue.attempts >= RescueCeiling)
  <2> DEFINE admitted == [rescueLedger.admitted EXCEPT ![rescue.smoke] = @ + 1]
  <2>1. /\ rescueLedger' = [rescueLedger EXCEPT !.admitted = admitted]
        /\ rescue' = [rescue EXCEPT !.at = "call", !.attempts = @ + 1]
        /\ UNCHANGED <<rescueReport, rescueSent>> /\ rescue.at = "select"
    BY <1>2 DEF AdmitRescueCall
  <2>2. /\ rescueLedger.admitted \in [Smokes -> Nat] /\ rescue.smoke \in Smokes
        /\ rescue.attempts \in Nat /\ RescueWorks
    BY <2>1 DEF RescueInv, RescueType, Commands, RescueWorks
  <2>3. /\ admitted \in [Smokes -> Nat]
        /\ SumOver(admitted, Smokes) = SumOver(rescueLedger.admitted, Smokes) + 1
        /\ \A s \in Smokes : admitted[s] = rescueLedger.admitted[s]
                                             + (IF s = rescue.smoke THEN 1 ELSE 0)
    BY <2>2, SumCounts, SmokesFinite
  <2> HIDE DEF admitted
  <2>4. /\ rescueLedger'.admitted = admitted /\ rescueLedger'.bound = rescueLedger.bound
        /\ rescue'.at = "call" /\ rescue'.smoke = rescue.smoke
        /\ rescue'.results = rescue.results /\ rescue'.attempts = rescue.attempts + 1
    BY <2>1 DEF RescueInv, RescueType, Commands
  <2>5. RescueType'
    <3>1. rescueLedger' \in [bound : BOOLEAN, admitted : [Smokes -> Nat]]
      BY <2>1, <2>3 DEF RescueInv, RescueType, Commands
    <3>2. rescue' \in Commands
      <4>1. /\ rescue.attempts + 1 \in Nat /\ "call" \in InSmoke
            /\ rescue' = [rescue EXCEPT !.at = "call", !.attempts = rescue.attempts + 1]
        BY <2>1, <2>2 DEF InSmoke
      <4> QED BY <4>1 DEF RescueInv, RescueType, Commands
    <3> QED BY <2>1, <3>1, <3>2 DEF RescueInv, RescueType, Commands
  <2>6. CounterIsLedger'
    BY <1>2, <2>1, <2>2, <2>3, <2>4, RescueConstants
    DEF RescueInv, CounterIsLedger, RescueWorks
  <2>7. SentWereAdmitted'
    BY <2>1, <2>2, <2>3, <2>4 DEF RescueInv, RescueType, Commands, SentWereAdmitted
  <2>8. SmokesInOrder'
    <3>1. \A s \in Smokes : rescue.results[s] = "passed" => s # rescue.smoke
      BY <2>1, <2>2 DEF RescueInv, SmokesInOrder, InSmoke, Smokes
    <3> QED BY <2>1, <2>2, <2>3, <2>4, <3>1
           DEF RescueInv, RescueType, Commands, SmokesInOrder, InSmoke
  <2>9. ReportIsLast'
    BY <2>1 DEF RescueInv, ReportIsLast
  <2> QED BY <2>5, <2>6, <2>7, <2>8, <2>9 DEF RescueInv
<1> QED BY <1>1, <1>2

LEMMA SendRescueKeeps == ASSUME RescueInv, SendRescueCall PROVE RescueInv'
<1>1. /\ rescueSent' = [rescueSent EXCEPT ![rescue.smoke] = @ + 1]
      /\ rescue' = [rescue EXCEPT !.at = "wait"]
      /\ UNCHANGED <<rescueLedger, rescueReport>> /\ rescue.at = "call"
  BY DEF SendRescueCall
<1>2. /\ rescueSent \in [Smokes -> Nat] /\ rescue.smoke \in Smokes
      /\ rescueLedger.admitted \in [Smokes -> Nat] /\ RescueWorks /\ RescueWorks'
      /\ rescueSent' \in [Smokes -> Nat]
      /\ \A s \in Smokes : rescueSent'[s] = rescueSent[s] + (IF s = rescue.smoke THEN 1 ELSE 0)
      /\ rescue'.smoke = rescue.smoke /\ rescue'.at = "wait" /\ rescue'.results = rescue.results
      /\ rescue'.attempts = rescue.attempts
  BY <1>1 DEF RescueInv, RescueType, Commands, RescueWorks
<1>3. RescueType'
  BY <1>1, <1>2 DEF RescueInv, RescueType, Commands, InSmoke
<1>4. CounterIsLedger' /\ ReportIsLast'
  BY <1>1, <1>2 DEF RescueInv, CounterIsLedger, ReportIsLast
<1>5. SentWereAdmitted'
  BY <1>1, <1>2 DEF RescueInv, SentWereAdmitted
<1>6. SmokesInOrder'
  <2>1. \A s \in Smokes : rescue.results[s] = "passed" => s # rescue.smoke
    BY <1>1, <1>2 DEF RescueInv, SmokesInOrder, InSmoke, Smokes
  <2> QED BY <1>1, <1>2, <2>1 DEF RescueInv, SmokesInOrder, InSmoke
<1> QED BY <1>3, <1>4, <1>5, <1>6 DEF RescueInv

(* A command that has asked for nothing yet, and the ways it comes about. *)
LEMMA NoSmokeIsTyped ==
  /\ NoSmoke \in Commands
  /\ NoSmoke.at = "down" /\ NoSmoke.attempts = 0
  /\ \A s \in Smokes : NoSmoke.results[s] = "none"
  BY DEF NoSmoke, Commands, InSmoke, Smokes, SmokeResults

LEMMA NoSmokeBegins ==
  ASSUME NEW results \in [Smokes -> SmokeResults]
  PROVE  /\ [NoSmoke EXCEPT !.at = "refused"] \in Commands
         /\ [NoSmoke EXCEPT !.at = "refused"].at = "refused"
         /\ [NoSmoke EXCEPT !.at = "refused"].results = NoSmoke.results
         /\ [NoSmoke EXCEPT !.at = "select"] \in Commands
         /\ [NoSmoke EXCEPT !.at = "select"].at = "select"
         /\ [NoSmoke EXCEPT !.at = "select"].attempts = NoSmoke.attempts
         /\ [NoSmoke EXCEPT !.at = "select"].results = NoSmoke.results
         /\ [NoSmoke EXCEPT !.at = "report", !.results = results] \in Commands
         /\ [NoSmoke EXCEPT !.at = "report", !.results = results].at = "report"
         /\ [NoSmoke EXCEPT !.at = "report", !.results = results].attempts = NoSmoke.attempts
         /\ [NoSmoke EXCEPT !.at = "report", !.results = results].results = results
<1>1. NoSmoke \in Commands
  BY NoSmokeIsTyped
<1>2. results \in [Smokes -> SmokeResults]
  OBVIOUS
<1> QED BY <1>1, <1>2 DEF Commands, InSmoke

LEMMA IdleRescueKeeps ==
  ASSUME RescueInv, rescue' \in Commands, rescue'.at \in {"down", "refused"},
         \A s \in Smokes : rescue'.results[s] = "none",
         UNCHANGED <<rescueLedger, rescueReport, rescueSent>>
  PROVE  RescueInv'
<1>1. ~RescueWorks' /\ rescue'.at \notin InSmoke
  BY DEF RescueWorks, InSmoke
<1>2. RescueType'
  BY DEF RescueInv, RescueType, Commands
<1>3. CounterIsLedger'
  BY <1>1 DEF RescueInv, CounterIsLedger
<1>4. SentWereAdmitted' /\ SmokesInOrder' /\ ReportIsLast'
  BY <1>1 DEF RescueInv, SentWereAdmitted, SmokesInOrder, ReportIsLast, InSmoke
<1> QED BY <1>2, <1>3, <1>4 DEF RescueInv

LEMMA RescueInvNext == RescueInv /\ [RescueNext]_rescueVars => RescueInv'
<1> SUFFICES ASSUME RescueInv, [RescueNext]_rescueVars PROVE RescueInv'
  OBVIOUS
<1>1. CASE StartRescue
  <2>1. CASE AlreadyExecuted
    <3>1. rescue' = [NoSmoke EXCEPT !.at = "refused"]
          /\ UNCHANGED <<rescueLedger, rescueReport, rescueSent>>
      BY <1>1, <2>1 DEF StartRescue, Preflighted
    <3>2. /\ rescue' \in Commands /\ rescue'.at = "refused"
          /\ rescue'.results = NoSmoke.results
      <4>1. NoSmoke.results \in [Smokes -> SmokeResults]
        BY NoSmokeIsTyped DEF Commands
      <4> QED BY <3>1, <4>1, NoSmokeBegins, Zenon
    <3> QED BY <3>1, <3>2, NoSmokeIsTyped, IdleRescueKeeps
  <2>2. CASE ~AlreadyExecuted
    <3>1. /\ rescueLedger' = [rescueLedger EXCEPT !.bound = TRUE]
          /\ rescueReport.status = "none" /\ ~rescueLedger.bound
          /\ UNCHANGED <<rescueReport, rescueSent>>
          /\ \/ rescue' = [NoSmoke EXCEPT !.at = "select"]
             \/ rescue' = [NoSmoke EXCEPT !.at = "report",
                                          !.results = [s \in Smokes |-> "blocked"]]
      BY <1>1, <2>2 DEF StartRescue, Preflighted, AlreadyExecuted
    <3>2. /\ rescueLedger'.bound /\ rescueLedger'.admitted = rescueLedger.admitted
          /\ rescueLedger' \in [bound : BOOLEAN, admitted : [Smokes -> Nat]]
      BY <3>1 DEF RescueInv, RescueType, Commands
    <3>3. /\ rescue' \in Commands /\ rescue'.attempts = 0
          /\ \/ rescue'.at = "select" /\ \A s \in Smokes : rescue'.results[s] = "none"
             \/ rescue'.at = "report" /\ \A s \in Smokes : rescue'.results[s] = "blocked"
      <4>1. [s \in Smokes |-> "blocked"] \in [Smokes -> SmokeResults]
        BY DEF SmokeResults
      <4>2. CASE rescue' = [NoSmoke EXCEPT !.at = "select"]
        <5>1. /\ rescue' \in Commands /\ rescue'.at = "select"
              /\ rescue'.attempts = NoSmoke.attempts
              /\ rescue'.results = NoSmoke.results
          BY <4>1, <4>2, NoSmokeBegins, Zenon
        <5> QED BY <5>1, NoSmokeIsTyped
      <4>3. CASE rescue' = [NoSmoke EXCEPT !.at = "report",
                                           !.results = [s \in Smokes |-> "blocked"]]
        <5>1. /\ rescue' \in Commands /\ rescue'.at = "report" /\ rescue'.attempts = 0
              /\ rescue'.results = [s \in Smokes |-> "blocked"]
          BY <4>1, <4>3, NoSmokeIsTyped, NoSmokeBegins, Zenon
        <5> QED BY <5>1
      <4> QED BY <3>1, <4>2, <4>3
    <3>4. rescue'.at = "select" => rescue'.smoke = 1
      BY <3>1 DEF NoSmoke
    <3>5. RescueType'
      BY <3>1, <3>2, <3>3 DEF RescueInv, RescueType, Commands
    <3>6. CounterIsLedger'
      BY <3>1, <3>2, <3>3 DEF RescueInv, CounterIsLedger
    <3>7. SmokesInOrder'
      <4>1. \A s \in Smokes : s >= 1 /\ rescue'.results[s] # "passed"
        BY <3>3 DEF Smokes
      <4> QED BY <3>3, <3>4, <4>1 DEF SmokesInOrder, InSmoke
    <3>8. SentWereAdmitted' /\ ReportIsLast'
      BY <3>1, <3>2, <3>3 DEF RescueInv, SentWereAdmitted, ReportIsLast
    <3> QED BY <3>5, <3>6, <3>7, <3>8 DEF RescueInv
  <2> QED BY <2>1, <2>2
<1>2. CASE AdmitRescueCall
  BY <1>2, AdmitRescueKeeps
<1>3. CASE SendRescueCall
  BY <1>3, SendRescueKeeps
<1>4. CASE RescueSchemaFailure \/ RescueCandidateRefused
  <2>1. CASE \E early \in BOOLEAN : EndSmoke("failed", early)
    BY <1>4, <2>1, EndSmokeKeeps DEF RescueSchemaFailure, RescueCandidateRefused, InSmoke
  <2>2. CASE \/ rescue' = [rescue EXCEPT !.at = "select", !.fellBack = TRUE]
             \/ rescue' = [rescue EXCEPT !.at = "select"]
    <3>1. /\ rescue'.at = "select" /\ rescue'.smoke = rescue.smoke /\ rescue.at = "wait"
          /\ rescue'.results = rescue.results /\ rescue'.attempts = rescue.attempts
          /\ UNCHANGED <<rescueLedger, rescueReport, rescueSent>>
      BY <1>4, <2>2 DEF RescueSchemaFailure, RescueCandidateRefused, RescueInv, RescueType, Commands
    <3>2. RescueType'
      BY <2>2, <3>1 DEF RescueInv, RescueType, Commands, InSmoke
    <3> QED BY <3>1, <3>2 DEF RescueInv, CounterIsLedger, SentWereAdmitted, SmokesInOrder,
            ReportIsLast, RescueWorks, InSmoke
  <2> QED BY <1>4, <2>1, <2>2 DEF RescueSchemaFailure, RescueCandidateRefused
<1>5. CASE RescueProviderFails \/ RescueRunFails
  BY <1>5, EndSmokeKeeps DEF RescueProviderFails, RescueRunFails, InSmoke
<1>6. CASE RescueCandidateAccepted
  <2>1. rescue.at = "wait" /\ UNCHANGED <<rescueLedger, rescueReport, rescueSent>>
    BY <1>6 DEF RescueCandidateAccepted
  <2>2. CASE \E early \in BOOLEAN : EndSmoke("failed", early)
    BY <2>1, <2>2, EndSmokeKeeps DEF InSmoke
  <2>3. CASE /\ rescue.smoke \in SingleCall => rescueLedger.admitted[rescue.smoke] = 1
             /\ EndSmoke("passed", FALSE)
    <3>1. /\ rescueSent[rescue.smoke] > 0
          /\ rescueSent[rescue.smoke] <= rescueLedger.admitted[rescue.smoke]
          /\ rescueSent[rescue.smoke] \in Nat
      BY <2>1 DEF RescueInv, RescueType, Commands, SentWereAdmitted
    <3>2. rescue.smoke \in SingleCall =>
            rescueSent[rescue.smoke] = 1 /\ rescueLedger.admitted[rescue.smoke] = 1
      BY <2>3, <3>1
    <3> QED BY <2>1, <2>3, <3>1, <3>2, EndSmokeKeeps DEF InSmoke
  <2> QED BY <1>6, <2>2, <2>3 DEF RescueCandidateAccepted
<1>7. CASE WriteRescueReport
  <2>1. /\ rescue' = [rescue EXCEPT !.at = "done"] /\ rescue.at = "report"
        /\ UNCHANGED <<rescueLedger, rescueSent>>
        /\ rescueReport' =
             [status |-> IF \A s \in Smokes : rescue.results[s] = "passed" THEN "GO" ELSE "NO_GO",
              calls |-> SumOver(rescueLedger.admitted, Smokes)]
    BY <1>7, TotalIsSum DEF WriteRescueReport
  <2>2. /\ SumOver(rescueSent, Smokes) <= SumOver(rescueLedger.admitted, Smokes)
        /\ SumOver(rescueLedger.admitted, Smokes) \in Nat
    BY SmokesFinite, SumIsMonotone, SumIsNatural
    DEF RescueInv, RescueType, Commands, SentWereAdmitted
  <2>3. /\ rescue'.at = "done" /\ rescue'.results = rescue.results /\ rescue'.smoke = rescue.smoke
        /\ RescueWorks /\ ~RescueWorks'
    BY <2>1 DEF RescueInv, RescueType, Commands, RescueWorks
  <2>4. RescueType'
    BY <2>1, <2>2 DEF RescueInv, RescueType, Commands, InSmoke
  <2>5. ReportIsLast'
    <3>1. rescueReport'.calls = SumOver(rescueLedger.admitted, Smokes)
          /\ (rescueReport'.status = "GO" => \A s \in Smokes : rescue.results[s] = "passed")
      BY <2>1
    <3>2. SingleCall \subseteq Smokes
      BY DEF SingleCall, Smokes
    <3> QED BY <2>1, <2>2, <3>1, <3>2 DEF RescueInv, SmokesInOrder, ReportIsLast
  <2>6. CounterIsLedger' /\ SentWereAdmitted' /\ SmokesInOrder'
    BY <2>1, <2>3 DEF RescueInv, CounterIsLedger, SentWereAdmitted, SmokesInOrder, InSmoke
  <2> QED BY <2>4, <2>5, <2>6 DEF RescueInv
<1>8. CASE CrashRescue
  BY <1>8, NoSmokeIsTyped, IdleRescueKeeps DEF CrashRescue
<1>9. CASE UNCHANGED rescueVars
  BY <1>9 DEF rescueVars, RescueInv, RescueType, Commands, CounterIsLedger, SentWereAdmitted,
     SmokesInOrder, ReportIsLast, RescueWorks
<1> QED BY <1>1, <1>2, <1>3, <1>4, <1>5, <1>6, <1>7, <1>8, <1>9 DEF RescueNext

LEMMA RescueSteps == [StandaloneNext]_standaloneVars => [RescueNext]_rescueVars
  BY DEF StandaloneNext, standaloneVars, allParts, Fixed, rescueVars

(* run_rescue: for any ceiling and any number of starts and crashes, the
   identity stays below the ceiling that one process counts, its report counts
   the calls that were made, and a GO rests on three smokes that asked. *)
THEOREM RescueStaysInBudget == StandaloneSpec => []RescueKeepsBudget
<1>1. StandaloneInit => RescueInv
  BY RescueInvInit DEF StandaloneInit
<1>2. RescueInv => RescueKeepsBudget
  <2> SUFFICES ASSUME RescueInv PROVE RescueKeepsBudget
    OBVIOUS
  <2>1. /\ SumOver(rescueSent, Smokes) <= SumOver(rescueLedger.admitted, Smokes)
        /\ SumOver(rescueLedger.admitted, Smokes) \in Nat /\ SumOver(rescueSent, Smokes) \in Nat
    BY SmokesFinite, SumIsMonotone, SumIsNatural
    DEF RescueInv, RescueType, Commands, SentWereAdmitted
  <2>2. SumOver(rescueSent, Smokes) <= RescueCeiling
    BY <2>1, RescueConstants DEF RescueInv, CounterIsLedger
  <2> QED BY <2>2, TotalIsSum DEF RescueInv, ReportIsLast, RescueKeepsBudget
<1> QED BY <1>1, <1>2, RescueSteps, RescueInvNext, PTL DEF StandaloneSpec

-----------------------------------------------------------------------------
(* Diagnostics *)

LEMMA AdmissionsIsSum == Admissions = SumOver(diagLedger.admitted, Inputs)
  BY DEF Admissions, SumOver

Working == {"next", "admit", "call", "wait", "verdict"}

DiagCommands ==
    [at : Working \cup {"down", "blocked", "failed", "passed"}, pass : {1, 2},
     todo : SUBSET Inputs, failed : SUBSET Inputs, passed : SUBSET Inputs,
     input : Inputs \cup {0}, revision : Revisions \cup {0}, manifest : Manifests \cup {0}]

DiagLedgers ==
    [admitted : [Inputs -> Nat], bound : [Revisions -> SUBSET Manifests],
     passes : SUBSET (Inputs \X Revisions \X Manifests)]

DiagType ==
    /\ diagLedger \in DiagLedgers
    /\ diag \in DiagCommands
    /\ diagSent \in [Inputs -> Nat]

(* Every call was admitted before it left, and no admission exceeds a limit. *)
DiagBudget ==
    /\ \A i \in Inputs : /\ diagSent[i] <= diagLedger.admitted[i]
                         /\ diagLedger.admitted[i] <= MaxAttempts
    /\ SumOver(diagLedger.admitted, Inputs) <= DiagCeiling
    /\ diag.at \in {"admit", "call", "wait"} => diag.input \in Inputs
    /\ diag.at = "admit" => diagLedger.admitted[diag.input] < MaxAttempts
    /\ diag.at = "call" => diagSent[diag.input] < diagLedger.admitted[diag.input]
    /\ diag.at = "wait" => diagSent[diag.input] > 0

(* A pass in the ledger was asked for, with the manifest of its revision. *)
PassesAreEarned ==
    \A pass \in diagLedger.passes : /\ diagSent[pass[1]] > 0
                                    /\ diagLedger.bound[pass[2]] = {pass[3]}

(* A command that got past its head is bound to its manifest, and counts the
   passes of its own revision. *)
CommandIsBound ==
    /\ diag.at \in Working \cup {"passed"} =>
         /\ diag.revision \in Revisions /\ diag.manifest \in Manifests
         /\ diagLedger.bound[diag.revision] = {diag.manifest}
         /\ \A i \in diag.passed : <<i, diag.revision, diag.manifest>> \in diagLedger.passes
    /\ diag.at = "passed" => diag.passed = Inputs

DiagInv == DiagType /\ DiagBudget /\ PassesAreEarned /\ CommandIsBound

LEMMA NoDiagIsTyped == NoDiag \in DiagCommands /\ NoDiag.at = "down"
  BY DEF NoDiag, DiagCommands

LEMMA DiagInvInit == DiagInit => DiagInv
<1> SUFFICES ASSUME DiagInit PROVE DiagInv
  OBVIOUS
<1>1. diagLedger \in DiagLedgers /\ diag \in DiagCommands /\ diag.at = "down"
  BY NoDiagIsTyped DEF DiagInit, DiagLedgers
<1>2. SumOver(diagLedger.admitted, Inputs) = 0
  BY DiagnosticConstants, SumOfZeros DEF DiagInit
<1>3. DiagBudget
  BY <1>1, <1>2, DiagnosticConstants DEF DiagInit, DiagBudget
<1> QED BY <1>1, <1>3 DEF DiagInit, DiagInv, DiagType, PassesAreEarned, CommandIsBound, Working

(* A step of the command that leaves the ledger alone. *)
LEMMA CommandMoves ==
  ASSUME DiagInv, UNCHANGED <<diagLedger, diagSent>>, diag' \in DiagCommands,
         diag'.at \in {"admit", "call", "wait"} => diag'.input \in Inputs,
         diag'.at = "admit" => diagLedger.admitted[diag'.input] < MaxAttempts,
         diag'.at \notin {"call", "wait"},
         diag'.at \in Working \cup {"passed"} =>
           /\ diag.at \in Working /\ diag'.passed = diag.passed
           /\ diag'.revision = diag.revision /\ diag'.manifest = diag.manifest,
         diag'.at = "passed" => diag.passed = Inputs
  PROVE  DiagInv'
<1>1. DiagType'
  BY DEF DiagInv, DiagType
<1>2. DiagBudget'
  BY DEF DiagInv, DiagBudget
<1>3. PassesAreEarned' /\ CommandIsBound'
  BY DEF DiagInv, PassesAreEarned, CommandIsBound
<1> QED BY <1>1, <1>2, <1>3 DEF DiagInv

LEMMA StartKeeps == ASSUME DiagInv, StartDiagnostics PROVE DiagInv'
<1>1. PICK revision \in Revisions : \E manifest \in Manifests, configured \in BOOLEAN :
        LET bound == diagLedger.bound[revision]
            start(at, passed) ==
                diag' = [NoDiag EXCEPT !.at = at, !.passed = passed, !.todo = Inputs \ passed,
                           !.revision = revision, !.manifest = manifest]
        IN  IF ~configured \/ (bound # {} /\ bound # {manifest})
            THEN start("blocked", {}) /\ UNCHANGED diagLedger
            ELSE /\ diagLedger' = [diagLedger EXCEPT !.bound[revision] = {manifest}]
                 /\ LET passed == PassedIds(revision)
                    IN  IF passed = Inputs THEN start("passed", passed)
                        ELSE IF Admissions >= DiagCeiling THEN start("failed", passed)
                        ELSE start("next", passed)
  BY DEF StartDiagnostics
<1>2. PICK manifest \in Manifests : \E configured \in BOOLEAN :
        LET bound == diagLedger.bound[revision]
            start(at, passed) ==
                diag' = [NoDiag EXCEPT !.at = at, !.passed = passed, !.todo = Inputs \ passed,
                           !.revision = revision, !.manifest = manifest]
        IN  IF ~configured \/ (bound # {} /\ bound # {manifest})
            THEN start("blocked", {}) /\ UNCHANGED diagLedger
            ELSE /\ diagLedger' = [diagLedger EXCEPT !.bound[revision] = {manifest}]
                 /\ LET passed == PassedIds(revision)
                    IN  IF passed = Inputs THEN start("passed", passed)
                        ELSE IF Admissions >= DiagCeiling THEN start("failed", passed)
                        ELSE start("next", passed)
  BY <1>1
<1> DEFINE Begun(at, passed) ==
             [NoDiag EXCEPT !.at = at, !.passed = passed, !.todo = Inputs \ passed,
                !.revision = revision, !.manifest = manifest]
<1>3. ASSUME NEW at \in {"blocked", "passed", "failed", "next"}, NEW passed \in SUBSET Inputs
      PROVE  /\ Begun(at, passed) \in DiagCommands /\ Begun(at, passed).at = at
             /\ Begun(at, passed).passed = passed
             /\ Begun(at, passed).revision = revision /\ Begun(at, passed).manifest = manifest
  BY DEF NoDiag, DiagCommands, Working
<1>4. UNCHANGED diagSent
  BY DEF StartDiagnostics
<1>5. CASE diag' = Begun("blocked", {}) /\ UNCHANGED diagLedger
  <2>1. diag' \in DiagCommands /\ diag'.at = "blocked"
    BY <1>3, <1>5
  <2> QED BY <1>4, <1>5, <2>1, CommandMoves DEF Working
<1>6. CASE ~(diag' = Begun("blocked", {}) /\ UNCHANGED diagLedger)
  <2> DEFINE passed == PassedIds(revision)
  <2>1. /\ diagLedger.bound[revision] = {} \/ diagLedger.bound[revision] = {manifest}
        /\ diagLedger' = [diagLedger EXCEPT !.bound[revision] = {manifest}]
        /\ \/ passed = Inputs /\ diag' = Begun("passed", passed)
           \/ diag' = Begun("failed", passed)
           \/ diag' = Begun("next", passed)
    BY <1>2, <1>6
  <2>2. passed \in SUBSET Inputs
    BY DEF PassedIds
  <2>3. /\ diag' \in DiagCommands /\ diag'.at \in {"passed", "failed", "next"}
        /\ diag'.passed = passed /\ diag'.revision = revision /\ diag'.manifest = manifest
        /\ diag'.at = "passed" => passed = Inputs
    <3> HIDE DEF Begun, passed
    <3> QED BY <1>3, <2>1, <2>2
  <2>4. /\ diagLedger' \in DiagLedgers
        /\ diagLedger'.admitted = diagLedger.admitted /\ diagLedger'.passes = diagLedger.passes
        /\ diagLedger'.bound[revision] = {manifest}
        /\ \A r \in Revisions \ {revision} : diagLedger'.bound[r] = diagLedger.bound[r]
    BY <2>1 DEF DiagInv, DiagType, DiagLedgers
  <2>5. PassesAreEarned'
    <3> SUFFICES ASSUME NEW pass \in diagLedger.passes
                 PROVE  diagSent[pass[1]] > 0 /\ diagLedger'.bound[pass[2]] = {pass[3]}
      BY <1>4, <2>4 DEF PassesAreEarned
    <3>1. pass[2] \in Revisions /\ diagSent[pass[1]] > 0 /\ diagLedger.bound[pass[2]] = {pass[3]}
      BY DEF DiagInv, DiagType, DiagLedgers, PassesAreEarned
    <3> QED BY <2>1, <2>4, <3>1
  <2>6. \A i \in passed : <<i, revision, manifest>> \in diagLedger.passes
    <3> SUFFICES ASSUME NEW i \in passed PROVE <<i, revision, manifest>> \in diagLedger.passes
      OBVIOUS
    <3>1. PICK pass \in diagLedger.passes : pass[1] = i /\ pass[2] = revision
      BY DEF PassedIds
    <3>2. pass = <<pass[1], pass[2], pass[3]>> /\ diagLedger.bound[revision] = {pass[3]}
      BY <3>1 DEF DiagInv, DiagType, DiagLedgers, PassesAreEarned
    <3>3. pass[3] = manifest
      BY <2>1, <3>2
    <3> QED BY <3>1, <3>2, <3>3
  <2> HIDE DEF passed, Begun
  <2>7. CommandIsBound'
    BY <2>3, <2>4, <2>6 DEF CommandIsBound
  <2>8. DiagType' /\ DiagBudget'
    BY <1>4, <2>3, <2>4 DEF DiagInv, DiagType, DiagBudget
  <2> QED BY <2>5, <2>7, <2>8 DEF DiagInv
<1> QED BY <1>5, <1>6

LEMMA NextInputKeeps == ASSUME DiagInv, NextInput PROVE DiagInv'
<1> DEFINE input == Min(diag.todo)
           rest == diag.todo \ {input}
<1>1. diag.at = "next" /\ UNCHANGED <<diagLedger, diagSent>> /\ diag \in DiagCommands
  BY DEF NextInput, DiagInv, DiagType
<1>2. \/ diag' = [diag EXCEPT !.pass = 2, !.todo = diag.failed]
      \/ diag' = [diag EXCEPT !.at = "verdict"]
      \/ /\ diag.todo # {}
         /\ diag' = [diag EXCEPT !.todo = rest, !.failed = @ \cup {input}]
      \/ /\ diag.todo # {} /\ ~(diagLedger.admitted[input] >= MaxAttempts)
         /\ diag' = [diag EXCEPT !.at = "admit", !.input = input, !.todo = rest]
  BY <1>1 DEF NextInput
<1>3. diag.todo # {} => input \in Inputs /\ rest \in SUBSET Inputs
  <2>1. diag.todo \subseteq Inputs /\ diag.todo \subseteq Nat
    BY <1>1, DiagnosticConstants DEF DiagCommands
  <2> QED BY <2>1, LeastNumber
<1> HIDE DEF input, rest
<1>4. CASE diag' = [diag EXCEPT !.pass = 2, !.todo = diag.failed]
  <2>1. /\ diag' \in DiagCommands /\ diag'.at = "next" /\ diag'.passed = diag.passed
        /\ diag'.revision = diag.revision /\ diag'.manifest = diag.manifest
    BY <1>1, <1>4 DEF DiagCommands
  <2> QED BY <1>1, <2>1, CommandMoves DEF Working
<1>5. CASE diag' = [diag EXCEPT !.at = "verdict"]
  <2>1. /\ diag' \in DiagCommands /\ diag'.at = "verdict" /\ diag'.passed = diag.passed
        /\ diag'.revision = diag.revision /\ diag'.manifest = diag.manifest
    BY <1>1, <1>5 DEF DiagCommands, Working
  <2> QED BY <1>1, <2>1, CommandMoves DEF Working
<1>6. CASE diag.todo # {} /\ diag' = [diag EXCEPT !.todo = rest, !.failed = @ \cup {input}]
  <2>1. /\ diag' \in DiagCommands /\ diag'.at = "next" /\ diag'.passed = diag.passed
        /\ diag'.revision = diag.revision /\ diag'.manifest = diag.manifest
    BY <1>1, <1>3, <1>6 DEF DiagCommands
  <2> QED BY <1>1, <2>1, CommandMoves DEF Working
<1>7. CASE /\ diag.todo # {} /\ ~(diagLedger.admitted[input] >= MaxAttempts)
           /\ diag' = [diag EXCEPT !.at = "admit", !.input = input, !.todo = rest]
  <2>1. /\ diag' \in DiagCommands /\ diag'.at = "admit" /\ diag'.passed = diag.passed
        /\ diag'.revision = diag.revision /\ diag'.manifest = diag.manifest
        /\ diag'.input = input
    BY <1>1, <1>3, <1>7 DEF DiagCommands, Working
  <2>2. diagLedger.admitted[input] < MaxAttempts
    BY <1>3, <1>7, DiagnosticConstants DEF DiagInv, DiagType, DiagLedgers
  <2> QED BY <1>1, <1>3, <1>7, <2>1, <2>2, CommandMoves DEF Working
<1> QED BY <1>2, <1>4, <1>5, <1>6, <1>7

LEMMA AdmitDiagnosticKeeps == ASSUME DiagInv, AdmitDiagnostic PROVE DiagInv'
<1>1. /\ diag.at = "admit" /\ UNCHANGED diagSent /\ diag \in DiagCommands
      /\ diag.input \in Inputs /\ diagLedger \in DiagLedgers
  BY DEF AdmitDiagnostic, DiagInv, DiagType, DiagBudget
<1>2. CASE /\ diag' = [diag EXCEPT !.at = "next", !.failed = @ \cup {diag.input}]
           /\ UNCHANGED diagLedger
  <2>1. /\ diag' \in DiagCommands /\ diag'.at = "next" /\ diag'.passed = diag.passed
        /\ diag'.revision = diag.revision /\ diag'.manifest = diag.manifest
    BY <1>1, <1>2 DEF DiagCommands, Working
  <2> QED BY <1>1, <1>2, <2>1, CommandMoves DEF Working
<1>3. CASE /\ ~(Admissions >= DiagCeiling)
           /\ diagLedger' = [diagLedger EXCEPT !.admitted[diag.input] = @ + 1]
           /\ diag' = [diag EXCEPT !.at = "call"]
  <2> DEFINE admitted == [diagLedger.admitted EXCEPT ![diag.input] = @ + 1]
  <2>1. /\ diagLedger.admitted \in [Inputs -> Nat]
        /\ diagLedger' = [diagLedger EXCEPT !.admitted = admitted]
    BY <1>1, <1>3 DEF DiagLedgers
  <2>2. /\ admitted \in [Inputs -> Nat]
        /\ SumOver(admitted, Inputs) = SumOver(diagLedger.admitted, Inputs) + 1
        /\ \A i \in Inputs : admitted[i] = diagLedger.admitted[i]
                                             + (IF i = diag.input THEN 1 ELSE 0)
    BY <1>1, <2>1, DiagnosticConstants, SumCounts
  <2>3. SumOver(diagLedger.admitted, Inputs) \in Nat
    BY <2>1, DiagnosticConstants, SumIsNatural
  <2> HIDE DEF admitted
  <2>4. /\ diagLedger' \in DiagLedgers /\ diagLedger'.admitted = admitted
        /\ diagLedger'.bound = diagLedger.bound /\ diagLedger'.passes = diagLedger.passes
    BY <1>1, <2>1, <2>2 DEF DiagLedgers
  <2>5. /\ diag' \in DiagCommands /\ diag'.at = "call" /\ diag'.passed = diag.passed
        /\ diag'.revision = diag.revision /\ diag'.manifest = diag.manifest
        /\ diag'.input = diag.input
    BY <1>1, <1>3 DEF DiagCommands, Working
  <2>6. DiagType'
    BY <1>1, <2>4, <2>5 DEF DiagInv, DiagType
  <2>7. DiagBudget'
    <3>1. SumOver(admitted, Inputs) <= DiagCeiling
      BY <1>3, <2>2, <2>3, AdmissionsIsSum, DiagnosticConstants
    <3>2. \A i \in Inputs : diagSent[i] <= admitted[i] /\ admitted[i] <= MaxAttempts
      BY <1>1, <2>1, <2>2, DiagnosticConstants DEF DiagInv, DiagType, DiagBudget
    <3>3. diagSent[diag.input] < admitted[diag.input]
      BY <1>1, <2>1, <2>2 DEF DiagInv, DiagType, DiagBudget
    <3> QED BY <1>1, <2>4, <2>5, <3>1, <3>2, <3>3 DEF DiagBudget
  <2>8. PassesAreEarned' /\ CommandIsBound'
    BY <1>1, <2>4, <2>5 DEF DiagInv, PassesAreEarned, CommandIsBound, Working
  <2> QED BY <2>6, <2>7, <2>8 DEF DiagInv
<1> QED BY <1>2, <1>3 DEF AdmitDiagnostic

LEMMA SendDiagnosticKeeps == ASSUME DiagInv, SendDiagnostic PROVE DiagInv'
<1>1. /\ diag.at = "call" /\ UNCHANGED diagLedger /\ diag \in DiagCommands
      /\ diag.input \in Inputs /\ diagLedger.admitted \in [Inputs -> Nat]
      /\ diagSent \in [Inputs -> Nat]
      /\ diagSent' = [diagSent EXCEPT ![diag.input] = @ + 1]
      /\ diag' = [diag EXCEPT !.at = "wait"]
  BY DEF SendDiagnostic, DiagInv, DiagType, DiagLedgers, DiagBudget
<1>2. /\ diagSent' \in [Inputs -> Nat]
      /\ \A i \in Inputs : diagSent'[i] = diagSent[i] + (IF i = diag.input THEN 1 ELSE 0)
  BY <1>1
<1>3. /\ diag' \in DiagCommands /\ diag'.at = "wait" /\ diag'.passed = diag.passed
      /\ diag'.revision = diag.revision /\ diag'.manifest = diag.manifest
      /\ diag'.input = diag.input
  BY <1>1 DEF DiagCommands, Working
<1>4. DiagType'
  BY <1>1, <1>2, <1>3 DEF DiagInv, DiagType
<1>5. DiagBudget'
  BY <1>1, <1>2, <1>3, DiagnosticConstants DEF DiagInv, DiagBudget
<1>6. PassesAreEarned'
  <2> SUFFICES ASSUME NEW pass \in diagLedger.passes
               PROVE  diagSent'[pass[1]] > 0 /\ diagLedger.bound[pass[2]] = {pass[3]}
    BY <1>1 DEF PassesAreEarned
  <2>1. pass[1] \in Inputs /\ diagSent[pass[1]] > 0 /\ diagLedger.bound[pass[2]] = {pass[3]}
    BY DEF DiagInv, DiagType, DiagLedgers, PassesAreEarned
  <2> QED BY <1>1, <1>2, <2>1
<1>7. CommandIsBound'
  BY <1>1, <1>3 DEF DiagInv, CommandIsBound, Working
<1> QED BY <1>4, <1>5, <1>6, <1>7 DEF DiagInv

LEMMA BoundaryKeeps == ASSUME DiagInv, Boundary PROVE DiagInv'
<1>1. /\ diag.at = "wait" /\ UNCHANGED diagSent /\ diag \in DiagCommands
      /\ diag.input \in Inputs /\ diagLedger \in DiagLedgers
      /\ diag.revision \in Revisions /\ diag.manifest \in Manifests
  BY DEF Boundary, DiagInv, DiagType, DiagBudget, CommandIsBound, Working
<1> DEFINE this == <<diag.input, diag.revision, diag.manifest>>
<1>2. PICK todo \in SUBSET Inputs, passed \in BOOLEAN :
        /\ diagLedger' = IF passed
              THEN [diagLedger EXCEPT !.passes = @ \cup {this}] ELSE diagLedger
        /\ diag' = [diag EXCEPT !.at = "next", !.todo = todo,
                      !.passed = IF passed THEN @ \cup {diag.input} ELSE @,
                      !.failed = IF passed THEN @ ELSE @ \cup {diag.input}]
  <2>1. diag.todo \in SUBSET Inputs
    BY <1>1 DEF DiagCommands
  <2> QED BY <2>1 DEF Boundary
<1>3. CASE ~passed
  <2>1. UNCHANGED diagLedger /\ diag' = [diag EXCEPT !.at = "next", !.todo = todo,
                                           !.failed = diag.failed \cup {diag.input}]
    BY <1>2, <1>3 DEF DiagCommands
  <2>2. /\ diag' \in DiagCommands /\ diag'.at = "next" /\ diag'.passed = diag.passed
        /\ diag'.revision = diag.revision /\ diag'.manifest = diag.manifest
    BY <1>1, <2>1 DEF DiagCommands, Working
  <2> QED BY <1>1, <2>1, <2>2, CommandMoves DEF Working
<1>4. CASE passed
  <2>1. /\ diagLedger' = [diagLedger EXCEPT !.passes = @ \cup {this}]
        /\ diag' = [diag EXCEPT !.at = "next", !.todo = todo,
                                !.passed = diag.passed \cup {diag.input}]
    BY <1>1, <1>2, <1>4 DEF DiagCommands
  <2>2. this \in Inputs \X Revisions \X Manifests
    BY <1>1
  <2>3. this[1] = diag.input /\ this[2] = diag.revision /\ this[3] = diag.manifest
    OBVIOUS
  <2>4. /\ diag' \in DiagCommands /\ diag'.at = "next"
        /\ diag'.passed = diag.passed \cup {diag.input}
        /\ diag'.revision = diag.revision /\ diag'.manifest = diag.manifest
    BY <1>1, <2>1 DEF DiagCommands, Working
  <2> HIDE DEF this
  <2>5. /\ diagLedger' \in DiagLedgers /\ diagLedger'.admitted = diagLedger.admitted
        /\ diagLedger'.bound = diagLedger.bound
        /\ diagLedger'.passes = diagLedger.passes \cup {this}
    BY <1>1, <2>1, <2>2 DEF DiagLedgers
  <2>6. DiagType' /\ DiagBudget'
    BY <1>1, <2>4, <2>5 DEF DiagInv, DiagType, DiagBudget
  <2>7. PassesAreEarned'
    BY <1>1, <2>3, <2>5 DEF DiagInv, PassesAreEarned, DiagBudget, CommandIsBound, Working
  <2>8. CommandIsBound'
    <3>1. <<diag.input, diag.revision, diag.manifest>> \in diagLedger'.passes
      BY <2>5 DEF this
    <3> QED BY <1>1, <2>4, <2>5, <3>1 DEF DiagInv, CommandIsBound, Working
  <2> QED BY <2>6, <2>7, <2>8 DEF DiagInv
<1> QED BY <1>3, <1>4

LEMMA DiagInvNext == DiagInv /\ [DiagNext]_diagVars => DiagInv'
<1> SUFFICES ASSUME DiagInv, [DiagNext]_diagVars PROVE DiagInv'
  OBVIOUS
<1>1. CASE Verdict
  <2>1. PICK at \in {"passed", "failed"} :
          /\ diag' = [diag EXCEPT !.at = at]
          /\ at = "passed" => diag.passed = Inputs
    BY <1>1 DEF Verdict
  <2>2. /\ diag' \in DiagCommands /\ diag'.at = at /\ diag'.passed = diag.passed
        /\ diag'.revision = diag.revision /\ diag'.manifest = diag.manifest
    BY <2>1 DEF DiagInv, DiagType, DiagCommands
  <2> QED BY <1>1, <2>1, <2>2, CommandMoves DEF Verdict, Working
<1>2. CASE CrashDiagnostics
  BY <1>2, NoDiagIsTyped, CommandMoves DEF CrashDiagnostics, Working
<1>3. CASE UNCHANGED diagVars
  BY <1>3 DEF diagVars, DiagInv, DiagType, DiagBudget, PassesAreEarned, CommandIsBound
<1> QED BY <1>1, <1>2, <1>3, StartKeeps, NextInputKeeps, AdmitDiagnosticKeeps,
           SendDiagnosticKeeps, BoundaryKeeps DEF DiagNext

LEMMA DiagSteps == [StandaloneNext]_standaloneVars => [DiagNext]_diagVars
  BY DEF StandaloneNext, standaloneVars, allParts, Fixed, diagVars

(* run_live_selector_diagnostics: for any finite set of inputs, any limits,
   revisions, manifests, starts and crashes, no more calls leave than the
   ceiling and the attempts allow, and a report that all inputs passed speaks
   of passes at its own revision and manifest. *)
THEOREM DiagnosticsStayInBudget == StandaloneSpec => []DiagnosticsKeepBudget
<1>1. StandaloneInit => DiagInv
  BY DiagInvInit DEF StandaloneInit
<1>2. DiagInv => DiagnosticsKeepBudget
  <2> SUFFICES ASSUME DiagInv PROVE DiagnosticsKeepBudget
    OBVIOUS
  <2>1. /\ SumOver(diagSent, Inputs) <= SumOver(diagLedger.admitted, Inputs)
        /\ SumOver(diagLedger.admitted, Inputs) \in Nat /\ SumOver(diagSent, Inputs) \in Nat
    BY DiagnosticConstants, SumIsMonotone, SumIsNatural
    DEF DiagInv, DiagType, DiagLedgers, DiagBudget
  <2>2. SumOver(diagSent, Inputs) <= DiagCeiling
    BY <2>1, DiagnosticConstants DEF DiagInv, DiagBudget
  <2>3. \A i \in Inputs : diagSent[i] <= MaxAttempts
    BY DiagnosticConstants DEF DiagInv, DiagType, DiagLedgers, DiagBudget
  <2>4. diag.at = "passed" => \A i \in Inputs :
          <<i, diag.revision, diag.manifest>> \in diagLedger.passes /\ diagSent[i] > 0
    <3> SUFFICES ASSUME diag.at = "passed", NEW i \in Inputs
                 PROVE  <<i, diag.revision, diag.manifest>> \in diagLedger.passes /\ diagSent[i] > 0
      OBVIOUS
    <3> DEFINE this == <<i, diag.revision, diag.manifest>>
    <3>1. this \in diagLedger.passes
      BY DEF DiagInv, CommandIsBound
    <3>2. this[1] = i
      OBVIOUS
    <3> HIDE DEF this
    <3>3. diagSent[i] > 0
      BY <3>1, <3>2 DEF DiagInv, PassesAreEarned
    <3> QED BY <3>1, <3>3 DEF this
  <2>5. (LET of(i) == diagSent[i] IN MapThenSumSet(of, Inputs)) = SumOver(diagSent, Inputs)
    BY DEF SumOver
  <2> QED BY <2>2, <2>3, <2>4, <2>5 DEF DiagnosticsKeepBudget
<1> QED BY <1>1, <1>2, DiagSteps, DiagInvNext, PTL DEF StandaloneSpec

-----------------------------------------------------------------------------
(* The campaign of a standalone behaviour is a campaign: what the theorems of
   Campaign_proofs say of the measurement programmes holds beside every other
   part. *)
THEOREM CampaignIsPart == StandaloneSpec => CampaignSpec
<1>1. StandaloneInit => CampaignInit
  BY DEF StandaloneInit
<1>2. [StandaloneNext]_standaloneVars => [CampaignNext]_campaignVars
  BY DEF StandaloneNext, standaloneVars, allParts, Fixed, campaignVars, disk, ghosts
<1> QED BY <1>1, <1>2, PTL DEF StandaloneSpec, CampaignSpec

-----------------------------------------------------------------------------
(* TriageRouting *)

LEMMA LeastOf ==
  ASSUME NEW T, T \subseteq Nat, T # {}
  PROVE  \E m \in T : \A k \in T : m <= k
<1>1. PICK n \in T : TRUE
  OBVIOUS
<1> DEFINE low == {k \in T : k <= n}
           B == {1 .. k : k \in low}
<1>2. IsFiniteSet(1 .. n) /\ B \subseteq SUBSET (1 .. n) /\ B # {}
  <2>1. n \in Nat /\ 1 \in Int /\ n \in Int
    BY <1>1
  <2>2. IsFiniteSet(1 .. n)
    BY <2>1, FS_Interval
  <2>3. \A k \in low : 1 .. k \in SUBSET (1 .. n)
    BY <2>1
  <2>4. n \in low
    BY <1>1, <2>1
  <2> QED BY <2>2, <2>3, <2>4
<1>3. PICK U \in B : \A V \in B : V \subseteq U => V = U
  <2> DEFINE S == 1 .. n
  <2>1. IsFiniteSet(S) /\ B \subseteq SUBSET S /\ B # {}
    BY <1>2
  <2> HIDE DEF B, S
  <2> QED BY ONLY <2>1, SmallestSet
<1>4. PICK m \in low : U = 1 .. m
  BY <1>3
<1>5. ASSUME NEW k \in T, k < m PROVE FALSE
  <2>1. 1 .. k \in B /\ 1 .. k \subseteq 1 .. m
    BY <1>1, <1>4, <1>5
  <2>2. 1 .. k = 1 .. m
    BY <1>3, <1>4, <2>1
  <2>3. m \in 1 .. m /\ m \notin 1 .. k
    BY <1>4, <1>5
  <2> QED BY <2>2, <2>3
<1> QED BY <1>4, <1>5

(* The position in s that the n-th element of a subsequence comes from. *)
Rank(P, i) == Cardinality({j \in P : j <= i})
Place(P, n) == CHOOSE i \in P : Rank(P, i) = n

LEMMA PlacesOf ==
  ASSUME NEW n \in Nat, NEW P, P \subseteq 1 .. n
  PROVE  /\ IsFiniteSet(P) /\ Cardinality(P) \in Nat
         /\ \A k \in 1 .. Cardinality(P) : Place(P, k) \in P /\ Rank(P, Place(P, k)) = k
         /\ \A i \in P : Rank(P, i) \in 1 .. Cardinality(P) /\ Place(P, Rank(P, i)) = i
<1> DEFINE N == Cardinality(P)
           f == [i \in P |-> Rank(P, i)]
<1>1. IsFiniteSet(P) /\ N \in Nat
  <2>1. n \in Int /\ 1 \in Int
    OBVIOUS
  <2>2. IsFiniteSet(1 .. n)
    BY <2>1, FS_Interval
  <2>3. IsFiniteSet(P)
    BY <2>2, FS_Subset
  <2> QED BY <2>3, FS_CardinalityType
<1>2. \A i \in P : IsFiniteSet({j \in P : j <= i}) /\ Rank(P, i) \in 1 .. N
  <2> SUFFICES ASSUME NEW i \in P
               PROVE  IsFiniteSet({j \in P : j <= i}) /\ Rank(P, i) \in 1 .. N
    OBVIOUS
  <2> DEFINE low == {j \in P : j <= i}
  <2>1. low \in SUBSET P /\ i \in low
    OBVIOUS
  <2>2. IsFiniteSet(low) /\ Cardinality(low) <= N
    BY <1>1, <2>1, FS_Subset
  <2>3. Cardinality(low) \in Nat /\ Cardinality(low) # 0
    BY <2>1, <2>2, FS_CardinalityType, FS_EmptySet
  <2> QED BY <1>1, <2>2, <2>3 DEF Rank
<1>3. \A i, k \in P : i < k => Rank(P, i) # Rank(P, k)
  <2> SUFFICES ASSUME NEW i \in P, NEW k \in P, i < k, Rank(P, i) = Rank(P, k)
               PROVE  FALSE
    OBVIOUS
  <2> DEFINE lo == {j \in P : j <= i}
             hi == {j \in P : j <= k}
  <2>1. lo \in SUBSET hi /\ k \in hi /\ k \notin lo
    <3>1. \A j \in P : j \in Int
      OBVIOUS
    <3>2. \A j \in P : j <= i => j <= k
      BY <3>1
    <3>3. k <= k /\ ~(k <= i)
      BY <3>1
    <3> QED BY ONLY k \in P, <3>2, <3>3
  <2>2. IsFiniteSet(hi) /\ Cardinality(lo) = Cardinality(hi)
    BY <1>2 DEF Rank
  <2> HIDE DEF lo, hi
  <2> QED BY <2>1, <2>2, FS_Subset
<1>4. \A i, k \in P : Rank(P, i) = Rank(P, k) => i = k
  <2>1. \A i, k \in P : i = k \/ i < k \/ k < i
    OBVIOUS
  <2> QED BY <1>3, <2>1
<1>5. f \in Injection(P, 1 .. N)
  BY <1>2, <1>4 DEF Injection, IsInjective
<1>6. IsFiniteSet(1 .. N) /\ Cardinality(1 .. N) = N
  BY <1>1, FS_Interval
<1>7. f \in Surjection(P, 1 .. N)
  <2> HIDE DEF f
  <2> QED BY <1>5, <1>6, FS_Injection
<1>8. \A k \in 1 .. N : \E i \in P : Rank(P, i) = k
  BY <1>7 DEF Surjection
<1>9. \A k \in 1 .. N : Place(P, k) \in P /\ Rank(P, Place(P, k)) = k
  BY <1>8 DEF Place
<1> QED BY <1>1, <1>2, <1>4, <1>9

(* Subsequence takes the elements at P, each place of P once. *)
LEMMA SubsequenceTakes ==
  ASSUME NEW S, NEW s \in Seq(S), NEW P, P \subseteq DOMAIN s
  PROVE  LET t == Subsequence(s, P)
         IN  /\ t \in Seq(S) /\ Len(t) = Cardinality(P) /\ IsFiniteSet(P)
             /\ Cardinality(P) \in Nat /\ DOMAIN t = 1 .. Cardinality(P)
             /\ ToSet(t) = {s[i] : i \in P}
             /\ (\A i, j \in P : s[i] = s[j] => i = j) =>
                  \A i, j \in DOMAIN t : t[i] = t[j] => i = j
<1> DEFINE N == Cardinality(P)
           t == Subsequence(s, P)
<1>1. P \subseteq 1 .. Len(s) /\ Len(s) \in Nat
  OBVIOUS
<1>2. /\ IsFiniteSet(P) /\ N \in Nat
      /\ \A k \in 1 .. N : Place(P, k) \in P /\ Rank(P, Place(P, k)) = k
      /\ \A i \in P : Rank(P, i) \in 1 .. N /\ Place(P, Rank(P, i)) = i
  BY <1>1, PlacesOf
<1>3. t = [k \in 1 .. N |-> s[Place(P, k)]]
  BY DEF Subsequence, Place, Rank
<1>4. \A i \in P : s[i] \in S
  OBVIOUS
<1> HIDE DEF t, N
<1>5. t \in [1 .. N -> S]
  BY <1>2, <1>3, <1>4
<1>6. t \in Seq(S) /\ Len(t) = N /\ DOMAIN t = 1 .. N
  BY <1>2, <1>5
<1>7. ToSet(t) = {s[i] : i \in P}
  <2>1. \A x \in ToSet(t) : x \in {s[i] : i \in P}
    BY <1>2, <1>3, <1>6 DEF ToSet
  <2>2. ASSUME NEW i \in P PROVE s[i] \in ToSet(t)
    <3>1. t[Rank(P, i)] = s[i] /\ Rank(P, i) \in DOMAIN t
      BY <1>2, <1>3, <1>6
    <3> QED BY <3>1 DEF ToSet
  <2> QED BY <2>1, <2>2
<1>8. ASSUME \A i, j \in P : s[i] = s[j] => i = j, NEW i \in DOMAIN t, NEW j \in DOMAIN t, t[i] = t[j]
      PROVE  i = j
  <2>1. Place(P, i) = Place(P, j)
    BY <1>2, <1>3, <1>6, <1>8
  <2> QED BY <1>2, <1>6, <2>1
<1> QED BY <1>2, <1>6, <1>7, <1>8 DEF t, N

(* dict.fromkeys(...)[:16]: distinct ids, all of them if they are few. *)
LEMMA FirstMentionsAreAll ==
  ASSUME NEW S, NEW s \in Seq(S)
  PROVE  /\ FirstMentions(s) \subseteq DOMAIN s
         /\ \A i, j \in FirstMentions(s) : s[i] = s[j] => i = j
         /\ ToSet(s) = {s[i] : i \in FirstMentions(s)}
<1> DEFINE F == FirstMentions(s)
<1>0. DOMAIN s = 1 .. Len(s) /\ Len(s) \in Nat
  OBVIOUS
<1>1. F \subseteq DOMAIN s
  BY DEF FirstMentions
<1>2. ASSUME NEW i \in F, NEW j \in F, s[i] = s[j], i < j PROVE FALSE
  <2>1. i \in 1 .. j - 1
    BY <1>0, <1>1, <1>2
  <2> QED BY <1>2, <2>1 DEF FirstMentions
<1>3. \A i, j \in F : s[i] = s[j] => i = j
  <2>1. \A i, j \in F : i = j \/ i < j \/ j < i
    BY <1>0, <1>1
  <2> QED BY <1>2, <2>1
<1>4. ASSUME NEW i \in DOMAIN s PROVE \E k \in F : s[k] = s[i]
  <2> DEFINE T == {j \in DOMAIN s : s[j] = s[i]}
  <2>1. T \subseteq Nat /\ i \in T
    BY <1>0
  <2>2. PICK k \in T : \A j \in T : k <= j
    <3> HIDE DEF T
    <3> QED BY <2>1, LeastOf
  <2>3. \A j \in 1 .. k - 1 : s[j] # s[k]
    <3> SUFFICES ASSUME NEW j \in 1 .. k - 1, s[j] = s[k] PROVE FALSE
      OBVIOUS
    <3>1. j \in DOMAIN s /\ ~(k <= j)
      BY <1>0, <2>1
    <3> QED BY <2>2, <3>1
  <2> QED BY <2>3 DEF FirstMentions
<1> QED BY <1>1, <1>3, <1>4 DEF ToSet

Distinct(s) == \A i, j \in DOMAIN s : s[i] = s[j] => i = j

LEMMA LiteralIdsAreDistinct ==
  ASSUME NEW S, NEW m, m.mentions \in Seq(S)
  PROVE  LET ids == LiteralOrderIds(m)
         IN  /\ ids \in Seq(S) /\ Distinct(ids) /\ ToSet(ids) \subseteq ToSet(m.mentions)
             /\ Cardinality(ToSet(m.mentions)) <= IdLimit => ToSet(ids) = ToSet(m.mentions)
<1> DEFINE s == m.mentions
           F == FirstMentions(s)
           d == Subsequence(s, F)
           k == IF Len(d) < IdLimit THEN Len(d) ELSE IdLimit
           ids == SubSeq(d, 1, k)
<1>1. /\ F \subseteq DOMAIN s /\ ToSet(s) = {s[i] : i \in F}
      /\ \A i, j \in F : s[i] = s[j] => i = j
  BY FirstMentionsAreAll
<1> HIDE DEF F
<1>2. /\ d \in Seq(S) /\ Len(d) = Cardinality(F) /\ IsFiniteSet(F)
      /\ Cardinality(F) \in Nat /\ DOMAIN d = 1 .. Cardinality(F)
      /\ ToSet(d) = {s[i] : i \in F} /\ Distinct(d)
  BY <1>1, SubsequenceTakes DEF Distinct
<1> HIDE DEF d
<1>3. k \in Nat /\ k <= Len(d)
  BY <1>2, TriageConstants
<1> HIDE DEF k
<1>4. /\ ids \in Seq(S) /\ Len(ids) = k /\ DOMAIN ids = 1 .. k
      /\ \A i \in 1 .. k : ids[i] = d[i] /\ i \in DOMAIN d
  BY <1>2, <1>3
<1>5. LiteralOrderIds(m) = ids
  BY DEF LiteralOrderIds, F, d, k
<1>6. ASSUME Cardinality(ToSet(s)) <= IdLimit PROVE ids = d
  <2> DEFINE f == [i \in F |-> s[i]]
  <2>1. f \in Injection(F, ToSet(s)) /\ f \in Surjection(F, ToSet(s))
    BY <1>1 DEF Injection, Surjection, IsInjective
  <2>2. IsFiniteSet(ToSet(s))
    <3> HIDE DEF f
    <3> QED BY <1>2, <2>1, FS_Surjection
  <2>3. Cardinality(F) <= Cardinality(ToSet(s)) /\ Cardinality(ToSet(s)) \in Nat
    <3> HIDE DEF f
    <3> QED BY <2>1, <2>2, FS_Injection, FS_CardinalityType
  <2>4. k = Len(d)
    BY <1>2, <1>6, <2>3, TriageConstants DEF k
  <2> QED BY <1>2, <2>4
<1> HIDE DEF ids
<1>7. Distinct(ids)
  BY <1>2, <1>4 DEF Distinct
<1>8. ToSet(ids) \subseteq ToSet(d)
  BY <1>4 DEF ToSet
<1> QED BY <1>1, <1>2, <1>4, <1>5, <1>6, <1>7, <1>8

LEMMA OwnIds ==
  ASSUME NEW S, NEW ids \in Seq(S)
  PROVE  LET own == Own(ids)
         IN  /\ own \in Seq(S) /\ Len(own) \in Nat /\ DOMAIN own = 1 .. Len(own)
             /\ ToSet(own) = ToSet(ids) \intersect OwnOrders
             /\ Distinct(ids) => Distinct(own)
<1> DEFINE P == {i \in DOMAIN ids : ids[i] \in OwnOrders}
<1>1. P \subseteq DOMAIN ids
  OBVIOUS
<1>2. /\ Own(ids) = Subsequence(ids, P)
      /\ {ids[i] : i \in P} = ToSet(ids) \intersect OwnOrders
  BY DEF Own, ToSet
<1>3. Distinct(ids) => \A i, j \in P : ids[i] = ids[j] => i = j
  BY DEF Distinct
<1> HIDE DEF P
<1> QED BY <1>1, <1>2, <1>3, SubsequenceTakes DEF Distinct

SupportedIntents == {"signed_not_received", "stalled_tracking"}

(* route_triage supports one issue of one order of the customer. *)
LEMMA SupportedRoute ==
  ASSUME NEW t
  PROVE  /\ RouteTriage(t).route = "supported_logistics" <=>
              t.intent \in SupportedIntents /\ Len(Own(t.ids)) = 1
         /\ t.intent \in SupportedIntents /\ Len(Own(t.ids)) = 1 =>
              RouteTriage(t) = Decision("supported_logistics", Own(t.ids)[1],
                                        "AUTHORIZED_SUPPORTED_ISSUE")
<1>1. CASE t.intent \in SupportedIntents
  BY <1>1 DEF RouteTriage, Decision, SupportedIntents
<1>2. CASE t.intent = "tracking_status_query"
  BY <1>2 DEF RouteTriage, Decision, SupportedIntents
<1>3. CASE t.intent \in {"ambiguous", "other_logistics"}
  BY <1>3 DEF RouteTriage, Decision, SupportedIntents
<1>4. CASE t.intent \in {"out_of_scope", "prohibited"}
  BY <1>4 DEF RouteTriage, Decision, SupportedIntents
<1>5. CASE t.intent \notin SupportedIntents \cup {"tracking_status_query", "ambiguous",
                              "other_logistics", "out_of_scope", "prohibited"}
  BY <1>5 DEF RouteTriage, Decision, SupportedIntents
<1> QED BY <1>1, <1>2, <1>3, <1>4, <1>5

LEMMA RouteIsDecision ==
  ASSUME NEW t
  PROVE  "route" \in DOMAIN RouteTriage(t)
  BY DEF RouteTriage, Decision

(* The sign of a supported issue is read before anything else is. *)
LEMMA FirstReading ==
  ASSUME NEW m
  PROVE  LET signed == "missing" \in m.families
                       /\ ("signed" \in m.families \/ "stalled" \notin m.families)
             stalled == "stalled" \in m.families
             intent == FirstIntent(Readings(m))
         IN  /\ signed => intent = "signed_not_received"
             /\ ~signed /\ stalled => intent = "stalled_tracking"
             /\ ~signed /\ ~stalled => intent \notin SupportedIntents
<1> DEFINE signed == "missing" \in m.families
                     /\ ("signed" \in m.families \/ "stalled" \notin m.families)
           stalled == "stalled" \in m.families
           r == Readings(m)
           T == {i \in 1 .. 14 : r[i][1]}
           least == CHOOSE i \in DOMAIN r : r[i][1] /\ \A j \in 1 .. i - 1 : ~r[j][1]
<1>1. DOMAIN r = 1 .. 14
  BY DEF Readings
<1>2. (r[1][1] <=> signed) /\ (r[2][1] <=> stalled) /\ r[14][1]
  BY DEF Readings
<1>3. /\ r[1][2] = "signed_not_received" /\ r[2][2] = "stalled_tracking"
      /\ \A i \in 3 .. 14 : r[i][2] \notin SupportedIntents
  BY DEF Readings, SupportedIntents
<1>4. FirstIntent(r) = r[least][2]
  BY DEF FirstIntent
<1> HIDE DEF r
<1>5. \E i \in 1 .. 14 : r[i][1] /\ \A j \in 1 .. i - 1 : ~r[j][1]
  <2>1. T \subseteq Nat /\ 14 \in T
    BY <1>2
  <2>2. PICK i \in T : \A j \in T : i <= j
    <3> HIDE DEF T
    <3> QED BY <2>1, LeastOf
  <2>3. \A j \in 1 .. i - 1 : j \notin T /\ j \in 1 .. 14
    BY <2>2
  <2> QED BY <2>3
<1>6. least \in 1 .. 14 /\ r[least][1] /\ \A j \in 1 .. least - 1 : ~r[j][1]
  BY <1>1, <1>5
<1> HIDE DEF least, signed, stalled
<1>7. ASSUME signed PROVE least = 1
  <2>1. ~(1 \in 1 .. least - 1)
    BY <1>2, <1>6, <1>7
  <2> QED BY <1>6, <2>1
<1>8. ASSUME ~signed, stalled PROVE least = 2
  <2>1. ~(2 \in 1 .. least - 1) /\ least # 1
    BY <1>2, <1>6, <1>8
  <2> QED BY <1>6, <2>1
<1>9. ASSUME ~signed, ~stalled PROVE least \in 3 .. 14
  <2>1. least # 1 /\ least # 2
    BY <1>2, <1>6, <1>9
  <2> QED BY <1>6, <2>1
<1>10. /\ signed => FirstIntent(r) = "signed_not_received"
       /\ ~signed /\ stalled => FirstIntent(r) = "stalled_tracking"
       /\ ~signed /\ ~stalled => FirstIntent(r) \notin SupportedIntents
  BY <1>3, <1>4, <1>7, <1>8, <1>9
<1> QED BY <1>10 DEF r, signed, stalled

LEMMA SafeReading ==
  ASSUME NEW m, ClassifyMock(SafePart(m)).intent \in SupportedIntents
  PROVE  ClassifyMock(m).intent = ClassifyMock(SafePart(m)).intent
<1> DEFINE s == SafePart(m)
<1>1. \A f \in {"missing", "signed", "stalled"} : f \in s.families <=> f \in m.families
  BY DEF SafePart
<1>2. /\ ClassifyMock(m).intent = FirstIntent(Readings(m))
      /\ ClassifyMock(s).intent = FirstIntent(Readings(s))
  BY DEF ClassifyMock, Triage
<1> HIDE DEF s
<1>3. ClassifyMock(s).intent \in SupportedIntents
  BY DEF s
<1> QED BY <1>1, <1>2, <1>3, FirstReading DEF s

LEMMA ElementsAreFinite ==
  ASSUME NEW S, NEW s \in Seq(S)
  PROVE  IsFiniteSet(ToSet(s))
<1> DEFINE f == [i \in DOMAIN s |-> s[i]]
<1>1. f \in Surjection(DOMAIN s, ToSet(s))
  BY DEF Surjection, ToSet
<1>2. DOMAIN s = 1 .. Len(s) /\ Len(s) \in Int /\ 1 \in Int
  OBVIOUS
<1>3. IsFiniteSet(DOMAIN s)
  BY <1>2, FS_Interval
<1> HIDE DEF f
<1> QED BY <1>1, <1>3, FS_Surjection

(* One id is one order, however often and among whatever it was written. *)
LEMMA OneOwnOrder ==
  ASSUME NEW S, NEW ids \in Seq(S), Len(Own(ids)) = 1
  PROVE  ToSet(ids) \intersect OwnOrders = {Own(ids)[1]}
  BY OwnIds DEF ToSet

LEMMA SafeRequestIsTheRequest ==
  ASSUME NEW S, NEW m, m.mentions \in Seq(S), Cardinality(ToSet(m.mentions)) <= IdLimit,
         RouteTriage(ClassifyMock(SafePart(m))).route = "supported_logistics"
  PROVE  /\ RouteTriage(ClassifyMock(m)) = RouteTriage(ClassifyMock(SafePart(m)))
         /\ RouteTriage(ClassifyMock(m)).route = "supported_logistics"
         /\ ClassifyMock(m).intent = ClassifyMock(SafePart(m)).intent
<1> DEFINE s == SafePart(m)
           alone == ClassifyMock(s)
           whole == ClassifyMock(m)
           a == Own(alone.ids)
           b == Own(whole.ids)
<1>1. s.mentions = Own(m.mentions) /\ alone.ids = LiteralOrderIds(s) /\ whole.ids = LiteralOrderIds(m)
  BY DEF SafePart, ClassifyMock, Triage
<1>2. alone.intent \in SupportedIntents /\ Len(a) = 1 /\ whole.intent = alone.intent
  BY SupportedRoute, SafeReading
<1>3. RouteTriage(alone) = Decision("supported_logistics", a[1], "AUTHORIZED_SUPPORTED_ISSUE")
  BY <1>2, SupportedRoute
<1>4. /\ s.mentions \in Seq(S)
      /\ ToSet(s.mentions) = ToSet(m.mentions) \intersect OwnOrders
  BY <1>1, OwnIds
<1>5. Cardinality(ToSet(s.mentions)) <= IdLimit
  <2>1. IsFiniteSet(ToSet(m.mentions)) /\ ToSet(s.mentions) \in SUBSET ToSet(m.mentions)
    BY <1>4, ElementsAreFinite
  <2>2. /\ Cardinality(ToSet(s.mentions)) <= Cardinality(ToSet(m.mentions))
        /\ IsFiniteSet(ToSet(s.mentions))
    BY <2>1, FS_Subset
  <2>3. Cardinality(ToSet(s.mentions)) \in Nat /\ Cardinality(ToSet(m.mentions)) \in Nat
    BY <2>1, <2>2, FS_CardinalityType
  <2> QED BY <2>2, <2>3, TriageConstants
<1> HIDE DEF s
<1>6. /\ alone.ids \in Seq(S) /\ ToSet(alone.ids) = ToSet(m.mentions) \intersect OwnOrders
  BY <1>1, <1>4, <1>5, LiteralIdsAreDistinct
<1>7. /\ whole.ids \in Seq(S) /\ ToSet(whole.ids) = ToSet(m.mentions) /\ Distinct(whole.ids)
  BY <1>1, LiteralIdsAreDistinct
<1> HIDE DEF alone, whole
<1>8. ToSet(m.mentions) \intersect OwnOrders = {a[1]}
  BY <1>2, <1>6, OneOwnOrder
<1>9. /\ ToSet(b) = {a[1]} /\ Distinct(b) /\ Len(b) \in Nat /\ DOMAIN b = 1 .. Len(b)
  BY <1>7, <1>8, OwnIds
<1> HIDE DEF a, b
<1>10. \A i \in 1 .. Len(b) : b[i] = a[1] /\ i = 1
  <2>1. \A i \in 1 .. Len(b) : b[i] = a[1]
    BY <1>9 DEF ToSet
  <2>2. \A i \in 1 .. Len(b) : 1 \in 1 .. Len(b)
    BY <1>9
  <2> QED BY <1>9, <2>1, <2>2 DEF Distinct
<1>11. \E i \in 1 .. Len(b) : b[i] = a[1]
  BY <1>9 DEF ToSet
<1>12. Len(b) = 1 /\ b[1] = a[1]
  <2>1. Len(b) # 0
    BY <1>9, <1>11
  <2>2. Len(b) \in 1 .. Len(b)
    BY <1>9, <2>1
  <2> QED BY <1>10, <2>2
<1>13. RouteTriage(whole) = Decision("supported_logistics", a[1], "AUTHORIZED_SUPPORTED_ISSUE")
  BY <1>2, <1>12, SupportedRoute DEF b
<1>14. RouteTriage(whole).route = "supported_logistics"
  BY <1>13 DEF Decision
<1> QED BY <1>2, <1>3, <1>13, <1>14 DEF alone, whole, s

(* What one entry of the Conversation says. *)
EntryHolds(e) ==
    LET alone == ClassifyMock(SafePart(e.message))
    IN  /\ (/\ e.triage = ClassifyMock(e.message)
            /\ Cardinality(ToSet(e.message.mentions)) <= IdLimit
            /\ RouteTriage(alone).route = "supported_logistics")
           => /\ e.decision = RouteTriage(alone)
              /\ e.triage.intent = alone.intent
              /\ (ToSet(e.message.mentions) \ OwnOrders) \subseteq e.blocked
              /\ "action" \in e.message.families => "prohibited_action_request" \in e.blocked
        /\ e.decision.route = "supported_logistics" =>
              ToSet(e.triage.ids) \intersect OwnOrders = {e.decision.order}

WrittenIds == OwnOrders \cup OtherOrders \cup {CutId}
Messages == [families : SUBSET Families, mentions : Seq(WrittenIds)]
TriageInv ==
    /\ draft \in Messages /\ IsSequence(entries)
    /\ \A i \in 1 .. Len(entries) : EntryHolds(entries[i])

LEMMA SubmittedHolds ==
  ASSUME TriageInv, NEW triage, triage \in {ClassifyMock(draft)} \cup ClassifyLive(draft)
  PROVE  EntryHolds([message |-> draft, triage |-> triage, blocked |-> Blocked(triage),
                     decision |-> EnforceEntryClarificationLimit(RouteTriage(triage))])
<1> DEFINE enforced == EnforceEntryClarificationLimit(RouteTriage(triage))
           e == [message |-> draft, triage |-> triage, blocked |-> Blocked(triage),
                 decision |-> enforced]
<1>1. draft.mentions \in Seq(WrittenIds)
  BY DEF TriageInv, Messages
<1>2. /\ triage.ids = LiteralOrderIds(draft)
      /\ DeterministicRiskFlags(draft) \subseteq triage.flags
  BY DEF ClassifyMock, ClassifyLive, Triage
<1>3. triage.ids \in Seq(WrittenIds)
  BY <1>1, <1>2, LiteralIdsAreDistinct
<1>4. RouteTriage(triage).route # "ambiguous" => enforced = RouteTriage(triage)
  BY DEF EnforceEntryClarificationLimit
<1>5. enforced.route = "supported_logistics" => RouteTriage(triage).route = "supported_logistics"
  <2> DEFINE d == RouteTriage(triage)
  <2>1. "route" \in DOMAIN d
    BY RouteIsDecision
  <2> HIDE DEF d
  <2>2. [d EXCEPT !.reason = "ENTRY_CLARIFICATION_EXHAUSTED"].route = d.route
    BY <2>1
  <2>3. EnforceEntryClarificationLimit(d).route = d.route
    BY <2>2 DEF EnforceEntryClarificationLimit
  <2> QED BY <2>3 DEF d
<1> HIDE DEF enforced
<1>6. ASSUME triage = ClassifyMock(draft), Cardinality(ToSet(draft.mentions)) <= IdLimit,
             RouteTriage(ClassifyMock(SafePart(draft))).route = "supported_logistics"
      PROVE  /\ enforced = RouteTriage(ClassifyMock(SafePart(draft)))
             /\ triage.intent = ClassifyMock(SafePart(draft)).intent
             /\ (ToSet(draft.mentions) \ OwnOrders) \subseteq Blocked(triage)
             /\ "action" \in draft.families => "prohibited_action_request" \in Blocked(triage)
  <2>1. /\ RouteTriage(triage) = RouteTriage(ClassifyMock(SafePart(draft)))
        /\ RouteTriage(triage).route = "supported_logistics"
        /\ triage.intent = ClassifyMock(SafePart(draft)).intent
    BY <1>1, <1>6, SafeRequestIsTheRequest
  <2>2. enforced = RouteTriage(ClassifyMock(SafePart(draft)))
    BY <1>4, <2>1
  <2>3. ToSet(triage.ids) = ToSet(draft.mentions)
    BY <1>1, <1>2, <1>6, LiteralIdsAreDistinct
  <2>4. (ToSet(draft.mentions) \ OwnOrders) \subseteq Blocked(triage)
    BY <2>3 DEF Blocked
  <2>5. "action" \in draft.families => "prohibited_action_request" \in Blocked(triage)
    BY <1>2 DEF DeterministicRiskFlags, RiskFlags, Blocked
  <2> QED BY <2>1, <2>2, <2>4, <2>5
<1>7. ASSUME enforced.route = "supported_logistics"
      PROVE  ToSet(triage.ids) \intersect OwnOrders = {enforced.order}
  <2>1. RouteTriage(triage).route = "supported_logistics"
    BY <1>5, <1>7
  <2>2. /\ enforced = Decision("supported_logistics", Own(triage.ids)[1], "AUTHORIZED_SUPPORTED_ISSUE")
        /\ Len(Own(triage.ids)) = 1
    BY <1>4, <2>1, SupportedRoute
  <2>3. enforced.order = Own(triage.ids)[1]
    BY <2>2 DEF Decision
  <2> QED BY <1>3, <2>2, <2>3, OneOwnOrder
<1>8. /\ e.message = draft /\ e.triage = triage /\ e.blocked = Blocked(triage)
      /\ e.decision = enforced
  OBVIOUS
<1> HIDE DEF e
<1>9. EntryHolds(e)
  BY <1>6, <1>7, <1>8 DEF EntryHolds
<1> QED BY <1>9 DEF e, enforced

LEMMA TriageInvInit == TriageInit => TriageInv
<1> SUFFICES ASSUME TriageInit PROVE TriageInv
  OBVIOUS
<1>1. draft \in Messages
  BY DEF TriageInit, NoMessage, Messages
<1>2. IsSequence(entries) /\ Len(entries) = 0
  BY DEF TriageInit, IsSequence
<1> QED BY <1>1, <1>2 DEF TriageInv

LEMMA TriageInvNext == TriageInv /\ [TriageNext]_triageVars => TriageInv'
<1> SUFFICES ASSUME TriageInv, [TriageNext]_triageVars PROVE TriageInv'
  OBVIOUS
<1>1. ASSUME NEW family \in Written, Write(family) PROVE TriageInv'
  <2>1. draft' \in Messages
    <3>1. family \in Families /\ "topic" \in Families
      BY TriageConstants DEF Families
    <3> QED BY <1>1, <3>1 DEF TriageInv, Write, Messages
  <2> QED BY <1>1, <2>1 DEF TriageInv, Write
<1>2. ASSUME NEW id \in OwnOrders \cup OtherOrders \cup {CutId}, Mention(id) PROVE TriageInv'
  <2>1. draft' \in Messages
    <3>1. Append(draft.mentions, id) \in Seq(WrittenIds)
      BY DEF TriageInv, Messages, WrittenIds
    <3> QED BY <1>2, <3>1 DEF TriageInv, Mention, Messages
  <2> QED BY <1>2, <2>1 DEF TriageInv, Mention
<1>3. CASE SubmitMessage
  <2>1. PICK triage \in {ClassifyMock(draft)} \cup ClassifyLive(draft) :
          entries' = Append(entries,
            [message |-> draft, triage |-> triage, blocked |-> Blocked(triage),
             decision |-> EnforceEntryClarificationLimit(RouteTriage(triage))])
    BY <1>3 DEF SubmitMessage
  <2> DEFINE e == [message |-> draft, triage |-> triage, blocked |-> Blocked(triage),
                   decision |-> EnforceEntryClarificationLimit(RouteTriage(triage))]
  <2>2. EntryHolds(e)
    BY SubmittedHolds
  <2>3. entries' = Append(entries, e)
    BY <2>1
  <2> HIDE DEF e
  <2>4. draft' \in Messages
    BY <1>3 DEF SubmitMessage, NoMessage, Messages
  <2>5. IsSequence(entries) /\ Len(entries) \in Nat
    BY DEF TriageInv, IsSequence
  <2>6. /\ IsSequence(entries') /\ Len(entries') = Len(entries) + 1
        /\ \A i \in 1 .. Len(entries) : entries'[i] = entries[i]
        /\ entries'[Len(entries) + 1] = e
    BY <2>3, <2>5, AppendIsSequence
  <2>7. ASSUME NEW i \in 1 .. Len(entries') PROVE EntryHolds(entries'[i])
    <3>1. i \in 1 .. Len(entries) \/ i = Len(entries) + 1
      BY <2>5, <2>6
    <3> QED BY <2>2, <2>6, <3>1 DEF TriageInv
  <2>8. \A i \in 1 .. Len(entries') : EntryHolds(entries'[i])
    BY <2>7
  <2> QED BY <2>4, <2>6, <2>8 DEF TriageInv, EntryHolds
<1>4. CASE UNCHANGED triageVars
  BY <1>4 DEF TriageInv, triageVars, EntryHolds
<1> QED BY <1>1, <1>2, <1>3, <1>4 DEF TriageNext

LEMMA TriageSteps == [StandaloneNext]_standaloneVars => [TriageNext]_triageVars
  BY DEF StandaloneNext, standaloneVars, allParts, Fixed, triageVars

(* classify_mock and route_triage: for any orders, any message of any length
   and any answers of a live model, a supported request survives the blocked
   fragments around it, and a supported message names one order of the
   customer. *)
THEOREM TriageKeepsRequests == StandaloneSpec => []RequestSurvivesUnsafeFragments
<1>1. StandaloneInit => TriageInv
  BY TriageInvInit DEF StandaloneInit
<1>2. TriageInv => RequestSurvivesUnsafeFragments
  <2> SUFFICES ASSUME TriageInv, NEW i \in DOMAIN entries PROVE EntryHolds(entries[i])
    BY DEF RequestSurvivesUnsafeFragments, EntryHolds
  <2>1. DOMAIN entries = 1 .. Len(entries)
    BY DEF TriageInv, IsSequence
  <2> QED BY <2>1 DEF TriageInv
<1> QED BY <1>1, <1>2, TriageSteps, TriageInvNext, PTL DEF StandaloneSpec
=============================================================================
