--------------------------- MODULE TriageRouting ---------------------------
(***************************************************************************)
(* What a message without an open Case becomes: agents/triage.py           *)
(* classifies it, application/policy_router.py routes it, and service.py   *)
(* limits the entry questions.  A message is the set of pattern families   *)
(* its text matches and the order numbers written in it.                   *)
(***************************************************************************)
EXTENDS Integers, Sequences, FiniteSets, SequencesExt

(* The pattern families of agents/triage.py; "action" is a demand for a refund
   and the like, which names the topic as well. *)
Families == {"signed", "missing", "stalled", "logistics", "capability", "order_id_help",
             "human", "eta", "change", "topic", "refund_info", "action", "thanks",
             "tracking", "unclear", "override", "personal_data"}

CONSTANTS
    OwnOrders,      \* orders of the customer
    OtherOrders,    \* ids of other customers, and ids no order has
    IdLimit,        \* 16: ids kept of a message
    Written,        \* the pattern families the customer writes
    LiveIntents,    \* intents a live model answers with
    MaxFragments,   \* fragments of all messages
    MaxEntries      \* messages of the Conversation

ASSUME TriageConstants ==
    /\ OwnOrders \intersect OtherOrders = {}
    /\ Written \subseteq Families
    /\ IdLimit \in Nat \ {0} /\ MaxFragments \in Nat /\ MaxEntries \in Nat

VARIABLES
    draft,    \* the message being written
    entries   \* the messages sent, each with its triage and its decision

triageVars == <<draft, entries>>

RiskFlags == {"instruction_override_attempt", "prohibited_action_request",
              "multiple_order_ids", "unnecessary_personal_data"}

NoMessage == [families |-> {}, mentions |-> <<>>]

(* An id written against other letters is cut at its last hyphen: what the
   pattern finds is not the id of an order. *)
CutId == "cut"

TriageInit == draft = NoMessage /\ entries = <<>>

-----------------------------------------------------------------------------
(* agents/triage.py                                                        *)

(* The elements of s at the positions P, in their order. *)
Subsequence(s, P) ==
    [n \in 1 .. Cardinality(P) |-> s[CHOOSE i \in P : Cardinality({j \in P : j <= i}) = n]]

(* Distinct ids in the order of their first mention. *)
FirstMentions(mentions) ==
    {i \in DOMAIN mentions : \A j \in 1 .. i - 1 : mentions[j] # mentions[i]}

LiteralOrderIds(m) ==
    LET distinct == Subsequence(m.mentions, FirstMentions(m.mentions))
    IN  SubSeq(distinct, 1, IF Len(distinct) < IdLimit THEN Len(distinct) ELSE IdLimit)

DeterministicRiskFlags(m) ==
    {f \in RiskFlags :
        \/ f = "instruction_override_attempt" /\ "override" \in m.families
        \/ f = "prohibited_action_request" /\ "action" \in m.families
        \/ f = "multiple_order_ids" /\ Len(LiteralOrderIds(m)) > 1
        \/ f = "unnecessary_personal_data" /\ "personal_data" \in m.families}

(* Conditions and intents in the order in which classify_mock tries them. *)
Readings(m) ==
    LET has(f) == f \in m.families
        signed == has("missing") /\ (has("signed") \/ ~has("stalled"))
        logistics == has("logistics") \/ LiteralOrderIds(m) # <<>>
    IN  << <<signed, "signed_not_received">>,
           <<has("stalled"), "stalled_tracking">>,
           <<has("capability"), "capability_help">>,
           <<has("order_id_help"), "order_id_help">>,
           <<has("human"), "human_support_request">>,
           <<has("eta"), "delivery_eta_info">>,
           <<has("change"), "change_delivery_info">>,
           <<has("refund_info") \/ (has("topic") /\ ~has("action")), "refund_return_info">>,
           <<has("thanks"), "thanks_close">>,
           <<has("tracking"), "tracking_status_query">>,
           <<has("action"), "prohibited">>,
           <<logistics /\ has("unclear"), "ambiguous">>,
           <<logistics, "other_logistics">>,
           <<TRUE, "out_of_scope">> >>

FirstIntent(readings) ==
    readings[CHOOSE i \in DOMAIN readings :
                readings[i][1] /\ \A j \in 1 .. i - 1 : ~readings[j][1]][2]

Triage(m, intent, flags) ==
    [intent |-> intent, flags |-> flags \cup DeterministicRiskFlags(m), ids |-> LiteralOrderIds(m)]

(* Variant: a demand for a refund decides, whatever else is asked. *)
ClassifyProhibitedFirst(m) ==
    Triage(m, FirstIntent(<< <<"action" \in m.families, "prohibited">> >> \o Readings(m)), {})

ClassifyMock(m) == Triage(m, FirstIntent(Readings(m)), {})

(* Live mode, normalize_triage_result: the model's intent and flags, with the
   ids and flags of the text. *)
ClassifyLive(m) ==
    {Triage(m, intent, flags) :
        intent \in LiveIntents, flags \in {{}, {"prohibited_action_request"}}}

-----------------------------------------------------------------------------
(* application/policy_router.py                                            *)

Decision(route, order, reason) ==
    [route |-> route, order |-> order, reason |-> reason]

Blocked(triage) ==
    (triage.flags \ {"multiple_order_ids"}) \cup (ToSet(triage.ids) \ OwnOrders)

NoOrder == "none"

Own(ids) == Subsequence(ids, {i \in DOMAIN ids : ids[i] \in OwnOrders})

RouteTriage(triage) ==
    LET authorized == Own(triage.ids)
        several == Decision("ambiguous", NoOrder, "MULTIPLE_AUTHORIZED_ORDERS_REQUIRE_SELECTION")
        foreign == Decision("unauthorized", NoOrder, "NO_AUTHORIZED_ORDER_IN_REQUEST")
        onlyForeign == triage.ids # <<>> /\ authorized = <<>>
    IN  CASE triage.intent \in {"signed_not_received", "stalled_tracking"} ->
               IF Len(authorized) = 1
               THEN Decision("supported_logistics", authorized[1], "AUTHORIZED_SUPPORTED_ISSUE")
               ELSE IF Len(authorized) > 1 THEN several
               ELSE IF onlyForeign THEN foreign
               ELSE Decision("ambiguous", NoOrder, "ORDER_ID_REQUIRED")
          [] triage.intent = "tracking_status_query" ->
               IF Len(authorized) > 1 THEN several
               ELSE IF onlyForeign THEN foreign
               ELSE Decision("standard_reply",
                             IF authorized = <<>> THEN NoOrder ELSE authorized[1],
                             "TRACKING_STATUS_REQUIRES_CLARIFICATION")
          [] triage.intent \in {"ambiguous", "other_logistics"} ->
               Decision("ambiguous", NoOrder, "ISSUE_REQUIRES_CLARIFICATION")
          [] triage.intent \in {"out_of_scope", "prohibited"} ->
               Decision(triage.intent, NoOrder, "NOT_SUPPORTED")
          [] OTHER -> Decision("standard_reply", NoOrder, "STANDARD_REPLY")

(* service.py _enforce_entry_clarification_limit: the decision before this
   one, the decision that hands over to a person included. *)
EnforceEntryClarificationLimit(decision) ==
    IF decision.route = "ambiguous" /\ entries # <<>>
       /\ Last(entries).decision.route = "ambiguous"
    THEN [decision EXCEPT !.reason = "ENTRY_CLARIFICATION_EXHAUSTED"]
    ELSE decision

-----------------------------------------------------------------------------
Fragments(m) == Cardinality(m.families) + Len(m.mentions)

MayWrite ==
    /\ Len(entries) < MaxEntries
    /\ FoldLeft(LAMBDA n, e : n + Fragments(e.message), Fragments(draft), entries) < MaxFragments

Write(family) ==
    /\ MayWrite /\ family \notin draft.families
    /\ draft' = [draft EXCEPT !.families = @ \cup {family}
                                \cup (IF family = "action" THEN {"topic"} ELSE {})]
    /\ UNCHANGED entries

Mention(id) ==
    /\ MayWrite
    /\ draft' = [draft EXCEPT !.mentions = Append(@, id)]
    /\ UNCHANGED entries

(* submit_message while no Case is open; the Case that a supported message
   opens is closed before the next one is sent. *)
SubmitMessage ==
    /\ draft # NoMessage
    /\ \E triage \in {ClassifyMock(draft)} \cup ClassifyLive(draft) :
         entries' = Append(entries,
            [message |-> draft, triage |-> triage, blocked |-> Blocked(triage),
             decision |-> EnforceEntryClarificationLimit(RouteTriage(triage))])
    /\ draft' = NoMessage

TriageNext ==
    \/ \E family \in Written : Write(family)
    \/ \E id \in OwnOrders \cup OtherOrders \cup {CutId} : Mention(id)
    \/ SubmitMessage

TriageSpec == TriageInit /\ [][TriageNext]_triageVars

-----------------------------------------------------------------------------
(* Properties                                                              *)

(* The message without what the service blocks. *)
SafePart(m) ==
    [families |-> m.families \ {"action", "topic", "override", "personal_data"},
     mentions |-> Own(m.mentions)]

(* classify_mock and route_triage (PRODUCT-SPEC.md PROD-004): the request of
   a message survives its blocked fragments.  If its safe part is a supported
   request, the whole message is the same request about the same order, and
   every blocked fragment is recorded; only more ids than IdLimit can hide
   it.  Whoever classified, a supported message names one order of the
   customer. *)
RequestSurvivesUnsafeFragments ==
    \A i \in DOMAIN entries :
        LET e == entries[i]
            alone == ClassifyMock(SafePart(e.message))
        IN  /\ (/\ e.triage = ClassifyMock(e.message)
                /\ Cardinality(ToSet(e.message.mentions)) <= IdLimit
                /\ RouteTriage(alone).route = "supported_logistics")
               => /\ e.decision = RouteTriage(alone)
                  /\ e.triage.intent = alone.intent
                  /\ (ToSet(e.message.mentions) \ OwnOrders) \subseteq e.blocked
                  /\ "action" \in e.message.families => "prohibited_action_request" \in e.blocked
            /\ e.decision.route = "supported_logistics" =>
                  ToSet(e.triage.ids) \intersect OwnOrders = {e.decision.order}
=============================================================================
