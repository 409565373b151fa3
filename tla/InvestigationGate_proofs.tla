---------------------- MODULE InvestigationGate_proofs ----------------------
(***************************************************************************)
(* What a decision of the evidence gate rests on, for any world, any       *)
(* limits, any number of Runs and any trouble: the rows of a Run say what  *)
(* the sources said, and each decision of the ordered tables has the       *)
(* conditions that the rows before it leave.                               *)
(***************************************************************************)
EXTENDS Investigation_proofs

-----------------------------------------------------------------------------
(* The decision tables *)

(* Evidence that is waited for has a row that may still come, and what is
   given up has one that will not, unless a retry is spent. *)
LEMMA UnavailableDecides ==
  ASSUME NEW rows, NEW exhausted \in BOOLEAN, AnyUnavailable(rows)
  PROVE  LET g == Unavailable(rows, exhausted)
         IN  \/ /\ g.decision = "retry_later" /\ g.reason = "CRITICAL_EVIDENCE_UNAVAILABLE"
                /\ ~exhausted /\ \E r \in rows : Temporary(r) \/ Missing(r)
             \/ /\ g.decision = "require_human_support"
                /\ g.reason = "CRITICAL_EVIDENCE_UNAVAILABLE_FINAL"
                /\ exhausted \/ \E r \in rows : ~Completed(r) /\ ~Temporary(r) /\ ~Missing(r)
  BY DEF AnyUnavailable, Unavailable, Decide, Human, Temporary, Missing, Completed

(* The policy guard only ever closes a Case. *)
LEMMA PolicyGuardDecides ==
  ASSUME NEW policy, NEW issue
  PROVE  LET g == PolicyGuard(policy, issue)
         IN  /\ g.decision \in {"require_human_support", "complete_no_action"}
             /\ g.reason \in {"POLICY_NOT_VERIFIED", "POLICY_NOT_APPLICABLE",
                              "POLICY_SCOPE_OR_CITATION_MISMATCH"}
<1> DEFINE table == <<
      <<policy.value = "unresolved", Human("POLICY_NOT_VERIFIED")>>,
      <<policy.value = "not_applicable", NoAction("POLICY_NOT_APPLICABLE")>>,
      <<TRUE, Human("POLICY_SCOPE_OR_CITATION_MISMATCH")>> >>
<1>1. DOMAIN table = 1..3 /\ table[3][1]
  OBVIOUS
<1>2. PICK i \in 1..3 : FirstRow(table) = table[i][2]
  <2> HIDE DEF table
  <2>1. \E i \in 1..3 : table[i][1]
    BY <1>1
  <2> QED BY <1>1, <2>1, FirstRowDecides
<1> QED BY <1>2 DEF PolicyGuard, Human, NoAction, Decide

SignedGrounds(f) ==
    /\ TargetDelivered(f)
    /\ \A t \in RequiredTools(SNR) : Completed(f.results[t])
    /\ f.results["tickets"].value # "active"
    /\ f.results["timeline"].value \notin {"none", "elsewhere"}
    /\ ~PolicyGuarded(f.results["policy"], SNR)
    /\ f.results["policy"].value # "ineligible"
    /\ ~f.deliveredElsewhere
    /\ f.results["proof"].value = "reception" => f.receptionChecked

StalledGrounds(f) ==
    /\ f.target # "delivered" /\ f.target # "other"
    /\ f.target = "none" => f.results["order"].value = "shipped"
    /\ \A t \in RequiredTools(STALLED) : Completed(f.results[t])
    /\ f.results["tickets"].value # "active"
    /\ f.results["timeline"].value \notin {"none", "elsewhere", "contradicts", "within"}
    /\ ~PolicyGuarded(f.results["policy"], STALLED)
    /\ f.results["policy"].value # "ineligible"
    /\ f.businessDemo /\ ~Missing(f.results["alerts"]) =>
         Completed(f.results["alerts"]) /\ f.results["alerts"].value # "active"

(* What each decision of a table about an issue rests on. *)
Grounded(g, issue, f) ==
    /\ g.decision = "propose_ticket" =>
         IF issue = SNR THEN SignedGrounds(f) ELSE StalledGrounds(f)
    /\ g.decision = "request_business_clarification" => Reads(f.results["proof"], "reception")
    /\ g.reason = "CRITICAL_EVIDENCE_UNAVAILABLE" =>
         /\ ~f.retryExhausted
         /\ \/ \E t \in RequiredTools(issue) : Temporary(f.results[t]) \/ Missing(f.results[t])
            \/ issue = STALLED /\ Temporary(f.results["alerts"])
    /\ g.reason = "CRITICAL_EVIDENCE_UNAVAILABLE_FINAL" =>
         \/ f.retryExhausted
         \/ \E t \in Tools : /\ ~Completed(f.results[t]) /\ ~Temporary(f.results[t])
                             /\ ~Missing(f.results[t])

(* A decision that neither proposes, nor asks, nor waits for evidence. *)
LEMMA OtherwiseGrounded ==
  ASSUME NEW g, NEW issue, NEW f,
         g.decision \notin {"propose_ticket", "request_business_clarification"},
         g.reason \notin {"CRITICAL_EVIDENCE_UNAVAILABLE", "CRITICAL_EVIDENCE_UNAVAILABLE_FINAL"}
  PROVE  Grounded(g, issue, f)
  BY DEF Grounded

(* A decision about unavailable evidence. *)
LEMMA LostGrounded ==
  ASSUME NEW issue \in Issues, NEW f, f.retryExhausted \in BOOLEAN, NEW T,
         T \subseteq RequiredTools(issue)
           \/ (T = {"alerts"} /\ issue = STALLED /\ ~Missing(f.results["alerts"])),
         AnyUnavailable({f.results[t] : t \in T})
  PROVE  Grounded(Unavailable({f.results[t] : t \in T}, f.retryExhausted), issue, f)
<1> DEFINE rows == {f.results[t] : t \in T}
           g == Unavailable(rows, f.retryExhausted)
<1>1. \/ /\ g.decision = "retry_later" /\ g.reason = "CRITICAL_EVIDENCE_UNAVAILABLE"
         /\ ~f.retryExhausted /\ \E r \in rows : Temporary(r) \/ Missing(r)
      \/ /\ g.decision = "require_human_support"
         /\ g.reason = "CRITICAL_EVIDENCE_UNAVAILABLE_FINAL"
         /\ f.retryExhausted \/ \E r \in rows : ~Completed(r) /\ ~Temporary(r) /\ ~Missing(r)
  BY UnavailableDecides
<1>2. T \subseteq Tools
  BY DEF RequiredTools, Tools, Issues
<1> HIDE DEF g
<1>3. Grounded(g, issue, f)
  BY <1>1, <1>2 DEF Grounded
<1> QED BY <1>3 DEF g

LEMMA SignedIsGrounded ==
  ASSUME NEW f, f.retryExhausted \in BOOLEAN
  PROVE  Grounded(EvaluateSigned(f), SNR, f)
<1> DEFINE r == f.results
           critical == {r["order"], r["timeline"], r["tickets"], r["policy"]}
           lost(rows) == Unavailable(rows, f.retryExhausted)
           table == <<
      <<~Completed(r["order"]), lost({r["order"]})>>,
      <<~TargetDelivered(f), Revise(IF InTransit(f) THEN STALLED ELSE OtherLogistics)>>,
      <<~Completed(r["tickets"]), lost({r["tickets"]})>>,
      <<r["tickets"].value = "active", NoAction("ACTIVE_LOGISTICS_TICKET_EXISTS")>>,
      <<AnyUnavailable(critical), lost(critical)>>,
      <<r["timeline"].value = "none", Decide("retry_later", "DELIVERED_WITHOUT_TIMELINE_EVIDENCE")>>,
      <<r["timeline"].value = "elsewhere", Decide("retry_later", "TARGET_TIMELINE_ABSENT")>>,
      <<PolicyGuarded(r["policy"], SNR), PolicyGuard(r["policy"], SNR)>>,
      <<r["policy"].value = "ineligible", NoAction("POLICY_NOT_ELIGIBLE")>>,
      <<~f.stillMissing, NoAction("CUSTOMER_REPORT_RESOLVED")>>,
      <<~Completed(r["proof"]), lost({r["proof"]})>>,
      <<f.deliveredElsewhere, Human("DELIVERY_EVIDENCE_CONFLICT")>>,
      <<r["proof"].value = "reception" /\ ~f.receptionChecked,
        Decide("request_business_clarification", "CHECK_RECEPTION_LOCATION")>>,
      <<TRUE, Decide("propose_ticket", "SIGNED_NOT_RECEIVED_EVIDENCE_COMPLETE")>> >>
<1>1. DOMAIN table = 1..14 /\ table[14][1]
  OBVIOUS
<1>2. EvaluateSigned(f) = FirstRow(table)
  BY DEF EvaluateSigned
<1>3. PICK i \in 1..14 : /\ table[i][1]
                         /\ \A j \in 1..14 : j < i => ~table[j][1]
                         /\ FirstRow(table) = table[i][2]
  <2> HIDE DEF table
  <2>1. \E i \in 1..14 : table[i][1]
    BY <1>1
  <2> QED BY <1>1, <2>1, FirstRowDecides
<1>4. CASE i \in {1, 3, 5, 11}
  <2>1. ASSUME NEW T, T \subseteq RequiredTools(SNR), AnyUnavailable({r[t] : t \in T})
        PROVE  Grounded(lost({r[t] : t \in T}), SNR, f)
    BY <2>1, LostGrounded DEF Issues
  <2>2. CASE i = 1
    <3> DEFINE T == {"order"}
    <3>1. table[1][2] = lost({r[t] : t \in T}) /\ T \subseteq RequiredTools(SNR)
      BY DEF RequiredTools
    <3>2. AnyUnavailable({r[t] : t \in T})
      <4>1. table[1][1] /\ table[1][1] = ~Completed(r["order"])
        BY <1>3, <2>2
      <4> QED BY <4>1 DEF AnyUnavailable
    <3> HIDE DEF table, lost, T
    <3>3. Grounded(table[1][2], SNR, f)
      BY <2>1, <3>1, <3>2
    <3> QED BY <1>2, <1>3, <2>2, <3>3
  <2>3. CASE i = 3
    <3> DEFINE T == {"tickets"}
    <3>1. table[3][2] = lost({r[t] : t \in T}) /\ T \subseteq RequiredTools(SNR)
      BY DEF RequiredTools
    <3>2. AnyUnavailable({r[t] : t \in T})
      BY <1>3, <2>3 DEF AnyUnavailable
    <3> HIDE DEF table, lost, T
    <3>3. Grounded(table[3][2], SNR, f)
      BY <2>1, <3>1, <3>2
    <3> QED BY <1>2, <1>3, <2>3, <3>3
  <2>4. CASE i = 5
    <3> DEFINE T == {"order", "timeline", "tickets", "policy"}
    <3>1. table[5][2] = lost({r[t] : t \in T}) /\ T \subseteq RequiredTools(SNR)
      BY DEF RequiredTools
    <3>2. AnyUnavailable({r[t] : t \in T})
      BY <1>3, <2>4 DEF AnyUnavailable
    <3> HIDE DEF table, lost, T
    <3>3. Grounded(table[5][2], SNR, f)
      BY <2>1, <3>1, <3>2
    <3> QED BY <1>2, <1>3, <2>4, <3>3
  <2>5. CASE i = 11
    <3> DEFINE T == {"proof"}
    <3>1. table[11][2] = lost({r[t] : t \in T}) /\ T \subseteq RequiredTools(SNR)
      BY DEF RequiredTools
    <3>2. AnyUnavailable({r[t] : t \in T})
      BY <1>3, <2>5 DEF AnyUnavailable
    <3> HIDE DEF table, lost, T
    <3>3. Grounded(table[11][2], SNR, f)
      BY <2>1, <3>1, <3>2
    <3> QED BY <1>2, <1>3, <2>5, <3>3
  <2> QED BY <1>4, <2>2, <2>3, <2>4, <2>5
<1>5. CASE i \in {2, 4, 6, 7, 8, 9, 10, 12}
  <2>1. LET g == table[i][2]
        IN  /\ g.decision \notin {"propose_ticket", "request_business_clarification"}
            /\ g.reason \notin {"CRITICAL_EVIDENCE_UNAVAILABLE",
                                "CRITICAL_EVIDENCE_UNAVAILABLE_FINAL"}
    <3> DEFINE Plain(g) == /\ g.decision \notin {"propose_ticket", "request_business_clarification"}
                           /\ g.reason \notin {"CRITICAL_EVIDENCE_UNAVAILABLE",
                                               "CRITICAL_EVIDENCE_UNAVAILABLE_FINAL"}
    <3>1. /\ table[2][2] = Revise(IF InTransit(f) THEN STALLED ELSE OtherLogistics)
          /\ table[4][2] = NoAction("ACTIVE_LOGISTICS_TICKET_EXISTS")
          /\ table[6][2] = Decide("retry_later", "DELIVERED_WITHOUT_TIMELINE_EVIDENCE")
      OBVIOUS
    <3>2. /\ table[7][2] = Decide("retry_later", "TARGET_TIMELINE_ABSENT")
          /\ table[9][2] = NoAction("POLICY_NOT_ELIGIBLE")
          /\ table[10][2] = NoAction("CUSTOMER_REPORT_RESOLVED")
          /\ table[12][2] = Human("DELIVERY_EVIDENCE_CONFLICT")
      OBVIOUS
    <3>3. table[8][2] = PolicyGuard(r["policy"], SNR)
      OBVIOUS
    <3> HIDE DEF table
    <3>4. Plain(table[2][2]) /\ Plain(table[4][2]) /\ Plain(table[6][2])
      BY ONLY <3>1 DEF Decide, NoAction, Revise
    <3>5. Plain(table[7][2]) /\ Plain(table[9][2]) /\ Plain(table[10][2]) /\ Plain(table[12][2])
      BY ONLY <3>2 DEF Decide, Human, NoAction
    <3>6. Plain(table[8][2])
      BY ONLY <3>3, PolicyGuardDecides
    <3> HIDE DEF Plain
    <3>7. Plain(table[i][2])
      BY ONLY <1>5, <3>4, <3>5, <3>6
    <3> QED BY <3>7 DEF Plain
  <2> DEFINE g == table[i][2]
  <2>2. EvaluateSigned(f) = g
    <3> HIDE DEF table
    <3> QED BY <1>2, <1>3
  <2>3. /\ g.decision \notin {"propose_ticket", "request_business_clarification"}
        /\ g.reason \notin {"CRITICAL_EVIDENCE_UNAVAILABLE",
                            "CRITICAL_EVIDENCE_UNAVAILABLE_FINAL"}
    BY <2>1
  <2> HIDE DEF g
  <2> QED BY <2>2, <2>3, OtherwiseGrounded
<1>6. CASE i \in {13, 14}
  <2>1. /\ ~table[1][1] /\ ~table[2][1] /\ ~table[3][1] /\ ~table[4][1] /\ ~table[5][1]
        /\ ~table[6][1] /\ ~table[7][1] /\ ~table[8][1] /\ ~table[9][1] /\ ~table[10][1]
        /\ ~table[11][1] /\ ~table[12][1]
    <3> HIDE DEF table
    <3> QED BY <1>3, <1>6
  <2>2. \A t \in RequiredTools(SNR) : Completed(r[t])
    BY <2>1 DEF RequiredTools, AnyUnavailable
  <2>3. CASE i = 13
    <3>1. EvaluateSigned(f) = table[13][2] /\ table[13][1]
      <4> HIDE DEF table
      <4> QED BY ONLY <1>2, <1>3, <2>3
    <3>2. /\ table[13][2] = Decide("request_business_clarification", "CHECK_RECEPTION_LOCATION")
          /\ table[13][1] = (r["proof"].value = "reception" /\ ~f.receptionChecked)
      OBVIOUS
    <3> HIDE DEF table
    <3>3. /\ EvaluateSigned(f) = Decide("request_business_clarification", "CHECK_RECEPTION_LOCATION")
          /\ r["proof"].value = "reception" /\ ~f.receptionChecked
      BY ONLY <3>1, <3>2
    <3> QED BY ONLY <2>2, <3>3 DEF Grounded, Reads, Decide, RequiredTools
  <2>4. CASE i = 14
    <3>1. ~table[13][1]
      <4> HIDE DEF table
      <4> QED BY <1>3, <2>4
    <3>2. SignedGrounds(f)
      BY <2>1, <2>2, <3>1 DEF SignedGrounds
    <3>3. table[14][2] = Decide("propose_ticket", "SIGNED_NOT_RECEIVED_EVIDENCE_COMPLETE")
      OBVIOUS
    <3> HIDE DEF table
    <3>4. EvaluateSigned(f) = Decide("propose_ticket", "SIGNED_NOT_RECEIVED_EVIDENCE_COMPLETE")
      BY ONLY <1>2, <1>3, <2>4, <3>3
    <3> QED BY ONLY <3>2, <3>4 DEF Grounded, Decide
  <2> QED BY <1>6, <2>3, <2>4
<1> QED BY <1>4, <1>5, <1>6
LEMMA StalledIsGrounded ==
  ASSUME NEW f, f.retryExhausted \in BOOLEAN
  PROVE  Grounded(EvaluateStalled(f), STALLED, f)
<1> DEFINE r == f.results
           inputs == {r["order"], r["timeline"], r["policy"]}
           alertsRead == f.businessDemo /\ ~Missing(r["alerts"])
           lost(rows) == Unavailable(rows, f.retryExhausted)
           table == <<
      <<AnyUnavailable(inputs), lost(inputs)>>,
      <<f.target = "delivered", Revise(SNR)>>,
      <<f.target = "none" /\ r["order"].value # "shipped", NoAction("ORDER_NOT_IN_TRANSIT")>>,
      <<f.target = "other", NoAction("SHIPMENT_NOT_IN_TRANSIT")>>,
      <<r["timeline"].value = "none", Decide("retry_later", "TRACKING_TIMELINE_ABSENT")>>,
      <<PolicyGuarded(r["policy"], STALLED), PolicyGuard(r["policy"], STALLED)>>,
      <<r["policy"].value = "ineligible", NoAction("POLICY_NOT_ELIGIBLE")>>,
      <<r["timeline"].value = "elsewhere", Decide("retry_later", "TARGET_TIMELINE_ABSENT")>>,
      <<r["timeline"].value = "contradicts", Human("PERSISTENT_STRUCTURAL_CONFLICT")>>,
      <<r["timeline"].value = "within", NoAction("WITHIN_TRACKING_SLA")>>,
      <<alertsRead /\ ~Completed(r["alerts"]), lost({r["alerts"]})>>,
      <<~Completed(r["tickets"]), lost({r["tickets"]})>>,
      <<r["tickets"].value = "active", NoAction("ACTIVE_LOGISTICS_TICKET_EXISTS")>>,
      <<alertsRead /\ r["alerts"].value = "active", NoAction("ACTIVE_CARRIER_RECOVERY_WINDOW")>>,
      <<TRUE, Decide("propose_ticket", "STALLED_TRACKING_EVIDENCE_COMPLETE")>> >>
<1>1. DOMAIN table = 1..15 /\ table[15][1]
  OBVIOUS
<1>2. EvaluateStalled(f) = FirstRow(table)
  BY DEF EvaluateStalled
<1>3. PICK i \in 1..15 : /\ table[i][1]
                         /\ \A j \in 1..15 : j < i => ~table[j][1]
                         /\ FirstRow(table) = table[i][2]
  <2> HIDE DEF table
  <2>1. \E i \in 1..15 : table[i][1]
    BY <1>1
  <2> QED BY <1>1, <2>1, FirstRowDecides
<1>4. CASE i \in {1, 11, 12}
  <2>1. ASSUME NEW T, AnyUnavailable({r[t] : t \in T}),
               \/ T \subseteq RequiredTools(STALLED)
               \/ T = {"alerts"} /\ ~Missing(r["alerts"])
        PROVE  Grounded(lost({r[t] : t \in T}), STALLED, f)
    BY <2>1, LostGrounded DEF Issues
  <2>2. CASE i = 1
    <3> DEFINE T == {"order", "timeline", "policy"}
    <3>1. table[1][2] = lost({r[t] : t \in T})
      OBVIOUS
    <3>2. AnyUnavailable({r[t] : t \in T})
      BY <1>3, <2>2 DEF AnyUnavailable
    <3>3. T \subseteq RequiredTools(STALLED)
      BY DEF RequiredTools
    <3> HIDE DEF table, lost, T
    <3>4. Grounded(table[1][2], STALLED, f)
      BY <2>1, <3>1, <3>2, <3>3
    <3> QED BY <1>2, <1>3, <2>2, <3>4
  <2>3. CASE i = 11
    <3> DEFINE T == {"alerts"}
    <3>1. table[11][2] = lost({r[t] : t \in T})
      OBVIOUS
    <3>2. AnyUnavailable({r[t] : t \in T})
      BY <1>3, <2>3 DEF AnyUnavailable
    <3>3. T = {"alerts"} /\ ~Missing(r["alerts"])
      BY <1>3, <2>3 DEF RequiredTools
    <3> HIDE DEF table, lost, T
    <3>4. Grounded(table[11][2], STALLED, f)
      BY <2>1, <3>1, <3>2, <3>3
    <3> QED BY <1>2, <1>3, <2>3, <3>4
  <2>4. CASE i = 12
    <3> DEFINE T == {"tickets"}
    <3>1. table[12][2] = lost({r[t] : t \in T})
      OBVIOUS
    <3>2. AnyUnavailable({r[t] : t \in T})
      BY <1>3, <2>4 DEF AnyUnavailable
    <3>3. T \subseteq RequiredTools(STALLED)
      BY DEF RequiredTools
    <3> HIDE DEF table, lost, T
    <3>4. Grounded(table[12][2], STALLED, f)
      BY <2>1, <3>1, <3>2, <3>3
    <3> QED BY <1>2, <1>3, <2>4, <3>4
  <2> QED BY <1>4, <2>2, <2>3, <2>4
<1>5. CASE i \in {2, 3, 4, 5, 6, 7, 8, 9, 10, 13, 14}
  <2>1. LET g == table[i][2]
        IN  /\ g.decision \notin {"propose_ticket", "request_business_clarification"}
            /\ g.reason \notin {"CRITICAL_EVIDENCE_UNAVAILABLE",
                                "CRITICAL_EVIDENCE_UNAVAILABLE_FINAL"}
    <3> DEFINE Plain(g) == /\ g.decision \notin {"propose_ticket", "request_business_clarification"}
                           /\ g.reason \notin {"CRITICAL_EVIDENCE_UNAVAILABLE",
                                               "CRITICAL_EVIDENCE_UNAVAILABLE_FINAL"}
    <3>1. /\ table[2][2] = Revise(SNR)
          /\ table[3][2] = NoAction("ORDER_NOT_IN_TRANSIT")
          /\ table[4][2] = NoAction("SHIPMENT_NOT_IN_TRANSIT")
          /\ table[5][2] = Decide("retry_later", "TRACKING_TIMELINE_ABSENT")
          /\ table[7][2] = NoAction("POLICY_NOT_ELIGIBLE")
      OBVIOUS
    <3>2. /\ table[8][2] = Decide("retry_later", "TARGET_TIMELINE_ABSENT")
          /\ table[9][2] = Human("PERSISTENT_STRUCTURAL_CONFLICT")
          /\ table[10][2] = NoAction("WITHIN_TRACKING_SLA")
          /\ table[13][2] = NoAction("ACTIVE_LOGISTICS_TICKET_EXISTS")
          /\ table[14][2] = NoAction("ACTIVE_CARRIER_RECOVERY_WINDOW")
      OBVIOUS
    <3>3. table[6][2] = PolicyGuard(r["policy"], STALLED)
      OBVIOUS
    <3> HIDE DEF table
    <3>4. Plain(table[2][2]) /\ Plain(table[3][2]) /\ Plain(table[4][2]) /\ Plain(table[5][2]) /\ Plain(table[7][2])
      BY ONLY <3>1 DEF Decide, NoAction, Revise
    <3>5. Plain(table[8][2]) /\ Plain(table[9][2]) /\ Plain(table[10][2]) /\ Plain(table[13][2]) /\ Plain(table[14][2])
      BY ONLY <3>2 DEF Decide, Human, NoAction
    <3>6. Plain(table[6][2])
      BY ONLY <3>3, PolicyGuardDecides
    <3> HIDE DEF Plain
    <3>7. Plain(table[i][2])
      BY ONLY <1>5, <3>4, <3>5, <3>6
    <3> QED BY <3>7 DEF Plain
  <2> DEFINE g == table[i][2]
  <2>2. EvaluateStalled(f) = g
    <3> HIDE DEF table
    <3> QED BY <1>2, <1>3
  <2>3. /\ g.decision \notin {"propose_ticket", "request_business_clarification"}
        /\ g.reason \notin {"CRITICAL_EVIDENCE_UNAVAILABLE",
                            "CRITICAL_EVIDENCE_UNAVAILABLE_FINAL"}
    BY <2>1
  <2> HIDE DEF g
  <2> QED BY <2>2, <2>3, OtherwiseGrounded
<1>6. CASE i = 15
  <2>1. /\ ~table[1][1] /\ ~table[2][1] /\ ~table[3][1] /\ ~table[4][1] /\ ~table[5][1]
        /\ ~table[6][1] /\ ~table[7][1] /\ ~table[8][1] /\ ~table[9][1] /\ ~table[10][1]
        /\ ~table[11][1] /\ ~table[12][1] /\ ~table[13][1] /\ ~table[14][1]
    <3> HIDE DEF table
    <3> QED BY <1>3, <1>6
  <2>2. \A t \in RequiredTools(STALLED) : Completed(r[t])
    BY <2>1 DEF RequiredTools, AnyUnavailable, SNR, STALLED
  <2>3. StalledGrounds(f)
    BY <2>1, <2>2 DEF StalledGrounds
  <2>4. table[15][2] = Decide("propose_ticket", "STALLED_TRACKING_EVIDENCE_COMPLETE")
    OBVIOUS
  <2> HIDE DEF table
  <2>5. EvaluateStalled(f) = Decide("propose_ticket", "STALLED_TRACKING_EVIDENCE_COMPLETE")
    BY ONLY <1>2, <1>3, <1>6, <2>4
  <2> QED BY ONLY <2>3, <2>5 DEF Grounded, Decide, SNR, STALLED
<1> QED BY <1>4, <1>5, <1>6

(* _evaluate_gate: what it puts before the tables decides nothing that rests
   on evidence, and the tables get only what is within the budget. *)
LEMMA GateIsGrounded ==
  ASSUME NEW issue \in Issues, NEW f, f.retryExhausted \in BOOLEAN, NEW exceeded \in BOOLEAN
  PROVE  LET g == EvaluateGate(issue, f, exceeded)
         IN  /\ Grounded(g, issue, f)
             /\ (\/ g.decision = "propose_ticket"
                 \/ g.reason = "CRITICAL_EVIDENCE_UNAVAILABLE") => ~exceeded
<1> DEFINE table == <<
      <<exceeded, Human("INVESTIGATION_BUDGET_EXCEEDED")>>,
      <<Missing(f.results["order"]), Human("REQUIRED_QUERY_NOT_COMPLETED")>>,
      <<ContradictsReport(issue, f), Revise(RevisedIssue(issue, f))>>,
      <<Reads(f.results["tickets"], "active"), NoAction("ACTIVE_LOGISTICS_TICKET_EXISTS")>>,
      <<MissingQueries(issue, f.results) # {}, Human("REQUIRED_QUERY_NOT_COMPLETED")>>,
      <<TRUE, EvaluateEvidenceGate(issue, f)>> >>
<1>1. DOMAIN table = 1..6 /\ table[6][1]
  OBVIOUS
<1>2. EvaluateGate(issue, f, exceeded) = FirstRow(table)
  BY DEF EvaluateGate
<1>3. PICK i \in 1..6 : /\ table[i][1]
                        /\ \A j \in 1..6 : j < i => ~table[j][1]
                        /\ FirstRow(table) = table[i][2]
  <2> HIDE DEF table
  <2>1. \E i \in 1..6 : table[i][1]
    BY <1>1
  <2> QED BY <1>1, <2>1, FirstRowDecides
<1>4. CASE i \in 1..5
  <2>1. LET g == table[i][2]
        IN  /\ g.decision \notin {"propose_ticket", "request_business_clarification"}
            /\ g.reason \notin {"CRITICAL_EVIDENCE_UNAVAILABLE",
                                "CRITICAL_EVIDENCE_UNAVAILABLE_FINAL"}
    BY <1>4 DEF Human, NoAction, Decide, Revise
  <2> DEFINE g == table[i][2]
  <2>2. EvaluateGate(issue, f, exceeded) = g
    <3> HIDE DEF table
    <3> QED BY <1>2, <1>3
  <2>3. /\ g.decision \notin {"propose_ticket", "request_business_clarification"}
        /\ g.reason \notin {"CRITICAL_EVIDENCE_UNAVAILABLE",
                            "CRITICAL_EVIDENCE_UNAVAILABLE_FINAL"}
    BY <2>1
  <2> HIDE DEF g
  <2>4. Grounded(g, issue, f)
    BY <2>3, OtherwiseGrounded
  <2> QED BY <2>2, <2>3, <2>4
<1>5. CASE i = 6
  <2>1. ~exceeded
    <3>1. ~table[1][1]
      <4> HIDE DEF table
      <4> QED BY <1>3, <1>5
    <3> QED BY <3>1
  <2>2. table[6][2] = EvaluateEvidenceGate(issue, f)
    OBVIOUS
  <2>3. Grounded(EvaluateEvidenceGate(issue, f), issue, f)
    BY SignedIsGrounded, StalledIsGrounded DEF EvaluateEvidenceGate, Issues
  <2> HIDE DEF table
  <2> QED BY <1>2, <1>3, <1>5, <2>1, <2>2, <2>3
<1> QED BY <1>4, <1>5

-----------------------------------------------------------------------------
(* What the rows of a Run say, and what the sources said. *)

(* What sources that say w and s have answered a query with: the answer of the
   ticket source is good for its revision, the others never change theirs. *)
Told(w, s, t, issue, at, value) ==
    IF t = "tickets"
      THEN /\ value \in {NONE, "active"}
           /\ at = s.revision => (value = "active" <=> issue \in s.active)
      ELSE value = IF t = "policy" THEN w.policy[issue] ELSE w[t]

RowsAreTold ==
    \A t \in Tools :
        /\ results[t].source <= Revision(t)
        /\ Completed(results[t]) =>
             Told(world, source, t, results[t].issue, results[t].source, results[t].value)
CacheIsTold ==
    \A k \in DOMAIN cache :
        cache[k].status = "success" => Told(world, source, k[1], k[2], k[3], cache[k].value)
HistoryIsTold ==
    \A h \in history :
        h.status = "success" => Told(world, source, h.tool, h.issue, h.source, h.value)
TruthInv == RowsAreTold /\ CacheIsTold /\ HistoryIsTold

LEMMA ReadIsTold ==
  ASSUME TypeOK, NEW t \in Tools, NEW i \in Issues
  PROVE  Told(world, source, t, IssueArgument(t, i), Revision(t), SourceValue(t, i))
<1>1. CASE t = "tickets"
  BY <1>1 DEF Told, IssueArgument, PerIssue, Revision, SourceValue, NONE
<1>2. CASE t = "policy"
  BY <1>2 DEF Told, IssueArgument, PerIssue, SourceValue
<1>3. CASE t \notin {"tickets", "policy"}
  BY <1>3 DEF Told, SourceValue
<1> QED BY <1>1, <1>2, <1>3

(* What was told stays so: a changed ticket source has a new revision. *)
LEMMA ToldStays ==
  ASSUME TypeOK, UNCHANGED <<world, source>> \/ TicketSourceChanges,
         NEW t \in Tools, NEW issue, NEW at \in Nat, at <= Revision(t), NEW value,
         Told(world, source, t, issue, at, value)
  PROVE  Told(world', source', t, issue, at, value)
<1>1. CASE UNCHANGED <<world, source>>
  BY <1>1
<1>2. CASE TicketSourceChanges
  <2>1. world' = world /\ source'.revision = source.revision + 1 /\ source.revision \in Nat
    BY <1>2 DEF TicketSourceChanges, TypeOK
  <2>2. CASE t = "tickets"
    <3>1. at # source'.revision
      BY <2>1, <2>2 DEF Revision
    <3> QED BY <2>2, <3>1 DEF Told
  <2>3. CASE t # "tickets"
    BY <2>1, <2>3 DEF Told
  <2> QED BY <2>2, <2>3
<1> QED BY <1>1, <1>2

(* Steps that leave what is known of the sources alone. *)
LEMMA TruthFrame ==
  ASSUME CaseInv, TruthInv, UNCHANGED <<world, source>> \/ TicketSourceChanges
  PROVE  /\ UNCHANGED history => HistoryIsTold'
         /\ UNCHANGED cache => CacheIsTold'
         /\ UNCHANGED results => RowsAreTold'
<1>1. TypeOK
  BY DEF CaseInv, RunInv
<1>2. \A t \in Tools : Revision(t)' >= Revision(t) /\ Revision(t) \in Nat /\ Revision(t)' \in Nat
  BY <1>1 DEF Revision, TypeOK, TicketSourceChanges
<1>3. ASSUME UNCHANGED history PROVE HistoryIsTold'
  <2>1. SUFFICES ASSUME NEW h \in history, h.status = "success"
                 PROVE  Told(world', source', h.tool, h.issue, h.source, h.value)
    BY <1>3 DEF HistoryIsTold
  <2>2. h.tool \in Tools /\ h.source \in Nat /\ h.source <= Revision(h.tool)
    BY <1>1 DEF TypeOK, ReadRows, CaseInv, ReadsInv, ReadsCached
  <2> QED BY <1>1, <2>1, <2>2, ToldStays DEF TruthInv, HistoryIsTold
<1>4. ASSUME UNCHANGED cache PROVE CacheIsTold'
  <2>1. SUFFICES ASSUME NEW k \in DOMAIN cache, cache[k].status = "success"
                 PROVE  Told(world', source', k[1], k[2], k[3], cache[k].value)
    BY <1>4 DEF CacheIsTold
  <2>2. k[1] \in Tools /\ k[3] \in Nat /\ k[3] <= Revision(k[1])
    BY <1>1 DEF TypeOK, CacheType, Queries, CaseInv, ReadsInv, KeyKnown
  <2> QED BY <1>1, <2>1, <2>2, ToldStays DEF TruthInv, CacheIsTold
<1>5. ASSUME UNCHANGED results PROVE RowsAreTold'
  <2>1. SUFFICES ASSUME NEW t \in Tools
                 PROVE  /\ results[t].source <= Revision(t)'
                        /\ Completed(results[t]) =>
                             Told(world', source', t, results[t].issue, results[t].source,
                                  results[t].value)
    BY <1>5 DEF RowsAreTold
  <2>2. results[t].source \in Nat /\ results[t].source <= Revision(t)
    BY <1>1 DEF TypeOK, Rows, TruthInv, RowsAreTold
  <2>3. results[t].source <= Revision(t)'
    BY <1>2, <2>2
  <2> QED BY <1>1, <2>2, <2>3, ToldStays DEF TruthInv, RowsAreTold
<1> QED BY <1>3, <1>4, <1>5

(* A new Run starts without rows, and a cache that is made of the tool rows
   says what they say. *)
LEMMA TruthStart ==
  ASSUME CaseInv, TruthInv, UNCHANGED <<world, source, history>>,
         results' = [t \in Tools |-> NotQueried],
         \/ UNCHANGED cache
         \/ cache' = RebuildCache(history, [tool \in Tools |-> Revision(tool)])
  PROVE  TruthInv'
<1>1. RowsAreTold'
  BY DEF RowsAreTold, NotQueried, Completed, Revision, CaseInv, RunInv, TypeOK
<1>2. HistoryIsTold'
  BY TruthFrame
<1>3. ASSUME cache' = RebuildCache(history, [tool \in Tools |-> Revision(tool)])
      PROVE  CacheIsTold'
  <2> DEFINE now == [tool \in Tools |-> Revision(tool)]
             keys == {<<h.tool, h.issue, now[h.tool]>> : h \in history}
             asked(key) == {h \in history : h.tool = key[1] /\ h.issue = key[2]}
             read(key) == {h \in asked(key) : h.source = key[3]}
             settled(key) == {h \in read(key) : h.status # "retryable_error"}
             latest(key) ==
                IF settled(key) # {} THEN CHOOSE h \in settled(key) : TRUE
                ELSE IF read(key) # {} THEN CHOOSE h \in read(key) : TRUE
                ELSE NoEntry
  <2>1. DOMAIN cache' = keys /\ \A k \in keys :
          cache'[k] = [attempts |-> Cardinality(asked(k)), status |-> latest(k).status,
                       value |-> latest(k).value]
    BY <1>3 DEF RebuildCache
  <2>2. SUFFICES ASSUME NEW k \in keys, cache'[k].status = "success"
                 PROVE  Told(world, source, k[1], k[2], k[3], cache'[k].value)
    <3> HIDE DEF keys, latest
    <3> QED BY <2>1 DEF CacheIsTold
  <2>3. latest(k) \in read(k) \/ latest(k) = NoEntry
    OBVIOUS
  <2>4. cache'[k].status = latest(k).status /\ cache'[k].value = latest(k).value
    <3> DEFINE count == Cardinality(asked(k))
               found == latest(k)
    <3>1. cache'[k] = [attempts |-> count, status |-> found.status, value |-> found.value]
      BY <2>1
    <3> HIDE DEF count, found
    <3> QED BY <3>1 DEF found
  <2> DEFINE h == latest(k)
  <2>5. h \in read(k) /\ h.status = "success"
    BY <2>2, <2>3, <2>4 DEF NoEntry
  <2> HIDE DEF h, latest
  <2>6. h \in history /\ h.tool = k[1] /\ h.issue = k[2] /\ h.source = k[3]
    BY <2>5
  <2>7. Told(world, source, h.tool, h.issue, h.source, h.value)
    BY <2>5, <2>6 DEF TruthInv, HistoryIsTold
  <2> QED BY <2>4, <2>6, <2>7 DEF h
<1>4. UNCHANGED cache => CacheIsTold'
  BY TruthFrame
<1> QED BY <1>1, <1>2, <1>3, <1>4 DEF TruthInv

(* A row of the called tool says what the source said, now or when the cache
   got it. *)
LEMMA TruthTools ==
  ASSUME CaseInv, TruthInv, ToolsNode
  PROVE  TruthInv'
<1>1. /\ pc = "tools" /\ call \in Calls /\ call.tool \in Tools /\ call.issue \in Issues
      /\ UNCHANGED <<world, source>>
  BY DEF ToolsNode, CacheHit, BlockCall, ReadSource, CaseInv, RunInv, RetryOnce, Calls
<1>2. /\ TypeOK /\ RunInv /\ CallKey \in Queries
      /\ CallKey = <<call.tool, IssueArgument(call.tool, call.issue), Revision(call.tool)>>
      /\ \A t \in Tools : Revision(t)' = Revision(t) /\ Revision(t) \in Nat
  BY <1>1, CallKeyType DEF CaseInv, RunInv, TypeOK, Revision
<1>3. ASSUME NEW status \in Statuses, NEW value \in Values, NEW actual \in BOOLEAN, NEW spent,
             OnToolResult(Row(status, value, actual), spent),
             status = "success" => Told(world, source, CallKey[1], CallKey[2], CallKey[3], value)
      PROVE  RowsAreTold'
  <2>1. PICK row \in Rows :
          /\ results' = [results EXCEPT ![call.tool] = row]
          /\ row.source = Revision(call.tool) /\ row.status = status /\ row.value = value
          /\ row.issue = IssueArgument(call.tool, call.issue)
    <3>1. Row(status, value, actual) \in Rows
          /\ Row(status, value, actual).source = Revision(call.tool)
          /\ Row(status, value, actual).status = status
          /\ Row(status, value, actual).value = value
      BY <1>1, <1>2, RowType
    <3>2. Row(status, value, actual).issue = IssueArgument(call.tool, call.issue)
      BY DEF Row
    <3>3. results' = [results EXCEPT ![call.tool] = Row(status, value, actual)]
      BY <1>3 DEF OnToolResult
    <3> QED BY <3>1, <3>2, <3>3
  <2>2. SUFFICES ASSUME NEW t \in Tools
                 PROVE  /\ results'[t].source <= Revision(t)'
                        /\ Completed(results'[t]) =>
                             Told(world, source, t, results'[t].issue, results'[t].source,
                                  results'[t].value)
    BY <1>1 DEF RowsAreTold
  <2>3. CASE t = call.tool
    <3>1. results'[t] = row
      BY <1>2, <2>1, <2>3 DEF TypeOK
    <3>2. Completed(row) => Told(world, source, t, row.issue, row.source, row.value)
      BY <1>2, <1>3, <2>1, <2>3 DEF Completed
    <3> QED BY <1>2, <2>1, <2>3, <3>1, <3>2
  <2>4. CASE t # call.tool
    <3>1. results'[t] = results[t]
      BY <1>2, <2>1, <2>4 DEF TypeOK
    <3> QED BY <1>2, <3>1 DEF TruthInv, RowsAreTold
  <2> QED BY <2>3, <2>4
<1>4. CASE CacheHit
  <2> DEFINE entry == Entry(cache, CallKey)
  <2>1. entry \in Entries
    BY <1>2, EntryType DEF TypeOK
  <2>2. entry.status = "success" =>
          Told(world, source, CallKey[1], CallKey[2], CallKey[3], entry.value)
    BY DEF Entry, NoEntry, TruthInv, CacheIsTold
  <2>3. OnToolResult(Row(entry.status, entry.value, FALSE), budget)
        /\ UNCHANGED <<history, cache>>
    BY <1>4 DEF CacheHit
  <2> HIDE DEF entry
  <2>4. RowsAreTold'
    BY <1>3, <2>1, <2>2, <2>3 DEF Entries
  <2> QED BY <1>1, <2>3, <2>4, TruthFrame DEF TruthInv
<1>5. CASE BlockCall
  <2>1. OnToolResult(Row("non_retryable_error", NONE, FALSE), budget)
        /\ UNCHANGED <<history, cache>>
    BY <1>5 DEF BlockCall
  <2>2. "non_retryable_error" \in Statuses /\ NONE \in Values
    BY DEF Statuses, Values
  <2>3. RowsAreTold'
    BY <1>3, <2>1, <2>2
  <2> QED BY <1>1, <2>1, <2>3, TruthFrame DEF TruthInv
<1>6. CASE ReadSource
  <2>1. PICK status \in Statuses \ {"not_queried"}, value \in Values, h \in ReadRows :
            /\ value = IF status = "success" THEN SourceValue(call.tool, call.issue) ELSE NONE
            /\ h = [run |-> run.n, tool |-> call.tool,
                    issue |-> IssueArgument(call.tool, call.issue),
                    source |-> Revision(call.tool), attempt |-> results[call.tool].attempt + 1,
                    status |-> status, value |-> value]
            /\ history' = history \cup {h}
            /\ cache' = Store(cache, CallKey, status, value)
            /\ OnToolResult(Row(status, value, TRUE), [budget EXCEPT !.reads = @ + 1])
    BY <1>2, <1>6, ReadSourceSteps
  <2>2. status = "success" => Told(world, source, CallKey[1], CallKey[2], CallKey[3], value)
    <3>1. Told(world, source, call.tool, IssueArgument(call.tool, call.issue),
               Revision(call.tool), SourceValue(call.tool, call.issue))
      BY <1>1, <1>2, ReadIsTold
    <3> QED BY <1>2, <2>1, <3>1
  <2>3. RowsAreTold'
    BY <1>3, <2>1, <2>2
  <2>4. HistoryIsTold'
    <3>1. h.status = status /\ h.value = value /\ h.tool = CallKey[1] /\ h.issue = CallKey[2]
          /\ h.source = CallKey[3]
      BY <1>2, <2>1
    <3> QED BY <1>1, <2>1, <2>2, <3>1 DEF HistoryIsTold, TruthInv
  <2>5. CacheIsTold'
    <3>1. PICK key \in Queries : key = CallKey
      BY <1>2
    <3>2. key[2] \in Arguments(key[1]) /\ CacheType /\ cache' = Store(cache, key, status, value)
      BY <1>1, <1>2, <2>1, <3>1, CallKeyType DEF TypeOK
    <3>3. /\ DOMAIN cache' = DOMAIN cache \cup {key}
          /\ cache'[key] = [attempts |-> Entry(cache, key).attempts + 1,
                            status |-> status, value |-> value]
          /\ \A k \in DOMAIN cache : k # key => cache'[k] = cache[k]
      BY <3>2, StoreType
    <3> QED BY <1>1, <2>2, <3>1, <3>3 DEF CacheIsTold, TruthInv
  <2> QED BY <2>3, <2>4, <2>5 DEF TruthInv
<1> QED BY <1>4, <1>5, <1>6 DEF ToolsNode

(* Whatever the steps of a Run and between Runs do, the rows stay true. *)
LEMMA TruthNext == ASSUME CaseInv, TruthInv, [Next]_vars PROVE TruthInv'
<1>1. CASE AgentNode \/ SelectNode \/ InvestigationFails \/ GateNode
  <2>1. UNCHANGED <<world, source, history, cache, results>>
    BY <1>1 DEF AgentNode, RetrySourceChanged, EmitExactRetry, StopObserving, TurnRefused,
       TakeTurn, SelectNode, AcceptObservation, AcceptFinish, CorrectSelector,
       RejectObservation, InvestigationFails, GateNode, CloseAfterInvestigation, ProposeTicket,
       RetryLater, RequestBusinessClarification, ReviseIssue, ApplyAndEnd
  <2> QED BY <2>1, TruthFrame DEF TruthInv
<1>2. CASE BetweenRuns
  <2>1. UNCHANGED <<world, source, history>>
    BY <1>2 DEF BetweenRuns, FirstInvestigation, CloseAtClarificationLimit, AnswerClarification,
       Retry, RetryFails, ProposalLapses
  <2>2. \/ UNCHANGED <<cache, results>>
        \/ /\ results' = [t \in Tools |-> NotQueried]
           /\ \/ UNCHANGED cache
              \/ cache' = RebuildCache(history, [tool \in Tools |-> Revision(tool)])
    BY <1>2 DEF BetweenRuns, FirstInvestigation, CloseAtClarificationLimit, AnswerClarification,
       Retry, RetryFails, ProposalLapses, StartRun, FindCache
  <2> QED BY <2>1, <2>2, TruthFrame, TruthStart DEF TruthInv
<1>3. CASE TicketSourceChanges \/ StayIdle \/ UNCHANGED vars
  <2>1. UNCHANGED <<history, cache, results>>
        /\ (UNCHANGED <<world, source>> \/ TicketSourceChanges)
    BY <1>3 DEF TicketSourceChanges, StayIdle, vars
  <2> QED BY <2>1, TruthFrame DEF TruthInv
<1> QED BY <1>1, <1>2, <1>3, TruthTools DEF Next

-----------------------------------------------------------------------------
(* When and for what issue a Run's rows were read. *)

(* At the revision they were read from, all completed rows say what their
   sources say now. *)
LEMMA RowsAgree == ASSUME CaseInv, TruthInv PROVE SourcesAgree
<1>1. SUFFICES ASSUME NEW t \in Tools, Completed(results[t]), results[t].source = Revision(t)
               PROVE  results[t].value = SourceValue(t, results[t].issue)
  BY DEF SourcesAgree
<1>2. Told(world, source, t, results[t].issue, results[t].source, results[t].value)
  BY <1>1 DEF TruthInv, RowsAreTold
<1>3. CASE t = "tickets"
  BY <1>1, <1>2, <1>3 DEF Told, SourceValue, Revision, NONE
<1>4. CASE t = "policy"
  BY <1>2, <1>4 DEF Told, SourceValue
<1>5. CASE t \notin {"tickets", "policy"}
  BY <1>2, <1>5 DEF Told, SourceValue
<1> QED BY <1>3, <1>4, <1>5

(* Before a correction, the tickets were read for the issue of the Case. *)
IssueInv ==
    (pc # "idle" \/ case.state = "proposed") /\ run.pass = 0 /\ Completed(results["tickets"])
        => results["tickets"].issue = case.issue

LEMMA IssueTools == ASSUME CaseInv, IssueInv, ToolsNode PROVE IssueInv'
<1>1. /\ pc = "tools" /\ call \in Calls /\ call.tool \in Tools /\ call.issue \in Issues
      /\ UNCHANGED case
  BY DEF ToolsNode, CacheHit, BlockCall, ReadSource, CaseInv, RunInv, RetryOnce, Calls
<1>2. TypeOK /\ "tickets" \in Tools
  BY DEF CaseInv, RunInv, Tools
<1>3. PICK status, value, actual, spent :
        /\ OnToolResult(Row(status, value, actual), spent)
        /\ InScope \/ status = "non_retryable_error"
  BY DEF ToolsNode, CacheHit, BlockCall, ReadSource, Blocked
<1>4. /\ results' = [results EXCEPT ![call.tool] = Row(status, value, actual)]
      /\ run'.pass = run.pass
  BY <1>2, <1>3 DEF OnToolResult, TypeOK, RunRows
<1>5. CASE call.tool = "tickets"
  <2>1. /\ results'["tickets"].status = status
        /\ results'["tickets"].issue = call.issue
    BY <1>2, <1>4, <1>5 DEF Row, IssueArgument, PerIssue, TypeOK
  <2>2. InScope => call.issue = case.issue
    BY <1>1, <1>5, Names DEF InScope, IssueArgument, PerIssue
  <2> QED BY <1>1, <1>3, <2>1, <2>2 DEF IssueInv, Completed
<1>6. CASE call.tool # "tickets"
  <2>1. results'["tickets"] = results["tickets"]
    BY <1>2, <1>4, <1>6 DEF TypeOK
  <2> QED BY <1>1, <1>4, <2>1 DEF IssueInv
<1> QED BY <1>5, <1>6

LEMMA IssueNext == ASSUME CaseInv, IssueInv, [Next]_vars PROVE IssueInv'
<1>1. CaseRowType /\ TypeOK
  BY DEF CaseInv, RunInv, TypeOK
<1>2. CASE AgentNode \/ SelectNode
  <2>1. UNCHANGED <<case, results>> /\ pc # "idle" /\ run'.pass = run.pass
    BY <1>1, <1>2 DEF AgentNode, RetrySourceChanged, EmitExactRetry, StopObserving, TurnRefused,
       TakeTurn, SelectNode, AcceptObservation, AcceptFinish, CorrectSelector,
       RejectObservation, TypeOK, RunRows
  <2> QED BY <2>1 DEF IssueInv
<1>3. CASE InvestigationFails \/ CloseAtClarificationLimit \/ RetryFails \/ ProposalLapses
  <2>1. pc' = "idle" /\ case'.state # "proposed"
    BY <1>1, <1>3 DEF InvestigationFails, UsageAfterFailure, CloseAtClarificationLimit,
       RetryFails, ProposalLapses, CaseRowType
  <2> QED BY <2>1 DEF IssueInv
<1>4. CASE GateNode
  <2>1. PICK gate :
          \/ CloseAfterInvestigation(gate) \/ ProposeTicket(gate) \/ RetryLater(gate)
          \/ RequestBusinessClarification(gate) \/ ReviseIssue(gate)
    BY <1>4 DEF GateNode
  <2>2. pc # "idle"
    BY <1>4 DEF GateNode
  <2>3. CASE ReviseIssue(gate)
    <3>1. run'.pass = 1
      BY <1>1, <2>3 DEF ReviseIssue, TypeOK, RunRows
    <3> QED BY <3>1 DEF IssueInv
  <2>4. CASE ~ReviseIssue(gate)
    <3>1. UNCHANGED <<results, run>> /\ case'.issue = case.issue
      BY <1>1, <2>1, <2>4 DEF CloseAfterInvestigation, ProposeTicket, RetryLater,
         RequestBusinessClarification, ApplyAndEnd, Counted, CaseRowType
    <3> QED BY <2>2, <3>1 DEF IssueInv
  <2> QED BY <2>3, <2>4
<1>5. CASE FirstInvestigation \/ AnswerClarification \/ Retry
  <2>1. results' = [t \in Tools |-> NotQueried]
    BY <1>5 DEF FirstInvestigation, AnswerClarification, Retry, StartRun
  <2>2. ~Completed(results'["tickets"])
    BY <2>1 DEF NotQueried, Completed, Tools
  <2> QED BY <2>2 DEF IssueInv
<1>6. CASE TicketSourceChanges \/ StayIdle \/ UNCHANGED vars
  <2>1. UNCHANGED <<case, results, run, pc>>
    BY <1>6 DEF TicketSourceChanges, StayIdle, vars
  <2> QED BY <2>1 DEF IssueInv
<1> QED BY <1>2, <1>3, <1>4, <1>5, <1>6, IssueTools DEF Next, BetweenRuns

(* What a Case is decided on. *)

(* A Run starts at the ticket source's revision and its ticket row is not
   older; while it is under way nothing is decided. *)
TimelyInv ==
    /\ run.startedAt <= source.revision
    /\ (pc # "idle" \/ case.state = "proposed") /\ ~Missing(results["tickets"]) =>
          results["tickets"].source >= run.startedAt
    /\ pc # "idle" => case.state \notin {"proposed", "closed"}

LEMMA TimelyTools == ASSUME CaseInv, TimelyInv, ToolsNode PROVE TimelyInv'
<1>1. /\ pc = "tools" /\ call \in Calls /\ call.tool \in Tools
      /\ UNCHANGED <<source, case>>
  BY DEF ToolsNode, CacheHit, BlockCall, ReadSource, CaseInv, RunInv, RetryOnce, Calls
<1>2. TypeOK /\ RunInv /\ source.revision \in Nat /\ run.startedAt \in Nat
  BY DEF CaseInv, RunInv, TypeOK, RunRows
<1>3. PICK status \in Statuses, value \in Values, actual \in BOOLEAN, spent \in Budgets :
        OnToolResult(Row(status, value, actual), spent)
  <2>1. budget \in Budgets /\ [budget EXCEPT !.reads = @ + 1] \in Budgets
    BY <1>2 DEF TypeOK, Budgets
  <2>2. CASE CacheHit
    <3>1. Entry(cache, CallKey).status \in Statuses /\ Entry(cache, CallKey).value \in Values
      BY <1>2, EntryType DEF TypeOK, Entries
    <3> QED BY <2>1, <2>2, <3>1 DEF CacheHit
  <2>3. CASE BlockCall
    BY <2>1, <2>3 DEF BlockCall, Statuses, Values
  <2>4. CASE ReadSource
    BY <1>2, <2>1, <2>4, ReadSourceSteps
  <2> QED BY <2>2, <2>3, <2>4 DEF ToolsNode
<1>4. PICK row \in Rows :
        /\ row.issue \in Arguments(call.tool)
        /\ row.attempt = results[call.tool].attempt + 1
        /\ row.source = Revision(call.tool) /\ OnToolResult(row, spent)
  <2>1. Row(status, value, actual) \in Rows
        /\ Row(status, value, actual).issue \in Arguments(call.tool)
        /\ Row(status, value, actual).attempt = results[call.tool].attempt + 1
        /\ Row(status, value, actual).source = Revision(call.tool)
    BY <1>1, <1>2, <1>3, RowType
  <2> QED BY <1>3, <2>1
<1>5. /\ results' = [results EXCEPT ![call.tool] = row]
      /\ run'.startedAt = run.startedAt
  BY <1>1, <1>2, <1>4, OnToolResultInv
<1>6. CASE call.tool = "tickets"
  <2>1. results'["tickets"] = row /\ row.source = source.revision
    BY <1>1, <1>2, <1>4, <1>5, <1>6 DEF TypeOK, Revision
  <2> QED BY <1>1, <1>2, <1>5, <2>1 DEF TimelyInv
<1>7. CASE call.tool # "tickets"
  <2>1. results'["tickets"] = results["tickets"]
    BY <1>2, <1>5, <1>7 DEF TypeOK
  <2> QED BY <1>1, <1>5, <2>1 DEF TimelyInv
<1> QED BY <1>6, <1>7

LEMMA TimelyNext == ASSUME CaseInv, TimelyInv, [Next]_vars PROVE TimelyInv'
<1>1. /\ TypeOK /\ run \in RunRows /\ source.revision \in Nat /\ run.startedAt \in Nat
      /\ IsFiniteSet(history) /\ CaseRowType
  BY DEF CaseInv, BudgetInv, CountersType, RunInv, TypeOK, RunRows
<1>2. CASE AgentNode \/ SelectNode
  <2>1. UNCHANGED <<source, case, results>> /\ pc # "idle" /\ run'.startedAt = run.startedAt
    BY <1>1, <1>2 DEF AgentNode, RetrySourceChanged, EmitExactRetry, StopObserving, TurnRefused,
       TakeTurn, SelectNode, AcceptObservation, AcceptFinish, CorrectSelector,
       RejectObservation, RunRows
  <2> QED BY <2>1 DEF TimelyInv
<1>3. CASE InvestigationFails
  <2>1. UNCHANGED <<source, results, run>> /\ pc' = "idle" /\ case'.state = "awaiting_retry"
    BY <1>1, <1>3 DEF InvestigationFails, UsageAfterFailure, CaseRowType
  <2> QED BY <2>1 DEF TimelyInv
<1>4. CASE GateNode
  <2>1. PICK gate :
          \/ CloseAfterInvestigation(gate) \/ ProposeTicket(gate) \/ RetryLater(gate)
          \/ RequestBusinessClarification(gate) \/ ReviseIssue(gate)
    BY <1>4 DEF GateNode
  <2>2. pc = "gate" /\ UNCHANGED <<source, results>>
    BY <1>4, <2>1 DEF GateNode, CloseAfterInvestigation, ProposeTicket, RetryLater,
       RequestBusinessClarification, ReviseIssue, ApplyAndEnd
  <2>3. CASE ReviseIssue(gate)
    <3>1. case'.state = case.state /\ run'.startedAt = run.startedAt
      BY <1>1, <2>3 DEF ReviseIssue, CaseRowType, RunRows
    <3> QED BY <2>2, <3>1 DEF TimelyInv
  <2>4. CASE ~ReviseIssue(gate)
    <3>1. pc' = "idle" /\ run' = run
      BY <2>1, <2>4 DEF CloseAfterInvestigation, ProposeTicket, RetryLater,
         RequestBusinessClarification, ApplyAndEnd
    <3> QED BY <2>2, <3>1 DEF TimelyInv
  <2> QED BY <2>3, <2>4
<1>5. CASE BetweenRuns
  <2>1. ASSUME NEW checked \in BOOLEAN, NEW elsewhere \in BOOLEAN, StartRun(checked, elsewhere),
               UNCHANGED <<source, case>>, case.state \notin {"proposed", "closed"}
        PROVE  TimelyInv'
    <3>1. run'.startedAt = source.revision /\ Missing(results'["tickets"])
      BY <1>1, <2>1, StartRunType DEF NotQueried, Missing, Tools
    <3> QED BY <1>1, <2>1, <3>1 DEF TimelyInv
  <2>2. CASE FirstInvestigation
    BY <2>1, <2>2 DEF FirstInvestigation
  <2>3. CASE AnswerClarification
    <3>1. \A l : (FactStatus(l) = "known_true") \in BOOLEAN
      OBVIOUS
    <3> QED BY <2>1, <2>3, <3>1 DEF AnswerClarification
  <2>4. CASE Retry
    BY <2>1, <2>4 DEF Retry
  <2>5. CASE RetryFails
    <3>1. run'.startedAt = source.revision
      BY <2>5 DEF RetryFails, NoRun
    <3> QED BY <1>1, <2>5, <3>1 DEF RetryFails, TimelyInv
  <2>6. CASE CloseAtClarificationLimit \/ ProposalLapses
    <3>1. /\ pc' = "idle" /\ case'.state # "proposed"
          /\ UNCHANGED <<source, run>>
      BY <1>1, <2>6 DEF CloseAtClarificationLimit, ProposalLapses, CaseRowType
    <3> QED BY <3>1 DEF TimelyInv
  <2> QED BY <1>5, <2>2, <2>3, <2>4, <2>5, <2>6 DEF BetweenRuns
<1>6. CASE TicketSourceChanges
  <2>1. source'.revision = source.revision + 1 /\ UNCHANGED <<case, results, run, pc>>
    BY <1>6 DEF TicketSourceChanges
  <2> QED BY <1>1, <2>1 DEF TimelyInv
<1>7. CASE StayIdle \/ UNCHANGED vars
  BY <1>7 DEF StayIdle, vars, TimelyInv
<1> QED BY <1>2, <1>3, <1>4, <1>5, <1>6, <1>7, TimelyTools DEF Next

-----------------------------------------------------------------------------
(* The question *)

(* Only a question that was never put is open: there is no second one. *)
LEMMA UnansweredIsNew ==
  ASSUME NEW h, NEW l, QuestionStatus(h, l) = "unanswered"
  PROVE  ProofFound(h) /\ ~l.asked
<1> DEFINE table == <<
      <<~ProofFound(h), "inapplicable">>,
      <<FactStatus(l) # "unknown", "answered">>,
      <<l.asked, "unknown_exhausted">>,
      <<TRUE, "unanswered">> >>
<1>1. DOMAIN table = 1..4 /\ table[4][1]
  OBVIOUS
<1>2. PICK i \in 1..4 : /\ \A j \in 1..4 : j < i => ~table[j][1]
                        /\ FirstRow(table) = table[i][2]
  <2> HIDE DEF table
  <2>1. \E i \in 1..4 : table[i][1]
    BY <1>1
  <2> QED BY <1>1, <2>1, FirstRowDecides
<1>3. QuestionStatus(h, l) = table[i][2]
  BY <1>2 DEF QuestionStatus
<1>4. i = 4
  BY <1>3
<1>5. ~table[1][1] /\ ~table[3][1]
  <2> HIDE DEF table
  <2> QED BY <1>2, <1>4
<1> QED BY <1>5

QuestionInv == (~ledger.asked => ledger.answer = NONE) /\ OpenQuestionIsAnswerable

LEMMA QuestionGate ==
  ASSUME CaseInv, QuestionInv, NEW gate, RequestBusinessClarification(gate)
  PROVE  QuestionInv'
<1> DEFINE asked == IF case.asks >= 2 THEN "limit" ELSE Ask(history, ledger, case.asks)
<1>1. ledger \in [asked : BOOLEAN, answer : Answers] /\ CaseRowType /\ UNCHANGED history
  BY DEF CaseInv, RunInv, TypeOK, RequestBusinessClarification
<1>2. CASE asked \in {"created", "repeated"}
  <2>1. QuestionStatus(history, ledger) = "unanswered"
    BY <1>2 DEF Ask, QuestionAllowed
  <2>2. ProofFound(history) /\ ledger.answer = NONE
    BY <2>1, UnansweredIsNew DEF QuestionInv
  <2>3. ledger' = [ledger EXCEPT !.asked = TRUE] /\ stored' = Rebuild(history, ledger')
    BY <1>2 DEF RequestBusinessClarification
  <2>4. ledger'.asked /\ ledger'.answer = NONE
    BY <1>1, <2>2, <2>3
  <2> QED BY <1>1, <2>2, <2>3, <2>4 DEF QuestionInv, OpenQuestionIsAnswerable, SnapshotVerified
<1>3. CASE asked \notin {"created", "repeated"}
  <2>1. case' = Counted("closed", "CLARIFICATION_EXHAUSTED") /\ UNCHANGED ledger
    BY <1>3 DEF RequestBusinessClarification
  <2>2. case'.state # "awaiting_input"
    BY <1>1, <2>1 DEF Counted, CaseRowType
  <2> QED BY <2>1, <2>2 DEF QuestionInv, OpenQuestionIsAnswerable
<1> QED BY <1>2, <1>3

LEMMA QuestionNext == ASSUME CaseInv, QuestionInv, [Next]_vars PROVE QuestionInv'
<1>1. CaseRowType /\ ledger \in [asked : BOOLEAN, answer : Answers]
  BY DEF CaseInv, RunInv, TypeOK
<1>2. CASE AgentNode \/ SelectNode \/ ToolsNode
  <2>1. UNCHANGED ledger /\ pc' # "idle"
    BY <1>2 DEF AgentNode, RetrySourceChanged, EmitExactRetry, StopObserving, TurnRefused,
       TakeTurn, SelectNode, AcceptObservation, AcceptFinish, CorrectSelector,
       RejectObservation, ToolsNode, CacheHit, BlockCall, ReadSource, OnToolResult
  <2> QED BY <2>1 DEF QuestionInv, OpenQuestionIsAnswerable
<1>3. CASE InvestigationFails
  <2>1. UNCHANGED ledger /\ case'.state # "awaiting_input"
    BY <1>1, <1>3 DEF InvestigationFails, UsageAfterFailure, CaseRowType
  <2> QED BY <2>1 DEF QuestionInv, OpenQuestionIsAnswerable
<1>4. CASE GateNode
  <2>1. PICK gate :
          \/ CloseAfterInvestigation(gate) \/ ProposeTicket(gate) \/ RetryLater(gate)
          \/ RequestBusinessClarification(gate) \/ ReviseIssue(gate)
    BY <1>4 DEF GateNode
  <2>2. CASE CloseAfterInvestigation(gate) \/ ProposeTicket(gate) \/ RetryLater(gate)
    <3>1. UNCHANGED ledger /\ case'.state # "awaiting_input"
      BY <1>1, <2>2 DEF CloseAfterInvestigation, ProposeTicket, RetryLater, Counted, CaseRowType
    <3> QED BY <3>1 DEF QuestionInv, OpenQuestionIsAnswerable
  <2>3. CASE ReviseIssue(gate)
    BY <2>3 DEF ReviseIssue, QuestionInv, OpenQuestionIsAnswerable
  <2> QED BY <2>1, <2>2, <2>3, QuestionGate
<1>5. CASE BetweenRuns
  <2>1. CASE FirstInvestigation \/ Retry
    BY <2>1 DEF FirstInvestigation, Retry, StartRun, QuestionInv, OpenQuestionIsAnswerable
  <2>2. CASE AnswerClarification
    <3>1. ledger.asked
      BY <2>2 DEF AnswerClarification, QuestionInv, OpenQuestionIsAnswerable
    <3>2. ledger'.asked /\ pc' # "idle"
      BY <1>1, <2>2, <3>1 DEF AnswerClarification, Answer, StartRun
    <3> QED BY <3>2 DEF QuestionInv, OpenQuestionIsAnswerable
  <2>3. CASE RetryFails \/ CloseAtClarificationLimit \/ ProposalLapses
    <3>1. UNCHANGED ledger /\ case'.state # "awaiting_input"
      BY <1>1, <2>3 DEF RetryFails, CloseAtClarificationLimit, ProposalLapses, CaseRowType
    <3> QED BY <3>1 DEF QuestionInv, OpenQuestionIsAnswerable
  <2> QED BY <1>5, <2>1, <2>2, <2>3 DEF BetweenRuns
<1>6. CASE TicketSourceChanges \/ StayIdle \/ UNCHANGED vars
  <2>1. UNCHANGED <<case, ledger, stored, history, pc>>
    BY <1>6 DEF TicketSourceChanges, StayIdle, vars
  <2> QED BY <2>1 DEF QuestionInv, OpenQuestionIsAnswerable, SnapshotVerified
<1> QED BY <1>2, <1>3, <1>4, <1>5, <1>6 DEF Next

-----------------------------------------------------------------------------
(* The decisions *)

(* A Case's gate decides on its rows, within the budget. *)
LEMMA GateRests ==
  ASSUME CaseInv
  PROVE  /\ Grounded(Gate, case.issue, GateFacts)
         /\ (\/ Gate.decision = "propose_ticket"
             \/ Gate.reason = "CRITICAL_EVIDENCE_UNAVAILABLE") => ~GateBudgetExceeded
<1>1. case.issue \in Issues
  BY DEF CaseInv, RunInv, TypeOK, CaseRowType
<1>2. GateFacts.retryExhausted \in BOOLEAN
  BY DEF GateFacts, SomeRetryExhausted
<1>3. GateBudgetExceeded \in BOOLEAN
  BY DEF GateBudgetExceeded, CaseInv, RunInv, TypeOK, RunRows
<1> QED BY <1>1, <1>2, <1>3, GateIsGrounded DEF Gate

(* What ProposalIsGrounded says of a proposal. *)
ProposalGrounds ==
    /\ SourcesAgree
    /\ AboutTheCase
    /\ Evidence("tickets") = NONE
    /\ Evidence("policy") = "eligible"
    /\ IF case.issue = SNR THEN GroundsSigned ELSE GroundsStalled

LEMMA ProposalRests ==
  ASSUME CaseInv, TruthInv, IssueInv, pc # "idle", Gate.decision = "propose_ticket"
  PROVE  ProposalGrounds
<1> DEFINE f == GateFacts
<1>1. TypeOK /\ case.issue \in {SNR, STALLED} /\ world \in World
  BY DEF CaseInv, RunInv, TypeOK, CaseRowType, Issues
<1>2. /\ f.results = results /\ f.target = world.target /\ f.businessDemo = BusinessDemo
      /\ f.receptionChecked = run.checked /\ f.deliveredElsewhere = run.elsewhere
  BY DEF GateFacts
<1>3. IF case.issue = SNR THEN SignedGrounds(f) ELSE StalledGrounds(f)
  BY GateRests DEF Grounded
<1> HIDE DEF f
<1>4. /\ \A t \in {"order", "timeline", "policy", "tickets"} : Completed(results[t])
      /\ results["policy"].value \notin {"unresolved", "not_applicable", "ineligible"}
      /\ results["policy"].issue = case.issue
      /\ results["tickets"].value # "active"
  <2>1. CASE case.issue = SNR
    BY <1>2, <1>3, <2>1 DEF SignedGrounds, RequiredTools, PolicyGuarded
  <2>2. CASE case.issue = STALLED
    BY <1>2, <1>3, <2>2, Names DEF StalledGrounds, RequiredTools, PolicyGuarded
  <2> QED BY <1>1, <2>1, <2>2
<1>5. \A t \in Tools \ {"tickets"} : Completed(results[t]) =>
        results[t].value = IF t = "policy" THEN world.policy[case.issue] ELSE world[t]
  <2>1. SUFFICES ASSUME NEW t \in Tools \ {"tickets"}, Completed(results[t])
                 PROVE  results[t].value =
                          IF t = "policy" THEN world.policy[case.issue] ELSE world[t]
    OBVIOUS
  <2>2. Told(world, source, t, results[t].issue, results[t].source, results[t].value)
    BY <2>1 DEF TruthInv, RowsAreTold
  <2> QED BY <1>4, <2>1, <2>2 DEF Told
<1>6. Evidence("tickets") = NONE
  <2>1. Told(world, source, "tickets", results["tickets"].issue, results["tickets"].source,
             results["tickets"].value)
    BY <1>4 DEF TruthInv, RowsAreTold, Tools
  <2> QED BY <1>4, <2>1 DEF Told, Evidence
<1>7. Evidence("policy") = "eligible"
  <2>1. world.policy[case.issue] \in {"eligible", "ineligible", "not_applicable", "unresolved"}
    BY <1>1 DEF World, Issues
  <2>2. results["policy"].value = world.policy[case.issue]
    BY <1>4, <1>5 DEF Tools
  <2> QED BY <1>4, <2>1, <2>2 DEF Evidence
<1>8. /\ Evidence("order") = results["order"].value
      /\ Evidence("timeline") = results["timeline"].value
      /\ results["timeline"].value = world.timeline
      /\ world.timeline \in {NONE, "elsewhere", "within", "overdue", "contradicts"}
      /\ world.target \in {NONE, "delivered", "active", "other"}
      /\ world.proof \in {NONE, "handed", "reception"} /\ world.alerts \in {NONE, "active"}
  <2>1. results["timeline"].value = world["timeline"]
    BY <1>4, <1>5 DEF Tools
  <2> QED BY <1>1, <1>4, <2>1 DEF Evidence, World
<1> SourcesAgree /\ AboutTheCase
  BY <1>4, RowsAgree DEF IssueInv, AboutTheCase
<1>9. CASE case.issue = SNR
  <2>1. SignedGrounds(f)
    BY <1>3, <1>9
  <2>2. Completed(results["proof"]) /\ results["proof"].value = world["proof"]
    <3>1. Completed(results["proof"])
      BY <1>2, <2>1 DEF SignedGrounds, RequiredTools
    <3> QED BY <1>5, <3>1 DEF Tools
  <2>3. Evidence("proof") = world.proof
    BY <2>2 DEF Evidence
  <2>4. GroundsSigned
    BY <1>2, <1>8, <2>1, <2>2, <2>3 DEF GroundsSigned, SignedGrounds, TargetDelivered, NONE
  <2> QED BY <1>6, <1>7, <1>9, <2>4 DEF ProposalGrounds
<1>10. CASE case.issue = STALLED
  <2>1. StalledGrounds(f)
    BY <1>3, <1>10, Names
  <2>2. ASSUME Completed(results["alerts"]) PROVE results["alerts"].value = world.alerts
    <3>1. results["alerts"].value = world["alerts"]
      BY <1>5, <2>2 DEF Tools
    <3> QED BY <3>1
  <2>3. BusinessDemo /\ ~Missing(results["alerts"]) => Evidence("alerts") = NONE
    BY <1>2, <1>8, <2>1, <2>2 DEF StalledGrounds, Evidence
  <2>4. Evidence("timeline") = "overdue"
    BY <1>2, <1>8, <2>1 DEF StalledGrounds, NONE
  <2>5. world.target = "active" \/ (world.target = NONE /\ Evidence("order") = "shipped")
    BY <1>2, <1>8, <2>1 DEF StalledGrounds, NONE
  <2>6. GroundsStalled
    BY <2>3, <2>4, <2>5 DEF GroundsStalled
  <2> QED BY <1>6, <1>7, <1>10, <2>6, Names DEF ProposalGrounds
<1> QED BY <1>1, <1>9, <1>10

(* Evidence that a Case waits for can still be read. *)
WaitGrounds ==
    /\ case.reads < MaxReads \/ Temporary(results["alerts"])
    /\ \/ \E t \in RequiredTools(case.issue) : Missing(results[t])
       \/ \E t \in RelevantTools(case.issue) :
             /\ Temporary(results[t])
             /\ ~RetryExhausted(cache, <<t, results[t].issue, Revision(t)>>)

LEMMA WaitRests ==
  ASSUME CaseInv, Gate.reason = "CRITICAL_EVIDENCE_UNAVAILABLE"
  PROVE  /\ budget.reads < MaxReads \/ Temporary(results["alerts"])
         /\ \/ \E t \in RequiredTools(case.issue) : Missing(results[t])
            \/ \E t \in RelevantTools(case.issue) :
                  /\ Temporary(results[t])
                  /\ ~RetryExhausted(cache, <<t, results[t].issue, Revision(t)>>)
<1> DEFINE f == GateFacts
<1>1. f.results = results /\ f.retryExhausted = SomeRetryExhausted
  BY DEF GateFacts
<1>2. /\ ~SomeRetryExhausted
      /\ \/ \E t \in RequiredTools(case.issue) : Temporary(results[t]) \/ Missing(results[t])
         \/ case.issue = STALLED /\ Temporary(results["alerts"])
  BY <1>1, GateRests DEF Grounded
<1>3. ~(budget.reads >= MaxReads /\ ~Evaluable(case.issue, results))
  BY <1>2, GateRests DEF GateBudgetExceeded
<1>4. budget.reads \in Nat /\ MaxReads \in Nat
  BY LimitsAssumption DEF CaseInv, RunInv, TypeOK, Budgets
<1>5. budget.reads < MaxReads \/ Temporary(results["alerts"])
  <2>1. CASE Evaluable(case.issue, results)
    BY <1>2, <2>1 DEF Evaluable, Satisfied, Completed, Temporary, Missing
  <2> QED BY <1>3, <1>4, <2>1
<1>6. case.issue \in Issues /\ RelevantTools(case.issue) \subseteq Tools
      /\ RequiredTools(case.issue) \subseteq RelevantTools(case.issue)
      /\ (case.issue = STALLED => "alerts" \in RelevantTools(case.issue))
  BY DEF CaseInv, RunInv, TypeOK, CaseRowType, RelevantTools, RequiredTools, Tools
<1>7. \A t \in Tools : Temporary(results[t]) =>
        ~RetryExhausted(cache, <<t, results[t].issue, Revision(t)>>)
  BY <1>2 DEF SomeRetryExhausted
<1> QED BY <1>2, <1>5, <1>6, <1>7

(* The waiting goes on while nothing is read: a changed ticket source is one
   that nothing was asked at yet. *)
LEMMA WaitGoesOn ==
  ASSUME CaseInv, WaitGrounds, UNCHANGED <<case, results, cache>>,
         UNCHANGED source \/ TicketSourceChanges
  PROVE  WaitGrounds'
<1>1. ASSUME NEW t \in Tools,
             ~RetryExhausted(cache, <<t, results[t].issue, Revision(t)>>)
      PROVE  ~RetryExhausted(cache, <<t, results[t].issue, Revision(t)'>>)
  <2>1. CASE Revision(t)' = Revision(t)
    BY <1>1, <2>1
  <2>2. CASE Revision(t)' # Revision(t)
    <3>1. source'.revision = source.revision + 1 /\ source.revision \in Nat /\ t = "tickets"
      BY <2>2 DEF Revision, TicketSourceChanges, CaseInv, RunInv, TypeOK
    <3> DEFINE k == <<t, results[t].issue, Revision(t)'>>
    <3>2. k[1] = t /\ k[3] = source.revision + 1
      BY <3>1 DEF Revision
    <3>3. k \notin DOMAIN cache
      <4>1. \A key \in DOMAIN cache : key[3] <= Revision(key[1])
        BY DEF CaseInv, ReadsInv, KeyKnown
      <4>2. Revision(t) = source.revision
        BY <3>1 DEF Revision
      <4> HIDE DEF k
      <4> QED BY <3>1, <3>2, <4>1, <4>2
    <3> QED BY <3>3 DEF RetryExhausted, Entry, NoEntry
  <2> QED BY <2>1, <2>2
<1>2. RelevantTools(case.issue) \subseteq Tools
  BY DEF CaseInv, RunInv, TypeOK, CaseRowType, RelevantTools, RequiredTools, Tools
<1>3. \/ \E t \in RequiredTools(case.issue) : Missing(results[t])
      \/ \E t \in RelevantTools(case.issue) :
            /\ Temporary(results[t])
            /\ ~RetryExhausted(cache, <<t, results[t].issue, Revision(t)'>>)
  BY <1>1, <1>2 DEF WaitGrounds
<1> QED BY <1>3 DEF WaitGrounds

(* Evidence that a Case is given up for was refused, or asked for twice. *)
GiveUpGrounds ==
    \E t \in Tools :
        \/ Final(results[t])
        \/ /\ Temporary(results[t])
           /\ Cardinality({h \in history : h.tool = t /\ h.issue = results[t].issue}) >= 2

LEMMA GiveUpRests ==
  ASSUME CaseInv, Gate.reason = "CRITICAL_EVIDENCE_UNAVAILABLE_FINAL"
  PROVE  GiveUpGrounds
<1> DEFINE f == GateFacts
<1>1. f.results = results /\ f.retryExhausted = SomeRetryExhausted
  BY DEF GateFacts
<1>2. \/ SomeRetryExhausted
      \/ \E t \in Tools : /\ ~Completed(results[t]) /\ ~Temporary(results[t])
                          /\ ~Missing(results[t])
  BY <1>1, GateRests DEF Grounded
<1>3. CASE SomeRetryExhausted
  <2>1. PICK t \in Tools : /\ Temporary(results[t])
                           /\ RetryExhausted(cache, <<t, results[t].issue, Revision(t)>>)
    BY <1>3 DEF SomeRetryExhausted
  <2>2. PICK k : k = <<t, results[t].issue, Revision(t)>>
    OBVIOUS
  <2>3. k \in DOMAIN cache /\ cache[k].attempts >= 2
    BY <2>1, <2>2 DEF RetryExhausted, Entry, NoEntry
  <2>4. cache[k].attempts <= Cardinality(Asked(k)) /\ cache[k].attempts \in Nat
    BY <2>3 DEF CaseInv, ReadsInv, KeyKnown, RunInv, TypeOK, CacheType, Entries
  <2>5. Asked(k) = {h \in history : h.tool = t /\ h.issue = results[t].issue}
    BY <2>2 DEF Asked
  <2>6. Cardinality(Asked(k)) \in Nat
    BY FS_Subset, FS_CardinalityType DEF Asked, CaseInv, BudgetInv, CountersType
  <2>7. Cardinality(Asked(k)) >= 2
    BY <2>3, <2>4, <2>6
  <2> QED BY <2>1, <2>5, <2>7 DEF GiveUpGrounds
<1>4. ASSUME NEW t \in Tools, ~Completed(results[t]), ~Temporary(results[t]),
             ~Missing(results[t])
      PROVE  Final(results[t])
  BY <1>4 DEF CaseInv, RunInv, TypeOK, Rows, Statuses, Completed, Temporary, Missing, Final
<1> QED BY <1>2, <1>3, <1>4 DEF GiveUpGrounds

DecisionInv == ProposalIsGrounded /\ RetryLaterCanRead /\ GivesUpAfterRetry

(* The node that decides. *)
LEMMA DecisionGate ==
  ASSUME CaseInv, TruthInv, TimelyInv, IssueInv, GateNode PROVE DecisionInv'
<1>1. PICK gate \in {Gate} :
        \/ CloseAfterInvestigation(gate) \/ ProposeTicket(gate) \/ RetryLater(gate)
        \/ RequestBusinessClarification(gate) \/ ReviseIssue(gate)
  BY DEF GateNode
<1>2. gate = Gate /\ CaseRowType /\ pc = "gate" /\ case.state \notin {"proposed", "closed"}
  BY DEF CaseInv, RunInv, TypeOK, GateNode, TimelyInv
<1>3. UNCHANGED <<world, source, history, cache, results>>
  BY <1>1 DEF CloseAfterInvestigation, ProposeTicket,
     RetryLater, RequestBusinessClarification, ReviseIssue, ApplyAndEnd
<1>4. CASE ProposeTicket(gate)
  <2>1. UNCHANGED run /\ case'.issue = case.issue /\ case'.state = "proposed"
    BY <1>2, <1>4 DEF ProposeTicket, ApplyAndEnd, Counted, CaseRowType
  <2>2. ProposalGrounds
    BY <1>2, <1>4, ProposalRests DEF ProposeTicket
  <2>3. ProposalGrounds'
    <3>1. SourcesAgree'
      BY <1>3, <2>2 DEF ProposalGrounds, SourcesAgree, Revision, SourceValue
    <3> QED BY <1>3, <2>1, <2>2, <3>1 DEF ProposalGrounds, AboutTheCase, Evidence, GroundsSigned,
         GroundsStalled
  <2> QED BY <2>1, <2>3 DEF DecisionInv, ProposalIsGrounded, ProposalGrounds, RetryLaterCanRead,
       GivesUpAfterRetry
<1>5. CASE RetryLater(gate)
  <2>1. /\ case'.issue = case.issue /\ case'.state = "awaiting_retry"
        /\ case'.reason = gate.reason /\ case'.reads = budget.reads
    BY <1>2, <1>5 DEF RetryLater, Counted, CaseRowType
  <2>2. case'.reason = "CRITICAL_EVIDENCE_UNAVAILABLE" => WaitGrounds'
    BY <1>2, <1>3, <2>1, WaitRests DEF WaitGrounds, Revision
  <2> QED BY <2>1, <2>2 DEF DecisionInv, ProposalIsGrounded, WaitGrounds, RetryLaterCanRead,
       GivesUpAfterRetry
<1>6. CASE CloseAfterInvestigation(gate)
  <2>1. case'.state = "closed" /\ case'.reason = gate.reason
    BY <1>2, <1>6 DEF CloseAfterInvestigation, Counted, CaseRowType
  <2>2. case'.reason = "CRITICAL_EVIDENCE_UNAVAILABLE_FINAL" => GiveUpGrounds'
    BY <1>2, <1>3, <2>1, GiveUpRests DEF GiveUpGrounds
  <2> QED BY <2>1, <2>2 DEF DecisionInv, ProposalIsGrounded, GiveUpGrounds, RetryLaterCanRead,
       GivesUpAfterRetry
<1>7. CASE RequestBusinessClarification(gate)
  <2> DEFINE n(asked) == IF asked = "created" THEN 1 ELSE 0
  <2>1. \/ case' = Counted("closed", "CLARIFICATION_EXHAUSTED")
        \/ \E asked : case' = [Counted("awaiting_input", gate.reason) EXCEPT !.asks = @ + n(asked)]
    BY <1>7 DEF RequestBusinessClarification
  <2>2. \/ case'.state = "closed" /\ case'.reason = "CLARIFICATION_EXHAUSTED"
        \/ case'.state = "awaiting_input"
    <3> HIDE DEF n
    <3> QED BY <1>2, <2>1 DEF Counted, CaseRowType
  <2> QED BY <2>2 DEF DecisionInv, ProposalIsGrounded, RetryLaterCanRead, GivesUpAfterRetry
<1>8. CASE ReviseIssue(gate)
  <2>1. case'.state = case.state /\ pc' = "agent"
    BY <1>2, <1>8 DEF ReviseIssue, CaseRowType
  <2> QED BY <1>2, <2>1 DEF DecisionInv, ProposalIsGrounded, RetryLaterCanRead,
       GivesUpAfterRetry
<1> QED BY <1>1, <1>4, <1>5, <1>6, <1>7, <1>8

LEMMA DecisionNext ==
  ASSUME CaseInv, CaseInv', TruthInv, TruthInv', TimelyInv, IssueInv, DecisionInv, [Next]_vars
  PROVE  DecisionInv'
<1>1. CaseRowType
  BY DEF CaseInv, RunInv, TypeOK
<1>2. CASE AgentNode \/ SelectNode \/ ToolsNode
  <2>1. UNCHANGED case /\ pc # "idle" /\ pc' # "idle"
    BY <1>2 DEF AgentNode, RetrySourceChanged, EmitExactRetry, StopObserving, TurnRefused,
       TakeTurn, SelectNode, AcceptObservation, AcceptFinish, CorrectSelector,
       RejectObservation, ToolsNode, CacheHit, BlockCall, ReadSource, OnToolResult
  <2>2. case'.state \notin {"proposed", "closed"}
    BY <2>1 DEF TimelyInv
  <2> QED BY <2>1, <2>2 DEF DecisionInv, ProposalIsGrounded, RetryLaterCanRead,
       GivesUpAfterRetry
<1>3. CASE InvestigationFails \/ ProposalLapses
  <2>1. case'.state = "awaiting_retry" /\ case'.reason = NONE
    BY <1>1, <1>3 DEF InvestigationFails, UsageAfterFailure, ProposalLapses, CaseRowType
  <2> QED BY <2>1 DEF DecisionInv, ProposalIsGrounded, RetryLaterCanRead, GivesUpAfterRetry,
       NONE
<1>4. CASE FirstInvestigation \/ AnswerClarification \/ Retry
  <2>1. UNCHANGED case /\ pc' # "idle" /\ case.state \notin {"proposed", "closed"}
    BY <1>4 DEF FirstInvestigation, AnswerClarification, Retry, StartRun
  <2> QED BY <2>1 DEF DecisionInv, ProposalIsGrounded, RetryLaterCanRead, GivesUpAfterRetry
<1>5. CASE CloseAtClarificationLimit
  <2>1. case'.state = "closed" /\ case'.reason = "CLARIFICATION_EXHAUSTED"
    BY <1>1, <1>5 DEF CloseAtClarificationLimit, CaseRowType
  <2> QED BY <2>1 DEF DecisionInv, ProposalIsGrounded, RetryLaterCanRead, GivesUpAfterRetry
<1>6. CASE RetryFails
  <2>1. UNCHANGED <<case, results, cache, source>> /\ case.state = "awaiting_retry"
        /\ pc = "idle"
    BY <1>6 DEF RetryFails
  <2>2. RetryLaterCanRead'
    BY <2>1, WaitGoesOn DEF DecisionInv, RetryLaterCanRead, WaitGrounds
  <2> QED BY <2>1, <2>2 DEF DecisionInv, ProposalIsGrounded, GivesUpAfterRetry
<1>7. CASE TicketSourceChanges \/ StayIdle \/ UNCHANGED vars
  <2>1. UNCHANGED <<world, case, results, run, cache, history, pc>>
        /\ (UNCHANGED source \/ TicketSourceChanges)
    BY <1>7 DEF TicketSourceChanges, StayIdle, vars
  <2>2. RetryLaterCanRead'
    BY <2>1, WaitGoesOn DEF DecisionInv, RetryLaterCanRead, WaitGrounds
  <2>3. SourcesAgree'
    BY RowsAgree, PTL
  <2>5. ProposalIsGrounded'
    BY <2>1, <2>3 DEF DecisionInv, ProposalIsGrounded, AboutTheCase, Evidence, GroundsSigned,
       GroundsStalled
  <2>4. GivesUpAfterRetry'
    BY <2>1 DEF DecisionInv, GivesUpAfterRetry
  <2> QED BY <2>2, <2>4, <2>5 DEF DecisionInv
<1> QED BY <1>2, <1>3, <1>4, <1>5, <1>6, <1>7, DecisionGate DEF Next, BetweenRuns

-----------------------------------------------------------------------------
(* The theorems *)

GateInv == CaseInv /\ TruthInv /\ TimelyInv /\ IssueInv /\ QuestionInv /\ DecisionInv

LEMMA GateInvInit == Init => GateInv
<1> SUFFICES ASSUME Init PROVE GateInv
  OBVIOUS
<1>1. CaseInv
  BY BudgetInvInit, RunInvInit, ReadsInvInit DEF CaseInv
<1>2. TruthInv
  BY DEF Init, TruthInv, RowsAreTold, CacheIsTold, HistoryIsTold, NotQueried, Completed, Revision
<1>3. TimelyInv
  BY DEF Init, TimelyInv, NoRun
<1>4. QuestionInv
  BY DEF Init, QuestionInv, OpenQuestionIsAnswerable, NewLedger
<1>5. DecisionInv
  BY DEF Init, DecisionInv, ProposalIsGrounded, RetryLaterCanRead, GivesUpAfterRetry
<1>6. IssueInv
  BY DEF Init, IssueInv
<1> QED BY <1>1, <1>2, <1>3, <1>4, <1>5, <1>6 DEF GateInv

LEMMA GateInvNext == GateInv /\ [Next]_vars => GateInv'
  BY CaseInvNext, TruthNext, TimelyNext, IssueNext, QuestionNext, DecisionNext DEF GateInv

(* The invariant of an investigation's decisions: the rows, the cache and the
   history say what the sources said, a Run's rows are of its own time, and
   every decision that stands has the evidence it was made on. *)
THEOREM DecisionsAreFounded == Spec => []GateInv
  BY GateInvInit, GateInvNext, PTL DEF Spec

(* EvidenceGate.evaluate and _apply_investigation_result: whatever the
   selector answers and the sources fail, a proposal has the evidence its issue
   requires, and the evidence is what the sources say.  The policy was read for
   the issue of the Case; the tickets for the issue of their row, which is the
   Case's unless the Run corrected it. *)
THEOREM ProposalsAreGrounded == Spec => []ProposalIsGrounded
<1>1. GateInv => ProposalIsGrounded
  BY DEF GateInv, DecisionInv
<1> QED BY <1>1, DecisionsAreFounded, PTL

(* CaseToolCache keyed by source_revision: the ticket evidence of a proposal
   was current when its Run began, also when it came from the cache, and while
   the source does not change there is no open ticket for the issue. *)
THEOREM TicketsAreFresh == Spec => []FreshTickets
<1>1. GateInv => FreshTickets
  <2> SUFFICES ASSUME GateInv, case.state = "proposed"
               PROVE  /\ results["tickets"].source >= run.startedAt
                      /\ results["tickets"].source = source.revision =>
                            results["tickets"].issue \notin source.active
    BY DEF FreshTickets
  <2>1. Completed(results["tickets"]) /\ results["tickets"].value = NONE
    BY DEF GateInv, DecisionInv, ProposalIsGrounded, Evidence, NONE
  <2>2. Told(world, source, "tickets", results["tickets"].issue, results["tickets"].source, NONE)
    BY <2>1 DEF GateInv, TruthInv, RowsAreTold, Tools
  <2> QED BY <2>1, <2>2 DEF GateInv, TimelyInv, Told, NONE, Completed, Missing
<1> QED BY <1>1, DecisionsAreFounded, PTL

(* _unavailable_result and critical_retry_exhausted: a Case waits for evidence
   only while a later Run can still read it. *)
THEOREM WaitingIsNotInVain == Spec => []RetryLaterCanRead
<1>1. GateInv => RetryLaterCanRead
  BY DEF GateInv, DecisionInv
<1> QED BY <1>1, DecisionsAreFounded, PTL

(* RetryController and CaseToolCache.retry_exhausted: evidence is given up for
   only after a final failure, or after its query was asked twice. *)
THEOREM NothingIsGivenUpTooSoon == Spec => []GivesUpAfterRetry
<1>1. GateInv => GivesUpAfterRetry
  BY DEF GateInv, DecisionInv
<1> QED BY <1>1, DecisionsAreFounded, PTL

(* record_question, accept_message and load_snapshot: while the customer is
   asked, the question is open and the stored facts are those of the ledger. *)
THEOREM OpenQuestionsAreAnswerable == Spec => []OpenQuestionIsAnswerable
<1>1. GateInv => OpenQuestionIsAnswerable
  BY DEF GateInv, QuestionInv
<1> QED BY <1>1, DecisionsAreFounded, PTL
=============================================================================
