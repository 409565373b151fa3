---------------------------- MODULE EvidenceGate ----------------------------
(***************************************************************************)
(* The deterministic decision tables of policy/evidence_gate.py and the    *)
(* wiring that InvestigationService._evaluate_gate puts before them.       *)
(*                                                                         *)
(* A decision is made on the latest result of each read tool in the Run.   *)
(* A result carries its execution status, the issue type it was asked for  *)
(* and what the source said:                                               *)
(*   order     "delivered", "shipped" or "other"                           *)
(*   timeline  "none", "elsewhere" (only other packages have events),      *)
(*             "within" or "overdue" (against the policy's threshold), or  *)
(*             "contradicts" (the events contradict the package's status)  *)
(*   proof     "none", "handed" or "reception" (left with someone or       *)
(*             somewhere the customer can still ask)                       *)
(*   policy    "eligible", "ineligible", "not_applicable", or "unresolved" *)
(*             (no hit, conflicting versions, failed validation)           *)
(*   tickets   "active" or "none"                                          *)
(*   alerts    "active" or "none"                                          *)
(*                                                                         *)
(* The tables are ordered: the first row whose condition holds decides.    *)
(* Guards that no caller can trigger are left out: authorization, scope    *)
(* and structural_conflict keep their defaults, directed_refresh_completed *)
(* is never set, and a target package always belongs to its order.         *)
(***************************************************************************)
EXTENDS Naturals, FiniteSets, Sequences

SNR == "signed_not_received"
STALLED == "stalled_tracking"
Issues == {SNR, STALLED}
OtherLogistics == "other_logistics"

Tools == {"order", "timeline", "proof", "policy", "tickets", "alerts"}

(* The reads an issue requires, and the optional one. *)
RequiredTools(issue) ==
    IF issue = SNR THEN {"order", "timeline", "proof", "policy", "tickets"}
                   ELSE {"order", "timeline", "policy", "tickets"}
RelevantTools(issue) ==
    RequiredTools(issue) \cup (IF issue = STALLED THEN {"alerts"} ELSE {})

Statuses == {"not_queried", "success", "retryable_error", "non_retryable_error"}

Decide(decision, reason) == [decision |-> decision, reason |-> reason, revised |-> OtherLogistics]
Revise(issue) == [decision |-> "revise_issue",
                  reason |-> "REPORTED_ISSUE_DOES_NOT_MATCH_ORDER_STATE",
                  revised |-> issue]
Human(reason) == Decide("require_human_support", reason)
NoAction(reason) == Decide("complete_no_action", reason)

(* The outcome of the first row of a decision table whose condition holds. *)
FirstRow(table) ==
    LET hits == {i \in DOMAIN table : table[i][1]}
    IN  table[CHOOSE i \in hits : \A j \in hits : i <= j][2]

Completed(result) == result.status = "success"
Missing(result) == result.status = "not_queried"
Reads(result, value) == Completed(result) /\ result.value = value

(* _unavailable_result: temporary only while a failed query can be retried. *)
AnyUnavailable(results) == \E r \in results : ~Completed(r)

(* Variant: a failure that may pass is always worth waiting for. *)
UnavailableForNow(results, exhausted) ==
    IF \E r \in results : r.status \in {"retryable_error", "not_queried"}
      THEN Decide("retry_later", "CRITICAL_EVIDENCE_UNAVAILABLE")
      ELSE Human("CRITICAL_EVIDENCE_UNAVAILABLE_FINAL")

Unavailable(results, exhausted) ==
    IF ~exhausted /\ \E r \in results : r.status \in {"retryable_error", "not_queried"}
      THEN Decide("retry_later", "CRITICAL_EVIDENCE_UNAVAILABLE")
      ELSE Human("CRITICAL_EVIDENCE_UNAVAILABLE_FINAL")

(* Variant: the policy's scope is not compared with the issue. *)
PolicyGuardedByValue(policy, issue) == policy.value \in {"unresolved", "not_applicable"}

(* _policy_guard, in its order: applicability is looked at before scope. *)
PolicyGuarded(policy, issue) ==
    policy.value \in {"unresolved", "not_applicable"} \/ policy.issue # issue
PolicyGuard(policy, issue) ==
    FirstRow(<<
      <<policy.value = "unresolved", Human("POLICY_NOT_VERIFIED")>>,
      <<policy.value = "not_applicable", NoAction("POLICY_NOT_APPLICABLE")>>,
      <<TRUE, Human("POLICY_SCOPE_OR_CITATION_MISMATCH")>> >>)

(* Facts handed to a table: the results, the state of the target package
   ("none" when the Case has no target) and what the customer stated. *)
TargetDelivered(f) ==
    f.target = "delivered" \/ (f.target = "none" /\ f.results["order"].value = "delivered")

InTransit(f) ==
    f.target = "active" \/ (f.target = "none" /\ f.results["order"].value = "shipped")

EvaluateSigned(f) ==
    LET r == f.results
        critical == {r["order"], r["timeline"], r["tickets"], r["policy"]}
        lost(results) == Unavailable(results, f.retryExhausted)
    IN  FirstRow(<<
      <<~Completed(r["order"]), lost({r["order"]})>>,
      <<~TargetDelivered(f), Revise(IF InTransit(f) THEN STALLED ELSE OtherLogistics)>>,
      <<~Completed(r["tickets"]), lost({r["tickets"]})>>,
      <<r["tickets"].value = "active", NoAction("ACTIVE_LOGISTICS_TICKET_EXISTS")>>,
      <<AnyUnavailable(critical), lost(critical)>>,
      <<r["timeline"].value = "none", Decide("retry_later", "DELIVERED_WITHOUT_TIMELINE_EVIDENCE")>>,
      <<r["timeline"].value = "elsewhere", Decide("retry_later", "TARGET_TIMELINE_ABSENT")>>,
      <<PolicyGuarded(r["policy"], SNR), PolicyGuard(r["policy"], SNR)>>,
      <<r["policy"].value = "ineligible", NoAction("POLICY_NOT_ELIGIBLE")>>,
      <<~f.stillMissing, NoAction("CUSTOMER_REPORT_RESOLVED")>>,
      <<~Completed(r["proof"]), lost({r["proof"]})>>,
      <<f.deliveredElsewhere, Human("DELIVERY_EVIDENCE_CONFLICT")>>,
      <<r["proof"].value = "reception" /\ ~f.receptionChecked,
        Decide("request_business_clarification", "CHECK_RECEPTION_LOCATION")>>,
      <<TRUE, Decide("propose_ticket", "SIGNED_NOT_RECEIVED_EVIDENCE_COMPLETE")>> >>)

EvaluateStalled(f) ==
    LET r == f.results
        inputs == {r["order"], r["timeline"], r["policy"]}
        alertsRead == f.businessDemo /\ ~Missing(r["alerts"])
        lost(results) == Unavailable(results, f.retryExhausted)
    IN  FirstRow(<<
      <<AnyUnavailable(inputs), lost(inputs)>>,
      <<f.target = "delivered", Revise(SNR)>>,
      <<f.target = "none" /\ r["order"].value # "shipped", NoAction("ORDER_NOT_IN_TRANSIT")>>,
      <<f.target = "other", NoAction("SHIPMENT_NOT_IN_TRANSIT")>>,
      <<r["timeline"].value = "none", Decide("retry_later", "TRACKING_TIMELINE_ABSENT")>>,
      <<PolicyGuarded(r["policy"], STALLED), PolicyGuard(r["policy"], STALLED)>>,
      <<r["policy"].value = "ineligible", NoAction("POLICY_NOT_ELIGIBLE")>>,
      <<r["timeline"].value = "elsewhere", Decide("retry_later", "TARGET_TIMELINE_ABSENT")>>,
      <<r["timeline"].value = "contradicts", Human("PERSISTENT_STRUCTURAL_CONFLICT")>>,
      <<r["timeline"].value = "within", NoAction("WITHIN_TRACKING_SLA")>>,
      <<alertsRead /\ ~Completed(r["alerts"]), lost({r["alerts"]})>>,
      <<~Completed(r["tickets"]), lost({r["tickets"]})>>,
      <<r["tickets"].value = "active", NoAction("ACTIVE_LOGISTICS_TICKET_EXISTS")>>,
      <<alertsRead /\ r["alerts"].value = "active", NoAction("ACTIVE_CARRIER_RECOVERY_WINDOW")>>,
      <<TRUE, Decide("propose_ticket", "STALLED_TRACKING_EVIDENCE_COMPLETE")>> >>)

EvaluateEvidenceGate(issue, f) ==
    IF issue = SNR THEN EvaluateSigned(f) ELSE EvaluateStalled(f)

(* The order contradicts what the customer reported: which issue it is. *)
ContradictsSigned(f) ==
    \/ f.results["order"].value # "delivered" /\ f.target # "delivered"
    \/ f.target \notin {"none", "delivered"}
ContradictsStalled(f) ==
    \/ f.target = "delivered"
    \/ f.target = "none" /\ f.results["order"].value = "delivered"
ContradictsReport(issue, f) ==
    /\ Completed(f.results["order"])
    /\ IF issue = SNR THEN ContradictsSigned(f) ELSE ContradictsStalled(f)
RevisedIssue(issue, f) ==
    IF issue = STALLED THEN SNR
    ELSE IF f.target \in {"none", "active"} THEN STALLED ELSE OtherLogistics

(* A stalled report may be decided before the tickets were asked for: the
   missing read then counts as unavailable, if the decision gets that far. *)
MissingQueries(issue, results) ==
    {t \in RequiredTools(issue) : Missing(results[t])}
      \ (IF issue = STALLED THEN {"tickets"} ELSE {})

(* InvestigationService._evaluate_gate *)
EvaluateGate(issue, f, budgetExceeded) ==
    FirstRow(<<
      <<budgetExceeded, Human("INVESTIGATION_BUDGET_EXCEEDED")>>,
      <<Missing(f.results["order"]), Human("REQUIRED_QUERY_NOT_COMPLETED")>>,
      <<ContradictsReport(issue, f), Revise(RevisedIssue(issue, f))>>,
      <<Reads(f.results["tickets"], "active"), NoAction("ACTIVE_LOGISTICS_TICKET_EXISTS")>>,
      <<MissingQueries(issue, f.results) # {}, Human("REQUIRED_QUERY_NOT_COMPLETED")>>,
      <<TRUE, EvaluateEvidenceGate(issue, f)>> >>)
=============================================================================
