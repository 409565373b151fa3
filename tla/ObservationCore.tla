-------------------------- MODULE ObservationCore --------------------------
(***************************************************************************)
(* The deterministic half of the investigation loop, without its state:    *)
(* the evidence progress that application/adaptive_core.py reduces from a  *)
(* Run's tool rows, the validator of the selector's candidates, the router *)
(* after each result, and the early stops of AdaptiveTraceCoordinator.     *)
(*                                                                         *)
(* A Run's rows are kept as its latest row of each tool, which is all the  *)
(* reducer looks at: a completed read is never asked for again and nothing *)
(* but the exact retry may follow a temporary failure, so the reducer's    *)
(* CONFLICT, RETRY_IDENTITY_CONFLICT and CONTRADICTORY_SUCCESS branches    *)
(* have no history that reaches them.                                      *)
(***************************************************************************)
EXTENDS EvidenceGate

CONSTANTS
    MaxReads,       \* ToolBudget.max_actual_read_tool_executions
    MaxRunTurns,    \* ToolBudget.max_run_planning_turns
    MaxCaseTurns,   \* ToolBudget.max_case_planning_turns
    BusinessDemo    \* fixture_version is "business-demo-v1"

ASSUME LimitsAssumption ==
    /\ MaxReads \in Nat \ {0}
    /\ MaxRunTurns \in Nat \ {0}
    /\ MaxCaseTurns \in Nat \ {0}
    /\ BusinessDemo \in BOOLEAN

NONE == "none"

(* A tool row.  Tools whose arguments name the issue are asked per issue. *)
PerIssue == {"policy", "tickets"}
IssueArgument(tool, issue) == IF tool \in PerIssue THEN issue ELSE NONE

NotQueried ==
    [status |-> "not_queried", value |-> NONE, issue |-> NONE,
     source |-> 0, attempt |-> 0, actual |-> FALSE]

Temporary(row) == row.status = "retryable_error"
Final(row) == row.status = "non_retryable_error"

-----------------------------------------------------------------------------
(* EvidenceProgressReducer: a tool whose only retry is still due is not
   missing, any other failed read is final. *)
Satisfied(results, tool) == Completed(results[tool])
UnavailableFinal(results, pending, tool) ==
    /\ ~Missing(results[tool]) /\ ~Completed(results[tool])
    /\ pending # tool

Evaluable(issue, results) == \A t \in RequiredTools(issue) : Satisfied(results, t)

(* terminal_trigger_codes: a row of a tool the issue has no use for. *)
IrrelevantTool(issue, results) ==
    \E t \in Tools \ RelevantTools(issue) : ~Missing(results[t])

-----------------------------------------------------------------------------
(* What the timeline and the policy say together.  A policy has a threshold
   for stalled packages exactly when it is about them. *)
HasThreshold(policy) ==
    policy.value \in {"eligible", "ineligible"} /\ policy.issue = STALLED
Overdue(results) ==
    /\ results["timeline"].value \in {"overdue", "contradicts"}
    /\ HasThreshold(results["policy"])

NeedsCarrierContext(issue, results) ==
    BusinessDemo /\ issue = STALLED /\ Missing(results["alerts"]) /\ Overdue(results)

(* ISSUE_REVISION_READY, ACTIVE_TICKET_EXISTS and WITHIN_TRACKING_SLA. *)
RevisionReady(issue, target, order) ==
    /\ Completed(order)
    /\ \/ issue = SNR /\ order.value # "delivered" /\ target # "delivered"
       \/ /\ issue = STALLED
          /\ target = "delivered" \/ (target = NONE /\ order.value = "delivered")

EarlyStop(issue, target, tool, results) ==
    \/ tool = "order" /\ RevisionReady(issue, target, results["order"])
    \/ tool = "tickets" /\ Reads(results["tickets"], "active")
    \/ /\ tool = "policy" /\ issue = STALLED
       /\ results["timeline"].value = "within" /\ HasThreshold(results["policy"])

-----------------------------------------------------------------------------
(* ObservationValidator.validate.  A candidate is a tool, "finish",
   "malformed" (no candidate can be parsed) or "misaddressed" (a tool or a
   requirement that does not exist or do not belong together). *)
Candidates == Tools \cup {"finish", "malformed", "misaddressed"}

TurnsSpent(budget) ==
    budget.caseTurns >= MaxCaseTurns \/ budget.runTurns >= MaxRunTurns

Rejection(candidate, issue, results, pending, budget) ==
    FirstRow(<<
      <<candidate = "malformed", "INVALID_CANDIDATE_SCHEMA">>,
      <<pending # NONE, "PENDING_EXACT_RETRY">>,
      <<TurnsSpent(budget), "PLANNING_BUDGET_EXCEEDED">>,
      <<candidate = "finish",
        IF Evaluable(issue, results) THEN NONE ELSE "PREMATURE_FINISH">>,
      <<candidate = "misaddressed", "INVALID_EVIDENCE_REQUIREMENT">>,
      <<candidate \notin RelevantTools(issue), "TOOL_NOT_RELEVANT_TO_ISSUE">>,
      <<candidate \in Tools /\ Satisfied(results, candidate), "DUPLICATE_COMPLETED_READ">>,
      <<candidate \in Tools /\ UnavailableFinal(results, pending, candidate),
        "RETRY_EXHAUSTED">>,
      <<TRUE, NONE>> >>)

(* The rejections after which the selector is asked once more. *)
Correctable == {"PREMATURE_FINISH", "INVALID_CANDIDATE_SCHEMA"}

-----------------------------------------------------------------------------
(* ObservationRouter.route, with what on_tool_result makes of its answer. *)
Route(issue, results, pending, budget) ==
    FirstRow(<<
      <<IrrelevantTool(issue, results), "safe_stop">>,
      <<TurnsSpent(budget) \/ budget.reads >= MaxReads, "safe_stop">>,
      <<pending # NONE, "retry_exact">>,
      <<Evaluable(issue, results) /\ ~NeedsCarrierContext(issue, results), "finalize">>,
      <<TRUE, "replan">> >>)

(* _terminal_reason after a result *)
StopsAfter(issue, target, tool, results, pending, budget) ==
    \/ EarlyStop(issue, target, tool, results)
    \/ Route(issue, results, pending, budget) \in {"safe_stop", "finalize"}
=============================================================================
