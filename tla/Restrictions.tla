---------------------------- MODULE Restrictions ----------------------------
(***************************************************************************)
(* The business rules that ReasoningEngineService applies to the answer of *)
(* the LLM, as functions of what they read: the severity of the event,     *)
(* whether its environment is one of PRODUCTION_ENVIRONMENTS, the LLM's    *)
(* raw decision, and the number of history entries of the workload that    *)
(* were loaded for this decision.  Confidences are hundredths, so 0.7 is   *)
(* 70 and the boundary is exact.                                           *)
(***************************************************************************)
EXTENDS Naturals

Actions == {"rollback", "restart", "scale_up", "notify_human", "no_action"}
Severities == {"low", "medium", "high", "critical"}
Confidences == 0..100

\* LLMRawDecision, without the wording of its reasoning.
RawDecisions == [action : Actions, confidence : Confidences, safe : BOOLEAN]

\* _FALLBACK and _INJECTION_FALLBACK: they differ in their wording only.
Fallback == [action |-> "notify_human", confidence |-> 0, safe |-> FALSE]

ProdRestrictedActions == {"rollback", "scale_up"}
HighIncidentThreshold == 3
ConfidenceFloor == 70

Rules == {"R1", "R2", "R3", "R4"}

\* Mutant of Fires: a confidence at the threshold is restricted as well.
FiresAtThreshold(rule, severity, prod, raw, incidents) ==
    \/ rule = "R1" /\ severity = "critical"
    \/ rule = "R2" /\ raw.confidence <= ConfidenceFloor
    \/ rule = "R3" /\ prod /\ raw.action \in ProdRestrictedActions
    \/ rule = "R4" /\ incidents >= HighIncidentThreshold

\* Whether _apply_restrictions appends the rule to `restrictions`.
Fires(rule, severity, prod, raw, incidents) ==
    \/ rule = "R1" /\ severity = "critical"
    \/ rule = "R2" /\ raw.confidence < ConfidenceFloor
    \/ rule = "R3" /\ prod /\ raw.action \in ProdRestrictedActions
    \/ rule = "R4" /\ incidents >= HighIncidentThreshold

RestrictionsApplied(severity, prod, raw, incidents) ==
    {rule \in Rules : Fires(rule, severity, prod, raw, incidents)}

\* Decision.safe_to_auto: every rule that fires clears the LLM's flag.
SafeToAuto(severity, prod, raw, incidents) ==
    raw.safe /\ RestrictionsApplied(severity, prod, raw, incidents) = {}

\* len() of what find_by_workload returns under LIMIT WORKLOAD_HISTORY_LIMIT.
Limited(rows, limit) == IF rows < limit THEN rows ELSE limit
=============================================================================
