----------------------------- MODULE WardenLedger -----------------------------
(***************************************************************************)
(* The committed rows of Warden read as a RemediationLedger.               *)
(***************************************************************************)
EXTENDS Warden

\* The state of an incident, from the rows of the event that entered it.
StateOf(row) ==
    CASE row.auto -> IF row.decision = "executed" THEN "auto_executed" ELSE "auto_failed"
      [] row.approval = "pending" -> "awaiting"
      [] row.approval = "rejected" -> "rejected"
      [] OTHER -> IF row.decision = "executed" THEN "approved_executed" ELSE "approved_failed"

Committed(k) == {e \in Req : db[e].event # "absent" /\ KeyOf(e) = k}

IncidentStates == [k \in Keys |->
    IF Committed(k) = {} THEN "unknown" ELSE StateOf(db[CHOOSE e \in Committed(k) : TRUE])]

\* A history limit below R4's threshold disables R4: the budget is unbounded.
Budget ==
    IF HistoryLimit >= HighIncidentThreshold THEN HighIncidentThreshold
    ELSE Cardinality(Req) + 1

Ledger == INSTANCE RemediationLedger WITH ledger <- IncidentStates, AutoBudget <- Budget

\* Through any interleaving of requests, failures, rollbacks and crashes the
\* committed records move as the ledger promises: one entry per incident, one
\* resolution, no automatic remediation beyond the budget of its workload.
ImplementsLedger == Ledger!LedgerSpec
=============================================================================
