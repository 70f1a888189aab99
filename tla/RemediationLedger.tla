-------------------------- MODULE RemediationLedger --------------------------
(***************************************************************************)
(* What the Warden API promises about incidents, without requests,         *)
(* sessions or failures: an incident (a dedup key) is entered once, either *)
(* as an automatic remediation or as one that awaits a human; only an      *)
(* awaiting one is resolved, once.  Autonomy has a budget: a workload with *)
(* AutoBudget incidents on record gets no more automatic remediations.     *)
(***************************************************************************)
EXTENDS Naturals, FiniteSets

CONSTANTS
    Keys,         \* incidents
    Workloads,    \* what they happen to
    WorkloadOf,   \* the workload of each incident
    AutoBudget    \* incidents on record from which autonomy stops

VARIABLE ledger   \* the state of each incident

States == {"unknown", "auto_executed", "auto_failed", "awaiting",
           "approved_executed", "approved_failed", "rejected"}

Incidents(w) == {k \in Keys : ledger[k] # "unknown" /\ WorkloadOf[k] = w}

\* The incident, and no other, comes to be in one of the states.
Enter(k, states) ==
    /\ ledger'[k] \in states
    /\ ledger' = [ledger EXCEPT ![k] = ledger'[k]]

LedgerInit == ledger = [k \in Keys |-> "unknown"]

Remediate(k) ==
    /\ ledger[k] = "unknown"
    /\ Enter(k, {"auto_executed", "auto_failed"})
    /\ Cardinality(Incidents(WorkloadOf[k])) < AutoBudget

Escalate(k) ==
    /\ ledger[k] = "unknown"
    /\ Enter(k, {"awaiting"})

Resolve(k) ==
    /\ ledger[k] = "awaiting"
    /\ Enter(k, {"approved_executed", "approved_failed", "rejected"})

LedgerNext == \E k \in Keys : Remediate(k) \/ Escalate(k) \/ Resolve(k)

LedgerSpec == LedgerInit /\ [][LedgerNext]_ledger
=============================================================================
