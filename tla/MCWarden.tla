------------------------------ MODULE MCWarden ------------------------------
(***************************************************************************)
(* Small instances of Warden for TLC.  One production workload: k1 and k2  *)
(* are two incidents of it.                                                *)
(***************************************************************************)
EXTENDS WardenLedger, WardenSerial, TLC

CONSTANTS r1, r2, r3, r4, k1, k2, k3, k4, prod

Requests3 == {r1, r2, r3}
Requests4 == {r1, r2, r3, r4}
Permutations3 == Permutations(Requests3)
Permutations4 == Permutations(Requests4) \cup Permutations({k1, k2, k3, k4})

OneWorkload == {prod}
TwoKeysOneWorkload == (k1 :> prod) @@ (k2 :> prod)
FourKeysOneWorkload == (k1 :> prod) @@ (k2 :> prod) @@ (k3 :> prod) @@ (k4 :> prod)

Payload(k, severity, suspicious) == [key |-> k, severity |-> severity, suspicious |-> suspicious]

\* An incident that the LLM may handle alone, the same reported as critical (the severity
\* is not part of the key), and one that the LLM never sees.
MixedBodies == {Payload(k1, "low", FALSE), Payload(k1, "critical", FALSE), Payload(k2, "low", TRUE)}
OneIncident == {Payload(k1, "low", FALSE)}
FourIncidents == {Payload(k, "low", FALSE) : k \in {k1, k2, k3, k4}}

Raw(action, confidence) == [action |-> action, confidence |-> confidence, safe |-> TRUE]

\* Answers that are safe for R2, one of which R3 restricts in production.
ConfidentAnswers == {Raw("restart", 90), Raw("rollback", 85)}
BudgetAnswers == {Raw("restart", 70), Raw("no_action", 70)}
=============================================================================
