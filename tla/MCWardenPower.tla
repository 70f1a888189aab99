---------------------------- MODULE MCWardenPower ----------------------------
(***************************************************************************)
(* Deliveries, an approval and a rejection of one incident, on a host that *)
(* may lose power between any two steps, however often.                    *)
(***************************************************************************)
EXTENDS WardenPower, TLC

CONSTANTS r1, r2, r3, k1, prod

Requests == {r1, r2, r3}
Symmetry == Permutations(Requests)
OneWorkload == {prod}
OneKey == k1 :> prod

OneIncident == {[key |-> k1, severity |-> "low", suspicious |-> FALSE]}

Restart == [action |-> "restart", confidence |-> 90, safe |-> TRUE]
Answers == {Restart, [Restart EXCEPT !.confidence = 60]}
=============================================================================
