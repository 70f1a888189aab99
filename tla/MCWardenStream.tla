--------------------------- MODULE MCWardenStream ---------------------------
(***************************************************************************)
(* The instance of WardenStream that TLC checks: two streams that deliver  *)
(* the same webhook.                                                       *)
(***************************************************************************)
EXTENDS WardenStream

CONSTANTS s1, s2, k1

Redelivered == {s1, s2}
RedeliveredKeys == [s \in Redelivered |-> k1]
=============================================================================
