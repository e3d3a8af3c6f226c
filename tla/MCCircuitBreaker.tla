------------------------- MODULE MCCircuitBreaker -------------------------
(***************************************************************************)
(* Instances of CircuitBreaker for TLC.                                    *)
(***************************************************************************)
EXTENDS CircuitBreaker, TLC

CONSTANTS p1, p2

SameClocks == [p \in Pod |-> 0]

(* The clock of p1 runs a millisecond ahead of the others.                 *)
SkewedClocks == [p \in Pod |-> IF p = p1 THEN 1 ELSE 0]

Symmetry == Permutations(Pod)
=============================================================================
