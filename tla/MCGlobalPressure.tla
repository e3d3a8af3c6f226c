--------------------------- MODULE MCGlobalPressure ---------------------------
(***************************************************************************)
(* An instance of GlobalPressure for TLC. Under fairness to single pods    *)
(* they are not interchangeable, so there is no symmetry. The refreshes of *)
(* one pod overlap; the other pod's do not, which keeps the instance small.*)
(***************************************************************************)
EXTENDS GlobalPressure, TLC

CONSTANTS p1, p2

OverlapAtOne == p1 :> 2 @@ p2 :> 1
=============================================================================
