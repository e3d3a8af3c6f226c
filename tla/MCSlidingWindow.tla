--------------------------- MODULE MCSlidingWindow ---------------------------
(***************************************************************************)
(* An instance of SlidingWindow for TLC.                                   *)
(***************************************************************************)
EXTENDS SlidingWindow, TLC

Symmetry == Permutations(Request)
=============================================================================
