---------------------------- MODULE MCTokenBucket ----------------------------
(***************************************************************************)
(* An instance of TokenBucket for TLC. At 300 tokens a second a token      *)
(* takes more than three milliseconds, so that fractions of a token count. *)
(***************************************************************************)
EXTENDS TokenBucket, TLC

Symmetry == Permutations(Tenant)
=============================================================================
