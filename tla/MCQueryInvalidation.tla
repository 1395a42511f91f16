------------------------- MODULE MCQueryInvalidation -------------------------
(* Small instances of QueryInvalidation for TLC. *)
EXTENDS QueryInvalidation, TLC

Symmetry == Permutations(Keys)
=============================================================================
