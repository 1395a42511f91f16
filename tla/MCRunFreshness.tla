--------------------------- MODULE MCRunFreshness ---------------------------
(***************************************************************************)
(* Inputs, options and processes are interchangeable.                      *)
(***************************************************************************)
EXTENDS RunFreshness, TLC

Symmetric == Permutations(Inputs) \cup Permutations(Options) \cup Permutations(Processes)
=============================================================================
