-------------------------- MODULE MCSemanticCache --------------------------
(* Small instances of SemanticCache for TLC. *)
EXTENDS SemanticCache, TLC

\* Paths and texts are only compared.
Symmetry == Permutations(Paths) \cup Permutations(Texts)
============================================================================
