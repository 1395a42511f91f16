----------------------- MODULE MCPackageTransaction -----------------------
(* Small instances of PackageTransaction for TLC. *)
EXTENDS PackageTransaction, TLC

\* Bytes are only compared, and Init ranges over all of them.
Symmetry == Permutations(GraphBytes)
============================================================================
