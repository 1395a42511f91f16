--------------------------- MODULE MCPackageStore ---------------------------
(***************************************************************************)
(* Packages and processes are interchangeable.                             *)
(***************************************************************************)
EXTENDS PackageStore, TLC

Symmetric == Permutations(Packages) \cup Permutations(Processes)
=============================================================================
