--------------------------- MODULE MCRuntimeCache ---------------------------
(***************************************************************************)
(* Texts, tools and builders are interchangeable.                          *)
(***************************************************************************)
EXTENDS RuntimeCache, TLC

Symmetric == Permutations(Texts) \cup Permutations(Tools) \cup Permutations(Builders)
=============================================================================
