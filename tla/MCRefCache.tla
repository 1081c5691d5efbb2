----------------------------- MODULE MCRefCache -----------------------------
(***************************************************************************)
(* TLC instances of RefCache.                                              *)
(***************************************************************************)
EXTENDS RefCache, TLC

\* Callers are interchangeable, and so are keys.
Symmetry == Permutations(Callers) \cup Permutations(Keys)

=============================================================================
