--------------------------- MODULE MCOneShotTask ---------------------------
(***************************************************************************)
(* TLC instances of OneShotTask.                                           *)
(***************************************************************************)
EXTENDS OneShotTask, TLC

\* The handler's goroutines are interchangeable.
Symmetry == Permutations(Users)

=============================================================================
