--------------------------- MODULE MCDevDirectory ---------------------------
(***************************************************************************)
(* Constants for TLC: every producer answers to one and the same slug.     *)
(***************************************************************************)
EXTENDS DevDirectory, TLC

CONSTANT slug

OneSlug == [p \in Producers |-> slug]

Symmetry == Permutations(Readers)

=============================================================================
