-------------------------- MODULE MCIndexOwnership --------------------------
(* IndexOwnership for TLC. *)
EXTENDS IndexOwnership, TLC

Symmetry == Permutations(Indexes) \cup Permutations(Sessions)

=============================================================================
