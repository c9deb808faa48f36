----------------------------- MODULE MCDismount -----------------------------
(* Dismount on small instances.                                            *)
EXTENDS Dismount, TLC

Symmetry == Permutations(Attempt) \union Permutations(Volume)
=============================================================================
