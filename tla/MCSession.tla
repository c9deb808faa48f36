----------------------------- MODULE MCSession -----------------------------
(* Session on small instances: symmetric helper runs and containers.       *)
EXTENDS SessionInv, TLC

Symmetry == Permutations(Helper) \union Permutations(Source)
=============================================================================
