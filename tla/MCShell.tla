------------------------------ MODULE MCShell ------------------------------
(* Shell on small instances.                                               *)
EXTENDS Shell, TLC
=============================================================================
