------------------------------ MODULE MCFrame ------------------------------
(* Frame on small instances.                                               *)
EXTENDS Frame, TLC
=============================================================================
