------------------------------- MODULE MCQuit -------------------------------
(* Quit on small instances.                                                *)
EXTENDS Quit, TLC
=============================================================================
