---------------------------- MODULE MCSettings -----------------------------
(* Settings on small instances.                                            *)
EXTENDS Settings, TLC
=============================================================================
