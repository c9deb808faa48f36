----------------------------- MODULE MCHostClip -----------------------------
(* HostClip on small instances.                                            *)
EXTENDS HostClip, TLC
=============================================================================
