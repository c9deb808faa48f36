------------------------------ MODULE MCBroker ------------------------------
(* Broker on small instances.                                              *)
EXTENDS Broker, TLC
=============================================================================
