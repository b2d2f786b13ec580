--------------------------- MODULE MCEchoPlayback ---------------------------
(* TLC instances of EchoPlayback.                                          *)
EXTENDS EchoPlayback, TLC

MCBrokerSymmetry == Permutations(Brokers)
=============================================================================
