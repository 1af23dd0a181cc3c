----------------------------- MODULE MCKeepAlive -----------------------------
(* MQTTKeepAlive for TLC. *)
EXTENDS MQTTKeepAlive, TLC

OperationSymmetry == Permutations(Operations)
=============================================================================
