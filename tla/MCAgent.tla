------------------------------- MODULE MCAgent -------------------------------
(* TLC instance of MQTTAgent; the tasks are interchangeable.                *)
EXTENDS MQTTAgent, TLC

TaskSymmetry == Permutations(Tasks)
=============================================================================
