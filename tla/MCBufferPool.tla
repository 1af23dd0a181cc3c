----------------------------- MODULE MCBufferPool -----------------------------
(* TLC instance of BufferPool; the tasks are interchangeable.               *)
EXTENDS BufferPool, TLC

TaskSymmetry == Permutations(Tasks)
=============================================================================
