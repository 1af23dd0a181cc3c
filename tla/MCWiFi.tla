------------------------------- MODULE MCWiFi --------------------------------
(* WiFiSockets for TLC.                                                     *)
EXTENDS WiFiSockets

\* The tasks are alike.
AlikeTasks == Permutations(Tasks)
=============================================================================
