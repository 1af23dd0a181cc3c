-------------------------------- MODULE MCOTA --------------------------------
(* Model checking of OTAAgent.                                             *)
EXTENDS OTAAgent

CONSTANTS i0, i1, i2, b1, b2

MCVersion == [i \in Images |-> CASE i = i0 -> 1 [] i = i1 -> 2 [] OTHER -> 3]
MCBlocksOf == [i \in Images |-> IF i = i1 THEN {b1, b2} ELSE {b1}]
===============================================================================
