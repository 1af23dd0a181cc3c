----------------------------- MODULE MCDefender -----------------------------
(* DefenderAgent for TLC. *)
EXTENDS DefenderAgent

OnePeriod == {3}
TwoPeriods == {2, 5}
=============================================================================
