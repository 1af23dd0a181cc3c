---------------------------- MODULE MCSubscriptions ----------------------------
(* One message topic, the filter that names it, a wild-card filter that     *)
(* matches it and an invalid filter; a table of two entries.                *)
EXTENDS MQTTSubscriptions

MCFilters       == {"t", "t/#", "bad"}
MCSimpleFilters == {"t"}
MCUnstorable    == {"bad"}
MCTopics        == {"t"}
MCMatchedBy     == [f \in MCFilters |-> IF f = "bad" THEN {} ELSE {"t"}]
=============================================================================
