----------------------------- MODULE MCTopicFilter -----------------------------
(* Every topic of up to 3 and every filter of up to 5 characters.           *)
EXTENDS MQTTTopicFilter

Strings(chars, max) == UNION {[1 .. n -> chars] : n \in 1 .. max}

MCTopics  == Strings({"a", "b", "/"}, 3)
MCFilters == Strings({"a", "/", "+", "#"}, 5)
=============================================================================
