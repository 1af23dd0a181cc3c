------------------------------- MODULE MCShadow -------------------------------
(* Model checking of ShadowClient: one Thing or two, and the calls made.     *)
EXTENDS ShadowClient

CONSTANTS a, b

Op(op, thing, keep) == [op |-> op, thing |-> thing, ucKeepSubscriptions |-> keep,
                        callbacks |-> {}]
Register(kinds) == [op |-> "Register", thing |-> a, ucKeepSubscriptions |-> 0,
                    callbacks |-> kinds]

MCCalls == {Op("Update", a, 0), Op("Get", a, 1), Op("Get", b, 1), Op("Delete", a, 0),
            Register({"Deleted"}), Register({})}
===============================================================================
