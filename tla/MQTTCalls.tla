------------------------------ MODULE MQTTCalls ------------------------------
(***************************************************************************)
(* What the MQTT agent API promises, without saying how: a call ends with  *)
(* one answer, and "pass" for an operation the server acknowledges means   *)
(* that the server accepted this very request.                             *)
(*                                                                         *)
(* Source: the return codes of lib/include/aws_mqtt_agent.h and the end of *)
(* prvSendCommandToMQTTTask in lib/mqtt/aws_mqtt_agent.c.                  *)
(***************************************************************************)
CONSTANTS Callers, Ops, NeedsAck

VARIABLES
    phase,    \* per caller: "idle" | "called" | "answered"
    op,       \* per caller: the operation it called
    code,     \* per caller: the answer
    accepted  \* callers whose current request the server has accepted

vars == <<phase, op, code, accepted>>

Init ==
    /\ phase = [t \in Callers |-> "idle"]
    /\ op = [t \in Callers |-> "none"]
    /\ code = [t \in Callers |-> "none"]
    /\ accepted = {}

Invoke(t, o) ==
    /\ phase[t] = "idle"
    /\ phase' = [phase EXCEPT ![t] = "called"]
    /\ op' = [op EXCEPT ![t] = o]
    /\ UNCHANGED <<code, accepted>>

\* The server accepts the requests of A, perhaps too late, and the calls of S
\* are answered.
Serve(A, S, answer) ==
    /\ \A t \in A : phase[t] # "idle"
    /\ \A t \in S : phase[t] = "called"
    /\ accepted' = accepted \cup A
    /\ \A t \in S : answer[t] = "pass" /\ op[t] \in NeedsAck => t \in accepted'
    /\ phase' = [t \in Callers |-> IF t \in S THEN "answered" ELSE phase[t]]
    /\ code' = [t \in Callers |-> IF t \in S THEN answer[t] ELSE code[t]]
    /\ UNCHANGED op

Finish(t) ==
    /\ phase' = [phase EXCEPT ![t] = "idle"]
    /\ op' = [op EXCEPT ![t] = "none"]
    /\ code' = [code EXCEPT ![t] = "none"]
    /\ accepted' = accepted \ {t}

\* The caller takes its answer.
Return(t) == phase[t] = "answered" /\ Finish(t)

\* The call fails before the agent has taken it.
Refuse(t) == phase[t] = "called" /\ t \notin accepted /\ Finish(t)

Next ==
    \/ \E t \in Callers : Return(t) \/ Refuse(t)
    \/ \E t \in Callers, o \in Ops : Invoke(t, o)
    \/ \E A, S \in SUBSET Callers :
          \E answer \in [S -> {"pass", "fail", "timeout"}] : Serve(A, S, answer)

Spec == Init /\ [][Next]_vars

=============================================================================
