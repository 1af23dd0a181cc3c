---------------------------- MODULE DefenderAgent ----------------------------
(***************************************************************************)
(* The Device Defender agent: a task that runs a state machine, in each    *)
(* round of which it creates an MQTT client, connects, subscribes to the   *)
(* two topics of answers, publishes a report, waits for the answer,        *)
(* disconnects, deletes the client, and sleeps until the next period.      *)
(*                                                                         *)
(* Source: lib/defender/aws_defender.c.  The MQTT agent is its interface,  *)
(* with the promises that module MQTTAgent checks: a client whose connect  *)
(* failed is down, and one whose disconnect succeeded is down.  The service*)
(* may answer a report at any time, rounds later too: its two topics are   *)
(* those of the Thing, and an answer does not say which report it is for.  *)
(* One application task starts and stops the agent.  A step of the task    *)
(* begins with the check of xDefenderKill and ends where it blocks;        *)
(* callbacks come from the MQTT task.                                      *)
(***************************************************************************)
EXTENDS Integers

CONSTANTS
    TICK_RATE_HZ,   \* configTICK_RATE_HZ
    TICK_RANGE,     \* 2^32: the values of TickType_t and uint32_t
    Periods,        \* arguments of DEFENDER_ReportPeriodSet, in seconds
    ACK_WAIT,       \* ticks for which the answer is waited for
    MAX_ACTIVE,     \* bound: ticks after which a round is not timed any more
    MAX_EARLIER     \* bound: answers that are counted as owed to earlier reports

ASSUME DefenderAssumption ==
    /\ TICK_RATE_HZ \in Nat \ {0} /\ TICK_RANGE \in Nat \ {0, 1}
    /\ Periods \subseteq Nat /\ Periods # {}
    /\ ACK_WAIT \in Nat /\ ACK_WAIT < TICK_RANGE
    /\ MAX_ACTIVE \in Nat /\ MAX_EARLIER \in Nat
    /\ \A p \in Periods : p + MAX_ACTIVE < TICK_RANGE

VARIABLES
    pc,      \* the agent task: "none", or where it is in prvAgentLoop
    kill,    \* xDefenderKill
    state,   \* eDefenderState
    status,  \* eDefenderReportStatus
    period,  \* ulDelayPeriodSec
    active,  \* ticks since xWakeTick
    delay,   \* ticks until vTaskDelay returns
    client,  \* xDefenderMQTTAgent: "none", or a client that is "down" or "up"
    answer,  \* the service owes an answer to the last report: "none" or "due"
    earlier, \* answers that it owes to the reports before that one
    told,    \* history: what became of the last report that was created
    stale    \* history: the status was set by the answer to an earlier report

vars == <<pc, kill, state, status, period, active, delay, client, answer, earlier,
          told, stale>>
clockVars == <<period, active, delay>>
serviceVars == <<answer, earlier, told, stale>>

-----------------------------------------------------------------------------
(* DEFENDER_StateFunctionSet: which function handles which state.           *)

BugDisconnectStates ==   \* mutant: a failed disconnect is not tried again
    {"SubscribeMqttFailed", "SubmitReportFailed", "SubmitReportSuccess"}

DisconnectStates ==
    {"SubscribeMqttFailed", "SubmitReportFailed", "SubmitReportSuccess", "DisconnectFailed"}

DeleteStates == {"ConnectMqttFailed", "Disconnected"}

SleepStates == {"NewMqttFailed", "Sleep"}

\* DeleteFailed is left out: MQTT_AGENT_Delete always succeeds.
States ==
    {"Init", "Started", "NewMqttSuccess", "ConnectMqttSuccess", "SubscribeMqttSuccess",
     "SubscribeMqttFailed", "SubmitReportFailed", "SubmitReportSuccess",
     "DisconnectFailed", "ConnectMqttFailed", "Disconnected", "NewMqttFailed", "Sleep"}

Init ==
    /\ pc = "none" /\ kill = FALSE
    /\ state = "Init"
    /\ status = "Success"   \* static memory is zero, and so is eDefenderRepSuccess
    /\ period \in Periods
    /\ active = 0 /\ delay = 0
    /\ client = "none"
    /\ answer = "none" /\ earlier = 0
    /\ told = "never" /\ stale = FALSE

-----------------------------------------------------------------------------
(* The application.                                                         *)

\* DEFENDER_Start; otherwise it returns eDefenderErrAlreadyStarted.  The state is
\* the one in which the agent was stopped.
Start ==
    /\ pc = "none"
    /\ kill' = FALSE
    /\ pc' \in {"loop", "none"}   \* "none": the task could not be created
    /\ UNCHANGED <<state, status, clockVars, client, serviceVars>>

\* DEFENDER_Stop
Stop ==
    /\ pc # "none" /\ ~kill
    /\ kill' = TRUE
    /\ UNCHANGED <<pc, state, status, clockVars, client, serviceVars>>

ReportPeriodSet ==
    /\ period' \in Periods
    /\ UNCHANGED <<pc, kill, state, status, active, delay, client, serviceVars>>

(***************************************************************************)
(* prvAgentLoop                                                            *)
(***************************************************************************)
LoopEnds ==
    /\ pc = "loop" /\ kill
    /\ pc' = "none"
    /\ UNCHANGED <<kill, state, status, clockVars, client, serviceVars>>

\* The state's function is called.
Calls(S) == pc = "loop" /\ ~kill /\ state \in S

\* It returns the next state.
Returns(s) == pc' = "loop" /\ state' = s

StateInit ==
    /\ Calls({"Init"})
    /\ Returns("Started")
    /\ UNCHANGED <<kill, status, clockVars, client, serviceVars>>

\* MQTT_AGENT_Create
StateNewMQTT ==
    /\ Calls({"Started"})
    /\ \/ Returns("NewMqttSuccess") /\ client' = "down"
       \/ Returns("NewMqttFailed") /\ client' = client
    /\ UNCHANGED <<kill, status, clockVars, serviceVars>>

\* MQTT_AGENT_Connect
StateConnectMqtt ==
    /\ Calls({"NewMqttSuccess"})
    /\ \/ Returns("ConnectMqttSuccess") /\ client' = "up"
       \/ Returns("ConnectMqttFailed") /\ client' = "down"
    /\ UNCHANGED <<kill, status, clockVars, serviceVars>>

\* prvStateSubscribe makes both calls whatever the first one returns.
StateSubscribe ==
    /\ Calls({"ConnectMqttSuccess"})
    /\ \/ Returns("SubscribeMqttSuccess") /\ client = "up"
       \/ Returns("SubscribeMqttFailed")
    /\ UNCHANGED <<kill, status, clockVars, client, serviceVars>>

\* prvStateCreateReport: CreateReport returns NULL
NoReport ==
    /\ Calls({"SubscribeMqttSuccess"})
    /\ Returns("SubmitReportFailed")
    /\ UNCHANGED <<kill, status, clockVars, client, serviceVars>>

\* With a new report, the answer owed to the last one is owed to an earlier one.
Outdated == IF answer = "due" /\ earlier < MAX_EARLIER THEN earlier + 1 ELSE earlier

\* prvPublishCborToDevDef: the report is on its way, MQTT_AGENT_Publish has not
\* yet returned to the task.
PublishIsSent ==
    /\ Calls({"SubscribeMqttSuccess"})
    /\ client = "up"
    /\ pc' = "published"
    /\ answer' = "due" /\ earlier' = Outdated /\ told' = "sent"
    /\ UNCHANGED <<kill, state, status, clockVars, client, stale>>

\* The rest of prvPublishCborToDevDef, and the wait for the answer.
PublishReturns ==
    /\ pc = "published"
    /\ status' = "NoAck" /\ stale' = FALSE
    /\ pc' = "ackWait" /\ delay' = ACK_WAIT
    /\ UNCHANGED <<kill, state, period, active, client, answer, earlier, told>>

BugPublishFails ==   \* mutant: the status is not set
    /\ Calls({"SubscribeMqttSuccess"})
    /\ status' = status /\ told' = "unsent" /\ stale' = FALSE
    /\ answer' = "none" /\ earlier' = Outdated
    /\ pc' = "failWait" /\ delay' = ACK_WAIT
    /\ UNCHANGED <<kill, state, period, active, client>>

\* MQTT_AGENT_Publish fails, if only by timing out when the report is on its way;
\* the agent waits all the same.
PublishFails ==
    /\ Calls({"SubscribeMqttSuccess"})
    /\ status' = "NotSent" /\ told' = "unsent" /\ stale' = FALSE
    /\ \/ answer' = "none"
       \/ client = "up" /\ answer' = "due"
    /\ earlier' = Outdated
    /\ pc' = "failWait" /\ delay' = ACK_WAIT
    /\ UNCHANGED <<kill, state, period, active, client>>

WaitForAckEnds ==
    /\ delay = 0
    /\ \/ pc = "ackWait"  /\ Returns("SubmitReportSuccess")
       \/ pc = "failWait" /\ Returns("SubmitReportFailed")
    /\ UNCHANGED <<kill, status, clockVars, client, serviceVars>>

\* MQTT_AGENT_Disconnect.  It also succeeds when the connection is lost.
StateDisconnectMqtt ==
    /\ Calls(DisconnectStates)
    /\ Returns("Disconnected")
    /\ client' = "down"
    /\ UNCHANGED <<kill, status, clockVars, serviceVars>>

\* The packet could not be sent, or the MQTT task was too busy to take the command.
DisconnectFails ==
    /\ Calls(DisconnectStates)
    /\ Returns("DisconnectFailed")
    /\ client' \in {client, "down"}
    /\ UNCHANGED <<kill, status, clockVars, serviceVars>>

\* MQTT_AGENT_Delete
StateDeleteMqtt ==
    /\ Calls(DeleteStates)
    /\ Returns("Sleep")
    /\ client' = "none"
    /\ UNCHANGED <<kill, status, clockVars, serviceVars>>

\* ulPeriodMS and pdMS_TO_TICKS: both products wrap around.
PeriodTicks(p) ==
    ((((p * 1000) % TICK_RANGE) * TICK_RATE_HZ) % TICK_RANGE) \div 1000

BugSleepPeriod(p, a) == (PeriodTicks(p) - a) % TICK_RANGE   \* mutant: unchecked

\* prvStateSleep: unsigned arithmetic, and a comparison of ticks with seconds
SleepPeriod(p, a) ==
    LET s == (PeriodTicks(p) - a) % TICK_RANGE IN IF s > p THEN 1 ELSE s

StateSleep ==
    /\ Calls(SleepStates)
    /\ pc' = "sleep" /\ delay' = SleepPeriod(period, active)
    /\ UNCHANGED <<kill, state, status, period, active, client, serviceVars>>

Wakes ==
    /\ pc = "sleep" /\ delay = 0
    /\ Returns("Started")
    /\ active' = 0
    /\ UNCHANGED <<kill, status, period, delay, client, serviceVars>>

-----------------------------------------------------------------------------
(* The MQTT task, the network and the clock.                                *)

\* A failed subscription may still be one to one of the two topics.
Subscribed == client = "up" /\ state \in {"SubscribeMqttSuccess"} \cup DisconnectStates

\* xAcceptCallback, prvRejectCallback: the answer to the last report comes.
Answered ==
    /\ answer = "due" /\ Subscribed
    /\ answer' = "none" /\ stale' = FALSE
    /\ \/ status' = "Success"  /\ told' = "accepted"
       \/ status' = "Rejected" /\ told' = "rejected"
    /\ UNCHANGED <<pc, kill, state, clockVars, client, earlier>>

\* They do the same with the answer to an earlier report.
AnsweredLate ==
    /\ earlier > 0 /\ Subscribed
    /\ earlier' = earlier - 1 /\ stale' = TRUE
    /\ status' \in {"Success", "Rejected"}
    /\ UNCHANGED <<pc, kill, state, clockVars, client, answer, told>>

ConnectionLost ==
    /\ client = "up"
    /\ client' = "down"
    /\ UNCHANGED <<pc, kill, state, status, clockVars, serviceVars>>

Tick ==
    /\ active < MAX_ACTIVE \/ delay > 0
    /\ active' = IF active < MAX_ACTIVE THEN active + 1 ELSE active
    /\ delay' = IF delay > 0 THEN delay - 1 ELSE 0
    /\ UNCHANGED <<pc, kill, state, status, period, client, serviceVars>>

AgentTask ==
    \/ LoopEnds \/ StateInit \/ StateNewMQTT \/ StateConnectMqtt \/ StateSubscribe
    \/ NoReport \/ PublishIsSent \/ PublishReturns \/ PublishFails \/ WaitForAckEnds
    \/ StateDisconnectMqtt \/ DisconnectFails \/ StateDeleteMqtt \/ StateSleep \/ Wakes

Next ==
    \/ Start \/ Stop \/ ReportPeriodSet
    \/ AgentTask
    \/ Answered \/ AnsweredLate \/ ConnectionLost \/ Tick

Spec == Init /\ [][Next]_vars

\* The task is scheduled, the clock advances, and the MQTT task does not fail to
\* take a disconnect command in time for ever.
FairSpec ==
    /\ Spec
    /\ WF_vars(AgentTask) /\ WF_vars(Tick)
    /\ SF_vars(StateDisconnectMqtt)

-----------------------------------------------------------------------------
(* Properties.                                                              *)

\* The agent's data have their types.
TypeOK ==
    /\ pc \in {"none", "loop", "published", "ackWait", "failWait", "sleep"}
    /\ kill \in BOOLEAN
    /\ state \in States
    /\ status \in {"Success", "Rejected", "NoAck", "NotSent"}
    /\ period \in Periods
    /\ active \in 0 .. MAX_ACTIVE /\ delay \in 0 .. (TICK_RANGE - 1)
    /\ client \in {"none", "down", "up"}
    /\ answer \in {"none", "due"} /\ earlier \in 0 .. MAX_EARLIER
    /\ stale \in BOOLEAN
    /\ told \in {"never", "sent", "unsent", "accepted", "rejected"}

\* However calls fail, connections break and the application stops and restarts
\* the agent in any state: a client is created only when the last one was given
\* back, and deleted only when its connection is closed, which MQTT_AGENT_Delete
\* does not see to (the table of DEFENDER_StateFunctionSet).
ClientFitsState ==
    /\ state \in {"Init", "Started"} \cup SleepStates => client = "none"
    /\ state \notin {"Init", "Started"} \cup SleepStates => client # "none"
    /\ state \in DeleteStates \cup {"NewMqttSuccess"} => client = "down"

\* The status shows an acknowledgement or a rejection only if it came for the last
\* report, and a failure exactly if the last report was not sent.  The one exception
\* is a status that the answer to an earlier report has set since the agent last
\* set it.
StatusIsEarned ==
    told # "never" /\ pc # "published" /\ ~stale =>
        /\ status = "Success"  => told = "accepted"
        /\ status = "Rejected" => told = "rejected"
        /\ status = "NotSent" <=> told = "unsent"

\* "Last report was successfully sent and acknowledged" (eDefenderRepSuccess in
\* aws_defender.h)
SuccessIsOfLastReport ==
    told # "never" /\ pc # "published" /\ status = "Success" => told = "accepted"

\* The agent never sleeps beyond the end of its period, although the period may
\* have passed already or been shortened, and its ticks may not fit in 32 bits
\* (unsigned arithmetic in prvStateSleep).
NeverOversleeps ==
    [][StateSleep => delay' <= 1 \/ active + delay' <= period * TICK_RATE_HZ]_vars

\* While it is not stopped, the agent begins new rounds for ever, whatever fails.
RoundsGoOn == []<>(state = "Started" \/ kill \/ pc = "none")

\* "Set the reporting period in seconds.  Device defender provides metric reports
\* on an interval" (DEFENDER_ReportPeriodSet in aws_defender.h)
RoundsKeepThePeriod ==
    [][Wakes /\ state = "Sleep" => active >= period * TICK_RATE_HZ]_vars

=============================================================================
