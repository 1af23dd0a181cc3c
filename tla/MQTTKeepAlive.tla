---------------------------- MODULE MQTTKeepAlive ----------------------------
(***************************************************************************)
(* The clocks of the MQTT library: the time-outs of the operations that    *)
(* wait for an acknowledgement, the keep-alive of the connection, and the  *)
(* time for which the MQTT task may sleep because of them.                 *)
(*                                                                         *)
(* Source: lib/mqtt/aws_mqtt_lib.c (MQTT_Periodic, prvIsTimeElapsed) and   *)
(* lib/mqtt/aws_mqtt_agent.c (prvMQTTTask, prvManageConnections).          *)
(*                                                                         *)
(* One connection; the loop over several of them takes the earliest of     *)
(* their wake-up times.  A recorded tick count is represented by its age,  *)
(* the present tick count minus the recorded one.  Handlers take no time;  *)
(* ticks pass between them, at most MAX_LAG in one turn of the task's loop,*)
(* in which other tasks or a slow socket hold the MQTT task up.            *)
(***************************************************************************)
EXTENDS Integers

CONSTANTS
    Operations,           \* the buffers an operation can wait in
    Timeouts,             \* the time-outs callers ask for
    KEEP_ALIVE_INTERVAL,  \* mqttconfigKEEP_ALIVE_INTERVAL_SECONDS, in ticks
    ACTUAL_INTERVAL,      \* mqttconfigKEEP_ALIVE_ACTUAL_INTERVAL_TICKS
    PING_TIMEOUT,         \* mqttconfigKEEP_ALIVE_TIMEOUT_TICKS
    MAX_BLOCK,            \* mqttconfigMQTT_TASK_MAX_BLOCK_TICKS
    FOREVER,              \* UINT32_MAX: no time-out is due
    MAX_LAG               \* bound: ticks for which a turn of the loop is held up

ASSUME ClockAssumption ==
    /\ Timeouts \subseteq Nat
    /\ KEEP_ALIVE_INTERVAL \in Nat /\ ACTUAL_INTERVAL \in Nat /\ PING_TIMEOUT \in Nat
    /\ MAX_BLOCK \in Nat /\ MAX_LAG \in Nat /\ FOREVER \in Nat
    /\ MAX_BLOCK <= FOREVER
    /\ \A t \in Timeouts : t <= FOREVER

\* Both the defaults and the kit's values are of this kind.
ASSUME PingAssumption == PING_TIMEOUT <= ACTUAL_INTERVAL

VARIABLES
    pc,           \* the MQTT task: "wait" (xQueueReceive), "read", "periodic"
    sleep,        \* ticks until xQueueReceive times out
    again,        \* bytes were received: xNextTimeoutTicks = 0
    lag,          \* ticks since the task was ready to run, or due
    connection,   \* xConnectionState
    tx,           \* xTxBufferListHead: the operations in it
    age,          \* per operation: the age of ulRecordedTickCount
    remaining,    \* per operation: ulTimeoutTicks
    waited,       \* history: ticks since the operation was sent
    timeout,      \* history: the time-out its caller asked for
    sentAge,      \* the age of xLastSentMessageTimestamp
    nextPeriodic, \* ulNextPeriodicInvokeTicks
    waitingPing,  \* xWaitingForPingResp
    pinged,       \* history: ticks since the last PINGREQ, capped
    busy,         \* history: something else was sent since
    quiet         \* history: ticks since the library last tried to send

taskVars == <<pc, sleep, again, lag>>
txVars   == <<tx, age, remaining, waited, timeout>>
pingVars == <<waitingPing, pinged, busy>>
sentVars == <<sentAge, nextPeriodic, quiet>>
vars == <<pc, sleep, again, lag, connection, tx, age, remaining, waited, timeout,
          sentAge, nextPeriodic, waitingPing, pinged, busy, quiet>>

Smaller(a, b) == IF a <= b THEN a ELSE b

\* More than this does not matter for a ping that is late.
LatePing == PING_TIMEOUT + MAX_LAG + 1

-----------------------------------------------------------------------------
Init ==
    /\ pc = "wait" /\ sleep = 0 /\ again = FALSE /\ lag = 0
    /\ connection = "none"
    /\ tx = {}
    /\ age       = [o \in Operations |-> 0]
    /\ remaining = [o \in Operations |-> 0]
    /\ waited    = [o \in Operations |-> 0]
    /\ timeout   = [o \in Operations |-> 0]
    /\ sentAge = 0 /\ nextPeriodic = 0 /\ quiet = 0
    /\ waitingPing = FALSE /\ pinged = 0 /\ busy = FALSE

(***************************************************************************)
(* A tick.  While the task is due or running, ticks make it late.          *)
(***************************************************************************)
Tick ==
    /\ IF pc = "wait" /\ sleep > 0
       THEN sleep' = sleep - 1 /\ lag' = lag
       ELSE lag < MAX_LAG /\ lag' = lag + 1 /\ sleep' = sleep
    /\ age'    = [o \in Operations |-> IF o \in tx THEN age[o] + 1 ELSE 0]
    /\ waited' = [o \in Operations |-> IF o \in tx THEN waited[o] + 1 ELSE 0]
    /\ IF connection = "connected"
       THEN /\ sentAge' = sentAge + 1
            /\ quiet' = quiet + 1
            /\ pinged' = IF waitingPing THEN Smaller(pinged + 1, LatePing) ELSE pinged
       ELSE UNCHANGED <<sentAge, quiet, pinged>>
    /\ UNCHANGED <<pc, again, connection, tx, remaining, timeout, nextPeriodic,
                   waitingPing, busy>>

-----------------------------------------------------------------------------
(* Sending.                                                                 *)

\* prvSendData, when all bytes were sent
SendData ==
    /\ sentAge' = 0
    /\ nextPeriodic' = ACTUAL_INTERVAL
    /\ quiet' = 0

\* prvSendData, when they were not: it leaves everything alone
SendDataFails ==
    /\ quiet' = 0
    /\ UNCHANGED <<sentAge, nextPeriodic>>

\* A buffer with a packet that was sent enters the list.
Linked(o, t) ==
    /\ tx' = tx \cup {o}
    /\ age'       = [age       EXCEPT ![o] = 0]
    /\ remaining' = [remaining EXCEPT ![o] = t]
    /\ waited'    = [waited    EXCEPT ![o] = 0]
    /\ timeout'   = [timeout   EXCEPT ![o] = t]

\* Buffers leave the list; f of the others stays.
Kept(f) == [o \in Operations |-> IF o \in tx' THEN f[o] ELSE 0]

Unlinked(S) ==
    /\ tx' = tx \ S
    /\ age' = Kept(age) /\ remaining' = Kept(remaining)
    /\ waited' = Kept(waited) /\ timeout' = Kept(timeout)

\* prvResetMQTTContext: the flag of the ping stays as it is
ResetMQTTContext ==
    /\ connection' = "none"
    /\ Unlinked(tx)
    /\ UNCHANGED pingVars

(***************************************************************************)
(* prvMQTTTask: a command of the queue, or the time-out of xQueueReceive.  *)
(***************************************************************************)
\* After the command, prvManageConnections begins.
Proceed ==
    /\ pc = "wait"
    /\ pc' = "read" /\ sleep' = 0
    /\ UNCHANGED <<again, lag>>

WaitTimesOut ==
    /\ sleep = 0
    /\ Proceed
    /\ UNCHANGED <<connection, txVars, sentVars, pingVars>>

\* eMQTTServiceSocket, or a command that sends nothing
ReceiveOther ==
    /\ Proceed
    /\ UNCHANGED <<connection, txVars, sentVars, pingVars>>

\* MQTT_Connect
Connect(o, t) ==
    /\ Proceed
    /\ connection = "none"
    /\ connection' = "connecting"
    /\ SendData
    /\ Linked(o, t)
    /\ UNCHANGED pingVars

\* MQTT_Subscribe, MQTT_Unsubscribe, MQTT_Publish with QoS 1
Request(o, t) ==
    /\ Proceed
    /\ connection = "connected"
    /\ o \notin tx
    /\ SendData
    /\ Linked(o, t)
    /\ busy' = TRUE
    /\ UNCHANGED <<connection, waitingPing, pinged>>

\* MQTT_Publish with QoS 0
PublishQoS0 ==
    /\ Proceed
    /\ connection = "connected"
    /\ SendData
    /\ busy' = TRUE
    /\ UNCHANGED <<connection, txVars, waitingPing, pinged>>

SendFails ==
    /\ Proceed
    /\ connection = "connected"
    /\ SendDataFails
    /\ UNCHANGED <<connection, txVars, pingVars>>

\* MQTT_Disconnect; its result is the same whether the packet was sent or not
Disconnect ==
    /\ Proceed
    /\ connection # "none"
    /\ SendData \/ SendDataFails
    /\ ResetMQTTContext

(***************************************************************************)
(* prvManageConnections: reading the socket.                               *)
(***************************************************************************)
Received ==
    /\ pc = "read" /\ connection # "none"
    /\ pc' = "periodic" /\ again' = TRUE
    /\ UNCHANGED <<sleep, lag>>

ReceivedNothing ==
    /\ pc = "read"
    /\ pc' = "periodic"
    /\ UNCHANGED <<sleep, again, lag, connection, txVars, sentVars, pingVars>>

\* Any other error than SOCKETS_EWOULDBLOCK: MQTT_Disconnect
SocketError ==
    /\ pc = "read" /\ connection # "none"
    /\ pc' = "periodic"
    /\ SendData \/ SendDataFails
    /\ ResetMQTTContext
    /\ UNCHANGED <<sleep, again, lag>>

\* A malformed or unexpected packet, or a refusal
ReceivedMalformed ==
    /\ Received
    /\ ResetMQTTContext
    /\ UNCHANGED sentVars

\* prvProcessReceivedCONNACK
ReceivedCONNACK ==
    /\ Received
    /\ connection = "connecting"
    /\ connection' = "connected"
    /\ Unlinked(tx)
    /\ sentAge' = 0 /\ nextPeriodic' = ACTUAL_INTERVAL /\ quiet' = 0
    /\ waitingPing' = FALSE
    /\ UNCHANGED <<pinged, busy>>

\* The acknowledgement of an operation
ReceivedAck(o) ==
    /\ Received
    /\ connection = "connected"
    /\ o \in tx
    /\ Unlinked({o})
    /\ UNCHANGED <<connection, sentVars, pingVars>>

\* A PUBLISH with QoS 1: its PUBACK is sent
ReceivedPUBLISH ==
    /\ Received
    /\ connection = "connected"
    /\ \/ SendData /\ busy' = TRUE
       \/ SendDataFails /\ busy' = busy
    /\ UNCHANGED <<connection, txVars, waitingPing, pinged>>

\* Everything else: a part of a packet, a PUBLISH with QoS 0, an unexpected ack
ReceivedOther ==
    /\ Received
    /\ UNCHANGED <<connection, txVars, sentVars, pingVars>>

BugReceivedPINGRESP ==   \* mutant: whether one was expected is not looked at
    /\ Received
    /\ waitingPing' = FALSE
    /\ sentAge' = 0 /\ nextPeriodic' = ACTUAL_INTERVAL
    /\ UNCHANGED <<connection, txVars, quiet, pinged, busy>>

\* prvProcessReceivedFixedHeaderOnlyMQTTPacket, of an expected PINGRESP.  Nothing
\* is sent, but the stamp is renewed.
ReceivedPINGRESP ==
    /\ Received
    /\ waitingPing
    /\ waitingPing' = FALSE
    /\ sentAge' = 0 /\ nextPeriodic' = ACTUAL_INTERVAL
    /\ UNCHANGED <<connection, txVars, quiet, pinged, busy>>

(***************************************************************************)
(* MQTT_Periodic, and the time for which the task sleeps after it.         *)
(***************************************************************************)
\* prvIsTimeElapsed, for a stamp of age a and r ticks to go
IsTimeElapsed(a, r) == a >= r

TimedOut == {o \in tx : IsTimeElapsed(age[o], remaining[o])}

\* What prvIsTimeElapsed leaves of the time of an operation
RemainingAfter(o) == remaining[o] - age[o]

\* A CONNECT that timed out ends the connection.
ConnectTimesOut ==
    /\ connection = "connecting" /\ TimedOut # {}
    /\ ResetMQTTContext
    /\ UNCHANGED sentVars

BugOperationsTimeOut ==   \* mutant: the recorded tick count is not renewed
    /\ ~(connection = "connecting" /\ TimedOut # {})
    /\ tx' = tx \ TimedOut
    /\ age' = Kept(age)
    /\ remaining' = [o \in Operations |-> IF o \in tx' THEN RemainingAfter(o) ELSE 0]
    /\ waited' = Kept(waited) /\ timeout' = Kept(timeout)
    /\ connection' = connection

OperationsTimeOut ==
    /\ ~(connection = "connecting" /\ TimedOut # {})
    /\ tx' = tx \ TimedOut
    /\ age' = [o \in Operations |-> 0]
    /\ remaining' = [o \in Operations |-> IF o \in tx' THEN RemainingAfter(o) ELSE 0]
    /\ waited' = Kept(waited) /\ timeout' = Kept(timeout)
    /\ connection' = connection

KeepAliveIsDue == connection = "connected" /\ IsTimeElapsed(sentAge, nextPeriodic)

\* The time is over: the application is told, and a PINGREQ is due at once.
PingTimeout ==
    /\ KeepAliveIsDue /\ waitingPing
    /\ waitingPing' = FALSE
    /\ sentAge' = 0 /\ nextPeriodic' = 0
    /\ UNCHANGED <<quiet, pinged, busy>>

SendPing ==
    /\ KeepAliveIsDue /\ ~waitingPing
    /\ sentAge' = 0 /\ nextPeriodic' = PING_TIMEOUT /\ quiet' = 0
    /\ waitingPing' = TRUE /\ pinged' = 0 /\ busy' = FALSE

\* It could not be sent, and is tried again in the next turn.
SendPingFails ==
    /\ KeepAliveIsDue /\ ~waitingPing
    /\ sentAge' = 0 /\ nextPeriodic' = 0 /\ quiet' = 0
    /\ UNCHANGED pingVars

KeepAliveIsNotDue ==
    /\ connection = "connected" /\ ~KeepAliveIsDue
    /\ sentAge' = 0 /\ nextPeriodic' = nextPeriodic - sentAge
    /\ UNCHANGED <<quiet, pingVars>>

NotConnected == connection # "connected" /\ UNCHANGED <<sentVars, pingVars>>

BugDue(t) ==   \* mutant: the task sleeps on after the end of an operation
    /\ t <= FOREVER
    /\ again => t = 0
    /\ connection' # "none" => t <= MAX_BLOCK

\* No time-out comes before t, and with a socket open the task is not held up
\* for more than MAX_BLOCK.
Due(t) ==
    /\ t <= FOREVER
    /\ again => t = 0
    /\ connection' # "none" => t <= MAX_BLOCK
    /\ \A o \in tx' : t <= remaining'[o]
    /\ connection' = "connected" => t <= nextPeriodic'

MQTT_Periodic ==
    /\ pc = "periodic"
    /\ \/ ConnectTimesOut
       \/ OperationsTimeOut /\ (PingTimeout \/ SendPing \/ SendPingFails
                                 \/ KeepAliveIsNotDue \/ NotConnected)
    /\ pc' = "wait" /\ again' = FALSE /\ lag' = 0
    /\ sleep' \in 0 .. FOREVER
    /\ Due(sleep') /\ ~Due(sleep' + 1)   \* the longest such time

-----------------------------------------------------------------------------
Next ==
    \/ Tick
    \/ WaitTimesOut \/ ReceiveOther
    \/ \E o \in Operations, t \in Timeouts : Connect(o, t) \/ Request(o, t)
    \/ PublishQoS0 \/ SendFails \/ Disconnect
    \/ ReceivedNothing \/ SocketError \/ ReceivedMalformed
    \/ ReceivedCONNACK \/ ReceivedPUBLISH \/ ReceivedOther \/ ReceivedPINGRESP
    \/ \E o \in Operations : ReceivedAck(o)
    \/ MQTT_Periodic

Spec == Init /\ [][Next]_vars

-----------------------------------------------------------------------------
(* Properties.                                                              *)

\* The task, the list and the clocks have their types.
TypeOK ==
    /\ pc \in {"wait", "read", "periodic"} /\ again \in BOOLEAN
    /\ sleep \in 0 .. FOREVER /\ lag \in 0 .. MAX_LAG
    /\ connection \in {"none", "connecting", "connected"}
    /\ tx \in SUBSET Operations
    /\ age \in [Operations -> Nat] /\ remaining \in [Operations -> Nat]
    /\ waited \in [Operations -> Nat] /\ timeout \in [Operations -> Nat]
    /\ sentAge \in Nat /\ nextPeriodic \in Nat /\ quiet \in Nat
    /\ waitingPing \in BOOLEAN /\ busy \in BOOLEAN /\ pinged \in 0 .. LatePing

\* An operation is in the list no longer than its time-out and the lag of the
\* task, however often the task wakes up in between and whatever else it serves
\* (prvIsTimeElapsed counts down by what elapsed, MQTT_Periodic returns when to
\* come back, prvManageConnections takes the earliest).
OperationsEndInTime == \A o \in tx : waited[o] <= timeout[o] + MAX_LAG

\* An operation that MQTT_Periodic ends has had all of its time.
OperationsHaveTheirTime ==
    [][MQTT_Periodic => \A o \in tx \ tx' : waited[o] >= timeout[o]]_vars

\* A ping is not reported as unanswered before the time for its answer is over,
\* although other packets restart the clock (prvSendData, MQTT_Periodic).
PingsHaveTheirTime ==
    [][KeepAliveIsDue /\ waitingPing /\ ~waitingPing' /\ MQTT_Periodic
            => pinged >= PING_TIMEOUT]_vars

\* Nothing that MQTT_Periodic ends, an operation or the wait for a PINGRESP, ends before
\* its time, however often it is called meanwhile and whatever restarts the clocks.
NothingEndsEarly == OperationsHaveTheirTime /\ PingsHaveTheirTime

\* While connected, the library tries to send something within twice the actual
\* interval and the delays of the task, ping responses that come late and restart
\* the clock included (prvProcessReceivedFixedHeaderOnlyMQTTPacket, MQTT_Periodic).
SilenceIsBounded == connection = "connected" => quiet <= 2 * ACTUAL_INTERVAL + 2 * MAX_LAG

\* mqttconfigKEEP_ALIVE_INTERVAL_SECONDS is "the maximum time interval in seconds
\* allowed to elapse between 2 consecutive control packets"
\* (aws_mqtt_agent_config.h), and the CONNECT promises it to the server.
ServerHearsInTime == connection = "connected" => quiet <= KEEP_ALIVE_INTERVAL

=============================================================================
