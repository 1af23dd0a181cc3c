------------------------------- MODULE MQTTAgent -------------------------------
(***************************************************************************)
(* The MQTT agent: application tasks hand commands to the MQTT task over a *)
(* queue and block on a task notification; the MQTT task owns the sockets  *)
(* and the MQTT library context of every broker connection.                *)
(*                                                                         *)
(* Source: lib/mqtt/aws_mqtt_agent.c (the agent) and, for the calls the    *)
(* MQTT task makes into it, lib/mqtt/aws_mqtt_lib.c (the library).         *)
(*                                                                         *)
(* Granularity.  Application tasks interleave between the critical section *)
(* that draws a message identifier, the queue send and the notification    *)
(* wait.  The MQTT task interleaves between receiving (and executing) one  *)
(* command and, for each broker in turn, reading the socket and running    *)
(* MQTT_Periodic.  A user callback that may call back into the agent is a  *)
(* step of its own.                                                        *)
(***************************************************************************)
EXTENDS Integers, Sequences, FiniteSets

CONSTANTS
    Tasks,                  \* application tasks that use the agent
    MqttTask,               \* the MQTT task itself, a caller only from a callback
    NoTask,                 \* NULL task handle
    MAX_BROKERS,            \* mqttconfigMAX_BROKERS
    MAX_PARALLEL_OPS,       \* mqttconfigMAX_PARALLEL_OPS
    NUM_BUFFERS,            \* bufferpoolconfigNUM_BUFFERS
    MESSAGE_IDENTIFIER_MAX, \* mqttMESSAGE_IDENTIFIER_MAX, in units of _MIN
    UsedOps,                \* the operations the application of this instance calls
    ForeignAt               \* where in a call other notifications reach a task

ASSUME TasksAssumption == MqttTask \notin Tasks /\ NoTask \notin Tasks
                          /\ MqttTask # NoTask
ASSUME SizesAssumption ==
    /\ MAX_BROKERS \in Nat \ {0}
    /\ MAX_PARALLEL_OPS \in Nat \ {0}
    /\ NUM_BUFFERS \in Nat \ {0}
    /\ MESSAGE_IDENTIFIER_MAX \in Nat /\ MESSAGE_IDENTIFIER_MAX >= 2

Brokers == 1 .. MAX_BROKERS
Callers == Tasks \cup {MqttTask}
Ids     == 1 .. (MESSAGE_IDENTIFIER_MAX - 1)
COMMAND_QUEUE_LENGTH == MAX_BROKERS * MAX_PARALLEL_OPS

AckedOps == {"Subscribe", "Unsubscribe", "Publish1"}
Ops      == AckedOps \cup {"Connect", "Disconnect", "Publish0"}
Codes    == {"pass", "fail", "timeout"}
Results  == {"None", "Success", "Failure", "Timeout", "APICalledFromCallback"}

ASSUME UsedOpsAssumption == UsedOps \subseteq Ops
ASSUME ForeignAssumption == ForeignAt \subseteq {"ready", "enqueue", "wait"}

Commands == [op : Ops, broker : Brokers, task : Callers, id : Ids]
Service  == [op |-> "ServiceSocket", broker |-> 1, task |-> NoTask, id |-> 0]
NoCall   == [op |-> "Disconnect", broker |-> 1, task |-> NoTask, id |-> 0]
Replies  == [id : Ids \cup {0}, code : Codes]
NoReply  == [id |-> 0, code |-> "none"]
Foreign  == [id |-> 0, code |-> "fail"]  \* a notification the agent did not send
Requests == [op : Ops, id : Ids]
Waiters  == [task : Callers, id : Ids]

VARIABLES
    \* --- application side ---
    pc,        \* per caller: "ready" | "enqueue" | "wait"
    call,      \* per caller: the command it is executing
    result,    \* per caller: what its last call returned
    notif,     \* per caller: the pending task notification, or NoReply
    nextId,    \* ulQueueMessageIdentifier
    owner,     \* per broker: the task that created the client; NoTask = not in use
    up,        \* per broker: the owner has reason to think it is connected
    held,      \* receive buffers whose ownership a callback took
    \* --- shared ---
    queue,     \* xCommandQueue
    pool,      \* buffers of the pool in use
    \* --- MQTT task ---
    mstage,    \* "receive" | "recv" | "callback" | "periodic"
    mbroker,   \* the broker prvManageConnections is at
    sock,      \* per broker: xSocket is valid
    state,     \* per broker: xConnectionState
    slots,     \* per broker: the used entries of xWaitingTasks
    tx,        \* per broker: xTxBufferListHead
    rx,        \* per broker: xRxBuffer / xRxMessageAction
    halted,    \* a configASSERT of the MQTT task failed
    \* --- external ---
    atBroker,  \* per broker: requests that reached the server, not yet answered
    acked      \* identifiers of the current calls the server has accepted

appVars  == <<pc, call, result, nextId>>
envVars  == <<owner, up, held>>
connVars == <<sock, state, slots, tx, rx, atBroker>>
vars == <<pc, call, result, notif, nextId, owner, up, held, queue, pool, mstage,
          mbroker, sock, state, slots, tx, rx, halted, atBroker, acked>>

Init ==
    /\ pc = [t \in Callers |-> "ready"]
    /\ call = [t \in Callers |-> NoCall]
    /\ result = [t \in Callers |-> "None"]
    /\ notif = [t \in Callers |-> NoReply]
    /\ nextId = 1
    /\ owner = [b \in Brokers |-> NoTask]
    /\ up = [b \in Brokers |-> FALSE]
    /\ held = 0
    /\ queue = << >>
    /\ pool = 0
    /\ mstage = "receive"
    /\ mbroker = 1
    /\ sock = [b \in Brokers |-> FALSE]
    /\ state = [b \in Brokers |-> "NotConnected"]
    /\ slots = [b \in Brokers |-> {}]
    /\ tx = [b \in Brokers |-> {}]
    /\ rx = [b \in Brokers |-> "none"]
    /\ halted = FALSE
    /\ atBroker = [b \in Brokers |-> {}]
    /\ acked = {}

-----------------------------------------------------------------------------
(* Application tasks.                                                       *)

\* The next value of ulQueueMessageIdentifier: it skips 0 and 0xFFFF.
IdAfter(i) == IF i + 1 >= MESSAGE_IDENTIFIER_MAX THEN 1 ELSE i + 1

\* An identifier comes round again after 65534 calls.  The model reuses a few
\* and assumes that, as with 65534, the reused one is not still in use.
IdIsUnused(i) ==
    /\ \A t \in Callers : pc[t] # "ready" => call[t].id # i
    /\ \A b \in Brokers : \A r \in atBroker[b] : r.id # i

BugFromCallback(t) == FALSE   \* mutant: the check is left out

\* The command would be sent by the task that has to execute it.
FromCallback(t) == t = MqttTask

\* xTaskNotifyStateClear before the command is sent.
StateClear(t) == notif' = [notif EXCEPT ![t] = NoReply]

\* How applications use a client: any task may use it while it exists; its
\* creator connects it when it believes it is down, and disconnects it.
MayCall(t, op, b) ==
    /\ owner[b] # NoTask
    /\ op \in UsedOps
    /\ op \in {"Connect", "Disconnect"} => t \in {owner[b], MqttTask}
    /\ op = "Connect" => ~up[b]

\* prvSendCommandToMQTTTask up to the queue send.
SendCommand(t, op, b) ==
    /\ pc[t] = "ready"
    /\ MayCall(t, op, b)
    /\ IF FromCallback(t)
       THEN /\ result' = [result EXCEPT ![t] = "APICalledFromCallback"]
            /\ UNCHANGED <<pc, call, notif, nextId>>
       ELSE /\ IdIsUnused(nextId)
            /\ call' = [call EXCEPT ![t] = [op |-> op, broker |-> b, task |-> t,
                                            id |-> nextId]]
            /\ nextId' = IdAfter(nextId)
            /\ StateClear(t)
            /\ pc' = [pc EXCEPT ![t] = "enqueue"]
            /\ result' = [result EXCEPT ![t] = "None"]
    /\ UNCHANGED <<envVars, queue, pool, mstage, mbroker, connVars, halted, acked>>

Enqueue(t) ==
    /\ pc[t] = "enqueue"
    /\ Len(queue) < COMMAND_QUEUE_LENGTH
    /\ queue' = Append(queue, call[t])
    /\ pc' = [pc EXCEPT ![t] = "wait"]
    /\ UNCHANGED <<call, result, notif, nextId, envVars, pool, mstage, mbroker,
                   connVars, halted, acked>>

\* xQueueSendToBack gives up: the queue stayed full for xTicksToWait.
EnqueueTimesOut(t) ==
    /\ pc[t] = "enqueue"
    /\ Len(queue) = COMMAND_QUEUE_LENGTH
    /\ pc' = [pc EXCEPT ![t] = "ready"]
    /\ result' = [result EXCEPT ![t] = "Failure"]
    /\ call' = [call EXCEPT ![t] = NoCall]
    /\ UNCHANGED <<notif, nextId, envVars, queue, pool, mstage, mbroker,
                   connVars, halted, acked>>

ResultOf(code) ==
    [pass |-> "Success", fail |-> "Failure", timeout |-> "Timeout"][code]

\* What the owner concludes about its client when its call returns.
UpAfter(c, code) ==
    IF code = "pass" /\ c.op \in {"Connect", "Disconnect"}
    THEN [up EXCEPT ![c.broker] = (c.op = "Connect")]
    ELSE up

\* xTaskNotifyWait returns; any other notification is ignored.
NotifyWait(t) ==
    /\ pc[t] = "wait"
    /\ notif[t] # NoReply
    /\ notif' = [notif EXCEPT ![t] = NoReply]
    /\ IF notif[t].id = call[t].id
       THEN /\ pc' = [pc EXCEPT ![t] = "ready"]
            /\ result' = [result EXCEPT ![t] = ResultOf(notif[t].code)]
            /\ up' = UpAfter(call[t], notif[t].code)
            /\ acked' = acked \ {call[t].id}
            /\ call' = [call EXCEPT ![t] = NoCall]
       ELSE UNCHANGED <<pc, call, result, up, acked>>
    /\ UNCHANGED <<nextId, owner, held, queue, pool, mstage, mbroker,
                   connVars, halted>>

\* prvGetFreeConnection: the first connection that is not in use.
Create(t) ==
    /\ pc[t] = "ready"
    /\ \E b \in Brokers :
         /\ owner[b] = NoTask
         /\ \A c \in 1 .. (b - 1) : owner[c] # NoTask
         /\ owner' = [owner EXCEPT ![b] = t]
    /\ UNCHANGED <<appVars, notif, up, held, queue, pool, mstage, mbroker,
                   connVars, halted, acked>>

\* prvReturnConnection; the caller must have disconnected the client before.
Delete(t, b) ==
    /\ pc[t] = "ready"
    /\ owner[b] = t
    /\ ~up[b]
    /\ owner' = [owner EXCEPT ![b] = NoTask]
    /\ UNCHANGED <<appVars, notif, up, held, queue, pool, mstage, mbroker,
                   connVars, halted, acked>>

\* MQTT_AGENT_ReturnBuffer: a buffer taken by a callback goes back to the pool.
ReturnBuffer ==
    /\ held > 0
    /\ held' = held - 1
    /\ pool' = pool - 1
    /\ UNCHANGED <<appVars, notif, owner, up, queue, mstage, mbroker, connVars,
                   halted, acked>>

\* A task notification from elsewhere: an object the task was waiting on before,
\* another task, an interrupt.
ForeignNotification(t) ==
    /\ pc[t] \in ForeignAt
    /\ notif[t] = NoReply
    /\ notif' = [notif EXCEPT ![t] = Foreign]
    /\ UNCHANGED <<appVars, envVars, queue, pool, mstage, mbroker, connVars,
                   halted, acked>>

-----------------------------------------------------------------------------
(* What the MQTT task's handlers share.                                     *)

BugNotified(replies) ==   \* mutant: the loop ends after the first task
    LET first == CHOOSE r \in replies : TRUE
    IN  [t \in Callers |-> IF replies # {} /\ t = first.task /\ notif[t] = NoReply
                            THEN [id |-> first.id, code |-> first.code] ELSE notif[t]]

\* prvNotifyRequestingTask for every reply [task, id, code] of a set: a task
\* that already has a pending notification keeps it (eSetValueWithoutOverwrite).
\* A NULL task is not notified.
Notified(replies) ==
    [t \in Callers |->
        LET mine == {r \in replies : r.task = t}
        IN  IF notif[t] # NoReply \/ mine = {} THEN notif[t]
            ELSE LET r == CHOOSE r \in mine : TRUE
                 IN  [id |-> r.id, code |-> r.code]]

Reply(w, code) == [task |-> w.task, id |-> w.id, code |-> code]

BugWaitingFor(b, i) == slots[b]   \* mutant: the identifier is not compared

\* prvRetrieveNotificationData: the waiting tasks of b with this identifier.
WaitingFor(b, i) == {w \in slots[b] : w.id = i}

BugMatchingTx(b, ack) == {r \in tx[b] : r.op = ack.op}   \* mutant: any identifier

\* The transmit buffer an ACK is for; a CONNACK carries no identifier.
MatchingTx(b, ack) ==
    {r \in tx[b] : r.op = ack.op /\ (ack.op = "Connect" \/ r.id = ack.id)}

BuffersOf(b) == Cardinality(tx[b]) + (IF rx[b] = "buffer" THEN 1 ELSE 0)

\* prvResetMQTTContext.
ResetContext(b) ==
    /\ state' = [state EXCEPT ![b] = "NotConnected"]
    /\ tx' = [tx EXCEPT ![b] = {}]
    /\ rx' = [rx EXCEPT ![b] = "none"]
    /\ pool' = pool - BuffersOf(b)

BugProcessDisconnect(b, also) ==   \* mutant: xWaitingTasks keeps its entries
    /\ up' = IF sock[b] THEN [up EXCEPT ![b] = FALSE] ELSE up
    /\ sock' = [sock EXCEPT ![b] = FALSE]
    /\ atBroker' = [atBroker EXCEPT ![b] = {}]
    /\ notif' = Notified({Reply(w, "fail") : w \in slots[b]} \cup also)
    /\ UNCHANGED slots

\* prvProcessReceivedDisconnect: the user is told and the socket closed if it
\* is open, then everyone who waits on this client is answered.  also holds the
\* replies the same handler sends on top of those.
ProcessDisconnect(b, also) ==
    /\ up' = IF sock[b] THEN [up EXCEPT ![b] = FALSE] ELSE up
    /\ sock' = [sock EXCEPT ![b] = FALSE]
    /\ atBroker' = [atBroker EXCEPT ![b] = {}]
    /\ notif' = Notified({Reply(w, "fail") : w \in slots[b]} \cup also)
    /\ slots' = [slots EXCEPT ![b] = {}]

BugIsLive(b) == state[b] = "Connected"   \* mutant: a CONNECT may be under way

\* MQTT_Disconnect: the event is raised only on a live connection, the context
\* is reset in any case.
IsLive(b) == state[b] \in {"Connected", "InProgress"}

MQTT_Disconnect(b, also) ==
    /\ ResetContext(b)
    /\ IF IsLive(b)
       THEN ProcessDisconnect(b, also)
       ELSE /\ notif' = Notified(also)
            /\ UNCHANGED <<up, sock, atBroker, slots>>

-----------------------------------------------------------------------------
(* The MQTT task receives a command and executes it (prvMQTTTask).          *)

Running(stage) == pc[MqttTask] = "ready" /\ mstage = stage

ToManageConnections == mstage' = "recv" /\ mbroker' = 1

\* xQueueReceive times out: never while no connection needs service.
ReceiveTimesOut ==
    /\ Running("receive")
    /\ queue = << >>
    /\ \E b \in Brokers : sock[b]
    /\ ToManageConnections
    /\ UNCHANGED <<appVars, notif, envVars, queue, pool, connVars, halted, acked>>

\* prvMQTTClientSocketWakeupCallback finds the queue empty and posts an event.
SocketWakeup ==
    /\ \E b \in Brokers : sock[b]
    /\ queue = << >>
    /\ queue' = Append(queue, Service)
    /\ UNCHANGED <<appVars, notif, envVars, pool, mstage, mbroker, connVars,
                   halted, acked>>

Receive(c) ==
    /\ Running("receive")
    /\ queue # << >>
    /\ c = Head(queue)
    /\ queue' = Tail(queue)
    /\ ToManageConnections

\* The command waited in the queue for longer than its timeout.  A socket event
\* has timeout 0 and no task, so that it always ends here.
ReceiveTooLate(c) ==
    /\ Receive(c)
    /\ notif' = Notified({Reply(c, "timeout")})
    /\ UNCHANGED <<appVars, envVars, pool, connVars, halted, acked>>

\* prvStoreNotificationData finds a free entry.
SlotIsFree(b) == Cardinality(slots[b]) < MAX_PARALLEL_OPS

\* The request left: it has a transmit buffer and a waiting task until it is
\* answered, times out or the connection ends.
Sent(c) ==
    LET r == [op |-> c.op, id |-> c.id]
    IN  /\ pool < NUM_BUFFERS
        /\ pool' = pool + 1
        /\ tx' = [tx EXCEPT ![c.broker] = @ \cup {r}]
        /\ slots' = [slots EXCEPT ![c.broker] = @ \cup {[task |-> c.task, id |-> c.id]}]
        /\ atBroker' = [atBroker EXCEPT ![c.broker] = @ \cup {r}]

NotSent(c) ==
    /\ notif' = Notified({Reply(c, "fail")})
    /\ UNCHANGED <<pool, slots, tx, atBroker>>

BugSocketAfter(open, established, sent) == open \/ established   \* mutant: not closed

\* xSocket after prvInitiateMQTTConnect: a new socket is closed again when the
\* CONNECT could not be sent.
SocketAfter(open, established, sent) == (open /\ ~established) \/ sent

\* prvInitiateMQTTConnect.  established: prvSetupConnection got a TCP
\* connection; sent: MQTT_Connect succeeded (otherwise the socket is closed).
InitiateMQTTConnect(c) ==
    LET b == c.broker IN
    /\ Receive(c)
    /\ c.op = "Connect"
    /\ halted' = (SlotIsFree(b) /\ sock[b])
    /\ \E established, sent \in BOOLEAN :
         /\ sent => established /\ SlotIsFree(b) /\ state[b] = "NotConnected"
         /\ established => SlotIsFree(b)
         /\ IF sent
            THEN /\ Sent(c)
                 /\ state' = [state EXCEPT ![b] = "InProgress"]
                 /\ UNCHANGED notif
            ELSE /\ NotSent(c)
                 /\ UNCHANGED state
         /\ sock' = [sock EXCEPT ![b] = SocketAfter(@, established, sent)]
    /\ UNCHANGED <<appVars, envVars, rx, acked>>

\* prvInitiateMQTTDisconnect: answered according to whether the DISCONNECT
\* packet could be sent; on a dead connection there is nothing to send.
InitiateMQTTDisconnect(c) ==
    /\ Receive(c)
    /\ c.op = "Disconnect"
    /\ \E code \in {"pass", "fail"} :
         /\ state[c.broker] = "NotConnected" => code = "pass"
         /\ MQTT_Disconnect(c.broker, {Reply(c, code)})
    /\ UNCHANGED <<appVars, owner, held, halted, acked>>

\* prvInitiateMQTTSubscribe, prvInitiateMQTTUnSubscribe and
\* prvInitiateMQTTPublish with QoS 1.
InitiateMQTTOperation(c) ==
    LET b == c.broker IN
    /\ Receive(c)
    /\ c.op \in AckedOps
    /\ \/ /\ SlotIsFree(b)
          /\ state[b] = "Connected"
          /\ Sent(c)
          /\ UNCHANGED notif
       \/ NotSent(c)
    /\ UNCHANGED <<appVars, envVars, sock, state, rx, halted, acked>>

\* prvInitiateMQTTPublish with QoS 0: its buffer is returned at once.
InitiateMQTTPublish0(c) ==
    /\ Receive(c)
    /\ c.op = "Publish0"
    /\ \E code \in {"pass", "fail"} :
         /\ code = "pass" => state[c.broker] = "Connected" /\ pool < NUM_BUFFERS
         /\ notif' = Notified({Reply(c, code)})
    /\ UNCHANGED <<appVars, envVars, pool, connVars, halted, acked>>

-----------------------------------------------------------------------------
(* prvManageConnections: read the socket of broker b, then MQTT_Periodic.   *)

Managing(stage, b) == Running(stage) /\ mbroker = b

ToPeriodic == mstage' = "periodic" /\ UNCHANGED mbroker

\* Nothing to read, or a packet (PINGRESP) that changes nothing modelled here.
ReceivedNothing(b) ==
    /\ Managing("recv", b)
    /\ ToPeriodic
    /\ UNCHANGED <<appVars, notif, envVars, queue, pool, connVars, halted, acked>>

\* SOCKETS_Recv fails: the client is disconnected.
SocketError(b) ==
    /\ Managing("recv", b)
    /\ sock[b]
    /\ MQTT_Disconnect(b, {})
    /\ ToPeriodic
    /\ UNCHANGED <<appVars, owner, held, queue, halted, acked>>

\* MQTT_ParseReceivedData has the fixed header of a packet and looks for a
\* buffer for the rest of it.  A chunk with the whole packet is this step and
\* the next one with nothing in between.
ReceivedHeader(b) ==
    /\ Managing("recv", b)
    /\ sock[b] /\ rx[b] = "none"
    /\ \/ /\ pool < NUM_BUFFERS
          /\ rx' = [rx EXCEPT ![b] = "buffer"]
          /\ pool' = pool + 1
       \/ /\ rx' = [rx EXCEPT ![b] = "drop"]
          /\ UNCHANGED pool
    /\ ToPeriodic
    /\ UNCHANGED <<appVars, notif, envVars, queue, sock, state, slots, tx,
                   atBroker, halted, acked>>

\* The rest of a packet for which no buffer was free: an ACK is lost for good.
DroppedPacket(b) ==
    /\ Managing("recv", b)
    /\ sock[b] /\ rx[b] = "drop"
    /\ rx' = [rx EXCEPT ![b] = "none"]
    /\ \/ UNCHANGED atBroker
       \/ \E r \in atBroker[b] : atBroker' = [atBroker EXCEPT ![b] = @ \ {r}]
    /\ ToPeriodic
    /\ UNCHANGED <<appVars, notif, envVars, queue, pool, sock, state, slots, tx,
                   halted, acked>>

ReceivedPacket(b) == Managing("recv", b) /\ sock[b] /\ rx[b] = "buffer"

BugReturnBuffers(b, done) ==   \* mutant: the receive buffer is forgotten
    /\ rx' = [rx EXCEPT ![b] = "none"]
    /\ tx' = [tx EXCEPT ![b] = @ \ done]
    /\ pool' = pool - Cardinality(done)

\* The receive buffer and the transmit buffers done go back to the pool.
ReturnBuffers(b, done) ==
    /\ rx' = [rx EXCEPT ![b] = "none"]
    /\ tx' = [tx EXCEPT ![b] = @ \ done]
    /\ pool' = pool - 1 - Cardinality(done)

\* The callers whose request with identifier i the server accepts.
Accepted(i) == IF \E t \in Callers : pc[t] = "wait" /\ call[t].id = i
               THEN acked \cup {i} ELSE acked

\* A CONNACK with return code 0, a SUBACK with a granted QoS, an UNSUBACK or a
\* PUBACK: the waiting task is told; an ACK nobody waits for is ignored.
ReceivedACK(b, ack) ==
    LET done    == MatchingTx(b, ack)
        waiters == UNION {WaitingFor(b, r.id) : r \in done}
    IN  /\ ReceivedPacket(b)
        /\ ack \in atBroker[b]
        /\ atBroker' = [atBroker EXCEPT ![b] = @ \ {ack}]
        /\ acked' = Accepted(ack.id)
        /\ notif' = Notified({Reply(w, "pass") : w \in waiters})
        /\ slots' = [slots EXCEPT ![b] = @ \ waiters]
        /\ state' = IF ack.op = "Connect" /\ done # {}
                    THEN [state EXCEPT ![b] = "Connected"] ELSE state
        /\ ReturnBuffers(b, done)
        /\ ToPeriodic
        /\ UNCHANGED <<appVars, envVars, queue, sock, halted>>

\* A SUBACK with return code 128.
ReceivedSUBACKFailure(b, ack) ==
    LET done    == MatchingTx(b, ack)
        waiters == UNION {WaitingFor(b, r.id) : r \in done}
    IN  /\ ReceivedPacket(b)
        /\ ack \in atBroker[b] /\ ack.op = "Subscribe"
        /\ atBroker' = [atBroker EXCEPT ![b] = @ \ {ack}]
        /\ notif' = Notified({Reply(w, "fail") : w \in waiters})
        /\ slots' = [slots EXCEPT ![b] = @ \ waiters]
        /\ ReturnBuffers(b, done)
        /\ ToPeriodic
        /\ UNCHANGED <<appVars, envVars, queue, sock, state, halted, acked>>

\* A CONNACK that refuses the connection leaves the caller blocked until the
\* disconnect event it leads to; a malformed packet has the same effect.
ReceivedRefusalOrMalformed(b) ==
    /\ ReceivedPacket(b)
    /\ ResetContext(b)
    /\ ProcessDisconnect(b, {})
    /\ ToPeriodic
    /\ UNCHANGED <<appVars, owner, held, queue, halted, acked>>

\* A PUBLISH: the user callback runs in the MQTT task with the receive buffer.
ReceivedPublish(b) ==
    /\ ReceivedPacket(b)
    /\ mstage' = "callback"
    /\ UNCHANGED <<appVars, notif, envVars, queue, pool, mbroker, connVars,
                   halted, acked>>

\* The callback returns; it may keep the buffer.
CallbackReturns(b) ==
    /\ Managing("callback", b)
    /\ result' = [result EXCEPT ![MqttTask] = "None"]
    /\ rx' = [rx EXCEPT ![b] = "none"]
    /\ \/ held' = held + 1 /\ UNCHANGED pool
       \/ pool' = pool - 1 /\ UNCHANGED held
    /\ ToPeriodic
    /\ UNCHANGED <<pc, call, nextId, notif, owner, up, queue, sock, state, slots, tx,
                   atBroker, halted, acked>>

ToNextBroker(b) ==
    IF b < MAX_BROKERS THEN mstage' = "recv" /\ mbroker' = b + 1
                       ELSE mstage' = "receive" /\ mbroker' = 1

\* MQTT_Periodic finds no transmit buffer of b timed out.
PeriodicNothing(b) ==
    /\ Managing("periodic", b)
    /\ ToNextBroker(b)
    /\ UNCHANGED <<appVars, notif, envVars, queue, pool, connVars, halted, acked>>

\* The CONNECT timed out: the context is reset and the event raised.
PeriodicConnectTimeout(b) ==
    /\ Managing("periodic", b)
    /\ \E r \in tx[b] : r.op = "Connect"
    /\ ResetContext(b)
    /\ ProcessDisconnect(b, {})
    /\ ToNextBroker(b)
    /\ UNCHANGED <<appVars, owner, held, queue, halted, acked>>

BugNoConnect(late) == TRUE   \* mutant: so is CONNECT

\* Operations other than CONNECT are timed out one by one; the connection stays.
NoConnect(late) == \A r \in late : r.op # "Connect"

\* The operations late timed out.
PeriodicTimeout(b, late) ==
    LET waiters == UNION {WaitingFor(b, r.id) : r \in late}
    IN  /\ Managing("periodic", b)
        /\ late # {} /\ late \subseteq tx[b]
        /\ NoConnect(late)
        /\ notif' = Notified({Reply(w, "timeout") : w \in waiters})
        /\ slots' = [slots EXCEPT ![b] = @ \ waiters]
        /\ tx' = [tx EXCEPT ![b] = @ \ late]
        /\ pool' = pool - Cardinality(late)
        /\ ToNextBroker(b)
        /\ UNCHANGED <<appVars, envVars, queue, sock, state, rx, atBroker, halted,
                       acked>>

-----------------------------------------------------------------------------
\* The calling side of an API call, from an application task or, if that were
\* allowed, from a callback in the MQTT task.
CallerStep(t) == Enqueue(t) \/ EnqueueTimesOut(t) \/ NotifyWait(t)

App(t) ==
    \/ \E op \in Ops, b \in Brokers : SendCommand(t, op, b)
    \/ Create(t)
    \/ \E b \in Brokers : Delete(t, b)
    \/ ForeignNotification(t)

\* The user callback, in the MQTT task, calls the agent.
CallFromCallback ==
    /\ mstage = "callback"
    /\ \E op \in Ops : SendCommand(MqttTask, op, mbroker)

ExecuteCommand ==
    \E c \in Commands \cup {Service} :
        \/ ReceiveTooLate(c)
        \/ InitiateMQTTConnect(c)
        \/ InitiateMQTTDisconnect(c)
        \/ InitiateMQTTOperation(c)
        \/ InitiateMQTTPublish0(c)

ManageConnection(b) ==
    \/ ReceivedNothing(b)
    \/ SocketError(b)
    \/ ReceivedHeader(b)
    \/ DroppedPacket(b)
    \/ \E ack \in Requests : ReceivedACK(b, ack) \/ ReceivedSUBACKFailure(b, ack)
    \/ ReceivedRefusalOrMalformed(b)
    \/ ReceivedPublish(b)
    \/ CallbackReturns(b)
    \/ PeriodicNothing(b)
    \/ PeriodicConnectTimeout(b)
    \/ \E late \in SUBSET tx[b] : PeriodicTimeout(b, late)

MqttTaskStep ==
    \/ ReceiveTimesOut
    \/ ExecuteCommand
    \/ \E b \in Brokers : ManageConnection(b)

Next ==
    /\ ~halted
    /\ \/ \E t \in Callers : CallerStep(t)
       \/ \E t \in Tasks : App(t)
       \/ ReturnBuffer
       \/ SocketWakeup
       \/ CallFromCallback
       \/ MqttTaskStep

Spec == Init /\ [][Next]_vars

-----------------------------------------------------------------------------
(* Scheduling.  The MQTT task and every caller run when they can (the kernel *)
(* is preemptive and the MQTT task has priority); ticks pass, so that an     *)
(* operation that stays without an answer is at some point found timed out.  *)

TimesOut(t) ==
    \/ \E b \in Brokers : \E late \in SUBSET tx[b] :
          /\ \E r \in late : r.id = call[t].id
          /\ PeriodicTimeout(b, late)
    \/ \E b \in Brokers :
          /\ \E r \in tx[b] : r.id = call[t].id
          /\ PeriodicConnectTimeout(b)

Fairness ==
    /\ WF_vars(MqttTaskStep)
    /\ \A t \in Callers : WF_vars(CallerStep(t))
    /\ \A t \in Tasks : SF_vars(TimesOut(t))

FairSpec == Spec /\ Fairness

-----------------------------------------------------------------------------
\* Every variable has its type.
TypeOK ==
    /\ pc \in [Callers -> {"ready", "enqueue", "wait"}]
    /\ call \in [Callers -> Commands \cup {NoCall}]
    /\ result \in [Callers -> Results]
    /\ notif \in [Callers -> Replies \cup {NoReply}]
    /\ nextId \in Ids
    /\ owner \in [Brokers -> Tasks \cup {NoTask}]
    /\ up \in [Brokers -> BOOLEAN]
    /\ held \in Nat
    /\ queue \in Seq(Commands \cup {Service})
    /\ pool \in Int
    /\ mstage \in {"receive", "recv", "callback", "periodic"}
    /\ mbroker \in Brokers
    /\ sock \in [Brokers -> BOOLEAN]
    /\ state \in [Brokers -> {"NotConnected", "InProgress", "Connected"}]
    /\ slots \in [Brokers -> SUBSET Waiters]
    /\ tx \in [Brokers -> SUBSET Requests]
    /\ rx \in [Brokers -> {"none", "buffer", "drop"}]
    /\ halted \in BOOLEAN
    /\ atBroker \in [Brokers -> SUBSET Requests]
    /\ acked \in SUBSET Ids

Queued == {queue[i] : i \in 1 .. Len(queue)}

InQueue(t)  == call[t] \in Queued
InSlot(t)   == [task |-> t, id |-> call[t].id] \in slots[call[t].broker]
Answered(t) == notif[t].id = call[t].id

\* A blocked caller has one place: its command is in the queue, or it has an
\* entry in xWaitingTasks, or its answer is pending, and never two of these.
HasPlace(t) == InQueue(t) \/ InSlot(t) \/ Answered(t)

HasTwoPlaces(t) ==
    \/ InQueue(t) /\ InSlot(t)
    \/ InQueue(t) /\ Answered(t)
    \/ InSlot(t) /\ Answered(t)

\* A blocked caller is served exactly once, and it loses its place before its
\* call returns only in one way: a notification that the agent did not send is
\* pending when the answer comes, and eSetValueWithoutOverwrite refuses that.
\* prvSendCommandToMQTTTask blocks with portMAX_DELAY, so whoever has lost its
\* place is blocked for ever.
WaitingIsServedOnce ==
    [][\A t \in Callers : pc'[t] = "wait" =>
          /\ ~HasTwoPlaces(t)'
          /\ HasPlace(t)' \/ notif[t] = Foreign \/ (pc[t] = "wait" /\ ~HasPlace(t))]_vars

\* Conversely nothing in the agent refers to a caller that is not blocked on
\* exactly that command: no command of a task that gave up, no stale entry in
\* xWaitingTasks, no answer after the API call has returned.
NothingStale ==
    /\ \A c \in Queued \ {Service} : pc[c.task] = "wait" /\ call[c.task] = c
    /\ \A b \in Brokers : \A w \in slots[b] :
          /\ pc[w.task] = "wait"
          /\ call[w.task].id = w.id /\ call[w.task].broker = b
    /\ \A t \in Callers : notif[t] \notin {NoReply, Foreign} =>
          pc[t] = "wait" /\ Answered(t)

\* The two tables that have to agree: the agent's xWaitingTasks and the
\* library's xTxBufferListHead.  A waiting task without a transmit buffer is
\* never timed out; a buffer without a task is a lost answer.
SlotsMatchTx ==
    \A b \in Brokers :
        /\ {w.id : w \in slots[b]} = {r.id : r \in tx[b]}
        /\ \A w \in slots[b], r \in tx[b] : w.id = r.id => call[w.task].op = r.op
        /\ Cardinality(slots[b]) = Cardinality(tx[b])

\* The agent's socket and the library's connection state agree whenever the
\* MQTT task is between two steps, and a connection that is down holds nothing.
SocketMatchesState ==
    \A b \in Brokers :
        /\ sock[b] <=> state[b] # "NotConnected"
        /\ ~sock[b] => tx[b] = {} /\ rx[b] = "none" /\ slots[b] = {}
        /\ state[b] = "InProgress" <=> \E r \in tx[b] : r.op = "Connect"

BuffersInTx == {x \in Brokers \X Requests : x[2] \in tx[x[1]]}
BuffersInRx == {b \in Brokers : rx[b] = "buffer"}

\* No buffer leaks and none is returned twice: the pool's buffers in use are
\* the transmit buffers, the receive buffers and those callbacks took.
BufferConservation ==
    /\ pool = held + Cardinality(BuffersInTx) + Cardinality(BuffersInRx)
    /\ pool <= NUM_BUFFERS

\* configASSERT( pxConnection->xSocket == SOCKETS_INVALID_SOCKET ) in
\* prvSetupConnection: an owner that connects again after a failed connect or
\* a disconnect never finds the old socket open.
NeverHalted == ~halted

\* A caller learns that its Connect failed only when the socket is closed, also
\* when the broker refused it (the reason prvProcessReceivedCONNACK gives for
\* not answering there).
ConnectFailureMeansClosed ==
    [][\A t \in Callers :
          /\ call[t].op = "Connect" /\ pc[t] = "wait"
          /\ notif[t] = NoReply /\ Answered(t)' /\ notif'[t].code # "pass"
          => ~sock'[call[t].broker]]_vars

\* Every API call returns, whatever the network does.
EveryCallReturns == \A t \in Tasks : pc[t] # "ready" ~> pc[t] = "ready"

-----------------------------------------------------------------------------
(* What the agent promises its callers: MQTTCalls, seen through the call a   *)
(* caller is in and the notification it has pending.                         *)

IsAnswered(t) == pc[t] = "wait" /\ Answered(t)

Calls == INSTANCE MQTTCalls WITH
    Callers  <- Callers,
    Ops      <- Ops,
    NeedsAck <- AckedOps \cup {"Connect"},
    phase    <- [t \in Callers |-> IF pc[t] = "ready" THEN "idle"
                                   ELSE IF IsAnswered(t) THEN "answered" ELSE "called"],
    op       <- [t \in Callers |-> IF pc[t] = "ready" THEN "none" ELSE call[t].op],
    code     <- [t \in Callers |-> IF IsAnswered(t) THEN notif[t].code ELSE "none"],
    accepted <- {t \in Callers : pc[t] # "ready" /\ call[t].id \in acked}

\* The agent implements MQTTCalls: each call is answered at most once, between
\* its start and its return, and reports success only for what the server
\* accepted during this call.
ImplementsCalls == Calls!Spec

=============================================================================
