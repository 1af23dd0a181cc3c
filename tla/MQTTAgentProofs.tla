---------------------------- MODULE MQTTAgentProofs ----------------------------
(* Proofs about MQTTAgent, for any number of tasks, brokers and buffers.    *)
EXTENDS MQTTAgent, TLAPS, SequenceTheorems, FiniteSetTheorems

\* A caller that is in a call is in one that the agent can execute.
CallsAreCommands ==
    \A t \in Callers : pc[t] # "ready" => call[t] \in Commands /\ call[t].task = t

\* The transmit list is finite, so that its buffers can be counted.
TxIsFinite == \A b \in Brokers : IsFiniteSet(tx[b])

TypeInv == TypeOK /\ CallsAreCommands /\ TxIsFinite

AnyReply == [task : Callers \cup {NoTask}, id : Ids \cup {0}, code : Codes]

LEMMA ConstantsAreTyped ==
    /\ 1 \in Brokers /\ 1 \in Ids /\ 0 \notin Ids
    /\ MqttTask \in Callers /\ NoTask \notin Callers
    /\ MAX_BROKERS \in Nat
    /\ NoReply \notin Replies /\ Foreign \in Replies
  BY SizesAssumption, TasksAssumption DEF Brokers, Ids, Callers, NoReply, Replies, Codes,
     Foreign

\* What Notified does to each task.
LEMMA NotifiedTask ==
  ASSUME NEW R, NEW t \in Callers
  PROVE  \/ /\ notif[t] # NoReply \/ \A r \in R : r.task # t
            /\ Notified(R)[t] = notif[t]
         \/ /\ notif[t] = NoReply
            /\ \E r \in R : r.task = t /\ Notified(R)[t] = [id |-> r.id, code |-> r.code]
  <1> DEFINE mine == {r \in R : r.task = t}
             first == CHOOSE r \in mine : TRUE
  <1>1. Notified(R)[t] = IF notif[t] # NoReply \/ mine = {} THEN notif[t]
                         ELSE [id |-> first.id, code |-> first.code]
    BY DEF Notified
  <1>2. CASE notif[t] # NoReply \/ mine = {}
    BY <1>1, <1>2
  <1>3. CASE ~(notif[t] # NoReply \/ mine = {})
    <2>1. first \in mine
      BY <1>3
    <2>2. first \in R /\ first.task = t
      BY <2>1
    <2>3. Notified(R)[t] = [id |-> first.id, code |-> first.code]
      BY <1>1, <1>3
    <2> QED
      BY <1>3, <2>2, <2>3
  <1> QED
    BY <1>2, <1>3

LEMMA NotifiedType ==
  ASSUME notif \in [Callers -> Replies \cup {NoReply}], NEW R \in SUBSET AnyReply
  PROVE  Notified(R) \in [Callers -> Replies \cup {NoReply}]
  <1>1. ASSUME NEW t \in Callers PROVE Notified(R)[t] \in Replies \cup {NoReply}
    <2>1. CASE Notified(R)[t] = notif[t]
      BY <2>1
    <2>2. CASE \E r \in R : Notified(R)[t] = [id |-> r.id, code |-> r.code]
      BY <2>2 DEF AnyReply, Replies
    <2> QED
      BY <2>1, <2>2, NotifiedTask
  <1>2. Notified(R) = [t \in Callers |-> Notified(R)[t]]
    BY DEF Notified
  <1> HIDE DEF NotifiedTask
  <1> QED
    BY <1>1, <1>2


LEMMA BuffersOfType ==
  ASSUME TypeInv, NEW b \in Brokers
  PROVE  BuffersOf(b) \in Nat
  BY FS_CardinalityType DEF TypeInv, TxIsFinite, BuffersOf

\* Application side.
LEMMA TypeOfCaller ==
  ASSUME TypeInv, NEW t \in Callers, CallerStep(t) \/ ForeignNotification(t)
                  \/ (\E op \in Ops, b \in Brokers : SendCommand(t, op, b))
  PROVE  TypeInv'
  <1> USE ConstantsAreTyped DEF TypeInv, TypeOK, CallsAreCommands, TxIsFinite, connVars, envVars, appVars
  <1>1. ASSUME NEW op \in Ops, NEW b \in Brokers, SendCommand(t, op, b) PROVE TypeInv'
    <2>1. CASE FromCallback(t)
      BY <1>1, <2>1 DEF SendCommand, Results
    <2>2. CASE ~FromCallback(t)
      <3> DEFINE c == [op |-> op, broker |-> b, task |-> t, id |-> nextId]
      <3>1. c \in Commands /\ c.task = t
        BY DEF Commands
      <3>2. nextId' \in Ids
        BY <1>1, <2>2, SizesAssumption DEF SendCommand, IdAfter, Ids
      <3>3. call' = [call EXCEPT ![t] = c]
        BY <1>1, <2>2 DEF SendCommand
      <3>4. notif' \in [Callers -> Replies \cup {NoReply}]
        BY <1>1, <2>2 DEF SendCommand, StateClear
      <3> HIDE DEF c
      <3> QED
        BY <1>1, <2>2, <3>1, <3>2, <3>3, <3>4 DEF SendCommand, Results
    <2> QED
      BY <2>1, <2>2
  <1>2. CASE Enqueue(t)
    <2>1. call[t] \in Commands \cup {Service}
      BY <1>2 DEF Enqueue
    <2>2. queue' \in Seq(Commands \cup {Service})
      BY <1>2, <2>1, AppendProperties DEF Enqueue
    <2> QED
      BY <1>2, <2>2 DEF Enqueue
  <1>3. CASE EnqueueTimesOut(t)
    BY <1>3 DEF EnqueueTimesOut, Results
  <1>4. CASE NotifyWait(t)
    <2>1. up' \in [Brokers -> BOOLEAN]
      <3>1. CASE notif[t].id = call[t].id
        <4>1. up' = UpAfter(call[t], notif[t].code)
          BY <1>4, <3>1 DEF NotifyWait
        <4>2. up' = up \/ up' = [up EXCEPT ![call[t].broker] = (call[t].op = "Connect")]
          BY <4>1 DEF UpAfter
        <4> QED
          BY <4>2
      <3>2. CASE notif[t].id # call[t].id
        BY <1>4, <3>2 DEF NotifyWait
      <3> QED
        BY <3>1, <3>2
    <2>2. ResultOf(notif[t].code) \in Results
      <3>1. notif[t].code \in Codes
        BY <1>4 DEF NotifyWait, Replies
      <3> QED
        BY <3>1 DEF ResultOf, Results, Codes
    <2>3. CASE notif[t].id = call[t].id
      <3>1. result' \in [Callers -> Results] /\ acked' \in SUBSET Ids
        BY <1>4, <2>2, <2>3 DEF NotifyWait
      <3>2. /\ pc' = [pc EXCEPT ![t] = "ready"] /\ call' = [call EXCEPT ![t] = NoCall]
            /\ notif' = [notif EXCEPT ![t] = NoReply]
        BY <1>4, <2>3 DEF NotifyWait
      <3>3. UNCHANGED <<nextId, owner, held, queue, pool, mstage, mbroker, connVars, halted>>
        BY <1>4 DEF NotifyWait
      <3>4. CallsAreCommands'
        BY <3>2
      <3> QED
        BY <2>1, <3>1, <3>2, <3>3, <3>4
    <2>4. CASE notif[t].id # call[t].id
      BY <1>4, <2>1, <2>2, <2>4 DEF NotifyWait
    <2> QED
      BY <2>3, <2>4
  <1>5. CASE ForeignNotification(t)
    BY <1>5 DEF ForeignNotification
  <1> QED
    BY <1>1, <1>2, <1>3, <1>4, <1>5 DEF CallerStep

LEMMA TypeOfApp ==
  ASSUME TypeInv, (\E t \in Tasks : Create(t) \/ \E b \in Brokers : Delete(t, b))
                  \/ ReturnBuffer \/ SocketWakeup
  PROVE  TypeInv'
  <1> USE ConstantsAreTyped DEF TypeInv, TypeOK, CallsAreCommands, TxIsFinite, connVars, envVars, appVars
  <1>1. ASSUME NEW t \in Tasks, Create(t) PROVE TypeInv'
    BY <1>1 DEF Create
  <1>2. ASSUME NEW t \in Tasks, NEW b \in Brokers, Delete(t, b) PROVE TypeInv'
    BY <1>2 DEF Delete
  <1>3. CASE ReturnBuffer
    BY <1>3 DEF ReturnBuffer
  <1>4. CASE SocketWakeup
    <2>1. queue' \in Seq(Commands \cup {Service})
      BY <1>4, AppendProperties DEF SocketWakeup
    <2> QED
      BY <1>4, <2>1 DEF SocketWakeup
  <1> QED
    BY <1>1, <1>2, <1>3, <1>4


\* What the handlers of the MQTT task share.
LEMMA ReplyIsTyped ==
  ASSUME NEW w \in Waiters, NEW code \in Codes
  PROVE  Reply(w, code) \in AnyReply
  BY DEF Reply, Waiters, AnyReply

LEMMA CommandReplyIsTyped ==
  ASSUME NEW c \in Commands \cup {Service}, NEW code \in Codes
  PROVE  Reply(c, code) \in AnyReply
  BY DEF Reply, Commands, Service, AnyReply

LEMMA ResetContextType ==
  ASSUME TypeInv, NEW b \in Brokers, ResetContext(b)
  PROVE  /\ state' \in [Brokers -> {"NotConnected", "InProgress", "Connected"}]
         /\ tx' \in [Brokers -> SUBSET Requests] /\ TxIsFinite'
         /\ rx' \in [Brokers -> {"none", "buffer", "drop"}]
         /\ pool' \in Int
  <1> USE DEF TypeInv, TypeOK, ResetContext, TxIsFinite
  <1>1. pool' \in Int
    BY BuffersOfType
  <1>2. IsFiniteSet({})
    BY FS_EmptySet
  <1>3. TxIsFinite'
    BY <1>2
  <1> QED
    BY <1>1, <1>3

LEMMA ProcessDisconnectType ==
  ASSUME TypeInv, NEW b \in Brokers, NEW also \in SUBSET AnyReply,
         ProcessDisconnect(b, also)
  PROVE  /\ up' \in [Brokers -> BOOLEAN] /\ sock' \in [Brokers -> BOOLEAN]
         /\ atBroker' \in [Brokers -> SUBSET Requests]
         /\ notif' \in [Callers -> Replies \cup {NoReply}]
         /\ slots' \in [Brokers -> SUBSET Waiters]
  <1> USE DEF TypeInv, TypeOK
  <1> DEFINE R == {Reply(w, "fail") : w \in slots[b]} \cup also
  <1>1. R \in SUBSET AnyReply
    BY ReplyIsTyped DEF Codes
  <1>2. Notified(R) \in [Callers -> Replies \cup {NoReply}]
    BY <1>1, NotifiedType
  <1>3. notif' = Notified(R)
    BY DEF ProcessDisconnect
  <1> QED
    BY <1>2, <1>3 DEF ProcessDisconnect

LEMMA DisconnectType ==
  ASSUME TypeInv, NEW b \in Brokers, NEW also \in SUBSET AnyReply,
         MQTT_Disconnect(b, also)
  PROVE  /\ up' \in [Brokers -> BOOLEAN] /\ sock' \in [Brokers -> BOOLEAN]
         /\ atBroker' \in [Brokers -> SUBSET Requests]
         /\ notif' \in [Callers -> Replies \cup {NoReply}]
         /\ slots' \in [Brokers -> SUBSET Waiters]
  <1>1. CASE ProcessDisconnect(b, also)
    BY <1>1, ProcessDisconnectType
  <1>2. CASE notif' = Notified(also) /\ UNCHANGED <<up, sock, atBroker, slots>>
    BY <1>2, NotifiedType DEF TypeInv, TypeOK
  <1> QED
    BY <1>1, <1>2 DEF MQTT_Disconnect

LEMMA ReturnBuffersType ==
  ASSUME TypeInv, NEW b \in Brokers, NEW done \in SUBSET tx[b], ReturnBuffers(b, done)
  PROVE  /\ tx' \in [Brokers -> SUBSET Requests] /\ TxIsFinite'
         /\ rx' \in [Brokers -> {"none", "buffer", "drop"}]
         /\ pool' \in Int
  <1> USE DEF TypeInv, TypeOK, ReturnBuffers, TxIsFinite
  <1>1. IsFiniteSet(done) /\ IsFiniteSet(tx[b] \ done)
    BY FS_Subset
  <1>2. Cardinality(done) \in Int
    BY <1>1, FS_CardinalityType
  <1>3. TxIsFinite'
    BY <1>1
  <1>4. tx' \in [Brokers -> SUBSET Requests]
    OBVIOUS
  <1>5. rx' \in [Brokers -> {"none", "buffer", "drop"}] /\ pool' \in Int
    BY <1>2
  <1> QED
    BY <1>3, <1>4, <1>5

LEMMA WaitersNotifiedType ==
  ASSUME TypeInv, NEW b \in Brokers, NEW W \in SUBSET slots[b], NEW code \in Codes
  PROVE  Notified({Reply(w, code) : w \in W}) \in [Callers -> Replies \cup {NoReply}]
  <1> DEFINE R == {Reply(w, code) : w \in W}
  <1>1. R \in SUBSET AnyReply
    BY ReplyIsTyped DEF TypeInv, TypeOK
  <1> QED
    BY <1>1, NotifiedType DEF TypeInv, TypeOK

\* The steps that execute a command.
LEMMA TypeOfCommand ==
  ASSUME TypeInv, NEW c \in Commands \cup {Service},
         \/ ReceiveTooLate(c) \/ InitiateMQTTConnect(c) \/ InitiateMQTTDisconnect(c)
         \/ InitiateMQTTOperation(c) \/ InitiateMQTTPublish0(c)
  PROVE  TypeInv'
  <1> USE ConstantsAreTyped DEF TypeInv, TypeOK, CallsAreCommands, connVars, envVars, appVars
  <1> DEFINE b == c.broker
  <1>1. b \in Brokers
    BY DEF Commands, Service
  <1>2. Receive(c)
    BY DEF ReceiveTooLate, InitiateMQTTConnect, InitiateMQTTDisconnect,
           InitiateMQTTOperation, InitiateMQTTPublish0
  <1>3. /\ queue' \in Seq(Commands \cup {Service}) /\ mstage' = "recv" /\ mbroker' = 1
    BY <1>2, HeadTailProperties DEF Receive, ToManageConnections
  <1>4. ASSUME NEW code \in Codes
        PROVE  Notified({Reply(c, code)}) \in [Callers -> Replies \cup {NoReply}]
    <2>1. {Reply(c, code)} \in SUBSET AnyReply
      BY CommandReplyIsTyped
    <2> QED
      BY <2>1, NotifiedType
  <1>5. ASSUME NotSent(c)
        PROVE  /\ notif' \in [Callers -> Replies \cup {NoReply}]
               /\ UNCHANGED <<pool, slots, tx, atBroker>>
    BY <1>4, <1>5 DEF NotSent, Codes
  <1>6. ASSUME Sent(c), c \in Commands
        PROVE  /\ tx' \in [Brokers -> SUBSET Requests] /\ TxIsFinite'
               /\ slots' \in [Brokers -> SUBSET Waiters]
               /\ atBroker' \in [Brokers -> SUBSET Requests]
               /\ pool' \in Int
    <2> DEFINE r == [op |-> c.op, id |-> c.id]
               w == [task |-> c.task, id |-> c.id]
    <2>1. r \in Requests /\ w \in Waiters
      BY <1>6 DEF Commands, Requests, Waiters
    <2>2. /\ tx' = [tx EXCEPT ![b] = @ \cup {r}]
          /\ slots' = [slots EXCEPT ![b] = @ \cup {w}]
          /\ atBroker' = [atBroker EXCEPT ![b] = @ \cup {r}]
          /\ pool' = pool + 1
      BY <1>6 DEF Sent
    <2> HIDE DEF r, w
    <2>3. \A s : IsFiniteSet(s) => IsFiniteSet(s \cup {r})
      BY FS_AddElement
    <2>4. TxIsFinite'
      BY <1>1, <2>2, <2>3 DEF TxIsFinite
    <2> QED
      BY <1>1, <2>1, <2>2, <2>4
  <1> USE DEF TxIsFinite
  <1>7. CASE ReceiveTooLate(c)
    BY <1>3, <1>4, <1>7 DEF ReceiveTooLate, Codes
  <1>8. CASE InitiateMQTTPublish0(c)
    <2>1. PICK code \in {"pass", "fail"} : notif' = Notified({Reply(c, code)})
      BY <1>8 DEF InitiateMQTTPublish0
    <2>2. notif' \in [Callers -> Replies \cup {NoReply}]
      BY <1>4, <2>1 DEF Codes
    <2> QED
      BY <1>3, <1>8, <2>2 DEF InitiateMQTTPublish0
  <1> HIDE DEF TxIsFinite
  <1>9. CASE InitiateMQTTOperation(c)
    <2>1. c \in Commands
      BY <1>9 DEF InitiateMQTTOperation, Service, AckedOps
    <2>2. CASE NotSent(c)
      BY <1>3, <1>5, <1>9, <2>2 DEF InitiateMQTTOperation, TxIsFinite
    <2>3. CASE Sent(c) /\ UNCHANGED notif
      BY <1>3, <1>6, <1>9, <2>1, <2>3 DEF InitiateMQTTOperation
    <2> QED
      BY <1>9, <2>2, <2>3 DEF InitiateMQTTOperation
  <1>10. CASE InitiateMQTTConnect(c)
    <2>1. c \in Commands
      BY <1>10 DEF InitiateMQTTConnect, Service
    <2>2. PICK established \in BOOLEAN, sent \in BOOLEAN :
            /\ IF sent THEN /\ Sent(c)
                            /\ state' = [state EXCEPT ![b] = "InProgress"]
                            /\ UNCHANGED notif
                       ELSE NotSent(c) /\ UNCHANGED state
            /\ sock' = [sock EXCEPT ![b] = SocketAfter(@, established, sent)]
      BY <1>10 DEF InitiateMQTTConnect
    <2>3. SocketAfter(sock[b], established, sent) \in BOOLEAN
      BY DEF SocketAfter
    <2>4. sock' \in [Brokers -> BOOLEAN]
      BY <1>1, <2>2, <2>3
    <2>5. halted' \in BOOLEAN /\ UNCHANGED <<appVars, envVars, rx, acked>>
      BY <1>10 DEF InitiateMQTTConnect
    <2>6. CASE sent
      <3>1. Sent(c) /\ UNCHANGED notif
        BY <2>2, <2>6
      <3>2. state' \in [Brokers -> {"NotConnected", "InProgress", "Connected"}]
        BY <2>2, <2>6
      <3>3. CallsAreCommands'
        BY <2>5
      <3> QED
        BY <1>3, <1>6, <2>1, <2>4, <2>5, <3>1, <3>2, <3>3
    <2>7. CASE ~sent
      BY <1>1, <1>3, <1>5, <2>1, <2>2, <2>4, <2>5, <2>7 DEF TxIsFinite
    <2> QED
      BY <2>6, <2>7
  <1>11. CASE InitiateMQTTDisconnect(c)
    <2>1. PICK code \in {"pass", "fail"} : MQTT_Disconnect(b, {Reply(c, code)})
      BY <1>11 DEF InitiateMQTTDisconnect
    <2>2. {Reply(c, code)} \in SUBSET AnyReply
      BY CommandReplyIsTyped DEF Codes
    <2>3. ResetContext(b)
      BY <2>1 DEF MQTT_Disconnect
    <2>4. UNCHANGED <<appVars, owner, held, halted, acked>>
      BY <1>11 DEF InitiateMQTTDisconnect
    <2> QED
      BY <1>1, <1>3, <2>1, <2>2, <2>3, <2>4, ResetContextType, DisconnectType
  <1> QED
    BY <1>7, <1>8, <1>9, <1>10, <1>11

\* The steps that manage a connection.
LEMMA TypeOfManage ==
  ASSUME TypeInv, NEW b \in Brokers, ManageConnection(b)
  PROVE  TypeInv'
  <1> USE ConstantsAreTyped DEF TypeInv, TypeOK, CallsAreCommands, connVars, envVars, appVars
  <1>1. ASSUME ToPeriodic PROVE mstage' = "periodic" /\ mbroker' \in Brokers
    BY <1>1 DEF ToPeriodic
  <1>2. ASSUME ToNextBroker(b) PROVE mstage' \in {"recv", "receive"} /\ mbroker' \in Brokers
    BY <1>2 DEF ToNextBroker, Brokers
  <1>3. {} \in SUBSET AnyReply
    OBVIOUS
  <1>4. CASE ReceivedNothing(b)
    BY <1>1, <1>4 DEF ReceivedNothing, TxIsFinite
  <1>5. CASE SocketError(b)
    <2>1. MQTT_Disconnect(b, {}) /\ ResetContext(b)
      BY <1>5 DEF SocketError, MQTT_Disconnect
    <2> QED
      BY <1>1, <1>3, <1>5, <2>1, DisconnectType, ResetContextType DEF SocketError
  <1>6. CASE ReceivedHeader(b)
    BY <1>1, <1>6 DEF ReceivedHeader, TxIsFinite
  <1>7. CASE DroppedPacket(b)
    <2>1. atBroker' \in [Brokers -> SUBSET Requests]
      BY <1>7 DEF DroppedPacket
    <2> QED
      BY <1>1, <1>7, <2>1 DEF DroppedPacket, TxIsFinite
  <1>8. ASSUME NEW ack \in Requests, ReceivedACK(b, ack) \/ ReceivedSUBACKFailure(b, ack)
        PROVE  TypeInv'
    <2> DEFINE done == MatchingTx(b, ack)
               waiters == UNION {WaitingFor(b, r.id) : r \in done}
    <2>1. done \in SUBSET tx[b] /\ waiters \in SUBSET slots[b]
      BY DEF MatchingTx, WaitingFor
    <2>2. atBroker' \in [Brokers -> SUBSET Requests]
      BY <1>8 DEF ReceivedACK, ReceivedSUBACKFailure
    <2>3. slots' \in [Brokers -> SUBSET Waiters]
      <3>1. slots' = [slots EXCEPT ![b] = @ \ waiters]
        BY <1>8 DEF ReceivedACK, ReceivedSUBACKFailure
      <3> QED
        BY <3>1
    <2>4. ReturnBuffers(b, done) /\ ToPeriodic
          /\ UNCHANGED <<appVars, envVars, queue, sock, halted>>
      BY <1>8 DEF ReceivedACK, ReceivedSUBACKFailure
    <2>5. notif' \in [Callers -> Replies \cup {NoReply}]
      <3>1. PICK code \in {"pass", "fail"} :
              notif' = Notified({Reply(w, code) : w \in waiters})
        BY <1>8 DEF ReceivedACK, ReceivedSUBACKFailure
      <3>2. code \in Codes
        BY DEF Codes
      <3> HIDE DEF waiters
      <3> QED
        BY <2>1, <3>1, <3>2, WaitersNotifiedType
    <2>6. acked' \in SUBSET Ids
      BY <1>8 DEF ReceivedACK, ReceivedSUBACKFailure, Accepted, Requests
    <2>7. state' \in [Brokers -> {"NotConnected", "InProgress", "Connected"}]
      BY <1>8 DEF ReceivedACK, ReceivedSUBACKFailure
    <2> HIDE DEF done
    <2>8. /\ tx' \in [Brokers -> SUBSET Requests] /\ TxIsFinite'
          /\ rx' \in [Brokers -> {"none", "buffer", "drop"}]
          /\ pool' \in Int
      BY <2>1, <2>4, ReturnBuffersType
    <2> QED
      BY <1>1, <2>2, <2>3, <2>4, <2>5, <2>6, <2>7, <2>8
  <1>9. CASE ReceivedRefusalOrMalformed(b)
    <2>1. ProcessDisconnect(b, {}) /\ ResetContext(b)
      BY <1>9 DEF ReceivedRefusalOrMalformed
    <2> QED
      BY <1>1, <1>3, <1>9, <2>1, ProcessDisconnectType, ResetContextType
      DEF ReceivedRefusalOrMalformed
  <1>10. CASE ReceivedPublish(b)
    BY <1>10 DEF ReceivedPublish, TxIsFinite
  <1>11. CASE CallbackReturns(b)
    BY <1>1, <1>11 DEF CallbackReturns, TxIsFinite, Results
  <1>12. CASE PeriodicNothing(b)
    BY <1>2, <1>12 DEF PeriodicNothing, TxIsFinite
  <1>13. CASE PeriodicConnectTimeout(b)
    <2>1. ProcessDisconnect(b, {}) /\ ResetContext(b)
      BY <1>13 DEF PeriodicConnectTimeout
    <2> QED
      BY <1>2, <1>3, <1>13, <2>1, ProcessDisconnectType, ResetContextType
      DEF PeriodicConnectTimeout
  <1>14. ASSUME NEW late \in SUBSET tx[b], PeriodicTimeout(b, late) PROVE TypeInv'
    <2> DEFINE waiters == UNION {WaitingFor(b, r.id) : r \in late}
    <2>1. waiters \in SUBSET slots[b]
      BY DEF WaitingFor
    <2>2. /\ notif' = Notified({Reply(w, "timeout") : w \in waiters})
          /\ slots' = [slots EXCEPT ![b] = @ \ waiters]
          /\ tx' = [tx EXCEPT ![b] = @ \ late]
          /\ pool' = pool - Cardinality(late)
          /\ ToNextBroker(b)
          /\ UNCHANGED <<appVars, envVars, queue, sock, state, rx, atBroker, halted, acked>>
      BY <1>14 DEF PeriodicTimeout
    <2> HIDE DEF waiters
    <2>3. notif' \in [Callers -> Replies \cup {NoReply}]
      BY <2>1, <2>2, WaitersNotifiedType DEF Codes
    <2>4. IsFiniteSet(late) /\ IsFiniteSet(tx[b] \ late)
      BY FS_Subset DEF TxIsFinite
    <2>5. Cardinality(late) \in Int
      BY <2>4, FS_CardinalityType
    <2>6. TxIsFinite'
      BY <2>2, <2>4 DEF TxIsFinite
    <2>7. tx' \in [Brokers -> SUBSET Requests] /\ slots' \in [Brokers -> SUBSET Waiters]
      BY <2>2
    <2> QED
      BY <1>2, <2>2, <2>3, <2>5, <2>6, <2>7
  <1> QED
    BY <1>4, <1>5, <1>6, <1>7, <1>8, <1>9, <1>10, <1>11, <1>12, <1>13, <1>14
    DEF ManageConnection

\* Typing holds initially and is kept by every step.
LEMMA TypeInvInit == Init => TypeInv
  <1> SUFFICES ASSUME Init PROVE TypeInv
    OBVIOUS
  <1>1. TxIsFinite
    BY FS_EmptySet DEF Init, TxIsFinite
  <1>2. CallsAreCommands
    BY DEF Init, CallsAreCommands
  <1>3. TypeOK
    <2>1. queue \in Seq(Commands \cup {Service})
      BY DEF Init
    <2>2. notif \in [Callers -> Replies \cup {NoReply}] /\ result \in [Callers -> Results]
      BY DEF Init, Results
    <2>3. pool \in Int /\ held \in Nat /\ nextId \in Ids /\ mbroker \in Brokers
      BY ConstantsAreTyped DEF Init
    <2>4. slots \in [Brokers -> SUBSET Waiters] /\ tx \in [Brokers -> SUBSET Requests]
          /\ atBroker \in [Brokers -> SUBSET Requests] /\ acked \in SUBSET Ids
      BY DEF Init
    <2>5. call \in [Callers -> Commands \cup {NoCall}]
      BY DEF Init
    <2> QED
      BY <2>1, <2>2, <2>3, <2>4, <2>5 DEF Init, TypeOK
  <1> QED
    BY <1>1, <1>2, <1>3 DEF TypeInv

LEMMA TypeInvStep == TypeInv /\ [Next]_vars => TypeInv'
  <1> SUFFICES ASSUME TypeInv, [Next]_vars PROVE TypeInv'
    OBVIOUS
  <1>1. ASSUME NEW t \in Callers, CallerStep(t) PROVE TypeInv'
    BY <1>1, TypeOfCaller
  <1>2. ASSUME NEW t \in Tasks, App(t) PROVE TypeInv'
    <2>1. t \in Callers
      BY DEF Callers
    <2> QED
      BY <1>2, <2>1, TypeOfCaller, TypeOfApp DEF App
  <1>3. CASE ReturnBuffer \/ SocketWakeup
    BY <1>3, TypeOfApp
  <1>4. CASE CallFromCallback
    <2>1. mbroker \in Brokers
      BY DEF TypeInv, TypeOK
    <2> QED
      BY <1>4, <2>1, TypeOfCaller, ConstantsAreTyped DEF CallFromCallback
  <1>5. CASE MqttTaskStep
    <2>1. CASE ReceiveTimesOut
      BY <2>1, ConstantsAreTyped DEF ReceiveTimesOut, ToManageConnections, TypeInv, TypeOK,
         CallsAreCommands, TxIsFinite, connVars, envVars, appVars
    <2> QED
      BY <1>5, <2>1, TypeOfCommand, TypeOfManage DEF MqttTaskStep, ExecuteCommand
  <1>6. CASE UNCHANGED vars
    BY <1>6 DEF vars, TypeInv, TypeOK, CallsAreCommands, TxIsFinite
  <1> QED
    BY <1>1, <1>2, <1>3, <1>4, <1>5, <1>6 DEF Next

\* Every variable of the agent keeps its type, and a caller that is in a call is
\* in a well-formed one.
THEOREM AgentTypeCorrect == Spec => []TypeOK
  <1>1. TypeInv => TypeOK
    BY DEF TypeInv
  <1> QED
    BY <1>1, TypeInvInit, TypeInvStep, PTL DEF Spec

-----------------------------------------------------------------------------
(* A blocked caller is served exactly once.  The invariant says that a call  *)
(* is in one place at most: its command in the queue, its waiter in a slot,  *)
(* or its answer pending.  It is not inductive without its converse          *)
(* (NothingStale), without the queue being free of duplicates, and without   *)
(* what the notification of a task in a call can be.  That the place is not  *)
(* lost is shown of each step along with it.                                 *)

Elements(q) == {q[i] : i \in 1 .. Len(q)}
Distinct(q) == \A i, j \in 1 .. Len(q) : q[i] = q[j] => i = j

\* A notification pending for a task in a call is the call's answer, or it does
\* not come from the agent.
NotificationsAreAnswers ==
    \A t \in Callers :
        /\ pc[t] = "enqueue" => notif[t] \in {NoReply, Foreign}
        /\ pc[t] = "wait" => notif[t] \in {NoReply, Foreign} \/ Answered(t)

OnePlace == \A t \in Callers : pc[t] = "wait" => ~HasTwoPlaces(t)

\* What WaitingIsServedOnce says of the places a step leaves.
PlacesAreKept ==
    \A t \in Callers : pc'[t] = "wait" =>
        HasPlace(t)' \/ notif[t] = Foreign \/ (pc[t] = "wait" /\ ~HasPlace(t))

Core == Distinct(queue) /\ NotificationsAreAnswers /\ NothingStale /\ OnePlace

CoreStep == Core' /\ PlacesAreKept

\* The values that a notification the agent did not send can be told from.
LEMMA ForeignIsNoAnswer ==
  ASSUME TypeInv, NEW t \in Callers, pc[t] # "ready", notif[t] \in {NoReply, Foreign}
  PROVE  ~Answered(t)
  <1>1. call[t].id \in Ids
    BY DEF TypeInv, CallsAreCommands, Commands
  <1> QED
    BY <1>1, ConstantsAreTyped DEF Answered, NoReply, Foreign

ServiceInv == TypeInv /\ Core

LEMMA AppendToQueue ==
  ASSUME NEW S, NEW q \in Seq(S), NEW e \in S
  PROVE  /\ Elements(Append(q, e)) = Elements(q) \cup {e}
         /\ Distinct(q) /\ e \notin Elements(q) => Distinct(Append(q, e))
  <1>1. /\ Len(q) \in Nat /\ Len(Append(q, e)) = Len(q) + 1
        /\ \A i \in 1 .. Len(q) : Append(q, e)[i] = q[i]
        /\ Append(q, e)[Len(q) + 1] = e
    BY AppendProperties, LenProperties
  <1> QED
    BY <1>1 DEF Elements, Distinct

LEMMA TailOfQueue ==
  ASSUME NEW S, NEW q \in Seq(S), q # << >>, Distinct(q)
  PROVE  /\ Elements(Tail(q)) = Elements(q) \ {Head(q)}
         /\ Head(q) \in Elements(q)
         /\ Distinct(Tail(q))
  <1>1. /\ Len(q) \in Nat \ {0} /\ Len(Tail(q)) = Len(q) - 1 /\ Head(q) = q[1]
        /\ \A i \in 1 .. Len(Tail(q)) : Tail(q)[i] = q[i + 1]
    BY HeadTailProperties, EmptySeq
  <1>2. \A j \in 1 .. Len(q) : q[j] = q[1] => j = 1
    BY <1>1 DEF Distinct
  <1>3. ASSUME NEW i \in 1 .. Len(Tail(q))
        PROVE  i + 1 \in 1 .. Len(q) /\ Tail(q)[i] = q[i + 1] /\ q[i + 1] # q[1]
    BY <1>1, <1>2
  <1>4. ASSUME NEW j \in 1 .. Len(q), j # 1
        PROVE  j - 1 \in 1 .. Len(Tail(q)) /\ Tail(q)[j - 1] = q[j]
    BY <1>1, <1>4
  <1>5. Elements(Tail(q)) = Elements(q) \ {Head(q)}
    BY <1>1, <1>3, <1>4 DEF Elements
  <1>6. Distinct(Tail(q))
    BY <1>1, <1>3 DEF Distinct
  <1>7. 1 \in 1 .. Len(q) /\ Head(q) = q[1]
    BY <1>1
  <1>8. Head(q) \in Elements(q)
    BY <1>7 DEF Elements
  <1> QED
    BY <1>5, <1>6, <1>8

LEMMA QueuedIsElements == Queued = Elements(queue)
  BY DEF Queued, Elements

\* Where a waiter or a queued command leads back to.
LEMMA WaiterOf ==
  ASSUME TypeInv, NothingStale, NEW b \in Brokers, NEW w \in slots[b]
  PROVE  /\ w.task \in Callers /\ pc[w.task] = "wait"
         /\ call[w.task].broker = b /\ call[w.task].id = w.id
         /\ w = [task |-> w.task, id |-> call[w.task].id] /\ InSlot(w.task)
  <1>1. w \in Waiters
    BY DEF TypeInv, TypeOK
  <1>2. w = [task |-> w.task, id |-> w.id] /\ w.task \in Callers
    BY <1>1 DEF Waiters
  <1>3. /\ pc[w.task] = "wait"
        /\ call[w.task].id = w.id /\ call[w.task].broker = b
    BY DEF NothingStale
  <1>4. w = [task |-> w.task, id |-> call[w.task].id]
    BY <1>2, <1>3
  <1>5. InSlot(w.task)
    BY <1>3, <1>4 DEF InSlot
  <1> QED
    BY <1>2, <1>3, <1>4, <1>5

\* A step that answers: it only takes commands out of the queue and waiters out
\* of the slots, every task it takes out gets a reply, and every task that gets
\* a reply was waiting without one and is not left behind anywhere.
LEMMA AnswerKeepsCore ==
  ASSUME TypeInv, Core, UNCHANGED <<pc, call>>, NEW R, notif' = Notified(R),
         Distinct(queue'), Queued' \subseteq Queued,
         slots' \in [Brokers -> SUBSET Waiters],
         \A b \in Brokers : slots'[b] \subseteq slots[b],
         \A c \in Queued \ Queued' : c = Service \/ \E r \in R : r.task = c.task,
         \A b \in Brokers : \A w \in slots[b] \ slots'[b] : \E r \in R : r.task = w.task,
         \A r \in R : r.task \in Callers =>
             /\ pc[r.task] = "wait" /\ r.id = call[r.task].id /\ ~Answered(r.task)
             /\ ~InQueue(r.task)' /\ ~InSlot(r.task)'
  PROVE  CoreStep
  <1> DEFINE Told(t) == \E r \in R : r.task = t
  <1>1. ASSUME NEW t \in Callers, Told(t)
        PROVE  /\ pc[t] = "wait" /\ ~InQueue(t)' /\ ~InSlot(t)'
               /\ Answered(t)' \/ (notif[t] = Foreign /\ notif'[t] = Foreign)
    <2>1. PICK r \in R : r.task = t
      BY <1>1
    <2>2. pc[t] = "wait" /\ ~Answered(t) /\ ~InQueue(t)' /\ ~InSlot(t)'
      BY <2>1
    <2>3. notif[t] \in {NoReply, Foreign}
      BY <2>2 DEF Core, NotificationsAreAnswers
    <2>4. CASE notif[t] = NoReply
      <3>1. \E s \in R : s.task = t /\ Notified(R)[t] = [id |-> s.id, code |-> s.code]
        BY <2>1, <2>4, NotifiedTask
      <3>2. PICK s \in R : s.task = t /\ notif'[t] = [id |-> s.id, code |-> s.code]
        BY <3>1
      <3>3. s.id = call[t].id
        BY <3>2
      <3>4. Answered(t)'
        BY <3>2, <3>3 DEF Answered
      <3> QED
        BY <2>2, <3>4
    <2>5. CASE notif[t] = Foreign
      <3>1. notif[t] # NoReply
        BY <2>5, ConstantsAreTyped
      <3>2. notif'[t] = notif[t]
        BY <3>1, NotifiedTask
      <3> QED
        BY <2>2, <2>5, <3>2
    <2> QED
      BY <2>3, <2>4, <2>5
  <1>2. ASSUME NEW t \in Callers, ~Told(t)
        PROVE  /\ notif'[t] = notif[t]
               /\ pc[t] = "wait" => (InQueue(t)' <=> InQueue(t)) /\ (InSlot(t)' <=> InSlot(t))
    <2>1. notif'[t] = notif[t]
      BY <1>2, NotifiedTask
    <2>2. ASSUME pc[t] = "wait" PROVE InQueue(t)' <=> InQueue(t)
      <3>1. call[t] \in Commands /\ call[t].task = t
        BY <2>2 DEF TypeInv, CallsAreCommands
      <3>2. call[t] # Service
        BY <3>1, ConstantsAreTyped DEF Service, Commands
      <3> QED
        BY <1>2, <3>1, <3>2 DEF InQueue
    <2>3. ASSUME pc[t] = "wait" PROVE InSlot(t)' <=> InSlot(t)
      <3>1. call[t].broker \in Brokers
        BY <2>3 DEF TypeInv, CallsAreCommands, Commands
      <3> DEFINE w == [task |-> t, id |-> call[t].id]
      <3>2. w \in slots[call[t].broker] => w \in slots'[call[t].broker]
        BY <1>2, <3>1
      <3> QED
        BY <3>1, <3>2 DEF InSlot
    <2> QED
      BY <2>1, <2>2, <2>3
  <1> HIDE DEF Told
  <1>3. NotificationsAreAnswers'
    BY <1>1, <1>2 DEF Core, NotificationsAreAnswers, Answered
  <1>4. OnePlace' /\ PlacesAreKept
    <2> SUFFICES ASSUME NEW t \in Callers, pc[t] = "wait"
                 PROVE  /\ ~HasTwoPlaces(t)'
                        /\ HasPlace(t)' \/ notif[t] = Foreign \/ ~HasPlace(t)
      BY DEF OnePlace, PlacesAreKept
    <2>1. CASE Told(t)
      BY <1>1, <2>1 DEF HasPlace, HasTwoPlaces
    <2>2. CASE ~Told(t)
      <3>1. Answered(t)' <=> Answered(t)
        BY <1>2, <2>2 DEF Answered
      <3> QED
        BY <1>2, <2>2, <3>1 DEF Core, OnePlace, HasPlace, HasTwoPlaces
    <2> QED
      BY <2>1, <2>2
  <1>5. NothingStale'
    <2>1. ASSUME NEW c \in Queued' \ {Service}
          PROVE  pc'[c.task] = "wait" /\ call'[c.task] = c
      BY <2>1 DEF Core, NothingStale
    <2>2. ASSUME NEW b \in Brokers, NEW w \in slots'[b]
          PROVE  /\ pc'[w.task] = "wait"
                 /\ call'[w.task].id = w.id /\ call'[w.task].broker = b
      BY <2>2 DEF Core, NothingStale
    <2>3. ASSUME NEW t \in Callers, notif'[t] \notin {NoReply, Foreign}
          PROVE  pc'[t] = "wait" /\ Answered(t)'
      BY <1>1, <1>2, <2>3 DEF Core, NothingStale, Answered
    <2> QED
      BY <2>1, <2>2, <2>3 DEF NothingStale, Service
  <1> QED
    BY <1>3, <1>4, <1>5 DEF Core, CoreStep

\* A step that leaves alone what the invariant is about.
LEMMA CoreFrame ==
  ASSUME Core, UNCHANGED <<pc, call, notif, queue, slots>>
  PROVE  CoreStep
  BY DEF CoreStep, Core, Distinct, NotificationsAreAnswers, NothingStale, OnePlace,
     PlacesAreKept, HasPlace, HasTwoPlaces, Queued, InQueue, InSlot, Answered

\* Waiters W of connection b are answered.
LEMMA AnswerWaiters ==
  ASSUME TypeInv, Core, NEW b \in Brokers, NEW W \in SUBSET slots[b], NEW code \in Codes,
         UNCHANGED <<pc, call, queue>>,
         notif' = Notified({Reply(w, code) : w \in W}),
         slots' = [slots EXCEPT ![b] = @ \ W]
  PROVE  CoreStep
  <1> DEFINE R == {Reply(w, code) : w \in W}
  <1>1. Queued' = Queued /\ Distinct(queue')
    BY DEF Queued, Core
  <1>2. slots' \in [Brokers -> SUBSET Waiters]
    BY DEF TypeInv, TypeOK
  <1>3. slots'[b] = slots[b] \ W /\ \A d \in Brokers \ {b} : slots'[d] = slots[d]
    BY DEF TypeInv, TypeOK
  <1>4. \A w \in W : Reply(w, code) \in R /\ Reply(w, code).task = w.task
    BY DEF Reply
  <1>5. ASSUME NEW d \in Brokers, NEW w \in slots[d] \ slots'[d]
        PROVE  \E r \in R : r.task = w.task
    <2>1. w \in W
      BY <1>3, <1>5
    <2> QED
      BY <1>4, <2>1
  <1>6. ASSUME NEW r \in R
        PROVE  /\ pc[r.task] = "wait" /\ r.id = call[r.task].id /\ ~Answered(r.task)
               /\ ~InQueue(r.task)' /\ ~InSlot(r.task)'
    <2>1. PICK w \in W : r = Reply(w, code)
      OBVIOUS
    <2>2. r.task = w.task /\ r.id = w.id
      BY <2>1 DEF Reply
    <2>3. /\ w.task \in Callers /\ pc[w.task] = "wait"
          /\ call[w.task].broker = b /\ call[w.task].id = w.id
          /\ w = [task |-> w.task, id |-> call[w.task].id] /\ InSlot(w.task)
      BY WaiterOf DEF Core
    <2>4. ~InQueue(w.task) /\ ~Answered(w.task)
      BY <2>3 DEF Core, OnePlace, HasTwoPlaces
    <2>6. ~InQueue(w.task)'
      BY <1>1, <2>4 DEF InQueue
    <2>7. w \notin slots'[b]
      BY <1>3
    <2>8. ~InSlot(w.task)'
      BY <2>3, <2>7 DEF InSlot
    <2> QED
      BY <2>2, <2>3, <2>4, <2>6, <2>8 DEF Answered
  <1> HIDE DEF R
  <1>7. \A d \in Brokers : slots'[d] \subseteq slots[d]
    BY <1>3
  <1>8. notif' = Notified(R)
    BY DEF R
  <1> QED
    BY <1>1, <1>2, <1>5, <1>6, <1>7, <1>8, AnswerKeepsCore

\* A command that is taken out of the queue.
LEMMA CommandOf ==
  ASSUME TypeInv, Core, NEW c \in Commands, Receive(c)
  PROVE  /\ c.task \in Callers /\ pc[c.task] = "wait" /\ call[c.task] = c
         /\ ~Answered(c.task) /\ ~InSlot(c.task)
  <1>1. c \in Queued
    <2>1. queue \in Seq(Commands \cup {Service}) /\ queue # << >> /\ c = Head(queue)
      BY DEF TypeInv, TypeOK, Receive
    <2> QED
      BY <2>1, TailOfQueue, QueuedIsElements DEF Core
  <1>2. c # Service /\ c.task \in Callers
    BY ConstantsAreTyped DEF Commands, Service
  <1>3. pc[c.task] = "wait" /\ call[c.task] = c
    BY <1>1, <1>2 DEF Core, NothingStale
  <1>4. InQueue(c.task)
    BY <1>1, <1>3 DEF InQueue
  <1>5. ~InSlot(c.task) /\ ~Answered(c.task)
    BY <1>2, <1>3, <1>4 DEF Core, OnePlace, HasTwoPlaces
  <1> QED
    BY <1>2, <1>3, <1>5

LEMMA QueueAfterReceive ==
  ASSUME TypeInv, Core, NEW c \in Commands \cup {Service}, Receive(c)
  PROVE  Queued' = Queued \ {c} /\ c \in Queued /\ Distinct(queue')
  <1>1. /\ queue \in Seq(Commands \cup {Service}) /\ queue # << >> /\ c = Head(queue)
        /\ queue' = Tail(queue)
    BY DEF TypeInv, TypeOK, Receive
  <1>2. Queued' = Elements(queue')
    BY DEF Queued, Elements
  <1> QED
    BY <1>1, <1>2, TailOfQueue, QueuedIsElements DEF Core

\* The command c and, if it ends the connection b, all of W are answered.
LEMMA AnswerCommand ==
  ASSUME TypeInv, Core, NEW c \in Commands \cup {Service}, NEW code \in Codes, Receive(c),
         NEW b \in Brokers, NEW W \in SUBSET slots[b],
         UNCHANGED <<pc, call>>,
         notif' = Notified({Reply(w, "fail") : w \in W} \cup {Reply(c, code)}),
         slots' = [slots EXCEPT ![b] = @ \ W]
  PROVE  CoreStep
  <1> DEFINE R == {Reply(w, "fail") : w \in W} \cup {Reply(c, code)}
  <1>1. Queued' = Queued \ {c} /\ Distinct(queue')
    BY QueueAfterReceive
  <1>2. slots' \in [Brokers -> SUBSET Waiters]
    BY DEF TypeInv, TypeOK
  <1>3. slots'[b] = slots[b] \ W /\ \A d \in Brokers \ {b} : slots'[d] = slots[d]
    BY DEF TypeInv, TypeOK
  <1>4. /\ \A w \in W : Reply(w, "fail") \in R /\ Reply(w, "fail").task = w.task
        /\ Reply(c, code) \in R /\ Reply(c, code).task = c.task
    BY DEF Reply
  <1>5. ASSUME NEW d \in Brokers, NEW w \in slots[d] \ slots'[d]
        PROVE  \E r \in R : r.task = w.task
    <2>1. w \in W
      BY <1>3, <1>5
    <2> QED
      BY <1>4, <2>1
  <1>6. \A d \in Queued \ Queued' : \E r \in R : r.task = d.task
    BY <1>1, <1>4
  <1>7. \A d \in Brokers : slots'[d] \subseteq slots[d]
    BY <1>3
  <1>8. ASSUME NEW r \in R, r.task \in Callers
        PROVE  /\ pc[r.task] = "wait" /\ r.id = call[r.task].id /\ ~Answered(r.task)
               /\ ~InQueue(r.task)' /\ ~InSlot(r.task)'
    <2>1. CASE r = Reply(c, code)
      <3>1. r.task = c.task /\ r.id = c.id
        BY <2>1 DEF Reply
      <3>2. c \in Commands
        BY <1>8, <3>1, ConstantsAreTyped DEF Service
      <3>3. /\ pc[c.task] = "wait" /\ call[c.task] = c
            /\ ~Answered(c.task) /\ ~InSlot(c.task)
        BY <3>2, CommandOf
      <3>4. ~InQueue(c.task)'
        BY <1>1, <3>3 DEF InQueue
      <3>5. ~InSlot(c.task)'
        <4>1. c.broker \in Brokers
          BY <3>2 DEF Commands
        <4> QED
          BY <1>7, <3>3, <4>1 DEF InSlot
      <3> QED
        BY <3>1, <3>3, <3>4, <3>5
    <2>2. ASSUME NEW w \in W, r = Reply(w, "fail")
          PROVE  /\ pc[r.task] = "wait" /\ r.id = call[r.task].id /\ ~Answered(r.task)
                 /\ ~InQueue(r.task)' /\ ~InSlot(r.task)'
      <3>1. r.task = w.task /\ r.id = w.id
        BY <2>2 DEF Reply
      <3>2. /\ w.task \in Callers /\ pc[w.task] = "wait"
            /\ call[w.task].broker = b /\ call[w.task].id = w.id
            /\ w = [task |-> w.task, id |-> call[w.task].id] /\ InSlot(w.task)
        BY WaiterOf DEF Core
      <3>3. ~InQueue(w.task) /\ ~Answered(w.task)
        BY <3>2 DEF Core, OnePlace, HasTwoPlaces
      <3>5. ~InQueue(w.task)'
        BY <1>1, <3>3 DEF InQueue
      <3>6. w \notin slots'[b]
        BY <1>3
      <3>7. ~InSlot(w.task)'
        BY <3>2, <3>6 DEF InSlot
      <3> QED
        BY <3>1, <3>2, <3>3, <3>5, <3>7
    <2> QED
      BY <2>1, <2>2
  <1> HIDE DEF R
  <1>9. notif' = Notified(R)
    BY DEF R
  <1>10. Queued' \subseteq Queued
    BY <1>1
  <1> QED
    BY <1>1, <1>2, <1>5, <1>6, <1>7, <1>8, <1>9, <1>10, AnswerKeepsCore

\* A command moves from the queue to a slot.
LEMMA SentKeepsCore ==
  ASSUME TypeInv, Core, NEW c \in Commands, Receive(c), UNCHANGED <<pc, call, notif>>,
         slots' = [slots EXCEPT ![c.broker] = @ \cup {[task |-> c.task, id |-> c.id]}]
  PROVE  CoreStep
  <1> DEFINE w == [task |-> c.task, id |-> c.id]
  <1>1. Queued' = Queued \ {c} /\ Distinct(queue')
    BY QueueAfterReceive
  <1>2. /\ c.task \in Callers /\ pc[c.task] = "wait" /\ call[c.task] = c
        /\ ~Answered(c.task) /\ ~InSlot(c.task)
    BY CommandOf
  <1>3. c.broker \in Brokers /\ slots \in [Brokers -> SUBSET Waiters]
    BY DEF TypeInv, TypeOK, Commands
  <1>4. /\ slots'[c.broker] = slots[c.broker] \cup {w}
        /\ \A d \in Brokers \ {c.broker} : slots'[d] = slots[d]
    BY <1>3
  <1>5. ~InQueue(c.task)' /\ InSlot(c.task)' /\ ~Answered(c.task)'
    <2>1. ~InQueue(c.task)'
      BY <1>1, <1>2 DEF InQueue
    <2>2. InSlot(c.task)'
      BY <1>2, <1>4 DEF InSlot
    <2> QED
      BY <1>2, <2>1, <2>2 DEF Answered
  <1>6. ASSUME NEW t \in Callers, t # c.task, pc[t] = "wait"
        PROVE  /\ InQueue(t)' <=> InQueue(t)
               /\ InSlot(t)' <=> InSlot(t)
               /\ Answered(t)' <=> Answered(t)
    <2>1. call[t] \in Commands /\ call[t].task = t
      BY <1>6 DEF TypeInv, CallsAreCommands
    <2>2. call[t] # c
      BY <1>6, <2>1
    <2>3. InQueue(t)' <=> InQueue(t)
      BY <1>1, <2>2 DEF InQueue
    <2>4. [task |-> t, id |-> call[t].id] # w
      BY <1>6
    <2>5. call[t].broker \in Brokers
      BY <2>1 DEF Commands
    <2>6. InSlot(t)' <=> InSlot(t)
      BY <1>4, <2>4, <2>5 DEF InSlot
    <2> QED
      BY <2>3, <2>6 DEF Answered
  <1>7. OnePlace' /\ PlacesAreKept
    <2> SUFFICES ASSUME NEW t \in Callers, pc[t] = "wait"
                 PROVE  ~HasTwoPlaces(t)' /\ (HasPlace(t)' \/ ~HasPlace(t))
      BY DEF OnePlace, PlacesAreKept
    <2>1. CASE t = c.task
      BY <1>5, <2>1 DEF HasPlace, HasTwoPlaces
    <2>2. CASE t # c.task
      BY <1>6, <2>2 DEF Core, OnePlace, HasPlace, HasTwoPlaces
    <2> QED
      BY <2>1, <2>2
  <1>8. NothingStale'
    <2>1. ASSUME NEW d \in Queued' \ {Service}
          PROVE  pc'[d.task] = "wait" /\ call'[d.task] = d
      BY <1>1, <2>1 DEF Core, NothingStale
    <2>2. ASSUME NEW b \in Brokers, NEW v \in slots'[b]
          PROVE  /\ pc'[v.task] = "wait"
                 /\ call'[v.task].id = v.id /\ call'[v.task].broker = b
      <3>1. CASE v \in slots[b]
        BY <3>1 DEF Core, NothingStale
      <3>2. CASE b = c.broker /\ v = w
        BY <1>2, <3>2
      <3> QED
        BY <1>4, <3>1, <3>2
    <2>3. ASSUME NEW t \in Callers, notif'[t] \notin {NoReply, Foreign}
          PROVE  pc'[t] = "wait" /\ Answered(t)'
      BY <2>3 DEF Core, NothingStale, Answered
    <2> QED
      BY <2>1, <2>2, <2>3 DEF NothingStale, Service
  <1>9. NotificationsAreAnswers'
    BY DEF Core, NotificationsAreAnswers, Answered
  <1> QED
    BY <1>1, <1>7, <1>8, <1>9 DEF Core, CoreStep

\* The steps that execute a command.
LEMMA CoreOfCommand ==
  ASSUME TypeInv, Core, NEW c \in Commands \cup {Service},
         \/ ReceiveTooLate(c) \/ InitiateMQTTConnect(c) \/ InitiateMQTTDisconnect(c)
         \/ InitiateMQTTOperation(c) \/ InitiateMQTTPublish0(c)
  PROVE  CoreStep
  <1>1. /\ Receive(c) /\ UNCHANGED <<pc, call>>
    BY DEF ReceiveTooLate, InitiateMQTTConnect, InitiateMQTTDisconnect,
           InitiateMQTTOperation, InitiateMQTTPublish0, appVars
  <1>2. c.broker \in Brokers
    BY ConstantsAreTyped DEF Commands, Service
  <1>3. ASSUME NEW code \in Codes, notif' = Notified({Reply(c, code)}), UNCHANGED slots
        PROVE  CoreStep
    <2> DEFINE W == {}
    <2>1. {Reply(c, code)} = {Reply(w, "fail") : w \in W} \cup {Reply(c, code)}
      OBVIOUS
    <2>2. slots' = [slots EXCEPT ![c.broker] = @ \ W]
      BY <1>2, <1>3 DEF TypeInv, TypeOK
    <2>3. W \in SUBSET slots[c.broker]
      OBVIOUS
    <2>4. notif' = Notified({Reply(w, "fail") : w \in W} \cup {Reply(c, code)})
      BY <1>3, <2>1
    <2> HIDE DEF W
    <2> QED
      BY <1>1, <1>2, <2>2, <2>3, <2>4, AnswerCommand
  <1>4. CASE NotSent(c)
    BY <1>3, <1>4 DEF NotSent, Codes
  <1>5. ASSUME Sent(c), c \in Commands, UNCHANGED notif PROVE CoreStep
    <2>1. slots' = [slots EXCEPT ![c.broker] = @ \cup {[task |-> c.task, id |-> c.id]}]
      BY <1>5 DEF Sent
    <2> QED
      BY <1>1, <1>5, <2>1, SentKeepsCore
  <1>6. CASE ReceiveTooLate(c)
    BY <1>3, <1>6 DEF ReceiveTooLate, Codes, connVars
  <1>7. CASE InitiateMQTTPublish0(c)
    <2>1. PICK code \in {"pass", "fail"} : notif' = Notified({Reply(c, code)})
      BY <1>7 DEF InitiateMQTTPublish0
    <2> QED
      BY <1>3, <1>7, <2>1 DEF InitiateMQTTPublish0, Codes, connVars
  <1>8. CASE InitiateMQTTOperation(c)
    <2>1. c \in Commands
      BY <1>8 DEF InitiateMQTTOperation, Service, AckedOps
    <2> QED
      BY <1>4, <1>5, <1>8, <2>1 DEF InitiateMQTTOperation
  <1>9. CASE InitiateMQTTConnect(c)
    <2>1. c \in Commands
      BY <1>9 DEF InitiateMQTTConnect, Service
    <2> QED
      BY <1>4, <1>5, <1>9, <2>1 DEF InitiateMQTTConnect
  <1>10. CASE InitiateMQTTDisconnect(c)
    <2>1. PICK code \in {"pass", "fail"} : MQTT_Disconnect(c.broker, {Reply(c, code)})
      BY <1>10 DEF InitiateMQTTDisconnect
    <2>2. code \in Codes
      BY DEF Codes
    <2>3. CASE ProcessDisconnect(c.broker, {Reply(c, code)})
      <3>1. /\ slots' = [slots EXCEPT ![c.broker] = @ \ slots[c.broker]]
            /\ notif' = Notified({Reply(w, "fail") : w \in slots[c.broker]}
                                 \cup {Reply(c, code)})
        BY <1>2, <2>3 DEF ProcessDisconnect, TypeInv, TypeOK
      <3> QED
        BY <1>1, <1>2, <2>2, <3>1, AnswerCommand
    <2>4. CASE notif' = Notified({Reply(c, code)}) /\ UNCHANGED slots
      BY <1>3, <2>2, <2>4
    <2> QED
      BY <2>1, <2>3, <2>4 DEF MQTT_Disconnect
  <1> QED
    BY <1>6, <1>7, <1>8, <1>9, <1>10

\* The steps that manage a connection.
LEMMA CoreOfManage ==
  ASSUME TypeInv, Core, NEW b \in Brokers, ManageConnection(b)
  PROVE  CoreStep
  <1> USE DEF connVars, envVars, appVars
  <1>1. ASSUME ProcessDisconnect(b, {}), UNCHANGED <<pc, call, queue>> PROVE CoreStep
    <2> DEFINE W == slots[b]
    <2>1. /\ slots' = [slots EXCEPT ![b] = @ \ W]
          /\ notif' = Notified({Reply(w, "fail") : w \in W})
      <3>1. {Reply(w, "fail") : w \in W} \cup {} = {Reply(w, "fail") : w \in W}
        OBVIOUS
      <3> QED
        BY <1>1, <3>1 DEF ProcessDisconnect, TypeInv, TypeOK
    <2>2. W \in SUBSET slots[b] /\ "fail" \in Codes
      BY DEF Codes
    <2> HIDE DEF W
    <2> QED
      BY <1>1, <2>1, <2>2, AnswerWaiters
  <1>2. CASE ReceivedNothing(b) \/ ReceivedPublish(b) \/ PeriodicNothing(b)
    BY <1>2, CoreFrame DEF ReceivedNothing, ReceivedPublish, PeriodicNothing
  <1>3. CASE ReceivedHeader(b) \/ DroppedPacket(b) \/ CallbackReturns(b)
    BY <1>3, CoreFrame DEF ReceivedHeader, DroppedPacket, CallbackReturns
  <1>4. CASE SocketError(b)
    <2>1. MQTT_Disconnect(b, {}) /\ UNCHANGED <<pc, call, queue>>
      BY <1>4 DEF SocketError
    <2>2. CASE ProcessDisconnect(b, {})
      BY <1>1, <2>1, <2>2
    <2>3. CASE notif' = Notified({}) /\ UNCHANGED slots
      <3>1. Notified({}) = [t \in Callers |-> notif[t]]
        BY DEF Notified
      <3>2. notif' = notif
        BY <2>3, <3>1 DEF TypeInv, TypeOK
      <3> QED
        BY <2>1, <2>3, <3>2, CoreFrame
    <2> QED
      BY <2>1, <2>2, <2>3 DEF MQTT_Disconnect
  <1>5. ASSUME NEW ack \in Requests, ReceivedACK(b, ack) \/ ReceivedSUBACKFailure(b, ack)
        PROVE  CoreStep
    <2> DEFINE waiters == UNION {WaitingFor(b, r.id) : r \in MatchingTx(b, ack)}
    <2>1. waiters \in SUBSET slots[b]
      BY DEF WaitingFor
    <2>2. /\ slots' = [slots EXCEPT ![b] = @ \ waiters]
          /\ UNCHANGED <<pc, call, queue>>
      BY <1>5 DEF ReceivedACK, ReceivedSUBACKFailure
    <2>3. PICK code \in {"pass", "fail"} :
            notif' = Notified({Reply(w, code) : w \in waiters})
      BY <1>5 DEF ReceivedACK, ReceivedSUBACKFailure
    <2>4. code \in Codes
      BY DEF Codes
    <2> HIDE DEF waiters
    <2> QED
      BY <2>1, <2>2, <2>3, <2>4, AnswerWaiters
  <1>6. CASE ReceivedRefusalOrMalformed(b) \/ PeriodicConnectTimeout(b)
    BY <1>1, <1>6 DEF ReceivedRefusalOrMalformed, PeriodicConnectTimeout
  <1>7. ASSUME NEW late \in SUBSET tx[b], PeriodicTimeout(b, late) PROVE CoreStep
    <2> DEFINE waiters == UNION {WaitingFor(b, r.id) : r \in late}
    <2>1. waiters \in SUBSET slots[b] /\ "timeout" \in Codes
      BY DEF WaitingFor, Codes
    <2>2. /\ slots' = [slots EXCEPT ![b] = @ \ waiters]
          /\ notif' = Notified({Reply(w, "timeout") : w \in waiters})
          /\ UNCHANGED <<pc, call, queue>>
      BY <1>7 DEF PeriodicTimeout
    <2> HIDE DEF waiters
    <2> QED
      BY <2>1, <2>2, AnswerWaiters
  <1> QED
    BY <1>2, <1>3, <1>4, <1>5, <1>6, <1>7 DEF ManageConnection

\* The steps of a caller, and what else happens to its notification.
LEMMA CoreOfCaller ==
  ASSUME TypeInv, Core, NEW t \in Callers,
         CallerStep(t) \/ ForeignNotification(t)
         \/ (\E op \in Ops, b \in Brokers : SendCommand(t, op, b))
  PROVE  CoreStep
  <1> USE DEF connVars, envVars, appVars
  <1>1. ASSUME NEW op \in Ops, NEW b \in Brokers, SendCommand(t, op, b) PROVE CoreStep
    <2>1. CASE FromCallback(t)
      BY <1>1, <2>1, CoreFrame DEF SendCommand
    <2>2. CASE ~FromCallback(t)
      <3>1. /\ pc[t] = "ready" /\ pc' = [pc EXCEPT ![t] = "enqueue"]
            /\ notif' = [notif EXCEPT ![t] = NoReply]
            /\ UNCHANGED <<queue, slots>>
            /\ \A u \in Callers \ {t} : call'[u] = call[u]
        BY <1>1, <2>2 DEF SendCommand, StateClear, TypeInv, TypeOK
      <3>2. \A u \in Callers \ {t} : pc'[u] = pc[u] /\ notif'[u] = notif[u]
        BY <3>1 DEF TypeInv, TypeOK
      <3>3. pc'[t] = "enqueue" /\ notif'[t] = NoReply
        BY <3>1 DEF TypeInv, TypeOK
      <3>4. NotificationsAreAnswers'
        BY <3>1, <3>2, <3>3 DEF Core, NotificationsAreAnswers, Answered
      <3>5. OnePlace' /\ PlacesAreKept
        BY <3>1, <3>2, <3>3
        DEF Core, OnePlace, PlacesAreKept, HasPlace, HasTwoPlaces, InQueue, InSlot, Answered,
            Queued
      <3>6. NothingStale'
        <4>1. ASSUME NEW c \in Queued \ {Service}
              PROVE  c.task \in Callers /\ c.task # t
          <5>1. c \in Commands
            BY ElementOfSeq DEF TypeInv, TypeOK, Queued
          <5> QED
            BY <3>1, <5>1 DEF Core, NothingStale, Commands
        <4>2. ASSUME NEW d \in Brokers, NEW w \in slots[d]
              PROVE  w.task \in Callers /\ w.task # t
          BY <3>1, WaiterOf DEF Core
        <4>3. \A c \in Queued' \ {Service} : pc'[c.task] = "wait" /\ call'[c.task] = c
          BY <3>1, <3>2, <4>1 DEF Core, NothingStale, Queued
        <4>4. \A d \in Brokers : \A w \in slots'[d] :
                 pc'[w.task] = "wait" /\ call'[w.task].id = w.id
                 /\ call'[w.task].broker = d
          BY <3>1, <3>2, <4>2 DEF Core, NothingStale
        <4>5. \A u \in Callers : notif'[u] \notin {NoReply, Foreign} =>
                 pc'[u] = "wait" /\ Answered(u)'
          BY <3>1, <3>2, <3>3 DEF Core, NothingStale, Answered
        <4> QED
          BY <4>3, <4>4, <4>5 DEF NothingStale, Service
      <3> QED
        BY <3>1, <3>4, <3>5, <3>6 DEF Core, CoreStep, Distinct
    <2> QED
      BY <2>1, <2>2
  <1>2. CASE Enqueue(t)
    <2>1. /\ pc[t] = "enqueue" /\ pc' = [pc EXCEPT ![t] = "wait"]
          /\ UNCHANGED <<call, notif, slots>> /\ queue' = Append(queue, call[t])
      BY <1>2 DEF Enqueue
    <2>2. \A u \in Callers \ {t} : pc'[u] = pc[u]
      BY <2>1 DEF TypeInv, TypeOK
    <2>3. pc'[t] = "wait"
      BY <2>1 DEF TypeInv, TypeOK
    <2>4. call[t] \in Commands /\ call[t].task = t /\ call[t] # Service
      BY <2>1, ConstantsAreTyped DEF TypeInv, CallsAreCommands, Commands, Service
    <2>5. call[t] \notin Queued
      BY <2>1, <2>4 DEF Core, NothingStale
    <2>6. Queued' = Queued \cup {call[t]} /\ Distinct(queue')
      <3>1. Queued' = Elements(queue')
        BY DEF Queued, Elements
      <3>2. queue \in Seq(Commands \cup {Service})
        BY DEF TypeInv, TypeOK
      <3> QED
        BY <2>1, <2>4, <2>5, <3>1, <3>2, AppendToQueue, QueuedIsElements DEF Core
    <2>7. notif[t] \in {NoReply, Foreign} /\ ~Answered(t)
      <3>1. notif[t] \in {NoReply, Foreign}
        BY <2>1 DEF Core, NotificationsAreAnswers
      <3> QED
        BY <2>1, <3>1, ForeignIsNoAnswer
    <2>8. ~InSlot(t)
      <3>1. call[t].broker \in Brokers
        BY <2>4 DEF Commands
      <3> QED
        BY <2>1, <3>1 DEF Core, NothingStale, InSlot
    <2>9. NotificationsAreAnswers'
      BY <2>1, <2>2, <2>3, <2>7 DEF Core, NotificationsAreAnswers, Answered
    <2>10. OnePlace' /\ PlacesAreKept
      <3>1. ASSUME NEW u \in Callers \ {t}, pc[u] = "wait"
            PROVE  InQueue(u)' <=> InQueue(u)
        <4>1. call[u].task = u
          BY <3>1 DEF TypeInv, CallsAreCommands
        <4> QED
          BY <2>1, <2>4, <2>6, <4>1 DEF InQueue
      <3>2. \A u \in Callers : (InSlot(u)' <=> InSlot(u)) /\ (Answered(u)' <=> Answered(u))
        BY <2>1 DEF InSlot, Answered
      <3>3. InQueue(t)'
        BY <2>1, <2>6 DEF InQueue
      <3> QED
        BY <2>2, <2>3, <2>7, <2>8, <3>1, <3>2, <3>3
        DEF Core, OnePlace, PlacesAreKept, HasPlace, HasTwoPlaces
    <2>11. NothingStale'
      <3>1. ASSUME NEW c \in Queued' \ {Service}
            PROVE  pc'[c.task] = "wait" /\ call'[c.task] = c
        <4>1. CASE c = call[t]
          BY <2>1, <2>3, <2>4, <4>1
        <4>2. CASE c \in Queued
          <5>1. c \in Commands
            BY <3>1, <4>2, ElementOfSeq DEF TypeInv, TypeOK, Queued
          <5>2. pc[c.task] = "wait" /\ call[c.task] = c /\ c.task \in Callers
            BY <3>1, <4>2, <5>1 DEF Core, NothingStale, Commands
          <5> QED
            BY <2>1, <2>2, <5>2
        <4> QED
          BY <2>6, <3>1, <4>1, <4>2 DEF Service
      <3>2. ASSUME NEW d \in Brokers, NEW w \in slots'[d]
            PROVE  /\ pc'[w.task] = "wait"
                   /\ call'[w.task].id = w.id /\ call'[w.task].broker = d
        <4>1. w \in slots[d]
          BY <2>1, <3>2
        <4> QED
          BY <2>1, <2>2, <4>1, WaiterOf DEF Core
      <3>3. \A u \in Callers : notif'[u] \notin {NoReply, Foreign} =>
               pc'[u] = "wait" /\ Answered(u)'
        BY <2>1, <2>2, <2>3 DEF Core, NothingStale, Answered
      <3> QED
        BY <3>1, <3>2, <3>3 DEF NothingStale, Service
    <2> QED
      BY <2>6, <2>9, <2>10, <2>11 DEF Core, CoreStep
  <1>3. CASE EnqueueTimesOut(t) \/ (NotifyWait(t) /\ notif[t].id = call[t].id)
    <2>1. /\ pc[t] # "ready" /\ pc' = [pc EXCEPT ![t] = "ready"]
          /\ \A u \in Callers \ {t} : call'[u] = call[u] /\ notif'[u] = notif[u]
          /\ notif'[t] \in {NoReply, Foreign}
          /\ UNCHANGED <<queue, slots>>
      BY <1>3 DEF EnqueueTimesOut, NotifyWait, Core, NotificationsAreAnswers, TypeInv, TypeOK
    <2>2. pc'[t] = "ready" /\ \A u \in Callers \ {t} : pc'[u] = pc[u]
      BY <2>1 DEF TypeInv, TypeOK
    <2>3. ~(pc[t] = "wait" /\ (InQueue(t) \/ InSlot(t)))
      BY <1>3 DEF EnqueueTimesOut, NotifyWait, Core, OnePlace, HasTwoPlaces, Answered
    <2>4. NotificationsAreAnswers'
      BY <2>1, <2>2 DEF Core, NotificationsAreAnswers, Answered
    <2>5. OnePlace' /\ PlacesAreKept
      BY <2>1, <2>2
      DEF Core, OnePlace, PlacesAreKept, HasPlace, HasTwoPlaces, InQueue, InSlot, Answered, Queued
    <2>6. NothingStale'
      <3>1. ASSUME NEW c \in Queued \ {Service}
            PROVE  c.task \in Callers \ {t} /\ pc[c.task] = "wait" /\ call[c.task] = c
        <4>1. c \in Commands
          BY ElementOfSeq DEF TypeInv, TypeOK, Queued
        <4>2. pc[c.task] = "wait" /\ call[c.task] = c
          BY DEF Core, NothingStale
        <4> QED
          BY <2>3, <4>1, <4>2 DEF InQueue, Commands
      <3>2. ASSUME NEW d \in Brokers, NEW w \in slots[d]
            PROVE  /\ w.task \in Callers \ {t} /\ pc[w.task] = "wait"
                   /\ call[w.task].broker = d /\ call[w.task].id = w.id
        BY <2>3, WaiterOf DEF Core
      <3>3. \A c \in Queued' \ {Service} : pc'[c.task] = "wait" /\ call'[c.task] = c
        BY <2>1, <2>2, <3>1 DEF Queued
      <3>4. \A d \in Brokers : \A w \in slots'[d] :
               pc'[w.task] = "wait" /\ call'[w.task].id = w.id
               /\ call'[w.task].broker = d
        BY <2>1, <2>2, <3>2
      <3>5. \A u \in Callers : notif'[u] \notin {NoReply, Foreign} =>
               pc'[u] = "wait" /\ Answered(u)'
        BY <2>1, <2>2 DEF Core, NothingStale, Answered
      <3> QED
        BY <3>3, <3>4, <3>5 DEF NothingStale, Service
    <2> QED
      BY <2>1, <2>4, <2>5, <2>6 DEF Core, CoreStep, Distinct
  <1>4. CASE ForeignNotification(t) \/ (NotifyWait(t) /\ notif[t].id # call[t].id)
    <2>1. /\ pc[t] # "ready" => ~Answered(t)
          /\ \/ notif[t] = Foreign /\ notif' = [notif EXCEPT ![t] = NoReply]
             \/ notif[t] = NoReply /\ notif' = [notif EXCEPT ![t] = Foreign]
          /\ UNCHANGED <<pc, call, queue, slots>>
      <3>1. CASE NotifyWait(t) /\ notif[t].id # call[t].id
        BY <3>1 DEF NotifyWait, Answered, Core, NotificationsAreAnswers
      <3>2. CASE ForeignNotification(t) /\ pc[t] # "ready"
        BY <3>2, ForeignIsNoAnswer DEF ForeignNotification
      <3>3. CASE ForeignNotification(t) /\ pc[t] = "ready"
        BY <3>3 DEF ForeignNotification
      <3> QED
        BY <1>4, <3>1, <3>2, <3>3
    <2>2. notif'[t] \in {NoReply, Foreign} /\ \A u \in Callers \ {t} : notif'[u] = notif[u]
      BY <2>1 DEF TypeInv, TypeOK
    <2>3. NotificationsAreAnswers'
      BY <2>1, <2>2 DEF Core, NotificationsAreAnswers, Answered
    <2>4. \A u \in Callers : Answered(u)' <=> Answered(u)
      BY <2>1, <2>2 DEF Answered, NoReply, Foreign
    <2>5. OnePlace' /\ PlacesAreKept
      BY <2>1, <2>4
      DEF Core, OnePlace, PlacesAreKept, HasPlace, HasTwoPlaces, InQueue, InSlot, Queued
    <2>6. NothingStale'
      BY <2>1, <2>2 DEF Core, NothingStale, Answered, Queued
    <2> QED
      BY <2>1, <2>3, <2>5, <2>6 DEF Core, CoreStep, Distinct
  <1>6. CallerStep(t) => CoreStep
    BY <1>2, <1>3, <1>4 DEF CallerStep
  <1>7. (\E op \in Ops, b \in Brokers : SendCommand(t, op, b)) => CoreStep
    BY <1>1
  <1> QED
    BY <1>4, <1>6, <1>7

\* The event posted for a socket is nobody's command.
LEMMA WakeupIsNoCommand ==
  ASSUME TypeInv, SocketWakeup, NEW t \in Callers, pc[t] = "wait"
  PROVE  ~InQueue(t) /\ ~InQueue(t)'
  <1>1. queue = << >> /\ queue' = Append(queue, Service) /\ call' = call
    BY DEF SocketWakeup, appVars
  <1>2. Queued = {} /\ Queued' = {Service}
    <2>1. Len(queue') = 1 /\ queue'[1] = Service /\ Len(queue) = 0
      BY <1>1
    <2> QED
      BY <2>1 DEF Queued
  <1>3. call[t].task = t
    BY DEF TypeInv, CallsAreCommands
  <1>4. call[t] # Service
    BY <1>3, ConstantsAreTyped DEF Service
  <1> QED
    BY <1>1, <1>2, <1>4 DEF InQueue

LEMMA CoreOfWakeup == ASSUME TypeInv, Core, SocketWakeup PROVE CoreStep
  <1>1. queue = << >> /\ queue' = Append(queue, Service) /\ UNCHANGED <<pc, call, notif, slots>>
    BY DEF SocketWakeup, appVars, connVars
  <1>2. queue \in Seq(Commands \cup {Service}) /\ Service \in Commands \cup {Service}
    BY DEF TypeInv, TypeOK
  <1>3. Queued = {}
    BY <1>1 DEF Queued
  <1>4. Queued' = {Service} /\ Distinct(queue')
    <2>1. Queued = Elements(queue) /\ Queued' = Elements(queue')
      BY DEF Queued, Elements
    <2>2. Service \notin Elements(queue) /\ Distinct(queue)
      BY <1>3, <2>1 DEF Core
    <2>3. /\ Elements(Append(queue, Service)) = Elements(queue) \cup {Service}
          /\ Distinct(Append(queue, Service))
      BY <1>2, <2>2, AppendToQueue
    <2> QED
      BY <1>1, <1>3, <2>1, <2>3
  <1>5. \A t \in Callers : pc[t] = "wait" => ~InQueue(t) /\ ~InQueue(t)'
    BY WakeupIsNoCommand
  <1>6. OnePlace' /\ PlacesAreKept
    BY <1>1, <1>5 DEF Core, OnePlace, PlacesAreKept, HasPlace, HasTwoPlaces, InSlot, Answered
  <1>7. NothingStale'
    BY <1>1, <1>4 DEF Core, NothingStale, Answered, Service
  <1>8. NotificationsAreAnswers'
    BY <1>1 DEF Core, NotificationsAreAnswers, Answered
  <1> QED
    BY <1>4, <1>6, <1>7, <1>8 DEF Core, CoreStep

LEMMA ServiceInvInit == Init => ServiceInv
  <1> SUFFICES ASSUME Init PROVE Core
    BY TypeInvInit DEF ServiceInv
  <1>1. queue = << >> /\ Queued = {} /\ Distinct(queue)
    BY DEF Init, Queued, Distinct
  <1> QED
    BY <1>1 DEF Init, Core, NotificationsAreAnswers, NothingStale, OnePlace

LEMMA ServiceInvStep == ServiceInv /\ [Next]_vars => ServiceInv' /\ PlacesAreKept
  <1> SUFFICES ASSUME TypeInv, Core, [Next]_vars PROVE CoreStep
    BY TypeInvStep DEF ServiceInv, CoreStep
  <1> USE DEF connVars, envVars, appVars
  <1>1. ASSUME NEW t \in Callers, CallerStep(t) PROVE CoreStep
    BY <1>1, CoreOfCaller
  <1>2. ASSUME NEW t \in Tasks, App(t) PROVE CoreStep
    <2>1. t \in Callers
      BY DEF Callers
    <2>2. CASE Create(t) \/ \E b \in Brokers : Delete(t, b)
      BY <2>2, CoreFrame DEF Create, Delete
    <2> QED
      BY <1>2, <2>1, <2>2, CoreOfCaller DEF App
  <1>3. CASE ReturnBuffer
    BY <1>3, CoreFrame DEF ReturnBuffer
  <1>4. CASE SocketWakeup
    BY <1>4, CoreOfWakeup
  <1>5. CASE CallFromCallback
    <2>1. mbroker \in Brokers
      BY DEF TypeInv, TypeOK
    <2> QED
      BY <1>5, <2>1, CoreOfCaller, ConstantsAreTyped DEF CallFromCallback
  <1>6. CASE MqttTaskStep
    <2>1. CASE ReceiveTimesOut
      BY <2>1, CoreFrame DEF ReceiveTimesOut
    <2> QED
      BY <1>6, <2>1, CoreOfCommand, CoreOfManage DEF MqttTaskStep, ExecuteCommand
  <1>7. CASE UNCHANGED vars
    BY <1>7, CoreFrame DEF vars
  <1> QED
    BY <1>1, <1>2, <1>3, <1>4, <1>5, <1>6, <1>7 DEF Next

\* A blocked caller is served exactly once: no command, waiter or answer is
\* duplicated on any path through the agent, and the only step that loses one is
\* that of an answer refused because another object's notification is pending.
THEOREM CallersAreServedOnce == Spec => WaitingIsServedOnce
  <1>1. ServiceInv /\ [Next]_vars =>
          [\A t \in Callers : pc'[t] = "wait" =>
              /\ ~HasTwoPlaces(t)'
              /\ HasPlace(t)' \/ notif[t] = Foreign \/ (pc[t] = "wait" /\ ~HasPlace(t))]_vars
    BY ServiceInvStep DEF ServiceInv, Core, OnePlace, PlacesAreKept
  <1> QED
    BY <1>1, ServiceInvInit, ServiceInvStep, PTL DEF Spec, WaitingIsServedOnce

\* Nothing in the agent refers to a call that is over: in particular no answer
\* reaches a task after its API call has returned.
THEOREM NothingOutlivesItsCall == Spec => []NothingStale
  <1>1. ServiceInv => NothingStale
    BY DEF ServiceInv, Core
  <1> QED
    BY <1>1, ServiceInvInit, ServiceInvStep, PTL DEF Spec

-----------------------------------------------------------------------------
(* The two tables of the operations in flight, xWaitingTasks and the        *)
(* transmit list.  A request and a waiter are paired by their identifier,   *)
(* which is why no two calls may have the same one at a time.               *)

IdsDiffer ==
    \A t, u \in Callers :
        t # u /\ pc[t] # "ready" /\ pc[u] # "ready" => call[t].id # call[u].id

TablesAgree ==
    \A b \in Brokers :
        /\ \A w \in slots[b] : \E r \in tx[b] : r.id = w.id
        /\ \A r \in tx[b] : \E w \in slots[b] : w.id = r.id
        /\ \A w \in slots[b], r \in tx[b] : w.id = r.id => call[w.task].op = r.op
        /\ \A r, s \in tx[b] : r.id = s.id => r = s

ClosedIsEmpty == \A b \in Brokers : state[b] = "NotConnected" => tx[b] = {}

TxInv == IdsDiffer /\ TablesAgree /\ ClosedIsEmpty

\* The requests done and those who wait for them are taken out of the tables.
LEMMA RemovalKeepsTables ==
  ASSUME TypeInv, TxInv, NEW b \in Brokers, NEW done \in SUBSET tx[b],
         UNCHANGED <<pc, call>>,
         tx' = [tx EXCEPT ![b] = @ \ done],
         slots' = [slots EXCEPT ![b] = @ \ UNION {WaitingFor(b, r.id) : r \in done}],
         \A d \in Brokers : state'[d] = "NotConnected" => state[d] = "NotConnected"
  PROVE  TxInv'
  <1> DEFINE W == UNION {WaitingFor(b, r.id) : r \in done}
  <1>1. \A w \in slots[b] : w \in W <=> \E r \in done : r.id = w.id
    BY DEF WaitingFor
  <1>2. /\ tx'[b] = tx[b] \ done /\ slots'[b] = slots[b] \ W
        /\ \A d \in Brokers \ {b} : tx'[d] = tx[d] /\ slots'[d] = slots[d]
    BY DEF TypeInv, TypeOK
  <1> HIDE DEF W
  <1>3. IdsDiffer'
    BY DEF TxInv, IdsDiffer
  <1>4. ClosedIsEmpty'
    BY <1>2 DEF TxInv, ClosedIsEmpty
  <1>5. TablesAgree'
    <2> SUFFICES ASSUME NEW d \in Brokers
                 PROVE  /\ \A w \in slots'[d] : \E r \in tx'[d] : r.id = w.id
                        /\ \A r \in tx'[d] : \E w \in slots'[d] : w.id = r.id
                        /\ \A w \in slots'[d], r \in tx'[d] :
                              w.id = r.id => call'[w.task].op = r.op
                        /\ \A r, s \in tx'[d] : r.id = s.id => r = s
      BY DEF TablesAgree
    <2>1. CASE d # b
      BY <1>2, <2>1 DEF TxInv, TablesAgree
    <2>2. CASE d = b
      <3>1. \A w \in slots'[b] : \E r \in tx'[b] : r.id = w.id
        BY <1>1, <1>2 DEF TxInv, TablesAgree
      <3>2. ASSUME NEW r \in tx'[b] PROVE \E w \in slots'[b] : w.id = r.id
        <4>1. PICK w \in slots[b] : w.id = r.id
          BY <1>2, <3>2 DEF TxInv, TablesAgree
        <4>2. w \notin W
          BY <1>1, <1>2, <4>1 DEF TxInv, TablesAgree
        <4> QED
          BY <1>2, <4>1, <4>2
      <3> QED
        BY <1>2, <2>2, <3>1, <3>2 DEF TxInv, TablesAgree
    <2> QED
      BY <2>1, <2>2
  <1> QED
    BY <1>3, <1>4, <1>5 DEF TxInv

\* The tables of connection b are emptied.
LEMMA ClearingKeepsTables ==
  ASSUME TypeInv, TxInv, NEW b \in Brokers, UNCHANGED <<pc, call>>,
         tx' = [tx EXCEPT ![b] = {}], slots' = [slots EXCEPT ![b] = {}],
         \A d \in Brokers \ {b} : state'[d] = state[d]
  PROVE  TxInv'
  <1>1. /\ tx'[b] = {} /\ slots'[b] = {}
        /\ \A d \in Brokers \ {b} : tx'[d] = tx[d] /\ slots'[d] = slots[d]
    BY DEF TypeInv, TypeOK
  <1>2. IdsDiffer' /\ ClosedIsEmpty'
    BY <1>1 DEF TxInv, IdsDiffer, ClosedIsEmpty
  <1>3. TablesAgree'
    <2> SUFFICES ASSUME NEW d \in Brokers
                 PROVE  /\ \A w \in slots'[d] : \E r \in tx'[d] : r.id = w.id
                        /\ \A r \in tx'[d] : \E w \in slots'[d] : w.id = r.id
                        /\ \A w \in slots'[d], r \in tx'[d] :
                              w.id = r.id => call'[w.task].op = r.op
                        /\ \A r, s \in tx'[d] : r.id = s.id => r = s
      BY DEF TablesAgree
    <2> QED
      BY <1>1 DEF TxInv, TablesAgree
  <1> QED
    BY <1>2, <1>3 DEF TxInv

\* MQTT_Disconnect of a connection without operations changes only its context.
LEMMA DisconnectKeepsTables ==
  ASSUME TypeInv, TxInv, NEW b \in Brokers, NEW also, MQTT_Disconnect(b, also),
         UNCHANGED <<pc, call>>
  PROVE  TxInv'
  <1>1. /\ tx' = [tx EXCEPT ![b] = {}] /\ \A d \in Brokers \ {b} : state'[d] = state[d]
    BY DEF MQTT_Disconnect, ResetContext, TypeInv, TypeOK
  <1>2. slots' = [slots EXCEPT ![b] = {}]
    <2>1. CASE IsLive(b)
      BY <2>1 DEF MQTT_Disconnect, ProcessDisconnect
    <2>2. CASE ~IsLive(b)
      <3>1. state[b] = "NotConnected" /\ slots' = slots
        BY <2>2 DEF MQTT_Disconnect, IsLive, TypeInv, TypeOK
      <3>2. slots[b] = {}
        BY <3>1 DEF TxInv, ClosedIsEmpty, TablesAgree
      <3> QED
        BY <3>1, <3>2 DEF TypeInv, TypeOK
    <2> QED
      BY <2>1, <2>2
  <1> QED
    BY <1>1, <1>2, ClearingKeepsTables

\* The identifier of a command that is executed is in no table.
LEMMA CommandIdIsNew ==
  ASSUME TypeInv, Core, TxInv, NEW c \in Commands, Receive(c)
  PROVE  /\ \A w \in slots[c.broker] : w.id # c.id
         /\ \A r \in tx[c.broker] : r.id # c.id
  <1>1. /\ c.task \in Callers /\ pc[c.task] = "wait" /\ call[c.task] = c
        /\ ~InSlot(c.task)
    BY CommandOf
  <1>2. c.broker \in Brokers
    BY DEF Commands
  <1>3. ASSUME NEW w \in slots[c.broker], w.id = c.id PROVE FALSE
    <2>1. /\ w.task \in Callers /\ pc[w.task] = "wait" /\ call[w.task].id = w.id
          /\ InSlot(w.task)
      BY <1>2, WaiterOf DEF Core
    <2>2. w.task = c.task
      BY <1>1, <1>3, <2>1 DEF TxInv, IdsDiffer
    <2> QED
      BY <1>1, <2>1, <2>2
  <1> QED
    BY <1>2, <1>3 DEF TxInv, TablesAgree

\* A request is sent: it and its caller are entered.
LEMMA SendingKeepsTables ==
  ASSUME TypeInv, Core, TxInv, NEW c \in Commands, Receive(c), Sent(c), UNCHANGED <<pc, call>>,
         state'[c.broker] # "NotConnected",
         \A d \in Brokers \ {c.broker} : state'[d] = state[d]
  PROVE  TxInv'
  <1> DEFINE b == c.broker
             r1 == [op |-> c.op, id |-> c.id]
             w1 == [task |-> c.task, id |-> c.id]
  <1>1. b \in Brokers
    BY DEF Commands
  <1>2. /\ tx'[b] = tx[b] \cup {r1} /\ slots'[b] = slots[b] \cup {w1}
        /\ \A d \in Brokers \ {b} : tx'[d] = tx[d] /\ slots'[d] = slots[d]
    BY <1>1 DEF Sent, TypeInv, TypeOK
  <1>3. call[w1.task].op = r1.op /\ w1.id = c.id /\ r1.id = c.id
    BY CommandOf
  <1>4. \A w \in slots[b] : w.id # c.id
    BY CommandIdIsNew
  <1>5. \A r \in tx[b] : r.id # c.id
    BY CommandIdIsNew
  <1> HIDE DEF r1, w1
  <1>6. IdsDiffer' /\ ClosedIsEmpty'
    BY <1>2 DEF TxInv, IdsDiffer, ClosedIsEmpty
  <1>7. TablesAgree'
    <2> SUFFICES ASSUME NEW d \in Brokers
                 PROVE  /\ \A w \in slots'[d] : \E r \in tx'[d] : r.id = w.id
                        /\ \A r \in tx'[d] : \E w \in slots'[d] : w.id = r.id
                        /\ \A w \in slots'[d], r \in tx'[d] :
                              w.id = r.id => call'[w.task].op = r.op
                        /\ \A r, s \in tx'[d] : r.id = s.id => r = s
      BY DEF TablesAgree
    <2>1. CASE d # b
      BY <1>2, <2>1 DEF TxInv, TablesAgree
    <2>2. CASE d = b
      BY <1>1, <1>2, <1>3, <1>4, <1>5, <2>2 DEF TxInv, TablesAgree
    <2> QED
      BY <2>1, <2>2
  <1> QED
    BY <1>6, <1>7 DEF TxInv

LEMMA TxFrame ==
  ASSUME TxInv, UNCHANGED <<pc, call, tx, slots, state>>
  PROVE  TxInv'
  BY DEF TxInv, IdsDiffer, TablesAgree, ClosedIsEmpty

\* The steps that execute a command.
LEMMA TablesOfCommand ==
  ASSUME TypeInv, Core, TxInv, NEW c \in Commands \cup {Service},
         \/ ReceiveTooLate(c) \/ InitiateMQTTConnect(c) \/ InitiateMQTTDisconnect(c)
         \/ InitiateMQTTOperation(c) \/ InitiateMQTTPublish0(c)
  PROVE  TxInv'
  <1> USE DEF connVars, envVars, appVars
  <1>1. c.broker \in Brokers
    BY ConstantsAreTyped DEF Commands, Service
  <1>2. CASE ReceiveTooLate(c) \/ InitiateMQTTPublish0(c)
    BY <1>2, TxFrame DEF ReceiveTooLate, InitiateMQTTPublish0
  <1>3. CASE InitiateMQTTConnect(c)
    <2>1. c \in Commands /\ Receive(c) /\ UNCHANGED <<pc, call>>
      BY <1>3 DEF InitiateMQTTConnect, Service
    <2>2. CASE NotSent(c) /\ UNCHANGED state
      BY <2>1, <2>2, TxFrame DEF NotSent
    <2>3. CASE Sent(c) /\ state' = [state EXCEPT ![c.broker] = "InProgress"]
      <3>1. /\ state'[c.broker] # "NotConnected"
            /\ \A d \in Brokers \ {c.broker} : state'[d] = state[d]
        BY <1>1, <2>3 DEF TypeInv, TypeOK
      <3> QED
        BY <2>1, <2>3, <3>1, SendingKeepsTables
    <2> QED
      BY <1>3, <2>2, <2>3 DEF InitiateMQTTConnect
  <1>4. CASE InitiateMQTTDisconnect(c)
    BY <1>1, <1>4, DisconnectKeepsTables DEF InitiateMQTTDisconnect
  <1>5. CASE InitiateMQTTOperation(c)
    <2>1. c \in Commands /\ Receive(c) /\ UNCHANGED <<pc, call, state>>
      BY <1>5 DEF InitiateMQTTOperation, Service, AckedOps
    <2>2. CASE NotSent(c)
      BY <2>1, <2>2, TxFrame DEF NotSent
    <2>3. CASE Sent(c) /\ state[c.broker] = "Connected"
      BY <2>1, <2>3, SendingKeepsTables
    <2> QED
      BY <1>5, <2>2, <2>3 DEF InitiateMQTTOperation
  <1> QED
    BY <1>2, <1>3, <1>4, <1>5

\* The steps of prvManageConnections.
LEMMA TablesOfManage ==
  ASSUME TypeInv, TxInv, NEW b \in Brokers, ManageConnection(b)
  PROVE  TxInv'
  <1> USE DEF connVars, envVars, appVars
  <1>1. CASE ReceivedNothing(b) \/ ReceivedPublish(b) \/ PeriodicNothing(b)
             \/ ReceivedHeader(b) \/ DroppedPacket(b) \/ CallbackReturns(b)
    BY <1>1, TxFrame DEF ReceivedNothing, ReceivedPublish, PeriodicNothing, ReceivedHeader,
       DroppedPacket, CallbackReturns
  <1>2. CASE SocketError(b)
    BY <1>2, DisconnectKeepsTables DEF SocketError
  <1>3. CASE ReceivedRefusalOrMalformed(b) \/ PeriodicConnectTimeout(b)
    <2>1. ResetContext(b) /\ ProcessDisconnect(b, {}) /\ UNCHANGED <<pc, call>>
      BY <1>3 DEF ReceivedRefusalOrMalformed, PeriodicConnectTimeout
    <2>2. /\ tx' = [tx EXCEPT ![b] = {}] /\ slots' = [slots EXCEPT ![b] = {}]
          /\ \A d \in Brokers \ {b} : state'[d] = state[d]
      BY <2>1 DEF ResetContext, ProcessDisconnect, TypeInv, TypeOK
    <2> QED
      BY <2>1, <2>2, ClearingKeepsTables
  <1>4. ASSUME NEW ack \in Requests, ReceivedACK(b, ack) \/ ReceivedSUBACKFailure(b, ack)
        PROVE  TxInv'
    <2> DEFINE done == MatchingTx(b, ack)
    <2>1. done \in SUBSET tx[b]
      BY DEF MatchingTx
    <2>2. /\ tx' = [tx EXCEPT ![b] = @ \ done]
          /\ slots' = [slots EXCEPT ![b] = @ \ UNION {WaitingFor(b, r.id) : r \in done}]
          /\ UNCHANGED <<pc, call>>
      BY <1>4 DEF ReceivedACK, ReceivedSUBACKFailure, ReturnBuffers
    <2>3. \A d \in Brokers : state'[d] = "NotConnected" => state[d] = "NotConnected"
      BY <1>4 DEF ReceivedACK, ReceivedSUBACKFailure, TypeInv, TypeOK
    <2> HIDE DEF done
    <2> QED
      BY <2>1, <2>2, <2>3, RemovalKeepsTables
  <1>5. ASSUME NEW late \in SUBSET tx[b], PeriodicTimeout(b, late) PROVE TxInv'
    BY <1>5, RemovalKeepsTables DEF PeriodicTimeout
  <1> QED
    BY <1>1, <1>2, <1>3, <1>4, <1>5 DEF ManageConnection

\* The steps of a caller: the identifier it draws is new, and it is in no table
\* when it leaves its call.
LEMMA TablesOfCaller ==
  ASSUME TypeInv, Core, TxInv, NEW t \in Callers,
         CallerStep(t) \/ ForeignNotification(t)
         \/ (\E op \in Ops, b \in Brokers : SendCommand(t, op, b))
  PROVE  TxInv'
  <1> USE DEF connVars, envVars, appVars
  <1>1. UNCHANGED <<slots, tx, state>>
    BY DEF CallerStep, Enqueue, EnqueueTimesOut, NotifyWait, ForeignNotification, SendCommand
  <1>2. IdsDiffer'
    <2>1. ASSUME NEW op \in Ops, NEW b \in Brokers, SendCommand(t, op, b) PROVE IdsDiffer'
      <3>1. CASE FromCallback(t)
        BY <2>1, <3>1 DEF SendCommand, TxInv, IdsDiffer
      <3>2. CASE ~FromCallback(t)
        <4>1. /\ \A u \in Callers : pc[u] # "ready" => call[u].id # nextId
              /\ call'[t].id = nextId
              /\ \A u \in Callers \ {t} : call'[u] = call[u] /\ pc'[u] = pc[u]
          BY <2>1, <3>2 DEF SendCommand, IdIsUnused, TypeInv, TypeOK
        <4> QED
          BY <4>1 DEF TxInv, IdsDiffer
      <3> QED
        BY <3>1, <3>2
    <2>2. CASE CallerStep(t) \/ ForeignNotification(t)
      <3>1. /\ \A u \in Callers \ {t} : call'[u] = call[u] /\ pc'[u] = pc[u]
            /\ pc'[t] # "ready" => call'[t] = call[t] /\ pc[t] # "ready"
        BY <2>2 DEF CallerStep, Enqueue, EnqueueTimesOut, NotifyWait, ForeignNotification,
           TypeInv, TypeOK
      <3> QED
        BY <3>1 DEF TxInv, IdsDiffer
    <2> QED
      BY <2>1, <2>2
  <1>3. ASSUME NEW d \in Brokers, NEW w \in slots[d] PROVE call'[w.task] = call[w.task]
    <2>1. w.task \in Callers /\ pc[w.task] = "wait" /\ InSlot(w.task)
      BY <1>3, WaiterOf DEF Core
    <2>2. ASSUME NEW op \in Ops, NEW b \in Brokers, SendCommand(t, op, b)
          PROVE  call'[w.task] = call[w.task]
      <3>1. w.task # t
        BY <2>1, <2>2 DEF SendCommand
      <3> QED
        BY <2>1, <2>2, <3>1 DEF SendCommand, TypeInv, TypeOK
    <2>3. CASE CallerStep(t) \/ ForeignNotification(t)
      <3>1. call' = call \/ pc[t] = "enqueue" \/ (pc[t] = "wait" /\ Answered(t))
        BY <2>3 DEF CallerStep, Enqueue, EnqueueTimesOut, NotifyWait, ForeignNotification, Answered
      <3>2. call' = call \/ w.task # t
        BY <2>1, <3>1 DEF Core, OnePlace, HasTwoPlaces
      <3>3. call' = call \/ call' = [call EXCEPT ![t] = NoCall]
        BY <2>3 DEF CallerStep, Enqueue, EnqueueTimesOut, NotifyWait, ForeignNotification
      <3> QED
        BY <2>1, <3>2, <3>3 DEF TypeInv, TypeOK
    <2> QED
      BY <2>2, <2>3
  <1>4. TablesAgree' /\ ClosedIsEmpty'
    BY <1>1, <1>3 DEF TxInv, TablesAgree, ClosedIsEmpty
  <1> QED
    BY <1>2, <1>4 DEF TxInv

LEMMA TxInvInit == Init => TxInv
  BY DEF Init, TxInv, IdsDiffer, TablesAgree, ClosedIsEmpty

LEMMA TxInvStep == ServiceInv /\ TxInv /\ [Next]_vars => TxInv'
  <1> SUFFICES ASSUME TypeInv, Core, TxInv, [Next]_vars PROVE TxInv'
    BY DEF ServiceInv
  <1> USE DEF connVars, envVars, appVars
  <1>1. ASSUME NEW t \in Callers, CallerStep(t) PROVE TxInv'
    BY <1>1, TablesOfCaller
  <1>2. ASSUME NEW t \in Tasks, App(t) PROVE TxInv'
    <2>1. t \in Callers
      BY DEF Callers
    <2>2. CASE Create(t) \/ \E b \in Brokers : Delete(t, b)
      BY <2>2, TxFrame DEF Create, Delete
    <2> QED
      BY <1>2, <2>1, <2>2, TablesOfCaller DEF App
  <1>3. CASE ReturnBuffer \/ SocketWakeup
    BY <1>3, TxFrame DEF ReturnBuffer, SocketWakeup
  <1>4. CASE CallFromCallback
    <2>1. mbroker \in Brokers
      BY DEF TypeInv, TypeOK
    <2> QED
      BY <1>4, <2>1, TablesOfCaller, ConstantsAreTyped DEF CallFromCallback
  <1>5. CASE MqttTaskStep
    <2>1. CASE ReceiveTimesOut
      BY <2>1, TxFrame DEF ReceiveTimesOut
    <2> QED
      BY <1>5, <2>1, TablesOfCommand, TablesOfManage DEF MqttTaskStep, ExecuteCommand
  <1>6. CASE UNCHANGED vars
    BY <1>6, TxFrame DEF vars
  <1> QED
    BY <1>1, <1>2, <1>3, <1>4, <1>5, <1>6 DEF Next

\* Sets whose elements are paired by their identifiers have one size.
LEMMA PairsAreAsMany ==
  ASSUME NEW S, NEW T, IsFiniteSet(T),
         \A w \in S : \E r \in T : r.id = w.id,
         \A r \in T : \E w \in S : w.id = r.id,
         \A v, w \in S : v.id = w.id => v = w,
         \A r, s \in T : r.id = s.id => r = s
  PROVE  Cardinality(S) = Cardinality(T)
  <1> DEFINE f == [r \in T |-> CHOOSE w \in S : w.id = r.id]
  <1>1. \A r \in T : f[r] \in S /\ f[r].id = r.id
    OBVIOUS
  <1>2. f \in [T -> S]
    BY <1>1
  <1>3. \A r, s \in T : f[r] = f[s] => r = s
    BY <1>1
  <1>4. ASSUME NEW w \in S PROVE \E r \in T : f[r] = w
    <2>1. PICK r \in T : r.id = w.id
      OBVIOUS
    <2>2. f[r] \in S /\ f[r].id = w.id
      BY <1>1, <2>1
    <2> HIDE DEF f
    <2> QED
      BY <2>2
  <1> HIDE DEF f
  <1>5. f \in Bijection(T, S)
    BY <1>2, <1>3, <1>4 DEF Bijection, Injection, Surjection, IsInjective
  <1>6. ExistsBijection(T, S)
    BY <1>5 DEF ExistsBijection
  <1> QED
    BY <1>6, FS_Bijection

LEMMA TablesMatch == TypeInv /\ Core /\ TxInv => SlotsMatchTx
  <1> SUFFICES ASSUME TypeInv, Core, TxInv, NEW b \in Brokers
               PROVE  /\ {w.id : w \in slots[b]} = {r.id : r \in tx[b]}
                      /\ \A w \in slots[b], r \in tx[b] :
                            w.id = r.id => call[w.task].op = r.op
                      /\ Cardinality(slots[b]) = Cardinality(tx[b])
    BY DEF SlotsMatchTx
  <1>1. /\ \A w \in slots[b] : \E r \in tx[b] : r.id = w.id
        /\ \A r \in tx[b] : \E w \in slots[b] : w.id = r.id
        /\ \A w \in slots[b], r \in tx[b] : w.id = r.id => call[w.task].op = r.op
        /\ \A r, s \in tx[b] : r.id = s.id => r = s
    BY DEF TxInv, TablesAgree
  <1>2. ASSUME NEW v \in slots[b], NEW w \in slots[b], v.id = w.id PROVE v = w
    <2>1. v.task \in Callers /\ pc[v.task] = "wait" /\ call[v.task].id = v.id
          /\ v = [task |-> v.task, id |-> call[v.task].id]
      BY WaiterOf DEF Core
    <2>2. w.task \in Callers /\ pc[w.task] = "wait" /\ call[w.task].id = w.id
          /\ w = [task |-> w.task, id |-> call[w.task].id]
      BY WaiterOf DEF Core
    <2>3. v.task = w.task
      BY <1>2, <2>1, <2>2 DEF TxInv, IdsDiffer
    <2> QED
      BY <2>1, <2>2, <2>3
  <1>3. IsFiniteSet(tx[b])
    BY DEF TypeInv, TxIsFinite
  <1>4. Cardinality(slots[b]) = Cardinality(tx[b])
    BY <1>1, <1>2, <1>3, PairsAreAsMany
  <1> QED
    BY <1>1, <1>4

\* xWaitingTasks and the library's transmit list hold the same operations, through
\* every error path of the agent and of the library.
THEOREM TablesStayTogether == Spec => []SlotsMatchTx
  <1>1. ServiceInv /\ TxInv => SlotsMatchTx
    BY TablesMatch DEF ServiceInv
  <1> QED
    BY <1>1, ServiceInvInit, ServiceInvStep, TxInvInit, TxInvStep, PTL DEF Spec

-----------------------------------------------------------------------------
(* The buffers of the pool: each handler changes the count as it changes the *)
(* places that hold a buffer.                                               *)

\* The callback runs with the receive buffer of the connection it is called for.
CallbackHasBuffer == mstage = "callback" => rx[mbroker] = "buffer"

BufInv == BufferConservation /\ IsFiniteSet(BuffersInTx) /\ CallbackHasBuffer

LEMMA TxBuffersRemoved ==
  ASSUME TypeInv, IsFiniteSet(BuffersInTx), NEW b \in Brokers, NEW done \in SUBSET tx[b],
         tx' = [tx EXCEPT ![b] = @ \ done]
  PROVE  /\ IsFiniteSet(BuffersInTx')
         /\ Cardinality(BuffersInTx') = Cardinality(BuffersInTx) - Cardinality(done)
         /\ Cardinality(BuffersInTx) \in Nat /\ Cardinality(done) \in Nat
  <1> DEFINE D == {b} \X done
  <1>1. /\ tx'[b] = tx[b] \ done /\ tx[b] \in SUBSET Requests
        /\ \A d \in Brokers \ {b} : tx'[d] = tx[d]
    BY DEF TypeInv, TypeOK
  <1>2. BuffersInTx' = BuffersInTx \ D
    BY <1>1 DEF BuffersInTx
  <1>3. BuffersInTx \cap D = D
    BY <1>1 DEF BuffersInTx
  <1>4. IsFiniteSet(done)
    BY FS_Subset DEF TypeInv, TxIsFinite
  <1>5. Cardinality(done) \in Nat /\ Cardinality(BuffersInTx) \in Nat
    BY <1>4, FS_CardinalityType
  <1>6. IsFiniteSet(D) /\ Cardinality(D) = Cardinality(done)
    <2>1. IsFiniteSet({b}) /\ Cardinality({b}) = 1
      BY FS_Singleton
    <2>2. IsFiniteSet(D) /\ Cardinality(D) = Cardinality({b}) * Cardinality(done)
      BY <1>4, <2>1, FS_Product, Zenon
    <2>3. Cardinality(D) = 1 * Cardinality(done)
      BY <2>1, <2>2, Zenon
    <2> HIDE DEF D
    <2> QED
      BY <1>5, <2>2, <2>3
  <1> HIDE DEF D
  <1>7. /\ IsFiniteSet(BuffersInTx \ D)
        /\ Cardinality(BuffersInTx \ D) = Cardinality(BuffersInTx) - Cardinality(BuffersInTx \cap D)
    BY FS_Difference
  <1>8. Cardinality(BuffersInTx \ D) = Cardinality(BuffersInTx) - Cardinality(done)
    BY <1>3, <1>5, <1>6, <1>7
  <1> QED
    BY <1>2, <1>5, <1>7, <1>8

LEMMA TxBufferAdded ==
  ASSUME TypeInv, IsFiniteSet(BuffersInTx), NEW b \in Brokers, NEW r \in Requests,
         r \notin tx[b], tx' = [tx EXCEPT ![b] = @ \cup {r}]
  PROVE  /\ IsFiniteSet(BuffersInTx')
         /\ Cardinality(BuffersInTx') = Cardinality(BuffersInTx) + 1
  <1>1. /\ tx'[b] = tx[b] \cup {r}
        /\ \A d \in Brokers \ {b} : tx'[d] = tx[d]
    BY DEF TypeInv, TypeOK
  <1>2. BuffersInTx' = BuffersInTx \cup {<<b, r>>}
    BY <1>1 DEF BuffersInTx
  <1>3. <<b, r>> \notin BuffersInTx
    BY DEF BuffersInTx
  <1> QED
    BY <1>2, <1>3, FS_AddElement

LEMMA RxIsFinite == IsFiniteSet(BuffersInRx) /\ Cardinality(BuffersInRx) \in Nat
  <1>1. IsFiniteSet(Brokers)
    BY ConstantsAreTyped, FS_Interval DEF Brokers
  <1>2. IsFiniteSet(BuffersInRx)
    BY <1>1, FS_Subset DEF BuffersInRx
  <1> QED
    BY <1>2, FS_CardinalityType

LEMMA RxBufferTaken ==
  ASSUME TypeInv, NEW b \in Brokers, rx[b] # "buffer", rx' = [rx EXCEPT ![b] = "buffer"]
  PROVE  Cardinality(BuffersInRx') = Cardinality(BuffersInRx) + 1
  <1>1. BuffersInRx' = BuffersInRx \cup {b} /\ b \notin BuffersInRx
    BY DEF BuffersInRx, TypeInv, TypeOK
  <1> QED
    BY <1>1, RxIsFinite, FS_AddElement

LEMMA RxBufferGone ==
  ASSUME TypeInv, NEW b \in Brokers, NEW other, other # "buffer",
         rx' = [rx EXCEPT ![b] = other]
  PROVE  Cardinality(BuffersInRx')
           = Cardinality(BuffersInRx) - (IF rx[b] = "buffer" THEN 1 ELSE 0)
  <1>1. BuffersInRx' = BuffersInRx \ {b}
    BY DEF BuffersInRx, TypeInv, TypeOK
  <1>2. b \in BuffersInRx <=> rx[b] = "buffer"
    BY DEF BuffersInRx
  <1>3. CASE rx[b] = "buffer"
    BY <1>1, <1>2, <1>3, RxIsFinite, FS_RemoveElement
  <1>4. CASE rx[b] # "buffer"
    <2>1. BuffersInRx' = BuffersInRx
      BY <1>1, <1>2, <1>4
    <2> QED
      BY <1>4, <2>1, RxIsFinite
  <1> QED
    BY <1>3, <1>4

LEMMA BufFrame ==
  ASSUME BufInv, UNCHANGED <<pool, held, tx, rx>>,
         UNCHANGED <<mstage, mbroker>> \/ mstage' # "callback"
  PROVE  BufInv'
  BY DEF BufInv, BufferConservation, BuffersInTx, BuffersInRx, CallbackHasBuffer

\* The context of a connection is reset.
LEMMA ResetKeepsBuffers ==
  ASSUME TypeInv, BufInv, NEW b \in Brokers, ResetContext(b), UNCHANGED held,
         mstage' # "callback"
  PROVE  BufInv'
  <1>1. tx' = [tx EXCEPT ![b] = @ \ tx[b]]
    <2>1. [tx EXCEPT ![b] = {}] = [tx EXCEPT ![b] = @ \ tx[b]]
      BY DEF TypeInv, TypeOK
    <2> QED
      BY <2>1 DEF ResetContext
  <1>2. /\ IsFiniteSet(BuffersInTx')
        /\ Cardinality(BuffersInTx') = Cardinality(BuffersInTx) - Cardinality(tx[b])
        /\ Cardinality(BuffersInTx) \in Nat /\ Cardinality(tx[b]) \in Nat
    BY <1>1, TxBuffersRemoved DEF BufInv
  <1>3. Cardinality(BuffersInRx')
          = Cardinality(BuffersInRx) - (IF rx[b] = "buffer" THEN 1 ELSE 0)
    BY RxBufferGone DEF ResetContext
  <1>4. pool' = pool - (Cardinality(tx[b]) + (IF rx[b] = "buffer" THEN 1 ELSE 0))
    BY DEF ResetContext, BuffersOf
  <1>5. Cardinality(BuffersInRx) \in Nat /\ held \in Nat /\ pool \in Int
        /\ NUM_BUFFERS \in Nat
    BY RxIsFinite, SizesAssumption DEF TypeInv, TypeOK
  <1>6. /\ pool = held + Cardinality(BuffersInTx) + Cardinality(BuffersInRx)
        /\ pool <= NUM_BUFFERS
    BY DEF BufInv, BufferConservation
  <1>7. BufferConservation'
    <2>1. pool' = held + Cardinality(BuffersInTx') + Cardinality(BuffersInRx')
      BY <1>2, <1>3, <1>4, <1>5, <1>6
    <2>2. pool' <= NUM_BUFFERS
      BY <1>2, <1>4, <1>5, <1>6
    <2> QED
      BY <2>1, <2>2 DEF BufferConservation
  <1> QED
    BY <1>2, <1>7 DEF BufInv, CallbackHasBuffer

\* Transmit buffers, and perhaps the receive buffer, go back to the pool.
LEMMA ReturnKeepsBuffers ==
  ASSUME TypeInv, BufInv, NEW b \in Brokers, NEW done \in SUBSET tx[b],
         tx' = [tx EXCEPT ![b] = @ \ done], UNCHANGED held, mstage' # "callback",
         \/ UNCHANGED rx /\ pool' = pool - Cardinality(done)
         \/ /\ rx[b] = "buffer" /\ rx' = [rx EXCEPT ![b] = "none"]
            /\ pool' = pool - 1 - Cardinality(done)
  PROVE  BufInv'
  <1>1. /\ IsFiniteSet(BuffersInTx')
        /\ Cardinality(BuffersInTx') = Cardinality(BuffersInTx) - Cardinality(done)
        /\ Cardinality(BuffersInTx) \in Nat /\ Cardinality(done) \in Nat
    BY TxBuffersRemoved DEF BufInv
  <1>2. Cardinality(BuffersInRx) \in Nat /\ held \in Nat /\ pool \in Int
        /\ NUM_BUFFERS \in Nat
    BY RxIsFinite, SizesAssumption DEF TypeInv, TypeOK
  <1>3. /\ pool = held + Cardinality(BuffersInTx) + Cardinality(BuffersInRx)
        /\ pool <= NUM_BUFFERS
    BY DEF BufInv, BufferConservation
  <1>4. CASE UNCHANGED rx /\ pool' = pool - Cardinality(done)
    <2>1. BuffersInRx' = BuffersInRx
      BY <1>4 DEF BuffersInRx
    <2>2. BufferConservation'
      BY <1>1, <1>2, <1>3, <1>4, <2>1 DEF BufferConservation
    <2> QED
      BY <1>1, <2>2 DEF BufInv, CallbackHasBuffer
  <1>5. CASE /\ rx[b] = "buffer" /\ rx' = [rx EXCEPT ![b] = "none"]
             /\ pool' = pool - 1 - Cardinality(done)
    <2>1. Cardinality(BuffersInRx') = Cardinality(BuffersInRx) - 1
      BY <1>5, RxBufferGone
    <2>2. BufferConservation'
      BY <1>1, <1>2, <1>3, <1>5, <2>1 DEF BufferConservation
    <2> QED
      BY <1>1, <2>2 DEF BufInv, CallbackHasBuffer
  <1> QED
    BY <1>4, <1>5

LEMMA SendingKeepsBuffers ==
  ASSUME TypeInv, Core, TxInv, BufInv, NEW c \in Commands, Receive(c), Sent(c),
         UNCHANGED <<held, rx>>
  PROVE  BufInv'
  <1> DEFINE r == [op |-> c.op, id |-> c.id]
  <1>1. c.broker \in Brokers /\ r \in Requests /\ r \notin tx[c.broker]
    BY CommandIdIsNew DEF Commands, Requests
  <1>2. /\ pool < NUM_BUFFERS /\ pool' = pool + 1
        /\ tx' = [tx EXCEPT ![c.broker] = @ \cup {r}]
    BY DEF Sent
  <1> HIDE DEF r
  <1>3. /\ IsFiniteSet(BuffersInTx')
        /\ Cardinality(BuffersInTx') = Cardinality(BuffersInTx) + 1
    BY <1>1, <1>2, TxBufferAdded DEF BufInv
  <1>4. Cardinality(BuffersInRx) \in Nat /\ held \in Nat /\ pool \in Int
        /\ NUM_BUFFERS \in Nat /\ Cardinality(BuffersInTx) \in Nat
    BY RxIsFinite, SizesAssumption, FS_CardinalityType DEF TypeInv, TypeOK, BufInv
  <1>5. BuffersInRx' = BuffersInRx
    BY DEF BuffersInRx
  <1>6. BufferConservation'
    BY <1>2, <1>3, <1>4, <1>5 DEF BufInv, BufferConservation
  <1>7. mstage' # "callback"
    BY DEF Receive, ToManageConnections
  <1> QED
    BY <1>3, <1>6, <1>7 DEF BufInv, CallbackHasBuffer

LEMMA BuffersOfCommand ==
  ASSUME TypeInv, Core, TxInv, BufInv, NEW c \in Commands \cup {Service},
         \/ ReceiveTooLate(c) \/ InitiateMQTTConnect(c) \/ InitiateMQTTDisconnect(c)
         \/ InitiateMQTTOperation(c) \/ InitiateMQTTPublish0(c)
  PROVE  BufInv'
  <1> USE DEF connVars, envVars
  <1>1. c.broker \in Brokers
    BY ConstantsAreTyped DEF Commands, Service
  <1>2. Receive(c) /\ mstage' # "callback"
    BY DEF ReceiveTooLate, InitiateMQTTConnect, InitiateMQTTDisconnect, InitiateMQTTOperation,
       InitiateMQTTPublish0, Receive, ToManageConnections
  <1>3. CASE ReceiveTooLate(c) \/ InitiateMQTTPublish0(c)
    BY <1>2, <1>3, BufFrame DEF ReceiveTooLate, InitiateMQTTPublish0
  <1>4. CASE InitiateMQTTDisconnect(c)
    BY <1>1, <1>2, <1>4, ResetKeepsBuffers DEF InitiateMQTTDisconnect, MQTT_Disconnect
  <1>5. CASE InitiateMQTTConnect(c) \/ InitiateMQTTOperation(c)
    <2>1. c \in Commands /\ UNCHANGED <<held, rx>> /\ (Sent(c) \/ NotSent(c))
      BY <1>5 DEF InitiateMQTTConnect, InitiateMQTTOperation, Service, AckedOps
    <2>2. CASE NotSent(c)
      BY <1>2, <2>1, <2>2, BufFrame DEF NotSent
    <2>3. CASE Sent(c)
      BY <1>2, <2>1, <2>3, SendingKeepsBuffers
    <2> QED
      BY <2>1, <2>2, <2>3
  <1> QED
    BY <1>3, <1>4, <1>5

LEMMA BuffersOfManage ==
  ASSUME TypeInv, BufInv, NEW b \in Brokers, ManageConnection(b)
  PROVE  BufInv'
  <1> USE DEF connVars, envVars
  <1>1. CASE ReceivedNothing(b) \/ PeriodicNothing(b)
    BY <1>1, BufFrame DEF ReceivedNothing, PeriodicNothing, ToPeriodic, ToNextBroker
  <1>2. CASE SocketError(b) \/ ReceivedRefusalOrMalformed(b) \/ PeriodicConnectTimeout(b)
    BY <1>2, ResetKeepsBuffers DEF SocketError, MQTT_Disconnect, ReceivedRefusalOrMalformed,
       PeriodicConnectTimeout, ToPeriodic, ToNextBroker
  <1>3. ASSUME NEW ack \in Requests, ReceivedACK(b, ack) \/ ReceivedSUBACKFailure(b, ack)
        PROVE  BufInv'
    <2> DEFINE done == MatchingTx(b, ack)
    <2>1. done \in SUBSET tx[b]
      BY DEF MatchingTx
    <2>2. rx[b] = "buffer" /\ ReturnBuffers(b, done) /\ UNCHANGED held /\ mstage' # "callback"
      BY <1>3 DEF ReceivedACK, ReceivedSUBACKFailure, ReceivedPacket, ToPeriodic
    <2> HIDE DEF done
    <2> QED
      BY <2>1, <2>2, ReturnKeepsBuffers DEF ReturnBuffers
  <1>4. ASSUME NEW late \in SUBSET tx[b], PeriodicTimeout(b, late) PROVE BufInv'
    BY <1>4, ReturnKeepsBuffers DEF PeriodicTimeout, ToNextBroker
  <1>5. CASE ReceivedHeader(b)
    <2>1. rx[b] = "none" /\ UNCHANGED <<held, tx>> /\ mstage' # "callback"
      BY <1>5 DEF ReceivedHeader, ToPeriodic
    <2>2. CASE rx' = [rx EXCEPT ![b] = "buffer"] /\ pool < NUM_BUFFERS /\ pool' = pool + 1
      <3>1. Cardinality(BuffersInRx') = Cardinality(BuffersInRx) + 1
        BY <2>1, <2>2, RxBufferTaken
      <3>2. Cardinality(BuffersInRx) \in Nat /\ held \in Nat /\ pool \in Int
            /\ NUM_BUFFERS \in Nat /\ Cardinality(BuffersInTx) \in Nat
        BY RxIsFinite, SizesAssumption, FS_CardinalityType DEF TypeInv, TypeOK, BufInv
      <3>3. BuffersInTx' = BuffersInTx
        BY <2>1 DEF BuffersInTx
      <3>4. BufferConservation'
        BY <2>1, <2>2, <3>1, <3>2, <3>3 DEF BufInv, BufferConservation
      <3> QED
        BY <2>1, <3>3, <3>4 DEF BufInv, CallbackHasBuffer
    <2>3. CASE rx' = [rx EXCEPT ![b] = "drop"] /\ UNCHANGED pool
      <3>1. BuffersInRx' = BuffersInRx /\ BuffersInTx' = BuffersInTx
        BY <2>1, <2>3 DEF BuffersInRx, BuffersInTx, TypeInv, TypeOK
      <3> QED
        BY <2>1, <2>3, <3>1 DEF BufInv, BufferConservation, CallbackHasBuffer
    <2> QED
      BY <1>5, <2>2, <2>3 DEF ReceivedHeader
  <1>6. CASE DroppedPacket(b)
    <2>1. /\ rx[b] = "drop" /\ rx' = [rx EXCEPT ![b] = "none"]
          /\ UNCHANGED <<held, tx, pool>> /\ mstage' # "callback"
      BY <1>6 DEF DroppedPacket, ToPeriodic
    <2>2. BuffersInRx' = BuffersInRx /\ BuffersInTx' = BuffersInTx
      BY <2>1 DEF BuffersInRx, BuffersInTx, TypeInv, TypeOK
    <2> QED
      BY <2>1, <2>2 DEF BufInv, BufferConservation, CallbackHasBuffer
  <1>7. CASE ReceivedPublish(b)
    <2>1. /\ rx[b] = "buffer" /\ mbroker = b
          /\ UNCHANGED <<held, tx, rx, pool, mbroker>>
      BY <1>7 DEF ReceivedPublish, ReceivedPacket, Managing
    <2>2. BuffersInRx' = BuffersInRx /\ BuffersInTx' = BuffersInTx
      BY <2>1 DEF BuffersInRx, BuffersInTx
    <2> QED
      BY <2>1, <2>2 DEF BufInv, BufferConservation, CallbackHasBuffer
  <1>8. CASE CallbackReturns(b)
    <2>1. /\ rx[b] = "buffer" /\ rx' = [rx EXCEPT ![b] = "none"]
          /\ UNCHANGED tx /\ mstage' # "callback"
      BY <1>8 DEF CallbackReturns, Managing, Running, ToPeriodic, BufInv, CallbackHasBuffer
    <2>2. \/ held' = held + 1 /\ UNCHANGED pool
          \/ pool' = pool - 1 /\ UNCHANGED held
      BY <1>8 DEF CallbackReturns
    <2>3. Cardinality(BuffersInRx') = Cardinality(BuffersInRx) - 1
      BY <2>1, RxBufferGone
    <2>4. Cardinality(BuffersInRx) \in Nat /\ held \in Nat /\ pool \in Int
          /\ NUM_BUFFERS \in Nat /\ Cardinality(BuffersInTx) \in Nat
      BY RxIsFinite, SizesAssumption, FS_CardinalityType DEF TypeInv, TypeOK, BufInv
    <2>5. BuffersInTx' = BuffersInTx
      BY <2>1 DEF BuffersInTx
    <2>6. BufferConservation'
      BY <2>2, <2>3, <2>4, <2>5 DEF BufInv, BufferConservation
    <2> QED
      BY <2>1, <2>5, <2>6 DEF BufInv, CallbackHasBuffer
  <1> QED
    BY <1>1, <1>2, <1>3, <1>4, <1>5, <1>6, <1>7, <1>8 DEF ManageConnection

LEMMA BufInvInit == Init => BufInv
  <1> SUFFICES ASSUME Init PROVE BufInv
    OBVIOUS
  <1>1. BuffersInTx = {} /\ BuffersInRx = {}
    BY DEF Init, BuffersInTx, BuffersInRx
  <1>2. IsFiniteSet(BuffersInTx) /\ Cardinality(BuffersInTx) = 0 /\ Cardinality(BuffersInRx) = 0
    BY <1>1, FS_EmptySet
  <1> QED
    BY <1>2, SizesAssumption DEF Init, BufInv, BufferConservation, CallbackHasBuffer

LEMMA BufInvStep == ServiceInv /\ TxInv /\ BufInv /\ [Next]_vars => BufInv'
  <1> SUFFICES ASSUME TypeInv, Core, TxInv, BufInv, [Next]_vars PROVE BufInv'
    BY DEF ServiceInv
  <1> USE DEF connVars, envVars
  <1>1. ASSUME NEW t \in Callers, CallerStep(t) PROVE BufInv'
    BY <1>1, BufFrame DEF CallerStep, Enqueue, EnqueueTimesOut, NotifyWait
  <1>2. ASSUME NEW t \in Tasks, App(t) PROVE BufInv'
    BY <1>2, BufFrame DEF App, SendCommand, Create, Delete, ForeignNotification
  <1>3. CASE ReturnBuffer
    <2>1. held > 0 /\ held' = held - 1 /\ pool' = pool - 1
          /\ UNCHANGED <<tx, rx, mstage, mbroker>>
      BY <1>3 DEF ReturnBuffer
    <2>2. BuffersInRx' = BuffersInRx /\ BuffersInTx' = BuffersInTx
      BY <2>1 DEF BuffersInRx, BuffersInTx
    <2>3. Cardinality(BuffersInRx) \in Nat /\ held \in Nat /\ pool \in Int
          /\ NUM_BUFFERS \in Nat /\ Cardinality(BuffersInTx) \in Nat
      BY RxIsFinite, SizesAssumption, FS_CardinalityType DEF TypeInv, TypeOK, BufInv
    <2> QED
      BY <2>1, <2>2, <2>3 DEF BufInv, BufferConservation, CallbackHasBuffer
  <1>4. CASE SocketWakeup \/ CallFromCallback
    BY <1>4, BufFrame DEF SocketWakeup, CallFromCallback, SendCommand
  <1>5. CASE MqttTaskStep
    <2>1. CASE ReceiveTimesOut
      BY <2>1, BufFrame DEF ReceiveTimesOut, ToManageConnections
    <2> QED
      BY <1>5, <2>1, BuffersOfCommand, BuffersOfManage DEF MqttTaskStep, ExecuteCommand
  <1>6. CASE UNCHANGED vars
    BY <1>6, BufFrame DEF vars
  <1> QED
    BY <1>1, <1>2, <1>3, <1>4, <1>5, <1>6 DEF Next

\* No receive or transmit buffer of the pool leaks, none is returned twice, and the
\* pool is never overdrawn, through every return path of the agent and the library.
THEOREM NoBufferLeaks == Spec => []BufferConservation
  <1>1. BufInv => BufferConservation
    BY DEF BufInv
  <1> QED
    BY <1>1, ServiceInvInit, ServiceInvStep, TxInvInit, TxInvStep, BufInvInit, BufInvStep,
       PTL DEF Spec

-----------------------------------------------------------------------------
(* The socket, the state of the connection and what the owner believes.     *)
(* That the owner's Connect never finds the socket open rests on all three: *)
(* a socket is open only while the owner knows it or is about to learn it.  *)

\* What the library's context and the agent's socket have to do with each other.
ContextMatches(b) ==
    /\ sock[b] <=> state[b] # "NotConnected"
    /\ ~sock[b] => tx[b] = {} /\ rx[b] = "none" /\ slots[b] = {}
    /\ state[b] = "InProgress" <=> \E r \in tx[b] : r.op = "Connect"
    /\ \A r \in tx[b] : r.op # "Disconnect"

ContextInv == \A b \in Brokers : ContextMatches(b)

\* Only the owner of a connection connects and disconnects it, and it connects
\* only what it believes to be down.
OwnerInv ==
    \A t \in Callers : pc[t] # "ready" =>
        /\ call[t].op \in {"Connect", "Disconnect"} => owner[call[t].broker] = t
        /\ call[t].op = "Connect" => ~up[call[t].broker]

\* The caller's Connect is under way, or has succeeded, whether the caller is told
\* of it or not.
Connecting(t, b) ==
    /\ pc[t] = "wait" /\ call[t].op = "Connect" /\ call[t].broker = b
    /\ ~InQueue(t)
    /\ Answered(t) => notif[t].code = "pass"

OpenInv ==
    /\ \A b \in Brokers : sock[b] => up[b] \/ \E t \in Callers : Connecting(t, b)
    /\ \A t \in Callers :
          pc[t] = "wait" /\ call[t].op = "Disconnect" /\ notif[t].code = "pass"
          => ~sock[call[t].broker]

SockInv == ContextInv /\ OwnerInv /\ OpenInv /\ NeverHalted

\* What ConnectFailureMeansClosed says of a step.
FailureIsClosed ==
    \A t \in Callers :
        /\ call[t].op = "Connect" /\ pc[t] = "wait"
        /\ notif[t] = NoReply /\ Answered(t)' /\ notif'[t].code # "pass"
        => ~sock'[call[t].broker]

LEMMA NobodyIsTold ==
  ASSUME TypeInv, UNCHANGED <<pc, call, notif>>
  PROVE  FailureIsClosed
  BY ForeignIsNoAnswer DEF FailureIsClosed, Answered

LEMMA NoReplyIsNoPass == NoReply.code # "pass"
  BY DEF NoReply

LEMMA NobodyIsNotified ==
  ASSUME TypeInv PROVE notif = Notified({})
  <1>1. notif = [t \in Callers |-> notif[t]]
    BY DEF TypeInv, TypeOK
  <1>2. Notified({}) = [t \in Callers |-> Notified({})[t]]
    BY DEF Notified
  <1>3. ASSUME NEW t \in Callers PROVE notif[t] = Notified({})[t]
    BY NotifiedTask, Zenon
  <1>4. [t \in Callers |-> notif[t]] = [t \in Callers |-> Notified({})[t]]
    BY <1>3, Zenon
  <1> QED
    BY <1>1, <1>2, <1>4, Zenon

\* The code a task is answered with is that of a reply to it.
LEMMA CodeOfAnswer ==
  ASSUME NEW R, notif' = Notified(R), NEW t \in Callers
  PROVE  /\ \/ notif'[t] = notif[t]
            \/ notif[t] = NoReply /\ \E r \in R : r.task = t /\ notif'[t].code = r.code
         /\ notif[t] = NoReply /\ (\E r \in R : r.task = t)
            => \E r \in R : r.task = t /\ notif'[t].code = r.code
  <1>1. CASE /\ notif[t] # NoReply \/ \A r \in R : r.task # t
             /\ Notified(R)[t] = notif[t]
    BY <1>1
  <1>2. CASE /\ notif[t] = NoReply
             /\ \E r \in R : r.task = t /\ Notified(R)[t] = [id |-> r.id, code |-> r.code]
    <2>1. PICK r \in R : r.task = t /\ Notified(R)[t] = [id |-> r.id, code |-> r.code]
      BY <1>2
    <2>2. notif'[t].code = r.code
      BY <2>1
    <2> QED
      BY <1>2, <2>1, <2>2
  <1> QED
    BY <1>1, <1>2, NotifiedTask, Zenon

\* A step of the MQTT task on connection b that sends the replies R and opens no
\* socket.
LEMMA RepliesAreTrue ==
  ASSUME TypeInv, Core, OpenInv, NEW b \in Brokers, NEW R,
         UNCHANGED <<pc, call>>, notif' = Notified(R), Queued' \subseteq Queued,
         \A d \in Brokers \ {b} : sock'[d] = sock[d] /\ up'[d] = up[d],
         sock'[b] => sock[b] /\ up'[b] = up[b],
         \A r \in R : r.task \in Callers =>
            /\ call[r.task].op = "Connect" /\ r.code # "pass" => ~sock'[call[r.task].broker]
            /\ call[r.task].op = "Disconnect" /\ r.code = "pass" => ~sock'[call[r.task].broker]
  PROVE  OpenInv' /\ FailureIsClosed
  <1>1. ASSUME NEW t \in Callers
        PROVE  /\ \/ notif'[t] = notif[t]
                  \/ notif[t] = NoReply /\ \E r \in R : r.task = t /\ notif'[t].code = r.code
               /\ notif[t] = NoReply /\ (\E r \in R : r.task = t)
                  => \E r \in R : r.task = t /\ notif'[t].code = r.code
    BY CodeOfAnswer, Zenon
  <1>2. \A d \in Brokers : sock'[d] => sock[d]
    OBVIOUS
  <1>3. FailureIsClosed
    <2> SUFFICES ASSUME NEW t \in Callers, call[t].op = "Connect", pc[t] = "wait",
                        notif[t] = NoReply, Answered(t)', notif'[t].code # "pass"
                 PROVE  ~sock'[call[t].broker]
      BY DEF FailureIsClosed
    <2>1. ~Answered(t)
      BY ForeignIsNoAnswer
    <2>2. notif'[t] # notif[t]
      BY <2>1 DEF Answered
    <2> QED
      BY <1>1, <2>2
  <1>4. ASSUME NEW t \in Callers, pc[t] = "wait", call[t].op = "Disconnect",
               notif'[t].code = "pass"
        PROVE  ~sock'[call[t].broker]
    <2>1. call[t].broker \in Brokers
      BY <1>4 DEF TypeInv, CallsAreCommands, Commands
    <2> QED
      BY <1>1, <1>2, <1>4, <2>1 DEF OpenInv
  <1>5. ASSUME NEW d \in Brokers, sock'[d], ~up'[d]
        PROVE  \E t \in Callers : Connecting(t, d)'
    <2>1. sock[d] /\ ~up[d]
      BY <1>2, <1>5
    <2>2. PICK t \in Callers : Connecting(t, d)
      BY <2>1 DEF OpenInv
    <2>3. pc[t] = "wait" /\ call[t].op = "Connect" /\ call[t].broker = d /\ ~InQueue(t)'
      BY <2>2 DEF Connecting, InQueue
    <2>4. ASSUME Answered(t)' PROVE notif'[t].code = "pass"
      <3>1. CASE notif'[t] = notif[t]
        BY <2>2, <2>4, <3>1 DEF Connecting, Answered
      <3>2. CASE \E r \in R : r.task = t /\ notif'[t].code = r.code
        BY <1>5, <2>3, <3>2
      <3> QED
        BY <1>1, <3>1, <3>2
    <2> QED
      BY <2>3, <2>4 DEF Connecting
  <1>6. OpenInv'
    BY <1>4, <1>5 DEF OpenInv
  <1> QED
    BY <1>3, <1>6

\* Only connection b changes.
LEMMA ContextOfOne ==
  ASSUME ContextInv, NEW b \in Brokers, ContextMatches(b)',
         \A d \in Brokers \ {b} : /\ sock'[d] = sock[d] /\ state'[d] = state[d]
                                  /\ tx'[d] = tx[d] /\ rx'[d] = rx[d] /\ slots'[d] = slots[d]
  PROVE  ContextInv'
  BY DEF ContextInv, ContextMatches

LEMMA ContextFrame ==
  ASSUME ContextInv, UNCHANGED <<sock, state, tx, rx, slots>>
  PROVE  ContextInv'
  BY DEF ContextInv, ContextMatches

\* A step that leaves the calls and the clients alone, but may end connections.
LEMMA OwnerKept ==
  ASSUME TypeInv, OwnerInv, UNCHANGED <<pc, call, owner>>,
         \A d \in Brokers : up'[d] => up[d]
  PROVE  OwnerInv'
  BY DEF OwnerInv, TypeInv, CallsAreCommands, Commands

\* Connection b ends: MQTT_Disconnect, or a disconnect the library finds out.
LEMMA ClosingIsClean ==
  ASSUME TypeInv, ContextInv, NEW b \in Brokers, NEW also,
         MQTT_Disconnect(b, also) \/ (ResetContext(b) /\ ProcessDisconnect(b, also))
  PROVE  /\ ContextInv' /\ ~sock'[b]
         /\ \A d \in Brokers \ {b} : sock'[d] = sock[d] /\ up'[d] = up[d] /\ slots'[d] = slots[d]
         /\ \A d \in Brokers : up'[d] => up[d]
  <1>1. ResetContext(b)
    BY DEF MQTT_Disconnect
  <1>2. /\ state'[b] = "NotConnected" /\ tx'[b] = {} /\ rx'[b] = "none"
        /\ \A d \in Brokers \ {b} : state'[d] = state[d] /\ tx'[d] = tx[d] /\ rx'[d] = rx[d]
    BY <1>1 DEF ResetContext, TypeInv, TypeOK
  <1>3. CASE ProcessDisconnect(b, also)
    <2>1. /\ sock'[b] = FALSE /\ slots'[b] = {}
          /\ \A d \in Brokers \ {b} : sock'[d] = sock[d] /\ up'[d] = up[d] /\ slots'[d] = slots[d]
          /\ \A d \in Brokers : up'[d] => up[d]
      BY <1>3 DEF ProcessDisconnect, TypeInv, TypeOK
    <2>2. ContextMatches(b)'
      BY <1>2, <2>1 DEF ContextMatches
    <2> QED
      BY <1>2, <2>1, <2>2, ContextOfOne
  <1>4. CASE ~IsLive(b) /\ UNCHANGED <<up, sock, atBroker, slots>>
    <2>1. state[b] = "NotConnected"
      BY <1>4 DEF IsLive, TypeInv, TypeOK
    <2>2. sock[b] = FALSE /\ slots[b] = {}
      BY <2>1 DEF ContextInv, ContextMatches, TypeInv, TypeOK
    <2>3. ContextMatches(b)'
      BY <1>2, <1>4, <2>2 DEF ContextMatches
    <2> QED
      BY <1>2, <1>4, <2>2, <2>3, ContextOfOne
  <1> QED
    BY <1>3, <1>4 DEF MQTT_Disconnect

\* A Connect that reaches the MQTT task finds the socket closed.
LEMMA ConnectFindsClosed ==
  ASSUME TypeInv, Core, OwnerInv, OpenInv, NEW c \in Commands, Receive(c), c.op = "Connect"
  PROVE  ~sock[c.broker]
  <1>1. /\ c.task \in Callers /\ pc[c.task] = "wait" /\ call[c.task] = c
        /\ InQueue(c.task)
    BY CommandOf, QueueAfterReceive DEF InQueue
  <1>2. c.broker \in Brokers /\ ~up[c.broker] /\ owner[c.broker] = c.task
    BY <1>1 DEF OwnerInv, Commands
  <1>3. ASSUME NEW t \in Callers, Connecting(t, c.broker) PROVE FALSE
    <2>1. owner[c.broker] = t
      BY <1>3 DEF Connecting, OwnerInv
    <2>2. t = c.task
      BY <1>2, <2>1
    <2> QED
      BY <1>1, <1>3, <2>2 DEF Connecting
  <1> QED
    BY <1>2, <1>3 DEF OpenInv

\* The steps that execute a command.
LEMMA SocketOfConnect ==
  ASSUME TypeInv, Core, TxInv, SockInv, NEW c \in Commands \cup {Service},
         InitiateMQTTConnect(c)
  PROVE  SockInv' /\ FailureIsClosed
  <1> USE DEF connVars, envVars, appVars
  <1> DEFINE b == c.broker
  <1>1. c \in Commands /\ Receive(c) /\ c.op = "Connect" /\ b \in Brokers
    BY DEF InitiateMQTTConnect, Service, Commands
  <1>2. /\ c.task \in Callers /\ pc[c.task] = "wait" /\ call[c.task] = c
        /\ ~Answered(c.task) /\ Queued' = Queued \ {c}
    BY <1>1, CommandOf, QueueAfterReceive
  <1>3. sock[b] = FALSE
    BY <1>1, ConnectFindsClosed DEF SockInv, TypeInv, TypeOK
  <1>4. UNCHANGED <<pc, call, owner, up, rx>> /\ OwnerInv'
    BY OwnerKept DEF InitiateMQTTConnect, SockInv
  <1>5. NeverHalted'
    BY <1>3 DEF InitiateMQTTConnect, NeverHalted
  <1>6. CASE /\ NotSent(c) /\ UNCHANGED state
             /\ sock' = [sock EXCEPT ![b] = SocketAfter(@, TRUE, FALSE)]
    <2>1. sock' = sock /\ slots' = slots /\ tx' = tx
      BY <1>1, <1>3, <1>6 DEF SocketAfter, NotSent, TypeInv, TypeOK
    <2> DEFINE R == {Reply(c, "fail")}
    <2>2. notif' = Notified(R) /\ \A r \in R : r.task = c.task /\ r.code = "fail"
      BY <1>6 DEF NotSent, Reply
    <2>3. \A r \in R : call[r.task] = c /\ ~sock'[call[r.task].broker] /\ r.code # "pass"
      BY <1>2, <1>3, <2>1, <2>2
    <2> HIDE DEF R
    <2>4. OpenInv' /\ FailureIsClosed
      BY <1>1, <1>2, <1>4, <2>1, <2>2, <2>3, RepliesAreTrue DEF SockInv
    <2>5. ContextInv'
      BY <1>4, <1>6, <2>1, ContextFrame DEF SockInv
    <2> QED
      BY <1>4, <1>5, <2>4, <2>5 DEF SockInv
  <1>7. CASE /\ Sent(c) /\ state' = [state EXCEPT ![b] = "InProgress"] /\ UNCHANGED notif
             /\ state[b] = "NotConnected" /\ sock' = [sock EXCEPT ![b] = SocketAfter(@, TRUE, TRUE)]
    <2> DEFINE r1 == [op |-> c.op, id |-> c.id]
               w1 == [task |-> c.task, id |-> c.id]
    <2>1. /\ sock'[b] = TRUE /\ state'[b] = "InProgress"
          /\ tx'[b] = tx[b] \cup {r1} /\ slots'[b] = slots[b] \cup {w1}
          /\ \A d \in Brokers \ {b} : /\ sock'[d] = sock[d] /\ state'[d] = state[d]
                                      /\ tx'[d] = tx[d] /\ slots'[d] = slots[d]
      BY <1>1, <1>7 DEF SocketAfter, Sent, TypeInv, TypeOK
    <2>2. ContextMatches(b)
      BY <1>1 DEF SockInv, ContextInv
    <2>3. ContextMatches(b)'
      <3>1. r1 \in tx'[b] /\ r1.op = "Connect"
        BY <1>1, <2>1
      <3> HIDE DEF r1, w1, b
      <3> QED
        BY <2>1, <2>2, <3>1 DEF ContextMatches
    <2>4. ContextInv'
      BY <1>1, <1>4, <2>1, <2>3, ContextOfOne DEF SockInv
    <2>5. Connecting(c.task, b)'
      BY <1>1, <1>2, <1>4, <1>7 DEF Connecting, InQueue, Answered
    <2>6. ASSUME NEW d \in Brokers \ {b}, NEW t \in Callers, Connecting(t, d)
          PROVE  Connecting(t, d)'
      BY <1>2, <1>4, <1>7, <2>6 DEF Connecting, InQueue, Answered
    <2>7. ASSUME NEW t \in Callers, pc[t] = "wait", call[t].op = "Disconnect",
                 notif[t].code = "pass"
          PROVE  ~sock'[call[t].broker]
      <3>1. call[t].broker \in Brokers
        BY <2>7 DEF TypeInv, CallsAreCommands, Commands
      <3>2. call[t].broker # b
        <4>1. owner[call[t].broker] = t
          BY <2>7 DEF SockInv, OwnerInv
        <4>2. owner[b] = c.task
          BY <1>1, <1>2 DEF SockInv, OwnerInv
        <4>3. t # c.task
          BY <1>1, <1>2, <2>7
        <4> QED
          BY <4>1, <4>2, <4>3
      <3> QED
        BY <2>1, <2>7, <3>1, <3>2 DEF SockInv, OpenInv
    <2>8. OpenInv'
      BY <1>1, <1>2, <1>4, <1>7, <2>1, <2>5, <2>6, <2>7 DEF SockInv, OpenInv
    <2>9. FailureIsClosed
      BY <1>4, <1>7, NobodyIsTold
    <2> QED
      BY <1>4, <1>5, <2>4, <2>8, <2>9 DEF SockInv
  <1>8. \/ NotSent(c) /\ UNCHANGED state /\ sock' = [sock EXCEPT ![b] = SocketAfter(@, TRUE, FALSE)]
        \/ /\ Sent(c) /\ state' = [state EXCEPT ![b] = "InProgress"] /\ UNCHANGED notif
           /\ state[b] = "NotConnected" /\ sock' = [sock EXCEPT ![b] = SocketAfter(@, TRUE, TRUE)]
    BY <1>1, <1>3 DEF InitiateMQTTConnect, SocketAfter, TypeInv, TypeOK
  <1> QED
    BY <1>6, <1>7, <1>8

LEMMA SocketOfCommand ==
  ASSUME TypeInv, Core, TxInv, SockInv, NEW c \in Commands \cup {Service},
         \/ ReceiveTooLate(c) \/ InitiateMQTTConnect(c) \/ InitiateMQTTDisconnect(c)
         \/ InitiateMQTTOperation(c) \/ InitiateMQTTPublish0(c)
  PROVE  SockInv' /\ FailureIsClosed
  <1> USE DEF connVars, envVars, appVars
  <1> DEFINE b == c.broker
  <1>1. b \in Brokers
    BY ConstantsAreTyped DEF Commands, Service
  <1>2. c.task \in Callers => c \in Commands
    BY ConstantsAreTyped DEF Commands, Service
  <1>3. ASSUME Receive(c), c \in Commands
        PROVE  c.task \in Callers /\ pc[c.task] = "wait" /\ call[c.task] = c
    BY <1>3, CommandOf
  <1>4. Receive(c) => Queued' \subseteq Queued
    BY QueueAfterReceive
  <1>5. CASE ReceiveTooLate(c)
    <2> DEFINE R == {Reply(c, "timeout")}
    <2>1. /\ Receive(c) /\ notif' = Notified(R)
          /\ UNCHANGED <<pc, call, owner, up, halted, sock, state, slots, tx, rx>>
      BY <1>5 DEF ReceiveTooLate
    <2>2. ASSUME NEW r \in R, r.task \in Callers
          PROVE  /\ r.code # "pass" /\ call[r.task] = c
                 /\ c.op = "Connect" => ~sock'[c.broker]
      <3>1. r.task = c.task /\ r.code = "timeout" /\ c \in Commands
        BY <1>2, <2>2 DEF Reply
      <3> QED
        BY <1>3, <2>1, <3>1, ConnectFindsClosed DEF SockInv
    <2> HIDE DEF R
    <2>3. OpenInv' /\ FailureIsClosed
      BY <1>1, <1>4, <2>1, <2>2, RepliesAreTrue DEF SockInv
    <2> QED
      BY <2>1, <2>3, ContextFrame, OwnerKept DEF SockInv, NeverHalted
  <1>6. CASE InitiateMQTTConnect(c)
    BY <1>6, SocketOfConnect
  <1>7. CASE InitiateMQTTDisconnect(c)
    <2>1. PICK code \in {"pass", "fail"} : MQTT_Disconnect(b, {Reply(c, code)})
      BY <1>7 DEF InitiateMQTTDisconnect
    <2>2. Receive(c) /\ c.op = "Disconnect" /\ UNCHANGED <<pc, call, owner, halted>>
      BY <1>7 DEF InitiateMQTTDisconnect
    <2>3. c \in Commands
      BY <2>2 DEF Service
    <2>4. /\ ContextInv' /\ ~sock'[b]
          /\ \A d \in Brokers \ {b} : sock'[d] = sock[d] /\ up'[d] = up[d] /\ slots'[d] = slots[d]
          /\ \A d \in Brokers : up'[d] => up[d]
      BY <1>1, <2>1, ClosingIsClean DEF SockInv
    <2>5. PICK R : /\ notif' = Notified(R)
                   /\ \A r \in R : r.task = c.task \/ \E w \in slots[b] : r.task = w.task
      BY <2>1 DEF MQTT_Disconnect, ProcessDisconnect, Reply
    <2>6. ASSUME NEW r \in R PROVE call[r.task].broker = b
      BY <1>1, <1>3, <2>2, <2>3, <2>5, WaiterOf DEF Core
    <2>7. OpenInv' /\ FailureIsClosed
      BY <1>1, <1>4, <2>2, <2>4, <2>5, <2>6, RepliesAreTrue DEF SockInv
    <2> QED
      BY <2>2, <2>4, <2>7, OwnerKept DEF SockInv, NeverHalted
  <1>8. CASE InitiateMQTTPublish0(c)
    <2>1. PICK code \in {"pass", "fail"} : notif' = Notified({Reply(c, code)})
      BY <1>8 DEF InitiateMQTTPublish0
    <2> DEFINE R == {Reply(c, code)}
    <2>2. /\ Receive(c) /\ c.op = "Publish0"
          /\ UNCHANGED <<pc, call, owner, up, halted, sock, state, slots, tx, rx>>
      BY <1>8 DEF InitiateMQTTPublish0
    <2>3. ASSUME NEW r \in R PROVE call[r.task].op = "Publish0"
      <3>1. r.task = c.task /\ c \in Commands
        BY <2>2 DEF Reply, Service
      <3> QED
        BY <1>3, <2>2, <3>1
    <2>4. notif' = Notified(R)
      BY <2>1
    <2> HIDE DEF R
    <2>5. OpenInv' /\ FailureIsClosed
      BY <1>1, <1>4, <2>2, <2>3, <2>4, RepliesAreTrue DEF SockInv
    <2> QED
      BY <2>2, <2>5, ContextFrame, OwnerKept DEF SockInv, NeverHalted
  <1>9. CASE InitiateMQTTOperation(c)
    <2>1. /\ Receive(c) /\ c \in Commands /\ c.op \in AckedOps
          /\ UNCHANGED <<pc, call, owner, up, halted, sock, state, rx>>
      BY <1>9 DEF InitiateMQTTOperation, Service, AckedOps
    <2>2. PICK R : notif' = Notified(R) /\ \A r \in R : r.task = c.task
      <3>1. CASE NotSent(c)
        BY <3>1 DEF NotSent, Reply
      <3>2. CASE UNCHANGED notif
        BY <3>2, NobodyIsNotified
      <3> QED
        BY <1>9, <3>1, <3>2 DEF InitiateMQTTOperation
    <2>3. ASSUME NEW r \in R PROVE call[r.task].op \notin {"Connect", "Disconnect"}
      BY <1>3, <2>1, <2>2 DEF AckedOps
    <2>4. /\ slots[b] \subseteq slots'[b]
          /\ \A d \in Brokers \ {b} : slots'[d] = slots[d] /\ tx'[d] = tx[d]
      BY <1>1, <1>9 DEF InitiateMQTTOperation, Sent, NotSent, TypeInv, TypeOK
    <2>5. OpenInv' /\ FailureIsClosed
      BY <1>1, <1>4, <2>1, <2>2, <2>3, <2>4, RepliesAreTrue DEF SockInv
    <2>6. ContextInv'
      <3>1. CASE NotSent(c)
        BY <2>1, <3>1, ContextFrame DEF NotSent, SockInv
      <3>2. CASE state[b] = "Connected" /\ Sent(c)
        <4> DEFINE r1 == [op |-> c.op, id |-> c.id]
        <4>1. tx'[b] = tx[b] \cup {r1} /\ r1.op \notin {"Connect", "Disconnect"}
          BY <1>1, <2>1, <3>2 DEF Sent, TypeInv, TypeOK, AckedOps
        <4> HIDE DEF r1
        <4>2. ContextMatches(b)
          BY <1>1 DEF SockInv, ContextInv
        <4>3. ContextMatches(b)'
          BY <1>1, <2>1, <3>2, <4>1, <4>2 DEF ContextMatches
        <4> QED
          BY <1>1, <2>1, <2>4, <4>3, ContextOfOne DEF SockInv
      <3> QED
        BY <1>9, <3>1, <3>2 DEF InitiateMQTTOperation
    <2> QED
      BY <2>1, <2>5, <2>6, OwnerKept DEF SockInv, NeverHalted
  <1> QED
    BY <1>5, <1>6, <1>7, <1>8, <1>9

\* Requests done of connection b are completed or given up; the connection stays.
LEMMA SocketOfRemoval ==
  ASSUME TypeInv, Core, TxInv, SockInv, NEW b \in Brokers, NEW done \in SUBSET tx[b],
         NEW code \in Codes, sock[b], UNCHANGED <<pc, call, queue, owner, up, halted, sock>>,
         tx' = [tx EXCEPT ![b] = @ \ done],
         slots' = [slots EXCEPT ![b] = @ \ UNION {WaitingFor(b, r.id) : r \in done}],
         notif' = Notified({Reply(w, code) : w \in UNION {WaitingFor(b, r.id) : r \in done}}),
         \A d \in Brokers \ {b} : state'[d] = state[d] /\ rx'[d] = rx[d],
         code = "pass" \/ \A r \in done : r.op # "Connect",
         \/ state'[b] = state[b] /\ \A r \in done : r.op # "Connect"
         \/ state'[b] = "Connected" /\ state[b] # "NotConnected"
            /\ \A r \in tx'[b] : r.op # "Connect"
  PROVE  SockInv' /\ FailureIsClosed
  <1> DEFINE W == UNION {WaitingFor(b, r.id) : r \in done}
             R == {Reply(w, code) : w \in W}
  <1>1. /\ tx'[b] = tx[b] \ done /\ slots'[b] = slots[b] \ W
        /\ \A d \in Brokers \ {b} : tx'[d] = tx[d] /\ slots'[d] = slots[d]
    BY DEF TypeInv, TypeOK
  <1>2. ASSUME NEW w \in W
        PROVE  w \in slots[b] /\ \E r \in done : call[w.task].op = r.op
    <2>1. PICK r \in done : w \in WaitingFor(b, r.id)
      OBVIOUS
    <2>2. w \in slots[b] /\ r.id = w.id /\ r \in tx[b]
      BY <2>1 DEF WaitingFor
    <2> QED
      BY <2>2 DEF TxInv, TablesAgree
  <1>3. \A r \in R : r.code = code /\ \E w \in W : r.task = w.task
    BY DEF Reply
  <1>4. notif' = Notified(R)
    OBVIOUS
  <1> HIDE DEF W, R
  <1>5. ContextMatches(b)
    BY DEF SockInv, ContextInv
  <1>6. ASSUME NEW r \in R
        PROVE  /\ call[r.task].op # "Disconnect"
               /\ call[r.task].op = "Connect" => r.code = "pass"
    <2>1. PICK w \in W : r.task = w.task
      BY <1>3
    <2>2. PICK q \in done : call[r.task].op = q.op
      BY <1>2, <2>1
    <2>3. q.op # "Disconnect"
      BY <1>5 DEF ContextMatches
    <2> QED
      BY <1>3, <2>2, <2>3
  <1>7. OpenInv' /\ FailureIsClosed
    <2>1. \A r \in R : r.task \in Callers =>
            /\ call[r.task].op = "Connect" /\ r.code # "pass" => ~sock'[call[r.task].broker]
            /\ call[r.task].op = "Disconnect" /\ r.code = "pass" => ~sock'[call[r.task].broker]
      BY <1>6
    <2>2. /\ Queued' \subseteq Queued /\ OpenInv
          /\ \A d \in Brokers \ {b} : sock'[d] = sock[d] /\ up'[d] = up[d]
      BY DEF SockInv, Queued
    <2> QED
      BY <1>4, <2>1, <2>2, RepliesAreTrue
  <1>8. ContextMatches(b)'
    BY <1>1, <1>5 DEF ContextMatches
  <1>9. ContextInv'
    BY <1>1, <1>8, ContextOfOne DEF SockInv
  <1> QED
    BY <1>7, <1>9, OwnerKept DEF SockInv, NeverHalted

\* The library finds connection b broken.
LEMMA SocketOfClosing ==
  ASSUME TypeInv, Core, TxInv, SockInv, NEW b \in Brokers,
         MQTT_Disconnect(b, {}) \/ (ResetContext(b) /\ ProcessDisconnect(b, {})),
         UNCHANGED <<pc, call, queue, owner, halted>>
  PROVE  SockInv' /\ FailureIsClosed
  <1>1. /\ ContextInv' /\ ~sock'[b]
        /\ \A d \in Brokers \ {b} : sock'[d] = sock[d] /\ up'[d] = up[d] /\ slots'[d] = slots[d]
        /\ \A d \in Brokers : up'[d] => up[d]
    BY ClosingIsClean DEF SockInv
  <1>2. PICK R : notif' = Notified(R) /\ \A r \in R : \E w \in slots[b] : r.task = w.task
    BY DEF MQTT_Disconnect, ProcessDisconnect, Reply
  <1>3. ASSUME NEW r \in R PROVE call[r.task].broker = b
    BY <1>2, WaiterOf DEF Core
  <1>4. OpenInv' /\ FailureIsClosed
    BY <1>1, <1>2, <1>3, RepliesAreTrue DEF SockInv, Queued
  <1> QED
    BY <1>1, <1>4, OwnerKept DEF SockInv, NeverHalted

\* Nothing the invariant speaks of changes but the receive buffer of an open
\* connection.
LEMMA SockFrame ==
  ASSUME TypeInv, SockInv, UNCHANGED <<pc, call, owner, up, halted, notif, sock, state, slots, tx>>,
         queue' = queue \/ SocketWakeup,
         \A d \in Brokers : rx'[d] = rx[d] \/ rx'[d] = "none" \/ sock[d]
  PROVE  SockInv' /\ FailureIsClosed
  <1>1. ContextInv'
    BY DEF SockInv, ContextInv, ContextMatches
  <1>2. OpenInv'
    <2>1. \A t \in Callers : pc[t] = "wait" /\ ~InQueue(t) => ~InQueue(t)'
      BY WakeupIsNoCommand DEF InQueue, Queued
    <2> QED
      BY <2>1 DEF SockInv, OpenInv, Connecting, Answered
  <1>3. OwnerInv' /\ NeverHalted'
    BY OwnerKept DEF SockInv, NeverHalted
  <1>4. FailureIsClosed
    BY NobodyIsTold
  <1> QED
    BY <1>1, <1>2, <1>3, <1>4 DEF SockInv

LEMMA SocketOfManage ==
  ASSUME TypeInv, Core, TxInv, SockInv, NEW b \in Brokers, ManageConnection(b)
  PROVE  SockInv' /\ FailureIsClosed
  <1> USE DEF connVars, envVars, appVars
  <1>1. CASE ReceivedNothing(b) \/ ReceivedPublish(b) \/ PeriodicNothing(b)
    BY <1>1, SockFrame DEF ReceivedNothing, ReceivedPublish, PeriodicNothing
  <1>2. CASE ReceivedHeader(b) \/ DroppedPacket(b) \/ CallbackReturns(b)
    <2>1. UNCHANGED <<pc, call, queue, owner, up, halted, notif, sock, state, slots, tx>>
      BY <1>2 DEF ReceivedHeader, DroppedPacket, CallbackReturns
    <2>2. \A d \in Brokers : rx'[d] = rx[d] \/ rx'[d] = "none" \/ sock[d]
      BY <1>2 DEF ReceivedHeader, DroppedPacket, CallbackReturns, TypeInv, TypeOK
    <2> QED
      BY <2>1, <2>2, SockFrame
  <1>3. CASE SocketError(b)
    BY <1>3, SocketOfClosing DEF SocketError
  <1>4. CASE ReceivedRefusalOrMalformed(b)
    BY <1>4, SocketOfClosing DEF ReceivedRefusalOrMalformed
  <1>5. CASE PeriodicConnectTimeout(b)
    BY <1>5, SocketOfClosing DEF PeriodicConnectTimeout
  <1>6. ASSUME NEW late \in SUBSET tx[b], PeriodicTimeout(b, late)
        PROVE  SockInv' /\ FailureIsClosed
    <2>1. sock[b]
      BY <1>6 DEF PeriodicTimeout, SockInv, ContextInv, ContextMatches
    <2>2. "timeout" \in Codes
      BY DEF Codes
    <2> QED
      BY <1>6, <2>1, <2>2, SocketOfRemoval DEF PeriodicTimeout, NoConnect
  <1>7. ASSUME NEW ack \in Requests, ReceivedACK(b, ack) PROVE SockInv' /\ FailureIsClosed
    <2> DEFINE done == MatchingTx(b, ack)
    <2>1. /\ done \in SUBSET tx[b] /\ \A r \in done : r.op = ack.op
          /\ ack.op = "Connect" => \A r \in tx[b] \ done : r.op # "Connect"
      BY DEF MatchingTx
    <2>2. /\ sock[b] /\ UNCHANGED <<pc, call, queue, owner, up, halted, sock>>
          /\ tx' = [tx EXCEPT ![b] = @ \ done]
          /\ slots' = [slots EXCEPT ![b] = @ \ UNION {WaitingFor(b, r.id) : r \in done}]
          /\ notif' = Notified({Reply(w, "pass") : w \in UNION {WaitingFor(b, r.id) : r \in done}})
          /\ rx' = [rx EXCEPT ![b] = "none"]
          /\ state' = IF ack.op = "Connect" /\ done # {}
                      THEN [state EXCEPT ![b] = "Connected"] ELSE state
      BY <1>7 DEF ReceivedACK, ReceivedPacket, ReturnBuffers
    <2> HIDE DEF done
    <2>3. ContextMatches(b)
      BY DEF SockInv, ContextInv
    <2>4. tx'[b] = tx[b] \ done
      BY <2>2 DEF TypeInv, TypeOK
    <2>5. \/ state'[b] = state[b] /\ \A r \in done : r.op # "Connect"
          \/ state'[b] = "Connected" /\ state[b] # "NotConnected"
             /\ \A r \in tx'[b] : r.op # "Connect"
      BY <2>1, <2>2, <2>3, <2>4 DEF ContextMatches, TypeInv, TypeOK
    <2>6. \A d \in Brokers \ {b} : state'[d] = state[d] /\ rx'[d] = rx[d]
      BY <2>2 DEF TypeInv, TypeOK
    <2>7. "pass" \in Codes
      BY DEF Codes
    <2> QED
      BY <2>1, <2>2, <2>5, <2>6, <2>7, SocketOfRemoval
  <1>8. ASSUME NEW ack \in Requests, ReceivedSUBACKFailure(b, ack)
        PROVE  SockInv' /\ FailureIsClosed
    <2> DEFINE done == MatchingTx(b, ack)
    <2>1. done \in SUBSET tx[b] /\ \A r \in done : r.op # "Connect"
      BY <1>8 DEF MatchingTx, ReceivedSUBACKFailure
    <2>2. /\ sock[b] /\ UNCHANGED <<pc, call, queue, owner, up, halted, sock, state>>
          /\ tx' = [tx EXCEPT ![b] = @ \ done]
          /\ slots' = [slots EXCEPT ![b] = @ \ UNION {WaitingFor(b, r.id) : r \in done}]
          /\ notif' = Notified({Reply(w, "fail") : w \in UNION {WaitingFor(b, r.id) : r \in done}})
          /\ rx' = [rx EXCEPT ![b] = "none"]
      BY <1>8 DEF ReceivedSUBACKFailure, ReceivedPacket, ReturnBuffers
    <2> HIDE DEF done
    <2>3. \A d \in Brokers \ {b} : state'[d] = state[d] /\ rx'[d] = rx[d]
      BY <2>2 DEF TypeInv, TypeOK
    <2>4. "fail" \in Codes
      BY DEF Codes
    <2> QED
      BY <2>1, <2>2, <2>3, <2>4, SocketOfRemoval
  <1> QED
    BY <1>1, <1>2, <1>3, <1>4, <1>5, <1>6, <1>7, <1>8 DEF ManageConnection

\* The steps of a caller: no socket changes, and what it learns it believes.
LEMMA OwnerOfCaller ==
  ASSUME TypeInv, Core, SockInv, NEW t \in Callers,
         CallerStep(t) \/ ForeignNotification(t)
         \/ (\E op \in Ops, b \in Brokers : SendCommand(t, op, b))
  PROVE  OwnerInv'
  <1> USE DEF connVars, envVars, appVars
  <1>1. UNCHANGED owner
    BY DEF CallerStep, Enqueue, EnqueueTimesOut, NotifyWait, ForeignNotification, SendCommand
  <1>2. ASSUME NEW op \in Ops, NEW b \in Brokers, SendCommand(t, op, b) PROVE OwnerInv'
    <2>1. CASE FromCallback(t)
      BY <1>2, <2>1 DEF SendCommand, SockInv, OwnerInv
    <2>2. CASE ~FromCallback(t)
      <3>1. /\ call'[t].op = op /\ call'[t].broker = b
            /\ \A u \in Callers \ {t} : call'[u] = call[u] /\ pc'[u] = pc[u]
            /\ op \in {"Connect", "Disconnect"} => owner[b] = t
            /\ op = "Connect" => ~up[b]
            /\ UNCHANGED <<owner, up>>
        BY <1>2, <2>2 DEF SendCommand, MayCall, FromCallback, TypeInv, TypeOK
      <3> QED
        BY <3>1 DEF SockInv, OwnerInv
    <2> QED
      BY <2>1, <2>2
  <1>3. CASE Enqueue(t) \/ EnqueueTimesOut(t) \/ ForeignNotification(t)
    <2>1. /\ UNCHANGED up
          /\ \A u \in Callers \ {t} : call'[u] = call[u] /\ pc'[u] = pc[u]
          /\ pc'[t] # "ready" => call'[t] = call[t] /\ pc[t] # "ready"
      BY <1>3 DEF Enqueue, EnqueueTimesOut, ForeignNotification, TypeInv, TypeOK
    <2> QED
      BY <1>1, <2>1 DEF SockInv, OwnerInv
  <1>4. CASE NotifyWait(t)
    <2>1. CASE notif[t].id = call[t].id
      <3>1. /\ pc[t] = "wait" /\ pc'[t] = "ready"
            /\ \A u \in Callers \ {t} : call'[u] = call[u] /\ pc'[u] = pc[u]
            /\ up' = UpAfter(call[t], notif[t].code)
        BY <1>4, <2>1 DEF NotifyWait, TypeInv, TypeOK
      <3>2. ASSUME NEW u \in Callers, pc'[u] # "ready", call[u].op = "Connect"
            PROVE  ~up'[call[u].broker]
        <4>1. u # t /\ pc[u] # "ready"
          BY <3>1, <3>2
        <4>2. call[u].broker \in Brokers /\ ~up[call[u].broker] /\ owner[call[u].broker] = u
          BY <3>2, <4>1 DEF SockInv, OwnerInv, TypeInv, CallsAreCommands, Commands
        <4>3. call[t].op = "Connect" => call[t].broker # call[u].broker
          BY <3>1, <4>1, <4>2 DEF SockInv, OwnerInv
        <4> QED
          BY <3>1, <4>2, <4>3 DEF UpAfter, TypeInv, TypeOK
      <3> QED
        BY <1>1, <3>1, <3>2 DEF SockInv, OwnerInv
    <2>2. CASE notif[t].id # call[t].id
      BY <1>1, <1>4, <2>2 DEF NotifyWait, SockInv, OwnerInv
    <2> QED
      BY <2>1, <2>2
  <1> QED
    BY <1>2, <1>3, <1>4 DEF CallerStep

LEMMA SocketOfCaller ==
  ASSUME TypeInv, Core, SockInv, NEW t \in Callers,
         CallerStep(t) \/ ForeignNotification(t)
         \/ (\E op \in Ops, b \in Brokers : SendCommand(t, op, b))
  PROVE  SockInv' /\ FailureIsClosed
  <1> USE DEF connVars, envVars, appVars
  <1>1. UNCHANGED <<sock, state, slots, tx, rx, halted>>
    BY DEF CallerStep, Enqueue, EnqueueTimesOut, NotifyWait, ForeignNotification, SendCommand
  <1>2. \A u \in Callers \ {t} : pc'[u] = pc[u] /\ call'[u] = call[u] /\ notif'[u] = notif[u]
    BY DEF CallerStep, Enqueue, EnqueueTimesOut, NotifyWait, ForeignNotification, SendCommand,
       StateClear, TypeInv, TypeOK
  <1>3. ASSUME NEW u \in Callers \ {t}, pc[u] = "wait", InQueue(u)' PROVE InQueue(u)
    <2>1. call'[u] = call[u] /\ call[u].task = u
      BY <1>2, <1>3 DEF TypeInv, CallsAreCommands
    <2>2. CASE queue' = queue
      BY <1>3, <2>1, <2>2 DEF InQueue, Queued
    <2>3. CASE Enqueue(t)
      <3>1. queue \in Seq(Commands \cup {Service}) /\ call[t] \in Commands /\ call[t].task = t
        BY <2>3 DEF Enqueue, TypeInv, TypeOK, CallsAreCommands
      <3>2. Queued' = Queued \cup {call[t]}
        BY <2>3, <3>1, AppendToQueue DEF Enqueue, Queued, Elements
      <3> QED
        BY <1>3, <2>1, <3>1, <3>2 DEF InQueue
    <2> QED
      BY <2>2, <2>3 DEF CallerStep, EnqueueTimesOut, NotifyWait, ForeignNotification, SendCommand
  <1>4. ASSUME pc[t] = "wait"
        PROVE  \/ /\ UNCHANGED <<pc, call, queue, up>>
                  /\ ~Answered(t) /\ ~Answered(t)' /\ notif'[t].code # "pass"
               \/ /\ Answered(t) /\ pc'[t] = "ready"
                  /\ up' = UpAfter(call[t], notif[t].code)
    <2>1. CASE NotifyWait(t) /\ Answered(t)
      BY <1>4, <2>1 DEF NotifyWait, Answered, TypeInv, TypeOK
    <2>2. CASE ForeignNotification(t) \/ (NotifyWait(t) /\ ~Answered(t))
      <3>1. /\ notif[t] \in {NoReply, Foreign} /\ notif'[t] \in {NoReply, Foreign}
            /\ UNCHANGED <<pc, call, queue, up>>
        BY <1>4, <2>2 DEF NotifyWait, Answered, ForeignNotification, Core,
           NotificationsAreAnswers, TypeInv, TypeOK
      <3>2. ~Answered(t) /\ notif'[t].id = NoReply.id /\ NoReply.id = 0
        BY <1>4, <3>1, ForeignIsNoAnswer DEF NoReply, Foreign
      <3>3. call[t].id # 0
        BY <1>4, ConstantsAreTyped DEF TypeInv, CallsAreCommands, Commands
      <3> QED
        BY <3>1, <3>2, <3>3 DEF Answered, NoReply, Foreign
    <2> QED
      BY <1>4, <2>1, <2>2 DEF CallerStep, Enqueue, EnqueueTimesOut, SendCommand
  <1>5. pc[t] # "wait" => /\ UNCHANGED up
                          /\ pc'[t] = "wait" => notif'[t].code # "pass"
    <2>1. pc[t] # "wait" => /\ UNCHANGED up
                            /\ pc'[t] = "wait" => notif'[t] \in {NoReply, Foreign}
      BY DEF CallerStep, Enqueue, EnqueueTimesOut, NotifyWait, ForeignNotification, SendCommand,
         Core, NotificationsAreAnswers, TypeInv, TypeOK
    <2> QED
      BY <2>1 DEF NoReply, Foreign
  <1>6. ASSUME NEW b \in Brokers, sock[b], ~up'[b] PROVE \E u \in Callers : Connecting(u, b)'
    <2>1. ASSUME up[b] PROVE FALSE
      <3>1. /\ pc[t] = "wait" /\ up'[b] # up[b]
            /\ up' = UpAfter(call[t], notif[t].code)
        BY <1>4, <1>5, <1>6, <2>1
      <3>2. /\ notif[t].code = "pass" /\ call[t].op = "Disconnect" /\ call[t].broker = b
        BY <1>6, <3>1 DEF UpAfter, TypeInv, TypeOK
      <3> QED
        BY <1>6, <3>1, <3>2 DEF SockInv, OpenInv
    <2>2. PICK u \in Callers : Connecting(u, b)
      BY <1>6, <2>1 DEF SockInv, OpenInv
    <2>3. CASE u # t
      BY <1>2, <1>3, <2>2, <2>3 DEF Connecting, Answered
    <2>4. CASE u = t
      <3>1. CASE UNCHANGED <<pc, call, queue, up>> /\ ~Answered(t)'
        BY <2>2, <2>4, <3>1 DEF Connecting, InQueue, Queued
      <3>2. CASE Answered(t) /\ up' = UpAfter(call[t], notif[t].code)
        <4>1. notif[t].code = "pass" /\ call[t].op = "Connect" /\ call[t].broker = b
          BY <2>2, <2>4, <3>2 DEF Connecting
        <4> QED
          BY <1>6, <3>2, <4>1 DEF UpAfter, TypeInv, TypeOK
      <3> QED
        BY <1>4, <2>2, <2>4, <3>1, <3>2 DEF Connecting
    <2> QED
      BY <2>3, <2>4
  <1>7. ASSUME NEW u \in Callers, pc'[u] = "wait", call'[u].op = "Disconnect",
               notif'[u].code = "pass"
        PROVE  ~sock'[call'[u].broker]
    BY <1>1, <1>2, <1>4, <1>5, <1>7 DEF SockInv, OpenInv
  <1>8. OpenInv'
    BY <1>1, <1>6, <1>7 DEF OpenInv
  <1>9. ContextInv' /\ NeverHalted'
    BY <1>1, ContextFrame DEF SockInv, NeverHalted
  <1>10. FailureIsClosed
    <2> SUFFICES ASSUME NEW u \in Callers, pc[u] = "wait", notif[u] = NoReply,
                        Answered(u)', notif'[u].code # "pass"
                 PROVE  FALSE
      BY DEF FailureIsClosed
    <2>1. ~Answered(u)
      BY ForeignIsNoAnswer
    <2> QED
      BY <1>2, <1>4, <2>1 DEF Answered
  <1> QED
    BY <1>8, <1>9, <1>10, OwnerOfCaller DEF SockInv

\* A client is created or deleted by a task that is in no call.
LEMMA SocketOfClients ==
  ASSUME TypeInv, SockInv, NEW t \in Tasks, Create(t) \/ \E b \in Brokers : Delete(t, b)
  PROVE  SockInv' /\ FailureIsClosed
  <1> USE DEF connVars, envVars, appVars
  <1>1. UNCHANGED <<pc, call, queue, up, halted, notif, sock, state, slots, tx, rx>>
    BY DEF Create, Delete
  <1>2. ASSUME NEW u \in Callers, pc[u] # "ready", owner[call[u].broker] = u
        PROVE  owner'[call[u].broker] = u
    <2>1. call[u].broker \in Brokers /\ u # NoTask
      BY <1>2, ConstantsAreTyped DEF TypeInv, CallsAreCommands, Commands
    <2>2. CASE Create(t)
      BY <1>2, <2>1, <2>2 DEF Create, TypeInv, TypeOK
    <2>3. ASSUME NEW b \in Brokers, Delete(t, b) PROVE owner'[call[u].broker] = u
      <3>1. u # t
        BY <1>2, <2>3 DEF Delete
      <3> QED
        BY <1>2, <2>1, <2>3, <3>1 DEF Delete, TypeInv, TypeOK
    <2> QED
      BY <2>2, <2>3
  <1>3. OwnerInv'
    BY <1>1, <1>2 DEF SockInv, OwnerInv
  <1>4. ContextInv' /\ NeverHalted'
    BY <1>1, ContextFrame DEF SockInv, NeverHalted
  <1>5. OpenInv'
    BY <1>1 DEF SockInv, OpenInv, Connecting, InQueue, Queued, Answered
  <1>6. FailureIsClosed
    BY <1>1, NobodyIsTold
  <1> QED
    BY <1>3, <1>4, <1>5, <1>6 DEF SockInv

LEMMA SockInvInit == Init => SockInv
  BY DEF Init, SockInv, ContextInv, ContextMatches, OwnerInv, OpenInv, NeverHalted

LEMMA SockInvStep ==
    ServiceInv /\ TxInv /\ SockInv /\ [Next]_vars => SockInv' /\ FailureIsClosed
  <1> SUFFICES ASSUME TypeInv, Core, TxInv, SockInv, [Next]_vars
               PROVE  SockInv' /\ FailureIsClosed
    BY DEF ServiceInv
  <1> USE DEF connVars, envVars, appVars
  <1>1. ASSUME NEW t \in Callers, CallerStep(t) PROVE SockInv' /\ FailureIsClosed
    BY <1>1, SocketOfCaller
  <1>2. ASSUME NEW t \in Tasks, App(t) PROVE SockInv' /\ FailureIsClosed
    <2>1. t \in Callers
      BY DEF Callers
    <2> QED
      BY <1>2, <2>1, SocketOfCaller, SocketOfClients DEF App
  <1>3. CASE ReturnBuffer \/ SocketWakeup
    BY <1>3, SockFrame DEF ReturnBuffer, SocketWakeup
  <1>4. CASE CallFromCallback
    <2>1. mbroker \in Brokers
      BY DEF TypeInv, TypeOK
    <2> QED
      BY <1>4, <2>1, SocketOfCaller, ConstantsAreTyped DEF CallFromCallback
  <1>5. CASE MqttTaskStep
    <2>1. CASE ReceiveTimesOut
      BY <2>1, SockFrame DEF ReceiveTimesOut
    <2> QED
      BY <1>5, <2>1, SocketOfCommand, SocketOfManage DEF MqttTaskStep, ExecuteCommand
  <1>6. CASE UNCHANGED vars
    BY <1>6, SockFrame DEF vars
  <1> QED
    BY <1>1, <1>2, <1>3, <1>4, <1>5, <1>6 DEF Next

\* The agent's socket and the library's connection state agree between any two
\* steps of the MQTT task, and a connection that is down holds nothing.
THEOREM SocketAndStateAgree == Spec => []SocketMatchesState
  <1>1. SockInv => SocketMatchesState
    BY DEF SockInv, ContextInv, ContextMatches, SocketMatchesState
  <1> QED
    BY <1>1, ServiceInvInit, ServiceInvStep, TxInvInit, TxInvStep, SockInvInit, SockInvStep,
       PTL DEF Spec

\* The configASSERT in prvSetupConnection never fails: no owner that connects, again
\* or for the first time, finds a socket open.
THEOREM AgentNeverHalts == Spec => []NeverHalted
  <1>1. SockInv => NeverHalted
    BY DEF SockInv
  <1> QED
    BY <1>1, ServiceInvInit, ServiceInvStep, TxInvInit, TxInvStep, SockInvInit, SockInvStep,
       PTL DEF Spec

\* A caller that is told that its Connect failed can rely on the socket being closed.
THEOREM FailedConnectIsClosed == Spec => ConnectFailureMeansClosed
  <1>1. ServiceInv /\ TxInv /\ SockInv /\ [Next]_vars =>
          [\A t \in Callers :
              /\ call[t].op = "Connect" /\ pc[t] = "wait"
              /\ notif[t] = NoReply /\ Answered(t)' /\ notif'[t].code # "pass"
              => ~sock'[call[t].broker]]_vars
    BY SockInvStep DEF FailureIsClosed
  <1> QED
    BY <1>1, ServiceInvInit, ServiceInvStep, TxInvInit, TxInvStep, SockInvInit, SockInvStep,
       PTL DEF Spec, ConnectFailureMeansClosed

-----------------------------------------------------------------------------
(* The agent implements MQTTCalls.  What is needed on top of the above is    *)
(* that an identifier the server has accepted is that of a call still        *)
(* waiting, and that a CONNACK is for the CONNECT that is under way.         *)

AckedIsWaiting == \A i \in acked : \E t \in Callers : pc[t] = "wait" /\ call[t].id = i

AtBrokerIsCurrent ==
    \A b \in Brokers :
        /\ ~sock[b] => atBroker[b] = {}
        /\ \A a \in atBroker[b], r \in tx[b] : a.op = "Connect" /\ r.op = "Connect" => a = r

AckInv == AckedIsWaiting /\ AtBrokerIsCurrent

\* The refinement mapping.
PhaseOf(t) == IF pc[t] = "ready" THEN "idle"
              ELSE IF IsAnswered(t) THEN "answered" ELSE "called"
OpOf(t)    == IF pc[t] = "ready" THEN "none" ELSE call[t].op
CodeOf(t)  == IF IsAnswered(t) THEN notif[t].code ELSE "none"
AcceptedCalls == {t \in Callers : pc[t] # "ready" /\ call[t].id \in acked}

LEMMA NoReplyIsNoAnswer ==
  ASSUME TypeInv, NEW t \in Callers, IsAnswered(t)
  PROVE  notif[t] # NoReply /\ notif[t].code \in Codes
  <1>1. call[t].id \in Ids
    BY DEF IsAnswered, TypeInv, CallsAreCommands, Commands
  <1>2. notif[t].id = call[t].id /\ NoReply.id = 0
    BY DEF IsAnswered, Answered, NoReply
  <1>3. notif[t] # NoReply
    BY <1>1, <1>2, ConstantsAreTyped
  <1> QED
    BY <1>3 DEF TypeInv, TypeOK, Replies

\* A step of the MQTT task: some calls are answered.
LEMMA AnswersAreServed ==
  ASSUME TypeInv, TypeInv', UNCHANGED <<pc, call>>, acked \subseteq acked',
         \A t \in Callers : notif[t] # NoReply => notif'[t] = notif[t],
         \A t \in Callers :
             /\ pc[t] = "wait" /\ notif[t] = NoReply /\ notif'[t].code = "pass"
             /\ call[t].op \in AckedOps \cup {"Connect"}
             => call[t].id \in acked'
  PROVE  Calls!Next
  <1>s. PICK S : S = {t \in Callers : /\ pc[t] = "wait" /\ ~Answered(t)
                                      /\ notif'[t].id = call[t].id}
    OBVIOUS
  <1>a. PICK A : A = {t \in Callers : pc[t] # "ready" /\ call[t].id \in acked'}
    OBVIOUS
  <1>c. PICK answer : answer = [t \in S |-> notif'[t].code]
    OBVIOUS
  <1>1. ASSUME NEW t \in Callers, IsAnswered(t)
        PROVE  IsAnswered(t)' /\ notif'[t] = notif[t]
    <2>1. notif'[t] = notif[t]
      BY <1>1, NoReplyIsNoAnswer
    <2> QED
      BY <1>1, <2>1 DEF IsAnswered, Answered
  <1>2. ASSUME NEW t \in S
        PROVE  pc[t] = "wait" /\ notif[t] = NoReply /\ notif'[t].code \in Codes
    <2>1. t \in Callers /\ pc[t] = "wait" /\ ~Answered(t) /\ notif'[t].id = call[t].id
      BY <1>s
    <2>2. notif[t] = NoReply
      <3>1. notif'[t] # notif[t]
        BY <2>1 DEF Answered
      <3> QED
        BY <2>1, <3>1
    <2>3. notif'[t].code \in Codes
      <3>1. /\ call[t].id \in Ids /\ notif'[t].id = call[t].id
            /\ notif'[t] \in Replies \cup {NoReply}
        BY <2>1 DEF TypeInv, TypeOK, CallsAreCommands, Commands
      <3>2. notif'[t] # NoReply
        BY <3>1, ConstantsAreTyped DEF NoReply
      <3> QED
        BY <3>1, <3>2 DEF Replies
    <2> QED
      BY <2>1, <2>2, <2>3
  <1>3. ASSUME NEW t \in Callers, t \notin S
        PROVE  /\ IsAnswered(t)' <=> IsAnswered(t)
               /\ IsAnswered(t) => notif'[t] = notif[t]
    BY <1>s, <1>1, <1>3 DEF IsAnswered, Answered
  <1>4. ASSUME NEW t \in S PROVE pc[t] = "wait" /\ IsAnswered(t)' /\ ~IsAnswered(t)
    BY <1>s DEF IsAnswered, Answered
  <1>5. ASSUME NEW t \in Callers
        PROVE  /\ PhaseOf(t)' = IF t \in S THEN "answered" ELSE PhaseOf(t)
               /\ CodeOf(t)' = IF t \in S THEN answer[t] ELSE CodeOf(t)
               /\ OpOf(t)' = OpOf(t)
    <2>1. CASE t \in S
      BY <1>c, <1>4, <2>1 DEF PhaseOf, CodeOf, OpOf
    <2>2. CASE t \notin S
      BY <1>3, <2>2 DEF PhaseOf, CodeOf, OpOf
    <2> QED
      BY <2>1, <2>2
  <1>6. S \in SUBSET Callers /\ A \in SUBSET Callers
    BY <1>s, <1>a
  <1>7. \A t \in A : PhaseOf(t) # "idle"
    BY <1>a DEF PhaseOf
  <1>8. \A t \in S : PhaseOf(t) = "called"
    BY <1>4 DEF PhaseOf
  <1>9. AcceptedCalls' = AcceptedCalls \cup A
    BY <1>a DEF AcceptedCalls
  <1>10. ASSUME NEW t \in S, answer[t] = "pass", OpOf(t) \in AckedOps \cup {"Connect"}
         PROVE  t \in AcceptedCalls'
    BY <1>c, <1>2, <1>6, <1>10 DEF OpOf, AcceptedCalls
  <1>11. answer \in [S -> {"pass", "fail", "timeout"}]
    BY <1>c, <1>2 DEF Codes
  <1>12. /\ \A t \in A : [u \in Callers |-> PhaseOf(u)][t] # "idle"
         /\ \A t \in S : [u \in Callers |-> PhaseOf(u)][t] = "called"
         /\ \A t \in S : /\ answer[t] = "pass"
                           /\ [u \in Callers |-> OpOf(u)][t] \in AckedOps \cup {"Connect"}
                         => t \in AcceptedCalls'
    BY <1>6, <1>7, <1>8, <1>10
  <1>13. [t \in Callers |-> PhaseOf(t)']
           = [t \in Callers |-> IF t \in S THEN "answered" ELSE [u \in Callers |-> PhaseOf(u)][t]]
    BY <1>5
  <1>14. [t \in Callers |-> CodeOf(t)']
           = [t \in Callers |-> IF t \in S THEN answer[t] ELSE [u \in Callers |-> CodeOf(u)][t]]
    BY <1>5
  <1>15. [t \in Callers |-> OpOf(t)'] = [t \in Callers |-> OpOf(t)]
    BY <1>5
  <1>16. Calls!Serve(A, S, answer)
    BY <1>9, <1>12, <1>13, <1>14, <1>15
       DEF Calls!Serve, PhaseOf, OpOf, CodeOf, AcceptedCalls
  <1>17. \E B, U \in SUBSET Callers :
            \E a \in [U -> {"pass", "fail", "timeout"}] : Calls!Serve(B, U, a)
    BY <1>6, <1>11, <1>16
  <1> QED
    BY <1>17, Zenon DEF Calls!Next

LEMMA RepliesAreServed ==
  ASSUME TypeInv, TypeInv', UNCHANGED <<pc, call>>, acked \subseteq acked',
         NEW R, notif' = Notified(R),
         \A r \in R : r.task \in Callers /\ r.code = "pass"
                      /\ call[r.task].op \in AckedOps \cup {"Connect"}
                      => call[r.task].id \in acked'
  PROVE  Calls!Next
  <1>1. ASSUME NEW t \in Callers
        PROVE  \/ notif'[t] = notif[t]
               \/ notif[t] = NoReply /\ \E r \in R : r.task = t /\ notif'[t].code = r.code
    BY CodeOfAnswer, Zenon
  <1>2. \A t \in Callers : notif[t] # NoReply => notif'[t] = notif[t]
    BY <1>1
  <1>3. \A t \in Callers :
           /\ pc[t] = "wait" /\ notif[t] = NoReply /\ notif'[t].code = "pass"
           /\ call[t].op \in AckedOps \cup {"Connect"}
           => call[t].id \in acked'
    BY <1>1, NoReplyIsNoPass
  <1> QED
    BY <1>2, <1>3, AnswersAreServed

\* The server's side: requests are answered or forgotten.
LEMMA AckInvShrinks ==
  ASSUME AckInv, UNCHANGED <<pc, call, acked>>,
         \A d \in Brokers : /\ atBroker'[d] \subseteq atBroker[d] /\ tx'[d] \subseteq tx[d]
                            /\ ~sock'[d] => ~sock[d] \/ atBroker'[d] = {}
  PROVE  AckInv'
  <1>1. AckedIsWaiting'
    BY DEF AckInv, AckedIsWaiting
  <1>2. AtBrokerIsCurrent'
    BY DEF AckInv, AtBrokerIsCurrent
  <1> QED
    BY <1>1, <1>2 DEF AckInv

LEMMA AckInvOfClosing ==
  ASSUME TypeInv, SockInv, AckInv, NEW b \in Brokers, NEW also,
         MQTT_Disconnect(b, also) \/ (ResetContext(b) /\ ProcessDisconnect(b, also)),
         UNCHANGED <<pc, call, acked>>
  PROVE  AckInv'
  <1>1. \A d \in Brokers : tx'[d] \subseteq tx[d]
    BY DEF MQTT_Disconnect, ResetContext, TypeInv, TypeOK
  <1>2. CASE ProcessDisconnect(b, also)
    <2>1. \A d \in Brokers : /\ atBroker'[d] \subseteq atBroker[d]
                             /\ ~sock'[d] => ~sock[d] \/ atBroker'[d] = {}
      BY <1>2 DEF ProcessDisconnect, TypeInv, TypeOK
    <2> QED
      BY <1>1, <2>1, AckInvShrinks
  <1>3. CASE UNCHANGED <<up, sock, atBroker, slots>>
    BY <1>1, <1>3, AckInvShrinks
  <1> QED
    BY <1>2, <1>3 DEF MQTT_Disconnect

LEMMA AckInvOfSending ==
  ASSUME TypeInv, SockInv, AckInv, NEW c \in Commands, Sent(c), UNCHANGED <<pc, call, acked>>,
         sock'[c.broker], \A d \in Brokers \ {c.broker} : sock'[d] = sock[d],
         c.op # "Connect" \/ ~sock[c.broker]
  PROVE  AckInv'
  <1> DEFINE b == c.broker
             r1 == [op |-> c.op, id |-> c.id]
  <1>1. b \in Brokers
    BY DEF Commands
  <1>2. /\ tx'[b] = tx[b] \cup {r1} /\ atBroker'[b] = atBroker[b] \cup {r1}
        /\ \A d \in Brokers \ {b} : tx'[d] = tx[d] /\ atBroker'[d] = atBroker[d]
    BY <1>1 DEF Sent, TypeInv, TypeOK
  <1>3. r1.op = c.op
    OBVIOUS
  <1> HIDE DEF r1
  <1>4. \A a \in atBroker'[b], r \in tx'[b] : a.op = "Connect" /\ r.op = "Connect" => a = r
    <2>1. CASE c.op # "Connect"
      BY <1>1, <1>2, <1>3, <2>1 DEF AckInv, AtBrokerIsCurrent
    <2>2. CASE ~sock[b]
      <3>1. atBroker[b] = {} /\ tx[b] = {}
        BY <1>1, <2>2 DEF AckInv, AtBrokerIsCurrent, SockInv, ContextInv, ContextMatches
      <3> QED
        BY <1>2, <3>1
    <2> QED
      BY <2>1, <2>2
  <1>5. AtBrokerIsCurrent'
    BY <1>1, <1>2, <1>4 DEF AckInv, AtBrokerIsCurrent
  <1>6. AckedIsWaiting'
    BY DEF AckInv, AckedIsWaiting
  <1> QED
    BY <1>5, <1>6 DEF AckInv

LEMMA RefinementOfCommand ==
  ASSUME TypeInv, TypeInv', Core, SockInv, AckInv, NEW c \in Commands \cup {Service},
         \/ ReceiveTooLate(c) \/ InitiateMQTTConnect(c) \/ InitiateMQTTDisconnect(c)
         \/ InitiateMQTTOperation(c) \/ InitiateMQTTPublish0(c)
  PROVE  AckInv' /\ Calls!Next
  <1> USE DEF connVars, envVars, appVars
  <1> DEFINE b == c.broker
  <1>1. b \in Brokers /\ Receive(c) /\ UNCHANGED <<pc, call, acked>>
    BY ConstantsAreTyped DEF Commands, Service, ReceiveTooLate, InitiateMQTTConnect,
       InitiateMQTTDisconnect, InitiateMQTTOperation, InitiateMQTTPublish0
  <1>2. c \in Commands => call[c.task] = c
    BY <1>1, CommandOf
  <1>3. CASE ReceiveTooLate(c)
    <2> DEFINE R == {Reply(c, "timeout")}
    <2>1. notif' = Notified(R) /\ \A r \in R : r.code # "pass"
      BY <1>3 DEF ReceiveTooLate, Reply
    <2> HIDE DEF R
    <2>2. AckInv'
      BY <1>3, AckInvShrinks DEF ReceiveTooLate
    <2> QED
      BY <1>1, <2>1, <2>2, RepliesAreServed
  <1>4. ASSUME NotSent(c) PROVE Calls!Next
    <2> DEFINE R == {Reply(c, "fail")}
    <2>1. notif' = Notified(R) /\ \A r \in R : r.code # "pass"
      BY <1>4 DEF NotSent, Reply
    <2> HIDE DEF R
    <2> QED
      BY <1>1, <2>1, RepliesAreServed
  <1>5. ASSUME UNCHANGED notif PROVE Calls!Next
    <2>1. notif' = Notified({})
      BY <1>5, NobodyIsNotified
    <2> QED
      BY <1>1, <2>1, RepliesAreServed
  <1>6. CASE InitiateMQTTConnect(c)
    <2>1. c \in Commands /\ c.op = "Connect"
      BY <1>6 DEF InitiateMQTTConnect, Service
    <2>2. sock[b] = FALSE
      BY <1>1, <2>1, ConnectFindsClosed DEF SockInv, TypeInv, TypeOK
    <2>3. CASE NotSent(c)
      <3>1. /\ UNCHANGED <<atBroker, tx>>
            /\ \A d \in Brokers : ~sock'[d] => ~sock[d] \/ atBroker[d] = {}
        BY <1>1, <1>6, <2>2, <2>3 DEF NotSent, InitiateMQTTConnect, SocketAfter, TypeInv, TypeOK,
           AckInv, AtBrokerIsCurrent
      <3> QED
        BY <1>1, <1>4, <2>3, <3>1, AckInvShrinks
    <2>4. CASE Sent(c) /\ UNCHANGED notif /\ sock' = [sock EXCEPT ![b] = SocketAfter(@, TRUE, TRUE)]
      <3>1. sock'[b] /\ \A d \in Brokers \ {b} : sock'[d] = sock[d]
        BY <1>1, <2>4 DEF SocketAfter, TypeInv, TypeOK
      <3> QED
        BY <1>1, <1>5, <2>1, <2>2, <2>4, <3>1, AckInvOfSending
    <2> QED
      BY <1>6, <2>3, <2>4 DEF InitiateMQTTConnect
  <1>7. CASE InitiateMQTTDisconnect(c)
    <2>1. PICK code \in {"pass", "fail"} : MQTT_Disconnect(b, {Reply(c, code)})
      BY <1>7 DEF InitiateMQTTDisconnect
    <2>2. c \in Commands /\ c.op = "Disconnect"
      BY <1>7 DEF InitiateMQTTDisconnect, Service
    <2>3. PICK R : /\ notif' = Notified(R)
                   /\ \A r \in R : r.task = c.task \/ r.code = "fail"
      BY <2>1 DEF MQTT_Disconnect, ProcessDisconnect, Reply
    <2>4. \A r \in R : r.code = "pass" => call[r.task].op \notin AckedOps \cup {"Connect"}
      BY <1>2, <2>2, <2>3 DEF AckedOps
    <2>5. AckInv'
      BY <1>1, <2>1, AckInvOfClosing
    <2> QED
      BY <1>1, <2>3, <2>4, <2>5, RepliesAreServed
  <1>8. CASE InitiateMQTTPublish0(c)
    <2>1. PICK code \in {"pass", "fail"} : notif' = Notified({Reply(c, code)})
      BY <1>8 DEF InitiateMQTTPublish0
    <2> DEFINE R == {Reply(c, code)}
    <2>2. c \in Commands /\ c.op = "Publish0"
      BY <1>8 DEF InitiateMQTTPublish0, Service
    <2>3. notif' = Notified(R) /\ \A r \in R : call[r.task].op \notin AckedOps \cup {"Connect"}
      BY <1>2, <2>1, <2>2 DEF AckedOps, Reply
    <2> HIDE DEF R
    <2>4. AckInv'
      BY <1>8, AckInvShrinks DEF InitiateMQTTPublish0
    <2> QED
      BY <1>1, <2>3, <2>4, RepliesAreServed
  <1>9. CASE InitiateMQTTOperation(c)
    <2>1. c \in Commands /\ c.op # "Connect" /\ UNCHANGED <<sock, state>>
      BY <1>9 DEF InitiateMQTTOperation, Service, AckedOps
    <2>2. CASE NotSent(c)
      BY <1>1, <1>4, <2>1, <2>2, AckInvShrinks DEF NotSent
    <2>3. CASE Sent(c) /\ UNCHANGED notif /\ state[b] = "Connected"
      <3>1. sock[b] = TRUE
        BY <1>1, <2>3 DEF SockInv, ContextInv, ContextMatches, TypeInv, TypeOK
      <3> QED
        BY <1>1, <1>5, <2>1, <2>3, <3>1, AckInvOfSending
    <2> QED
      BY <1>9, <2>2, <2>3 DEF InitiateMQTTOperation
  <1> QED
    BY <1>3, <1>6, <1>7, <1>8, <1>9

LEMMA RefinementOfManage ==
  ASSUME TypeInv, TypeInv', Core, TxInv, SockInv, AckInv, NEW b \in Brokers, ManageConnection(b)
  PROVE  AckInv' /\ Calls!Next
  <1> USE DEF connVars, envVars, appVars
  <1>1. UNCHANGED <<pc, call>>
    BY DEF ManageConnection, ReceivedNothing, SocketError, ReceivedHeader, DroppedPacket,
       ReceivedACK, ReceivedSUBACKFailure, ReceivedRefusalOrMalformed, ReceivedPublish,
       CallbackReturns, PeriodicNothing, PeriodicConnectTimeout, PeriodicTimeout
  <1>2. ASSUME NEW R, notif' = Notified(R), \A r \in R : r.code # "pass", UNCHANGED acked
        PROVE  Calls!Next
    BY <1>1, <1>2, RepliesAreServed
  <1>3. CASE \/ ReceivedNothing(b) \/ ReceivedPublish(b) \/ PeriodicNothing(b)
             \/ ReceivedHeader(b) \/ DroppedPacket(b) \/ CallbackReturns(b)
    <2>1. /\ UNCHANGED <<notif, acked, sock, tx>>
          /\ \A d \in Brokers : atBroker'[d] \subseteq atBroker[d]
      BY <1>3 DEF ReceivedNothing, ReceivedPublish, PeriodicNothing, ReceivedHeader,
         DroppedPacket, CallbackReturns, TypeInv, TypeOK
    <2>2. notif' = Notified({})
      BY <2>1, NobodyIsNotified
    <2> QED
      BY <1>1, <1>2, <2>1, <2>2, AckInvShrinks
  <1>4. CASE SocketError(b) \/ ReceivedRefusalOrMalformed(b) \/ PeriodicConnectTimeout(b)
    <2>1. /\ MQTT_Disconnect(b, {}) \/ (ResetContext(b) /\ ProcessDisconnect(b, {}))
          /\ UNCHANGED acked
      BY <1>4 DEF SocketError, ReceivedRefusalOrMalformed, PeriodicConnectTimeout
    <2>2. PICK R : notif' = Notified(R) /\ \A r \in R : r.code # "pass"
      BY <2>1 DEF MQTT_Disconnect, ProcessDisconnect, Reply
    <2> QED
      BY <1>1, <1>2, <2>1, <2>2, AckInvOfClosing
  <1>5. ASSUME NEW late \in SUBSET tx[b], PeriodicTimeout(b, late) PROVE AckInv' /\ Calls!Next
    <2> DEFINE R == {Reply(w, "timeout") : w \in UNION {WaitingFor(b, r.id) : r \in late}}
    <2>1. notif' = Notified(R) /\ \A r \in R : r.code # "pass"
      BY <1>5 DEF PeriodicTimeout, Reply
    <2> HIDE DEF R
    <2>2. UNCHANGED <<acked, sock, atBroker>> /\ \A d \in Brokers : tx'[d] \subseteq tx[d]
      BY <1>5 DEF PeriodicTimeout, TypeInv, TypeOK
    <2> QED
      BY <1>1, <1>2, <2>1, <2>2, AckInvShrinks
  <1>6. ASSUME NEW ack \in Requests, ReceivedSUBACKFailure(b, ack) PROVE AckInv' /\ Calls!Next
    <2>1. PICK R : notif' = Notified(R) /\ \A r \in R : r.code # "pass"
      BY <1>6 DEF ReceivedSUBACKFailure, Reply
    <2>2. /\ UNCHANGED <<acked, sock>>
          /\ \A d \in Brokers : tx'[d] \subseteq tx[d] /\ atBroker'[d] \subseteq atBroker[d]
      BY <1>6 DEF ReceivedSUBACKFailure, ReturnBuffers, TypeInv, TypeOK
    <2> QED
      BY <1>1, <1>2, <2>1, <2>2, AckInvShrinks
  <1>7. ASSUME NEW ack \in Requests, ReceivedACK(b, ack) PROVE AckInv' /\ Calls!Next
    <2> DEFINE done == MatchingTx(b, ack)
               W == UNION {WaitingFor(b, r.id) : r \in done}
               R == {Reply(w, "pass") : w \in W}
    <2>1. /\ notif' = Notified(R) /\ acked' = Accepted(ack.id) /\ UNCHANGED sock
          /\ \A d \in Brokers : tx'[d] \subseteq tx[d] /\ atBroker'[d] \subseteq atBroker[d]
      BY <1>7 DEF ReceivedACK, ReturnBuffers, TypeInv, TypeOK
    <2>2. acked \subseteq acked' /\ AckedIsWaiting'
      BY <1>1, <2>1 DEF Accepted, AckInv, AckedIsWaiting
    <2>3. AtBrokerIsCurrent'
      BY <2>1 DEF AckInv, AtBrokerIsCurrent
    <2>4. ASSUME NEW r \in R
          PROVE  call[r.task].id \in acked'
      <3>1. PICK w \in W : r.task = w.task
        BY DEF Reply
      <3>2. PICK q \in done : w \in WaitingFor(b, q.id)
        OBVIOUS
      <3>3. w \in slots[b] /\ w.id = q.id /\ q \in tx[b] /\ q.op = ack.op
            /\ (ack.op = "Connect" \/ q.id = ack.id)
        BY <3>2 DEF WaitingFor, MatchingTx
      <3>4. ack \in atBroker[b]
        BY <1>7 DEF ReceivedACK
      <3>5. q.id = ack.id
        BY <3>3, <3>4 DEF AckInv, AtBrokerIsCurrent
      <3>6. w.task \in Callers /\ pc[w.task] = "wait" /\ call[w.task].id = w.id
        BY <3>3, WaiterOf DEF Core
      <3> QED
        BY <2>1, <3>1, <3>3, <3>5, <3>6 DEF Accepted
    <2> HIDE DEF R
    <2> QED
      BY <1>1, <2>1, <2>2, <2>3, <2>4, RepliesAreServed DEF AckInv
  <1> QED
    BY <1>3, <1>4, <1>5, <1>6, <1>7 DEF ManageConnection

\* A step that leaves the view of every call alone.
LEMMA ViewIsKept ==
  ASSUME \A t \in Callers :
            PhaseOf(t)' = PhaseOf(t) /\ OpOf(t)' = OpOf(t) /\ CodeOf(t)' = CodeOf(t),
         AcceptedCalls' = AcceptedCalls
  PROVE  UNCHANGED Calls!vars
  <1>1. /\ [t \in Callers |-> PhaseOf(t)'] = [t \in Callers |-> PhaseOf(t)]
        /\ [t \in Callers |-> OpOf(t)'] = [t \in Callers |-> OpOf(t)]
        /\ [t \in Callers |-> CodeOf(t)'] = [t \in Callers |-> CodeOf(t)]
    OBVIOUS
  <1> QED
    BY <1>1 DEF Calls!vars, PhaseOf, OpOf, CodeOf, AcceptedCalls

LEMMA CallsFrame ==
  ASSUME AckInv, UNCHANGED <<pc, call, notif, acked, sock, atBroker, tx>>
  PROVE  AckInv' /\ UNCHANGED Calls!vars
  <1>1. AckInv'
    BY DEF AckInv, AckedIsWaiting, AtBrokerIsCurrent
  <1>2. /\ \A t \in Callers :
              PhaseOf(t)' = PhaseOf(t) /\ OpOf(t)' = OpOf(t) /\ CodeOf(t)' = CodeOf(t)
        /\ AcceptedCalls' = AcceptedCalls
    BY DEF PhaseOf, OpOf, CodeOf, AcceptedCalls, IsAnswered, Answered
  <1> QED
    BY <1>1, <1>2, ViewIsKept

\* The call of t ends.
LEMMA CallEnds ==
  ASSUME NEW t \in Callers, pc'[t] = "ready",
         \A u \in Callers \ {t} : pc'[u] = pc[u] /\ call'[u] = call[u] /\ notif'[u] = notif[u],
         AcceptedCalls' = AcceptedCalls \ {t}
  PROVE  Calls!Finish(t)
  <1>1. ASSUME NEW u \in Callers
        PROVE  /\ PhaseOf(u)' = IF u = t THEN "idle" ELSE PhaseOf(u)
               /\ OpOf(u)' = IF u = t THEN "none" ELSE OpOf(u)
               /\ CodeOf(u)' = IF u = t THEN "none" ELSE CodeOf(u)
    BY DEF PhaseOf, OpOf, CodeOf, IsAnswered, Answered
  <1>2. /\ [u \in Callers |-> PhaseOf(u)']
             = [[u \in Callers |-> PhaseOf(u)] EXCEPT ![t] = "idle"]
        /\ [u \in Callers |-> OpOf(u)'] = [[u \in Callers |-> OpOf(u)] EXCEPT ![t] = "none"]
        /\ [u \in Callers |-> CodeOf(u)'] = [[u \in Callers |-> CodeOf(u)] EXCEPT ![t] = "none"]
    BY <1>1
  <1> QED
    BY <1>2 DEF Calls!Finish, PhaseOf, OpOf, CodeOf, AcceptedCalls

LEMMA RefinementOfSend ==
  ASSUME TypeInv, AckInv, NEW t \in Callers, NEW o \in Ops, NEW b \in Brokers,
         SendCommand(t, o, b)
  PROVE  AckInv' /\ (Calls!Next \/ UNCHANGED Calls!vars)
  <1> USE DEF connVars, envVars, appVars
  <1>1. CASE FromCallback(t)
    BY <1>1, CallsFrame DEF SendCommand
  <1>2. CASE ~FromCallback(t)
    <2>1. /\ pc[t] = "ready" /\ pc'[t] = "enqueue" /\ call'[t].op = o /\ call'[t].id = nextId
          /\ \A u \in Callers \ {t} : pc'[u] = pc[u] /\ call'[u] = call[u] /\ notif'[u] = notif[u]
          /\ UNCHANGED <<acked, sock, atBroker, tx>>
          /\ \A u \in Callers : pc[u] # "ready" => call[u].id # nextId
      BY <1>2 DEF SendCommand, StateClear, IdIsUnused, TypeInv, TypeOK
    <2>2. nextId \notin acked
      BY <2>1 DEF AckInv, AckedIsWaiting
    <2>3. AcceptedCalls' = AcceptedCalls
      BY <2>1, <2>2 DEF AcceptedCalls
    <2>4. ASSUME NEW u \in Callers
          PROVE  /\ PhaseOf(u)' = IF u = t THEN "called" ELSE PhaseOf(u)
                 /\ OpOf(u)' = IF u = t THEN o ELSE OpOf(u)
                 /\ CodeOf(u)' = CodeOf(u)
      BY <2>1 DEF PhaseOf, OpOf, CodeOf, IsAnswered, Answered
    <2>5. /\ [u \in Callers |-> PhaseOf(u)']
               = [[u \in Callers |-> PhaseOf(u)] EXCEPT ![t] = "called"]
          /\ [u \in Callers |-> OpOf(u)'] = [[u \in Callers |-> OpOf(u)] EXCEPT ![t] = o]
          /\ [u \in Callers |-> CodeOf(u)'] = [u \in Callers |-> CodeOf(u)]
          /\ [u \in Callers |-> PhaseOf(u)][t] = "idle"
      BY <2>1, <2>4 DEF PhaseOf
    <2>6. Calls!Invoke(t, o)
      BY <2>3, <2>5 DEF Calls!Invoke, PhaseOf, OpOf, CodeOf, AcceptedCalls
    <2>7. Calls!Next
      BY <2>6 DEF Calls!Next
    <2>8. AckInv'
      BY <2>1 DEF AckInv, AckedIsWaiting, AtBrokerIsCurrent
    <2> QED
      BY <2>7, <2>8
  <1> QED
    BY <1>1, <1>2

LEMMA RefinementOfCaller ==
  ASSUME TypeInv, Core, TxInv, AckInv, NEW t \in Callers, CallerStep(t) \/ ForeignNotification(t)
  PROVE  AckInv' /\ (Calls!Next \/ UNCHANGED Calls!vars)
  <1> USE DEF connVars, envVars, appVars
  <1>1. /\ UNCHANGED <<sock, atBroker, tx>>
        /\ \A u \in Callers \ {t} : pc'[u] = pc[u] /\ call'[u] = call[u] /\ notif'[u] = notif[u]
    BY DEF CallerStep, Enqueue, EnqueueTimesOut, NotifyWait, ForeignNotification, TypeInv, TypeOK
  <1>2. AtBrokerIsCurrent'
    BY <1>1 DEF AckInv, AtBrokerIsCurrent
  <1>3. CASE Enqueue(t)
    <2>1. pc[t] = "enqueue" /\ pc'[t] = "wait" /\ UNCHANGED <<call, notif, acked>>
      BY <1>3 DEF Enqueue, TypeInv, TypeOK
    <2>2. ~Answered(t)
      <3>1. notif[t] \in {NoReply, Foreign}
        BY <2>1 DEF Core, NotificationsAreAnswers
      <3> QED
        BY <2>1, <3>1, ForeignIsNoAnswer
    <2>3. /\ \A u \in Callers :
                PhaseOf(u)' = PhaseOf(u) /\ OpOf(u)' = OpOf(u) /\ CodeOf(u)' = CodeOf(u)
          /\ AcceptedCalls' = AcceptedCalls
      BY <1>1, <2>1, <2>2 DEF PhaseOf, OpOf, CodeOf, AcceptedCalls, IsAnswered, Answered
    <2>4. AckedIsWaiting'
      BY <1>1, <2>1 DEF AckInv, AckedIsWaiting
    <2> QED
      BY <1>2, <2>3, <2>4, ViewIsKept DEF AckInv
  <1>4. CASE EnqueueTimesOut(t)
    <2>1. pc[t] = "enqueue" /\ pc'[t] = "ready" /\ UNCHANGED acked
      BY <1>4 DEF EnqueueTimesOut, TypeInv, TypeOK
    <2>2. call[t].id \notin acked
      BY <2>1 DEF AckInv, AckedIsWaiting, TxInv, IdsDiffer
    <2>3. AcceptedCalls' = AcceptedCalls \ {t} /\ t \notin AcceptedCalls
      BY <1>1, <2>1, <2>2 DEF AcceptedCalls
    <2>4. AckedIsWaiting'
      BY <1>1, <2>1, <2>2 DEF AckInv, AckedIsWaiting
    <2>5. [u \in Callers |-> PhaseOf(u)][t] = "called"
      BY <2>1 DEF PhaseOf, IsAnswered
    <2>6. Calls!Finish(t)
      BY <1>1, <2>1, <2>3, CallEnds
    <2>7. Calls!Refuse(t)
      BY <2>3, <2>5, <2>6 DEF Calls!Refuse, PhaseOf, AcceptedCalls
    <2>8. Calls!Next
      BY <2>7 DEF Calls!Next
    <2> QED
      BY <1>2, <2>4, <2>8 DEF AckInv
  <1>5. CASE NotifyWait(t) /\ Answered(t)
    <2>1. pc[t] = "wait" /\ Answered(t)
      BY <1>5 DEF NotifyWait
    <2>2. pc'[t] = "ready" /\ acked' = acked \ {call[t].id}
      BY <1>5, <2>1 DEF NotifyWait, Answered, TypeInv, TypeOK
    <2>3. ASSUME NEW u \in Callers, u # t, pc[u] # "ready" PROVE call[u].id # call[t].id
      BY <2>1, <2>3 DEF TxInv, IdsDiffer
    <2>4. AcceptedCalls' = AcceptedCalls \ {t}
      BY <1>1, <2>1, <2>2, <2>3 DEF AcceptedCalls
    <2>5. AckedIsWaiting'
      BY <1>1, <2>2 DEF AckInv, AckedIsWaiting
    <2>6. [u \in Callers |-> PhaseOf(u)][t] = "answered"
      BY <2>1 DEF PhaseOf, IsAnswered
    <2>7. Calls!Finish(t)
      BY <1>1, <2>2, <2>4, CallEnds
    <2>8. Calls!Return(t)
      BY <2>6, <2>7 DEF Calls!Return, PhaseOf
    <2>9. Calls!Next
      BY <2>8 DEF Calls!Next
    <2> QED
      BY <1>2, <2>5, <2>9 DEF AckInv
  <1>6. CASE ForeignNotification(t) \/ (NotifyWait(t) /\ ~Answered(t))
    <2>1. /\ UNCHANGED <<pc, call, acked>>
          /\ notif[t] \in {NoReply, Foreign} /\ notif'[t] \in {NoReply, Foreign}
      BY <1>6 DEF ForeignNotification, NotifyWait, Answered, Core, NotificationsAreAnswers,
         TypeInv, TypeOK
    <2>2. ~IsAnswered(t) /\ ~IsAnswered(t)'
      <3>1. pc[t] # "ready" => call[t].id \in Ids
        BY DEF TypeInv, CallsAreCommands, Commands
      <3> QED
        BY <2>1, <3>1, ConstantsAreTyped DEF IsAnswered, Answered, NoReply, Foreign
    <2>3. /\ \A u \in Callers :
                PhaseOf(u)' = PhaseOf(u) /\ OpOf(u)' = OpOf(u) /\ CodeOf(u)' = CodeOf(u)
          /\ AcceptedCalls' = AcceptedCalls
      <3>1. ASSUME NEW u \in Callers
            PROVE  /\ IsAnswered(u)' <=> IsAnswered(u)
                   /\ IsAnswered(u) => notif'[u] = notif[u]
        BY <1>1, <2>1, <2>2 DEF IsAnswered, Answered
      <3> QED
        BY <2>1, <3>1 DEF PhaseOf, OpOf, CodeOf, AcceptedCalls
    <2>4. AckedIsWaiting'
      BY <2>1 DEF AckInv, AckedIsWaiting
    <2> QED
      BY <1>2, <2>3, <2>4, ViewIsKept DEF AckInv
  <1> QED
    BY <1>3, <1>4, <1>5, <1>6 DEF CallerStep

LEMMA AckInvInit == Init => AckInv
  BY DEF Init, AckInv, AckedIsWaiting, AtBrokerIsCurrent

LEMMA RefinementInit == Init => Calls!Init
  BY DEF Init, Calls!Init, IsAnswered

LEMMA RefinementStep ==
    ServiceInv /\ TxInv /\ SockInv /\ AckInv /\ [Next]_vars
    => AckInv' /\ [Calls!Next]_(Calls!vars)
  <1> SUFFICES ASSUME ServiceInv, TxInv, SockInv, AckInv, [Next]_vars
               PROVE  AckInv' /\ (Calls!Next \/ UNCHANGED Calls!vars)
    OBVIOUS
  <1> USE DEF connVars, envVars, appVars
  <1>1. TypeInv /\ TypeInv' /\ Core
    BY TypeInvStep DEF ServiceInv
  <1>2. ASSUME NEW t \in Callers, CallerStep(t)
        PROVE  AckInv' /\ (Calls!Next \/ UNCHANGED Calls!vars)
    BY <1>1, <1>2, RefinementOfCaller
  <1>3. ASSUME NEW t \in Tasks, App(t)
        PROVE  AckInv' /\ (Calls!Next \/ UNCHANGED Calls!vars)
    <2>1. t \in Callers
      BY DEF Callers
    <2>2. CASE Create(t) \/ \E b \in Brokers : Delete(t, b)
      BY <2>2, CallsFrame DEF Create, Delete
    <2> QED
      BY <1>1, <1>3, <2>1, <2>2, RefinementOfCaller, RefinementOfSend DEF App
  <1>4. CASE ReturnBuffer \/ SocketWakeup
    BY <1>4, CallsFrame DEF ReturnBuffer, SocketWakeup
  <1>5. CASE CallFromCallback
    <2>1. mbroker \in Brokers
      BY <1>1 DEF TypeInv, TypeOK
    <2> QED
      BY <1>1, <1>5, <2>1, RefinementOfSend, ConstantsAreTyped DEF CallFromCallback
  <1>6. CASE MqttTaskStep
    <2>1. CASE ReceiveTimesOut
      BY <2>1, CallsFrame DEF ReceiveTimesOut
    <2> QED
      BY <1>1, <1>6, <2>1, RefinementOfCommand, RefinementOfManage DEF MqttTaskStep, ExecuteCommand
  <1>7. CASE UNCHANGED vars
    BY <1>7, CallsFrame DEF vars
  <1> QED
    BY <1>2, <1>3, <1>4, <1>5, <1>6, <1>7 DEF Next

\* The agent implements MQTTCalls: however commands, answers, timeouts and errors
\* interleave, a call is answered at most once between its start and its return, and
\* reports success only for a request that the server accepted during this call.
THEOREM CallsAreImplemented == Spec => ImplementsCalls
  BY ServiceInvInit, ServiceInvStep, TxInvInit, TxInvStep, SockInvInit, SockInvStep,
     AckInvInit, RefinementInit, RefinementStep, PTL DEF Spec, ImplementsCalls, Calls!Spec

=============================================================================
