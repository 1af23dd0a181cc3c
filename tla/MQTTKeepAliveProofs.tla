------------------------- MODULE MQTTKeepAliveProofs -------------------------
(***************************************************************************)
(* Theorems about MQTTKeepAlive.  The invariant relates the clocks of the  *)
(* library to the time for which the MQTT task sleeps: what is left on a   *)
(* clock covers the sleep, up to the lag of the task, and what has been    *)
(* counted down from it is what has passed.                                *)
(***************************************************************************)
EXTENDS MQTTKeepAlive, TLAPS

\* The task is awake in a turn of its loop.
SleepsInQueue == pc # "wait" => sleep = 0

\* The task does not sleep past the end of an operation ...
WakesForOperations == \A o \in tx : age[o] + sleep <= remaining[o] + lag

\* ... nor past the time of the keep-alive.
WakesForKeepAlive ==
    connection = "connected" => sentAge + sleep <= nextPeriodic + lag

\* Time an operation has lost on its clock is time it has waited.
CountsWhatPassed == \A o \in tx : waited[o] + remaining[o] = timeout[o] + age[o]

\* Between two packets, a late PINGRESP can restart the clock once.
QuietIsShort ==
    connection = "connected" =>
        quiet + nextPeriodic <= sentAge + (IF waitingPing THEN ACTUAL_INTERVAL
                                           ELSE 2 * ACTUAL_INTERVAL + MAX_LAG)

\* While an answer is awaited, its time is not over before the clock is.
PingIsTimed ==
    connection = "connected" /\ waitingPing =>
        pinged >= PING_TIMEOUT \/ pinged + nextPeriodic >= sentAge + PING_TIMEOUT

Clocks ==
    /\ SleepsInQueue /\ WakesForOperations /\ WakesForKeepAlive
    /\ CountsWhatPassed /\ QuietIsShort /\ PingIsTimed

\* A CONNECT is alone in the list.
OnlyConnect ==
    /\ connection = "none" => tx = {}
    /\ connection = "connecting" => \A o, p \in tx : o = p

IInv == TypeOK /\ Clocks /\ OnlyConnect

LEMMA InitHolds == Init => IInv
<1> SUFFICES ASSUME Init PROVE IInv
  OBVIOUS
<1>1. TypeOK
  <2>1. 0 \in 0 .. FOREVER /\ 0 \in 0 .. MAX_LAG /\ 0 \in 0 .. LatePing
    BY ClockAssumption DEF LatePing
  <2>2. [o \in Operations |-> 0] \in [Operations -> Nat]
    OBVIOUS
  <2> QED BY <2>1, <2>2, Zenon DEF Init, TypeOK
<1>2. Clocks
  BY DEF Init, Clocks, SleepsInQueue, WakesForOperations, WakesForKeepAlive,
         CountsWhatPassed, QuietIsShort, PingIsTimed
<1>3. OnlyConnect
  BY DEF Init, OnlyConnect
<1> QED BY <1>1, <1>2, <1>3 DEF IInv

\* The parts of the invariant that speak of operations, and those of the ping.
OperationClocks == SleepsInQueue /\ WakesForOperations /\ CountsWhatPassed
ConnectionClocks == WakesForKeepAlive /\ QuietIsShort /\ PingIsTimed

\* What a step leaves alone of the connection's clocks.
LEMMA ConnectionUnchanged ==
    ASSUME IInv, UNCHANGED <<connection, sentVars, pingVars>>, sleep' = 0, lag' = lag
    PROVE  ConnectionClocks'
BY DEF IInv, TypeOK, Clocks, WakesForKeepAlive, QuietIsShort, PingIsTimed,
       ConnectionClocks, sentVars, pingVars

\* A packet that was sent restarts the clock of the keep-alive.
LEMMA SendKeepsClocks ==
    ASSUME IInv, SendData, connection' = connection, sleep' = 0, lag' = lag,
           UNCHANGED <<waitingPing, pinged>>
    PROVE  ConnectionClocks'
BY ClockAssumption, PingAssumption
DEF IInv, TypeOK, Clocks, WakesForKeepAlive, QuietIsShort, PingIsTimed,
    ConnectionClocks, SendData

\* One that was not leaves it.
LEMMA SendFailureKeepsClocks ==
    ASSUME IInv, SendDataFails, connection' = connection, sleep' = 0, lag' = lag,
           UNCHANGED <<waitingPing, pinged>>
    PROVE  ConnectionClocks'
BY ClockAssumption
DEF IInv, TypeOK, Clocks, WakesForKeepAlive, QuietIsShort, PingIsTimed,
    ConnectionClocks, SendDataFails

\* Without a connection there is nothing to show.
LEMMA DownKeepsClocks == connection' # "connected" => ConnectionClocks'
BY DEF WakesForKeepAlive, QuietIsShort, PingIsTimed, ConnectionClocks

\* Operations keep their clocks while no time is counted down.
LEMMA OperationsUnchanged ==
    ASSUME IInv, UNCHANGED txVars, sleep' = 0, lag' = lag
    PROVE  OperationClocks'
BY DEF IInv, TypeOK, Clocks, SleepsInQueue, WakesForOperations, CountsWhatPassed,
       OperationClocks, txVars

LEMMA LinkedKeepsClocks ==
    ASSUME IInv, NEW o \in Operations, NEW t \in Timeouts, Linked(o, t),
           sleep' = 0, lag' = lag
    PROVE  OperationClocks'
BY ClockAssumption
DEF IInv, TypeOK, Clocks, SleepsInQueue, WakesForOperations, CountsWhatPassed,
    OperationClocks, Linked

LEMMA UnlinkedKeepsClocks ==
    ASSUME IInv, NEW S, Unlinked(S), sleep' = 0, lag' = lag
    PROVE  OperationClocks'
BY DEF IInv, TypeOK, Clocks, SleepsInQueue, WakesForOperations, CountsWhatPassed,
       OperationClocks, Unlinked, Kept

LEMMA ClocksAreBoth == OperationClocks' /\ ConnectionClocks' => Clocks'
BY DEF OperationClocks, ConnectionClocks, Clocks

-----------------------------------------------------------------------------
(* Types.                                                                   *)

LEMMA UnlinkedType ==
    ASSUME TypeOK, NEW S, Unlinked(S)
    PROVE  /\ tx' \in SUBSET Operations
           /\ age' \in [Operations -> Nat] /\ remaining' \in [Operations -> Nat]
           /\ waited' \in [Operations -> Nat] /\ timeout' \in [Operations -> Nat]
BY DEF TypeOK, Unlinked, Kept

LEMMA LinkedType ==
    ASSUME TypeOK, NEW o \in Operations, NEW t \in Timeouts, Linked(o, t)
    PROVE  /\ tx' \in SUBSET Operations
           /\ age' \in [Operations -> Nat] /\ remaining' \in [Operations -> Nat]
           /\ waited' \in [Operations -> Nat] /\ timeout' \in [Operations -> Nat]
BY ClockAssumption DEF TypeOK, Linked

LEMMA SendType ==
    ASSUME TypeOK, SendData \/ SendDataFails
    PROVE  sentAge' \in Nat /\ nextPeriodic' \in Nat /\ quiet' \in Nat
BY ClockAssumption DEF TypeOK, SendData, SendDataFails

LEMMA PeriodicType ==
    ASSUME TypeOK, MQTT_Periodic
    PROVE  TypeOK'
<1>1. /\ tx' \in SUBSET Operations
      /\ age' \in [Operations -> Nat] /\ remaining' \in [Operations -> Nat]
      /\ waited' \in [Operations -> Nat] /\ timeout' \in [Operations -> Nat]
      /\ connection' \in {"none", "connecting", "connected"}
  <2>1. CASE ConnectTimesOut
    BY <2>1, UnlinkedType DEF ConnectTimesOut, ResetMQTTContext
  <2>2. CASE OperationsTimeOut
    <3>1. tx' \in SUBSET Operations /\ tx' \subseteq tx /\ connection' = connection
      BY <2>2 DEF OperationsTimeOut, TypeOK
    <3>2. /\ age' \in [Operations -> Nat]
          /\ waited' \in [Operations -> Nat] /\ timeout' \in [Operations -> Nat]
      BY <2>2 DEF OperationsTimeOut, TypeOK, Kept
    <3>3. ASSUME NEW o \in tx' PROVE RemainingAfter(o) \in Nat
      BY <2>2, <3>1, <3>3 DEF OperationsTimeOut, TypeOK, TimedOut, IsTimeElapsed, RemainingAfter
    <3>4. remaining' \in [Operations -> Nat]
      BY <2>2, <3>3 DEF OperationsTimeOut
    <3> QED BY <3>1, <3>2, <3>4 DEF TypeOK
  <2> QED BY <2>1, <2>2 DEF MQTT_Periodic
<1>2. /\ sentAge' \in Nat /\ nextPeriodic' \in Nat /\ quiet' \in Nat
      /\ pinged' \in 0 .. LatePing
  BY ClockAssumption
  DEF TypeOK, MQTT_Periodic, ConnectTimesOut, ResetMQTTContext, PingTimeout, SendPing,
      SendPingFails, KeepAliveIsNotDue, NotConnected, KeepAliveIsDue, IsTimeElapsed,
      LatePing, sentVars, pingVars
<1>3. waitingPing' \in BOOLEAN /\ busy' \in BOOLEAN
  BY DEF TypeOK, MQTT_Periodic, ConnectTimesOut, ResetMQTTContext, PingTimeout, SendPing,
      SendPingFails, KeepAliveIsNotDue, NotConnected, sentVars, pingVars
<1>4. /\ pc' \in {"wait", "read", "periodic"} /\ again' \in BOOLEAN
      /\ sleep' \in 0 .. FOREVER /\ lag' \in 0 .. MAX_LAG
  <2>1. pc' = "wait" /\ again' = FALSE /\ lag' = 0 /\ sleep' \in 0 .. FOREVER
    BY DEF MQTT_Periodic
  <2>2. lag' \in 0 .. MAX_LAG
    BY <2>1, ClockAssumption
  <2> QED BY <2>1, <2>2, Zenon
<1> QED BY <1>1, <1>2, <1>3, <1>4 DEF TypeOK

LEMMA TickType ==
    ASSUME TypeOK, Tick
    PROVE  TypeOK'
<1>1. age' \in [Operations -> Nat] /\ waited' \in [Operations -> Nat]
  BY DEF TypeOK, Tick
<1>2. sentAge' \in Nat /\ quiet' \in Nat /\ pinged' \in 0 .. LatePing
  BY ClockAssumption DEF TypeOK, Tick, Smaller, LatePing
<1>3. sleep' \in 0 .. FOREVER /\ lag' \in 0 .. MAX_LAG
  BY ClockAssumption DEF TypeOK, Tick
<1>4. /\ UNCHANGED <<pc, again, connection, tx, remaining, timeout>>
      /\ UNCHANGED <<nextPeriodic, waitingPing, busy>>
  BY DEF Tick
<1> QED BY <1>1, <1>2, <1>3, <1>4 DEF TypeOK

LEMMA ProceedType ==
    ASSUME TypeOK, Proceed
    PROVE  /\ pc' \in {"wait", "read", "periodic"} /\ again' \in BOOLEAN
           /\ sleep' \in 0 .. FOREVER /\ lag' \in 0 .. MAX_LAG
BY ClockAssumption DEF TypeOK, Proceed

LEMMA TypeInvariance == TypeOK /\ [Next]_vars => TypeOK'
<1> SUFFICES ASSUME TypeOK, [Next]_vars PROVE TypeOK'
  OBVIOUS
<1>1. CASE Tick
  BY <1>1, TickType
<1>2. CASE WaitTimesOut \/ ReceiveOther
  BY <1>2, ClockAssumption
  DEF TypeOK, WaitTimesOut, ReceiveOther, Proceed, txVars, sentVars, pingVars
<1>3. ASSUME NEW o \in Operations, NEW t \in Timeouts, Connect(o, t) \/ Request(o, t)
      PROVE  TypeOK'
  <2>1. Linked(o, t) /\ SendData /\ Proceed
    BY <1>3 DEF Connect, Request
  <2>2. /\ connection' \in {"none", "connecting", "connected"} /\ pinged' = pinged
        /\ waitingPing' = waitingPing /\ busy' \in BOOLEAN
    BY <1>3 DEF TypeOK, Connect, Request, pingVars
  <2>3. /\ tx' \in SUBSET Operations
        /\ age' \in [Operations -> Nat] /\ remaining' \in [Operations -> Nat]
        /\ waited' \in [Operations -> Nat] /\ timeout' \in [Operations -> Nat]
    BY <2>1, LinkedType
  <2>4. sentAge' \in Nat /\ nextPeriodic' \in Nat /\ quiet' \in Nat
    BY <2>1, SendType
  <2> QED BY <2>1, <2>2, <2>3, <2>4, ProceedType DEF TypeOK
<1>4. CASE PublishQoS0 \/ SendFails
  <2>1. sentAge' \in Nat /\ nextPeriodic' \in Nat /\ quiet' \in Nat
    BY <1>4, SendType DEF PublishQoS0, SendFails
  <2>2. Proceed /\ UNCHANGED <<connection, txVars, waitingPing, pinged>> /\ busy' \in BOOLEAN
    BY <1>4 DEF PublishQoS0, SendFails, pingVars, TypeOK
  <2> QED BY <2>1, <2>2, ProceedType DEF TypeOK, txVars
<1>5. CASE Disconnect
  BY <1>5, ClockAssumption, SendType, UnlinkedType
  DEF TypeOK, Disconnect, Proceed, ResetMQTTContext, pingVars
<1>6. CASE ReceivedNothing \/ ReceivedOther
  BY <1>6 DEF TypeOK, ReceivedNothing, ReceivedOther, Received, txVars, sentVars, pingVars
<1>7. CASE SocketError \/ ReceivedMalformed
  BY <1>7, SendType, UnlinkedType
  DEF TypeOK, SocketError, ReceivedMalformed, Received, ResetMQTTContext, sentVars, pingVars
<1>8. CASE ReceivedCONNACK
  BY <1>8, ClockAssumption, UnlinkedType DEF TypeOK, ReceivedCONNACK, Received
<1>9. CASE ReceivedPUBLISH
  BY <1>9, SendType DEF TypeOK, ReceivedPUBLISH, Received, txVars
<1>10. CASE ReceivedPINGRESP
  BY <1>10, ClockAssumption DEF TypeOK, ReceivedPINGRESP, Received, txVars
<1>11. ASSUME NEW o \in Operations, ReceivedAck(o) PROVE TypeOK'
  BY <1>11, UnlinkedType DEF TypeOK, ReceivedAck, Received, sentVars, pingVars
<1>12. CASE MQTT_Periodic
  BY <1>12, PeriodicType
<1>13. CASE UNCHANGED vars
  BY <1>13 DEF TypeOK, vars
<1> QED
  BY <1>1, <1>2, <1>3, <1>4, <1>5, <1>6, <1>7, <1>8, <1>9, <1>10, <1>11, <1>12, <1>13
  DEF Next

-----------------------------------------------------------------------------
(* The clocks.                                                              *)

LEMMA TickKeepsClocks ==
    ASSUME IInv, Tick
    PROVE  Clocks'
<1>1. (SleepsInQueue /\ WakesForOperations /\ WakesForKeepAlive)'
  <2>1. SleepsInQueue'
    BY DEF IInv, TypeOK, Clocks, Tick, SleepsInQueue
  <2>2. WakesForOperations'
    BY ClockAssumption
    DEF IInv, TypeOK, Clocks, Tick, WakesForOperations
  <2>3. WakesForKeepAlive'
    BY ClockAssumption
    DEF IInv, TypeOK, Clocks, Tick, WakesForKeepAlive
  <2> QED BY <2>1, <2>2, <2>3
<1>2. CountsWhatPassed'
  BY DEF IInv, TypeOK, Clocks, Tick, CountsWhatPassed
<1>3. QuietIsShort'
  BY ClockAssumption DEF IInv, TypeOK, Clocks, Tick, QuietIsShort
<1>4. PingIsTimed'
  BY ClockAssumption DEF IInv, TypeOK, Clocks, Tick, PingIsTimed, Smaller, LatePing
<1> QED BY <1>1, <1>2, <1>3, <1>4 DEF Clocks

\* Two sums with parts that are zero.
LEMMA WakeSum ==
    ASSUME NEW a, NEW s \in Nat, NEW n \in Nat, NEW l, a = 0, l = 0, s <= n
    PROVE  a + s <= n + l
OBVIOUS

LEMMA QuietSum ==
    ASSUME NEW q \in Nat, NEW n, NEW a, NEW b \in Nat, n = 0, a = 0, q <= b
    PROVE  q + n <= a + b
OBVIOUS

LEMMA PeriodicKeepsClocks ==
    ASSUME IInv, MQTT_Periodic
    PROVE  Clocks'
<1>1. /\ pc' = "wait" /\ lag' = 0 /\ sleep' \in Nat
      /\ \A o \in tx' : sleep' <= remaining'[o]
      /\ connection' = "connected" => sleep' <= nextPeriodic'
  BY ClockAssumption DEF MQTT_Periodic, Due
<1>2. OperationClocks'
  <2>1. CASE ConnectTimesOut
    <3>1. tx' = {}
      BY <2>1 DEF ConnectTimesOut, ResetMQTTContext, Unlinked
    <3> QED BY <1>1, <3>1
      DEF OperationClocks, SleepsInQueue, WakesForOperations, CountsWhatPassed
  <2>2. CASE OperationsTimeOut
    <3>1. ASSUME NEW o \in tx'
          PROVE  /\ o \in tx /\ age'[o] = 0 /\ remaining'[o] = remaining[o] - age[o]
                 /\ waited'[o] = waited[o] /\ timeout'[o] = timeout[o]
                 /\ remaining'[o] \in Nat
      BY <2>2, <3>1 DEF OperationsTimeOut, Kept, RemainingAfter, IInv, TypeOK, TimedOut,
                        IsTimeElapsed
    <3>2. WakesForOperations'
      BY <1>1, <3>1 DEF WakesForOperations
    <3>3. CountsWhatPassed'
      <4> SUFFICES ASSUME NEW o \in tx'
                   PROVE  waited'[o] + remaining'[o] = timeout'[o] + age'[o]
        BY DEF CountsWhatPassed
      <4>1. waited[o] + remaining[o] = timeout[o] + age[o]
        BY <3>1 DEF CountsWhatPassed, IInv, Clocks
      <4>2. /\ waited[o] \in Nat /\ remaining[o] \in Nat
            /\ timeout[o] \in Nat /\ age[o] \in Nat
        BY <3>1 DEF IInv, TypeOK
      <4> QED BY <3>1, <4>1, <4>2
    <3> QED BY <1>1, <3>2, <3>3 DEF OperationClocks, SleepsInQueue
  <2> QED BY <2>1, <2>2 DEF MQTT_Periodic
<1>3. ConnectionClocks'
  <2>1. CASE ConnectTimesOut
    BY <2>1, DownKeepsClocks DEF ConnectTimesOut, ResetMQTTContext
  <2>2. CASE OperationsTimeOut /\ connection # "connected"
    BY <2>2, DownKeepsClocks DEF OperationsTimeOut
  <2>3. CASE OperationsTimeOut /\ connection = "connected"
    <3>1. connection' = "connected" /\ sentAge' = 0 /\ nextPeriodic' \in Nat
      BY <2>3, PeriodicType
      DEF OperationsTimeOut, MQTT_Periodic, ConnectTimesOut, PingTimeout, SendPing,
          SendPingFails, KeepAliveIsNotDue, NotConnected, IInv, TypeOK
    <3>2. WakesForKeepAlive'
      <4>1. sleep' <= nextPeriodic' /\ lag' = 0 /\ sleep' \in Nat
        BY <1>1, <3>1
      <4>2. sentAge' + sleep' <= nextPeriodic' + lag'
        BY <3>1, <4>1, WakeSum
      <4> QED BY <4>2 DEF WakesForKeepAlive
    <3>3. PingTimeout \/ SendPing \/ SendPingFails \/ KeepAliveIsNotDue
      BY <2>3 DEF MQTT_Periodic, ConnectTimesOut, NotConnected
    <3>4. /\ sentAge \in Nat /\ nextPeriodic \in Nat /\ quiet \in Nat /\ pinged \in Nat
          /\ lag \in Nat /\ lag <= MAX_LAG /\ sleep \in Nat
          /\ sentAge + sleep <= nextPeriodic + lag
      BY <2>3, ClockAssumption DEF IInv, TypeOK, Clocks, WakesForKeepAlive, LatePing
    <3>5. /\ waitingPing => quiet + nextPeriodic <= sentAge + ACTUAL_INTERVAL
          /\ ~waitingPing =>
                quiet + nextPeriodic <= sentAge + 2 * ACTUAL_INTERVAL + MAX_LAG
          /\ waitingPing => \/ pinged >= PING_TIMEOUT
                            \/ pinged + nextPeriodic >= sentAge + PING_TIMEOUT
      <4>1. CASE waitingPing
        BY <2>3, <4>1 DEF IInv, Clocks, QuietIsShort, PingIsTimed
      <4>2. CASE ~waitingPing
        BY <2>3, <3>4, <4>2, ClockAssumption DEF IInv, Clocks, QuietIsShort
      <4> QED BY <4>1, <4>2
    <3>6. CASE PingTimeout
      <4>1. waitingPing' = FALSE /\ quiet' <= 2 * ACTUAL_INTERVAL + MAX_LAG /\ nextPeriodic' = 0
        BY <3>4, <3>5, <3>6, ClockAssumption DEF PingTimeout
      <4>2. quiet' \in Nat
        BY <3>4, <3>6 DEF PingTimeout
      <4>3. quiet' + nextPeriodic' <= sentAge' + (2 * ACTUAL_INTERVAL + MAX_LAG)
        <5>1. 2 * ACTUAL_INTERVAL + MAX_LAG \in Nat
          BY ClockAssumption
        <5> QED BY <3>1, <4>1, <4>2, <5>1, QuietSum
      <4> QED BY <3>2, <4>1, <4>3 DEF ConnectionClocks, QuietIsShort, PingIsTimed
    <3>7. CASE SendPing
      BY <3>1, <3>2, <3>7, ClockAssumption, PingAssumption
      DEF SendPing, ConnectionClocks, QuietIsShort, PingIsTimed
    <3>8. CASE SendPingFails
      BY <3>1, <3>2, <3>8, ClockAssumption
      DEF SendPingFails, ConnectionClocks, QuietIsShort, PingIsTimed, pingVars
    <3>9. CASE KeepAliveIsNotDue
      <4>1. /\ quiet' = quiet /\ pinged' = pinged /\ waitingPing' = waitingPing
            /\ nextPeriodic' = nextPeriodic - sentAge
        BY <3>9 DEF KeepAliveIsNotDue, pingVars
      <4>2. CASE waitingPing
        BY <3>1, <3>2, <3>4, <3>5, <4>1, <4>2, ClockAssumption
        DEF ConnectionClocks, QuietIsShort, PingIsTimed
      <4>3. CASE ~waitingPing
        BY <3>1, <3>2, <3>4, <3>5, <4>1, <4>3, ClockAssumption
        DEF ConnectionClocks, QuietIsShort, PingIsTimed
      <4> QED BY <4>2, <4>3
    <3> QED BY <3>3, <3>6, <3>7, <3>8, <3>9
  <2> QED BY <2>1, <2>2, <2>3 DEF MQTT_Periodic
<1> QED BY <1>2, <1>3, ClocksAreBoth

LEMMA ProceedIsInTurn ==
    ASSUME IInv, Proceed
    PROVE  sleep' = 0 /\ lag' = lag
BY DEF Proceed

LEMMA ReceivedIsInTurn ==
    ASSUME IInv, Received
    PROVE  sleep' = 0 /\ lag' = lag
BY DEF Received, IInv, Clocks, SleepsInQueue

LEMMA ClocksInvariance == IInv /\ [Next]_vars => Clocks'
<1> SUFFICES ASSUME IInv, [Next]_vars PROVE Clocks'
  OBVIOUS
<1>1. CASE Tick
  BY <1>1, TickKeepsClocks
<1>2. CASE WaitTimesOut \/ ReceiveOther
  <2>1. /\ UNCHANGED <<connection, sentVars, pingVars>> /\ UNCHANGED txVars
        /\ sleep' = 0 /\ lag' = lag
    BY <1>2, ProceedIsInTurn DEF WaitTimesOut, ReceiveOther
  <2> QED BY <2>1, OperationsUnchanged, ConnectionUnchanged, ClocksAreBoth
<1>3. ASSUME NEW o \in Operations, NEW t \in Timeouts, Connect(o, t) \/ Request(o, t)
      PROVE  Clocks'
  <2>1. Linked(o, t) /\ SendData /\ sleep' = 0 /\ lag' = lag
    BY <1>3, ProceedIsInTurn DEF Connect, Request
  <2>2. OperationClocks'
    BY <2>1, LinkedKeepsClocks
  <2>3. CASE Connect(o, t)
    BY <2>2, <2>3, DownKeepsClocks, ClocksAreBoth DEF Connect
  <2>4. CASE Request(o, t)
    <3>1. connection' = connection /\ UNCHANGED <<waitingPing, pinged>>
      BY <2>4 DEF Request
    <3> QED BY <2>1, <2>2, <3>1, SendKeepsClocks, ClocksAreBoth
  <2> QED BY <1>3, <2>3, <2>4
<1>4. CASE PublishQoS0 \/ SendFails
  <2>1. /\ SendData \/ SendDataFails
        /\ UNCHANGED txVars /\ UNCHANGED <<waitingPing, pinged>>
        /\ connection' = connection /\ sleep' = 0 /\ lag' = lag
    BY <1>4, ProceedIsInTurn DEF PublishQoS0, SendFails, pingVars
  <2> QED BY <2>1, OperationsUnchanged, SendKeepsClocks, SendFailureKeepsClocks, ClocksAreBoth
<1>5. CASE Disconnect
  <2>1. Unlinked(tx) /\ connection' = "none" /\ sleep' = 0 /\ lag' = lag
    BY <1>5, ProceedIsInTurn DEF Disconnect, ResetMQTTContext
  <2> QED BY <2>1, UnlinkedKeepsClocks, DownKeepsClocks, ClocksAreBoth
<1>6. CASE ReceivedNothing \/ ReceivedOther
  <2>1. /\ UNCHANGED <<connection, sentVars, pingVars>> /\ UNCHANGED txVars
        /\ sleep' = 0 /\ lag' = lag
    BY <1>6, ReceivedIsInTurn
    DEF ReceivedNothing, ReceivedOther, IInv, Clocks, SleepsInQueue
  <2> QED BY <2>1, OperationsUnchanged, ConnectionUnchanged, ClocksAreBoth
<1>7. CASE SocketError \/ ReceivedMalformed
  <2>1. Unlinked(tx) /\ connection' = "none" /\ sleep' = 0 /\ lag' = lag
    BY <1>7, ReceivedIsInTurn
    DEF SocketError, ReceivedMalformed, ResetMQTTContext, IInv, Clocks, SleepsInQueue
  <2> QED BY <2>1, UnlinkedKeepsClocks, DownKeepsClocks, ClocksAreBoth
<1>8. CASE ReceivedCONNACK
  <2>1. Unlinked(tx) /\ sleep' = 0 /\ lag' = lag
    BY <1>8, ReceivedIsInTurn DEF ReceivedCONNACK
  <2>2. ConnectionClocks'
    BY <1>8, <2>1, ClockAssumption
    DEF ReceivedCONNACK, ConnectionClocks, WakesForKeepAlive, QuietIsShort, PingIsTimed,
        IInv, TypeOK
  <2> QED BY <2>1, <2>2, UnlinkedKeepsClocks, ClocksAreBoth
<1>9. CASE ReceivedPUBLISH
  <2>1. /\ SendData \/ SendDataFails
        /\ UNCHANGED txVars /\ UNCHANGED <<waitingPing, pinged>>
        /\ connection' = connection /\ sleep' = 0 /\ lag' = lag
    BY <1>9, ReceivedIsInTurn DEF ReceivedPUBLISH
  <2> QED BY <2>1, OperationsUnchanged, SendKeepsClocks, SendFailureKeepsClocks, ClocksAreBoth
<1>10. CASE ReceivedPINGRESP
  <2>1. UNCHANGED txVars /\ sleep' = 0 /\ lag' = lag
    BY <1>10, ReceivedIsInTurn DEF ReceivedPINGRESP
  <2>2. ConnectionClocks'
    BY <1>10, <2>1, ClockAssumption
    DEF ReceivedPINGRESP, ConnectionClocks, WakesForKeepAlive, QuietIsShort, PingIsTimed,
        IInv, Clocks, TypeOK
  <2> QED BY <2>1, <2>2, OperationsUnchanged, ClocksAreBoth
<1>11. ASSUME NEW o \in Operations, ReceivedAck(o) PROVE Clocks'
  <2>1. /\ UNCHANGED <<connection, sentVars, pingVars>> /\ Unlinked({o})
        /\ sleep' = 0 /\ lag' = lag
    BY <1>11, ReceivedIsInTurn DEF ReceivedAck
  <2> QED BY <2>1, UnlinkedKeepsClocks, ConnectionUnchanged, ClocksAreBoth
<1>12. CASE MQTT_Periodic
  BY <1>12, PeriodicKeepsClocks
<1>13. CASE UNCHANGED vars
  BY <1>13
  DEF IInv, Clocks, SleepsInQueue, WakesForOperations, WakesForKeepAlive,
      CountsWhatPassed, QuietIsShort, PingIsTimed, vars
<1> QED
  BY <1>1, <1>2, <1>3, <1>4, <1>5, <1>6, <1>7, <1>8, <1>9, <1>10, <1>11, <1>12, <1>13
  DEF Next

LEMMA OnlyConnectInvariance == OnlyConnect /\ [Next]_vars => OnlyConnect'
<1> SUFFICES ASSUME OnlyConnect, [Next]_vars PROVE OnlyConnect'
  OBVIOUS
<1>1. CASE connection' = "none" /\ ResetMQTTContext
  BY <1>1 DEF OnlyConnect, ResetMQTTContext, Unlinked
<1>2. CASE connection' = connection /\ tx' \subseteq tx
  BY <1>2 DEF OnlyConnect
<1>3. CASE connection' = "connected"
  BY <1>3 DEF OnlyConnect
<1>4. ASSUME NEW o \in Operations, NEW t \in Timeouts, Connect(o, t) PROVE OnlyConnect'
  BY <1>4 DEF OnlyConnect, Connect, Linked
<1>5. CASE UNCHANGED vars
  BY <1>5 DEF OnlyConnect, vars
<1>6. CASE Next
  <2>1. CASE \/ Tick \/ WaitTimesOut \/ ReceiveOther \/ PublishQoS0 \/ SendFails
             \/ ReceivedNothing \/ ReceivedOther \/ ReceivedPUBLISH \/ ReceivedPINGRESP
    BY <1>2, <2>1
    DEF Tick, WaitTimesOut, ReceiveOther, PublishQoS0, SendFails, ReceivedNothing,
        ReceivedOther, ReceivedPUBLISH, ReceivedPINGRESP, txVars
  <2>2. CASE Disconnect \/ SocketError \/ ReceivedMalformed
    BY <1>1, <2>2 DEF Disconnect, SocketError, ReceivedMalformed, ResetMQTTContext
  <2>3. CASE ReceivedCONNACK \/ \E o \in Operations, t \in Timeouts : Request(o, t)
    BY <1>3, <2>3 DEF ReceivedCONNACK, Request
  <2>4. CASE \E o \in Operations : ReceivedAck(o)
    BY <1>2, <2>4 DEF ReceivedAck, Unlinked
  <2>5. CASE MQTT_Periodic
    <3>1. CASE ConnectTimesOut
      BY <1>1, <3>1 DEF ConnectTimesOut, ResetMQTTContext
    <3>2. CASE OperationsTimeOut
      BY <1>2, <3>2 DEF OperationsTimeOut
    <3> QED BY <2>5, <3>1, <3>2 DEF MQTT_Periodic
  <2> QED BY <1>4, <1>6, <2>1, <2>2, <2>3, <2>4, <2>5 DEF Next
<1> QED BY <1>5, <1>6

LEMMA Invariance == Spec => []IInv
<1>1. IInv /\ [Next]_vars => IInv'
  BY TypeInvariance, ClocksInvariance, OnlyConnectInvariance DEF IInv
<1> QED BY <1>1, InitHolds, PTL DEF Spec

-----------------------------------------------------------------------------
(* The theorems.                                                            *)

\* The clocks of the library have their types; none runs below zero.
THEOREM KeepAliveTypeCorrect == Spec => []TypeOK
BY Invariance, PTL DEF IInv

\* Every operation ends at most the lag of the task after its time-out.
THEOREM OperationsTimeOutInTime == Spec => []OperationsEndInTime
<1>1. IInv => OperationsEndInTime
  BY ClockAssumption
  DEF IInv, TypeOK, Clocks, WakesForOperations, CountsWhatPassed, OperationsEndInTime
<1> QED BY <1>1, Invariance, PTL

\* No operation is ended by MQTT_Periodic before its time-out.
THEOREM OperationsTimeOutInFull == Spec => OperationsHaveTheirTime
<1>1. IInv /\ IInv' /\ [Next]_vars =>
        [MQTT_Periodic => \A o \in tx \ tx' : waited[o] >= timeout[o]]_vars
  <2> SUFFICES ASSUME IInv, MQTT_Periodic, NEW o \in tx \ tx'
               PROVE  waited[o] >= timeout[o]
    OBVIOUS
  <2>1. o \in TimedOut
    <3>1. CASE OperationsTimeOut
      BY <3>1 DEF OperationsTimeOut
    <3>2. CASE ConnectTimesOut
      BY <3>2 DEF ConnectTimesOut, TimedOut, IInv, OnlyConnect
    <3> QED BY <3>1, <3>2 DEF MQTT_Periodic
  <2> QED BY <2>1
    DEF TimedOut, IsTimeElapsed, IInv, TypeOK, Clocks, CountsWhatPassed
<1> QED BY <1>1, Invariance, PTL DEF Spec, OperationsHaveTheirTime

\* A ping is reported as unanswered only after PING_TIMEOUT.
THEOREM PingsTimeOutInFull == Spec => PingsHaveTheirTime
<1>1. IInv /\ [Next]_vars =>
        [KeepAliveIsDue /\ waitingPing /\ ~waitingPing' /\ MQTT_Periodic
            => pinged >= PING_TIMEOUT]_vars
  BY ClockAssumption
  DEF IInv, TypeOK, Clocks, PingIsTimed, KeepAliveIsDue, IsTimeElapsed, LatePing
<1> QED BY <1>1, Invariance, PTL DEF Spec, PingsHaveTheirTime

\* MQTT_Periodic ends neither an operation nor the wait for a PINGRESP too early.
THEOREM TimersRunInFull == Spec => NothingEndsEarly
BY OperationsTimeOutInFull, PingsTimeOutInFull DEF NothingEndsEarly

\* Whatever is sent and received, the library is never silent for longer than twice
\* the actual interval and the delays.  With PING_TIMEOUT \leq ACTUAL_INTERVAL this
\* holds for all settings; what is promised to the server is not assumed to cover it.
THEOREM SilenceStaysBounded == Spec => []SilenceIsBounded
<1>1. IInv => SilenceIsBounded
  BY ClockAssumption
  DEF IInv, TypeOK, Clocks, WakesForKeepAlive, QuietIsShort, SilenceIsBounded
<1> QED BY <1>1, Invariance, PTL

\* The promise is therefore kept by every configuration that leaves room for this.
COROLLARY ServerIsKeptHearing ==
    ASSUME KEEP_ALIVE_INTERVAL >= 2 * ACTUAL_INTERVAL + 2 * MAX_LAG
    PROVE  Spec => []ServerHearsInTime
<1>1. TypeOK /\ SilenceIsBounded => ServerHearsInTime
  BY ClockAssumption DEF TypeOK, SilenceIsBounded, ServerHearsInTime
<1> QED BY <1>1, SilenceStaysBounded, KeepAliveTypeCorrect, PTL

=============================================================================
