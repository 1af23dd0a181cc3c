-------------------------- MODULE WiFiSocketsProofs --------------------------
(***************************************************************************)
(* Theorems about WiFiSockets, for any number of tasks and sockets and     *)
(* queues of any size.                                                     *)
(***************************************************************************)
EXTENDS WiFiSockets, SequenceTheorems, TLAPS

\* Where a task is inside of sx_ulpgn_change_socket_index, and where interrupts
\* leave bytes in the UART's queue for it.
Counting  == {"count", "drain", "select", "selected", "busy", "recount", "split", "copy", "switched", "fail"}
Switching == Counting \cup {"firstCount"}

\* Where it does what it was called for.
Working == {"create", "createStatus", "connect", "send", "recv", "recvStatus", "disconnect"}

WithTx == Switching \cup (Working \ {"recv", "recvStatus"}) \cup {"rx", "recvBoth"}
WithRx == Switching \cup (Working \ {"send"})

\* A mutex is held exactly where the code is between its take and its give.
MutexOf(t) ==
    /\ tx = t <=> pc[t] \in WithTx
    /\ rx = t <=> pc[t] \in WithRx
    /\ uc = t => op[t] = "Socket" /\ pc[t] # "uc"

MutexInv == \A t \in Tasks : MutexOf(t)

\* What a task is called for where it is, and that it has a socket then.
CallOf(t) ==
    /\ pc[t] = "idle" <=> op[t] = "none"
    /\ pc[t] \in {"uc", "create", "createStatus"} => op[t] = "Socket"
    /\ pc[t] = "connect" => op[t] = "Connect"
    /\ pc[t] = "send" => op[t] = "Send"
    /\ pc[t] \in {"recvRx", "recvTx", "recvBoth", "recv", "recvStatus"} => op[t] = "Recv"
    /\ pc[t] \in {"tx", "rx"} => op[t] # "Recv"
    /\ pc[t] = "disconnect" => op[t] \in Closing
    /\ stage[t] # "none" \/ pc[t] \notin {"idle", "uc"} => sock[t] \in Sockets

CallInv == \A t \in Tasks : CallOf(t)

\* The driver and the module have the same socket selected, unless an answer was lost.  Who changes it is about to
\* come from another one, and it is the task's own from then on.
TurnOf(t) ==
    /\ pc[t] \in {"firstCount", "count", "drain", "select", "selected", "busy"} => sock[t] # current
    /\ pc[t] = "rx" /\ op[t] = "Send" => sock[t] # current
    /\ pc[t] \in {"recount", "split", "copy", "switched"} \cup Working => sock[t] = current
    /\ pc[t] \in {"recount", "split"} => loc[t].before # current

TurnInv == (selected = current \/ unsure) /\ \A t \in Tasks : TurnOf(t)

\* Where the module may be stopped.
Stopping == {"count", "drain", "select", "selected", "recount", "fail"}

\* Only a task that changes the socket stops the interrupts' sorting, and the module too unless
\* the flag has been left.
LineInv ==
    /\ tmp <=> \E t \in Tasks : pc[t] \in Counting
    /\ rts => flag \/ \E t \in Tasks : pc[t] \in Stopping
    /\ \A t \in Tasks : pc[t] \in {"selected", "recount"} => rts

\* A connection is one of a socket that exists, and no byte came on one that does not.
LinkOf(t) ==
    /\ op[t] = "Connect" /\ pc[t] \in Switching \cup {"connect"} => created[sock[t]]
    /\ op[t] = "Socket" /\ pc[t] \in Switching \cup {"create"} => ~created[sock[t]]

LinkInv ==
    /\ \A t \in Tasks : LinkOf(t)
    /\ ~mishap => /\ \A s \in linked : created[s]
                  /\ \A s \in Sockets : ~created[s] => emitted[s] = 0

\* From its last silent turn on, the module's count is that of the bytes in the UART's
\* queue, all of them the old socket's until the module may send again.
CountOf(t) ==
    /\ pc[t] = "drain" => uncounted <= Len(sciq)
    /\ pc[t] \in {"select", "selected", "recount"} => uncounted = Len(sciq)
    /\ pc[t] \in {"selected", "recount"} => loc[t].stored = (sciq # << >>)
    /\ ~mishap /\ pc[t] \in {"select", "selected"} => \A i \in DOMAIN sciq : sciq[i][1] = current
    /\ ~mishap /\ pc[t] = "recount" => \A i \in DOMAIN sciq : sciq[i][1] = loc[t].before

CountInv == \A t \in Tasks : CountOf(t)

\* How many bytes of a socket have been returned, and how many have left the UART's queue.
Read(s) == Len(taken[s])
Queued(s) == Len(byteq[s])
Arrived(s) == Read(s) + Queued(s)

\* The bytes in the UART's queue are the last of s, in order.
AllOf(s) ==
    /\ \A r \in Sockets : emitted[r] = Arrived(r) + (IF r = s THEN Len(sciq) ELSE 0)
    /\ \A i \in DOMAIN sciq : sciq[i] = Byte(s, Arrived(s) + i)

\* They are the last of the old socket, and then of the new one.
BothSidesOf(t) ==
    LET old == loc[t].before
        n   == loc[t].left
    IN  /\ n <= Len(sciq)
        /\ \A r \in Sockets :
               emitted[r] = Arrived(r) + (IF r = old THEN n ELSE IF r = current THEN Len(sciq) - n ELSE 0)
        /\ \A i \in DOMAIN sciq :
               sciq[i] = IF i <= n THEN Byte(old, Arrived(old) + i) ELSE Byte(current, Arrived(current) + i - n)

\* What has been returned, and then what is in the socket's queue, is what was sent, from the first byte.
InOrder ==
    \A s \in Sockets :
        /\ \A n \in 1 .. Read(s) : taken[s][n] = Byte(s, n)
        /\ \A n \in 1 .. Queued(s) : byteq[s][n] = Byte(s, Read(s) + n)

StreamInv ==
    ~mishap =>
        /\ InOrder
        /\ ~tmp => sciq = << >>
        /\ \A t \in Tasks :
               /\ pc[t] = "switched" => sciq = << >>
               /\ pc[t] = "split" => BothSidesOf(t)
               /\ pc[t] = "recount" => AllOf(loc[t].before)
        /\ (\A t \in Tasks : pc[t] \notin {"recount", "split"}) => AllOf(current)

IInv == TypeOK /\ MutexInv /\ CallInv /\ TurnInv /\ LineInv /\ LinkInv /\ CountInv /\ BorderIsCounted /\ StreamInv

-----------------------------------------------------------------------------
(* Types.                                                                   *)

LEMMA SocketsAreNumbers == Sockets \subseteq Nat /\ 0 \in Sockets /\ NoSocket \notin Sockets
  BY SizesAssumption, TasksAssumption DEF Sockets

LEMMA TypeInit == Init => TypeOK
  <1> SUFFICES ASSUME Init PROVE TypeOK
    OBVIOUS
  <1>1. << >> \in Seq(Bytes) /\ Len(<< >>) = 0 /\ BYTEQ_SIZE \in Nat
    BY SizesAssumption
  <1>2. DataTypes
    <2>1. byteq = [s \in Sockets |-> << >>] /\ taken = [s \in Sockets |-> << >>]
      BY DEF Init
    <2>2. {byteq, taken} \subseteq [Sockets -> Seq(Bytes)] /\ \A s \in Sockets : Len(byteq[s]) <= BYTEQ_SIZE
      BY <1>1, <2>1
    <2>3. sciq \in Seq(Bytes) /\ uncounted \in Nat /\ emitted \in [Sockets -> Nat] /\ mishap \in BOOLEAN
      BY <1>1 DEF Init
    <2> QED
      BY <2>2, <2>3 DEF DataTypes
  <1>3. Fresh \in Locals
    BY SocketsAreNumbers DEF Fresh, Locals
  <1>4. CallTypes
    BY <1>3 DEF Init, CallTypes, Places
  <1>5. DriverTypes
    BY SocketsAreNumbers DEF Init, DriverTypes
  <1> QED
    BY <1>2, <1>4, <1>5 DEF TypeOK

LEMMA FreshTypes == Fresh \in Locals
  BY SocketsAreNumbers DEF Fresh, Locals

\* What a return changes.
Returned(t) ==
    /\ pc' = [pc EXCEPT ![t] = "idle"] /\ op' = [op EXCEPT ![t] = "none"]
    /\ loc' = [loc EXCEPT ![t] = Fresh] /\ loc' \in [Tasks -> Locals]
    /\ stage' \in [Tasks -> {"none", "made", "connected", "shut"}]
    /\ sock' \in [Tasks -> Sockets \cup {NoSocket}]
    /\ uc' = IF op[t] = "Socket" THEN NoTask ELSE uc
    /\ \A u \in Tasks \ {t} : sock'[u] = sock[u] /\ stage'[u] = stage[u]
    /\ stage'[t] # "none" => sock'[t] = sock[t]

LEMMA ReturnEffect ==
    ASSUME CallTypes, NEW t \in Tasks
    PROVE  /\ Return(t, TRUE) => Returned(t)
           /\ Return(t, FALSE) => Returned(t)
           /\ (\E any \in BOOLEAN : Return(t, any)) => Returned(t)
  <1>1. ASSUME NEW b \in BOOLEAN, Return(t, b) PROVE Returned(t)
    BY <1>1, FreshTypes DEF Return, Returned, Goto, CallTypes
  <1> QED
    BY <1>1

LEMMA ReturnTypes ==
    ASSUME CallTypes, NEW t \in Tasks, Returned(t), {tx', rx'} \subseteq {tx, rx, NoTask}
    PROVE  CallTypes'
  BY DEF Returned, CallTypes, Places

LEMMA FailedReturnEffect ==
    ASSUME CallTypes, NEW t \in Tasks, Return(t, FALSE), op[t] = "Socket"
    PROVE  stage'[t] = "none"
  BY DEF Return, CallTypes

LEMMA PutTypes ==
    ASSUME DataTypes, NEW s \in Sockets, NEW bytes \in Seq(Bytes)
    PROVE  /\ Put(s, bytes) \in [Sockets -> Seq(Bytes)]
           /\ \A r \in Sockets : Len(Put(s, bytes)[r]) <= BYTEQ_SIZE
           /\ Overflows(s, bytes) \in BOOLEAN
           /\ ~Overflows(s, bytes) => Put(s, bytes) = [byteq EXCEPT ![s] = byteq[s] \o bytes]
  <1> DEFINE q == byteq[s] \o bytes
  <1>1. byteq \in [Sockets -> Seq(Bytes)] /\ \A r \in Sockets : Len(byteq[r]) <= BYTEQ_SIZE
    BY DEF DataTypes
  <1>2. q \in Seq(Bytes) /\ Len(q) \in Nat /\ BYTEQ_SIZE \in Nat
    BY <1>1, SizesAssumption
  <1>3. Len(q) > BYTEQ_SIZE =>
            SubSeq(q, 1, BYTEQ_SIZE) \in Seq(Bytes) /\ Len(SubSeq(q, 1, BYTEQ_SIZE)) = BYTEQ_SIZE
    <2> HIDE DEF q
    <2> SUFFICES ASSUME Len(q) > BYTEQ_SIZE
                 PROVE  SubSeq(q, 1, BYTEQ_SIZE) \in Seq(Bytes) /\ Len(SubSeq(q, 1, BYTEQ_SIZE)) = BYTEQ_SIZE
      OBVIOUS
    <2>1. \A n \in 1 .. BYTEQ_SIZE : q[n] \in Bytes
      BY <1>2, ElementOfSeq
    <2> QED
      BY <1>2, <2>1, SubSeqProperties
  <1>4. Put(s, bytes) = [byteq EXCEPT ![s] = IF Len(q) <= BYTEQ_SIZE THEN q ELSE SubSeq(q, 1, BYTEQ_SIZE)]
    BY <1>1 DEF Put
  <1>5. Overflows(s, bytes) = (Len(q) > BYTEQ_SIZE)
    BY DEF Overflows
  <1>6. Put(s, bytes) \in [Sockets -> Seq(Bytes)] /\ \A r \in Sockets : Len(Put(s, bytes)[r]) <= BYTEQ_SIZE
    <2> HIDE DEF q
    <2> QED
      BY <1>1, <1>2, <1>3, <1>4
  <1>7. Overflows(s, bytes) \in BOOLEAN
    BY DEF Overflows
  <1>8. ASSUME ~Overflows(s, bytes) PROVE Put(s, bytes) = [byteq EXCEPT ![s] = q]
    <2>1. ~(Len(q) > BYTEQ_SIZE)
      BY <1>5, <1>8
    <2>2. Len(q) <= BYTEQ_SIZE
      BY <1>2, <2>1
    <2> QED
      BY <1>4, <2>2
  <1> QED
    BY <1>6, <1>7, <1>8

\* The steps that only concern the callers and the mutexes.
CallSteps(t) ==
    \/ Calls(t) \/ ChooseSocket(t) \/ TakeTx(t) \/ TakeRx(t) \/ RecvTakeRx(t) \/ RecvTakeTx(t) \/ RecvTakeBoth(t)
    \/ TimesOut(t) \/ CreateStatus(t) \/ Send(t) \/ RecvEnds(t) \/ RecvStatus(t)

LEMMA CallStepsFrame ==
    ASSUME NEW t \in Tasks, CallSteps(t)
    PROVE  UNCHANGED <<current, tmp, flag, sockVars, dataVars, modVars>> /\ CommandFails
  BY DEF CommandFails, lineVars, CallSteps, Calls, CallSocket, CallConnect, CallSend, CallRecv, CallShutdown, CallClose, Call, ChooseSocket,
         TakeTx, TakeRx, RecvTakeRx, RecvTakeTx, RecvTakeBoth, TimesOut, UcTimesOut, TxTimesOut, RxTimesOut,
         RecvTimesOut, CreateStatus, Send, RecvEnds, RecvStatus

LEMMA CallTypesStep ==
    ASSUME TypeOK, CallInv, NEW t \in Tasks, Calls(t) \/ TaskSteps(t)
    PROVE  CallTypes'
  <1> USE DEF At, Goto, callVars
  <1>a. CallTypes
    BY DEF TypeOK
  <1>1. CASE Calls(t)
    BY <1>a, <1>1 DEF Calls, CallSocket, CallConnect, CallSend, CallRecv, CallShutdown, CallClose, Call,
       CallTypes, Places, Closing
  <1>2. CASE Takes(t)
    <2>1. CASE ChooseSocket(t)
      BY <1>a, <2>1, ReturnEffect DEF Returned, ChooseSocket, Available, CallTypes, Places
    <2>2. CASE TakeTx(t)
      <3>1. CASE op[t] = "Send" /\ ~Admitted(t)
        <4>1. Returned(t) /\ UNCHANGED <<tx, rx>>
          BY <1>a, <2>2, <3>1, ReturnEffect DEF TakeTx
        <4> QED
          BY <1>a, <4>1, ReturnTypes
      <3>2. CASE ~(op[t] = "Send" /\ ~Admitted(t))
        BY <1>a, <2>2, <3>2 DEF TakeTx, CallTypes, Places
      <3> QED
        BY <3>1, <3>2
    <2>3. CASE TakeRx(t)
      <3>1. CASE ~(op[t] = "Send" \/ Admitted(t))
        <4>1. Returned(t) /\ tx' = NoTask /\ rx' = rx
          BY <1>a, <2>3, <3>1, ReturnEffect DEF TakeRx
        <4> QED
          BY <1>a, <4>1, ReturnTypes
      <3>2. CASE op[t] = "Send" \/ Admitted(t)
        BY <1>a, <2>3, <3>2 DEF TakeRx, Switch, Work, CallInv, CallOf, CallTypes, Places
      <3> QED
        BY <3>1, <3>2
    <2>4. CASE RecvTakeRx(t)
      <3>1. CASE ~Admitted(t)
        <4>1. Returned(t) /\ UNCHANGED <<tx, rx>>
          BY <1>a, <2>4, <3>1, ReturnEffect DEF RecvTakeRx
        <4> QED
          BY <1>a, <4>1, ReturnTypes
      <3>2. CASE Admitted(t)
        BY <1>a, <2>4, <3>2 DEF RecvTakeRx, CallTypes, Places
      <3> QED
        BY <3>1, <3>2
    <2>5. CASE RecvTakeTx(t)
      BY <1>a, <2>5 DEF RecvTakeTx, CallTypes, Places
    <2>6. CASE RecvTakeBoth(t)
      BY <1>a, <2>6 DEF RecvTakeBoth, Switch, Work, CallInv, CallOf, CallTypes, Places
    <2> QED
      BY <1>2, <2>1, <2>2, <2>3, <2>4, <2>5, <2>6 DEF Takes
  <1>3. CASE TimesOut(t)
    <2>1. CASE UcTimesOut(t)
      BY <1>a, <2>1 DEF UcTimesOut, CallTypes, Places
    <2>2. CASE TxTimesOut(t)
      <3>1. Returned(t)
        BY <1>a, <2>2, ReturnEffect DEF TxTimesOut
      <3> QED
        BY <1>a, <2>2, <3>1, ReturnTypes DEF TxTimesOut
    <2>3. CASE RxTimesOut(t)
      <3>1. Returned(t)
        BY <1>a, <2>3, ReturnEffect DEF RxTimesOut
      <3> QED
        BY <1>a, <2>3, <3>1, ReturnTypes DEF RxTimesOut
    <2>4. CASE RecvTimesOut(t)
      <3>1. Returned(t)
        BY <1>a, <2>4, ReturnEffect DEF RecvTimesOut
      <3> QED
        BY <1>a, <2>4, <3>1, ReturnTypes DEF RecvTimesOut
    <2> QED
      BY <1>3, <2>1, <2>2, <2>3, <2>4 DEF TimesOut
  <1>4. CASE Switches(t)
    <2>1. CASE FirstCount(t)
      <3>1. CASE Goto(t, "count")
        BY <1>a, <2>1, <3>1 DEF FirstCount, SwitchFails, Return, CallTypes, Places
      <3>2. CASE SwitchFails(t)
        <4>1. Returned(t)
          BY <1>a, <3>2, ReturnEffect DEF SwitchFails
        <4> QED
          BY <1>a, <3>2, <4>1, ReturnTypes DEF SwitchFails
      <3> QED
        BY <2>1, <3>1, <3>2 DEF FirstCount
    <2>2. CASE Count(t)
      <3>1. PICK m \in BOOLEAN : loc' = [loc EXCEPT ![t].same = m] \/ loc' = loc
        <4>1. (uncounted = 0) \in BOOLEAN
          OBVIOUS
        <4> QED
          BY <2>2, <4>1, Zenon DEF Count
      <3>2. loc' \in [Tasks -> Locals]
        BY <1>a, <3>1 DEF CallTypes, Locals
      <3> QED
        BY <1>a, <2>2, <3>2 DEF Count, CallTypes, Places
    <2>3. CASE DrainBefore(t)
      <3>1. PICK z \in 0 .. 1 : loc' = [loc EXCEPT ![t].zero = z, ![t].same = FALSE]
        <4> DEFINE zero == IF ~loc[t].same THEN 0 ELSE IF sciq = << >> THEN loc[t].zero + 1 ELSE 1
        <4>1. loc' = [loc EXCEPT ![t].zero = IF zero < 2 THEN zero ELSE 0, ![t].same = FALSE]
          BY <2>3 DEF DrainBefore
        <4>2. loc[t].zero \in 0 .. 1
          BY <1>a DEF CallTypes, Locals
        <4>3. (IF zero < 2 THEN zero ELSE 0) \in 0 .. 1
          BY <4>2
        <4> HIDE DEF zero
        <4> QED
          BY <4>1, <4>3
      <3>2. loc' \in [Tasks -> Locals]
        BY <1>a, <3>1 DEF CallTypes, Locals
      <3> QED
        BY <1>a, <2>3, <3>2 DEF DrainBefore, CallTypes, Places
    <2>4. CASE Select(t)
      <3>1. PICK m \in BOOLEAN : loc' = [loc EXCEPT ![t].stored = m] \/ loc' = loc
        <4>1. (sciq # << >>) \in BOOLEAN
          OBVIOUS
        <4>2. CASE loc' = [loc EXCEPT ![t].stored = (sciq # << >>)]
          BY <4>1, <4>2, Zenon
        <4>3. CASE loc' = loc
          BY <4>3
        <4> QED
          BY <2>4, <4>2, <4>3 DEF Select
      <3>2. loc' \in [Tasks -> Locals]
        BY <1>a, <3>1 DEF CallTypes, Locals
      <3> QED
        BY <1>a, <2>4, <3>2 DEF Select, CallTypes, Places
    <2>5. CASE Selected(t)
      <3>1. loc' = [loc EXCEPT ![t].before = current] \/ loc' = loc
        BY <2>5 DEF Selected
      <3>2. loc' \in [Tasks -> Locals]
        <4>1. current \in Sockets
          BY DEF TypeOK, DriverTypes
        <4> QED
          BY <1>a, <3>1, <4>1 DEF CallTypes, Locals
      <3> QED
        BY <1>a, <2>5, <3>2 DEF Selected, CallTypes, Places
    <2>6. CASE RetryWhenBusy(t)
      BY <1>a, <2>6 DEF RetryWhenBusy, CallTypes, Places, Locals
    <2>7. CASE Recount(t)
      <3>1. PICK n \in Nat : loc' = [loc EXCEPT ![t].left = n] \/ loc' = loc
        BY <2>7 DEF Recount, TypeOK, DataTypes
      <3>2. loc' \in [Tasks -> Locals]
        BY <1>a, <3>1 DEF CallTypes, Locals
      <3> QED
        BY <1>a, <2>7, <3>2 DEF Recount, CallTypes, Places
    <2>8. CASE Split(t)
      <3>1. Len(sciq) \in Nat /\ loc[t].left \in Nat
        BY <1>a DEF TypeOK, DataTypes, CallTypes, Locals
      <3>2. PICK n \in Nat : loc' = [loc EXCEPT ![t].left = n]
        <4> DEFINE k == IF loc[t].left < Len(sciq) THEN loc[t].left ELSE Len(sciq)
        <4>1. loc' = [loc EXCEPT ![t].left = loc[t].left - k]
          BY <2>8 DEF Split
        <4>2. loc[t].left - k \in Nat
          BY <3>1
        <4> HIDE DEF k
        <4> QED
          BY <4>1, <4>2
      <3>3. loc' \in [Tasks -> Locals]
        BY <1>a, <3>2 DEF CallTypes, Locals
      <3>4. pc' \in [Tasks -> Places] /\ UNCHANGED <<op, sock, stage, uc, tx, rx>>
        BY <1>a, <2>8 DEF Split, CallTypes, Places
      <3> QED
        BY <1>a, <3>3, <3>4 DEF CallTypes
    <2>9. CASE CopyAfter(t)
      BY <1>a, <2>9 DEF CopyAfter, CallTypes, Places
    <2>10. CASE Switched(t)
      BY <1>a, <2>10, FreshTypes DEF Switched, SwitchSucceeds, Work, CallInv, CallOf, CallTypes, Places
    <2>11. CASE Fail(t)
      <3>1. Returned(t)
        BY <1>a, <2>11, ReturnEffect DEF Fail, SwitchFails
      <3> QED
        BY <1>a, <2>11, <3>1, ReturnTypes DEF Fail, SwitchFails
    <2> QED
      BY <1>4, <2>1, <2>2, <2>3, <2>4, <2>5, <2>6, <2>7, <2>8, <2>9, <2>10, <2>11 DEF Switches
  <1>5. CASE Works(t)
    <2>1. CASE Create(t)
      <3>1. CASE Goto(t, "createStatus") /\ UNCHANGED <<callVars, loc, uc, tx, rx>>
        BY <1>a, <3>1 DEF CallTypes, Places
      <3>2. CASE Return(t, FALSE) /\ tx' = NoTask /\ rx' = NoTask
        <4>1. Returned(t)
          BY <1>a, <3>2, ReturnEffect
        <4> QED
          BY <1>a, <3>2, <4>1, ReturnTypes
      <3> QED
        BY <2>1, <3>1, <3>2 DEF Create
    <2>2. CASE RecvByte(t)
      <3>1. CASE loc[t].got + 1 < RECV_LENGTH
        <4>1. PICK n \in Nat : loc' = [loc EXCEPT ![t].got = n]
          <5>1. loc[t].got + 1 \in Nat
            BY <1>a DEF CallTypes, Locals
          <5>2. loc' = [loc EXCEPT ![t].got = loc[t].got + 1]
            BY <2>2, <3>1 DEF RecvByte
          <5> QED
            BY <5>1, <5>2
        <4>2. loc' \in [Tasks -> Locals]
          BY <1>a, <4>1 DEF CallTypes, Locals
        <4> QED
          BY <1>a, <2>2, <3>1, <4>2 DEF RecvByte, CallTypes
      <3>2. CASE ~(loc[t].got + 1 < RECV_LENGTH)
        <4>1. Returned(t) /\ rx' = NoTask /\ tx' = tx
          BY <1>a, <2>2, <3>2, ReturnEffect DEF RecvByte
        <4> QED
          BY <1>a, <4>1, ReturnTypes
      <3> QED
        BY <3>1, <3>2
    <2>3. CASE RecvEnds(t)
      <3>1. CASE loc[t].got = 0
        BY <1>a, <2>3, <3>1 DEF RecvEnds, CallTypes, Places
      <3>2. CASE loc[t].got # 0
        <4>1. Returned(t) /\ rx' = NoTask /\ tx' = tx
          BY <1>a, <2>3, <3>2, ReturnEffect DEF RecvEnds
        <4> QED
          BY <1>a, <4>1, ReturnTypes
      <3> QED
        BY <3>1, <3>2
    <2>4. CASE CreateStatus(t) \/ Connect(t) \/ Send(t) \/ RecvStatus(t) \/ Disconnect(t)
      <3>1. Returned(t) /\ {tx', rx'} \subseteq {tx, rx, NoTask}
        BY <1>a, <2>4, ReturnEffect DEF CreateStatus, Connect, Send, RecvStatus, Disconnect
      <3> QED
        BY <1>a, <3>1, ReturnTypes
    <2> QED
      BY <1>5, <2>1, <2>2, <2>3, <2>4 DEF Works
  <1> QED
    BY <1>1, <1>2, <1>3, <1>4, <1>5 DEF TaskSteps

LEMMA DriverTypesStep ==
    ASSUME TypeOK, CallInv, NEW t \in Tasks, Calls(t) \/ TaskSteps(t)
    PROVE  DriverTypes'
  <1>a. DriverTypes
    BY DEF TypeOK
  <1>s. pc[t] \notin {"idle", "uc"} => sock[t] \in Sockets
    BY DEF CallInv, CallOf
  <1>c. CommandIsSent \/ CommandFails => rts' \in BOOLEAN
    BY <1>a, Zenon DEF CommandIsSent, CommandFails, DriverTypes
  <1>1. CASE CallSteps(t)
    BY <1>a, <1>c, <1>1, CallStepsFrame DEF DriverTypes, sockVars, modVars
  <1>2. CASE FirstCount(t) \/ Count(t) \/ DrainBefore(t) \/ Select(t) \/ RetryWhenBusy(t) \/ Recount(t)
             \/ Split(t) \/ CopyAfter(t) \/ Switched(t) \/ Fail(t) \/ RecvByte(t)
    BY <1>a, <1>c, <1>2 DEF FirstCount, Count, DrainBefore, Select, RetryWhenBusy, Recount, Split, CopyAfter, Switched,
       Fail, RecvByte, DriverTypes, lineVars, sockVars, modVars
  <1>3. CASE Selected(t)
    BY <1>a, <1>s, <1>3 DEF Selected, At, DriverTypes, sockVars
  <1>4. CASE Create(t)
    BY <1>a, <1>c, <1>4 DEF Create, DriverTypes, sockVars, modVars
  <1>5. CASE Connect(t)
    BY <1>a, <1>c, <1>5 DEF Connect, DriverTypes
  <1>6. CASE Disconnect(t)
    BY <1>a, <1>c, <1>6 DEF Disconnect, DriverTypes, sockVars
  <1> QED
    BY <1>1, <1>2, <1>3, <1>4, <1>5, <1>6 DEF CallSteps, TaskSteps, Takes, Switches, Works

\* What is put into a socket's queue when the UART's is emptied.
LEMMA DrainTypes ==
    ASSUME TypeOK, Drain
    PROVE  /\ byteq' \in [Sockets -> Seq(Bytes)] /\ \A s \in Sockets : Len(byteq'[s]) <= BYTEQ_SIZE
           /\ sciq' \in Seq(Bytes) /\ mishap' \in BOOLEAN
  <1>1. DataTypes /\ current \in Sockets /\ sciq \in Seq(Bytes)
    BY DEF TypeOK, DriverTypes, DataTypes
  <1>2. mishap' \in BOOLEAN
    BY Zenon DEF Drain
  <1> QED
    BY <1>1, <1>2, PutTypes DEF Drain

\* The type of the data, part by part.
QueuesOK ==
    byteq \in [Sockets -> Seq(Bytes)] /\ \A s \in Sockets : Len(byteq[s]) <= BYTEQ_SIZE

HistoryOK == taken \in [Sockets -> Seq(Bytes)] /\ emitted \in [Sockets -> Nat]

LEMMA DataParts == /\ DataTypes => QueuesOK /\ HistoryOK /\ sciq \in Seq(Bytes) /\ uncounted \in Nat /\ mishap \in BOOLEAN
                   /\ QueuesOK' /\ HistoryOK' /\ sciq' \in Seq(Bytes) /\ uncounted' \in Nat /\ mishap' \in BOOLEAN => DataTypes'
  BY DEF DataTypes, QueuesOK, HistoryOK

LEMMA EmptyQueueTypes ==
    ASSUME QueuesOK, NEW s
    PROVE  /\ [byteq EXCEPT ![s] = << >>] \in [Sockets -> Seq(Bytes)]
           /\ \A r \in Sockets : Len([byteq EXCEPT ![s] = << >>][r]) <= BYTEQ_SIZE
  <1> DEFINE q == [byteq EXCEPT ![s] = << >>]
  <1>1. << >> \in Seq(Bytes) /\ Len(<< >>) = 0 /\ 0 <= BYTEQ_SIZE
    BY SizesAssumption
  <1>2. byteq \in [Sockets -> Seq(Bytes)] /\ \A r \in Sockets : Len(byteq[r]) <= BYTEQ_SIZE
    BY DEF QueuesOK
  <1>3. q \in [Sockets -> Seq(Bytes)]
    BY <1>1, <1>2
  <1>4. ASSUME NEW r \in Sockets PROVE q[r] = << >> \/ q[r] = byteq[r]
    BY <1>2
  <1>5. ASSUME NEW r \in Sockets PROVE Len(q[r]) <= BYTEQ_SIZE
    BY <1>1, <1>2, <1>4, <1>5
  <1> QED
    BY <1>3, <1>5

LEMMA StraysType == Strays => mishap' \in BOOLEAN
  BY Zenon DEF Strays

LEMMA DataTypesStep ==
    ASSUME TypeOK, CallInv, NEW t \in Tasks, Calls(t) \/ TaskSteps(t)
    PROVE  DataTypes'
  <1>a. /\ DataTypes /\ QueuesOK /\ HistoryOK
        /\ sciq \in Seq(Bytes) /\ uncounted \in Nat /\ mishap \in BOOLEAN
    BY DataParts DEF TypeOK
  <1>b. BYTEQ_SIZE \in Nat /\ << >> \in Seq(Bytes) /\ Len(<< >>) = 0
    BY SizesAssumption
  <1>1. CASE CallSteps(t)
    BY <1>a, <1>1, CallStepsFrame DEF DataTypes, dataVars
  <1>2. CASE FirstCount(t) \/ Count(t) \/ Select(t) \/ Selected(t) \/ Switched(t) \/ Connect(t)
    <2>1. UNCHANGED <<byteq, sciq, emitted, taken>>
      BY <1>2 DEF FirstCount, Count, Select, Selected, Switched, Connect, dataVars
    <2>m. mishap' \in BOOLEAN
      <3>1. mishap' = mishap \/ Strays
        BY <1>2 DEF FirstCount, Count, Select, Selected, Switched, Connect, dataVars
      <3> QED
        BY <1>a, <3>1, StraysType
    <2>2. uncounted' = uncounted \/ uncounted' = 0
      BY <1>2 DEF FirstCount, Count, Select, Selected, Switched, Connect, dataVars
    <2>3. uncounted' \in Nat
      BY <1>a, <2>2
    <2> QED
      BY <1>a, <2>1, <2>m, <2>3 DEF DataTypes
  <1>3. CASE DrainBefore(t) \/ RetryWhenBusy(t) \/ CopyAfter(t)
    <2>1. Drain /\ UNCHANGED <<uncounted, emitted, taken>>
      BY <1>3 DEF DrainBefore, RetryWhenBusy, CopyAfter
    <2> QED
      BY <1>a, <2>1, DrainTypes DEF DataTypes
  <1>4. CASE Fail(t)
    <2>1. Drain /\ uncounted' = 0 /\ UNCHANGED <<emitted, taken>>
      BY <1>4 DEF Fail
    <2> QED
      BY <1>a, <2>1, DrainTypes DEF DataTypes
  <1>5. CASE Recount(t)
    <2>1. mishap' \in BOOLEAN
      BY <1>a, <1>5, Zenon DEF Recount, DataTypes
    <2> QED
      BY <1>a, <1>5, <2>1 DEF Recount, DataTypes
  <1>6. CASE Split(t)
    <2> DEFINE n == IF loc[t].left < Len(sciq) THEN loc[t].left ELSE Len(sciq)
               old == SubSeq(sciq, 1, n)
               rest == SubSeq(sciq, n + 1, Len(sciq))
    <2>1. /\ sciq \in Seq(Bytes) /\ Len(sciq) \in Nat /\ loc[t].left \in Nat /\ loc[t].before \in Sockets
      BY <1>a DEF TypeOK, CallTypes, DataTypes, Locals
    <2>2. n \in 0 .. Len(sciq)
      BY <2>1
    <2>3. byteq' = Put(loc[t].before, old) /\ sciq' = rest /\ UNCHANGED <<uncounted, emitted, taken>>
      BY <1>6 DEF Split
    <2>4. mishap' \in BOOLEAN
      BY <1>6, Zenon DEF Split
    <2> HIDE DEF n
    <2>5. old \in Seq(Bytes) /\ rest \in Seq(Bytes)
      BY <2>1, <2>2, ElementOfSeq, SubSeqProperties
    <2> HIDE DEF old, rest
    <2>6. QueuesOK'
      BY <1>a, <2>1, <2>3, <2>5, PutTypes DEF QueuesOK
    <2>7. HistoryOK' /\ sciq' \in Seq(Bytes) /\ uncounted' \in Nat
      BY <1>a, <2>3, <2>5 DEF HistoryOK
    <2> QED
      BY <2>4, <2>6, <2>7, DataParts
  <1>7. CASE Create(t)
    <2>1. UNCHANGED <<sciq, uncounted, emitted, taken, mishap>>
          /\ (byteq' = byteq \/ byteq' = [byteq EXCEPT ![sock[t]] = << >>])
      BY <1>7 DEF Create
    <2>2. QueuesOK'
      BY <1>a, <2>1, EmptyQueueTypes DEF QueuesOK
    <2> QED
      BY <1>a, <2>1, <2>2, DataParts DEF HistoryOK
  <1>8. CASE RecvByte(t)
    <2>1. current \in Sockets /\ byteq[current] \in Seq(Bytes) /\ byteq[current] # << >> /\ sock[t] \in Sockets
      BY <1>8 DEF RecvByte, At, CallInv, CallOf, TypeOK, DriverTypes, DataTypes
    <2>2. Head(byteq[current]) \in Bytes /\ Tail(byteq[current]) \in Seq(Bytes)
          /\ Len(Tail(byteq[current])) = Len(byteq[current]) - 1
      BY <2>1
    <2>3. taken' = [taken EXCEPT ![sock[t]] = Append(@, Head(byteq[current]))]
          /\ byteq' = [byteq EXCEPT ![current] = Tail(@)] /\ UNCHANGED <<sciq, uncounted, emitted, mishap>>
      BY <1>8 DEF RecvByte
    <2>4. Append(taken[sock[t]], Head(byteq[current])) \in Seq(Bytes)
      BY <1>a, <2>1, <2>2 DEF DataTypes
    <2>5. taken' \in [Sockets -> Seq(Bytes)]
      BY <1>a, <2>3, <2>4 DEF DataTypes
    <2>6. byteq' \in [Sockets -> Seq(Bytes)] /\ \A s \in Sockets : Len(byteq'[s]) <= BYTEQ_SIZE
      BY <1>a, <1>b, <2>1, <2>2, <2>3 DEF DataTypes
    <2> QED
      BY <1>a, <2>3, <2>5, <2>6 DEF DataTypes
  <1>9. CASE Disconnect(t)
    <2>1. UNCHANGED <<sciq, uncounted>> /\ (mishap' = mishap \/ Strays)
          /\ (byteq' = byteq \/ byteq' = [byteq EXCEPT ![sock[t]] = << >>])
          /\ (taken' = taken \/ taken' = [taken EXCEPT ![selected] = << >>])
          /\ (emitted' = emitted \/ emitted' = [emitted EXCEPT ![selected] = 0])
      BY <1>9 DEF Disconnect, Forget
    <2>2. QueuesOK'
      <3>1. CASE byteq' = byteq
        BY <1>a, <3>1 DEF QueuesOK
      <3>2. CASE byteq' = [byteq EXCEPT ![sock[t]] = << >>]
        BY <1>a, <3>2, EmptyQueueTypes DEF QueuesOK
      <3> QED
        BY <2>1, <3>1, <3>2
    <2>3. HistoryOK'
      <3>1. taken \in [Sockets -> Seq(Bytes)] /\ emitted \in [Sockets -> Nat] /\ 0 \in Nat
        BY <1>a DEF HistoryOK
      <3>2. [taken EXCEPT ![selected] = << >>] \in [Sockets -> Seq(Bytes)]
        BY <1>b, <3>1
      <3>3. [emitted EXCEPT ![selected] = 0] \in [Sockets -> Nat]
        BY <3>1
      <3>4. taken' \in [Sockets -> Seq(Bytes)] /\ emitted' \in [Sockets -> Nat]
        BY <2>1, <3>1, <3>2, <3>3
      <3> QED
        BY <3>4 DEF HistoryOK
    <2> QED
      BY <1>a, <2>1, <2>2, <2>3, StraysType, DataParts
  <1> QED
    BY <1>1, <1>2, <1>3, <1>4, <1>5, <1>6, <1>7, <1>8, <1>9 DEF CallSteps, TaskSteps, Takes, Switches, Works

\* What arrives is the next byte of the socket that is selected.
NextByte == Byte(selected, emitted[selected] + 1)

LEMMA SendEffect ==
    ASSUME TypeOK, ModuleSends
    PROVE  /\ Receive(NextByte) /\ emitted' = [emitted EXCEPT ![selected] = emitted[selected] + 1]
           /\ uncounted' = (IF tmp THEN uncounted + 1 ELSE 0) /\ NextByte \in Bytes
  <1>1. selected \in Sockets /\ emitted \in [Sockets -> Nat]
    BY DEF TypeOK, DriverTypes, DataTypes
  <1>2. emitted' = [emitted EXCEPT ![selected] = emitted[selected] + 1] /\ emitted'[selected] = emitted[selected] + 1
    BY <1>1 DEF ModuleSends
  <1>3. Receive(NextByte)
    BY <1>2 DEF ModuleSends, NextByte
  <1>4. NextByte \in Bytes
    BY <1>1 DEF NextByte, Byte, Bytes
  <1>5. uncounted' = IF tmp THEN uncounted + 1 ELSE 0
    BY DEF ModuleSends
  <1> QED
    BY <1>2, <1>3, <1>4, <1>5

LEMMA ModuleSendsTypes ==
    ASSUME TypeOK, ModuleSends
    PROVE  TypeOK'
  <1>1. /\ selected \in Sockets /\ current \in Sockets /\ QueuesOK /\ HistoryOK /\ sciq \in Seq(Bytes)
        /\ uncounted \in Nat /\ DataTypes
    BY DataParts DEF TypeOK, DriverTypes
  <1>2. <<NextByte>> \in Seq(Bytes) /\ Append(sciq, NextByte) \in Seq(Bytes) /\ << >> \in Seq(Bytes)
    BY <1>1, SendEffect
  <1>3. HistoryOK' /\ uncounted' \in Nat
    <2>1. taken' = taken
      BY DEF ModuleSends
    <2>2. emitted \in [Sockets -> Nat] /\ emitted[selected] + 1 \in Nat /\ uncounted + 1 \in Nat /\ 0 \in Nat
      BY <1>1 DEF HistoryOK
    <2>3. emitted' \in [Sockets -> Nat] /\ uncounted' \in Nat
      BY <2>2, SendEffect
    <2> QED
      BY <1>1, <2>1, <2>3 DEF HistoryOK
  <1>4. mishap' \in BOOLEAN
    BY SendEffect, Zenon DEF Receive
  <1>5. QueuesOK' /\ sciq' \in Seq(Bytes)
    <2>1. CASE ~tmp /\ created[current]
      <3>1. byteq' = Put(current, <<NextByte>>) /\ sciq' = << >>
        BY <2>1, SendEffect DEF Receive
      <3> QED
        BY <1>1, <1>2, <3>1, PutTypes DEF QueuesOK
    <2>2. CASE ~(~tmp /\ created[current])
      <3>1. byteq' = byteq /\ sciq' = Append(sciq, NextByte)
        BY <2>2, SendEffect DEF Receive
      <3> QED
        BY <1>1, <1>2, <3>1 DEF QueuesOK
    <2> QED
      BY <2>1, <2>2
  <1>6. DataTypes'
    BY <1>3, <1>4, <1>5, DataParts
  <1>7. CallTypes' /\ DriverTypes'
    BY DEF ModuleSends, TypeOK, CallTypes, DriverTypes, callVars, lineVars, sockVars, modVars
  <1> QED
    BY <1>6, <1>7 DEF TypeOK

LEMMA TypeStep ==
    ASSUME TypeOK, CallInv, [Next]_vars
    PROVE  TypeOK'
  <1>1. CASE ModuleSends
    BY <1>1, ModuleSendsTypes
  <1>2. ASSUME NEW t \in Tasks, Calls(t) \/ TaskSteps(t) PROVE TypeOK'
    BY <1>2, CallTypesStep, DriverTypesStep, DataTypesStep DEF TypeOK
  <1>3. CASE UNCHANGED vars
    BY <1>3 DEF vars, callVars, lineVars, sockVars, dataVars, modVars, TypeOK, CallTypes, DriverTypes, DataTypes
  <1> QED
    BY <1>1, <1>2, <1>3 DEF Next

-----------------------------------------------------------------------------
(* Mutexes, calls and turns.                                                *)

\* A step of a task leaves the others where they are and takes nothing from them.
Apart(t) ==
    /\ \A u \in Tasks \ {t} :
           /\ pc'[u] = pc[u] /\ op'[u] = op[u] /\ loc'[u] = loc[u]
           /\ sock'[u] = sock[u] /\ stage'[u] = stage[u]
    /\ tx' = tx \/ (tx = NoTask /\ tx' = t) \/ (tx = t /\ tx' = NoTask)
    /\ rx' = rx \/ (rx = NoTask /\ rx' = t) \/ (rx = t /\ rx' = NoTask)
    /\ uc' = uc \/ uc' = t \/ uc' = NoTask

Own(t) == MutexOf(t)' /\ CallOf(t)' /\ TurnOf(t)'

\* A function that returns gives back what it holds.
Released(t) ==
    /\ (tx' = tx /\ tx # t) \/ (tx' = NoTask /\ tx = t)
    /\ (rx' = rx /\ rx # t) \/ (rx' = NoTask /\ rx = t)

LEMMA ReturnOwn ==
    ASSUME TypeOK, MutexInv, CallInv, NEW t \in Tasks, Returned(t), Released(t), pc[t] # "idle",
           pc[t] = "uc" => stage'[t] = "none"
    PROVE  Apart(t) /\ Own(t)
  <1>1. CallTypes /\ NoTask \notin Tasks /\ NoSocket \notin Sockets /\ MutexOf(t) /\ CallOf(t)
    BY TasksAssumption DEF TypeOK, MutexInv, CallInv
  <1>2. pc'[t] = "idle" /\ op'[t] = "none" /\ tx' # t /\ rx' # t /\ uc' # t
    BY <1>1 DEF Returned, Released, CallTypes, MutexOf
  <1>3. Apart(t)
    BY <1>1 DEF Returned, Released, CallTypes, Apart
  <1>4. MutexOf(t)'
    BY <1>2 DEF MutexOf, WithTx, WithRx, Switching, Counting, Working
  <1>5. CallOf(t)'
    <2>1. stage'[t] # "none" => sock'[t] \in Sockets
      BY <1>1 DEF Returned, CallOf
    <2> QED
      BY <1>2, <2>1 DEF CallOf
  <1>6. TurnOf(t)'
    BY <1>2 DEF TurnOf, Working
  <1> QED
    BY <1>3, <1>4, <1>5, <1>6 DEF Own

LEMMA ControlStep ==
    ASSUME TypeOK, MutexInv, CallInv, TurnInv, NEW t \in Tasks, Calls(t) \/ TaskSteps(t)
    PROVE  Apart(t) /\ Own(t)
  <1> USE DEF At, Goto, callVars, lineVars, modVars
  <1>a. CallTypes /\ NoTask \notin Tasks /\ NoSocket \notin Sockets /\ current \in Sockets /\ MutexOf(t) /\ CallOf(t) /\ TurnOf(t)
    BY TasksAssumption DEF TypeOK, DriverTypes, MutexInv, CallInv, TurnInv
  <1>1. CASE Calls(t)
    BY <1>a, <1>1 DEF Calls, CallSocket, CallConnect, CallSend, CallRecv, CallShutdown, CallClose, Call, Apart, Own,
       MutexOf, CallOf, TurnOf, WithTx, WithRx, Switching, Counting, Working, Closing, CallTypes
  <1>2. CASE ChooseSocket(t)
    <2>1. CASE Return(t, FALSE)
      <3>1. Returned(t) /\ UNCHANGED <<tx, rx>> /\ pc[t] = "uc" /\ stage'[t] = "none"
        BY <1>a, <1>2, <2>1, ReturnEffect, FailedReturnEffect DEF ChooseSocket, Available, CallOf
      <3>2. Released(t) /\ pc[t] # "idle" /\ (pc[t] = "uc" => stage'[t] = "none")
        BY <1>a, <3>1 DEF Released, MutexOf, WithTx, WithRx, Switching, Counting, Working
      <3> QED
        BY <3>1, <3>2, ReturnOwn
    <2>2. CASE ~(Return(t, FALSE))
      BY <1>a, <1>2, <2>2 DEF ChooseSocket, Available, Apart, Own, MutexOf, CallOf, TurnOf, WithTx, WithRx,
         Switching, Counting, Working, Closing, CallTypes
    <2> QED
      BY <2>1, <2>2
  <1>3. CASE TakeTx(t)
    <2>1. CASE op[t] = "Send" /\ ~Admitted(t)
      <3>1. Returned(t) /\ UNCHANGED <<tx, rx>> /\ pc[t] = "tx"
        BY <1>a, <1>3, <2>1, ReturnEffect DEF TakeTx
      <3>2. Released(t) /\ pc[t] # "idle" /\ (pc[t] = "uc" => stage'[t] = "none")
        BY <1>a, <3>1 DEF Released, MutexOf, WithTx, WithRx, Switching, Counting, Working
      <3> QED
        BY <3>1, <3>2, ReturnOwn
    <2>2. CASE ~(op[t] = "Send" /\ ~Admitted(t))
      BY <1>a, <1>3, <2>2 DEF TakeTx, Apart, Own, MutexOf, CallOf, TurnOf, WithTx, WithRx, Switching, Counting,
         Working, Closing, CallTypes
    <2> QED
      BY <2>1, <2>2
  <1>4. CASE TakeRx(t)
    <2>1. CASE ~(op[t] = "Send" \/ Admitted(t))
      <3>1. Returned(t) /\ tx' = NoTask /\ rx' = rx /\ pc[t] = "rx"
        BY <1>a, <1>4, <2>1, ReturnEffect DEF TakeRx, Switch, Work
      <3>2. Released(t) /\ pc[t] # "idle" /\ (pc[t] = "uc" => stage'[t] = "none")
        BY <1>a, <3>1 DEF Released, MutexOf, WithTx, WithRx, Switching, Counting, Working
      <3> QED
        BY <3>1, <3>2, ReturnOwn
    <2>2. CASE ~(~(op[t] = "Send" \/ Admitted(t)))
      BY <1>a, <1>4, <2>2 DEF TakeRx, Switch, Work, Apart, Own, MutexOf, CallOf, TurnOf, WithTx, WithRx, Switching,
         Counting, Working, Closing, CallTypes
    <2> QED
      BY <2>1, <2>2
  <1>5. CASE RecvTakeRx(t)
    <2>1. CASE ~Admitted(t)
      <3>1. Returned(t) /\ UNCHANGED <<tx, rx>> /\ pc[t] = "recvRx"
        BY <1>a, <1>5, <2>1, ReturnEffect DEF RecvTakeRx
      <3>2. Released(t) /\ pc[t] # "idle" /\ (pc[t] = "uc" => stage'[t] = "none")
        BY <1>a, <3>1 DEF Released, MutexOf, WithTx, WithRx, Switching, Counting, Working
      <3> QED
        BY <3>1, <3>2, ReturnOwn
    <2>2. CASE ~(~Admitted(t))
      BY <1>a, <1>5, <2>2 DEF RecvTakeRx, Apart, Own, MutexOf, CallOf, TurnOf, WithTx, WithRx, Switching, Counting,
         Working, Closing, CallTypes
    <2> QED
      BY <2>1, <2>2
  <1>6. CASE RecvTakeTx(t)
    BY <1>a, <1>6 DEF RecvTakeTx, Apart, Own, MutexOf, CallOf, TurnOf, WithTx, WithRx, Switching, Counting, Working,
       Closing, CallTypes
  <1>7. CASE RecvTakeBoth(t)
    BY <1>a, <1>7 DEF RecvTakeBoth, Switch, Work, Apart, Own, MutexOf, CallOf, TurnOf, WithTx, WithRx, Switching,
       Counting, Working, Closing, CallTypes
  <1>8. CASE UcTimesOut(t)
    BY <1>a, <1>8 DEF UcTimesOut, Apart, Own, MutexOf, CallOf, TurnOf, WithTx, WithRx, Switching, Counting, Working,
       Closing, CallTypes
  <1>9. CASE TxTimesOut(t)
    <2>1. Returned(t) /\ UNCHANGED <<tx, rx>> /\ pc[t] = "tx"
      BY <1>a, <1>9, ReturnEffect DEF TxTimesOut
    <2>2. Released(t) /\ pc[t] \notin {"idle", "uc"}
      BY <1>a, <2>1 DEF Released, MutexOf, WithTx, WithRx, Switching, Counting, Working
    <2> QED
      BY <2>1, <2>2, ReturnOwn
  <1>10. CASE RxTimesOut(t)
    <2>1. Returned(t) /\ tx' = NoTask /\ rx' = rx /\ pc[t] = "rx"
      BY <1>a, <1>10, ReturnEffect DEF RxTimesOut
    <2>2. Released(t) /\ pc[t] \notin {"idle", "uc"}
      BY <1>a, <2>1 DEF Released, MutexOf, WithTx, WithRx, Switching, Counting, Working
    <2> QED
      BY <2>1, <2>2, ReturnOwn
  <1>11. CASE RecvTimesOut(t)
    <2>1. Returned(t) /\ rx' = rx /\ IF pc[t] = "recvBoth" THEN tx' = NoTask ELSE pc[t] \in {"recvRx", "recvTx"} /\ tx' = tx
      BY <1>a, <1>11, ReturnEffect DEF RecvTimesOut
    <2>2. Released(t) /\ pc[t] \notin {"idle", "uc"}
      BY <1>a, <2>1 DEF Released, MutexOf, WithTx, WithRx, Switching, Counting, Working
    <2> QED
      BY <2>1, <2>2, ReturnOwn
  <1>12. CASE FirstCount(t)
    <2>1. CASE SwitchFails(t)
      <3>1. Returned(t)
        BY <1>a, <1>12, <2>1, ReturnEffect DEF FirstCount, SwitchFails
      <3>2. Released(t) /\ pc[t] # "idle" /\ (pc[t] = "uc" => stage'[t] = "none")
        BY <1>a, <1>12, <2>1 DEF FirstCount, SwitchFails, Released, CallOf, MutexOf, WithTx, WithRx, Switching,
           Counting, Working
      <3> QED
        BY <3>1, <3>2, ReturnOwn
    <2>2. CASE ~(SwitchFails(t))
      BY <1>a, <1>12, <2>2 DEF FirstCount, SwitchFails, Apart, Own, MutexOf, CallOf, TurnOf, WithTx, WithRx,
         Switching, Counting, Working, Closing, CallTypes
    <2> QED
      BY <2>1, <2>2
  <1>13. CASE Count(t)
    BY <1>a, <1>13 DEF Count, Apart, Own, MutexOf, CallOf, TurnOf, WithTx, WithRx, Switching, Counting, Working,
       Closing, CallTypes
  <1>14. CASE DrainBefore(t)
    BY <1>a, <1>14 DEF DrainBefore, Apart, Own, MutexOf, CallOf, TurnOf, WithTx, WithRx, Switching, Counting,
       Working, Closing, CallTypes
  <1>15. CASE Select(t)
    BY <1>a, <1>15 DEF Select, Apart, Own, MutexOf, CallOf, TurnOf, WithTx, WithRx, Switching, Counting, Working,
       Closing, CallTypes
  <1>16. CASE Selected(t)
    <2>1. pc[t] = "selected" /\ UNCHANGED <<op, sock, stage, uc, tx, rx>>
      BY <1>16 DEF Selected
    <2>2. \/ current' = sock[t] /\ loc' = [loc EXCEPT ![t].before = current] /\ pc' = [pc EXCEPT ![t] = "recount"]
          \/ current' = current /\ loc' = loc /\ pc' \in {[pc EXCEPT ![t] = "busy"], [pc EXCEPT ![t] = "fail"]}
      BY <1>16 DEF Selected
    <2>3. sock[t] # current
      BY <1>a, <2>1 DEF TurnOf
    <2>4. Apart(t)
      BY <1>a, <2>1, <2>2 DEF Apart, CallTypes
    <2>5. MutexOf(t)' /\ CallOf(t)'
      BY <1>a, <2>1, <2>2 DEF MutexOf, CallOf, WithTx, WithRx, Switching, Counting, Working, CallTypes
    <2>6. TurnOf(t)'
      BY <1>a, <2>1, <2>2, <2>3 DEF TurnOf, Working, CallTypes, Locals
    <2> QED
      BY <2>4, <2>5, <2>6 DEF Own
  <1>17. CASE RetryWhenBusy(t)
    BY <1>a, <1>17 DEF RetryWhenBusy, Apart, Own, MutexOf, CallOf, TurnOf, WithTx, WithRx, Switching, Counting,
       Working, Closing, CallTypes
  <1>18. CASE Recount(t)
    <2>1. pc[t] = "recount" /\ UNCHANGED <<op, sock, stage, uc, tx, rx, current>>
      BY <1>18 DEF Recount
    <2>2. PICK n : loc' = [loc EXCEPT ![t].left = n] \/ loc' = loc
      BY <1>18 DEF Recount
    <2>3. pc' \in {[pc EXCEPT ![t] = "split"], [pc EXCEPT ![t] = "copy"], [pc EXCEPT ![t] = "fail"]}
      BY <1>18 DEF Recount
    <2>4. Apart(t)
      BY <1>a, <2>1, <2>2, <2>3 DEF Apart, CallTypes
    <2>5. MutexOf(t)' /\ CallOf(t)'
      BY <1>a, <2>1, <2>3 DEF MutexOf, CallOf, WithTx, WithRx, Switching, Counting, Working, CallTypes
    <2>6. TurnOf(t)'
      BY <1>a, <2>1, <2>2, <2>3 DEF TurnOf, Working, CallTypes, Locals
    <2> QED
      BY <2>4, <2>5, <2>6 DEF Own
  <1>19. CASE Split(t)
    BY <1>a, <1>19 DEF Split, Apart, Own, MutexOf, CallOf, TurnOf, WithTx, WithRx, Switching, Counting, Working,
       Closing, CallTypes
  <1>20. CASE CopyAfter(t)
    BY <1>a, <1>20 DEF CopyAfter, Apart, Own, MutexOf, CallOf, TurnOf, WithTx, WithRx, Switching, Counting, Working,
       Closing, CallTypes
  <1>21. CASE Switched(t)
    BY <1>a, <1>21 DEF Switched, SwitchSucceeds, Work, Apart, Own, MutexOf, CallOf, TurnOf, WithTx, WithRx,
       Switching, Counting, Working, Closing, CallTypes
  <1>22. CASE Fail(t)
    <2>1. Returned(t)
      BY <1>a, <1>22, ReturnEffect DEF Fail, SwitchFails
    <2>2. Released(t) /\ pc[t] \notin {"idle", "uc"}
      BY <1>a, <1>22 DEF Fail, SwitchFails, Released, MutexOf, WithTx, WithRx, Switching, Counting, Working
    <2> QED
      BY <2>1, <2>2, ReturnOwn
  <1>23. CASE Create(t)
    <2>1. CASE Return(t, FALSE) /\ tx' = NoTask /\ rx' = NoTask
      <3>1. Returned(t)
        BY <1>a, <1>23, <2>1, ReturnEffect DEF Create
      <3>2. Released(t) /\ pc[t] # "idle" /\ (pc[t] = "uc" => stage'[t] = "none")
        BY <1>a, <1>23, <2>1 DEF Create, Released, CallOf, MutexOf, WithTx, WithRx, Switching, Counting, Working
      <3> QED
        BY <3>1, <3>2, ReturnOwn
    <2>2. CASE ~(Return(t, FALSE) /\ tx' = NoTask /\ rx' = NoTask)
      BY <1>a, <1>23, <2>2 DEF Create, Apart, Own, MutexOf, CallOf, TurnOf, WithTx, WithRx, Switching, Counting,
         Working, Closing, CallTypes
    <2> QED
      BY <2>1, <2>2
  <1>24. CASE CreateStatus(t)
    <2>1. Returned(t)
      BY <1>a, <1>24, ReturnEffect DEF CreateStatus
    <2>2. Released(t) /\ pc[t] \notin {"idle", "uc"}
      BY <1>a, <1>24 DEF CreateStatus, Released, MutexOf, WithTx, WithRx, Switching, Counting, Working
    <2> QED
      BY <2>1, <2>2, ReturnOwn
  <1>25. CASE Connect(t)
    <2>1. Returned(t)
      BY <1>a, <1>25, ReturnEffect DEF Connect
    <2>2. Released(t) /\ pc[t] \notin {"idle", "uc"}
      BY <1>a, <1>25 DEF Connect, Released, MutexOf, WithTx, WithRx, Switching, Counting, Working
    <2> QED
      BY <2>1, <2>2, ReturnOwn
  <1>26. CASE Send(t)
    <2>1. Returned(t) /\ tx' = NoTask /\ rx' = rx /\ pc[t] = "send"
      BY <1>a, <1>26, ReturnEffect DEF Send
    <2>2. Released(t) /\ pc[t] \notin {"idle", "uc"}
      BY <1>a, <2>1 DEF Released, MutexOf, WithTx, WithRx, Switching, Counting, Working
    <2> QED
      BY <2>1, <2>2, ReturnOwn
  <1>27. CASE RecvByte(t)
    <2>1. CASE ~(loc[t].got + 1 < RECV_LENGTH)
      <3>1. Returned(t) /\ tx' = tx /\ rx' = NoTask /\ pc[t] = "recv"
        BY <1>a, <1>27, <2>1, ReturnEffect DEF RecvByte
      <3>2. Released(t) /\ pc[t] # "idle" /\ (pc[t] = "uc" => stage'[t] = "none")
        BY <1>a, <3>1 DEF Released, MutexOf, WithTx, WithRx, Switching, Counting, Working
      <3> QED
        BY <3>1, <3>2, ReturnOwn
    <2>2. CASE ~(~(loc[t].got + 1 < RECV_LENGTH))
      BY <1>a, <1>27, <2>2 DEF RecvByte, Apart, Own, MutexOf, CallOf, TurnOf, WithTx, WithRx, Switching, Counting,
         Working, Closing, CallTypes
    <2> QED
      BY <2>1, <2>2
  <1>28. CASE RecvEnds(t)
    <2>1. CASE loc[t].got # 0
      <3>1. Returned(t) /\ tx' = tx /\ rx' = NoTask /\ pc[t] = "recv"
        BY <1>a, <1>28, <2>1, ReturnEffect DEF RecvEnds
      <3>2. Released(t) /\ pc[t] # "idle" /\ (pc[t] = "uc" => stage'[t] = "none")
        BY <1>a, <3>1 DEF Released, MutexOf, WithTx, WithRx, Switching, Counting, Working
      <3> QED
        BY <3>1, <3>2, ReturnOwn
    <2>2. CASE ~(loc[t].got # 0)
      BY <1>a, <1>28, <2>2 DEF RecvEnds, Apart, Own, MutexOf, CallOf, TurnOf, WithTx, WithRx, Switching, Counting,
         Working, Closing, CallTypes
    <2> QED
      BY <2>1, <2>2
  <1>29. CASE RecvStatus(t)
    <2>1. Returned(t) /\ tx' = tx /\ rx' = NoTask /\ pc[t] = "recvStatus"
      BY <1>a, <1>29, ReturnEffect DEF RecvStatus
    <2>2. Released(t) /\ pc[t] \notin {"idle", "uc"}
      BY <1>a, <2>1 DEF Released, MutexOf, WithTx, WithRx, Switching, Counting, Working
    <2> QED
      BY <2>1, <2>2, ReturnOwn
  <1>30. CASE Disconnect(t)
    <2>1. Returned(t)
      BY <1>a, <1>30, ReturnEffect DEF Disconnect
    <2>2. Released(t) /\ pc[t] \notin {"idle", "uc"}
      BY <1>a, <1>30 DEF Disconnect, Released, MutexOf, WithTx, WithRx, Switching, Counting, Working
    <2> QED
      BY <2>1, <2>2, ReturnOwn
  <1> QED
    BY <1>1, <1>2, <1>3, <1>4, <1>5, <1>6, <1>7, <1>8, <1>9, <1>10, <1>11, <1>12, <1>13, <1>14, <1>15, <1>16, <1>17,
       <1>18, <1>19, <1>20, <1>21, <1>22, <1>23, <1>24, <1>25, <1>26, <1>27, <1>28, <1>29, <1>30 DEF TaskSteps,
       Takes, TimesOut, Switches, Works

\* Who has both mutexes is the only one that has any.
LEMMA HolderIsAlone ==
    ASSUME MutexInv, NEW t \in Tasks, pc[t] \in WithTx \cap WithRx
    PROVE  tx = t /\ rx = t /\ \A u \in Tasks \ {t} : pc[u] \notin WithTx \cup WithRx
  BY DEF MutexInv, MutexOf

LEMMA SelectionStep ==
    ASSUME selected = current \/ unsure, NEW t \in Tasks, Calls(t) \/ TaskSteps(t)
    PROVE  (selected' = current' \/ unsure') /\ (current' = current \/ pc[t] = "selected")
  <1> USE DEF lineVars, modVars, At
  <1>1. CASE CallSteps(t)
    BY <1>1, CallStepsFrame
  <1>2. CASE Selected(t)
    BY <1>2 DEF Selected
  <1>3. CASE FirstCount(t) \/ Count(t) \/ DrainBefore(t) \/ Select(t) \/ RetryWhenBusy(t) \/ Recount(t)
             \/ Split(t) \/ CopyAfter(t) \/ Switched(t) \/ Fail(t)
    BY <1>3 DEF FirstCount, Count, DrainBefore, Select, RetryWhenBusy, Recount, Split, CopyAfter, Switched, Fail
  <1>4. CASE Create(t) \/ Connect(t) \/ RecvByte(t) \/ Disconnect(t)
    BY <1>4 DEF Create, Connect, RecvByte, Disconnect
  <1> QED
    BY <1>1, <1>2, <1>3, <1>4 DEF CallSteps, TaskSteps, Takes, Switches, Works

LEMMA ControlStepAll ==
    ASSUME TypeOK, MutexInv, CallInv, TurnInv, NEW t \in Tasks, Calls(t) \/ TaskSteps(t)
    PROVE  MutexInv' /\ CallInv' /\ TurnInv'
  <1>1. Apart(t) /\ Own(t)
    BY ControlStep
  <1>2. (selected' = current' \/ unsure') /\ (current' = current \/ pc[t] = "selected")
    BY SelectionStep DEF TurnInv
  <1>3. ASSUME NEW u \in Tasks \ {t} PROVE MutexOf(u)' /\ CallOf(u)' /\ TurnOf(u)'
    <2>1. MutexOf(u) /\ CallOf(u) /\ TurnOf(u) /\ u # NoTask
      BY TasksAssumption DEF MutexInv, CallInv, TurnInv
    <2>2. MutexOf(u)' /\ CallOf(u)'
      BY <1>1, <2>1 DEF Apart, MutexOf, CallOf
    <2>3. CASE current' = current
      <3>1. TurnOf(u)'
        BY <1>1, <2>1, <2>3 DEF Apart, TurnOf
      <3> QED
        BY <2>2, <3>1
    <2>4. CASE pc[t] = "selected"
      <3>1. pc[u] \notin WithTx \cup WithRx
        BY <2>4, HolderIsAlone DEF WithTx, WithRx, Switching, Counting
      <3> QED
        BY <1>1, <2>1, <2>2, <3>1 DEF Apart, TurnOf, WithTx, WithRx, Switching, Counting, Working
    <2> QED
      BY <1>2, <2>2, <2>3, <2>4
  <1> QED
    BY <1>1, <1>2, <1>3 DEF Own, MutexInv, CallInv, TurnInv

\* Nobody gets into the counting but through its first step.
LEMMA EntersAtFirstCount ==
    ASSUME TypeOK, CallInv, NEW t \in Tasks, Calls(t) \/ TaskSteps(t), pc[t] \notin Switching
    PROVE  pc'[t] \notin Counting
  <1> USE DEF At, Goto, Counting
  <1>a. pc \in [Tasks -> Places] /\ op \in [Tasks -> {"none", "Socket", "Connect", "Send", "Recv"} \cup Closing] /\ CallOf(t)
    BY DEF TypeOK, CallTypes, CallInv
  <1>1. CASE Calls(t)
    BY <1>a, <1>1 DEF Calls, CallSocket, CallConnect, CallSend, CallRecv, CallShutdown, CallClose, Call
  <1>2. CASE Takes(t)
    BY <1>a, <1>2 DEF Takes, ChooseSocket, TakeTx, TakeRx, RecvTakeRx, RecvTakeTx, RecvTakeBoth, Switch, Work, Return,
       CallOf, Closing
  <1>3. CASE TimesOut(t)
    BY <1>a, <1>3 DEF TimesOut, UcTimesOut, TxTimesOut, RxTimesOut, RecvTimesOut, Return
  <1>4. CASE Switches(t)
    BY <1>4 DEF Switches, Switching, FirstCount, Count, DrainBefore, Select, Selected, RetryWhenBusy, Recount, Split,
       CopyAfter, Switched, Fail
  <1>5. CASE Works(t)
    BY <1>a, <1>5 DEF Works, Create, CreateStatus, Connect, Send, RecvByte, RecvEnds, RecvStatus, Disconnect, Return
  <1> QED
    BY <1>1, <1>2, <1>3, <1>4, <1>5 DEF TaskSteps

LEMMA OnlySwitches ==
    ASSUME NEW t \in Tasks, Calls(t) \/ TaskSteps(t), pc[t] \in Switching
    PROVE  Switches(t)
  BY DEF At, Switching, Counting, Calls, CallSocket, CallConnect, CallSend, CallRecv, CallShutdown, CallClose, Call,
     TaskSteps, Takes, ChooseSocket, TakeTx, TakeRx, RecvTakeRx, RecvTakeTx, RecvTakeBoth,
     TimesOut, UcTimesOut, TxTimesOut, RxTimesOut, RecvTimesOut,
     Works, Create, CreateStatus, Connect, Send, RecvByte, RecvEnds, RecvStatus, Disconnect

\* The end of a command stops the module only by the flag.
LEMMA StopsByTheFlag == CommandIsSent \/ CommandFails => (rts' => rts \/ flag)
  BY Zenon DEF CommandIsSent, CommandFails

\* From where to where the steps of sx_ulpgn_change_socket_index go.
LEMMA LineStep ==
    ASSUME TypeOK, MutexInv, LineInv, NEW t \in Tasks, Calls(t) \/ TaskSteps(t), Apart(t), CallInv
    PROVE  LineInv'
  <1> USE DEF At, Goto, lineVars, callVars
  <1>a. CallTypes
    BY DEF TypeOK
  <1>1. CASE pc[t] \notin Switching
    <2>1. tmp' = tmp /\ flag' = flag /\ (CommandIsSent \/ CommandFails)
      <3>1. CASE CallSteps(t)
        BY <3>1, CallStepsFrame
      <3>2. CASE ~CallSteps(t)
        BY <1>1, <3>2 DEF CallSteps, TaskSteps, Takes, Switches, Works, Switching, Counting, FirstCount, Count,
           DrainBefore,
           Select, Selected, RetryWhenBusy, Recount, Split, CopyAfter, Switched, Fail, Create, Connect, RecvByte, Disconnect,
           CommandFails
      <3> QED
        BY <3>1, <3>2
    <2>2. pc'[t] \notin Counting
      BY <1>1, EntersAtFirstCount
    <2>3. \A u \in Tasks : pc'[u] \in Counting <=> pc[u] \in Counting
      BY <1>1, <2>2 DEF Apart, Switching
    <2>4. \A u \in Tasks : pc[u] \in Counting => pc'[u] = pc[u]
      BY <1>1 DEF Apart, Switching
    <2> QED
      BY <2>1, <2>2, <2>3, <2>4 DEF LineInv, Stopping, Counting, CommandIsSent, CommandFails
  <1>2. CASE pc[t] \in Switching
    <2>1. \A u \in Tasks \ {t} : pc[u] \notin Counting /\ pc'[u] \notin Counting
      BY <1>2, HolderIsAlone DEF WithTx, WithRx, Switching, Apart
    <2>2. SUFFICES /\ tmp' <=> pc'[t] \in Counting
                   /\ rts' => flag' \/ pc'[t] \in Stopping
                   /\ pc'[t] \in {"selected", "recount"} => rts'
      BY <2>1 DEF LineInv, Stopping, Counting
    <2>3. /\ tmp <=> pc[t] \in Counting
          /\ rts => flag \/ pc[t] \in Stopping
          /\ pc[t] \in {"selected", "recount"} => rts
      BY <2>1 DEF LineInv, Stopping, Counting
    <2>4. CASE FirstCount(t)
      <3>1. /\ pc[t] = "firstCount" /\ flag' = flag
            /\ \/ tmp' /\ pc'[t] = "count"
               \/ tmp' = tmp /\ pc'[t] = "idle"
        BY <1>a, <2>4 DEF FirstCount, SwitchFails, Return, CallTypes
      <3>2. rts' => rts \/ flag
        BY <2>4, StopsByTheFlag DEF FirstCount
      <3> QED
        BY <2>3, <3>1, <3>2 DEF Counting, Stopping
    <2>5. CASE Count(t)
      <3>1. pc[t] = "count" /\ UNCHANGED <<flag, tmp>> /\ pc'[t] \in {"drain", "fail"}
        BY <1>a, <2>5 DEF Count, CallTypes
      <3> QED
        BY <2>3, <3>1 DEF Counting, Stopping
    <2>6. CASE DrainBefore(t)
      BY <1>a, <2>3, <2>6 DEF DrainBefore, Counting, Stopping, CallTypes
    <2>7. CASE Select(t)
      BY <1>a, <2>3, <2>7 DEF Select, Counting, Stopping, CallTypes
    <2>8. CASE Selected(t)
      BY <1>a, <2>3, <2>8 DEF Selected, Counting, Stopping, CallTypes
    <2>9. CASE RetryWhenBusy(t)
      BY <1>a, <2>3, <2>9 DEF RetryWhenBusy, Counting, Stopping, CallTypes
    <2>10. CASE Recount(t)
      BY <1>a, <2>3, <2>10 DEF Recount, Counting, Stopping, CallTypes
    <2>11. CASE Split(t)
      BY <1>a, <2>3, <2>11 DEF Split, Counting, Stopping, CallTypes
    <2>12. CASE CopyAfter(t)
      BY <1>a, <2>3, <2>12 DEF CopyAfter, Counting, Stopping, CallTypes
    <2>13. CASE Switched(t)
      BY <1>a, <2>3, <2>13 DEF Switched, SwitchSucceeds, Work, CallInv, CallOf, Closing, Counting, Stopping, CallTypes
    <2>14. CASE Fail(t)
      BY <1>a, <2>3, <2>14 DEF Fail, SwitchFails, Return, Counting, Stopping, CallTypes
    <2>15. Switches(t)
      BY <1>2, OnlySwitches
    <2> QED
      BY <2>4, <2>5, <2>6, <2>7, <2>8, <2>9, <2>10, <2>11, <2>12, <2>13, <2>14, <2>15 DEF Switches
  <1> QED
    BY <1>1, <1>2

-----------------------------------------------------------------------------
(* Connections, and the bytes in the UART's queue.                          *)

\* Outside of sx_ulpgn_change_socket_index nobody takes or counts the bytes there.
LEMMA QueueFrame ==
    ASSUME NEW t \in Tasks, Calls(t) \/ TaskSteps(t), pc[t] \notin Switching
    PROVE  UNCHANGED <<sciq, uncounted, current, tmp>>
  <1> USE DEF At, Switching, Counting, lineVars
  <1>1. CASE CallSteps(t)
    BY <1>1, CallStepsFrame DEF dataVars
  <1>2. CASE Create(t) \/ Connect(t) \/ RecvByte(t) \/ Disconnect(t)
    BY <1>2 DEF Create, Connect, RecvByte, Disconnect, dataVars
  <1>3. CASE Switches(t)
    BY <1>3 DEF Switches, FirstCount, Count, DrainBefore, Select, Selected, RetryWhenBusy, Recount, Split, CopyAfter,
       Switched, Fail
  <1> QED
    BY <1>1, <1>2, <1>3 DEF CallSteps, TaskSteps, Takes, Works

\* A mishap is for good.
LEMMA MishapStays ==
    ASSUME NEW t \in Tasks, Calls(t) \/ TaskSteps(t), ~mishap'
    PROVE  ~mishap
  <1>1. CASE CallSteps(t)
    BY <1>1, CallStepsFrame DEF dataVars
  <1>2. CASE FirstCount(t) \/ Count(t) \/ Select(t) \/ Selected(t) \/ Switched(t) \/ Recount(t) \/ Create(t) \/ RecvByte(t)
    BY <1>2, Zenon DEF FirstCount, Count, Select, Selected, Switched, Recount, Create, RecvByte, dataVars
  <1>3. CASE DrainBefore(t) \/ RetryWhenBusy(t) \/ CopyAfter(t) \/ Fail(t) \/ Split(t)
    BY <1>3, Zenon DEF DrainBefore, RetryWhenBusy, CopyAfter, Fail, Split, Drain
  <1>4. CASE Connect(t) \/ Disconnect(t)
    BY <1>4, Zenon DEF Connect, Disconnect, Strays
  <1> QED
    BY <1>1, <1>2, <1>3, <1>4 DEF CallSteps, TaskSteps, Takes, Switches, Works

\* Nor does a change of the socket create, connect or end anything.
LEMMA SwitchFrame ==
    ASSUME NEW t \in Tasks, Switches(t)
    PROVE  UNCHANGED <<sockVars, linked, emitted, taken>> /\ pc[t] \in Switching
  BY DEF At, Switching, Counting, dataVars, modVars, Switches, FirstCount, Count, DrainBefore, Select, Selected,
     RetryWhenBusy, Recount, Split, CopyAfter,
     Switched, Fail

\* A socket is created or disconnected with both mutexes held.
LEMMA CreatedFrame ==
    ASSUME NEW t \in Tasks, Calls(t) \/ TaskSteps(t)
    PROVE  \/ UNCHANGED created
           \/ pc[t] = "create" /\ created' = [created EXCEPT ![sock[t]] = TRUE]
           \/ pc[t] = "disconnect" /\ created' = [created EXCEPT ![sock[t]] = FALSE]
  <1>1. CASE CallSteps(t)
    BY <1>1, CallStepsFrame DEF sockVars
  <1>2. CASE Switches(t)
    BY <1>2, SwitchFrame DEF sockVars
  <1>3. CASE Create(t) \/ Connect(t) \/ RecvByte(t) \/ Disconnect(t)
    BY <1>3 DEF Create, Connect, RecvByte, Disconnect, sockVars, At
  <1> QED
    BY <1>1, <1>2, <1>3 DEF CallSteps, TaskSteps, Takes, Works

\* Where a call gets into the part of it that LinkOf is about, it has been admitted.
LEMMA EntersAdmitted ==
    ASSUME TypeOK, MutexInv, CallInv, LinkInv, NEW t \in Tasks, Calls(t) \/ TaskSteps(t), Apart(t), CallInv'
    PROVE  LinkOf(t)'
  <1> USE DEF At, Goto
  <1>a. CallTypes /\ CallOf(t) /\ CallOf(t)' /\ LinkOf(t)
    BY DEF TypeOK, CallInv, LinkInv
  <1>1. CASE Calls(t)
    BY <1>a, <1>1 DEF Calls, CallSocket, CallConnect, CallSend, CallRecv, CallShutdown, CallClose, Call, LinkOf,
       Switching,
       Counting, CallTypes
  <1>2. CASE Takes(t)
    <2>1. CASE TakeRx(t)
      BY <1>a, <2>1 DEF TakeRx, Switch, Work, Return, Admitted, LinkOf, Switching, Counting, CallTypes, Closing,
         callVars, sockVars
    <2>2. CASE ~TakeRx(t)
      BY <1>a, <1>2, <2>2 DEF Takes, ChooseSocket, TakeTx, RecvTakeRx, RecvTakeTx, RecvTakeBoth, Switch, Work, Return,
         LinkOf, CallOf, Switching, Counting, CallTypes, Closing, callVars, sockVars
    <2> QED
      BY <2>1, <2>2
  <1>3. CASE TimesOut(t)
    BY <1>a, <1>3 DEF TimesOut, UcTimesOut, TxTimesOut, RxTimesOut, RecvTimesOut, Return, LinkOf, Switching,
       Counting, CallTypes
  <1>4. CASE Switches(t)
    <2>1. pc'[t] = "idle" \/ UNCHANGED <<op, sock>>
      BY <1>a, <1>4 DEF Switches, FirstCount, Count, DrainBefore, Select, Selected, RetryWhenBusy, Recount, Split,
         CopyAfter,
         Switched, Fail, SwitchFails, SwitchSucceeds, Return, callVars, CallTypes
    <2>2. created' = created /\ pc[t] \in Switching
      BY <1>4, SwitchFrame DEF sockVars
    <2> QED
      BY <1>a, <2>1, <2>2 DEF LinkOf, CallOf, Switching, Counting
  <1>5. CASE Works(t)
    BY <1>a, <1>5 DEF Works, Create, CreateStatus, Connect, Send, RecvByte, RecvEnds, RecvStatus, Disconnect, Return,
       LinkOf, Switching, Counting, CallTypes, callVars
  <1> QED
    BY <1>1, <1>2, <1>3, <1>4, <1>5 DEF TaskSteps

LEMMA LinkStep ==
    ASSUME TypeOK, MutexInv, CallInv, TurnInv, LinkInv, NEW t \in Tasks, Calls(t) \/ TaskSteps(t), Apart(t), CallInv'
    PROVE  LinkInv'
  <1> USE DEF At
  <1>a. created \in [Sockets -> BOOLEAN] /\ emitted \in [Sockets -> Nat] /\ linked \subseteq Sockets
        /\ CallOf(t) /\ LinkOf(t) /\ TurnOf(t)
    BY DEF TypeOK, DriverTypes, DataTypes, CallInv, LinkInv, TurnInv
  <1>b. pc[t] \notin {"idle", "uc"} => sock[t] \in Sockets
    BY <1>a DEF CallOf
  <1>1. ASSUME NEW u \in Tasks \ {t} PROVE LinkOf(u)'
    <2>1. LinkOf(u) /\ pc'[u] = pc[u] /\ op'[u] = op[u] /\ sock'[u] = sock[u]
      BY DEF LinkInv, Apart
    <2>2. CASE created' = created
      BY <2>1, <2>2 DEF LinkOf
    <2>3. CASE pc[t] \in {"create", "disconnect"}
      <3>1. pc[u] \notin WithTx
        BY <2>3, HolderIsAlone DEF WithTx, WithRx, Working
      <3> QED
        BY <2>1, <3>1 DEF LinkOf, WithTx, Working
    <2> QED
      BY <2>2, <2>3, CreatedFrame
  <1>2. LinkOf(t)'
    BY EntersAdmitted
  <1>3. ASSUME ~mishap'
        PROVE  (\A s \in linked' : created'[s]) /\ (\A s \in Sockets : ~created'[s] => emitted'[s] = 0)
    <2>0. (\A s \in linked : created[s]) /\ (\A s \in Sockets : ~created[s] => emitted[s] = 0)
      BY <1>3, MishapStays DEF LinkInv
    <2>1. CASE CallSteps(t) \/ Switches(t) \/ RecvByte(t)
      <3>1. UNCHANGED <<created, linked, emitted>>
        <4>1. CASE CallSteps(t)
          BY <4>1, CallStepsFrame DEF sockVars, modVars, dataVars
        <4>2. CASE Switches(t)
          BY <4>2, SwitchFrame DEF sockVars
        <4>3. CASE RecvByte(t)
          BY <4>3 DEF sockVars, modVars, RecvByte
        <4> QED
          BY <2>1, <4>1, <4>2, <4>3
      <3> QED
        BY <2>0, <3>1
    <2>2. CASE Create(t)
      <3>1. UNCHANGED <<linked, emitted>> /\ (created' = created \/ created' = [created EXCEPT ![sock[t]] = TRUE])
        BY <2>2 DEF Create, sockVars, modVars
      <3> QED
        BY <1>a, <2>0, <3>1
    <2>3. CASE Connect(t)
      <3>1. /\ UNCHANGED <<created, emitted>> /\ pc[t] = "connect"
            /\ \/ linked' = linked
               \/ linked' = linked \cup {selected} /\ selected = current
        BY <1>3, <2>3 DEF Connect, Strays, dataVars
      <3>2. created[current]
        BY <1>a, <3>1 DEF LinkOf, TurnOf, CallOf, Working
      <3> QED
        BY <1>a, <2>0, <3>1, <3>2
    <2>4. CASE Disconnect(t)
      <3>1. sock[t] = current /\ sock[t] \in Sockets
        BY <1>a, <1>b, <2>4 DEF Disconnect, TurnOf, Working
      <3>2. \/ UNCHANGED <<created, linked, emitted>>
            \/ /\ created' = [created EXCEPT ![sock[t]] = FALSE] /\ linked' = linked \ {selected}
               /\ emitted' = [emitted EXCEPT ![selected] = 0] /\ selected = current
        BY <1>3, <2>4 DEF Disconnect, Forget, Strays, sockVars
      <3> QED
        BY <1>a, <2>0, <3>1, <3>2
    <2> QED
      BY <2>1, <2>2, <2>3, <2>4 DEF CallSteps, TaskSteps, Takes, Works
  <1> QED
    BY <1>1, <1>2, <1>3 DEF LinkInv

\* A step of the module concerns no caller.
LEMMA SendFrame ==
    ASSUME ModuleSends
    PROVE  /\ UNCHANGED <<pc, op, sock, stage, loc, uc, tx, rx, current, tmp, rts, flag, created, status, taken>>
           /\ UNCHANGED <<selected, linked, unsure>> /\ ~mishap
  BY DEF ModuleSends, callVars, lineVars, sockVars, modVars

LEMMA ControlSend ==
    ASSUME TypeOK, MutexInv, CallInv, TurnInv, LineInv, LinkInv, ModuleSends
    PROVE  MutexInv' /\ CallInv' /\ TurnInv' /\ LineInv' /\ LinkInv'
  <1>1. MutexInv' /\ CallInv' /\ TurnInv' /\ LineInv'
    BY SendFrame DEF MutexInv, MutexOf, CallInv, CallOf, TurnInv, TurnOf, LineInv
  <1>2. created[selected] /\ selected \in Sockets /\ emitted \in [Sockets -> Nat]
    BY DEF ModuleSends, LinkInv, TypeOK, DriverTypes, DataTypes
  <1>3. emitted' = [emitted EXCEPT ![selected] = emitted[selected] + 1]
    BY SendEffect
  <1>4. \A s \in Sockets : ~created'[s] => emitted'[s] = 0
    BY <1>2, <1>3, SendFrame DEF LinkInv
  <1>5. (\A u \in Tasks : LinkOf(u)') /\ \A s \in linked' : created'[s]
    BY SendFrame DEF LinkInv, LinkOf
  <1> QED
    BY <1>1, <1>4, <1>5 DEF LinkInv

-----------------------------------------------------------------------------
(* The count of the old socket's bytes.                                     *)

BorderOf(t) ==
    pc[t] = "split" =>
        /\ loc[t].left <= Len(sciq)
        /\ ~mishap => \A i \in DOMAIN sciq : sciq[i][1] = IF i <= loc[t].left THEN loc[t].before ELSE current

LEMMA BorderIsOfEach == /\ BorderIsCounted <=> \A t \in Tasks : BorderOf(t)
                        /\ BorderIsCounted' <=> \A t \in Tasks : BorderOf(t)'
  BY DEF BorderIsCounted, BorderOf, At

\* The step of the task that changes the socket.
LEMMA CountSwitch ==
    ASSUME TypeOK, MutexInv, CallInv, TurnInv, CountInv, BorderIsCounted, NEW t \in Tasks, Switches(t)
    PROVE  CountOf(t)' /\ BorderOf(t)'
  <1> USE DEF At, Goto, lineVars
  <1>a. /\ pc \in [Tasks -> Places] /\ loc \in [Tasks -> Locals] /\ sciq \in Seq(Bytes) /\ uncounted \in Nat /\ Len(sciq) \in Nat
        /\ Len(<< >>) = 0 /\ CountOf(t) /\ BorderOf(t)
    BY BorderIsOfEach DEF TypeOK, CallTypes, DataTypes, CountInv
  <1>1. CASE FirstCount(t)
    BY <1>a, <1>1 DEF FirstCount, SwitchFails, Return, CountOf, BorderOf
  <1>2. CASE Count(t)
    <2>1. pc'[t] = "fail" \/ (pc'[t] = "drain" /\ uncounted' = 0 /\ sciq' = sciq)
      BY <1>a, <1>2 DEF Count
    <2> QED
      BY <1>a, <2>1 DEF CountOf, BorderOf
  <1>3. CASE DrainBefore(t)
    <2> DEFINE zero == IF ~loc[t].same THEN 0 ELSE IF sciq = << >> THEN loc[t].zero + 1 ELSE 1
    <2>1. /\ pc[t] = "drain" /\ sciq' = << >> /\ uncounted' = uncounted
          /\ pc'[t] = IF zero < 2 THEN "count" ELSE "select"
      BY <1>a, <1>3 DEF DrainBefore, Drain
    <2>2. ~(zero < 2) => sciq = << >>
      OBVIOUS
    <2>3. pc'[t] = "select" => uncounted' = 0
      BY <1>a, <2>1, <2>2 DEF CountOf
    <2> HIDE DEF zero
    <2> QED
      BY <1>a, <2>1, <2>3 DEF CountOf, BorderOf
  <1>4. CASE Select(t)
    <2>1. /\ pc[t] = "select" /\ UNCHANGED <<sciq, uncounted, current, mishap>>
          /\ \/ pc'[t] = "selected" /\ loc' = [loc EXCEPT ![t].stored = (sciq # << >>)]
             \/ pc'[t] = "fail"
      BY <1>a, <1>4 DEF Select, dataVars
    <2>2. pc'[t] = "selected" => loc'[t].stored = (sciq # << >>)
      BY <1>a, <2>1 DEF Locals
    <2> QED
      BY <1>a, <2>1, <2>2 DEF CountOf, BorderOf
  <1>5. CASE Selected(t)
    <2>1. /\ pc[t] = "selected" /\ UNCHANGED <<sciq, uncounted, mishap>>
          /\ \/ pc'[t] = "recount" /\ loc' = [loc EXCEPT ![t].before = current]
             \/ pc'[t] \in {"busy", "fail"}
      BY <1>a, <1>5 DEF Selected, dataVars
    <2>2. pc'[t] = "recount" => loc'[t].before = current /\ loc'[t].stored = loc[t].stored
      BY <1>a, <2>1 DEF Locals
    <2> QED
      BY <1>a, <2>1, <2>2 DEF CountOf, BorderOf
  <1>6. CASE RetryWhenBusy(t) \/ CopyAfter(t) \/ Fail(t) \/ Switched(t)
    <2>1. pc'[t] \in {"count", "switched", "idle"} \cup Working
      BY <1>a, <1>6 DEF RetryWhenBusy, CopyAfter, Fail, SwitchFails, Return, Switched, SwitchSucceeds, Work,
         Working, CallInv,
         CallOf, TypeOK, CallTypes, Closing
    <2> QED
      BY <2>1 DEF CountOf, BorderOf, Working
  <1>7. CASE Recount(t)
    <2> DEFINE left == IF loc[t].stored THEN uncounted ELSE 0
    <2>0. ~mishap' => ~mishap
      BY <1>7, Zenon DEF Recount
    <2>1. /\ pc[t] = "recount" /\ UNCHANGED <<sciq, current>>
          /\ \/ pc'[t] = "fail"
             \/ pc'[t] = (IF left > 0 THEN "split" ELSE "copy") /\ loc' = [loc EXCEPT ![t].left = left]
      BY <1>a, <1>7 DEF Recount
    <2>2. pc'[t] = "split" => left = Len(sciq) /\ loc'[t].left = left /\ loc'[t].before = loc[t].before
      BY <1>a, <2>1 DEF CountOf, Locals
    <2> HIDE DEF left
    <2>3. DOMAIN sciq = 1 .. Len(sciq)
      BY <1>a
    <2>4. ~mishap' => \A i \in DOMAIN sciq : sciq[i][1] = loc[t].before
      BY <2>0, <2>1, <1>a DEF CountOf
    <2>5. BorderOf(t)'
      BY <1>a, <2>1, <2>2, <2>3, <2>4 DEF BorderOf
    <2> QED
      BY <2>1, <2>5 DEF CountOf
  <1>8. CASE Split(t)
    <2> DEFINE n == IF loc[t].left < Len(sciq) THEN loc[t].left ELSE Len(sciq)
    <2>1. pc[t] = "split" /\ pc'[t] = IF n = loc[t].left THEN "copy" ELSE "split"
      BY <1>a, <1>8 DEF Split
    <2>2. n = loc[t].left
      BY <1>a, <2>1 DEF BorderOf, Locals
    <2> QED
      BY <2>1, <2>2 DEF CountOf, BorderOf
  <1> QED
    BY <1>1, <1>2, <1>3, <1>4, <1>5, <1>6, <1>7, <1>8 DEF Switches

LEMMA CountStep ==
    ASSUME TypeOK, MutexInv, CallInv, TurnInv, CountInv, BorderIsCounted, NEW t \in Tasks, Calls(t) \/ TaskSteps(t), Apart(t)
    PROVE  CountInv' /\ BorderIsCounted'
  <1>1. CASE pc[t] \in Switching
    <2>1. Switches(t)
      BY <1>1, OnlySwitches
    <2>2. ASSUME NEW u \in Tasks \ {t} PROVE pc'[u] \notin Switching
      BY <1>1, HolderIsAlone DEF WithTx, WithRx, Apart
    <2>3. ASSUME NEW u \in Tasks \ {t} PROVE CountOf(u)' /\ BorderOf(u)'
      BY <2>2 DEF CountOf, BorderOf, Switching, Counting
    <2>4. CountOf(t)' /\ BorderOf(t)'
      BY <2>1, CountSwitch
    <2> QED
      BY <2>3, <2>4, BorderIsOfEach DEF CountInv
  <1>2. CASE pc[t] \notin Switching
    <2>1. UNCHANGED <<sciq, uncounted, current>> /\ (~mishap' => ~mishap)
      BY <1>2, QueueFrame, MishapStays
    <2>2. pc'[t] \notin Counting
      BY <1>2, EntersAtFirstCount
    <2>3. CountOf(t)' /\ BorderOf(t)'
      BY <2>2 DEF CountOf, BorderOf, Counting
    <2>4. ASSUME NEW u \in Tasks \ {t} PROVE CountOf(u)' /\ BorderOf(u)'
      <3>1. CountOf(u) /\ BorderOf(u) /\ pc'[u] = pc[u] /\ loc'[u] = loc[u]
        BY BorderIsOfEach DEF CountInv, Apart
      <3> QED
        BY <2>1, <3>1 DEF CountOf, BorderOf
    <2> QED
      BY <2>3, <2>4, BorderIsOfEach DEF CountInv
  <1> QED
    BY <1>1, <1>2

\* What arrives while somebody changes the socket is appended.
LEMMA CountSend ==
    ASSUME TypeOK, MutexInv, TurnInv, LineInv, CountInv, BorderIsCounted, ModuleSends
    PROVE  CountInv' /\ BorderIsCounted'
  <1>1. ASSUME NEW t \in Tasks PROVE CountOf(t)' /\ BorderOf(t)'
    <2>1. CountOf(t) /\ BorderOf(t) /\ pc'[t] = pc[t] /\ loc'[t] = loc[t] /\ current' = current
      BY SendFrame, BorderIsOfEach DEF CountInv
    <2>2. CASE pc[t] \notin Counting
      BY <2>1, <2>2 DEF CountOf, BorderOf, Counting
    <2>3. CASE pc[t] \in Counting
      <3>1. tmp /\ pc[t] \notin {"selected", "recount"}
        BY <2>3 DEF LineInv, ModuleSends
      <3>2. sciq' = Append(sciq, NextByte) /\ uncounted' = uncounted + 1
        BY <3>1, SendEffect DEF Receive
      <3>3. sciq \in Seq(Bytes) /\ uncounted \in Nat /\ Len(sciq') = Len(sciq) + 1 /\ Len(sciq) \in Nat /\ NextByte \in Bytes
        BY <3>2, SendEffect DEF TypeOK, DataTypes
      <3>4. ~mishap /\ (~mishap' => NextByte[1] = current)
        <4>1. ~mishap' => selected = current
          BY <3>1, SendEffect, Zenon DEF Receive
        <4> QED
          BY <4>1, SendFrame DEF NextByte, Byte
      <3>5. \A i \in DOMAIN sciq' :
                IF i <= Len(sciq) THEN i \in DOMAIN sciq /\ sciq'[i] = sciq[i] ELSE ~mishap' => sciq'[i][1] = current
        BY <3>2, <3>3, <3>4
      <3>6. loc[t].left \in Nat
        BY DEF TypeOK, CallTypes, Locals
      <3>7. CountOf(t)'
        BY <2>1, <3>1, <3>2, <3>3, <3>4, <3>5 DEF CountOf
      <3>8. BorderOf(t)'
        BY <2>1, <3>2, <3>3, <3>4, <3>5, <3>6 DEF BorderOf
      <3> QED
        BY <3>7, <3>8
    <2> QED
      BY <2>2, <2>3
  <1> QED
    BY <1>1, BorderIsOfEach DEF CountInv

-----------------------------------------------------------------------------
(* The streams.                                                             *)

\* The invariant as the task sees it that changes the socket.
StreamAt(t) ==
    /\ InOrder
    /\ ~tmp => sciq = << >>
    /\ pc[t] = "switched" => sciq = << >>
    /\ pc[t] = "split" => BothSidesOf(t)
    /\ pc[t] = "recount" => AllOf(loc[t].before)
    /\ pc[t] \notin {"recount", "split"} => AllOf(current)

LEMMA StreamOfOne ==
    ASSUME NEW t \in Tasks
    PROVE  /\ ((\A u \in Tasks \ {t} : pc[u] \notin Counting) /\ StreamInv /\ ~mishap) => StreamAt(t)
           /\ ((\A u \in Tasks \ {t} : pc'[u] \notin Counting) /\ (~mishap' => StreamAt(t)')) => StreamInv'
  BY DEF StreamInv, StreamAt, Counting

LEMMA StreamTypes ==
    ASSUME TypeOK
    PROVE  /\ byteq \in [Sockets -> Seq(Bytes)] /\ taken \in [Sockets -> Seq(Bytes)] /\ emitted \in [Sockets -> Nat]
           /\ sciq \in Seq(Bytes) /\ Len(sciq) \in Nat /\ current \in Sockets
           /\ \A s \in Sockets : Queued(s) \in Nat /\ Read(s) \in Nat /\ Arrived(s) \in Nat
  <1>1. byteq \in [Sockets -> Seq(Bytes)] /\ taken \in [Sockets -> Seq(Bytes)] /\ emitted \in [Sockets -> Nat]
        /\ sciq \in Seq(Bytes) /\ current \in Sockets
    BY DEF TypeOK, DriverTypes, DataTypes
  <1>2. ASSUME NEW s \in Sockets PROVE Queued(s) \in Nat /\ Read(s) \in Nat
    BY <1>1 DEF Queued, Read
  <1> QED
    BY <1>1, <1>2 DEF Arrived

\* The next bytes of a socket are put into its queue.
LEMMA QueueGrows ==
    ASSUME TypeOK, InOrder, NEW s \in Sockets, NEW bytes \in Seq(Bytes), taken' = taken,
           \A i \in 1 .. Len(bytes) : bytes[i] = Byte(s, Arrived(s) + i),
           byteq' = Put(s, bytes), ~Overflows(s, bytes)
    PROVE  /\ InOrder'
           /\ \A r \in Sockets : Arrived(r)' = Arrived(r) + (IF r = s THEN Len(bytes) ELSE 0)
  <1> DEFINE q == byteq[s] \o bytes
  <1>1. byteq' = [byteq EXCEPT ![s] = q]
    BY PutTypes DEF TypeOK
  <1>2. Len(bytes) \in Nat /\ Len(q) = Queued(s) + Len(bytes)
        /\ \A n \in 1 .. Len(q) : q[n] = IF n <= Queued(s) THEN byteq[s][n] ELSE bytes[n - Queued(s)]
    BY StreamTypes DEF Queued
  <1> HIDE DEF q
  <1>3. ASSUME NEW n \in 1 .. Len(q) PROVE q[n] = Byte(s, Read(s) + n)
    <2>1. n \in Nat /\ Queued(s) \in Nat /\ Read(s) \in Nat
      BY <1>2, StreamTypes
    <2>2. CASE n <= Queued(s)
      <3>1. n \in 1 .. Queued(s) /\ q[n] = byteq[s][n]
        BY <1>2, <2>1, <2>2
      <3> QED
        BY <3>1 DEF InOrder
    <2>3. CASE ~(n <= Queued(s))
      <3>1. n - Queued(s) \in 1 .. Len(bytes)
        BY <1>2, <2>1, <2>3
      <3>2. q[n] = Byte(s, Arrived(s) + (n - Queued(s)))
        BY <1>2, <2>3, <3>1
      <3>3. Arrived(s) + (n - Queued(s)) = Read(s) + n
        BY <2>1 DEF Arrived
      <3> QED
        BY <3>2, <3>3
    <2> QED
      BY <2>2, <2>3
  <1>4. ASSUME NEW r \in Sockets PROVE byteq'[r] = IF r = s THEN q ELSE byteq[r]
    BY <1>1, StreamTypes
  <1>5. ASSUME NEW r \in Sockets
        PROVE  Read(r)' = Read(r) /\ Queued(r)' = Queued(r) + (IF r = s THEN Len(bytes) ELSE 0)
    <2>1. Queued(r) \in Nat /\ Read(r)' = Read(r)
      BY StreamTypes DEF Read
    <2>2. Queued(r)' = IF r = s THEN Len(q) ELSE Queued(r)
      BY <1>4 DEF Queued
    <2> QED
      BY <1>2, <2>1, <2>2
  <1>6. ASSUME NEW r \in Sockets PROVE Arrived(r)' = Arrived(r) + (IF r = s THEN Len(bytes) ELSE 0)
    <2>1. Queued(r) \in Nat /\ Read(r) \in Nat
      BY StreamTypes
    <2> QED
      BY <1>2, <1>5, <2>1 DEF Arrived
  <1>7. Queued(s)' = Len(q)
    BY <1>2, <1>5
  <1>8. ASSUME NEW r \in Sockets
        PROVE  /\ \A n \in 1 .. Read(r)' : taken'[r][n] = Byte(r, n)
               /\ \A n \in 1 .. Queued(r)' : byteq'[r][n] = Byte(r, Read(r)' + n)
    <2>1. \A n \in 1 .. Read(r)' : taken'[r][n] = Byte(r, n)
      BY <1>5 DEF InOrder
    <2>2. CASE r = s
      BY <1>3, <1>4, <1>5, <1>7, <2>1, <2>2
    <2>3. CASE r # s
      <3>1. byteq'[r] = byteq[r] /\ Queued(r)' = Queued(r)
        BY <1>4, <2>3 DEF Queued
      <3> QED
        BY <1>5, <2>1, <3>1 DEF InOrder
    <2> QED
      BY <2>2, <2>3
  <1>9. InOrder'
    BY <1>8 DEF InOrder
  <1> QED
    BY <1>6, <1>9

LEMMA DrainStream ==
    ASSUME TypeOK, InOrder, AllOf(current), Drain, ~mishap', UNCHANGED <<emitted, taken>>
    PROVE  /\ ~mishap /\ InOrder' /\ sciq' = << >>
           /\ \A r \in Sockets : emitted'[r] = Arrived(r)'
  <1>1. /\ byteq' = Put(current, sciq) /\ sciq' = << >> /\ ~mishap /\ ~Overflows(current, sciq)
    BY DEF Drain
  <1>2. \A i \in 1 .. Len(sciq) : sciq[i] = Byte(current, Arrived(current) + i)
    BY StreamTypes DEF AllOf
  <1>3. InOrder' /\ \A r \in Sockets : Arrived(r)' = Arrived(r) + (IF r = current THEN Len(sciq) ELSE 0)
    BY <1>1, <1>2, StreamTypes, QueueGrows
  <1> QED
    BY <1>1, <1>3 DEF AllOf

\* With nothing in the UART's queue, AllOf says the same of every socket.
LEMMA NothingWaits ==
    ASSUME NEW s \in Sockets
    PROVE  /\ sciq = << >> /\ TypeOK => (AllOf(s) <=> \A r \in Sockets : emitted[r] = Arrived(r))
           /\ sciq' = << >> /\ TypeOK' => (AllOf(s)' <=> \A r \in Sockets : emitted'[r] = Arrived(r)')
  <1>1. ASSUME sciq = << >>, TypeOK PROVE AllOf(s) <=> \A r \in Sockets : emitted[r] = Arrived(r)
    <2>1. Len(sciq) = 0 /\ DOMAIN sciq = {} /\ \A r \in Sockets : Arrived(r) \in Nat
      BY <1>1, StreamTypes
    <2> QED
      BY <2>1 DEF AllOf
  <1>2. ASSUME sciq' = << >>, TypeOK' PROVE AllOf(s)' <=> \A r \in Sockets : emitted'[r] = Arrived(r)'
    <2>1. Len(sciq') = 0 /\ DOMAIN sciq' = {}
      BY <1>2
    <2>2. \A r \in Sockets : Arrived(r)' \in Nat
      <3>1. byteq' \in [Sockets -> Seq(Bytes)] /\ taken' \in [Sockets -> Seq(Bytes)]
        BY <1>2 DEF TypeOK, DataTypes
      <3>2. ASSUME NEW r \in Sockets PROVE Queued(r)' \in Nat /\ Read(r)' \in Nat
        BY <3>1 DEF Queued, Read
      <3> QED
        BY <3>2 DEF Arrived
    <2> QED
      BY <2>1, <2>2 DEF AllOf
  <1> QED
    BY <1>1, <1>2

\* Steps that move no byte.
LEMMA StreamFrame ==
    ASSUME UNCHANGED <<byteq, sciq, emitted, taken>>
    PROVE  /\ InOrder => InOrder'
           /\ \A s : Arrived(s)' = Arrived(s)
           /\ \A s : AllOf(s) => AllOf(s)'
  <1>1. \A s : Read(s)' = Read(s) /\ Queued(s)' = Queued(s)
    BY DEF Read, Queued
  <1>2. \A s : Arrived(s)' = Arrived(s)
    BY <1>1 DEF Arrived
  <1>3. InOrder => InOrder'
    BY <1>1 DEF InOrder
  <1>4. \A s : AllOf(s) => AllOf(s)'
    BY <1>2 DEF AllOf
  <1> QED
    BY <1>2, <1>3, <1>4

\* The first n bytes of a queue, and the others.
LEMMA PartsOfSequence ==
    ASSUME NEW q \in Seq(Bytes), NEW n \in Nat, n <= Len(q)
    PROVE  /\ SubSeq(q, 1, n) \in Seq(Bytes) /\ Len(SubSeq(q, 1, n)) = n
           /\ \A i \in 1 .. n : SubSeq(q, 1, n)[i] = q[i]
           /\ SubSeq(q, n + 1, Len(q)) \in Seq(Bytes) /\ Len(SubSeq(q, n + 1, Len(q))) = Len(q) - n
           /\ \A i \in 1 .. Len(q) - n : SubSeq(q, n + 1, Len(q))[i] = q[n + i]
  <1>0. Len(q) \in Nat
    OBVIOUS
  <1>1. (\A i \in 1 .. n : q[i] \in Bytes) /\ \A i \in (n + 1) .. Len(q) : q[i] \in Bytes
    BY <1>0, ElementOfSeq
  <1>2. SubSeq(q, 1, n) \in Seq(Bytes) /\ SubSeq(q, n + 1, Len(q)) \in Seq(Bytes)
    BY <1>0, <1>1, SubSeqProperties
  <1>3. Len(SubSeq(q, 1, n)) = n
    BY <1>0, <1>1, SubSeqProperties
  <1>4. Len(SubSeq(q, n + 1, Len(q))) = Len(q) - n
    BY <1>0, <1>1, SubSeqProperties
  <1>5. ASSUME NEW i \in 1 .. n PROVE SubSeq(q, 1, n)[i] = q[i]
    BY <1>0, <1>1, <1>2, <1>3, SubSeqProperties
  <1>6. ASSUME NEW i \in 1 .. Len(q) - n PROVE SubSeq(q, n + 1, Len(q))[i] = q[n + i]
    BY <1>0, <1>1, <1>2, <1>4, SubSeqProperties
  <1> QED
    BY <1>2, <1>3, <1>4, <1>5, <1>6

LEMMA StreamSwitch ==
    ASSUME TypeOK, TypeOK', CallInv, TurnInv, CountInv, BorderIsCounted, NEW t \in Tasks, Switches(t), ~mishap', ~mishap => StreamAt(t)
    PROVE  StreamAt(t)'
  <1> USE DEF At, Goto, lineVars
  <1>a. pc \in [Tasks -> Places] /\ loc \in [Tasks -> Locals] /\ current \in Sockets /\ current' \in Sockets
    BY DEF TypeOK, CallTypes, DriverTypes
  <1>b. CountOf(t) /\ BorderOf(t) /\ TurnOf(t)
    BY BorderIsOfEach DEF CountInv, TurnInv
  <1>1. CASE FirstCount(t) \/ Count(t) \/ Select(t)
    <2>1. UNCHANGED <<byteq, sciq, emitted, taken, mishap, current>> /\ pc[t] \in {"firstCount", "count", "select"}
          /\ (tmp' = tmp \/ tmp')
      BY <1>1 DEF FirstCount, Count, Select, dataVars
    <2>2. pc'[t] \in {"count", "idle", "drain", "fail", "selected"}
      BY <1>a, <1>1 DEF FirstCount, Count, Select, SwitchFails, Return
    <2>3. StreamAt(t) /\ InOrder' /\ AllOf(current)'
      BY <2>1, StreamFrame DEF StreamAt
    <2> QED
      BY <2>1, <2>2, <2>3 DEF StreamAt
  <1>2. CASE DrainBefore(t) \/ RetryWhenBusy(t) \/ CopyAfter(t) \/ Fail(t)
    <2>1. Drain /\ UNCHANGED <<emitted, taken, current>> /\ pc[t] \in {"drain", "busy", "copy", "fail"}
      BY <1>2 DEF DrainBefore, RetryWhenBusy, CopyAfter, Fail
    <2>2. pc'[t] \in {"count", "select", "switched", "idle"}
      BY <1>a, <1>2 DEF DrainBefore, RetryWhenBusy, CopyAfter, Fail, SwitchFails, Return
    <2>3. ~mishap
      BY <2>1 DEF Drain
    <2>4. InOrder' /\ sciq' = << >> /\ \A r \in Sockets : emitted'[r] = Arrived(r)'
      BY <2>1, <2>3, DrainStream DEF StreamAt
    <2>5. AllOf(current)'
      BY <1>a, <2>4, NothingWaits, <2>1
    <2> QED
      BY <2>2, <2>4, <2>5 DEF StreamAt
  <1>3. CASE Selected(t)
    <2>1. UNCHANGED <<byteq, sciq, emitted, taken, mishap, tmp>> /\ pc[t] = "selected"
      BY <1>3 DEF Selected, dataVars
    <2>2. StreamAt(t) /\ InOrder' /\ \A s : s = current => AllOf(s)'
      BY <2>1, StreamFrame DEF StreamAt
    <2>3. \/ pc'[t] = "recount" /\ loc'[t].before = current
          \/ pc'[t] \in {"busy", "fail"} /\ current' = current
      BY <1>a, <1>3 DEF Selected, Locals
    <2> QED
      BY <2>1, <2>2, <2>3 DEF StreamAt
  <1>4. CASE Recount(t)
    <2> DEFINE left == IF loc[t].stored THEN uncounted ELSE 0
    <2>0. ~mishap
      BY <1>4, Zenon DEF Recount
    <2>1. UNCHANGED <<byteq, sciq, emitted, taken, tmp, current>> /\ pc[t] = "recount" /\ ~mishap
      BY <1>4, <2>0 DEF Recount
    <2>2. StreamAt(t) /\ InOrder' /\ AllOf(loc[t].before) /\ loc[t].before \in Sockets
      BY <1>a, <2>1, StreamFrame DEF StreamAt, Locals
    <2>3. CASE pc'[t] \in {"fail", "copy"}
      <3>1. sciq = << >>
        <4>1. CASE pc'[t] = "fail"
          BY <1>a, <1>4, <4>1 DEF Recount
        <4>2. CASE pc'[t] = "copy"
          <5>1. ~(left > 0)
            BY <1>a, <1>4, <4>2 DEF Recount
          <5>2. uncounted = Len(sciq) /\ loc[t].stored = (sciq # << >>)
            BY <1>b, <2>1 DEF CountOf
          <5>3. ASSUME sciq # << >> PROVE FALSE
            <6>1. loc[t].stored
              BY <5>2, <5>3, Zenon
            <6>2. Len(sciq) > 0
              BY <5>3, StreamTypes
            <6> QED
              BY <5>1, <5>2, <6>1, <6>2
          <5> QED
            BY <5>3
        <4> QED
          BY <2>3, <4>1, <4>2
      <3>2. AllOf(current)
        BY <1>a, <2>2, <3>1, NothingWaits
      <3>3. AllOf(current)'
        BY <2>1, <3>2, StreamFrame
      <3> QED
        BY <2>1, <2>2, <2>3, <3>1, <3>3 DEF StreamAt
    <2>4. CASE pc'[t] = "split"
      <3>1. left > 0 /\ loc' = [loc EXCEPT ![t].left = left]
        BY <1>a, <1>4, <2>4 DEF Recount
      <3>2. left = Len(sciq)
        BY <1>b, <2>1, <3>1 DEF CountOf
      <3>3. loc'[t].left = left /\ loc'[t].before = loc[t].before
        BY <1>a, <3>1 DEF Locals
      <3>4. BothSidesOf(t)'
        <4>1. Len(sciq) \in Nat /\ DOMAIN sciq = 1 .. Len(sciq) /\ \A r \in Sockets : Arrived(r) \in Nat
          BY StreamTypes
        <4> HIDE DEF left
        <4>2. loc'[t].left <= Len(sciq')
          BY <2>1, <3>2, <3>3, <4>1
        <4>3. \A r \in Sockets : emitted'[r] = Arrived(r)' + (IF r = loc'[t].before THEN loc'[t].left
                                                          ELSE IF r = current' THEN Len(sciq') - loc'[t].left ELSE 0)
          BY <2>1, <2>2, <3>2, <3>3, <4>1, StreamFrame DEF AllOf
        <4>4. \A i \in DOMAIN sciq' : i <= loc'[t].left /\ sciq'[i] = Byte(loc'[t].before, Arrived(loc[t].before) + i)
          BY <2>1, <2>2, <3>2, <3>3, <4>1 DEF AllOf
        <4>5. Arrived(loc[t].before)' = Arrived(loc[t].before)
          BY <2>1, <3>3 DEF Arrived, Read, Queued
        <4> QED
          BY <4>2, <4>3, <4>4, <4>5 DEF BothSidesOf
      <3>5. sciq # << >>
        BY <3>1, <3>2, StreamTypes
      <3>6. tmp
        BY <2>2, <3>5 DEF StreamAt
      <3> QED
        BY <2>1, <2>2, <2>4, <3>4, <3>6 DEF StreamAt
    <2> QED
      BY <1>a, <1>4, <2>3, <2>4 DEF Recount
  <1>5. CASE Split(t)
    <2> DEFINE k == IF loc[t].left < Len(sciq) THEN loc[t].left ELSE Len(sciq)
    <2>1. /\ UNCHANGED <<emitted, taken, tmp, current>> /\ pc[t] = "split" /\ sciq # << >>
          /\ byteq' = Put(loc[t].before, SubSeq(sciq, 1, k)) /\ sciq' = SubSeq(sciq, k + 1, Len(sciq))
          /\ pc'[t] = IF k = loc[t].left THEN "copy" ELSE "split"
      BY <1>a, <1>5 DEF Split
    <2>2. ~mishap /\ ~Overflows(loc[t].before, SubSeq(sciq, 1, k))
      BY <1>5, Zenon DEF Split
    <2>3. PICK n \in Nat : n = loc[t].left
      BY <1>a DEF Locals
    <2>4. PICK old \in Sockets : old = loc[t].before
      BY <1>a DEF Locals
    <2>5. n <= Len(sciq) /\ Len(sciq) \in Nat
      BY <1>b, <2>1, <2>3, StreamTypes DEF BorderOf
    <2>6. k = n
      BY <2>3, <2>5
    <2> HIDE DEF k
    <2>7. /\ byteq' = Put(old, SubSeq(sciq, 1, n)) /\ sciq' = SubSeq(sciq, n + 1, Len(sciq)) /\ pc'[t] = "copy"
          /\ ~Overflows(old, SubSeq(sciq, 1, n))
      BY <2>1, <2>2, <2>3, <2>4, <2>6
    <2>8. old # current
      BY <1>b, <2>1, <2>4 DEF TurnOf
    <2>9. /\ InOrder /\ tmp
          /\ \A r \in Sockets :
                 emitted[r] = Arrived(r) + (IF r = old THEN n ELSE IF r = current THEN Len(sciq) - n ELSE 0)
          /\ \A i \in 1 .. Len(sciq) :
                 sciq[i] = IF i <= n THEN Byte(old, Arrived(old) + i) ELSE Byte(current, Arrived(current) + i - n)
      BY <2>1, <2>2, <2>3, <2>4, StreamTypes DEF StreamAt, BothSidesOf
    <2>10. /\ SubSeq(sciq, 1, n) \in Seq(Bytes) /\ Len(SubSeq(sciq, 1, n)) = n
           /\ \A i \in 1 .. n : SubSeq(sciq, 1, n)[i] = sciq[i]
           /\ Len(sciq') = Len(sciq) - n /\ \A i \in 1 .. Len(sciq) - n : sciq'[i] = sciq[n + i]
      BY <2>5, <2>7, StreamTypes, PartsOfSequence
    <2>11. \A i \in 1 .. n : SubSeq(sciq, 1, n)[i] = Byte(old, Arrived(old) + i)
      BY <2>5, <2>9, <2>10
    <2>12. InOrder' /\ \A r \in Sockets : Arrived(r)' = Arrived(r) + (IF r = old THEN n ELSE 0)
      BY <2>1, <2>7, <2>9, <2>10, <2>11, QueueGrows
    <2>13. AllOf(current)'
      <3>1. \A r \in Sockets : Arrived(r) \in Nat
        BY StreamTypes
      <3>2. ASSUME NEW r \in Sockets PROVE emitted'[r] = Arrived(r)' + (IF r = current THEN Len(sciq') ELSE 0)
        <4>1. emitted'[r] = Arrived(r) + (IF r = old THEN n ELSE IF r = current THEN Len(sciq) - n ELSE 0)
          BY <2>1, <2>9
        <4>2. Arrived(r)' = Arrived(r) + (IF r = old THEN n ELSE 0) /\ Arrived(r) \in Nat
          BY <2>12, <3>1
        <4> QED
          BY <2>8, <2>5, <2>10, <4>1, <4>2
      <3>3. \A i \in 1 .. Len(sciq') : sciq'[i] = Byte(current, Arrived(current) + i)
        <4> TAKE i \in 1 .. Len(sciq')
        <4>1. n + i \in 1 .. Len(sciq) /\ ~(n + i <= n) /\ (Arrived(current) + (n + i)) - n = Arrived(current) + i
          BY <1>a, <2>5, <2>10, <3>1
        <4>2. sciq'[i] = sciq[n + i]
          BY <2>10
        <4>3. sciq[n + i] = Byte(current, Arrived(current) + (n + i) - n)
          BY <2>9, <4>1
        <4> QED
          BY <4>1, <4>2, <4>3
      <3>4. Arrived(current') = Arrived(current) /\ Arrived(current)' = Arrived(current)
        BY <1>a, <2>1, <2>8, <2>12, <3>1
      <3>5. DOMAIN sciq' = 1 .. Len(sciq')
        BY DEF TypeOK, DataTypes
      <3> QED
        BY <2>1, <3>2, <3>3, <3>4, <3>5 DEF AllOf
    <2> QED
      BY <2>1, <2>7, <2>9, <2>12, <2>13 DEF StreamAt
  <1>6. CASE Switched(t)
    <2>1. UNCHANGED <<byteq, sciq, emitted, taken, mishap, current>> /\ pc[t] = "switched"
      BY <1>6 DEF Switched
    <2>2. pc'[t] = Work(op[t])
      BY <1>a, <1>6 DEF Switched, SwitchSucceeds
    <2>3. pc'[t] \notin Counting
      BY <2>1, <2>2 DEF Work, Counting, CallInv, CallOf, TypeOK, CallTypes, Closing
    <2>4. StreamAt(t) /\ InOrder' /\ AllOf(current)'
      BY <2>1, StreamFrame DEF StreamAt
    <2> QED
      BY <2>1, <2>3, <2>4 DEF StreamAt, Counting
  <1> QED
    BY <1>1, <1>2, <1>3, <1>4, <1>5, <1>6 DEF Switches

\* Outside of sx_ulpgn_change_socket_index: what is received goes from a queue to the caller, and a socket
\* that comes or goes has nothing to lose or takes everything with it.
LEMMA StreamWork ==
    ASSUME TypeOK, TypeOK', CallInv, TurnInv, LinkInv, NEW t \in Tasks, RecvByte(t) \/ Create(t) \/ Disconnect(t),
           InOrder, AllOf(current), sciq = << >>, ~mishap, ~mishap'
    PROVE  InOrder' /\ AllOf(current)' /\ sciq' = << >>
  <1> USE DEF At, lineVars
  <1>1. /\ sciq' = << >> /\ UNCHANGED current /\ pc[t] \in {"recv", "create", "disconnect"}
    BY DEF RecvByte, Create, Disconnect
  <1>2. current \in Sockets /\ sock[t] = current
    BY <1>1 DEF TypeOK, DriverTypes, TurnInv, TurnOf, Working
  <1>3. \A r \in Sockets : emitted[r] = Arrived(r)
    BY <1>2, NothingWaits
  <1>4. SUFFICES InOrder' /\ \A r \in Sockets : emitted'[r] = Arrived(r)'
    BY <1>1, <1>2, NothingWaits
  <1>5. CASE RecvByte(t)
    <2> DEFINE q == byteq[current]
    <2>1. /\ q \in Seq(Bytes) /\ taken[current] \in Seq(Bytes) /\ q # << >> /\ Queued(current) = Len(q) /\ Queued(current) \in Nat
          /\ Read(current) = Len(taken[current]) /\ Read(current) \in Nat
      BY <1>2, <1>5, StreamTypes DEF RecvByte, Queued, Read
    <2>2. /\ byteq' = [byteq EXCEPT ![current] = Tail(q)] /\ taken' = [taken EXCEPT ![current] = Append(@, Head(q))]
          /\ emitted' = emitted
      BY <1>2, <1>5 DEF RecvByte
    <2>3. /\ byteq'[current] = Tail(q) /\ taken'[current] = Append(taken[current], Head(q))
          /\ \A r \in Sockets \ {current} : byteq'[r] = byteq[r] /\ taken'[r] = taken[r]
      BY <1>2, <2>2, StreamTypes
    <2>4. /\ Len(Tail(q)) = Queued(current) - 1 /\ \A n \in 1 .. Queued(current) - 1 : Tail(q)[n] = q[n + 1]
          /\ Head(q) = q[1] /\ 1 \in 1 .. Queued(current)
      BY <2>1
    <2>5. /\ Len(taken'[current]) = Read(current) + 1 /\ taken'[current][Read(current) + 1] = Head(q)
          /\ \A n \in 1 .. Read(current) : taken'[current][n] = taken[current][n]
      <3>1. Head(q) \in Bytes
        BY <2>1
      <3> QED
        BY <2>1, <2>3, <3>1
    <2>6. Read(current)' = Read(current) + 1 /\ Queued(current)' = Queued(current) - 1
      BY <1>1, <2>3, <2>4, <2>5 DEF Read, Queued
    <2>7. \A r \in Sockets \ {current} : Read(r)' = Read(r) /\ Queued(r)' = Queued(r)
      BY <2>3 DEF Read, Queued
    <2>8. \A n \in 1 .. Read(current)' : taken'[current][n] = Byte(current, n)
      <3> TAKE n \in 1 .. Read(current)'
      <3>1. CASE n = Read(current) + 1
        <4>1. q[1] = Byte(current, Read(current) + 1)
          BY <1>2, <2>4 DEF InOrder
        <4> QED
          BY <2>4, <2>5, <3>1, <4>1
      <3>2. CASE n # Read(current) + 1
        <4>1. n \in 1 .. Read(current)
          BY <2>1, <2>6, <3>2
        <4> QED
          BY <1>2, <2>5, <4>1 DEF InOrder
      <3> QED
        BY <3>1, <3>2
    <2>9. \A n \in 1 .. Queued(current)' : byteq'[current][n] = Byte(current, Read(current)' + n)
      <3> TAKE n \in 1 .. Queued(current)'
      <3>1. n + 1 \in 1 .. Queued(current) /\ Read(current)' + n = Read(current) + (n + 1) /\ n \in 1 .. Queued(current) - 1
        BY <2>1, <2>6
      <3>2. q[n + 1] = Byte(current, Read(current) + (n + 1))
        BY <1>2, <3>1 DEF InOrder
      <3> QED
        BY <2>3, <2>4, <3>1, <3>2
    <2>10. InOrder'
      <3> SUFFICES ASSUME NEW r \in Sockets
                   PROVE  /\ \A n \in 1 .. Read(r)' : taken'[r][n] = Byte(r, n)
                          /\ \A n \in 1 .. Queued(r)' : byteq'[r][n] = Byte(r, Read(r)' + n)
        BY DEF InOrder
      <3>1. CASE r = current
        BY <2>8, <2>9, <3>1, <1>1 DEF Read, Queued
      <3>2. CASE r # current
        BY <2>3, <2>7, <3>2 DEF InOrder
      <3> QED
        BY <3>1, <3>2
    <2>11. ASSUME NEW r \in Sockets PROVE emitted'[r] = Arrived(r)'
      <3>1. Arrived(r)' = Arrived(r)
        <4>1. CASE r = current
          <5>1. Read(r)' = Read(r) + 1 /\ Queued(r)' = Queued(r) - 1 /\ Read(r) \in Nat /\ Queued(r) \in Nat
            BY <1>1, <2>1, <2>6, <4>1 DEF Read, Queued
          <5> QED
            BY <5>1 DEF Arrived
        <4>2. CASE r # current
          BY <2>7, <4>2 DEF Arrived
        <4> QED
          BY <4>1, <4>2
      <3> QED
        BY <1>3, <2>2, <3>1
    <2> QED
      BY <2>10, <2>11
  <1>6. CASE Create(t)
    <2>1. UNCHANGED <<emitted, taken>> /\ (byteq' = byteq \/ byteq' = [byteq EXCEPT ![current] = << >>])
      BY <1>2, <1>6 DEF Create
    <2>2. pc[t] = "create"
      BY <1>6 DEF Create
    <2>3. ~created[current]
      BY <1>2, <2>2 DEF CallInv, CallOf, LinkInv, LinkOf
    <2>4. Queued(current) = 0
      <3>1. emitted[current] = 0
        BY <1>2, <2>3 DEF LinkInv
      <3>2. Queued(current) \in Nat /\ Read(current) \in Nat /\ Read(current) + Queued(current) = 0
        BY <1>2, <1>3, <3>1, StreamTypes DEF Arrived
      <3> QED
        BY <3>2
    <2>5. byteq[current] = << >>
      BY <1>2, <2>4, StreamTypes, EmptySeq DEF Queued
    <2>6. byteq' = byteq
      BY <2>1, <2>5, StreamTypes
    <2> QED
      BY <1>1, <1>3, <2>1, <2>6, StreamFrame
  <1>7. CASE Disconnect(t)
    <2>1. CASE UNCHANGED <<byteq, emitted, taken>>
      BY <1>1, <1>3, <2>1, StreamFrame
    <2>2. CASE ~UNCHANGED <<byteq, emitted, taken>>
      <3>1. /\ byteq' = [byteq EXCEPT ![current] = << >>] /\ emitted' = [emitted EXCEPT ![current] = 0]
            /\ taken' = [taken EXCEPT ![current] = << >>]
        BY <1>2, <1>7, <2>2 DEF Disconnect, Forget, Strays
      <3>2. /\ byteq'[current] = << >> /\ taken'[current] = << >> /\ emitted'[current] = 0
            /\ \A r \in Sockets \ {current} : byteq'[r] = byteq[r] /\ taken'[r] = taken[r] /\ emitted'[r] = emitted[r]
        BY <1>2, <3>1, StreamTypes
      <3>3. ASSUME NEW r \in Sockets
            PROVE  /\ r = current => Read(r)' = 0 /\ Queued(r)' = 0
                   /\ r # current => Read(r)' = Read(r) /\ Queued(r)' = Queued(r)
        BY <3>2 DEF Read, Queued
      <3>4. ASSUME NEW r \in Sockets
            PROVE  /\ \A n \in 1 .. Read(r)' : taken'[r][n] = Byte(r, n)
                   /\ \A n \in 1 .. Queued(r)' : byteq'[r][n] = Byte(r, Read(r)' + n)
                   /\ emitted'[r] = Arrived(r)'
        <4>1. CASE r = current
          BY <3>2, <3>3, <4>1 DEF Arrived
        <4>2. CASE r # current
          BY <1>3, <3>2, <3>3, <4>2 DEF InOrder, Arrived
        <4> QED
          BY <4>1, <4>2
      <3> QED
        BY <3>4 DEF InOrder
    <2> QED
      BY <2>1, <2>2
  <1> QED
    BY <1>5, <1>6, <1>7

LEMMA StreamStep ==
    ASSUME TypeOK, TypeOK', MutexInv, CallInv, TurnInv, LineInv, LinkInv, CountInv, BorderIsCounted, StreamInv,
           NEW t \in Tasks, Calls(t) \/ TaskSteps(t), Apart(t)
    PROVE  StreamInv'
  <1>1. CASE pc[t] \in Switching
    <2>1. \A u \in Tasks \ {t} : pc[u] \notin Counting /\ pc'[u] \notin Counting
      BY <1>1, HolderIsAlone DEF WithTx, WithRx, Switching, Apart
    <2>2. Switches(t)
      BY <1>1, OnlySwitches
    <2>3. ~mishap => StreamAt(t)
      BY <2>1, StreamOfOne
    <2>4. ~mishap' => StreamAt(t)'
      BY <2>2, <2>3, StreamSwitch
    <2> QED
      BY <2>1, <2>4, StreamOfOne
  <1>2. CASE pc[t] \notin Switching
    <2>1. UNCHANGED <<sciq, current, tmp>>
      BY <1>2, QueueFrame DEF lineVars
    <2>2. pc'[t] \notin Counting /\ pc[t] \notin Counting
      BY <1>2, EntersAtFirstCount DEF Switching
    <2>3. \A u \in Tasks \ {t} : pc'[u] = pc[u] /\ loc'[u] = loc[u]
      BY DEF Apart
    <2>4. CASE RecvByte(t) \/ Create(t) \/ Disconnect(t)
      <3>1. pc[t] \in WithRx
        BY <2>4 DEF RecvByte, Create, Disconnect, At, WithRx, Working
      <3>2. \A u \in Tasks : pc[u] \notin Counting /\ pc'[u] \notin Counting
        BY <2>2, <2>3, <3>1 DEF MutexInv, MutexOf, WithRx, Switching
      <3>3. ~tmp
        BY <3>2 DEF LineInv
      <3>4. ASSUME ~mishap' PROVE InOrder' /\ AllOf(current)' /\ sciq' = << >>
        <4>0. ~mishap
          BY <3>4, MishapStays
        <4>1. InOrder /\ AllOf(current) /\ sciq = << >>
          BY <3>2, <3>3, <4>0 DEF StreamInv, Counting
        <4> QED
          BY <2>4, <3>4, <4>0, <4>1, StreamWork
      <3> QED
        BY <3>2, <3>4 DEF StreamInv, Counting
    <2>5. CASE ~(RecvByte(t) \/ Create(t) \/ Disconnect(t))
      <3>1. UNCHANGED <<byteq, emitted, taken>>
        <4>1. CASE CallSteps(t)
          BY <4>1, CallStepsFrame DEF dataVars
        <4>2. CASE Connect(t)
          BY <4>2 DEF Connect, dataVars
        <4> QED
          BY <1>2, <2>5, <4>1, <4>2, SwitchFrame DEF CallSteps, TaskSteps, Takes, Works
      <3>2. ASSUME ~mishap' PROVE StreamInv'
        <4>0. ~mishap
          BY <3>2, MishapStays
        <4>1. InOrder'
          BY <2>1, <3>1, <4>0, StreamFrame DEF StreamInv
        <4>2. ASSUME NEW u \in Tasks
              PROVE  /\ pc'[u] = "switched" => sciq' = << >>
                     /\ pc'[u] = "split" => BothSidesOf(u)'
                     /\ pc'[u] = "recount" => AllOf(loc[u].before)'
          <5>1. CASE u = t
            BY <2>2, <5>1 DEF Counting
          <5>2. CASE u # t
            <6>1. pc[u] = "split" => BothSidesOf(u)
              BY <3>1, <4>0 DEF StreamInv
            <6>2. pc'[u] = "split" => BothSidesOf(u)'
              BY <2>1, <2>3, <3>1, <5>2, <6>1, StreamFrame DEF BothSidesOf, Arrived, Read, Queued
            <6>3. pc'[u] = "recount" => AllOf(loc[u].before)'
              BY <2>1, <2>3, <3>1, <4>0, <5>2, StreamFrame DEF StreamInv
            <6> QED
              BY <2>1, <2>3, <3>1, <4>0, <5>2, <6>2, <6>3 DEF StreamInv
          <5> QED
            BY <5>1, <5>2
        <4>3. (\A u \in Tasks : pc'[u] \notin {"recount", "split"}) => AllOf(current)'
          BY <2>1, <2>2, <2>3, <3>1, <4>0, StreamFrame DEF StreamInv, Counting
        <4> QED
          BY <2>1, <3>1, <4>0, <4>1, <4>2, <4>3 DEF StreamInv
      <3> QED
        BY <3>2 DEF StreamInv
    <2> QED
      BY <2>4, <2>5
  <1> QED
    BY <1>1, <1>2

LEMMA StreamSend ==
    ASSUME TypeOK, TypeOK', MutexInv, TurnInv, LineInv, LinkInv, CountInv, BorderIsCounted, StreamInv, ModuleSends
    PROVE  StreamInv'
  <1> SUFFICES ASSUME ~mishap' PROVE StreamInv'
    BY DEF StreamInv
  <1>0. selected = current
    BY SendEffect, Zenon DEF Receive
  <1>1. /\ UNCHANGED <<pc, loc, current, tmp, taken>> /\ ~rts /\ ~mishap /\ selected = current /\ current \in Sockets
        /\ created[current]
    BY <1>0, SendFrame DEF ModuleSends, LinkInv, TypeOK, DriverTypes
  <1>2. /\ Receive(NextByte) /\ emitted' = [emitted EXCEPT ![current] = emitted[current] + 1]
        /\ NextByte = Byte(current, emitted[current] + 1) /\ NextByte \in Bytes
    BY <1>1, SendEffect DEF NextByte
  <1>3. emitted'[current] = emitted[current] + 1 /\ \A r \in Sockets \ {current} : emitted'[r] = emitted[r]
    BY <1>1, <1>2, StreamTypes
  <1>4. \A t \in Tasks : pc[t] # "recount"
    BY <1>1 DEF LineInv
  <1>5. InOrder /\ (~tmp => sciq = << >>)
    BY <1>1 DEF StreamInv
  <1>6. CASE ~tmp
    <2>1. /\ sciq = << >> /\ sciq' = << >> /\ byteq' = Put(current, <<NextByte>>) /\ ~Overflows(current, <<NextByte>>)
      BY <1>1, <1>2, <1>5, <1>6 DEF Receive
    <2>2. \A t \in Tasks : pc[t] \notin Counting
      BY <1>6 DEF LineInv
    <2>3. \A r \in Sockets : emitted[r] = Arrived(r)
      BY <1>1, <2>1, <2>2, NothingWaits DEF StreamInv, Counting
    <2>4. /\ <<NextByte>> \in Seq(Bytes) /\ Len(<<NextByte>>) = 1
          /\ \A i \in 1 .. Len(<<NextByte>>) : <<NextByte>>[i] = Byte(current, Arrived(current) + i)
      BY <1>1, <1>2, <2>3
    <2>5. InOrder' /\ \A r \in Sockets : Arrived(r)' = Arrived(r) + (IF r = current THEN 1 ELSE 0)
      BY <1>1, <1>5, <2>1, <2>4, QueueGrows
    <2>6. ASSUME NEW r \in Sockets PROVE emitted'[r] = Arrived(r)'
      <3>1. emitted'[r] = emitted[r] + (IF r = current THEN 1 ELSE 0)
        <4>1. emitted[r] \in Nat
          BY StreamTypes
        <4> QED
          BY <1>3, <4>1
      <3> QED
        BY <2>3, <2>5, <3>1
    <2>7. AllOf(current)'
      BY <1>1, <2>1, <2>6, NothingWaits
    <2> QED
      BY <1>1, <2>1, <2>2, <2>5, <2>7 DEF StreamInv, Counting
  <1>7. CASE tmp
    <2>1. sciq' = Append(sciq, NextByte) /\ byteq' = byteq /\ ~(\E t \in Tasks : At(t, "switched"))
      BY <1>1, <1>2, <1>7 DEF Receive
    <2>2. /\ Len(sciq') = Len(sciq) + 1 /\ DOMAIN sciq' = 1 .. Len(sciq) + 1 /\ DOMAIN sciq = 1 .. Len(sciq) /\ Len(sciq) \in Nat
          /\ \A i \in 1 .. Len(sciq) : sciq'[i] = sciq[i]
          /\ sciq'[Len(sciq) + 1] = NextByte
      BY <1>2, <2>1, StreamTypes
    <2>3. (\A r \in Sockets : Arrived(r)' = Arrived(r) /\ Arrived(r) \in Nat) /\ InOrder'
      BY <1>1, <1>5, <2>1, StreamTypes DEF Arrived, Read, Queued, InOrder
    <2>4. ASSUME NEW t \in Tasks, pc[t] = "split" PROVE BothSidesOf(t)'
      <3>1. PICK n \in Nat : n = loc[t].left
        BY DEF TypeOK, CallTypes, Locals
      <3>2. PICK old \in Sockets : old = loc[t].before
        BY DEF TypeOK, CallTypes, Locals
      <3>3. old # current
        BY <2>4, <3>2 DEF TurnInv, TurnOf
      <3>4. /\ n <= Len(sciq)
            /\ \A r \in Sockets :
                   emitted[r] = Arrived(r) + (IF r = old THEN n ELSE IF r = current THEN Len(sciq) - n ELSE 0)
            /\ \A i \in 1 .. Len(sciq) :
                   sciq[i] = IF i <= n THEN Byte(old, Arrived(old) + i) ELSE Byte(current, Arrived(current) + i - n)
        BY <1>1, <2>2, <2>4, <3>1, <3>2 DEF StreamInv, BothSidesOf
      <3>5. n <= Len(sciq')
        BY <2>2, <3>4
      <3>6. ASSUME NEW r \in Sockets
            PROVE  emitted'[r] = Arrived(r)' + (IF r = old THEN n ELSE IF r = current THEN Len(sciq') - n ELSE 0)
        BY <1>3, <2>2, <2>3, <3>3, <3>4
      <3>7. ASSUME NEW i \in 1 .. Len(sciq) + 1
            PROVE  sciq'[i] = IF i <= n THEN Byte(old, Arrived(old) + i) ELSE Byte(current, Arrived(current) + i - n)
        <4>1. CASE i \in 1 .. Len(sciq)
          BY <2>2, <3>4, <4>1
        <4>2. CASE i = Len(sciq) + 1
          <5>1. emitted[current] + 1 = Arrived(current) + i - n
            BY <1>1, <2>2, <2>3, <3>3, <3>4, <4>2
          <5>2. ~(i <= n)
            BY <2>2, <3>4, <4>2
          <5> QED
            BY <1>2, <2>2, <4>2, <5>1, <5>2
        <4> QED
          BY <2>2, <4>1, <4>2
      <3>8. Arrived(old)' = Arrived(old) /\ Arrived(current)' = Arrived(current) /\ loc'[t].left = n /\ loc'[t].before = old
        BY <1>1, <2>1, <2>3, <3>1, <3>2 DEF Arrived, Read, Queued
      <3> QED
        BY <1>1, <2>2, <3>5, <3>6, <3>7, <3>8, <3>2, <2>1 DEF BothSidesOf, Arrived, Read, Queued
    <2>5. ASSUME \A t \in Tasks : pc[t] \notin {"recount", "split"} PROVE AllOf(current)'
      <3>1. AllOf(current)
        BY <1>1, <2>5 DEF StreamInv
      <3>2. ASSUME NEW r \in Sockets PROVE emitted'[r] = Arrived(r)' + (IF r = current THEN Len(sciq') ELSE 0)
        BY <1>3, <2>2, <2>3, <3>1 DEF AllOf
      <3>3. ASSUME NEW i \in 1 .. Len(sciq) + 1 PROVE sciq'[i] = Byte(current, Arrived(current) + i)
        <4>1. emitted[current] = Arrived(current) + Len(sciq)
          BY <1>1, <3>1 DEF AllOf
        <4>2. CASE i = Len(sciq) + 1
          <5>1. emitted[current] + 1 = Arrived(current) + i
            BY <1>1, <2>2, <2>3, <4>1, <4>2
          <5> QED
            BY <1>2, <2>2, <4>2, <5>1
        <4>3. CASE i # Len(sciq) + 1
          <5>1. i \in DOMAIN sciq /\ i \in 1 .. Len(sciq)
            BY <2>2, <4>3
          <5> QED
            BY <2>2, <3>1, <5>1 DEF AllOf
        <4> QED
          BY <4>2, <4>3
      <3> QED
        BY <1>1, <2>1, <2>2, <3>2, <3>3 DEF AllOf, Arrived, Read, Queued
    <2> QED
      BY <1>1, <1>4, <1>7, <2>1, <2>3, <2>4, <2>5 DEF StreamInv, At
  <1> QED
    BY <1>6, <1>7

-----------------------------------------------------------------------------
(* The inductive invariant.                                                 *)

LEMMA InvInit == Init => IInv
  <1> SUFFICES ASSUME Init PROVE IInv
    OBVIOUS
  <1>1. TypeOK
    BY TypeInit
  <1>2. MutexInv /\ CallInv /\ TurnInv /\ LineInv
    BY TasksAssumption DEF Init, MutexInv, MutexOf, CallInv, CallOf, TurnInv, TurnOf, LineInv, WithTx, WithRx,
       Working,
       Switching, Counting
  <1>3. LinkInv
    BY DEF Init, LinkInv, LinkOf, Switching, Counting
  <1>4. CountInv /\ BorderIsCounted
    BY DEF Init, CountInv, CountOf, BorderIsCounted, At
  <1>5. StreamInv
    <2>1. sciq = << >> /\ (\A t \in Tasks : pc[t] = "idle") /\ current \in Sockets
      BY SocketsAreNumbers DEF Init
    <2>2. \A s \in Sockets : taken[s] = << >> /\ byteq[s] = << >> /\ emitted[s] = 0
      BY DEF Init
    <2>3. \A s \in Sockets : Read(s) = 0 /\ Queued(s) = 0
      BY <2>2 DEF Read, Queued
    <2>4. InOrder
      BY <2>3 DEF InOrder
    <2>5. \A s \in Sockets : emitted[s] = Arrived(s)
      BY <2>2, <2>3 DEF Arrived
    <2>6. AllOf(current)
      BY <1>1, <2>1, <2>5, NothingWaits
    <2> QED
      BY <2>1, <2>4, <2>6 DEF StreamInv
  <1> QED
    BY <1>1, <1>2, <1>3, <1>4, <1>5 DEF IInv

LEMMA InvStep == IInv /\ [Next]_vars => IInv'
  <1> SUFFICES ASSUME IInv, [Next]_vars PROVE IInv'
    OBVIOUS
  <1>a. TypeOK /\ MutexInv /\ CallInv /\ TurnInv /\ LineInv /\ LinkInv /\ CountInv /\ BorderIsCounted /\ StreamInv
    BY DEF IInv
  <1>b. TypeOK'
    BY <1>a, TypeStep
  <1>1. CASE ModuleSends
    <2>1. MutexInv' /\ CallInv' /\ TurnInv' /\ LineInv' /\ LinkInv'
      BY <1>a, <1>1, ControlSend
    <2>2. CountInv' /\ BorderIsCounted'
      BY <1>a, <1>1, CountSend
    <2>3. StreamInv'
      BY <1>a, <1>b, <1>1, StreamSend
    <2> QED
      BY <1>b, <2>1, <2>2, <2>3 DEF IInv
  <1>2. ASSUME NEW t \in Tasks, Calls(t) \/ TaskSteps(t) PROVE IInv'
    <2>1. Apart(t)
      BY <1>a, <1>2, ControlStep
    <2>2. MutexInv' /\ CallInv' /\ TurnInv'
      BY <1>a, <1>2, ControlStepAll
    <2>3. LineInv' /\ LinkInv'
      BY <1>a, <1>2, <2>1, <2>2, LineStep, LinkStep
    <2>4. CountInv' /\ BorderIsCounted'
      BY <1>a, <1>2, <2>1, CountStep
    <2>5. StreamInv'
      BY <1>a, <1>b, <1>2, <2>1, StreamStep
    <2> QED
      BY <1>b, <2>2, <2>3, <2>4, <2>5 DEF IInv
  <1>3. CASE UNCHANGED vars
    <2>1. /\ UNCHANGED <<pc, op, sock, stage, loc, uc, tx, rx, current, tmp, rts, created, status>>
          /\ UNCHANGED <<byteq, sciq, uncounted, emitted, taken, mishap, selected, linked, flag, unsure>>
      BY <1>3 DEF vars, callVars, lineVars, sockVars, dataVars, modVars
    <2>2. MutexInv' /\ CallInv' /\ TurnInv' /\ LineInv' /\ LinkInv' /\ CountInv' /\ BorderIsCounted'
      BY <1>a, <2>1 DEF MutexInv, MutexOf, CallInv, CallOf, TurnInv, TurnOf, LineInv, LinkInv, LinkOf, CountInv,
         CountOf,
         BorderIsCounted, At
    <2>3. StreamInv'
      BY <1>a, <2>1 DEF StreamInv, InOrder, BothSidesOf, AllOf, Arrived, Read, Queued
    <2> QED
      BY <1>b, <2>2, <2>3 DEF IInv
  <1> QED
    BY <1>1, <1>2, <1>3 DEF Next

THEOREM Invariance == Spec => []IInv
  BY InvInit, InvStep, PTL DEF Spec

\* Every variable keeps its type, and no socket's queue outgrows its buffer.
THEOREM TypeCorrect == Spec => []TypeOK
  <1>1. IInv => TypeOK
    BY DEF IInv
  <1> QED
    BY <1>1, Invariance, PTL

\* All commands are given with the mutex for receiving held, which only one task has.
THEOREM CommandsAreExclusive == Spec => []OneCommandAtATime
  <1>1. IInv => OneCommandAtATime
    BY DEF IInv, MutexInv, MutexOf, OneCommandAtATime, Commands, WithRx, Switching, Counting, Working
  <1> QED
    BY <1>1, Invariance, PTL

\* Neither of two tasks of which one sends and the other receives can change the socket under the other.
THEOREM TurnsAreKept == Spec => []UsesItsOwnSocket
  <1>1. IInv => UsesItsOwnSocket
    BY DEF IInv, TurnInv, TurnOf, UsesItsOwnSocket, Working
  <1> QED
    BY <1>1, Invariance, PTL

\* A call that returns, on whatever path, leaves no mutex taken and no interrupt diverted, and no module stopped
\* unless a selection of a socket has ever been left unsent.
THEOREM CallsCleanUp == Spec => []NothingIsLeftBehind
  <1>1. IInv => NothingIsLeftBehind
    <2> SUFFICES ASSUME IInv PROVE NothingIsLeftBehind
      OBVIOUS
    <2>1. ASSUME NEW t \in Tasks, pc[t] = "idle" PROVE t \notin {uc, tx, rx}
      BY <2>1 DEF IInv, MutexInv, MutexOf, CallInv, CallOf, WithTx, WithRx, Working, Switching, Counting
    <2>2. ASSUME rx = NoTask PROVE ~tmp /\ (rts => flag)
      <3>1. \A t \in Tasks : pc[t] \notin WithRx
        BY <2>2, TasksAssumption DEF IInv, MutexInv, MutexOf
      <3> QED
        BY <3>1 DEF IInv, LineInv, Stopping, WithRx, Switching, Counting
    <2> QED
      BY <2>1, <2>2 DEF NothingIsLeftBehind, At
  <1> QED
    BY <1>1, Invariance, PTL

\* The counter of the module, read twice, gives the number of the old socket's bytes.
THEOREM BorderIsKnown == Spec => []BorderIsCounted
  <1>1. IInv => BorderIsCounted
    BY DEF IInv
  <1> QED
    BY <1>1, Invariance, PTL

\* The bytes of s in the UART's queue are those behind first up to last, numbered on from the ones that have left it.
RunsFromTo(s, first, last) ==
    /\ first <= last /\ last <= Len(sciq) /\ emitted[s] = Arrived(s) + (last - first)
    /\ \A i \in 1 .. Len(sciq) :
           /\ i > first /\ i <= last => sciq[i] = Byte(s, Arrived(s) + (i - first))
           /\ ~(i > first /\ i <= last) => sciq[i][1] # s

\* The property says of every socket's bytes in the UART's queue what the invariant says of the queue.
LEMMA IntactFromInv == IInv => StreamIsIntact
  <1> SUFFICES ASSUME IInv, ~mishap, NEW s \in Sockets
               PROVE  LET arrived == taken[s] \o byteq[s]
                          waiting == {i \in DOMAIN sciq : sciq[i][1] = s}
                      IN  /\ \A n \in DOMAIN arrived : arrived[n] = Byte(s, n)
                          /\ {sciq[i][2] : i \in waiting} = (Len(arrived) + 1) .. emitted[s]
                          /\ \A i, j \in waiting : i < j => sciq[i][2] < sciq[j][2]
                          /\ Len(arrived) <= emitted[s]
    BY DEF StreamIsIntact
  <1> DEFINE arrived == taken[s] \o byteq[s]
             waiting == {i \in DOMAIN sciq : sciq[i][1] = s}
  <1>a. TypeOK /\ StreamInv /\ InOrder
    BY DEF IInv, StreamInv
  <1>b. /\ DOMAIN sciq = 1 .. Len(sciq) /\ Len(sciq) \in Nat /\ Arrived(s) \in Nat /\ Read(s) \in Nat /\ Queued(s) \in Nat
        /\ emitted[s] \in Nat
    BY <1>a, StreamTypes
  <1>1. Len(arrived) = Arrived(s) /\ DOMAIN arrived = 1 .. Arrived(s)
        /\ \A n \in 1 .. Arrived(s) : arrived[n] = IF n <= Read(s) THEN taken[s][n] ELSE byteq[s][n - Read(s)]
    BY <1>a, StreamTypes DEF Arrived, Read, Queued
  <1> HIDE DEF arrived
  <1>2. ASSUME NEW n \in 1 .. Arrived(s) PROVE arrived[n] = Byte(s, n)
    <2>1. CASE n <= Read(s)
      <3>1. n \in 1 .. Read(s) /\ arrived[n] = taken[s][n]
        BY <1>b, <1>1, <2>1
      <3> QED
        BY <1>a, <3>1 DEF InOrder
    <2>2. CASE ~(n <= Read(s))
      <3>1. n - Read(s) \in 1 .. Queued(s) /\ Read(s) + (n - Read(s)) = n
        BY <1>b, <2>2 DEF Arrived
      <3> QED
        BY <1>a, <1>1, <2>2, <3>1 DEF InOrder
    <2> QED
      BY <2>1, <2>2
  <1>3. ASSUME NEW first \in Nat, NEW last \in Nat,
               RunsFromTo(s, first, last)
        PROVE  /\ {sciq[i][2] : i \in waiting} = (Arrived(s) + 1) .. emitted[s]
               /\ \A i, j \in waiting : i < j => sciq[i][2] < sciq[j][2]
               /\ Arrived(s) <= emitted[s]
    <2>0. ASSUME NEW i \in 1 .. Len(sciq)
          PROVE  /\ i > first /\ i <= last => sciq[i][1] = s /\ sciq[i][2] = Arrived(s) + (i - first)
                 /\ ~(i > first /\ i <= last) => sciq[i][1] # s
      <3>1. CASE i > first /\ i <= last
        <4>0. \A k \in 1 .. Len(sciq) : k > first /\ k <= last => sciq[k] = Byte(s, Arrived(s) + (k - first))
          BY <1>3, Zenon DEF RunsFromTo
        <4>1. sciq[i] = Byte(s, Arrived(s) + (i - first))
          BY <3>1, <4>0, Zenon
        <4> QED
          BY <3>1, <4>1 DEF Byte
      <3>2. CASE ~(i > first /\ i <= last)
        BY <1>3, <3>2 DEF RunsFromTo
      <3> QED
        BY <3>1, <3>2
    <2>1. \A i : i \in waiting <=> i \in 1 .. Len(sciq) /\ i > first /\ i <= last
      BY <1>b, <2>0
    <2>2. \A i \in waiting : i \in 1 .. Len(sciq) /\ sciq[i][2] = Arrived(s) + (i - first) /\ i > first /\ i <= last
      BY <2>0, <2>1
    <2> HIDE DEF waiting
    <2>3. ASSUME NEW i \in waiting PROVE sciq[i][2] \in (Arrived(s) + 1) .. emitted[s]
      BY <1>b, <1>3, <2>2 DEF RunsFromTo
    <2>4. ASSUME NEW n \in (Arrived(s) + 1) .. emitted[s] PROVE \E i \in waiting : sciq[i][2] = n
      <3>1. first + (n - Arrived(s)) \in 1 .. Len(sciq) /\ first + (n - Arrived(s)) > first /\ first + (n - Arrived(s)) <= last
        BY <1>b, <1>3 DEF RunsFromTo
      <3>2. first + (n - Arrived(s)) \in waiting
        BY <2>1, <3>1
      <3>3. sciq[first + (n - Arrived(s))][2] = n
        BY <1>b, <2>2, <3>2
      <3> QED
        BY <3>2, <3>3
    <2>5. ASSUME NEW i \in waiting, NEW j \in waiting, i < j PROVE sciq[i][2] < sciq[j][2]
      BY <1>b, <2>2, <2>5
    <2>6. {sciq[i][2] : i \in waiting} = (Arrived(s) + 1) .. emitted[s]
      BY <2>3, <2>4
    <2> QED
      BY <1>b, <1>3, <2>5, <2>6 DEF RunsFromTo
  <1>4. /\ {sciq[i][2] : i \in waiting} = (Arrived(s) + 1) .. emitted[s]
        /\ \A i, j \in waiting : i < j => sciq[i][2] < sciq[j][2]
        /\ Arrived(s) <= emitted[s]
    <2>1. ASSUME NEW old \in Sockets, AllOf(old)
          PROVE  \E first, last \in Nat : RunsFromTo(s, first, last)
      <3>1. CASE s = old
        <4>1. 0 <= Len(sciq) /\ emitted[s] = Arrived(s) + (Len(sciq) - 0)
          BY <1>b, <2>1, <3>1 DEF AllOf
        <4>2. \A i \in 1 .. Len(sciq) : sciq[i] = Byte(s, Arrived(s) + (i - 0)) /\ i > 0 /\ i <= Len(sciq)
          BY <1>b, <2>1, <3>1 DEF AllOf
        <4>3. RunsFromTo(s, 0, Len(sciq))
          BY <1>b, <4>1, <4>2 DEF RunsFromTo
        <4> QED
          BY <1>b, <4>3
      <3>2. CASE s # old
        <4>1. emitted[s] = Arrived(s) + (0 - 0) /\ 0 <= Len(sciq)
          BY <1>b, <2>1, <3>2 DEF AllOf
        <4>2. \A i \in 1 .. Len(sciq) : sciq[i][1] # s /\ ~(i <= 0)
          BY <1>b, <2>1, <3>2 DEF AllOf, Byte
        <4>3. RunsFromTo(s, 0, 0)
          BY <1>b, <4>1, <4>2 DEF RunsFromTo
        <4> QED
          BY <4>3
      <3> QED
        BY <3>1, <3>2
    <2>2. ASSUME NEW t \in Tasks, pc[t] = "split"
          PROVE  \E first, last \in Nat : RunsFromTo(s, first, last)
      <3>1. PICK n \in Nat : n = loc[t].left
        BY <1>a DEF TypeOK, CallTypes, Locals
      <3>2. PICK old \in Sockets : old = loc[t].before
        BY <1>a DEF TypeOK, CallTypes, Locals
      <3>3. old # current
        BY <2>2, <3>2 DEF IInv, TurnInv, TurnOf
      <3>4. /\ n <= Len(sciq)
            /\ emitted[s] = Arrived(s) + (IF s = old THEN n ELSE IF s = current THEN Len(sciq) - n ELSE 0)
            /\ \A i \in 1 .. Len(sciq) :
                   sciq[i] = IF i <= n THEN Byte(old, Arrived(old) + i) ELSE Byte(current, Arrived(current) + i - n)
        BY <1>a, <1>b, <2>2, <3>1, <3>2 DEF StreamInv, BothSidesOf
      <3>5. CASE s = old
        <4>1. 0 <= n /\ emitted[s] = Arrived(s) + (n - 0)
          BY <1>b, <3>4, <3>5
        <4>2. ASSUME NEW i \in 1 .. Len(sciq)
              PROVE  /\ i > 0 /\ i <= n => sciq[i] = Byte(s, Arrived(s) + (i - 0))
                     /\ ~(i > 0 /\ i <= n) => sciq[i][1] # s
          BY <1>b, <3>3, <3>4, <3>5 DEF Byte
        <4>3. RunsFromTo(s, 0, n)
          BY <3>4, <4>1, <4>2 DEF RunsFromTo
        <4> QED
          BY <4>3
      <3>6. CASE s = current
        <4>1. n <= Len(sciq) /\ emitted[s] = Arrived(s) + (Len(sciq) - n)
          BY <1>b, <3>3, <3>4, <3>6
        <4>2. ASSUME NEW i \in 1 .. Len(sciq)
              PROVE  /\ i > n /\ i <= Len(sciq) => sciq[i] = Byte(s, Arrived(s) + (i - n))
                     /\ ~(i > n /\ i <= Len(sciq)) => sciq[i][1] # s
          <5>1. i \in Nat /\ i <= Len(sciq) /\ Arrived(s) + i - n = Arrived(s) + (i - n)
            BY <1>b
          <5> QED
            BY <1>b, <3>3, <3>4, <3>6, <5>1 DEF Byte
        <4>3. RunsFromTo(s, n, Len(sciq))
          BY <1>b, <4>1, <4>2 DEF RunsFromTo
        <4> QED
          BY <1>b, <4>3
      <3>7. CASE s # old /\ s # current
        <4>1. emitted[s] = Arrived(s) + (0 - 0) /\ 0 <= Len(sciq)
          BY <1>b, <3>4, <3>7
        <4>2. \A i \in 1 .. Len(sciq) : sciq[i][1] # s /\ ~(i <= 0)
          BY <1>b, <3>4, <3>7 DEF Byte
        <4>3. RunsFromTo(s, 0, 0)
          BY <1>b, <4>1, <4>2 DEF RunsFromTo
        <4> QED
          BY <4>3
      <3> QED
        BY <3>5, <3>6, <3>7
    <2>3. \/ \E old \in Sockets : AllOf(old)
          \/ \E t \in Tasks : pc[t] = "split"
      <3>1. CASE \E t \in Tasks : pc[t] \in {"recount", "split"}
        BY <1>a, <3>1 DEF StreamInv, TypeOK, CallTypes, Locals
      <3>2. CASE ~(\E t \in Tasks : pc[t] \in {"recount", "split"})
        BY <1>a, <3>2, StreamTypes DEF StreamInv
      <3> QED
        BY <3>1, <3>2
    <2> HIDE DEF waiting
    <2> QED
      BY <1>3, <2>1, <2>2, <2>3
  <1> QED
    BY <1>1, <1>2, <1>4 DEF arrived

\* No byte is lost, doubled, reordered or given to another socket's reader, whatever happens but a mishap.
THEOREM StreamsAreKept == Spec => []StreamIsIntact
  <1>1. IInv => StreamIsIntact
    BY IntactFromInv
  <1> QED
    BY <1>1, Invariance, PTL
=============================================================================
