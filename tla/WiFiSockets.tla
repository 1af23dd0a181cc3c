----------------------------- MODULE WiFiSockets -----------------------------
(***************************************************************************)
(* TCP sockets on the Wi-Fi module, which has one UART for commands and    *)
(* one for the data of whichever socket is selected.  Before a task sends, *)
(* receives or commands, the driver selects its socket and sorts the bytes *)
(* that arrive meanwhile into the queue of the socket they belong to.      *)
(*                                                                         *)
(* Source: sx_ulpgn_driver.c (with two UARTs, as on the kit) and           *)
(* aws_secure_sockets.c.  A step ends where a task waits for a mutex, for  *)
(* an answer of the module, or where an interrupt can make a difference.   *)
(* External: the module answers each command, but it may refuse it or be   *)
(* busy, and its answer to the selection of a socket may be lost; it stops *)
(* at once when the RTS line is raised; the last parameter of ATUSTAT      *)
(* counts the bytes that it has sent.                                      *)
(***************************************************************************)
EXTENDS Integers, Sequences, SequencesExt

CONSTANTS
    Tasks, NoTask,
    CREATEABLE_SOCKETS,   \* sockets of the module, and MAX_NUM_SSOCKETS
    NoSocket,
    BYTEQ_SIZE,           \* size of socket_recv_buff
    RECV_LENGTH,          \* length of the buffer given to SOCKETS_Recv
    MAX_BYTES             \* bound: bytes that the peers send on the connections open now

Sockets == 0 .. CREATEABLE_SOCKETS - 1

ASSUME TasksAssumption == NoTask \notin Tasks /\ NoSocket \notin Sockets
ASSUME SizesAssumption ==
    CREATEABLE_SOCKETS \in Nat \ {0} /\ BYTEQ_SIZE \in Nat /\ RECV_LENGTH \in Nat \ {0} /\ MAX_BYTES \in Nat

VARIABLES
    \* callers
    pc, op,      \* where a task is in a call, and in which one
    sock,        \* xSocket of the task's context
    stage,       \* what the application has done with it
    loc,         \* local variables of the call
    uc, tx, rx,  \* holders of xUcInUse, g_sx_ulpgn_tx_semaphore, g_sx_ulpgn_rx_semaphore
    \* driver
    current,     \* current_socket_index
    tmp,         \* g_temporary_byteq_enable_flag
    rts,         \* the RTS line stops the module
    flag,        \* g_sockindex_command_flag: the end of a command raises RTS
    created, status,   \* socket_create_flag, socket_status
    byteq,       \* socket_byteq_hdl: received bytes of a socket
    sciq,        \* receive queue of the data UART
    \* module and peers
    selected,    \* socket that the module has selected
    linked,      \* sockets that it has connected
    uncounted,   \* bytes sent to the driver since the last ATUSTAT of a switch under way
    \* history
    emitted,     \* bytes sent so far on the connection of a socket
    taken,       \* what SOCKETS_Recv has returned of it
    unsure,      \* the answer to the last command that selects a socket was lost
    mishap       \* a byte came at a moment for which the driver has no provision

callVars == <<op, sock, stage>>
sockVars == <<created, status>>
dataVars == <<byteq, sciq, uncounted, emitted, taken, mishap>>
lineVars == <<current, tmp, rts, flag>>
modVars  == <<selected, linked, unsure>>
vars == <<pc, callVars, loc, uc, tx, rx, lineVars, sockVars, dataVars, modVars>>

Fresh == [zero |-> 0, same |-> FALSE, stored |-> FALSE, before |-> 0, left |-> 0, got |-> 0]

Init ==
    /\ pc = [t \in Tasks |-> "idle"] /\ op = [t \in Tasks |-> "none"]
    /\ sock = [t \in Tasks |-> NoSocket] /\ stage = [t \in Tasks |-> "none"]
    /\ loc = [t \in Tasks |-> Fresh]
    /\ uc = NoTask /\ tx = NoTask /\ rx = NoTask
    /\ current = 0 /\ tmp = FALSE /\ rts = FALSE /\ flag = FALSE
    /\ created = [s \in Sockets |-> FALSE] /\ status = [s \in Sockets |-> "CLOSED"]
    /\ byteq = [s \in Sockets |-> << >>] /\ sciq = << >>
    /\ selected = 0 /\ linked = {} /\ uncounted = 0
    /\ emitted = [s \in Sockets |-> 0] /\ taken = [s \in Sockets |-> << >>]
    /\ unsure = FALSE /\ mishap = FALSE

-----------------------------------------------------------------------------
(* Steps of a call.                                                         *)

At(t, place) == pc[t] = place

Goto(t, place) == pc' = [pc EXCEPT ![t] = place]

Closing == {"Shutdown", "Close"}   \* both call sx_ulpgn_tcp_disconnect

(***************************************************************************)
(* The driver's function returns, successfully or not, and so does the     *)
(* SOCKETS_ function that called it.                                       *)
(***************************************************************************)
Return(t, succeeds) ==
    /\ Goto(t, "idle")
    /\ loc' = [loc EXCEPT ![t] = Fresh]
    /\ op' = [op EXCEPT ![t] = "none"]
    /\ uc' = IF op[t] = "Socket" THEN NoTask ELSE uc
    /\ stage' = [stage EXCEPT ![t] =
           CASE op[t] = "Socket"   -> IF succeeds THEN "made" ELSE "none"
             [] op[t] = "Connect"  -> IF succeeds THEN "connected" ELSE "made"
             [] op[t] = "Shutdown" -> "shut"
             [] op[t] = "Close"    -> "none"
             [] OTHER              -> stage[t]]
    /\ sock' = IF stage'[t] = "none" THEN [sock EXCEPT ![t] = NoSocket] ELSE sock

\* The application calls a function; it connects first and closes last.
Call(t, f, place) ==
    /\ At(t, "idle")
    /\ op' = [op EXCEPT ![t] = f]
    /\ Goto(t, place)
    /\ UNCHANGED <<sock, stage, loc, uc, tx, rx, lineVars, sockVars, dataVars, modVars>>

CallSocket(t)   == stage[t] = "none" /\ Call(t, "Socket", "uc")
CallConnect(t)  == stage[t] = "made" /\ Call(t, "Connect", "tx")
CallSend(t)     == stage[t] = "connected" /\ Call(t, "Send", "tx")
CallRecv(t)     == stage[t] \in {"connected", "shut"} /\ Call(t, "Recv", "recvRx")
CallShutdown(t) == stage[t] \in {"made", "connected"} /\ Call(t, "Shutdown", "tx")
CallClose(t)    == stage[t] # "none" /\ Call(t, "Close", "tx")

\* sx_ulpgn_get_avail_socket
Available == {s \in Sockets : ~created[s]}

\* SOCKETS_Socket gets xUcInUse and chooses a number.  It may also fail for lack of
\* memory, or because ssockets_num_allocated says so.
ChooseSocket(t) ==
    /\ At(t, "uc") /\ uc = NoTask
    /\ \/ \E s \in Available :
            /\ \A r \in Available : s <= r
            /\ sock' = [sock EXCEPT ![t] = s]
            /\ uc' = t
            /\ Goto(t, "tx")
            /\ UNCHANGED <<op, stage, loc>>
       \/ Return(t, FALSE)
    /\ UNCHANGED <<tx, rx, lineVars, sockVars, dataVars, modVars>>

\* No mutex is waited for longer than its time; the one that is waited for is taken.
UcTimesOut(t) ==
    /\ At(t, "uc") /\ uc # NoTask
    /\ Goto(t, "idle") /\ op' = [op EXCEPT ![t] = "none"]
    /\ UNCHANGED <<sock, stage, loc, uc, tx, rx, lineVars, sockVars, dataVars, modVars>>

-----------------------------------------------------------------------------
(* Both mutexes, and a socket's turn.                                       *)

\* Where sx_ulpgn_change_socket_index goes on if it succeeds.
Work(f) == CASE f = "Socket"     -> "create"
             [] f = "Connect"    -> "connect"
             [] f = "Send"       -> "send"
             [] f = "Recv"       -> "recv"
             [] f \in Closing    -> "disconnect"

Switch(t) == Goto(t, IF sock[t] = current THEN Work(op[t]) ELSE "firstCount")

\* What a call requires of its socket when it has the mutex.
Admitted(t) ==
    LET s == sock[t] IN
    CASE op[t] = "Socket"           -> ~created[s]
      [] op[t] = "Connect"          -> created[s]
      [] op[t] \in Closing          -> created[s]
      [] op[t] \in {"Send", "Recv"} -> created[s] /\ status[s] = "CONNECTED"

\* sx_ulpgn_tcp_send needs the other mutex only for changing the socket.
TakeTx(t) ==
    /\ At(t, "tx") /\ tx = NoTask
    /\ IF op[t] = "Send" /\ ~Admitted(t)
       THEN Return(t, FALSE) /\ tx' = tx
       ELSE /\ tx' = t
            /\ Goto(t, IF op[t] = "Send" /\ sock[t] = current THEN "send" ELSE "rx")
            /\ UNCHANGED <<callVars, loc, uc>>
    /\ UNCHANGED <<rx, lineVars, sockVars, dataVars, modVars>>

TxTimesOut(t) ==
    /\ At(t, "tx") /\ tx # NoTask
    /\ Return(t, FALSE)
    /\ UNCHANGED <<tx, rx, lineVars, sockVars, dataVars, modVars>>

TakeRx(t) ==
    /\ At(t, "rx") /\ rx = NoTask
    /\ IF op[t] = "Send" \/ Admitted(t)
       THEN /\ rx' = t /\ tx' = tx
            /\ Switch(t)
            /\ UNCHANGED <<callVars, loc, uc>>
       ELSE /\ rx' = rx /\ tx' = NoTask
            /\ Return(t, FALSE)
    /\ UNCHANGED <<lineVars, sockVars, dataVars, modVars>>

\* sx_ulpgn_socket_create returns 0 in this case, although it has created nothing, and
\* sx_ulpgn_tcp_connect a variable that it has not set.
RxTimesOut(t) ==
    /\ At(t, "rx") /\ rx # NoTask
    /\ tx' = NoTask
    /\ \/ op[t] = "Socket" /\ Return(t, TRUE)
       \/ op[t] = "Connect" /\ \E any \in BOOLEAN : Return(t, any)
       \/ op[t] \notin {"Socket", "Connect"} /\ Return(t, FALSE)
    /\ UNCHANGED <<rx, lineVars, sockVars, dataVars, modVars>>

\* sx_ulpgn_tcp_recv looks at its socket with one mutex and gives it back in order to
\* take both of them in the order of the other functions.
RecvTakeRx(t) ==
    /\ At(t, "recvRx") /\ rx = NoTask
    /\ IF ~Admitted(t)
       THEN Return(t, FALSE) /\ rx' = rx
       ELSE /\ rx' = IF sock[t] = current THEN t ELSE NoTask
            /\ Goto(t, IF sock[t] = current THEN "recv" ELSE "recvTx")
            /\ UNCHANGED <<callVars, loc, uc>>
    /\ UNCHANGED <<tx, lineVars, sockVars, dataVars, modVars>>

RecvTakeTx(t) ==
    /\ At(t, "recvTx") /\ tx = NoTask
    /\ tx' = t
    /\ Goto(t, "recvBoth")
    /\ UNCHANGED <<callVars, loc, uc, rx, lineVars, sockVars, dataVars, modVars>>

RecvTakeBoth(t) ==
    /\ At(t, "recvBoth") /\ rx = NoTask
    /\ rx' = t
    /\ tx' = IF sock[t] = current THEN NoTask ELSE tx
    /\ Switch(t)
    /\ UNCHANGED <<callVars, loc, uc, lineVars, sockVars, dataVars, modVars>>

RecvTimesOut(t) ==
    /\ \/ At(t, "recvRx") /\ rx # NoTask /\ tx' = tx
       \/ At(t, "recvTx") /\ tx # NoTask /\ tx' = tx
       \/ At(t, "recvBoth") /\ rx # NoTask /\ tx' = NoTask
    /\ Return(t, FALSE)
    /\ UNCHANGED <<rx, lineVars, sockVars, dataVars, modVars>>

-----------------------------------------------------------------------------
(* sx_ulpgn_change_socket_index                                             *)

\* Bytes are put into a socket's queue, as many as it holds.
Put(s, bytes) ==
    [byteq EXCEPT ![s] = IF Len(@ \o bytes) <= BYTEQ_SIZE THEN @ \o bytes ELSE SubSeq(@ \o bytes, 1, BYTEQ_SIZE)]

Overflows(s, bytes) == Len(byteq[s] \o bytes) > BYTEQ_SIZE

\* What has been received goes to the current socket.
Drain ==
    /\ byteq' = Put(current, sciq)
    /\ mishap' = (mishap \/ Overflows(current, sciq))
    /\ sciq' = << >>

\* It returns -1 and its caller gives up.
SwitchFails(t) ==
    /\ tx' = NoTask /\ rx' = NoTask
    /\ Return(t, FALSE)

BugSwitchSucceeds(t) ==
    /\ Goto(t, Work(op[t]))
    /\ tx' = IF op[t] = "Recv" THEN NoTask ELSE tx
    /\ rx' = IF op[t] \in {"Send", "Recv"} THEN NoTask ELSE rx
    /\ loc' = [loc EXCEPT ![t] = Fresh]
    /\ UNCHANGED <<callVars, uc>>

\* It returns 0; the caller gives back the mutex that it does not need any more.
SwitchSucceeds(t) ==
    /\ Goto(t, Work(op[t]))
    /\ tx' = IF op[t] = "Recv" THEN NoTask ELSE tx
    /\ rx' = IF op[t] = "Send" THEN NoTask ELSE rx
    /\ loc' = [loc EXCEPT ![t] = Fresh]
    /\ UNCHANGED <<callVars, uc>>

\* A command has gone out on the command UART: at its last bit the interrupt raises RTS
\* if the flag is set.
CommandIsSent == rts' = (rts \/ flag)

\* It has gone out and failed, or it could not be sent.
CommandFails == rts' \in {rts, rts \/ flag}

\* The first ATUSTAT; from here on interrupts leave bytes in the UART's queue.
FirstCount(t) ==
    /\ At(t, "firstCount")
    /\ \/ /\ uncounted' = 0 /\ tmp' = TRUE /\ CommandIsSent
          /\ Goto(t, "count")
          /\ UNCHANGED <<callVars, loc, uc, tx, rx>>
       \/ /\ UNCHANGED <<uncounted, tmp>> /\ CommandFails
          /\ SwitchFails(t)
    /\ UNCHANGED <<current, flag, sockVars, byteq, sciq, emitted, taken, mishap, modVars>>

Count(t) ==
    /\ At(t, "count")
    /\ \/ /\ loc' = [loc EXCEPT ![t].same = (uncounted = 0)]
          /\ uncounted' = 0 /\ CommandIsSent
          /\ Goto(t, "drain")
       \/ /\ Goto(t, "fail") /\ CommandFails
          /\ UNCHANGED <<loc, uncounted>>
    /\ UNCHANGED <<callVars, uc, tx, rx, current, tmp, flag, sockVars, byteq, sciq, emitted, taken, mishap, modVars>>

BugDrainBefore(t) ==
    /\ At(t, "drain")
    /\ Drain
    /\ loc' = [loc EXCEPT ![t].same = FALSE]
    /\ Goto(t, IF loc[t].same THEN "select" ELSE "count")
    /\ UNCHANGED <<callVars, uc, tx, rx, lineVars, sockVars, uncounted, emitted, taken, modVars>>

\* The UART has to be silent in two turns.
DrainBefore(t) ==
    /\ At(t, "drain")
    /\ Drain
    /\ LET zero == IF ~loc[t].same THEN 0 ELSE IF sciq = << >> THEN loc[t].zero + 1 ELSE 1
       IN  /\ loc' = [loc EXCEPT ![t].zero = IF zero < 2 THEN zero ELSE 0, ![t].same = FALSE]
           /\ Goto(t, IF zero < 2 THEN "count" ELSE "select")
    /\ UNCHANGED <<callVars, uc, tx, rx, lineVars, sockVars, uncounted, emitted, taken, modVars>>

BugSelect(t) ==
    /\ At(t, "select")
    /\ rts' = TRUE /\ flag' = FALSE
    /\ Goto(t, "selected")
    /\ UNCHANGED <<callVars, loc, uc, tx, rx, current, tmp, sockVars, dataVars, modVars>>

\* ATNSOCKINDEX is sent with the flag set, which stays set if it cannot be sent.
Select(t) ==
    /\ At(t, "select")
    /\ \/ /\ rts' = TRUE /\ flag' = FALSE
          /\ loc' = [loc EXCEPT ![t].stored = sciq # << >>]
          /\ Goto(t, "selected")
       \/ /\ ~mishap   \* bound: no selection is lost after one
          /\ rts' = rts /\ flag' = TRUE /\ loc' = loc
          /\ Goto(t, "fail")
    /\ UNCHANGED <<callVars, uc, tx, rx, current, tmp, sockVars, dataVars, modVars>>

BugSelected(t) ==
    /\ At(t, "selected")
    /\ \/ /\ selected' \in {selected, sock[t]} /\ current' = sock[t]
          /\ loc' = [loc EXCEPT ![t].before = current]
          /\ Goto(t, "recount")
       \/ /\ Goto(t, "fail")
          /\ UNCHANGED <<current, selected, loc>>
    /\ UNCHANGED <<callVars, uc, tx, rx, tmp, rts, flag, sockVars, dataVars, linked, unsure>>

\* The module has changed the socket, is busy, refuses, or nobody knows.
Selected(t) ==
    /\ At(t, "selected")
    /\ \/ /\ selected' = sock[t] /\ current' = sock[t] /\ unsure' = FALSE
          /\ loc' = [loc EXCEPT ![t].before = current]
          /\ Goto(t, "recount") /\ rts' = rts
       \/ /\ Goto(t, "busy") /\ rts' = FALSE
          /\ UNCHANGED <<current, selected, unsure, loc>>
       \/ /\ Goto(t, "fail")
          /\ \/ UNCHANGED <<selected, unsure>>
             \/ /\ ~mishap   \* bound
                /\ selected' \in {selected, sock[t]} /\ unsure' = TRUE
          /\ UNCHANGED <<current, rts, loc>>
    /\ UNCHANGED <<callVars, uc, tx, rx, tmp, flag, sockVars, dataVars, linked>>

\* After 100 microseconds in which the module may send.
RetryWhenBusy(t) ==
    /\ At(t, "busy")
    /\ rts' = TRUE
    /\ Drain
    /\ loc' = [loc EXCEPT ![t].stored = FALSE]
    /\ Goto(t, "count")
    /\ UNCHANGED <<callVars, uc, tx, rx, current, tmp, flag, sockVars, uncounted, emitted, taken, modVars>>

\* How many bytes of the old socket are in the UART's queue.
Recount(t) ==
    /\ At(t, "recount")
    /\ \/ /\ rts' = FALSE
          /\ uncounted' = 0
          /\ LET left == IF loc[t].stored THEN uncounted ELSE 0
             IN  /\ loc' = [loc EXCEPT ![t].left = left]
                 /\ Goto(t, IF left > 0 THEN "split" ELSE "copy")
          /\ mishap' = mishap
       \/ /\ mishap' = (mishap \/ sciq # << >>)   \* they will go to the new socket
          /\ Goto(t, "fail")
          /\ UNCHANGED <<rts, uncounted, loc>>
    /\ UNCHANGED <<callVars, uc, tx, rx, current, tmp, flag, sockVars, byteq, sciq, emitted, taken, modVars>>

\* The loop ends when that many bytes have come.
Split(t) ==
    LET n == IF loc[t].left < Len(sciq) THEN loc[t].left ELSE Len(sciq)
        old == SubSeq(sciq, 1, n)
    IN  /\ At(t, "split") /\ sciq # << >>
        /\ byteq' = Put(loc[t].before, old)
        /\ mishap' = (mishap \/ Overflows(loc[t].before, old))
        /\ sciq' = SubSeq(sciq, n + 1, Len(sciq))
        /\ loc' = [loc EXCEPT ![t].left = @ - n]
        /\ Goto(t, IF n = loc[t].left THEN "copy" ELSE "split")
        /\ UNCHANGED <<callVars, uc, tx, rx, lineVars, sockVars, uncounted, emitted, taken, modVars>>

CopyAfter(t) ==
    /\ At(t, "copy")
    /\ Drain
    /\ Goto(t, "switched")
    /\ UNCHANGED <<callVars, loc, uc, tx, rx, lineVars, sockVars, uncounted, emitted, taken, modVars>>

Switched(t) ==
    /\ At(t, "switched")
    /\ tmp' = FALSE /\ uncounted' = 0
    /\ SwitchSucceeds(t)
    /\ UNCHANGED <<current, rts, flag, sockVars, byteq, sciq, emitted, taken, mishap, modVars>>

BugFail(t) ==
    /\ At(t, "fail")
    /\ Drain
    /\ tmp' = FALSE /\ uncounted' = 0
    /\ SwitchFails(t)
    /\ UNCHANGED <<current, rts, flag, sockVars, emitted, taken, modVars>>

\* The clean-up after an error, with interrupts disabled.  It leaves the flag as it is.
Fail(t) ==
    /\ At(t, "fail")
    /\ Drain
    /\ tmp' = FALSE /\ rts' = FALSE /\ uncounted' = 0
    /\ SwitchFails(t)
    /\ UNCHANGED <<current, flag, sockVars, emitted, taken, modVars>>

-----------------------------------------------------------------------------
(* The work of each call, with its socket selected.                         *)

\* A connection that ends takes its bytes with it.
Forget(s) ==
    /\ emitted' = [emitted EXCEPT ![s] = 0]
    /\ taken' = [taken EXCEPT ![s] = << >>]

\* ATNSOCK is answered.  A busy module counts as success.
Create(t) ==
    LET s == sock[t] IN
    /\ At(t, "create")
    /\ \/ /\ created' = [created EXCEPT ![s] = TRUE]
          /\ \/ /\ status' = [status EXCEPT ![s] = "SOCKET"]
                /\ byteq' = [byteq EXCEPT ![s] = << >>]
             \/ UNCHANGED <<status, byteq>>
          /\ Goto(t, "createStatus") /\ CommandIsSent
          /\ UNCHANGED <<callVars, loc, uc, tx, rx>>
       \/ /\ tx' = NoTask /\ rx' = NoTask
          /\ Return(t, FALSE) /\ CommandFails
          /\ UNCHANGED <<sockVars, byteq>>
    /\ UNCHANGED <<current, tmp, flag, sciq, uncounted, emitted, taken, mishap, modVars>>

\* ATNSTAT, whose answer is not used.
CreateStatus(t) ==
    /\ At(t, "createStatus")
    /\ tx' = NoTask /\ rx' = NoTask
    /\ Return(t, TRUE) /\ CommandFails
    /\ UNCHANGED <<current, tmp, flag, sockVars, dataVars, modVars>>

\* The module does on its socket what the driver records of another one.
Strays == mishap' = (mishap \/ selected # current)

\* ATNCTCP is answered.
Connect(t) ==
    LET s == sock[t] IN
    /\ At(t, "connect")
    /\ tx' = NoTask /\ rx' = NoTask
    /\ \/ /\ selected \notin linked
          /\ linked' = linked \cup {selected}
          /\ status' = [status EXCEPT ![s] = "CONNECTED"]
          /\ Return(t, TRUE) /\ CommandIsSent /\ Strays
       \/ /\ Return(t, FALSE) /\ CommandFails
          /\ UNCHANGED <<linked, status, mishap>>
    /\ UNCHANGED <<current, tmp, flag, created, byteq, sciq, uncounted, emitted, taken, selected, unsure>>

\* The bytes are sent on the data UART, or an error of it or the time ends the call.
Send(t) ==
    /\ At(t, "send")
    /\ tx' = NoTask
    /\ Return(t, TRUE)
    /\ UNCHANGED <<rx, lineVars, sockVars, dataVars, modVars>>

\* One byte; interrupts are disabled meanwhile.
RecvByte(t) ==
    /\ At(t, "recv") /\ byteq[current] # << >>
    /\ byteq' = [byteq EXCEPT ![current] = Tail(@)]
    /\ taken' = [taken EXCEPT ![sock[t]] = Append(@, Head(byteq[current]))]
    /\ IF loc[t].got + 1 < RECV_LENGTH
       THEN /\ loc' = [loc EXCEPT ![t].got = @ + 1]
            /\ UNCHANGED <<pc, callVars, uc, rx>>
       ELSE rx' = NoTask /\ Return(t, TRUE)
    /\ UNCHANGED <<tx, lineVars, sockVars, sciq, uncounted, emitted, mishap, modVars>>

\* The queue is empty and the time is over.
RecvEnds(t) ==
    /\ At(t, "recv") /\ byteq[current] = << >>
    /\ IF loc[t].got = 0
       THEN Goto(t, "recvStatus") /\ UNCHANGED <<callVars, loc, uc, rx>>
       ELSE rx' = NoTask /\ Return(t, TRUE)
    /\ UNCHANGED <<tx, lineVars, sockVars, dataVars, modVars>>

\* ATNSTAT; the function returns 0 whatever the answer is.
RecvStatus(t) ==
    /\ At(t, "recvStatus")
    /\ rx' = NoTask
    /\ Return(t, TRUE) /\ CommandFails
    /\ UNCHANGED <<tx, current, tmp, flag, sockVars, dataVars, modVars>>

\* ATNCLOSE is answered.  SOCKETS_Close frees the context in any case.
Disconnect(t) ==
    LET s == sock[t] IN
    /\ At(t, "disconnect")
    /\ tx' = NoTask /\ rx' = NoTask
    /\ \/ /\ created' = [created EXCEPT ![s] = FALSE]
          /\ status' = [status EXCEPT ![s] = "CLOSED"]
          /\ byteq' = [byteq EXCEPT ![s] = << >>]
          /\ linked' = linked \ {selected}
          /\ Forget(selected) /\ CommandIsSent /\ Strays
       \/ CommandFails /\ UNCHANGED <<sockVars, byteq, linked, emitted, taken, mishap>>
    /\ Return(t, TRUE)
    /\ UNCHANGED <<current, tmp, flag, sciq, uncounted, selected, unsure>>

-----------------------------------------------------------------------------
(***************************************************************************)
(* The module sends a byte of the socket that is selected, and the receive *)
(* interrupt takes it.  It empties the UART's queue first: a byte that was *)
(* left there after the last switch is lost.  The driver takes each byte   *)
(* for one of the current socket.                                          *)
(***************************************************************************)
Byte(s, n) == <<s, n>>

Receive(byte) ==
    IF ~tmp /\ created[current]
    THEN /\ sciq' = << >>
         /\ byteq' = Put(current, <<byte>>)
         /\ mishap' = (mishap \/ selected # current \/ sciq # << >> \/ Overflows(current, <<byte>>))
    ELSE /\ sciq' = Append(sciq, byte)
         /\ mishap' = (mishap \/ selected # current \/ \E t \in Tasks : At(t, "switched"))
         /\ byteq' = byteq

ModuleSends ==
    /\ ~rts /\ selected \in linked
    /\ ~mishap   \* bound: nothing is sent after one
    /\ FoldFunction(+, 0, emitted) < MAX_BYTES
    /\ emitted' = [emitted EXCEPT ![selected] = @ + 1]
    /\ uncounted' = IF tmp THEN uncounted + 1 ELSE 0
    /\ Receive(Byte(selected, emitted'[selected]))
    /\ UNCHANGED <<pc, callVars, loc, uc, tx, rx, lineVars, sockVars, taken, modVars>>

-----------------------------------------------------------------------------
Takes(t) == ChooseSocket(t) \/ TakeTx(t) \/ TakeRx(t) \/ RecvTakeRx(t) \/ RecvTakeTx(t) \/ RecvTakeBoth(t)

TimesOut(t) == UcTimesOut(t) \/ TxTimesOut(t) \/ RxTimesOut(t) \/ RecvTimesOut(t)

Switches(t) ==
    \/ FirstCount(t) \/ Count(t) \/ DrainBefore(t) \/ Select(t) \/ Selected(t) \/ RetryWhenBusy(t)
    \/ Recount(t) \/ Split(t) \/ CopyAfter(t) \/ Switched(t) \/ Fail(t)

Works(t) ==
    \/ Create(t) \/ CreateStatus(t) \/ Connect(t) \/ Send(t)
    \/ RecvByte(t) \/ RecvEnds(t) \/ RecvStatus(t) \/ Disconnect(t)

Calls(t) ==
    CallSocket(t) \/ CallConnect(t) \/ CallSend(t) \/ CallRecv(t) \/ CallShutdown(t) \/ CallClose(t)

TaskSteps(t) == Takes(t) \/ TimesOut(t) \/ Switches(t) \/ Works(t)

Next == ModuleSends \/ \E t \in Tasks : Calls(t) \/ TaskSteps(t)

Spec == Init /\ [][Next]_vars
-----------------------------------------------------------------------------
(* Properties.                                                              *)

Bytes == Sockets \X Nat

Places ==
    {"idle", "uc", "tx", "rx", "recvRx", "recvTx", "recvBoth", "firstCount", "count", "drain", "select", "selected",
     "busy", "recount", "split", "copy", "switched", "fail", "create", "createStatus", "connect", "send", "recv",
     "recvStatus", "disconnect"}
Locals == [zero : 0 .. 1, same : BOOLEAN, stored : BOOLEAN, before : Sockets, left : Nat, got : Nat]

CallTypes ==
    /\ pc \in [Tasks -> Places]
    /\ op \in [Tasks -> {"none", "Socket", "Connect", "Send", "Recv"} \cup Closing]
    /\ sock \in [Tasks -> Sockets \cup {NoSocket}]
    /\ stage \in [Tasks -> {"none", "made", "connected", "shut"}]
    /\ loc \in [Tasks -> Locals]
    /\ {uc, tx, rx} \subseteq Tasks \cup {NoTask}

DriverTypes ==
    /\ {current, selected} \subseteq Sockets /\ linked \subseteq Sockets
    /\ {tmp, rts, flag, unsure} \subseteq BOOLEAN
    /\ created \in [Sockets -> BOOLEAN] /\ status \in [Sockets -> {"CLOSED", "SOCKET", "CONNECTED"}]

DataTypes ==
    /\ {byteq, taken} \subseteq [Sockets -> Seq(Bytes)] /\ sciq \in Seq(Bytes)
    /\ \A s \in Sockets : Len(byteq[s]) <= BYTEQ_SIZE
    /\ uncounted \in Nat /\ emitted \in [Sockets -> Nat] /\ mishap \in BOOLEAN

TypeOK == CallTypes /\ DriverTypes /\ DataTypes

Commands == {"firstCount", "count", "selected", "recount", "create", "createStatus", "connect", "recvStatus",
             "disconnect"}

\* Two tasks never have a command under way at once: they would take each other's answer
\* from the command UART, and share the buffers buff and recvbuff.  A receive commands
\* with one mutex only, the others with both.
OneCommandAtATime ==
    \A t, u \in Tasks : t # u => ~(pc[t] \in Commands /\ pc[u] \in Commands)

\* While a task sends, receives or commands, its socket is the driver's current one, although
\* a sender and a receiver hold one mutex each, and the one that the module has selected,
\* unless the module's last answer to a selection was lost.
UsesItsOwnSocket ==
    \A t \in Tasks :
        pc[t] \in {"create", "createStatus", "connect", "send", "recv", "recvStatus", "disconnect"} =>
            current = sock[t] /\ (selected = sock[t] \/ unsure)

\* SOCKETS_Send "Transmit data to the remote socket" (aws_secure_sockets.h): the bytes of
\* a send go to the socket that it was called for.
SendsToItsPeer == \A t \in Tasks : At(t, "send") => selected = sock[t]

\* However the sockets take turns, and whatever commands fail, what came in on a connection
\* is in its own socket's queue or still in the UART's, or has been returned, complete
\* and in order, unless a queue has run full or a byte has come in one of the moments that
\* mishap marks.
StreamIsIntact ==
    ~mishap =>
        \A s \in Sockets :
            LET arrived == taken[s] \o byteq[s]
                waiting == {i \in DOMAIN sciq : sciq[i][1] = s}
            IN  /\ \A n \in DOMAIN arrived : arrived[n] = Byte(s, n)
                /\ {sciq[i][2] : i \in waiting} = (Len(arrived) + 1) .. emitted[s]
                /\ \A i, j \in waiting : i < j => sciq[i][2] < sciq[j][2]
                /\ Len(arrived) <= emitted[s]

\* On every path out of a call all mutexes have been given back, and interrupts put bytes
\* where a receive looks for them, with the module free to send.  What is left behind by
\* a selection that could not be sent is the flag, by which a later command stops it.
NothingIsLeftBehind ==
    /\ \A t \in Tasks : At(t, "idle") => t \notin {uc, tx, rx}
    /\ (rx = NoTask => ~tmp /\ (rts => flag))

\* An error in sx_ulpgn_change_socket_index is followed by the "recovery socket status": the
\* module may send whenever no task commands or receives.
ModuleMaySend == rx = NoTask => ~rts

\* The loop that hands the rest of the old socket's bytes over was given the right number:
\* so many are there, so that it never waits for more, and behind them are only the new
\* socket's.  The number is the difference of two readings of the module's counter,
\* and bytes came between the first of them and the command.
BorderIsCounted ==
    \A t \in Tasks : At(t, "split") =>
        /\ loc[t].left <= Len(sciq)
        /\ ~mishap => \A i \in DOMAIN sciq : sciq[i][1] = IF i <= loc[t].left THEN loc[t].before ELSE current
=============================================================================
