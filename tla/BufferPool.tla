------------------------------ MODULE BufferPool ------------------------------
(***************************************************************************)
(* The pool of statically allocated buffers, shared by the MQTT task and   *)
(* the application tasks.  BUFFERPOOL_GetFreeBuffer examines one buffer per *)
(* critical section, so that other tasks take and return buffers while it  *)
(* scans.                                                                  *)
(*                                                                         *)
(* Source: lib/bufferpool/aws_bufferpool_static_thread_safe.c.             *)
(***************************************************************************)
EXTENDS Integers, FiniteSets

CONSTANTS
    Tasks,        \* tasks that use the pool
    NoTask,       \* stands for "nobody"
    NUM_BUFFERS,  \* bufferpoolconfigNUM_BUFFERS
    BUFFER_SIZE,  \* bufferpoolconfigBUFFER_SIZE
    Lengths       \* the lengths callers ask for

ASSUME SizesAssumption == NUM_BUFFERS \in Nat \ {0} /\ BUFFER_SIZE \in Nat
ASSUME LengthsAssumption == Lengths \subseteq Nat
ASSUME TasksAssumption == NoTask \notin Tasks

Buffers == 1 .. NUM_BUFFERS
NULL    == 0

VARIABLES
    bufferInUse, \* ucBufferInUse of every buffer
    poolPc,      \* per task: "idle" | "scan"
    index,       \* per task: the loop index of its scan
    length,      \* per task: *pulBufferLength
    result,      \* per task: what its last BUFFERPOOL_GetFreeBuffer returned
    holder,      \* per buffer: the task it was handed to (kept by the callers)
    \* history of the scan each task is in, for the properties only
    sawFull,     \* every buffer was in use at some moment of it
    returned     \* a buffer was returned during it

poolVars == <<bufferInUse, poolPc, index, length, result, holder, sawFull, returned>>

PoolInit ==
    /\ bufferInUse = [b \in Buffers |-> FALSE]
    /\ poolPc = [t \in Tasks |-> "idle"]
    /\ index = [t \in Tasks |-> 1]
    /\ length = [t \in Tasks |-> 0]
    /\ result = [t \in Tasks |-> NULL]
    /\ holder = [b \in Buffers |-> NoTask]
    /\ sawFull = [t \in Tasks |-> FALSE]
    /\ returned = [t \in Tasks |-> FALSE]

Full(use) == \A b \in Buffers : use[b]

\* The scans under way see the pool as it is after this step.
Observe(use) ==
    sawFull' = [t \in Tasks |->
                    IF poolPc[t] = "scan" /\ Full(use) THEN TRUE ELSE sawFull[t]]

-----------------------------------------------------------------------------
BugGetFreeBuffer(t, len) ==   \* mutant: the scan starts where the last one ended
    /\ poolPc[t] = "idle" /\ len <= BUFFER_SIZE
    /\ length' = [length EXCEPT ![t] = len]
    /\ result' = [result EXCEPT ![t] = NULL]
    /\ poolPc' = [poolPc EXCEPT ![t] = "scan"]
    /\ sawFull' = [sawFull EXCEPT ![t] = Full(bufferInUse)]
    /\ returned' = [returned EXCEPT ![t] = FALSE]
    /\ UNCHANGED <<bufferInUse, holder, index>>

\* BUFFERPOOL_GetFreeBuffer: a request no buffer can hold fails at once.
GetFreeBuffer(t, len) ==
    /\ poolPc[t] = "idle"
    /\ length' = [length EXCEPT ![t] = len]
    /\ result' = [result EXCEPT ![t] = NULL]
    /\ IF len <= BUFFER_SIZE
       THEN /\ poolPc' = [poolPc EXCEPT ![t] = "scan"]
            /\ index' = [index EXCEPT ![t] = 1]
            /\ sawFull' = [sawFull EXCEPT ![t] = IF Full(bufferInUse) THEN TRUE ELSE FALSE]
            /\ returned' = [returned EXCEPT ![t] = FALSE]
       ELSE UNCHANGED <<poolPc, index, sawFull, returned>>
    /\ UNCHANGED <<bufferInUse, holder>>

\* The test of the loop body.
IsFree(b) == ~bufferInUse[b]

\* One turn of the loop finds buffer index free and takes it.
Take(t) ==
    /\ poolPc[t] = "scan"
    /\ index[t] <= NUM_BUFFERS
    /\ IsFree(index[t])
    /\ bufferInUse' = [bufferInUse EXCEPT ![index[t]] = TRUE]
    /\ holder' = [holder EXCEPT ![index[t]] = t]
    /\ length' = [length EXCEPT ![t] = BUFFER_SIZE]
    /\ result' = [result EXCEPT ![t] = index[t]]
    /\ poolPc' = [poolPc EXCEPT ![t] = "idle"]
    /\ Observe(bufferInUse')
    /\ UNCHANGED <<index, returned>>

\* The loop's increment.
IndexAfter(i) == i + 1

\* One turn of the loop finds buffer index in use.
Skip(t) ==
    /\ poolPc[t] = "scan"
    /\ index[t] <= NUM_BUFFERS
    /\ ~IsFree(index[t])
    /\ index' = [index EXCEPT ![t] = IndexAfter(@)]
    /\ UNCHANGED <<bufferInUse, holder, poolPc, length, result, sawFull, returned>>

\* The loop ends without a buffer.
Fail(t) ==
    /\ poolPc[t] = "scan"
    /\ index[t] > NUM_BUFFERS
    /\ poolPc' = [poolPc EXCEPT ![t] = "idle"]
    /\ UNCHANGED <<bufferInUse, holder, index, length, result, sawFull, returned>>

BugReturnBuffer(b) ==   \* mutant: the mark stays
    /\ holder' = [holder EXCEPT ![b] = NoTask]
    /\ returned' = [t \in Tasks |-> returned[t] \/ poolPc[t] = "scan"]
    /\ UNCHANGED <<bufferInUse, poolPc, index, length, result, sawFull>>

\* BUFFERPOOL_ReturnBuffer clears the mark without looking at it.
ReturnBuffer(b) ==
    /\ bufferInUse' = [bufferInUse EXCEPT ![b] = FALSE]
    /\ holder' = [holder EXCEPT ![b] = NoTask]
    /\ returned' = [t \in Tasks |-> returned[t] \/ poolPc[t] = "scan"]
    /\ UNCHANGED <<poolPc, index, length, result, sawFull>>

\* A task returns a buffer it holds, between two calls of its own.
Return(t, b) == poolPc[t] = "idle" /\ holder[b] = t /\ ReturnBuffer(b)

\* A callback passes a receive buffer from the MQTT task to the application.
HandOver(t, u, b) ==
    /\ poolPc[t] = "idle" /\ holder[b] = t
    /\ holder' = [holder EXCEPT ![b] = u]
    /\ UNCHANGED <<bufferInUse, poolPc, index, length, result, sawFull, returned>>

PoolNext ==
    \E t \in Tasks :
        \/ \E len \in Lengths : GetFreeBuffer(t, len)
        \/ Take(t)
        \/ Skip(t)
        \/ Fail(t)
        \/ \E b \in Buffers : Return(t, b)
        \/ \E u \in Tasks, b \in Buffers : HandOver(t, u, b)

PoolSpec == PoolInit /\ [][PoolNext]_poolVars

-----------------------------------------------------------------------------
\* Every variable has its type; a scan index stays within the pool.
PoolTypeOK ==
    /\ bufferInUse \in [Buffers -> BOOLEAN]
    /\ poolPc \in [Tasks -> {"idle", "scan"}]
    /\ index \in [Tasks -> 1 .. (NUM_BUFFERS + 1)]
    /\ length \in [Tasks -> Nat]
    /\ result \in [Tasks -> Buffers \cup {NULL}]
    /\ holder \in [Buffers -> Tasks \cup {NoTask}]
    /\ sawFull \in [Tasks -> BOOLEAN]
    /\ returned \in [Tasks -> BOOLEAN]

\* A buffer is marked in use exactly while some task holds it: nothing leaks,
\* and what a task still has is not found free.
InUseIffHeld == \A b \in Buffers : bufferInUse[b] <=> holder[b] # NoTask

\* The buffers a scan has already passed over are still in use, unless a buffer
\* was returned since the scan began.
ScannedAreInUse ==
    \A t \in Tasks : poolPc[t] = "scan" /\ ~returned[t] =>
        \A b \in Buffers : b < index[t] => bufferInUse[b]

\* BUFFERPOOL_GetFreeBuffer takes a buffer nobody else has: a step never makes
\* a buffer pass from one holder to a scan that takes it.
TakesOnlyFreeBuffers ==
    [][\A t \in Tasks : result'[t] # result[t] /\ result'[t] # NULL =>
          holder[result'[t]] = NoTask /\ holder'[result'[t]] = t]_poolVars

\* A request that fits fails only if the pool was exhausted at some moment of
\* the scan, or a buffer was returned while it ran.
FailureIsJustified ==
    \A t \in Tasks : poolPc[t] = "scan" /\ index[t] > NUM_BUFFERS /\ ~returned[t] =>
        sawFull[t]
=============================================================================
