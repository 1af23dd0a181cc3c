-------------------------- MODULE ShadowClientProofs --------------------------
(***************************************************************************)
(* Proofs about the shadow client, for any number of tasks, Things, calls, *)
(* faults and messages: operations leave the client clean, an answer that  *)
(* a call returns is its own, no buffer of the MQTT agent is lost, and the *)
(* application is not told of what the client did itself.                  *)
(***************************************************************************)
EXTENDS ShadowClient, FiniteSetTheorems, TLAPS

(* The invariant.                                                          *)

\* The steps before an operation becomes visible to the MQTT callback, those in
\* which its answer may come, and those that clean up after it.
Opening  == {"subAccepted", "subRejected", "undoAccepted", "prepare"}
Waiting  == {"publish", "publishing", "wait", "read", "give"}
Closing  == {"cleanup", "unsubAccepted", "unsubRejected", "release"}
Locked   == Opening \cup Waiting \cup Closing

Shapes ==
    /\ DOMAIN pc = Tasks /\ DOMAIN call = Tasks /\ DOMAIN ret = Tasks
    /\ xOperationMutex \in Tasks \cup {NoTask}
    /\ xCallbackSemaphore \in {0, 1}

\* The mutex is held by the task that is in an operation, and by no other.
MutexIsHeld == \A t \in Tasks : pc[t] \in Locked <=> xOperationMutex = t

\* What the callback sees is the call of the holder, with its topic in the buffer.
VisibleIsHolders ==
    pxOperationData # NoCall =>
        /\ xOperationMutex \in Tasks
        /\ pxOperationData = call[xOperationMutex]
        /\ pc[xOperationMutex] \notin Opening
        /\ ucTopicBuffer.thing = pxOperationData.thing
        /\ ucTopicBuffer.op = pxOperationData.op

\* The data mutex is only held for an operation that is visible.
DeliversToVisible == delivering # NoMsg => pxOperationData # NoCall

\* The semaphore is available but for the time an answer is waited for.
SemaphoreIsBack ==
    ~halted /\ xInUse =>
        /\ xOperationMutex = NoTask => xCallbackSemaphore = 1
        /\ \A t \in Tasks : pc[t] \in Opening \cup Closing => xCallbackSemaphore = 1

BlankWhenFree == xOperationMutex = NoTask => ucTopicBuffer = Blank

QuietUntilCreated == ~xInUse => \A t \in Tasks : pc[t] = "idle"

\* An answer is one to the operation of a call and, for an update, has its token.
IsOwn(c, m) ==
    m.topic.thing # NoThing =>
        /\ m.topic.thing = c.thing /\ m.topic.op = c.op
        /\ c.op = "Update" => m.id = c.id

ResultIsOwn ==
    /\ xOperationMutex \in Tasks => IsOwn(call[xOperationMutex], xOperationResult)
    /\ xOperationMutex = NoTask => xOperationResult = Outcome("success")

ReturnIsOwn == \A t \in Tasks : IsOwn(call[t], ret[t])

IInv ==
    /\ Shapes /\ MutexIsHeld /\ VisibleIsHolders /\ DeliversToVisible
    /\ SemaphoreIsBack /\ BlankWhenFree /\ QuietUntilCreated
    /\ ResultIsOwn /\ ReturnIsOwn

-----------------------------------------------------------------------------
LEMMA OutcomesAreNobodys ==
    ASSUME NEW c, NEW s PROVE IsOwn(c, Outcome(s))
BY DEF IsOwn, Outcome, Topic

LEMMA InitInv == Init => IInv
<1> SUFFICES ASSUME Init PROVE IInv
  OBVIOUS
<1> USE TasksAssumption DEF Init
<1>1. Shapes /\ MutexIsHeld /\ BlankWhenFree /\ QuietUntilCreated
  BY DEF Shapes, MutexIsHeld, BlankWhenFree, QuietUntilCreated, Locked, Opening, Waiting, Closing
<1>2. VisibleIsHolders /\ DeliversToVisible /\ SemaphoreIsBack
  BY DEF VisibleIsHolders, DeliversToVisible, SemaphoreIsBack
<1>3. ResultIsOwn /\ ReturnIsOwn
  BY OutcomesAreNobodys DEF ResultIsOwn, ReturnIsOwn
<1> QED  BY <1>1, <1>2, <1>3 DEF IInv

\* A step that leaves alone everything the invariant is about; it may stop the board.
untouched == <<xInUse, xOperationMutex, xCallbackSemaphore, pxOperationData,
               xOperationResult, ucTopicBuffer, pc, call, ret, delivering>>

LEMMA UntouchedInv == IInv /\ UNCHANGED untouched /\ (~halted' => ~halted) => IInv'
BY DEF IInv, untouched, Shapes, MutexIsHeld, VisibleIsHolders, DeliversToVisible,
       SemaphoreIsBack, BlankWhenFree, QuietUntilCreated, ResultIsOwn, ReturnIsOwn, IsOwn

LEMMA ServiceInv == IInv /\ (Service \/ SHADOW_ClientConnect \/ SHADOW_ClientDisconnect) => IInv'
<1> SUFFICES ASSUME IInv, Service \/ SHADOW_ClientConnect \/ SHADOW_ClientDisconnect
             PROVE  IInv'
  OBVIOUS
<1>1. UNCHANGED untouched /\ (~halted' => ~halted)
  BY DEF Service, ServiceAnswers, OtherClient, Repeated, ConnectionLost, SHADOW_ClientConnect,
         SHADOW_ClientDisconnect, ClearSubscribedFlags, untouched, clientVars, taskVars, mqttVars
<1> QED  BY <1>1, UntouchedInv

LEMMA LifeInv == IInv /\ (SHADOW_ClientCreate \/ SHADOW_ClientDelete) => IInv'
<1> SUFFICES ASSUME IInv, SHADOW_ClientCreate \/ SHADOW_ClientDelete
             PROVE  IInv'
  OBVIOUS
<1> USE DEF IInv
<1>1. UNCHANGED <<xOperationMutex, pxOperationData, xOperationResult, ucTopicBuffer, pc, call, ret,
                  delivering, halted>>
      /\ xCallbackSemaphore' \in {0, 1}
  BY DEF SHADOW_ClientCreate, SHADOW_ClientDelete, taskVars, mqttVars
<1>2. Shapes' /\ MutexIsHeld' /\ VisibleIsHolders' /\ DeliversToVisible' /\ BlankWhenFree'
  BY <1>1 DEF Shapes, MutexIsHeld, VisibleIsHolders, DeliversToVisible, BlankWhenFree
<1>3. ResultIsOwn' /\ ReturnIsOwn'
  BY <1>1 DEF ResultIsOwn, ReturnIsOwn, IsOwn
<1>4. SemaphoreIsBack' /\ QuietUntilCreated'
  BY <1>1 DEF SemaphoreIsBack, QuietUntilCreated, SHADOW_ClientCreate, SHADOW_ClientDelete, AllIdle
<1> QED  BY <1>2, <1>3, <1>4

LEMMA ApplicationInv == ASSUME NEW t \in Tasks, IInv, Application(t) PROVE IInv'
<1> USE DEF IInv
<1>1. CASE CallsClient(t)
  <2> USE <1>1 DEF CallsClient
  <2>1. PICK c \in Calls :
          /\ call' = [call EXCEPT ![t] = [op |-> c.op, thing |-> c.thing, id |-> calls + 1,
                                          ucKeepSubscriptions |-> c.ucKeepSubscriptions,
                                          callbacks |-> c.callbacks]]
          /\ pc' = [pc EXCEPT ![t] = IF c.op = "Register" THEN "catalog" ELSE "lock"]
    OBVIOUS
  <2>2. /\ ret' = [ret EXCEPT ![t] = Outcome("none")]
        /\ UNCHANGED <<xInUse, xOperationMutex, xCallbackSemaphore, pxOperationData,
                       xOperationResult, ucTopicBuffer, delivering, halted>>
        /\ xInUse /\ pc[t] = "idle"
    BY DEF clientVars, mqttVars
  <2>3. xOperationMutex # t
    BY <2>2 DEF MutexIsHeld, Locked, Opening, Waiting, Closing
  <2>4. Shapes' /\ MutexIsHeld' /\ QuietUntilCreated' /\ BlankWhenFree'
    BY <2>1, <2>2, <2>3 DEF Shapes, MutexIsHeld, QuietUntilCreated, BlankWhenFree, Locked, Opening,
                            Waiting, Closing
  <2>5. VisibleIsHolders' /\ DeliversToVisible' /\ SemaphoreIsBack'
    BY <2>1, <2>2, <2>3 DEF Shapes, VisibleIsHolders, DeliversToVisible, SemaphoreIsBack, Opening,
                            Closing
  <2>6. ResultIsOwn'
    BY <2>1, <2>2, <2>3 DEF Shapes, ResultIsOwn, IsOwn
  <2>7. ReturnIsOwn'
    BY <2>1, <2>2, OutcomesAreNobodys DEF Shapes, ReturnIsOwn
  <2> QED  BY <2>4, <2>5, <2>6, <2>7
<1>2. CASE SHADOW_ReturnMQTTBuffer(t)
  <2>1. /\ ret' = [ret EXCEPT ![t] = Outcome("none")]
        /\ UNCHANGED <<xInUse, xOperationMutex, xCallbackSemaphore, pxOperationData, call, pc,
                       xOperationResult, ucTopicBuffer, delivering, halted>>
    BY <1>2 DEF SHADOW_ReturnMQTTBuffer, clientVars
  <2>2. ReturnIsOwn'
    BY <2>1, OutcomesAreNobodys DEF Shapes, ReturnIsOwn
  <2>3. ResultIsOwn'
    BY <2>1 DEF ResultIsOwn, IsOwn
  <2>4. (Shapes /\ MutexIsHeld /\ QuietUntilCreated /\ BlankWhenFree /\ VisibleIsHolders
         /\ DeliversToVisible /\ SemaphoreIsBack)'
    BY <2>1 DEF Shapes, MutexIsHeld, QuietUntilCreated, BlankWhenFree, VisibleIsHolders,
                DeliversToVisible, SemaphoreIsBack
  <2> QED  BY <2>2, <2>3, <2>4
<1> QED  BY <1>1, <1>2 DEF Application

LEMMA OpeningInv ==
    ASSUME NEW t \in Tasks, IInv, TakeOperationMutex(t) \/ SubscribeToAccepted(t) \/ SubscribeToRejected(t) \/ UndoAccepted(t) \/ Prepare(t)
    PROVE  IInv'
<1> USE TasksAssumption DEF IInv, GoesTo, Returns, Opening, Waiting, Closing, Locked
<1>1. CASE TakeOperationMutex(t)
  <2> USE <1>1 DEF TakeOperationMutex
  <2>1. Shapes' /\ MutexIsHeld' /\ QuietUntilCreated' /\ BlankWhenFree'
    BY DEF Shapes, MutexIsHeld, QuietUntilCreated, BlankWhenFree, clientVars, mqttVars, networkVars
  <2>2. VisibleIsHolders' /\ DeliversToVisible'
    BY DEF Shapes, MutexIsHeld, VisibleIsHolders, DeliversToVisible, clientVars, mqttVars, networkVars
  <2>3. SemaphoreIsBack'
    BY DEF Shapes, MutexIsHeld, SemaphoreIsBack, clientVars, mqttVars, networkVars
  <2>4. ResultIsOwn'
    BY OutcomesAreNobodys DEF Shapes, MutexIsHeld, ResultIsOwn, IsOwn, clientVars, mqttVars, networkVars
  <2>5. ReturnIsOwn'
    BY OutcomesAreNobodys DEF Shapes, MutexIsHeld, ResultIsOwn, ReturnIsOwn, Result, clientVars, mqttVars, networkVars
  <2> QED  BY <2>1, <2>2, <2>3, <2>4, <2>5
<1>2. CASE SubscribeToAccepted(t)
  <2> USE <1>2 DEF SubscribeToAccepted, clientRest, FillTopic, OperationOf, Topic
  <2>1. Shapes' /\ MutexIsHeld' /\ QuietUntilCreated' /\ BlankWhenFree'
    BY DEF Shapes, MutexIsHeld, QuietUntilCreated, BlankWhenFree, mqttVars
  <2>2. VisibleIsHolders' /\ DeliversToVisible'
    BY DEF Shapes, MutexIsHeld, VisibleIsHolders, DeliversToVisible, mqttVars
  <2>3. SemaphoreIsBack'
    BY DEF Shapes, MutexIsHeld, SemaphoreIsBack, mqttVars
  <2>4. ResultIsOwn'
    BY OutcomesAreNobodys DEF Shapes, MutexIsHeld, ResultIsOwn, IsOwn, mqttVars
  <2>5. ReturnIsOwn'
    BY OutcomesAreNobodys DEF Shapes, MutexIsHeld, ResultIsOwn, ReturnIsOwn, Result, mqttVars
  <2> QED  BY <2>1, <2>2, <2>3, <2>4, <2>5
<1>3. CASE SubscribeToRejected(t)
  <2> USE <1>3 DEF SubscribeToRejected, clientRest, FillTopic, OperationOf, Topic
  <2>1. Shapes' /\ MutexIsHeld' /\ QuietUntilCreated' /\ BlankWhenFree'
    BY DEF Shapes, MutexIsHeld, QuietUntilCreated, BlankWhenFree, mqttVars
  <2>2. VisibleIsHolders' /\ DeliversToVisible'
    BY DEF Shapes, MutexIsHeld, VisibleIsHolders, DeliversToVisible, mqttVars
  <2>3. SemaphoreIsBack'
    BY DEF Shapes, MutexIsHeld, SemaphoreIsBack, mqttVars
  <2>4. ResultIsOwn'
    BY OutcomesAreNobodys DEF Shapes, MutexIsHeld, ResultIsOwn, IsOwn, mqttVars
  <2>5. ReturnIsOwn'
    BY OutcomesAreNobodys DEF Shapes, MutexIsHeld, ResultIsOwn, ReturnIsOwn, Result, mqttVars
  <2> QED  BY <2>1, <2>2, <2>3, <2>4, <2>5
<1>4. CASE UndoAccepted(t)
  <2> USE <1>4 DEF UndoAccepted, clientRest, FillTopic, OperationOf, Topic
  <2>1. Shapes' /\ MutexIsHeld' /\ QuietUntilCreated' /\ BlankWhenFree'
    BY DEF Shapes, MutexIsHeld, QuietUntilCreated, BlankWhenFree, mqttVars
  <2>2. VisibleIsHolders' /\ DeliversToVisible'
    BY DEF Shapes, MutexIsHeld, VisibleIsHolders, DeliversToVisible, mqttVars
  <2>3. SemaphoreIsBack'
    BY DEF Shapes, MutexIsHeld, SemaphoreIsBack, mqttVars
  <2>4. ResultIsOwn'
    BY OutcomesAreNobodys DEF Shapes, MutexIsHeld, ResultIsOwn, IsOwn, mqttVars
  <2>5. ReturnIsOwn'
    BY OutcomesAreNobodys DEF Shapes, MutexIsHeld, ResultIsOwn, ReturnIsOwn, Result, mqttVars
  <2> QED  BY <2>1, <2>2, <2>3, <2>4, <2>5
<1>5. CASE Prepare(t)
  <2> USE <1>5 DEF Prepare, FillTopic, OperationOf, Topic
  <2>1. Shapes' /\ MutexIsHeld' /\ QuietUntilCreated' /\ BlankWhenFree'
    BY DEF Shapes, MutexIsHeld, QuietUntilCreated, BlankWhenFree
  <2>2. VisibleIsHolders' /\ DeliversToVisible'
    <3>1. xOperationMutex = t /\ xOperationMutex' = t
      BY DEF MutexIsHeld
    <3>2. CASE xCallbackSemaphore = 0
      BY <3>1, <3>2 DEF VisibleIsHolders, DeliversToVisible
    <3>3. CASE xCallbackSemaphore # 0
      <4>1. ucTopicBuffer'.thing = call[t].thing /\ ucTopicBuffer'.op = call[t].op
        <5>1. ucTopicBuffer' = Topic(call[t].thing, call[t].op, "")
          BY <3>3, Zenon DEF FillTopic, OperationOf
        <5> QED  BY ONLY <5>1 DEF Topic
      <4>2. pxOperationData = NoCall /\ delivering' = NoMsg
        BY <3>1 DEF VisibleIsHolders, DeliversToVisible
      <4>3. pxOperationData' = call[t] /\ call' = call /\ pc'[t] = "publish"
        BY <3>3 DEF Shapes
      <4> QED  BY <3>1, <4>1, <4>2, <4>3 DEF VisibleIsHolders, DeliversToVisible
    <3> QED  BY <3>2, <3>3
  <2>3. SemaphoreIsBack'
    BY DEF Shapes, MutexIsHeld, SemaphoreIsBack
  <2>4. ResultIsOwn'
    BY OutcomesAreNobodys DEF Shapes, MutexIsHeld, ResultIsOwn, IsOwn
  <2>5. ReturnIsOwn'
    BY OutcomesAreNobodys DEF Shapes, MutexIsHeld, ResultIsOwn, ReturnIsOwn, Result
  <2> QED  BY <2>1, <2>2, <2>3, <2>4, <2>5
<1> QED  BY <1>1, <1>2, <1>3, <1>4, <1>5

LEMMA WaitingInv ==
    ASSUME NEW t \in Tasks, IInv, PublishOperation(t) \/ PublishReturns(t) \/ WaitForAnswer(t) \/ ReadResult(t) \/ GiveSemaphore(t)
    PROVE  IInv'
<1> USE TasksAssumption DEF IInv, GoesTo, Returns, Opening, Waiting, Closing, Locked
<1>1. CASE PublishOperation(t)
  <2> USE <1>1 DEF PublishOperation
  <2>1. Shapes' /\ MutexIsHeld' /\ QuietUntilCreated' /\ BlankWhenFree'
    BY DEF Shapes, MutexIsHeld, QuietUntilCreated, BlankWhenFree, clientVars, mqttVars, networkVars
  <2>2. VisibleIsHolders' /\ DeliversToVisible'
    BY DEF Shapes, MutexIsHeld, VisibleIsHolders, DeliversToVisible, clientVars, mqttVars, networkVars
  <2>3. SemaphoreIsBack'
    BY DEF Shapes, MutexIsHeld, SemaphoreIsBack, clientVars, mqttVars, networkVars
  <2>4. ResultIsOwn'
    BY OutcomesAreNobodys DEF Shapes, MutexIsHeld, ResultIsOwn, IsOwn, clientVars, mqttVars, networkVars
  <2>5. ReturnIsOwn'
    BY OutcomesAreNobodys DEF Shapes, MutexIsHeld, ResultIsOwn, ReturnIsOwn, Result, clientVars, mqttVars, networkVars
  <2> QED  BY <2>1, <2>2, <2>3, <2>4, <2>5
<1>2. CASE PublishReturns(t)
  <2> USE <1>2 DEF PublishReturns
  <2>1. Shapes' /\ MutexIsHeld' /\ QuietUntilCreated' /\ BlankWhenFree'
    BY DEF Shapes, MutexIsHeld, QuietUntilCreated, BlankWhenFree, clientVars, mqttVars, networkVars
  <2>2. VisibleIsHolders' /\ DeliversToVisible'
    BY DEF Shapes, MutexIsHeld, VisibleIsHolders, DeliversToVisible, clientVars, mqttVars, networkVars
  <2>3. SemaphoreIsBack'
    BY DEF Shapes, MutexIsHeld, SemaphoreIsBack, clientVars, mqttVars, networkVars
  <2>4. ResultIsOwn'
    BY OutcomesAreNobodys DEF Shapes, MutexIsHeld, ResultIsOwn, IsOwn, clientVars, mqttVars, networkVars
  <2>5. ReturnIsOwn'
    BY OutcomesAreNobodys DEF Shapes, MutexIsHeld, ResultIsOwn, ReturnIsOwn, Result, clientVars, mqttVars, networkVars
  <2> QED  BY <2>1, <2>2, <2>3, <2>4, <2>5
<1>3. CASE WaitForAnswer(t)
  <2> USE <1>3 DEF WaitForAnswer
  <2>1. Shapes' /\ MutexIsHeld' /\ QuietUntilCreated' /\ BlankWhenFree'
    BY DEF Shapes, MutexIsHeld, QuietUntilCreated, BlankWhenFree, clientVars, mqttVars, networkVars
  <2>2. VisibleIsHolders' /\ DeliversToVisible'
    BY DEF Shapes, MutexIsHeld, VisibleIsHolders, DeliversToVisible, clientVars, mqttVars, networkVars
  <2>3. SemaphoreIsBack'
    BY DEF Shapes, MutexIsHeld, SemaphoreIsBack, clientVars, mqttVars, networkVars
  <2>4. ResultIsOwn'
    BY OutcomesAreNobodys DEF Shapes, MutexIsHeld, ResultIsOwn, IsOwn, clientVars, mqttVars, networkVars
  <2>5. ReturnIsOwn'
    BY OutcomesAreNobodys DEF Shapes, MutexIsHeld, ResultIsOwn, ReturnIsOwn, Result, clientVars, mqttVars, networkVars
  <2> QED  BY <2>1, <2>2, <2>3, <2>4, <2>5
<1>4. CASE ReadResult(t)
  <2> USE <1>4 DEF ReadResult
  <2>1. Shapes' /\ MutexIsHeld' /\ QuietUntilCreated' /\ BlankWhenFree'
    BY DEF Shapes, MutexIsHeld, QuietUntilCreated, BlankWhenFree, clientVars, mqttVars, networkVars
  <2>2. VisibleIsHolders' /\ DeliversToVisible'
    BY DEF Shapes, MutexIsHeld, VisibleIsHolders, DeliversToVisible, clientVars, mqttVars, networkVars
  <2>3. SemaphoreIsBack'
    BY DEF Shapes, MutexIsHeld, SemaphoreIsBack, clientVars, mqttVars, networkVars
  <2>4. ResultIsOwn'
    BY OutcomesAreNobodys DEF Shapes, MutexIsHeld, ResultIsOwn, IsOwn, clientVars, mqttVars, networkVars
  <2>5. ReturnIsOwn'
    BY OutcomesAreNobodys DEF Shapes, MutexIsHeld, ResultIsOwn, ReturnIsOwn, Result, clientVars, mqttVars, networkVars
  <2> QED  BY <2>1, <2>2, <2>3, <2>4, <2>5
<1>5. CASE GiveSemaphore(t)
  <2> USE <1>5 DEF GiveSemaphore
  <2>1. Shapes' /\ MutexIsHeld' /\ QuietUntilCreated' /\ BlankWhenFree'
    BY DEF Shapes, MutexIsHeld, QuietUntilCreated, BlankWhenFree, clientVars, mqttVars, networkVars
  <2>2. VisibleIsHolders' /\ DeliversToVisible'
    BY DEF Shapes, MutexIsHeld, VisibleIsHolders, DeliversToVisible, clientVars, mqttVars, networkVars
  <2>3. SemaphoreIsBack'
    BY DEF Shapes, MutexIsHeld, SemaphoreIsBack, clientVars, mqttVars, networkVars
  <2>4. ResultIsOwn'
    BY OutcomesAreNobodys DEF Shapes, MutexIsHeld, ResultIsOwn, IsOwn, clientVars, mqttVars, networkVars
  <2>5. ReturnIsOwn'
    BY OutcomesAreNobodys DEF Shapes, MutexIsHeld, ResultIsOwn, ReturnIsOwn, Result, clientVars, mqttVars, networkVars
  <2> QED  BY <2>1, <2>2, <2>3, <2>4, <2>5
<1> QED  BY <1>1, <1>2, <1>3, <1>4, <1>5

LEMMA ClosingInv ==
    ASSUME NEW t \in Tasks, IInv, CleanUp(t) \/ UnsubscribeFromAccepted(t) \/ UnsubscribeFromRejected(t) \/ ReleaseOperation(t)
    PROVE  IInv'
<1> USE TasksAssumption DEF IInv, GoesTo, Returns, Opening, Waiting, Closing, Locked
<1>1. CASE CleanUp(t)
  <2> USE <1>1 DEF CleanUp, clientRest, FillTopic, OperationOf, Topic
  <2>1. Shapes' /\ MutexIsHeld' /\ QuietUntilCreated' /\ BlankWhenFree'
    BY DEF Shapes, MutexIsHeld, QuietUntilCreated, BlankWhenFree, mqttVars
  <2>2. VisibleIsHolders' /\ DeliversToVisible'
    BY DEF Shapes, MutexIsHeld, VisibleIsHolders, DeliversToVisible, mqttVars
  <2>3. SemaphoreIsBack'
    BY DEF Shapes, MutexIsHeld, SemaphoreIsBack, mqttVars
  <2>4. ResultIsOwn'
    BY OutcomesAreNobodys DEF Shapes, MutexIsHeld, ResultIsOwn, IsOwn, mqttVars
  <2>5. ReturnIsOwn'
    BY OutcomesAreNobodys DEF Shapes, MutexIsHeld, ResultIsOwn, ReturnIsOwn, Result, mqttVars
  <2> QED  BY <2>1, <2>2, <2>3, <2>4, <2>5
<1>2. CASE UnsubscribeFromAccepted(t)
  <2> USE <1>2 DEF UnsubscribeFromAccepted, clientRest, FillTopic, OperationOf, Topic
  <2>1. Shapes' /\ MutexIsHeld' /\ QuietUntilCreated' /\ BlankWhenFree'
    BY DEF Shapes, MutexIsHeld, QuietUntilCreated, BlankWhenFree, mqttVars
  <2>2. VisibleIsHolders' /\ DeliversToVisible'
    BY DEF Shapes, MutexIsHeld, VisibleIsHolders, DeliversToVisible, mqttVars
  <2>3. SemaphoreIsBack'
    BY DEF Shapes, MutexIsHeld, SemaphoreIsBack, mqttVars
  <2>4. ResultIsOwn'
    BY OutcomesAreNobodys DEF Shapes, MutexIsHeld, ResultIsOwn, IsOwn, mqttVars
  <2>5. ReturnIsOwn'
    BY OutcomesAreNobodys DEF Shapes, MutexIsHeld, ResultIsOwn, ReturnIsOwn, Result, mqttVars
  <2> QED  BY <2>1, <2>2, <2>3, <2>4, <2>5
<1>3. CASE UnsubscribeFromRejected(t)
  <2> USE <1>3 DEF UnsubscribeFromRejected, clientRest, FillTopic, OperationOf, Topic
  <2>1. Shapes' /\ MutexIsHeld' /\ QuietUntilCreated' /\ BlankWhenFree'
    BY DEF Shapes, MutexIsHeld, QuietUntilCreated, BlankWhenFree, mqttVars
  <2>2. VisibleIsHolders' /\ DeliversToVisible'
    BY DEF Shapes, MutexIsHeld, VisibleIsHolders, DeliversToVisible, mqttVars
  <2>3. SemaphoreIsBack'
    BY DEF Shapes, MutexIsHeld, SemaphoreIsBack, mqttVars
  <2>4. ResultIsOwn'
    BY OutcomesAreNobodys DEF Shapes, MutexIsHeld, ResultIsOwn, IsOwn, mqttVars
  <2>5. ReturnIsOwn'
    BY OutcomesAreNobodys DEF Shapes, MutexIsHeld, ResultIsOwn, ReturnIsOwn, Result, mqttVars
  <2> QED  BY <2>1, <2>2, <2>3, <2>4, <2>5
<1>4. CASE ReleaseOperation(t)
  <2> USE <1>4 DEF ReleaseOperation
  <2>1. Shapes' /\ MutexIsHeld' /\ QuietUntilCreated' /\ BlankWhenFree'
    BY DEF Shapes, MutexIsHeld, QuietUntilCreated, BlankWhenFree, clientVars, mqttVars, networkVars
  <2>2. VisibleIsHolders' /\ DeliversToVisible'
    BY DEF Shapes, MutexIsHeld, VisibleIsHolders, DeliversToVisible, clientVars, mqttVars, networkVars
  <2>3. SemaphoreIsBack'
    BY DEF Shapes, MutexIsHeld, SemaphoreIsBack, clientVars, mqttVars, networkVars
  <2>4. ResultIsOwn'
    BY OutcomesAreNobodys DEF Shapes, MutexIsHeld, ResultIsOwn, IsOwn, clientVars, mqttVars, networkVars
  <2>5. ReturnIsOwn'
    BY OutcomesAreNobodys DEF Shapes, MutexIsHeld, ResultIsOwn, ReturnIsOwn, Result, clientVars, mqttVars, networkVars
  <2> QED  BY <2>1, <2>2, <2>3, <2>4, <2>5
<1> QED  BY <1>1, <1>2, <1>3, <1>4

LEMMA RegisterInv ==
    ASSUME NEW t \in Tasks, IInv, prvGetCallbackCatalogEntry(t) \/ LeaveOldTopic(t) \/ JoinNewTopic(t) \/ FreeEmptyEntry(t)
    PROVE  IInv'
<1> USE TasksAssumption DEF IInv, GoesTo, Returns, Opening, Waiting, Closing, Locked
<1>1. CASE prvGetCallbackCatalogEntry(t)
  <2> USE <1>1 DEF prvGetCallbackCatalogEntry
  <2>1. Shapes' /\ MutexIsHeld' /\ QuietUntilCreated' /\ BlankWhenFree'
    BY DEF Shapes, MutexIsHeld, QuietUntilCreated, BlankWhenFree, clientVars, mqttVars, networkVars
  <2>2. VisibleIsHolders' /\ DeliversToVisible'
    BY DEF Shapes, MutexIsHeld, VisibleIsHolders, DeliversToVisible, clientVars, mqttVars, networkVars
  <2>3. SemaphoreIsBack'
    BY DEF Shapes, MutexIsHeld, SemaphoreIsBack, clientVars, mqttVars, networkVars
  <2>4. ResultIsOwn'
    BY OutcomesAreNobodys DEF Shapes, MutexIsHeld, ResultIsOwn, IsOwn, clientVars, mqttVars, networkVars
  <2>5. ReturnIsOwn'
    BY OutcomesAreNobodys DEF Shapes, MutexIsHeld, ResultIsOwn, ReturnIsOwn, Result, clientVars, mqttVars, networkVars
  <2> QED  BY <2>1, <2>2, <2>3, <2>4, <2>5
<1>2. CASE LeaveOldTopic(t)
  <2> USE <1>2 DEF LeaveOldTopic, clientRest, FillTopic, OperationOf, Topic
  <2>1. Shapes' /\ MutexIsHeld' /\ QuietUntilCreated' /\ BlankWhenFree'
    BY DEF Shapes, MutexIsHeld, QuietUntilCreated, BlankWhenFree, mqttVars
  <2>2. VisibleIsHolders' /\ DeliversToVisible'
    BY DEF Shapes, MutexIsHeld, VisibleIsHolders, DeliversToVisible, mqttVars
  <2>3. SemaphoreIsBack'
    BY DEF Shapes, MutexIsHeld, SemaphoreIsBack, mqttVars
  <2>4. ResultIsOwn'
    BY OutcomesAreNobodys DEF Shapes, MutexIsHeld, ResultIsOwn, IsOwn, mqttVars
  <2>5. ReturnIsOwn'
    BY OutcomesAreNobodys DEF Shapes, MutexIsHeld, ResultIsOwn, ReturnIsOwn, Result, mqttVars
  <2> QED  BY <2>1, <2>2, <2>3, <2>4, <2>5
<1>3. CASE JoinNewTopic(t)
  <2>1. /\ pc[t] = "new" /\ \E next \in {"old", "registered"} : pc' = [pc EXCEPT ![t] = next]
        /\ \E ok \in BOOLEAN : ret' = [ret EXCEPT ![t] = Result(ok)]
    BY <1>3, Zenon DEF JoinNewTopic
  <2>2. UNCHANGED <<xInUse, xOperationMutex, xCallbackSemaphore, pxOperationData,
                    xOperationResult, ucTopicBuffer, call, delivering, halted>>
    BY <1>3 DEF JoinNewTopic, mqttVars
  <2>3. Shapes' /\ MutexIsHeld' /\ QuietUntilCreated' /\ BlankWhenFree'
    BY <2>1, <2>2 DEF Shapes, MutexIsHeld, QuietUntilCreated, BlankWhenFree
  <2>4. VisibleIsHolders' /\ DeliversToVisible'
    BY <2>1, <2>2 DEF Shapes, MutexIsHeld, VisibleIsHolders, DeliversToVisible
  <2>5. SemaphoreIsBack'
    BY <2>1, <2>2 DEF Shapes, MutexIsHeld, SemaphoreIsBack
  <2>6. ResultIsOwn' /\ ReturnIsOwn'
    BY <2>1, <2>2, OutcomesAreNobodys DEF Shapes, ResultIsOwn, ReturnIsOwn, Result, IsOwn
  <2> QED  BY <2>3, <2>4, <2>5, <2>6
<1>4. CASE FreeEmptyEntry(t)
  <2> USE <1>4 DEF FreeEmptyEntry
  <2>1. Shapes' /\ MutexIsHeld' /\ QuietUntilCreated' /\ BlankWhenFree'
    BY DEF Shapes, MutexIsHeld, QuietUntilCreated, BlankWhenFree, clientVars, mqttVars, networkVars
  <2>2. VisibleIsHolders' /\ DeliversToVisible'
    BY DEF Shapes, MutexIsHeld, VisibleIsHolders, DeliversToVisible, clientVars, mqttVars, networkVars
  <2>3. SemaphoreIsBack'
    BY DEF Shapes, MutexIsHeld, SemaphoreIsBack, clientVars, mqttVars, networkVars
  <2>4. ResultIsOwn'
    BY OutcomesAreNobodys DEF Shapes, MutexIsHeld, ResultIsOwn, IsOwn, clientVars, mqttVars, networkVars
  <2>5. ReturnIsOwn'
    BY OutcomesAreNobodys DEF Shapes, MutexIsHeld, ResultIsOwn, ReturnIsOwn, Result, clientVars, mqttVars, networkVars
  <2> QED  BY <2>1, <2>2, <2>3, <2>4, <2>5
<1> QED  BY <1>1, <1>2, <1>3, <1>4

LEMMA TaskStepInv == ASSUME NEW t \in Tasks, IInv, TaskStep(t) PROVE IInv'
BY OpeningInv, WaitingInv, ClosingInv, RegisterInv
   DEF TaskStep, prvShadowOperation, SHADOW_RegisterCallbacks

\* The callback's steps, in the MQTT task.
LEMMA CallbackInv == ASSUME IInv, CallbackStep PROVE IInv'
<1> USE DEF IInv, CallbackStep
<1> UNCHANGED <<xInUse, xOperationMutex, pxOperationData, ucTopicBuffer, pc, call, ret>>
  BY DEF prvShadowMQTTCallback, OperationAnswered, OtherMessage, SemaphoreGiven,
         ClientIsDeleted, callbackRest, taskVars
<1>1. (MutexIsHeld /\ VisibleIsHolders /\ BlankWhenFree /\ QuietUntilCreated /\ ReturnIsOwn)'
  BY DEF MutexIsHeld, VisibleIsHolders, BlankWhenFree, QuietUntilCreated, ReturnIsOwn, IsOwn
<1>2. CASE OperationAnswered
  <2> USE <1>2 DEF OperationAnswered
  <2>1. Shapes' /\ DeliversToVisible' /\ SemaphoreIsBack'
    BY DEF Shapes, DeliversToVisible, SemaphoreIsBack, IsAnswer
  <2>2. ResultIsOwn'
    <3> DEFINE m == Head(inbox)
    <3>1. xOperationMutex \in Tasks /\ pxOperationData = call[xOperationMutex]
      BY DEF IsAnswer, VisibleIsHolders
    <3>2. m.topic.thing = pxOperationData.thing /\ m.topic.op = pxOperationData.op
      BY DEF IsAnswer, VisibleIsHolders
    <3>3. pxOperationData.op = "Update" => m.id = pxOperationData.id
      BY DEF TokenMatches
    <3> QED  BY <3>1, <3>2, <3>3, TasksAssumption DEF ResultIsOwn, IsOwn
  <2> QED  BY <1>1, <2>1, <2>2
<1>3. CASE OtherMessage
  BY <1>1, <1>3 DEF OtherMessage, mqttVars, Shapes, DeliversToVisible, SemaphoreIsBack,
                    ResultIsOwn, IsOwn
<1>4. CASE SemaphoreGiven
  BY <1>1, <1>4 DEF SemaphoreGiven, Shapes, DeliversToVisible, SemaphoreIsBack, ResultIsOwn,
                    IsOwn
<1>5. CASE ClientIsDeleted
  BY <1>5, UntouchedInv DEF ClientIsDeleted, untouched, callbackRest, taskVars
<1> QED  BY <1>2, <1>3, <1>4, <1>5 DEF prvShadowMQTTCallback

LEMMA StepInv == IInv /\ [Next]_vars => IInv'
<1> SUFFICES ASSUME IInv, [Next]_vars PROVE IInv'
  OBVIOUS
<1>1. CASE UNCHANGED vars
  BY <1>1, UntouchedInv DEF vars, untouched, clientVars, taskVars, mqttVars
<1>2. CASE \E t \in Tasks : Application(t) \/ TaskStep(t)
  BY <1>2, ApplicationInv, TaskStepInv
<1>3. CASE CallbackStep \/ Client \/ Service
  BY <1>3, CallbackInv, LifeInv, ServiceInv DEF Client
<1> QED  BY <1>1, <1>2, <1>3 DEF Next

\* The inductive invariant holds in every state of the shadow client.
THEOREM Invariance == Spec => []IInv
BY InitInv, StepInv, PTL DEF Spec

-----------------------------------------------------------------------------
(* What follows.                                                           *)

\* However an operation ends, it leaves the client clean for the next one.
THEOREM ClientIsLeftClean == Spec => []CleanBetweenOperations
<1>1. IInv => CleanBetweenOperations
  BY TasksAssumption DEF IInv, VisibleIsHolders, DeliversToVisible, SemaphoreIsBack,
                         BlankWhenFree, CleanBetweenOperations
<1> QED  BY <1>1, Invariance, PTL

\* No call returns the answer to another operation, Thing or, for updates, token.
THEOREM AnswersAreOwn == Spec => []AnswerIsOwn
<1>1. IInv => AnswerIsOwn
  BY DEF IInv, ReturnIsOwn, IsOwn, AnswerIsOwn
<1> QED  BY <1>1, Invariance, PTL

-----------------------------------------------------------------------------
(* The buffers of answers.                                                 *)

Holders == {t \in Tasks : HasBuffer(ret[t])}

\* The task waits for an answer that the callback has already brought, or has seen
\* it and not read it.
Brought == \E t \in Tasks : \/ pc[t] = "read"
                           \/ /\ pc[t] \in {"publish", "publishing", "wait"}
                              /\ xCallbackSemaphore = 1

\* An answer too many is on its way through the callback, or has given the semaphore:
\* one of the two that will give it finds it available, and the board stops.
Doomed ==
    \E t \in Tasks :
        \/ /\ pc[t] \in {"publish", "publishing", "wait"}
           /\ xCallbackSemaphore = 1 /\ delivering # NoMsg
        \/ /\ pc[t] \in {"read", "give"}
           /\ xCallbackSemaphore = 1 \/ delivering # NoMsg
        \/ pc[t] \in Closing /\ delivering # NoMsg

\* A task that may still be given an answer has no buffer.
EmptyHanded ==
    \A t \in Tasks : pc[t] \notin Closing \cup {"idle", "give"} => ~HasBuffer(ret[t])

DeliversResult == delivering # NoMsg => xOperationResult = delivering

OnItsWay == IF Brought /\ HasBuffer(xOperationResult) THEN 1 ELSE 0

Accounted == ~halted /\ ~Doomed => kept = Cardinality(Holders) + OnItsWay

BInv == IInv /\ EmptyHanded /\ DeliversResult /\ Accounted

LEMMA OutcomesHaveNoBuffer == ASSUME NEW o PROVE ~HasBuffer(Outcome(o))
BY DEF HasBuffer, Outcome, Topic

LEMMA HoldersFinite == IsFiniteSet(Holders) /\ Cardinality(Holders) \in Nat
BY TasksAssumption, FS_Subset, FS_CardinalityType DEF Holders

LEMMA InitBInv == Init => BInv
<1> SUFFICES ASSUME Init PROVE BInv
  OBVIOUS
<1>1. Holders = {}
  BY OutcomesHaveNoBuffer DEF Init, Holders
<1>2. Cardinality(Holders) = 0
  BY <1>1, FS_EmptySet
<1>3. OnItsWay = 0
  BY OutcomesHaveNoBuffer DEF Init, OnItsWay
<1>4. EmptyHanded /\ DeliversResult
  BY OutcomesHaveNoBuffer DEF Init, EmptyHanded, DeliversResult
<1> QED  BY <1>2, <1>3, <1>4, InitInv DEF BInv, Accounted, Init

\* A step that changes neither who holds a buffer nor what is on its way.
LEMMA QuietStep ==
    ASSUME BInv, IInv', Holders' = Holders, UNCHANGED kept, EmptyHanded', DeliversResult',
           ~halted' => ~halted,
           ~halted' /\ ~Doomed' => ~Doomed /\ OnItsWay' = OnItsWay
    PROVE  BInv'
BY DEF BInv, Accounted

LEMMA OtherStepsBInv ==
    ASSUME BInv, IInv', UNCHANGED <<kept, delivering, xOperationResult>>, ~halted' => ~halted,
           \A t \in Tasks : pc[t] \in Locked \/ pc'[t] \in Locked => pc'[t] = pc[t],
           \A t \in Tasks : pc'[t] \notin {"idle"} =>
               ~HasBuffer(ret'[t]) \/ (pc'[t] = pc[t] /\ ret'[t] = ret[t]),
           \A t \in Tasks : HasBuffer(ret'[t]) <=> HasBuffer(ret[t]),
           (\E t \in Tasks : pc[t] \in Locked) => UNCHANGED xCallbackSemaphore
    PROVE  BInv'
<1>1. Holders' = Holders
  BY DEF Holders
<1>2. EmptyHanded' /\ DeliversResult'
  BY DEF BInv, EmptyHanded, DeliversResult
<1>3. (Doomed' <=> Doomed) /\ (Brought' <=> Brought)
  BY DEF Doomed, Brought, Locked, Opening, Waiting, Closing
<1>4. OnItsWay' = OnItsWay
  BY <1>3 DEF OnItsWay
<1> QED  BY <1>1, <1>2, <1>3, <1>4, QuietStep

\* Of the task that holds the mutex everything else depends.
LEMMA OnlyHolder ==
    ASSUME NEW t \in Tasks, IInv, pc[t] \in Locked
    PROVE  \A u \in Tasks : u # t => pc[u] \notin Locked
BY TasksAssumption DEF IInv, MutexIsHeld

LEMMA OpeningIsUnseen ==
    ASSUME NEW t \in Tasks, IInv, pc[t] \in Opening PROVE delivering = NoMsg
BY TasksAssumption DEF IInv, MutexIsHeld, DeliversToVisible, VisibleIsHolders, Locked

\* A step of the holder in which no buffer changes hands.
LEMMA HolderStep ==
    ASSUME NEW t \in Tasks, BInv, IInv', NEW p,
           pc[t] \in Locked, pc' = [pc EXCEPT ![t] = p],
           UNCHANGED <<kept, halted, delivering, xOperationResult>>,
           \A u \in Tasks : u # t => ret'[u] = ret[u],
           HasBuffer(ret'[t]) <=> HasBuffer(ret[t]),
           p \in Closing \cup {"idle", "give"} \/ ~HasBuffer(ret'[t]),
           p \notin {"publish", "publishing", "wait", "read", "give"} \cup Closing
             => pc[t] \notin Waiting /\ delivering = NoMsg,
           pc[t] \in Opening => p \in Opening \cup Closing
                                \/ (p = "publish" /\ xCallbackSemaphore' = 0),
           p = "publish" => pc[t] \in Opening,
           p = "publishing" => pc[t] = "publish" /\ UNCHANGED xCallbackSemaphore,
           p = "wait" => pc[t] = "publishing" /\ UNCHANGED xCallbackSemaphore,
           p = "read" => pc[t] = "wait" /\ xCallbackSemaphore = 1 /\ xCallbackSemaphore' = 0,
           p = "give" => pc[t] \in {"publish", "publishing", "wait"}
                         /\ UNCHANGED xCallbackSemaphore,
           p \in Closing => \/ pc[t] \in Opening \cup Closing
                             \/ (pc[t] = "give" /\ xCallbackSemaphore = 0)
    PROVE  BInv'
<1>1. \A u \in Tasks : u # t => pc[u] \notin Locked
  BY OnlyHolder DEF BInv
<1>2. DOMAIN pc = Tasks /\ pc'[t] = p /\ \A u \in Tasks : u # t => pc'[u] = pc[u]
  BY DEF BInv, IInv, Shapes
<1>3. Holders' = Holders
  BY DEF Holders
<1>4. EmptyHanded' /\ DeliversResult'
  BY <1>2 DEF BInv, EmptyHanded, DeliversResult
<1>5. pc[t] \in Opening => delivering = NoMsg
  BY OpeningIsUnseen DEF BInv
<1>6. xCallbackSemaphore \in {0, 1} /\ xCallbackSemaphore' \in {0, 1}
  BY DEF BInv, IInv, Shapes
<1> HIDE DEF BInv
<1> DEFINE B(q, s) == q = "read" \/ (q \in {"publish", "publishing", "wait"} /\ s = 1)
           D(q, s, d) == \/ q \in {"publish", "publishing", "wait"} /\ s = 1 /\ d # NoMsg
                         \/ q \in {"read", "give"} /\ (s = 1 \/ d # NoMsg)
                         \/ q \in Closing /\ d # NoMsg
<1>7. ~Doomed' => ~Doomed /\ (Brought' <=> Brought)
  <2>1. (Brought <=> B(pc[t], xCallbackSemaphore)) /\ (Brought' <=> B(p, xCallbackSemaphore'))
    BY <1>1, <1>2 DEF Brought, Locked, Opening, Waiting, Closing
  <2>2. /\ Doomed <=> D(pc[t], xCallbackSemaphore, delivering)
        /\ Doomed' <=> D(p, xCallbackSemaphore', delivering)
    BY <1>1, <1>2 DEF Doomed, Locked, Opening, Waiting, Closing
  <2>3. ~D(p, xCallbackSemaphore', delivering) => ~D(pc[t], xCallbackSemaphore, delivering)
        /\ (B(p, xCallbackSemaphore') <=> B(pc[t], xCallbackSemaphore))
    BY <1>5, <1>6 DEF Locked, Opening, Waiting, Closing
  <2> QED  BY <2>1, <2>2, <2>3
<1>8. ~Doomed' => OnItsWay' = OnItsWay
  BY <1>7 DEF OnItsWay
<1> QED  BY <1>3, <1>4, <1>7, <1>8, QuietStep

\* A step of a task that is in no operation and has no buffer.
LEMMA IdleStepBInv ==
    ASSUME NEW t \in Tasks, BInv, IInv',
           UNCHANGED <<kept, halted, delivering, xOperationResult, xCallbackSemaphore>>,
           \A u \in Tasks : u # t => pc'[u] = pc[u] /\ ret'[u] = ret[u],
           ~HasBuffer(ret[t]), ~HasBuffer(ret'[t]),
           pc[t] \notin Locked, pc'[t] \notin Locked
    PROVE  BInv'
<1>1. \A u \in Tasks : HasBuffer(ret'[u]) <=> HasBuffer(ret[u])
  OBVIOUS
<1>2. Holders' = Holders
  BY <1>1 DEF Holders
<1>3. EmptyHanded' /\ DeliversResult'
  BY DEF BInv, EmptyHanded, DeliversResult
<1>4. (Doomed' <=> Doomed) /\ (Brought' <=> Brought)
  BY DEF Doomed, Brought, Locked, Opening, Waiting, Closing
<1>5. OnItsWay' = OnItsWay
  BY <1>4 DEF OnItsWay
<1> QED  BY <1>2, <1>3, <1>4, <1>5, QuietStep

LEMMA OpeningBInv ==
    ASSUME NEW t \in Tasks, BInv, IInv',
           TakeOperationMutex(t) \/ SubscribeToAccepted(t) \/ SubscribeToRejected(t)
             \/ UndoAccepted(t) \/ Prepare(t)
    PROVE  BInv'
<1> USE DEF GoesTo, Returns
<1>0. DOMAIN pc = Tasks /\ DOMAIN ret = Tasks /\ xCallbackSemaphore \in {0, 1}
  BY DEF BInv, IInv, Shapes
<1>1. CASE TakeOperationMutex(t)
  <2>1. ~HasBuffer(ret[t])
    BY <1>1 DEF TakeOperationMutex, BInv, EmptyHanded, Closing
  <2>2. CASE xOperationMutex = NoTask
    <3>1. \A u \in Tasks : pc[u] \notin Locked
      BY <2>2, TasksAssumption DEF BInv, IInv, MutexIsHeld
    <3>2. pc'[t] \in Opening /\ \A u \in Tasks : u # t => pc'[u] = pc[u]
      BY <1>0, <1>1, <2>2 DEF TakeOperationMutex, Opening
    <3>3. UNCHANGED <<ret, kept, halted, delivering, xOperationResult>>
      BY <1>1, <2>2 DEF TakeOperationMutex, mqttVars
    <3>4. Holders' = Holders /\ EmptyHanded' /\ DeliversResult'
      BY <2>1, <3>2, <3>3 DEF Holders, BInv, EmptyHanded, DeliversResult
    <3>5. ~Brought /\ ~Brought' /\ ~Doomed
      BY <3>1, <3>2 DEF Brought, Doomed, Locked, Opening, Waiting, Closing
    <3>6. OnItsWay' = OnItsWay
      BY <3>5 DEF OnItsWay
    <3> QED  BY <3>3, <3>4, <3>5, <3>6, QuietStep
  <2>3. CASE xOperationMutex # NoTask
    <3>1. /\ pc[t] = "lock" /\ pc' = [pc EXCEPT ![t] = "idle"]
          /\ ret' = [ret EXCEPT ![t] = Outcome("failed")]
          /\ UNCHANGED <<xCallbackSemaphore, kept, halted, delivering, xOperationResult>>
      BY <1>1, <2>3 DEF TakeOperationMutex, mqttVars
    <3> QED
      BY <1>0, <2>1, <3>1, OutcomesHaveNoBuffer, OtherStepsBInv
         DEF Locked, Opening, Waiting, Closing
  <2> QED  BY <2>2, <2>3
<1>2. CASE SubscribeToAccepted(t) \/ SubscribeToRejected(t) \/ UndoAccepted(t)
  <2>1. /\ pc[t] \in Opening /\ UNCHANGED <<kept, halted, delivering, xOperationResult>>
        /\ \E p \in Opening \cup {"cleanup"} : pc' = [pc EXCEPT ![t] = p]
        /\ UNCHANGED ret \/ \E ok \in BOOLEAN : ret' = [ret EXCEPT ![t] = Result(ok)]
    <3>1. CASE SubscribeToAccepted(t)
      BY <3>1 DEF SubscribeToAccepted, clientRest, mqttVars, Opening
    <3>2. CASE SubscribeToRejected(t)
      BY <3>2 DEF SubscribeToRejected, clientRest, mqttVars, Opening
    <3>3. CASE UndoAccepted(t)
      BY <3>3 DEF UndoAccepted, clientRest, mqttVars, Opening
    <3> QED  BY <1>2, <3>1, <3>2, <3>3
  <2>2. PICK p \in Opening \cup {"cleanup"} : pc' = [pc EXCEPT ![t] = p]
    BY <2>1
  <2>3. ~HasBuffer(ret[t])
    BY <2>1 DEF BInv, EmptyHanded, Opening, Closing
  <2>4. ~HasBuffer(ret'[t]) /\ \A u \in Tasks : u # t => ret'[u] = ret[u]
    BY <1>0, <2>1, <2>3, OutcomesHaveNoBuffer DEF Result
  <2>5. delivering = NoMsg
    BY <2>1, OpeningIsUnseen DEF BInv
  <2> QED
    BY <2>1, <2>2, <2>3, <2>4, <2>5, HolderStep DEF Locked, Opening, Waiting, Closing
<1>3. CASE Prepare(t)
  <2>1. /\ pc[t] = "prepare" /\ UNCHANGED <<ret, kept, delivering, xOperationResult>>
        /\ \/ halted' /\ UNCHANGED pc
           \/ /\ pc' = [pc EXCEPT ![t] = "publish"]
              /\ xCallbackSemaphore' = 0 /\ UNCHANGED halted
    BY <1>3 DEF Prepare
  <2>2. ~HasBuffer(ret[t])
    BY <2>1 DEF BInv, EmptyHanded, Closing
  <2>3. CASE halted' /\ UNCHANGED pc
    BY <2>1, <2>3, QuietStep DEF Holders, BInv, EmptyHanded, DeliversResult
  <2>4. CASE ~(halted' /\ UNCHANGED pc)
    BY <2>1, <2>2, <2>4, HolderStep DEF Locked, Opening, Waiting, Closing
  <2> QED  BY <2>3, <2>4
<1> QED  BY <1>1, <1>2, <1>3

LEMMA WaitingBInv ==
    ASSUME NEW t \in Tasks, BInv, IInv',
           PublishOperation(t) \/ PublishReturns(t) \/ WaitForAnswer(t) \/ ReadResult(t)
             \/ GiveSemaphore(t)
    PROVE  BInv'
<1> USE DEF GoesTo, Returns
<1>0. DOMAIN pc = Tasks /\ DOMAIN ret = Tasks /\ xCallbackSemaphore \in {0, 1}
  BY DEF BInv, IInv, Shapes
<1>1. CASE PublishOperation(t) \/ PublishReturns(t) \/ WaitForAnswer(t)
  <2>1. /\ UNCHANGED <<kept, halted, delivering, xOperationResult>>
        /\ UNCHANGED ret \/ \E s : ret' = [ret EXCEPT ![t] = Outcome(s)]
    BY <1>1 DEF PublishOperation, PublishReturns, WaitForAnswer, clientVars, mqttVars
  <2>2. \/ /\ pc[t] = "publish" /\ pc' = [pc EXCEPT ![t] = "publishing"]
           /\ UNCHANGED xCallbackSemaphore
        \/ /\ pc[t] = "publishing" /\ pc' = [pc EXCEPT ![t] = "wait"]
           /\ UNCHANGED xCallbackSemaphore
        \/ /\ pc[t] = "wait" /\ pc' = [pc EXCEPT ![t] = "read"]
           /\ xCallbackSemaphore = 1 /\ xCallbackSemaphore' = 0
        \/ /\ pc[t] \in {"publish", "publishing", "wait"}
           /\ pc' = [pc EXCEPT ![t] = "give"] /\ UNCHANGED xCallbackSemaphore
    BY <1>1 DEF PublishOperation, PublishReturns, WaitForAnswer, clientVars
  <2>3. ~HasBuffer(ret[t])
    BY <2>2 DEF BInv, EmptyHanded, Closing
  <2>4. ~HasBuffer(ret'[t]) /\ \A u \in Tasks : u # t => ret'[u] = ret[u]
    BY <1>0, <2>1, <2>3, OutcomesHaveNoBuffer
  <2> QED
    BY <2>1, <2>2, <2>3, <2>4, HolderStep DEF Locked, Opening, Waiting, Closing
<1>2. CASE ReadResult(t)
  <2>1. /\ pc[t] = "read" /\ pc' = [pc EXCEPT ![t] = "give"]
        /\ ret' = [ret EXCEPT ![t] = xOperationResult]
        /\ UNCHANGED <<kept, halted, delivering, xOperationResult, xCallbackSemaphore>>
    BY <1>2 DEF ReadResult, clientVars, mqttVars
  <2>2. \A u \in Tasks : u # t => pc[u] \notin Locked
    BY <2>1, OnlyHolder DEF BInv, Locked, Waiting
  <2>3. ~HasBuffer(ret[t])
    BY <2>1 DEF BInv, EmptyHanded, Closing
  <2>4. Brought /\ ~Brought' /\ (Doomed' <=> Doomed)
    BY <1>0, <2>1, <2>2 DEF Brought, Doomed, Locked, Opening, Waiting, Closing
  <2>5. EmptyHanded' /\ DeliversResult'
    BY <1>0, <2>1 DEF BInv, EmptyHanded, DeliversResult
  <2>6. CASE HasBuffer(xOperationResult)
    <3>1. Holders' = Holders \cup {t} /\ t \notin Holders
      BY <1>0, <2>1, <2>3, <2>6 DEF Holders
    <3>2. Cardinality(Holders') = Cardinality(Holders) + 1
      BY <3>1, HoldersFinite, FS_AddElement
    <3>3. OnItsWay = 1 /\ OnItsWay' = 0
      BY <2>4, <2>6 DEF OnItsWay
    <3> QED  BY <2>1, <2>4, <2>5, <3>2, <3>3, HoldersFinite DEF BInv, Accounted
  <2>7. CASE ~HasBuffer(xOperationResult)
    <3>1. Holders' = Holders
      BY <1>0, <2>1, <2>3, <2>7 DEF Holders
    <3>2. OnItsWay' = OnItsWay
      BY <2>1, <2>7 DEF OnItsWay
    <3> QED  BY <2>1, <2>4, <2>5, <3>1, <3>2, QuietStep
  <2> QED  BY <2>6, <2>7
<1>3. CASE GiveSemaphore(t)
  <2>1. /\ pc[t] = "give" /\ UNCHANGED <<ret, kept, delivering, xOperationResult>>
        /\ \/ halted' /\ UNCHANGED pc
           \/ /\ pc' = [pc EXCEPT ![t] = "cleanup"]
              /\ xCallbackSemaphore = 0 /\ UNCHANGED halted
    BY <1>0, <1>3 DEF GiveSemaphore
  <2>2. CASE halted' /\ UNCHANGED pc
    BY <2>1, <2>2, QuietStep DEF Holders, BInv, EmptyHanded, DeliversResult
  <2>3. CASE ~(halted' /\ UNCHANGED pc)
    BY <2>1, <2>3, HolderStep DEF Locked, Opening, Waiting, Closing
  <2> QED  BY <2>2, <2>3
<1> QED  BY <1>1, <1>2, <1>3

LEMMA ClosingBInv ==
    ASSUME NEW t \in Tasks, BInv, IInv',
           CleanUp(t) \/ UnsubscribeFromAccepted(t) \/ UnsubscribeFromRejected(t)
             \/ ReleaseOperation(t)
    PROVE  BInv'
<1> USE DEF GoesTo
<1>1. CASE CleanUp(t) \/ UnsubscribeFromAccepted(t) \/ UnsubscribeFromRejected(t)
  <2>1. /\ pc[t] \in Closing /\ \E p \in Closing : pc' = [pc EXCEPT ![t] = p]
        /\ UNCHANGED <<ret, kept, halted, delivering, xOperationResult>>
    BY <1>1 DEF CleanUp, UnsubscribeFromAccepted, UnsubscribeFromRejected, clientRest, mqttVars,
                Closing
  <2>2. PICK p \in Closing : pc' = [pc EXCEPT ![t] = p]
    BY <2>1
  <2> QED  BY <2>1, <2>2, HolderStep DEF Locked, Opening, Waiting, Closing
<1>2. CASE ReleaseOperation(t)
  <2>1. /\ pc[t] = "release" /\ pc' = [pc EXCEPT ![t] = "idle"] /\ delivering = NoMsg
        /\ UNCHANGED <<ret, kept, halted, delivering>>
    BY <1>2 DEF ReleaseOperation, mqttVars
  <2>2. \A u \in Tasks : u # t => pc[u] \notin Locked
    BY <2>1, OnlyHolder DEF BInv, Locked, Closing
  <2>3. ~Brought /\ ~Brought' /\ ~Doomed
    BY <2>1, <2>2 DEF BInv, IInv, Shapes, Brought, Doomed, Locked, Opening, Waiting, Closing
  <2>4. Holders' = Holders /\ EmptyHanded' /\ DeliversResult' /\ OnItsWay' = OnItsWay
    BY <2>1, <2>3 DEF BInv, IInv, Shapes, Holders, EmptyHanded, DeliversResult, OnItsWay
  <2> QED  BY <2>1, <2>3, <2>4, QuietStep
<1> QED  BY <1>1, <1>2

LEMMA RegisterBInv ==
    ASSUME NEW t \in Tasks, BInv, IInv', SHADOW_RegisterCallbacks(t)
    PROVE  BInv'
<1> USE DEF GoesTo, Returns
<1>0. DOMAIN pc = Tasks /\ DOMAIN ret = Tasks
  BY DEF BInv, IInv, Shapes
<1>1. /\ pc[t] \in RegisterSteps
      /\ UNCHANGED <<kept, delivering, xOperationResult, xCallbackSemaphore>>
      /\ \/ UNCHANGED <<ret, pc>> /\ halted'
         \/ /\ \E p \in RegisterSteps \cup {"idle"} : pc' = [pc EXCEPT ![t] = p]
            /\ UNCHANGED ret \/ \E ok \in BOOLEAN : ret' = [ret EXCEPT ![t] = Result(ok)]
            /\ UNCHANGED halted
  <2>1. CASE prvGetCallbackCatalogEntry(t)
    BY <2>1 DEF prvGetCallbackCatalogEntry, RegisterSteps
  <2>2. CASE LeaveOldTopic(t)
    BY <2>2 DEF LeaveOldTopic, clientRest, mqttVars, RegisterSteps
  <2>3. CASE JoinNewTopic(t)
    <3>1. /\ pc[t] = "new" /\ \E next \in {"old", "registered"} : pc' = [pc EXCEPT ![t] = next]
          /\ \E ok \in BOOLEAN : ret' = [ret EXCEPT ![t] = Result(ok)]
      BY <2>3, Zenon DEF JoinNewTopic
    <3>2. UNCHANGED <<kept, delivering, halted, xOperationResult, xCallbackSemaphore>>
      BY <2>3 DEF JoinNewTopic, mqttVars
    <3> QED  BY <3>1, <3>2 DEF RegisterSteps
  <2>4. CASE FreeEmptyEntry(t)
    BY <2>4 DEF FreeEmptyEntry, mqttVars, RegisterSteps
  <2> QED  BY <2>1, <2>2, <2>3, <2>4 DEF SHADOW_RegisterCallbacks
<1>2. ~HasBuffer(ret[t])
  BY <1>1 DEF BInv, EmptyHanded, RegisterSteps, Closing
<1>3. CASE UNCHANGED <<ret, pc>> /\ halted'
  BY <1>1, <1>3, QuietStep DEF Holders, BInv, EmptyHanded, DeliversResult
<1>4. CASE ~(UNCHANGED <<ret, pc>> /\ halted')
  <2>1. PICK p \in RegisterSteps \cup {"idle"} : pc' = [pc EXCEPT ![t] = p]
    BY <1>1, <1>4
  <2>2. ~HasBuffer(ret'[t]) /\ \A u \in Tasks : u # t => ret'[u] = ret[u]
    BY <1>0, <1>1, <1>2, OutcomesHaveNoBuffer DEF Result
  <2>3. UNCHANGED <<kept, halted, delivering, xOperationResult, xCallbackSemaphore>>
    BY <1>1, <1>4
  <2>4. \A u \in Tasks : u # t => pc'[u] = pc[u] /\ ret'[u] = ret[u]
    BY <1>0, <2>1, <2>2
  <2>5. pc[t] \notin Locked /\ pc'[t] \notin Locked
    BY <1>0, <1>1, <2>1 DEF RegisterSteps, Locked, Opening, Waiting, Closing
  <2> QED  BY <1>2, <2>2, <2>3, <2>4, <2>5, IdleStepBInv
<1> QED  BY <1>3, <1>4

LEMMA ApplicationBInv ==
    ASSUME NEW t \in Tasks, BInv, IInv', Application(t)
    PROVE  BInv'
<1>0. DOMAIN pc = Tasks /\ DOMAIN ret = Tasks
  BY DEF BInv, IInv, Shapes
<1>1. CASE CallsClient(t)
  <2>1. /\ pc[t] = "idle" /\ ~HasBuffer(ret[t])
        /\ \E p \in {"catalog", "lock"} : pc' = [pc EXCEPT ![t] = p]
        /\ ret' = [ret EXCEPT ![t] = Outcome("none")]
        /\ UNCHANGED <<kept, halted, delivering, xOperationResult, xCallbackSemaphore>>
    BY <1>1 DEF CallsClient, clientVars, mqttVars
  <2>2. ~HasBuffer(ret'[t])
    BY <1>0, <2>1, OutcomesHaveNoBuffer
  <2>3. \A u \in Tasks : u # t => pc'[u] = pc[u] /\ ret'[u] = ret[u]
    BY <1>0, <2>1
  <2>4. pc[t] \notin Locked /\ pc'[t] \notin Locked
    BY <1>0, <2>1 DEF Locked, Opening, Waiting, Closing
  <2> QED  BY <2>1, <2>2, <2>3, <2>4, IdleStepBInv
<1>2. CASE SHADOW_ReturnMQTTBuffer(t)
  <2>1. /\ pc[t] = "idle" /\ HasBuffer(ret[t]) /\ kept' = kept - 1
        /\ ret' = [ret EXCEPT ![t] = Outcome("none")]
        /\ UNCHANGED <<pc, halted, delivering, xOperationResult, xCallbackSemaphore>>
    BY <1>2 DEF SHADOW_ReturnMQTTBuffer, clientVars
  <2>2. Holders' = Holders \ {t} /\ t \in Holders
    BY <1>0, <2>1, OutcomesHaveNoBuffer DEF Holders
  <2>3. Cardinality(Holders') = Cardinality(Holders) - 1
    BY <2>2, HoldersFinite, FS_RemoveElement
  <2>4. (Doomed' <=> Doomed) /\ OnItsWay' = OnItsWay /\ OnItsWay \in {0, 1}
    BY <2>1 DEF Doomed, OnItsWay, Brought
  <2>5. EmptyHanded' /\ DeliversResult'
    BY <1>0, <2>1, OutcomesHaveNoBuffer DEF BInv, EmptyHanded, DeliversResult
  <2>6. Accounted'
    BY <2>1, <2>3, <2>4, HoldersFinite DEF BInv, Accounted
  <2> QED  BY <2>5, <2>6 DEF BInv
<1> QED  BY <1>1, <1>2 DEF Application

LEMMA ClientBInv ==
    ASSUME BInv, IInv', Client \/ Service \/ UNCHANGED vars
    PROVE  BInv'
<1>1. UNCHANGED <<pc, ret, kept, delivering, xOperationResult>> /\ (~halted' => ~halted)
      /\ ((\E t \in Tasks : pc[t] \in Locked) => UNCHANGED xCallbackSemaphore)
  <2>1. CASE SHADOW_ClientCreate
    BY <2>1 DEF SHADOW_ClientCreate, taskVars, mqttVars, BInv, IInv, QuietUntilCreated, Locked,
                Opening, Waiting, Closing
  <2>2. CASE SHADOW_ClientDelete
    BY <2>2 DEF SHADOW_ClientDelete, taskVars, mqttVars, AllIdle, Locked, Opening, Waiting,
                Closing
  <2>3. CASE SHADOW_ClientConnect \/ SHADOW_ClientDisconnect \/ Service \/ UNCHANGED vars
    BY <2>3 DEF SHADOW_ClientConnect, SHADOW_ClientDisconnect, Service, ServiceAnswers,
                OtherClient, Repeated, ConnectionLost, vars, clientVars, taskVars, mqttVars
  <2> QED  BY <2>1, <2>2, <2>3 DEF Client
<1> QED  BY <1>1, OtherStepsBInv

LEMMA CallbackBInv == ASSUME BInv, IInv', CallbackStep PROVE BInv'
<1>0. /\ UNCHANGED <<pc, ret>> /\ xCallbackSemaphore \in {0, 1} /\ DOMAIN pc = Tasks
      /\ Holders' = Holders /\ EmptyHanded'
  <2>1. UNCHANGED <<pc, ret>>
    BY DEF CallbackStep, prvShadowMQTTCallback, OperationAnswered, OtherMessage, SemaphoreGiven,
           ClientIsDeleted, callbackRest, taskVars
  <2> QED  BY <2>1 DEF BInv, IInv, Shapes, Holders, EmptyHanded
<1>1. CASE OperationAnswered
  <2>1. /\ delivering = NoMsg /\ delivering' = xOperationResult'
        /\ pxOperationData # NoCall /\ UNCHANGED <<xCallbackSemaphore, kept, halted>>
    BY <1>1 DEF OperationAnswered, IsAnswer
  <2>2. delivering' # NoMsg
    <3>1. /\ delivering' = Head(inbox)
          /\ Head(inbox).topic.suffix \in {"accepted", "rejected"}
      BY <1>1 DEF OperationAnswered, IsAnswer
    <3>2. NoMsg.topic.suffix = "blank"
      BY DEF NoMsg, Blank, Topic
    <3> QED  BY <3>1, <3>2
  <2>3. PICK u \in Tasks : pc[u] \in Waiting \cup Closing
    BY <2>1 DEF BInv, IInv, VisibleIsHolders, MutexIsHeld, Locked
  <2>4. ~Doomed' => ~Brought' /\ ~Brought /\ ~Doomed
    <3>1. \A t \in Tasks : t # u => pc[t] \notin Locked
      BY <2>3, OnlyHolder DEF BInv, Locked
    <3> QED  BY <1>0, <2>1, <2>2, <2>3, <3>1
                DEF Brought, Doomed, Locked, Opening, Waiting, Closing
  <2>5. ~Doomed' => OnItsWay' = OnItsWay
    BY <2>4 DEF OnItsWay
  <2> QED  BY <1>0, <2>1, <2>4, <2>5, QuietStep DEF DeliversResult
<1>2. CASE OtherMessage
  <2>1. UNCHANGED <<xCallbackSemaphore, kept, halted, delivering, xOperationResult>>
    BY <1>2 DEF OtherMessage, mqttVars
  <2> QED  BY <1>0, <2>1, QuietStep DEF BInv, DeliversResult, Doomed, Brought, OnItsWay
<1>3. CASE SemaphoreGiven
  <2>1. delivering # NoMsg /\ xOperationResult = delivering /\ UNCHANGED xOperationResult
    BY <1>3 DEF SemaphoreGiven, BInv, DeliversResult
  <2>2. CASE xCallbackSemaphore = 1
    <3>1. halted' /\ UNCHANGED <<kept, delivering>>
      BY <1>3, <2>2 DEF SemaphoreGiven
    <3> QED  BY <1>0, <2>1, <3>1, QuietStep DEF BInv, DeliversResult
  <2>3. CASE xCallbackSemaphore # 1
    <3>1. /\ xCallbackSemaphore' = 1 /\ delivering' = NoMsg /\ UNCHANGED halted
          /\ kept' = kept + IF HasBuffer(delivering) THEN 1 ELSE 0
      BY <1>3, <2>3 DEF SemaphoreGiven
    <3>2. PICK u \in Tasks : pc[u] \in Waiting \cup Closing
      BY <2>1 DEF BInv, IInv, DeliversToVisible, VisibleIsHolders, MutexIsHeld, Locked
    <3>3. \A t \in Tasks : t # u => pc[t] \notin Locked
      BY <3>2, OnlyHolder DEF BInv, Locked
    <3>4. ~halted
      BY DEF CallbackStep
    <3>5. pc[u] \notin Closing
      BY <2>3, <3>4 DEF BInv, IInv, SemaphoreIsBack, QuietUntilCreated, Closing
    <3>6. ~Doomed' => ~Doomed /\ ~Brought /\ Brought'
      BY <1>0, <2>3, <3>1, <3>2, <3>3, <3>5
         DEF Brought, Doomed, Locked, Opening, Waiting, Closing
    <3>7. ~Doomed' => OnItsWay = 0 /\ OnItsWay' = IF HasBuffer(delivering) THEN 1 ELSE 0
      BY <2>1, <3>6 DEF OnItsWay
    <3> QED
      BY <1>0, <3>1, <3>4, <3>6, <3>7, HoldersFinite DEF BInv, Accounted, DeliversResult
  <2> QED  BY <2>2, <2>3
<1>4. CASE ClientIsDeleted
  BY <1>0, <1>4, QuietStep DEF ClientIsDeleted, BInv, DeliversResult
<1> QED  BY <1>1, <1>2, <1>3, <1>4 DEF CallbackStep, prvShadowMQTTCallback

LEMMA StepBInv == BInv /\ [Next]_vars => BInv'
<1> SUFFICES ASSUME BInv, [Next]_vars PROVE BInv'
  OBVIOUS
<1>1. IInv'
  BY StepInv DEF BInv
<1>2. CASE \E t \in Tasks : TaskStep(t)
  BY <1>1, <1>2, OpeningBInv, WaitingBInv, ClosingBInv, RegisterBInv
     DEF TaskStep, prvShadowOperation
<1>3. CASE \E t \in Tasks : Application(t)
  BY <1>1, <1>3, ApplicationBInv
<1>4. CASE CallbackStep
  BY <1>1, <1>4, CallbackBInv
<1>5. CASE Client \/ Service \/ UNCHANGED vars
  BY <1>1, <1>5, ClientBInv
<1> QED  BY <1>2, <1>3, <1>4, <1>5 DEF Next

\* No buffer that the client takes from the MQTT agent is lost: between operations,
\* those taken are those that callers of SHADOW_Get hold, however operations fail,
\* time out or are answered twice.
THEOREM NoBufferIsLost == Spec => []BuffersAreHandedOver
<1>1. BInv => BuffersAreHandedOver
  <2> SUFFICES ASSUME BInv, ~halted, xOperationMutex = NoTask
               PROVE  kept = Cardinality(Holders)
    BY DEF BuffersAreHandedOver, Holders
  <2>1. \A t \in Tasks : pc[t] \notin Locked
    BY TasksAssumption DEF BInv, IInv, MutexIsHeld
  <2>2. ~Doomed /\ ~Brought
    BY <2>1 DEF Doomed, Brought, Locked, Opening, Waiting, Closing
  <2> QED  BY <2>2, HoldersFinite DEF BInv, Accounted, OnItsWay
<1>2. BInv /\ [Next]_vars => BInv'
  BY StepBInv
<1> QED  BY <1>1, <1>2, InitBInv, PTL DEF Spec

-----------------------------------------------------------------------------
(* Answers and their requests.                                             *)

Registering == {"old", "new"}

\* What a call of the client is about; a task that was given a token has that of its
\* last call, and no two tasks have the same.
CallsAreNumbered ==
    /\ calls \in 0 .. MAX_CALLS /\ DOMAIN registering = Tasks
    /\ \A t \in Tasks :
         /\ call[t].id \in 0 .. calls
         /\ pc[t] \in Locked \cup {"lock"} \cup RegisterSteps =>
              call[t].id # 0 /\ call[t].thing \in Things
         /\ pc[t] \in Locked \cup {"lock"} => call[t].op \in Operations
         /\ pc[t] \in Registering => registering[t] \in 1 .. 3
         /\ \A u \in Tasks : t # u /\ call[t].id # 0 => call[t].id # call[u].id

\* A request with the token of a task's call is that call.
RequestsAreCalls ==
    \A r \in requests :
        /\ r.id \in 1 .. calls
        /\ \A t \in Tasks : r.id = call[t].id => r = call[t]

\* An answer with the token of a task's call is one to that call.
Fits(m) ==
    /\ m.id \in 0 .. calls
    /\ \A t \in Tasks :
         m.id = call[t].id /\ call[t].id # 0 =>
             m.topic.thing = call[t].thing /\ m.topic.op = call[t].op

AnswersFit == \A k \in 1 .. Len(inbox) : Fits(inbox[k])

MessagesAreAnswers ==
    subscriptions \subseteq Topics /\ inbox \in Seq(Messages) /\ AnswersFit

\* From the publication on, the callback can recognise the answer.
WaitingIsVisible ==
    \A t \in Tasks : pc[t] \in Waiting =>
        pxOperationData = call[t] /\ ucTopicBuffer = OperationOf(t, "")

OInv == IInv /\ CallsAreNumbered /\ RequestsAreCalls /\ MessagesAreAnswers /\ WaitingIsVisible

LEMMA InitOInv == Init => OInv
<1> SUFFICES ASSUME Init PROVE OInv
  OBVIOUS
<1>1. CallsAreNumbered
  BY BoundsAssumption DEF Init, CallsAreNumbered, NoCall, Locked, Opening, Waiting, Closing,
     RegisterSteps, Registering
<1>2. RequestsAreCalls /\ MessagesAreAnswers
  BY DEF Init, RequestsAreCalls, MessagesAreAnswers, AnswersFit
<1>3. WaitingIsVisible
  BY DEF Init, WaitingIsVisible, Waiting
<1> QED  BY <1>1, <1>2, <1>3, InitInv DEF OInv

\* A topic of an operation, and one of a callback, are topics.
LEMMA OperationsHaveTopics ==
    ASSUME NEW t \in Tasks, NEW suffix \in Suffixes, call[t].thing \in Things,
           call[t].op \in Operations
    PROVE  OperationOf(t, suffix) \in Topics
BY DEF OperationOf, Topic, Topics

LEMMA CallbacksHaveTopics ==
    ASSUME NEW thing \in Things, NEW k \in 1 .. 3
    PROVE  TopicOf(thing, Kinds[k]) \in Topics
<1>1. Kinds[1] = "Updated" /\ Kinds[2] = "Deleted" /\ Kinds[3] = "Delta"
  BY DEF Kinds
<1>2. k = 1 \/ k = 2 \/ k = 3
  OBVIOUS
<1>3. TopicOf(thing, "Updated") \in Topics
  BY DEF TopicOf, Topic, Topics, Operations, Suffixes
<1>4. TopicOf(thing, "Deleted") \in Topics
  BY DEF TopicOf, Topic, Topics, Operations, Suffixes
<1>5. TopicOf(thing, "Delta") \in Topics
  BY DEF TopicOf, Topic, Topics, Operations, Suffixes
<1> QED  BY <1>1, <1>2, <1>3, <1>4, <1>5

LEMMA MqttCallKeepsTopics ==
    ASSUME NEW topic \in Topics, NEW ok \in BOOLEAN, subscriptions \subseteq Topics,
           MQTT_AGENT_Subscribe(topic, ok) \/ MQTT_AGENT_Unsubscribe(topic, ok)
    PROVE  subscriptions' \subseteq Topics
BY DEF MQTT_AGENT_Subscribe, MQTT_AGENT_Unsubscribe, MqttCall

\* What a step of an operation or of a registration does to calls, requests and topics.
GoesOn(t) ==
    /\ UNCHANGED <<call, calls, inbox, connected>> /\ DOMAIN registering' = Tasks
    /\ requests' = requests \/ (pc[t] \in Locked /\ requests' = requests \cup {call[t]})
    /\ subscriptions' \subseteq Topics
    /\ \A u \in Tasks : u # t => pc'[u] = pc[u] /\ registering'[u] = registering[u]
    /\ pc'[t] \in Locked \cup {"lock"} => pc[t] \in Locked \cup {"lock"}
    /\ pc'[t] \in RegisterSteps => pc[t] \in RegisterSteps
    /\ pc'[t] \in Registering => registering'[t] \in 1 .. 3

\* What it does to what the callback sees.
ShowsOwn(t) ==
    \/ UNCHANGED <<pxOperationData, ucTopicBuffer>> /\ (pc'[t] \in Waiting => pc[t] \in Waiting)
    \/ pc[t] \in Locked /\ pc'[t] \notin Waiting
    \/ pc[t] \in Locked /\ pxOperationData' = call[t] /\ ucTopicBuffer' = OperationOf(t, "")

LEMMA OpeningGoesOn ==
    ASSUME NEW t \in Tasks, OInv,
           TakeOperationMutex(t) \/ SubscribeToAccepted(t) \/ SubscribeToRejected(t)
             \/ UndoAccepted(t) \/ Prepare(t)
    PROVE  GoesOn(t) /\ ShowsOwn(t)
<1> USE DEF GoesTo, Locked, Opening, Waiting, Closing, RegisterSteps, Registering
<1>0. /\ DOMAIN pc = Tasks /\ DOMAIN registering = Tasks /\ subscriptions \subseteq Topics
      /\ pc[t] \in Locked => call[t].thing \in Things /\ call[t].op \in Operations
  BY DEF OInv, IInv, Shapes, MessagesAreAnswers, CallsAreNumbered
<1>1. CASE TakeOperationMutex(t)
  BY <1>0, <1>1 DEF TakeOperationMutex, GoesOn, ShowsOwn, networkVars
<1>2. CASE SubscribeToAccepted(t)
  <2>1. subscriptions' \subseteq Topics
    <3>1. OperationOf(t, "accepted") \in Topics
      BY <1>0, <1>2, OperationsHaveTopics DEF SubscribeToAccepted, Suffixes
    <3> QED  BY <1>0, <1>2, <3>1, MqttCallKeepsTopics DEF SubscribeToAccepted
  <2>2. /\ pc[t] = "subAccepted" /\ \E p \in {"subRejected", "cleanup"} : pc' = [pc EXCEPT ![t] = p]
        /\ UNCHANGED <<call, calls, inbox, connected, requests, registering>>
    BY <1>2 DEF SubscribeToAccepted, clientRest
  <2> QED
    <3>1. GoesOn(t)
      BY <1>0, <2>1, <2>2 DEF GoesOn
    <3>2. ShowsOwn(t)
      BY <1>0, <2>1, <2>2 DEF ShowsOwn
    <3> QED  BY <3>1, <3>2
<1>3. CASE SubscribeToRejected(t)
  <2>1. subscriptions' \subseteq Topics
    <3>1. OperationOf(t, "rejected") \in Topics
      BY <1>0, <1>3, OperationsHaveTopics DEF SubscribeToRejected, Suffixes
    <3> QED  BY <1>0, <1>3, <3>1, MqttCallKeepsTopics DEF SubscribeToRejected
  <2>2. /\ pc[t] = "subRejected" /\ \E p \in {"prepare", "undoAccepted"} : pc' = [pc EXCEPT ![t] = p]
        /\ UNCHANGED <<call, calls, inbox, connected, requests, registering>>
    BY <1>3 DEF SubscribeToRejected, clientRest
  <2> QED
    <3>1. GoesOn(t)
      BY <1>0, <2>1, <2>2 DEF GoesOn
    <3>2. ShowsOwn(t)
      BY <1>0, <2>1, <2>2 DEF ShowsOwn
    <3> QED  BY <3>1, <3>2
<1>4. CASE UndoAccepted(t)
  <2>1. subscriptions' \subseteq Topics
    <3>1. OperationOf(t, "accepted") \in Topics
      BY <1>0, <1>4, OperationsHaveTopics DEF UndoAccepted, Suffixes
    <3> QED  BY <1>0, <1>4, <3>1, MqttCallKeepsTopics DEF UndoAccepted
  <2>2. /\ pc[t] = "undoAccepted" /\ pc' = [pc EXCEPT ![t] = "cleanup"]
        /\ UNCHANGED <<call, calls, inbox, connected, requests, registering>>
    BY <1>4 DEF UndoAccepted, clientRest
  <2> QED
    <3>1. GoesOn(t)
      BY <1>0, <2>1, <2>2 DEF GoesOn
    <3>2. ShowsOwn(t)
      BY <1>0, <2>1, <2>2 DEF ShowsOwn
    <3> QED  BY <3>1, <3>2
<1>5. CASE Prepare(t)
  <2>1. /\ pc[t] = "prepare"
        /\ UNCHANGED <<call, calls, inbox, connected, requests, registering, subscriptions>>
        /\ \/ UNCHANGED <<pc, pxOperationData, ucTopicBuffer>>
           \/ /\ pc' = [pc EXCEPT ![t] = "publish"]
              /\ pxOperationData' = call[t] /\ ucTopicBuffer' = OperationOf(t, "")
    BY <1>5 DEF Prepare, networkVars, FillTopic
  <2> QED
    <3>1. GoesOn(t)
      BY <1>0, <2>1 DEF GoesOn
    <3>2. ShowsOwn(t)
      BY <1>0, <2>1 DEF ShowsOwn
    <3> QED  BY <3>1, <3>2
<1> QED  BY <1>1, <1>2, <1>3, <1>4, <1>5

LEMMA WaitingGoesOn ==
    ASSUME NEW t \in Tasks, OInv,
           PublishOperation(t) \/ PublishReturns(t) \/ WaitForAnswer(t) \/ ReadResult(t)
             \/ GiveSemaphore(t)
    PROVE  GoesOn(t) /\ ShowsOwn(t)
<1> USE DEF GoesTo, Locked, Opening, Waiting, Closing, RegisterSteps, Registering
<1>0. DOMAIN pc = Tasks /\ DOMAIN registering = Tasks /\ subscriptions \subseteq Topics
  BY DEF OInv, IInv, Shapes, MessagesAreAnswers, CallsAreNumbered
<1>1. /\ pc[t] \in Waiting
      /\ UNCHANGED pc \/ \E p \in Waiting \cup {"cleanup"} : pc' = [pc EXCEPT ![t] = p]
      /\ UNCHANGED <<pxOperationData, ucTopicBuffer, call, calls, inbox, connected, registering,
                     subscriptions>>
      /\ requests' = requests \/ requests' = requests \cup {call[t]}
  <2>1. CASE PublishOperation(t) \/ PublishReturns(t)
    BY <2>1 DEF PublishOperation, PublishReturns, clientVars, networkVars
  <2>2. CASE WaitForAnswer(t) \/ ReadResult(t)
    BY <2>2 DEF WaitForAnswer, ReadResult, clientVars, networkVars
  <2>3. CASE GiveSemaphore(t)
    BY <2>3 DEF GiveSemaphore, networkVars
  <2> QED  BY <2>1, <2>2, <2>3
<1> QED
  <2>1. GoesOn(t)
    BY <1>0, <1>1 DEF GoesOn
  <2>2. ShowsOwn(t)
    BY <1>0, <1>1 DEF ShowsOwn
  <2> QED  BY <2>1, <2>2

LEMMA ClosingGoesOn ==
    ASSUME NEW t \in Tasks, OInv,
           CleanUp(t) \/ UnsubscribeFromAccepted(t) \/ UnsubscribeFromRejected(t)
             \/ ReleaseOperation(t)
    PROVE  GoesOn(t) /\ ShowsOwn(t)
<1> USE DEF GoesTo, Locked, Opening, Waiting, Closing, RegisterSteps, Registering
<1>0. /\ DOMAIN pc = Tasks /\ DOMAIN registering = Tasks /\ subscriptions \subseteq Topics
      /\ pc[t] \in Locked => call[t].thing \in Things /\ call[t].op \in Operations
  BY DEF OInv, IInv, Shapes, MessagesAreAnswers, CallsAreNumbered
<1>1. /\ pc[t] \in Closing /\ \E p \in Closing \cup {"idle"} : pc' = [pc EXCEPT ![t] = p]
      /\ UNCHANGED <<call, calls, inbox, connected, requests, registering>>
  <2>1. CASE CleanUp(t)
    BY <2>1 DEF CleanUp, clientRest
  <2>2. CASE UnsubscribeFromAccepted(t) \/ UnsubscribeFromRejected(t)
    BY <2>2 DEF UnsubscribeFromAccepted, UnsubscribeFromRejected, clientRest
  <2>3. CASE ReleaseOperation(t)
    BY <2>3 DEF ReleaseOperation, networkVars
  <2> QED  BY <2>1, <2>2, <2>3
<1>2. subscriptions' \subseteq Topics
  <2>1. CASE CleanUp(t) \/ ReleaseOperation(t)
    BY <1>0, <2>1 DEF CleanUp, ReleaseOperation, networkVars
  <2>2. CASE UnsubscribeFromAccepted(t)
    <3>1. OperationOf(t, "accepted") \in Topics
      BY <1>0, <1>1, OperationsHaveTopics DEF Suffixes
    <3> QED  BY <1>0, <2>2, <3>1, MqttCallKeepsTopics DEF UnsubscribeFromAccepted
  <2>3. CASE UnsubscribeFromRejected(t)
    <3>1. OperationOf(t, "rejected") \in Topics
      BY <1>0, <1>1, OperationsHaveTopics DEF Suffixes
    <3> QED  BY <1>0, <2>3, <3>1, MqttCallKeepsTopics DEF UnsubscribeFromRejected
  <2> QED  BY <2>1, <2>2, <2>3
<1> QED
  <2>1. GoesOn(t)
    BY <1>0, <1>1, <1>2 DEF GoesOn
  <2>2. ShowsOwn(t)
    BY <1>0, <1>1, <1>2 DEF ShowsOwn
  <2> QED  BY <2>1, <2>2

LEMMA RegisterGoesOn ==
    ASSUME NEW t \in Tasks, OInv, SHADOW_RegisterCallbacks(t)
    PROVE  GoesOn(t) /\ ShowsOwn(t)
<1> USE DEF GoesTo, Locked, Opening, Waiting, Closing, RegisterSteps, Registering
<1>0. /\ DOMAIN pc = Tasks /\ DOMAIN registering = Tasks /\ subscriptions \subseteq Topics
      /\ pc[t] \in RegisterSteps => call[t].thing \in Things
      /\ pc[t] \in Registering => registering[t] \in 1 .. 3
  BY DEF OInv, IInv, Shapes, MessagesAreAnswers, CallsAreNumbered
<1>1. CASE prvGetCallbackCatalogEntry(t)
  <2>1. /\ pc[t] = "catalog"
        /\ \/ UNCHANGED <<pc, registering>>
           \/ pc' = [pc EXCEPT ![t] = "old"] /\ registering' = [registering EXCEPT ![t] = 1]
        /\ UNCHANGED <<pxOperationData, ucTopicBuffer, call, calls, inbox, connected, requests,
                       subscriptions>>
    BY <1>1 DEF prvGetCallbackCatalogEntry, networkVars
  <2> QED
    <3>1. GoesOn(t)
      BY <1>0, <2>1 DEF GoesOn
    <3>2. ShowsOwn(t)
      BY <1>0, <2>1 DEF ShowsOwn
    <3> QED  BY <3>1, <3>2
<1>2. CASE LeaveOldTopic(t)
  <2>1. /\ pc[t] = "old" /\ pc' = [pc EXCEPT ![t] = "new"]
        /\ UNCHANGED <<pxOperationData, ucTopicBuffer, call, calls, inbox, connected, requests,
                       registering>>
    BY <1>2 DEF LeaveOldTopic, clientRest
  <2>2. TopicOf(call[t].thing, Kinds[registering[t]]) \in Topics
    BY <1>0, <2>1, CallbacksHaveTopics
  <2>3. subscriptions' \subseteq Topics
    BY <1>0, <1>2, <2>2, MqttCallKeepsTopics DEF LeaveOldTopic
  <2> QED
    <3>1. GoesOn(t)
      BY <1>0, <2>1, <2>3 DEF GoesOn
    <3>2. ShowsOwn(t)
      BY <1>0, <2>1, <2>3 DEF ShowsOwn
    <3> QED  BY <3>1, <3>2
<1>3. CASE JoinNewTopic(t)
  <2>1. /\ pc[t] = "new"
        /\ UNCHANGED <<pxOperationData, ucTopicBuffer, call, calls, inbox, connected, requests>>
    BY <1>3 DEF JoinNewTopic
  <2>2. \/ /\ pc' = [pc EXCEPT ![t] = "old"] /\ registering[t] < 3
           /\ registering' = [registering EXCEPT ![t] = @ + 1]
        \/ pc' = [pc EXCEPT ![t] = "registered"] /\ UNCHANGED registering
    BY <1>3, Zenon DEF JoinNewTopic
  <2>3. \/ UNCHANGED subscriptions
        \/ \E ok \in BOOLEAN :
             MQTT_AGENT_Subscribe(TopicOf(call[t].thing, Kinds[registering[t]]), ok)
    BY <1>3, Zenon DEF JoinNewTopic
  <2>4. TopicOf(call[t].thing, Kinds[registering[t]]) \in Topics
    BY <1>0, <2>1, CallbacksHaveTopics
  <2>5. subscriptions' \subseteq Topics
    BY <1>0, <2>3, <2>4, MqttCallKeepsTopics
  <2> QED
    <3>1. GoesOn(t)
      BY <1>0, <2>1, <2>2, <2>5 DEF GoesOn
    <3>2. ShowsOwn(t)
      BY <1>0, <2>1, <2>2, <2>5 DEF ShowsOwn
    <3> QED  BY <3>1, <3>2
<1>4. CASE FreeEmptyEntry(t)
  <2>1. /\ pc[t] = "registered" /\ pc' = [pc EXCEPT ![t] = "idle"]
        /\ registering' = [registering EXCEPT ![t] = 0]
        /\ UNCHANGED <<pxOperationData, ucTopicBuffer, call, calls, inbox, connected, requests,
                       subscriptions>>
    BY <1>4 DEF FreeEmptyEntry, networkVars
  <2> QED
    <3>1. GoesOn(t)
      BY <1>0, <2>1 DEF GoesOn
    <3>2. ShowsOwn(t)
      BY <1>0, <2>1 DEF ShowsOwn
    <3> QED  BY <3>1, <3>2
<1> QED  BY <1>1, <1>2, <1>3, <1>4 DEF SHADOW_RegisterCallbacks

LEMMA TasksGoOn == ASSUME NEW t \in Tasks, OInv, TaskStep(t) PROVE GoesOn(t) /\ ShowsOwn(t)
BY OpeningGoesOn, WaitingGoesOn, ClosingGoesOn, RegisterGoesOn DEF TaskStep, prvShadowOperation

LEMMA TaskOInv == ASSUME NEW t \in Tasks, OInv, TaskStep(t) PROVE OInv'
<1> USE DEF OInv
<1>0. GoesOn(t) /\ ShowsOwn(t) /\ IInv'
  BY TasksGoOn, TaskStepInv
<1>1. CallsAreNumbered'
  <2>1. UNCHANGED <<call, calls>> /\ DOMAIN registering' = Tasks
    BY <1>0 DEF GoesOn
  <2>2. ASSUME NEW u \in Tasks
        PROVE  /\ pc'[u] \in Locked \cup {"lock"} => pc[u] \in Locked \cup {"lock"}
               /\ pc'[u] \in RegisterSteps => pc[u] \in RegisterSteps
               /\ pc'[u] \in Registering => registering'[u] \in 1 .. 3
    BY <1>0 DEF GoesOn, CallsAreNumbered
  <2> QED  BY <2>1, <2>2 DEF CallsAreNumbered
<1>2. RequestsAreCalls'
  <2>1. \/ UNCHANGED requests
        \/ /\ requests' = requests \cup {call[t]}
           /\ call[t].id \in 1 .. calls
           /\ \A u \in Tasks : u # t => call[t].id # call[u].id
    BY <1>0 DEF GoesOn, CallsAreNumbered
  <2> QED  BY <1>0, <2>1 DEF GoesOn, RequestsAreCalls
<1>3. MessagesAreAnswers'
  BY <1>0 DEF GoesOn, MessagesAreAnswers, AnswersFit, Fits
<1>4. WaitingIsVisible'
  <2> SUFFICES ASSUME NEW u \in Tasks, pc'[u] \in Waiting
               PROVE  pxOperationData' = call'[u] /\ ucTopicBuffer' = OperationOf(u, "")'
    BY DEF WaitingIsVisible
  <2>1. call' = call /\ (u # t => pc[u] \in Waiting)
    BY <1>0 DEF GoesOn
  <2>2. OperationOf(u, "")' = OperationOf(u, "")
    BY <2>1 DEF OperationOf
  <2>3. CASE u = t
    BY <1>0, <2>1, <2>2, <2>3 DEF ShowsOwn, WaitingIsVisible
  <2>4. CASE u # t
    <3>1. pc[t] \notin Locked
      BY <2>1, <2>4 DEF IInv, MutexIsHeld, Locked
    <3>2. UNCHANGED <<pxOperationData, ucTopicBuffer>>
      BY <1>0, <3>1 DEF ShowsOwn
    <3> QED  BY <2>1, <2>2, <2>4, <3>2 DEF WaitingIsVisible
  <2> QED  BY <2>3, <2>4
<1> QED  BY <1>0, <1>1, <1>2, <1>3, <1>4

LEMMA ApplicationOInv == ASSUME NEW t \in Tasks, OInv, Application(t) PROVE OInv'
<1> USE DEF OInv
<1>0. /\ IInv' /\ DOMAIN pc = Tasks /\ DOMAIN call = Tasks
      /\ UNCHANGED <<requests, inbox, subscriptions, pxOperationData, ucTopicBuffer, registering>>
  BY ApplicationInv DEF IInv, Shapes, Application, CallsClient, SHADOW_ReturnMQTTBuffer,
                        clientVars, networkVars
<1>1. CASE CallsClient(t)
  <2>1. PICK c \in Calls :
          /\ call' = [call EXCEPT ![t] = [op |-> c.op, thing |-> c.thing, id |-> calls + 1,
                                          ucKeepSubscriptions |-> c.ucKeepSubscriptions,
                                          callbacks |-> c.callbacks]]
          /\ pc' = [pc EXCEPT ![t] = IF c.op = "Register" THEN "catalog" ELSE "lock"]
    BY <1>1 DEF CallsClient
  <2>2. pc[t] = "idle" /\ calls < MAX_CALLS /\ calls' = calls + 1 /\ calls \in 0 .. MAX_CALLS
    BY <1>1 DEF CallsClient, CallsAreNumbered
  <2>3. /\ \A u \in Tasks : u # t => pc'[u] = pc[u] /\ call'[u] = call[u]
        /\ call'[t].id = calls + 1 /\ call'[t].thing \in Things
        /\ pc'[t] = "lock" => call'[t].op \in Operations
        /\ pc'[t] \in {"lock", "catalog"}
    BY <1>0, <2>1, CallsAssumption
  <2>4. calls' \in 0 .. MAX_CALLS /\ calls' # 0
    BY <2>2, BoundsAssumption
  <2>5. CallsAreNumbered'
    <3>1. ASSUME NEW u \in Tasks
          PROVE  /\ call'[u].id \in 0 .. calls'
                 /\ pc'[u] \in Locked \cup {"lock"} \cup RegisterSteps =>
                      call'[u].id # 0 /\ call'[u].thing \in Things
                 /\ pc'[u] \in Locked \cup {"lock"} => call'[u].op \in Operations
                 /\ pc'[u] \in Registering => registering'[u] \in 1 .. 3
      <4>1. CASE u = t
        BY <2>2, <2>3, <2>4, <4>1 DEF Locked, Opening, Waiting, Closing, Registering
      <4>2. CASE u # t
        BY <1>0, <2>2, <2>3, <4>2 DEF CallsAreNumbered
      <4> QED  BY <4>1, <4>2
    <3>2. ASSUME NEW u \in Tasks, NEW v \in Tasks, u # v, call'[u].id # 0
          PROVE  call'[u].id # call'[v].id
      <4>1. call[u].id <= calls /\ call[v].id <= calls
        BY <2>2 DEF CallsAreNumbered
      <4> QED  BY <2>2, <2>3, <3>2, <4>1 DEF CallsAreNumbered
    <3> QED  BY <1>0, <2>4, <3>1, <3>2 DEF CallsAreNumbered
  <2>6. RequestsAreCalls'
    <3> SUFFICES ASSUME NEW r \in requests, NEW u \in Tasks
                 PROVE  r.id \in 1 .. calls' /\ (r.id = call'[u].id => r = call'[u])
      BY <1>0 DEF RequestsAreCalls
    <3>1. r.id \in 1 .. calls
      BY DEF RequestsAreCalls
    <3> QED  BY <2>2, <2>3, <3>1 DEF RequestsAreCalls
  <2>7. MessagesAreAnswers'
    <3> SUFFICES ASSUME NEW k \in 1 .. Len(inbox), NEW u \in Tasks
                 PROVE  /\ inbox[k].id \in 0 .. calls'
                        /\ inbox[k].id = call'[u].id /\ call'[u].id # 0 =>
                             /\ inbox[k].topic.thing = call'[u].thing
                             /\ inbox[k].topic.op = call'[u].op
      BY <1>0, <2>4 DEF MessagesAreAnswers, AnswersFit, Fits
    <3>1. inbox[k].id \in 0 .. calls
      BY DEF MessagesAreAnswers, AnswersFit, Fits
    <3> QED  BY <2>2, <2>3, <3>1 DEF MessagesAreAnswers, AnswersFit, Fits
  <2>8. WaitingIsVisible'
    BY <1>0, <2>3 DEF WaitingIsVisible, OperationOf, Waiting
  <2> QED  BY <1>0, <2>5, <2>6, <2>7, <2>8
<1>2. CASE SHADOW_ReturnMQTTBuffer(t)
  <2>1. UNCHANGED <<pc, call, calls>>
    BY <1>2 DEF SHADOW_ReturnMQTTBuffer
  <2> QED  BY <1>0, <2>1 DEF CallsAreNumbered, RequestsAreCalls, MessagesAreAnswers, AnswersFit, Fits,
                             WaitingIsVisible, OperationOf
<1> QED  BY <1>1, <1>2 DEF Application

\* The other steps leave the tasks and what the callback sees alone, and each treats
\* the inbox in one of four ways.
LEMMA InboxStep ==
    ASSUME OInv, CallbackStep \/ Client \/ Service \/ UNCHANGED vars
    PROVE  /\ UNCHANGED <<pc, call, registering, calls, pxOperationData, ucTopicBuffer>>
           /\ requests' \subseteq requests
           /\ subscriptions' \subseteq subscriptions
           /\ \/ UNCHANGED inbox
              \/ inbox' = <<>> /\ connected' = FALSE
              \/ inbox # <<>> /\ inbox' = Tail(inbox) /\ CallbackStep
              \/ inbox # <<>> /\ inbox' = <<Head(inbox)>> \o inbox
              \/ \E m \in Messages : inbox' = Append(inbox, m) /\ Fits(m)
<1>1. CASE CallbackStep
  BY <1>1 DEF CallbackStep, prvShadowMQTTCallback, OperationAnswered, OtherMessage,
              SemaphoreGiven, ClientIsDeleted, callbackRest, taskVars
<1>2. CASE Client
  BY <1>2 DEF Client, SHADOW_ClientCreate, SHADOW_ClientConnect, SHADOW_ClientDisconnect,
              SHADOW_ClientDelete, ClearSubscribedFlags, clientVars, taskVars, networkVars
<1>3. CASE ServiceAnswers
  <2> USE <1>3 DEF ServiceAnswers
  <2>1. UNCHANGED <<pc, call, registering, calls, pxOperationData, ucTopicBuffer, subscriptions>>
    BY DEF clientVars, taskVars
  <2>2. PICK r \in requests, suffix \in {"accepted", "rejected", "documents", "delta"} :
          /\ requests' = requests \ {r}
          /\ Deliver([id |-> r.id, topic |-> Topic(r.thing, r.op, suffix)])
    OBVIOUS
  <2> DEFINE m == [id |-> r.id, topic |-> Topic(r.thing, r.op, suffix)]
  <2>3. r.id \in 1 .. calls /\ calls \in 0 .. MAX_CALLS
    BY DEF OInv, RequestsAreCalls, CallsAreNumbered
  <2>4. ASSUME NEW t \in Tasks, m.id = call[t].id
        PROVE  m.topic.thing = call[t].thing /\ m.topic.op = call[t].op
    <3>1. r = call[t]
      BY <2>4 DEF OInv, RequestsAreCalls
    <3> QED  BY <3>1 DEF Topic
  <2>5. m.topic \in subscriptions => m \in Messages
    BY <2>3, BoundsAssumption DEF OInv, MessagesAreAnswers, Messages
  <2>6. m.id \in 0 .. calls
    BY <2>3
  <2>7. inbox' = IF m.topic \in subscriptions THEN Append(inbox, m) ELSE inbox
    BY <2>2 DEF Deliver
  <2>8. Fits(m)
    BY <2>4, <2>6 DEF Fits
  <2> HIDE DEF m
  <2> QED  BY <2>1, <2>2, <2>5, <2>7, <2>8
<1>4. CASE OtherClient
  <2> USE <1>4 DEF OtherClient
  <2>1. UNCHANGED <<pc, call, registering, calls, pxOperationData, ucTopicBuffer, subscriptions,
                    requests>>
    BY DEF clientVars, taskVars
  <2>2. PICK topic \in subscriptions : inbox' = Append(inbox, [id |-> 0, topic |-> topic])
    BY DEF Deliver
  <2>3. [id |-> 0, topic |-> topic] \in Messages /\ Fits([id |-> 0, topic |-> topic])
    BY BoundsAssumption DEF OInv, MessagesAreAnswers, Messages, CallsAreNumbered, Fits
  <2> QED  BY <2>1, <2>2, <2>3
<1>5. CASE Repeated
  BY <1>5 DEF Repeated, clientVars, taskVars
<1>6. CASE ConnectionLost
  BY <1>6 DEF ConnectionLost, ClearSubscribedFlags, taskVars
<1>7. CASE UNCHANGED vars
  BY <1>7 DEF vars, clientVars, taskVars, networkVars
<1> QED  BY <1>1, <1>2, <1>3, <1>4, <1>5, <1>6, <1>7 DEF Service

LEMMA StepOInv == OInv /\ [Next]_vars => OInv'
<1> SUFFICES ASSUME OInv, [Next]_vars PROVE OInv'
  OBVIOUS
<1>1. CASE \E t \in Tasks : Application(t) \/ TaskStep(t)
  BY <1>1, ApplicationOInv, TaskOInv
<1>2. CASE CallbackStep \/ Client \/ Service \/ UNCHANGED vars
  <2>1. IInv'
    BY StepInv DEF OInv
  <2>2. UNCHANGED <<pc, call, registering, calls, pxOperationData, ucTopicBuffer>>
    BY <1>2, InboxStep
  <2>3. CallsAreNumbered' /\ WaitingIsVisible'
    BY <2>2 DEF OInv, CallsAreNumbered, WaitingIsVisible, OperationOf
  <2>4. RequestsAreCalls'
    BY <1>2, <2>2, InboxStep DEF OInv, RequestsAreCalls
  <2>5. inbox \in Seq(Messages) /\ Len(inbox) \in Nat /\ \A k \in 1 .. Len(inbox) : Fits(inbox[k])
    BY DEF OInv, MessagesAreAnswers, AnswersFit
  <2>6. inbox' \in Seq(Messages) /\ \A k \in 1 .. Len(inbox') : Fits(inbox'[k])
    <3>1. CASE UNCHANGED inbox
      BY <2>5, <3>1
    <3>2. CASE inbox' = <<>>
      BY <3>2
    <3>3. CASE inbox # <<>> /\ inbox' = Tail(inbox)
      BY <2>5, <3>3
    <3>4. CASE inbox # <<>> /\ inbox' = <<Head(inbox)>> \o inbox
      <4>1. /\ Len(inbox') = Len(inbox) + 1 /\ inbox' \in Seq(Messages)
            /\ \A k \in 1 .. Len(inbox) + 1 : inbox'[k] = IF k = 1 THEN inbox[1] ELSE inbox[k - 1]
        BY <2>5, <3>4
      <4>2. 1 \in 1 .. Len(inbox)
        BY <2>5, <3>4
      <4>3. \A k \in 1 .. Len(inbox') : \E j \in 1 .. Len(inbox) : inbox'[k] = inbox[j]
        BY <2>5, <4>1, <4>2
      <4> QED  BY <2>5, <4>1, <4>3
    <3>5. CASE \E m \in Messages : inbox' = Append(inbox, m) /\ Fits(m)
      BY <2>5, <3>5
    <3> QED  BY <1>2, <3>1, <3>2, <3>3, <3>4, <3>5, InboxStep
  <2>7. MessagesAreAnswers'
    <3>1. subscriptions' \subseteq Topics
      BY <1>2, InboxStep DEF OInv, MessagesAreAnswers
    <3> QED  BY <2>2, <2>6, <3>1 DEF MessagesAreAnswers, AnswersFit, Fits
  <2> QED  BY <2>1, <2>3, <2>4, <2>7 DEF OInv
<1> QED  BY <1>1, <1>2 DEF Next

LEMMA BoxFacts ==
    ASSUME NEW S, NEW s \in Seq(S), s # <<>>
    PROVE  /\ Head(s) \in S /\ Head(s) = s[1] /\ 1 \in 1 .. Len(s)
           /\ Tail(s) # s /\ Tail(s) # <<Head(s)>> \o s
           /\ \A m \in S : Tail(s) # Append(s, m)
<1>1. Len(s) \in Nat /\ Len(s) # 0 /\ Len(Tail(s)) = Len(s) - 1 /\ Head(s) \in S
  OBVIOUS
<1>2. Len(<<Head(s)>> \o s) = 1 + Len(s)
  BY <1>1
<1>3. \A m \in S : Len(Append(s, m)) = Len(s) + 1
  OBVIOUS
<1>4. Head(s) = s[1] /\ 1 \in 1 .. Len(s)
  BY <1>1
<1>6. Tail(s) # s
  <2> SUFFICES ASSUME Tail(s) = s PROVE FALSE
    OBVIOUS
  <2> QED  BY <1>1
<1>7. Tail(s) # <<Head(s)>> \o s
  <2> SUFFICES ASSUME Tail(s) = <<Head(s)>> \o s PROVE FALSE
    OBVIOUS
  <2>1. Len(Tail(s)) = 1 + Len(s)
    BY <1>2, Zenon
  <2> QED  BY ONLY <1>1, <2>1
<1>8. ASSUME NEW m \in S PROVE Tail(s) # Append(s, m)
  <2> SUFFICES ASSUME Tail(s) = Append(s, m) PROVE FALSE
    OBVIOUS
  <2>1. Len(Tail(s)) = Len(s) + 1
    BY <1>3, Zenon
  <2> QED  BY ONLY <1>1, <2>1
<1> QED  BY <1>1, <1>4, <1>6, <1>7, <1>8

\* While a task waits for the answer to its publication, an answer with its token is
\* given to the operation, whatever callbacks the Thing has: no application is told of
\* what the client did itself.
THEOREM OwnAnswersStayOwn == Spec => OwnAnswerIsNotNotified
<1> DEFINE A == \A t \in Tasks :
                  /\ pc[t] \in {"publishing", "wait"} /\ inbox # <<>> /\ connected'
                  /\ Head(inbox).id = call[t].id /\ Head(inbox).topic.suffix \in {"accepted", "rejected"}
                  /\ inbox' = Tail(inbox)
                  => delivering' = Head(inbox)
<1>1. OInv /\ [Next]_vars => A
  <2> SUFFICES ASSUME OInv, [Next]_vars, NEW t \in Tasks,
                      pc[t] \in {"publishing", "wait"}, inbox # <<>>, connected',
                      Head(inbox).id = call[t].id,
                      Head(inbox).topic.suffix \in {"accepted", "rejected"},
                      inbox' = Tail(inbox)
               PROVE  delivering' = Head(inbox)
    OBVIOUS
  <2>1. inbox \in Seq(Messages)
    BY DEF OInv, MessagesAreAnswers
  <2>2. CallbackStep
    <3>1. CASE \E u \in Tasks : Application(u) \/ TaskStep(u)
      <4>1. UNCHANGED inbox
        BY <3>1, TasksGoOn DEF GoesOn, Application, CallsClient, SHADOW_ReturnMQTTBuffer, networkVars
      <4> QED  BY <2>1, <4>1, BoxFacts
    <3>2. CASE Client \/ Service \/ UNCHANGED vars
      BY <2>1, <3>2, BoxFacts, InboxStep
    <3> QED  BY <3>1, <3>2 DEF Next
  <2>3. /\ pxOperationData = call[t] /\ ucTopicBuffer = OperationOf(t, "")
        /\ pc[t] \in Waiting /\ call[t].id # 0
    BY DEF OInv, WaitingIsVisible, Waiting, CallsAreNumbered, Locked
  <2>4. Head(inbox).topic.thing = call[t].thing /\ Head(inbox).topic.op = call[t].op
    <3>1. Fits(Head(inbox))
      BY <2>1, BoxFacts DEF OInv, MessagesAreAnswers, AnswersFit
    <3> QED  BY <2>3, <3>1 DEF Fits
  <2>5. IsAnswer(Head(inbox)) /\ TokenMatches(Head(inbox))
    <3>1. pxOperationData # NoCall
      <4>1. NoCall.id = 0
        BY DEF NoCall
      <4> QED  BY <2>3, <4>1
    <3>2. /\ ucTopicBuffer.thing = call[t].thing /\ ucTopicBuffer.op = call[t].op
          /\ ucTopicBuffer.suffix = ""
      BY <2>3 DEF OperationOf, Topic
    <3>3. Head(inbox).topic.suffix \in {"accepted", "rejected"} /\ Head(inbox).id = call[t].id
      OBVIOUS
    <3> QED  BY <2>3, <2>4, <3>1, <3>2, <3>3 DEF IsAnswer, TokenMatches
  <2>6. ~BufferInUse
    <3>1. \A u \in Tasks : pc[u] \in Locked => u = t
      BY <2>3 DEF OInv, IInv, MutexIsHeld, Locked
    <3> QED  BY <2>3, <3>1 DEF BufferInUse, Locked, Waiting, Closing
  <2>7. CASE OperationAnswered
    BY <2>7 DEF OperationAnswered
  <2>8. CASE OtherMessage
    BY <2>5, <2>6, <2>8 DEF OtherMessage
  <2>9. CASE SemaphoreGiven
    BY <2>1, <2>9, BoxFacts DEF SemaphoreGiven
  <2>10. CASE ClientIsDeleted
    BY <2>1, <2>10, BoxFacts DEF ClientIsDeleted
  <2> QED  BY <2>2, <2>7, <2>8, <2>9, <2>10 DEF CallbackStep, prvShadowMQTTCallback
<1>2. OInv /\ [Next]_vars => OInv'
  BY StepOInv
<1> QED  BY <1>1, <1>2, InitOInv, PTL DEF Spec, OwnAnswerIsNotNotified

===============================================================================
