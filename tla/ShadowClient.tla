---------------------------- MODULE ShadowClient ----------------------------
(***************************************************************************)
(* The device shadow client: tasks that update, get and delete shadows and *)
(* register callbacks, and the MQTT callback that brings them the answers  *)
(* of the shadow service.                                                  *)
(*                                                                         *)
(* Source: lib/shadow/aws_shadow.c.  There is one client, as many as the   *)
(* board configures (shadowconfigMAX_CLIENTS).  An operation is cut around *)
(* each call of the MQTT agent and each use of a semaphore.  An MQTT call  *)
(* succeeds, or it fails or times out, with or without effect.             *)
(***************************************************************************)
EXTENDS Naturals, Sequences, FiniteSets

CONSTANTS
    Tasks,          \* the tasks of the application that use the client
    NoTask,         \* stands for no task
    Things,         \* the Things whose shadows are used
    NoThing,        \* stands for no Thing
    Calls,          \* the calls the application makes
    shadowconfigMAX_THINGS_WITH_CALLBACKS,
    Faults,         \* what may go wrong, or come between
    MAX_EVENTS,     \* how many faults and connections a behaviour has
    MAX_CALLS,      \* how many calls a behaviour has
    MAX_INBOX       \* how many messages are on their way at a time

Operations == {"Update", "Get", "Delete"}

\* The callbacks an application registers for a Thing, in this order.
Kinds == <<"Updated", "Deleted", "Delta">>
KindSet == {Kinds[k] : k \in 1 .. 3}

ASSUME TasksAssumption == IsFiniteSet(Tasks) /\ NoTask \notin Tasks /\ NoThing \notin Things
ASSUME CallsAssumption ==
    Calls \subseteq [op : Operations \cup {"Register"}, thing : Things,
                     ucKeepSubscriptions : {0, 1}, callbacks : SUBSET KindSet]
ASSUME BoundsAssumption ==
    /\ shadowconfigMAX_THINGS_WITH_CALLBACKS \in Nat \ {0}
    /\ MAX_EVENTS \in Nat /\ MAX_CALLS \in Nat /\ MAX_INBOX \in Nat \ {0}
ASSUME FaultsAssumption == Faults \subseteq {"mqtt", "lost", "other", "duplicate"}

VARIABLES
    \* the client
    xInUse,
    xSubscribed,     \* per operation: xUpdateSubscribed, xGetSubscribed, xDeleteSubscribed
    xOperationMutex, \* the task that holds it, or NoTask
    xCallbackSemaphore, \* 0 or 1
    pxOperationData, \* the call in progress, as the MQTT callback sees it, or NoCall
    xOperationResult, \* success, or the answer the callback wrote
    ucTopicBuffer,   \* a topic, or Blank
    xCallbackCatalog,
    \* the tasks
    pc, call, ret,
    found,           \* the catalog entry of a registration
    registering,     \* the callback it has come to
    \* the MQTT task
    delivering,      \* the answer for which xOperationDataMutex is held, or NoMsg
    kept,            \* how many buffers of answers were taken from the MQTT agent
    halted,          \* an assertion failed
    \* the connection and the service
    connected,
    subscriptions,   \* the topics the server delivers
    requests,        \* the requests the service has not answered
    inbox,           \* the messages on their way to the device
    calls, budget

clientVars  == <<xInUse, xSubscribed, xOperationMutex, xCallbackSemaphore,
                 pxOperationData, xOperationResult, ucTopicBuffer, xCallbackCatalog>>
taskVars    == <<pc, call, ret, found, registering>>
mqttVars    == <<delivering, kept, halted>>
networkVars == <<connected, subscriptions, requests, inbox>>
vars == <<clientVars, taskVars, mqttVars, networkVars, calls, budget>>

Slots == 1 .. shadowconfigMAX_THINGS_WITH_CALLBACKS

\* The suffix "" is that of the topic to which an operation publishes.
Suffixes == {"", "accepted", "rejected", "documents", "delta"}
Topic(thing, op, suffix) == [thing |-> thing, op |-> op, suffix |-> suffix]
Topics == [thing : Things, op : Operations, suffix : Suffixes]

\* What has no topic of its own: an empty topic buffer, no message, and the returns
\* of the client that are not answers of the service.
Blank  == Topic(NoThing, "Other", "blank")
NoMsg  == [id |-> 0, topic |-> Blank]
Outcome(s) == [id |-> 0, topic |-> Topic(NoThing, "Other", s)]

NoCall == [op |-> "Other", thing |-> NoThing, id |-> 0, ucKeepSubscriptions |-> 0,
           callbacks |-> {}]

\* The topic of the callback of a kind.
TopicOf(thing, kind) ==
    CASE kind = "Updated" -> Topic(thing, "Update", "documents")
      [] kind = "Deleted" -> Topic(thing, "Delete", "accepted")
      [] kind = "Delta"   -> Topic(thing, "Update", "delta")

\* A message carries the client token of the call that it answers; 0 is that of
\* another client of the service.
Messages == [id : 0 .. MAX_CALLS, topic : Topics]

FreeEntry == [xInUse |-> FALSE, thing |-> NoThing, callbacks |-> {}]

Init ==
    /\ xInUse = FALSE
    /\ xSubscribed = [op \in Operations |-> FALSE]
    /\ xOperationMutex = NoTask /\ xCallbackSemaphore = 0
    /\ pxOperationData = NoCall /\ xOperationResult = Outcome("success")
    /\ ucTopicBuffer = Blank
    /\ xCallbackCatalog = [s \in Slots |-> FreeEntry]
    /\ pc = [t \in Tasks |-> "idle"] /\ call = [t \in Tasks |-> NoCall]
    /\ ret = [t \in Tasks |-> Outcome("none")] /\ found = [t \in Tasks |-> 0]
    /\ registering = [t \in Tasks |-> 0]
    /\ delivering = NoMsg /\ kept = 0 /\ halted = FALSE
    /\ connected = FALSE /\ subscriptions = {} /\ requests = {} /\ inbox = <<>>
    /\ calls = 0 /\ budget = MAX_EVENTS

SpendsOne == budget > 0 /\ budget' = budget - 1

AllIdle == \A t \in Tasks : pc[t] = "idle"

-----------------------------------------------------------------------------
(* The MQTT agent, as the client sees it.                                  *)

\* A call of the agent that changes the subscriptions by adding or removing.
MqttCall(changed, ok) ==
    \/ ok /\ connected /\ subscriptions' = changed /\ UNCHANGED budget
    \/ ~ok /\ ~connected /\ UNCHANGED <<subscriptions, budget>>
    \/ /\ ~ok /\ connected /\ "mqtt" \in Faults /\ SpendsOne
       /\ subscriptions' \in {subscriptions, changed}

MQTT_AGENT_Subscribe(topic, ok)   == MqttCall(subscriptions \cup {topic}, ok)
MQTT_AGENT_Unsubscribe(topic, ok) == MqttCall(subscriptions \ {topic}, ok)

Deliver(m) == inbox' = IF m.topic \in subscriptions THEN Append(inbox, m) ELSE inbox

\* The service answers a request; an accepted update is announced as well.
ServiceAnswers ==
    /\ Len(inbox) < MAX_INBOX
    /\ \E r \in requests :
         /\ requests' = requests \ {r}
         /\ \E suffix \in {"accepted", "rejected"} \cup
                          (IF r.op = "Update" THEN {"documents", "delta"} ELSE {}) :
               Deliver([id |-> r.id, topic |-> Topic(r.thing, r.op, suffix)])
    /\ UNCHANGED <<clientVars, taskVars, mqttVars, connected, subscriptions, calls, budget>>

\* Another client of the service uses the same shadow.
OtherClient ==
    /\ "other" \in Faults /\ SpendsOne /\ Len(inbox) < MAX_INBOX
    /\ \E topic \in subscriptions : Deliver([id |-> 0, topic |-> topic])
    /\ UNCHANGED <<clientVars, taskVars, mqttVars, connected, subscriptions, requests, calls>>

\* The server repeats a message, which its quality of service allows.
Repeated ==
    /\ "duplicate" \in Faults /\ SpendsOne
    /\ inbox # <<>> /\ Len(inbox) < MAX_INBOX
    /\ inbox' = <<Head(inbox)>> \o inbox
    /\ UNCHANGED <<clientVars, taskVars, mqttVars, connected, subscriptions, requests, calls>>

\* prvShadowMQTTCallback with eMQTTAgentDisconnect, when the connection is lost or
\* closed.  Sessions are not kept by the server.
ClearSubscribedFlags ==
    /\ connected' = FALSE /\ subscriptions' = {} /\ inbox' = <<>>
    /\ xSubscribed' = [op \in Operations |-> FALSE]

ConnectionLost ==
    /\ "lost" \in Faults /\ SpendsOne
    /\ connected /\ delivering = NoMsg
    /\ ClearSubscribedFlags
    /\ UNCHANGED <<xInUse, xOperationMutex, xCallbackSemaphore, pxOperationData,
                   xOperationResult, ucTopicBuffer, xCallbackCatalog, taskVars,
                   mqttVars, requests, calls>>

-----------------------------------------------------------------------------
(* The client's life.                                                      *)

SHADOW_ClientCreate ==
    /\ ~xInUse
    /\ xInUse' = TRUE /\ xCallbackSemaphore' = 1
    /\ UNCHANGED <<xSubscribed, xOperationMutex, pxOperationData, xOperationResult,
                   ucTopicBuffer, xCallbackCatalog, taskVars, mqttVars, networkVars,
                   calls, budget>>

\* An assertion of the MQTT task finds the socket of a client that is connected still.
SHADOW_ClientConnect ==
    /\ xInUse
    /\ IF connected THEN halted' = TRUE /\ UNCHANGED connected
       ELSE connected' = TRUE /\ UNCHANGED halted
    /\ UNCHANGED <<clientVars, taskVars, delivering, kept, subscriptions, requests, inbox,
                   calls, budget>>

SHADOW_ClientDisconnect ==
    /\ xInUse /\ connected /\ delivering = NoMsg
    /\ SpendsOne
    /\ ClearSubscribedFlags
    /\ UNCHANGED <<xInUse, xOperationMutex, xCallbackSemaphore, pxOperationData,
                   xOperationResult, ucTopicBuffer, xCallbackCatalog, taskVars,
                   mqttVars, requests, calls>>

\* "Do not call while another operation is in progress" (aws_shadow.h).  Nobody looks
\* whether the client is connected: the MQTT connection stays up, and the next client
\* that is created gets it.
SHADOW_ClientDelete ==
    /\ xInUse /\ AllIdle /\ SpendsOne
    /\ xInUse' = FALSE /\ xSubscribed' = [op \in Operations |-> FALSE]
    /\ xCallbackSemaphore' = 0
    /\ xCallbackCatalog' = [s \in Slots |-> FreeEntry]
    /\ UNCHANGED <<xOperationMutex, pxOperationData, xOperationResult, ucTopicBuffer,
                   taskVars, mqttVars, networkVars, calls>>

-----------------------------------------------------------------------------
(* The application's calls.                                                *)

\* The document of a Get is in a buffer of the MQTT agent.
HasBuffer(answer) ==
    answer.topic.op = "Get" /\ answer.topic.suffix = "accepted"

SHADOW_ReturnMQTTBuffer(t) ==
    /\ pc[t] = "idle" /\ HasBuffer(ret[t])
    /\ kept' = kept - 1
    /\ ret' = [ret EXCEPT ![t] = Outcome("none")]
    /\ UNCHANGED <<clientVars, pc, call, found, registering, delivering, halted,
                   networkVars, calls, budget>>

RegisterSteps == {"catalog", "old", "new", "registered"}

\* SHADOW_Update, SHADOW_Get, SHADOW_Delete and SHADOW_RegisterCallbacks.  An
\* application registers callbacks from one task at a time, as the catalog is not
\* locked while an entry is taken.
CallsClient(t) ==
    /\ pc[t] = "idle" /\ xInUse /\ calls < MAX_CALLS /\ ~HasBuffer(ret[t])
    /\ calls' = calls + 1
    /\ \E c \in Calls :
         /\ c.op = "Register" => \A u \in Tasks : pc[u] \notin RegisterSteps
         /\ call' = [call EXCEPT ![t] = [op |-> c.op, thing |-> c.thing, id |-> calls + 1,
                                         ucKeepSubscriptions |-> c.ucKeepSubscriptions,
                                         callbacks |-> c.callbacks]]
         /\ pc' = [pc EXCEPT ![t] = IF c.op = "Register" THEN "catalog" ELSE "lock"]
    /\ ret' = [ret EXCEPT ![t] = Outcome("none")]
    /\ UNCHANGED <<clientVars, found, registering, mqttVars, networkVars, budget>>

GoesTo(t, next) == pc' = [pc EXCEPT ![t] = next]
Returns(t, r)   == ret' = [ret EXCEPT ![t] = r]
Result(ok)      == Outcome(IF ok THEN "success" ELSE "failed")

-----------------------------------------------------------------------------
(* prvShadowOperation.                                                     *)

OperationOf(t, suffix) == Topic(call[t].thing, call[t].op, suffix)
FillTopic(t, suffix)   == ucTopicBuffer' = OperationOf(t, suffix)

\* One operation at a time; the mutex may not come free in time.
TakeOperationMutex(t) ==
    /\ pc[t] = "lock"
    /\ \/ /\ xOperationMutex = NoTask
          /\ xOperationMutex' = t
          /\ GoesTo(t, IF xSubscribed[call[t].op] THEN "prepare" ELSE "subAccepted")
          /\ UNCHANGED ret
       \/ /\ xOperationMutex # NoTask
          /\ GoesTo(t, "idle") /\ Returns(t, Outcome("failed"))
          /\ UNCHANGED xOperationMutex
    /\ UNCHANGED <<xInUse, xSubscribed, xCallbackSemaphore, pxOperationData,
                   xOperationResult, ucTopicBuffer, xCallbackCatalog, call, found,
                   registering, mqttVars, networkVars, calls, budget>>

clientRest == <<xInUse, xOperationMutex, xCallbackSemaphore, pxOperationData,
                xOperationResult, xCallbackCatalog, call, found, registering, mqttVars,
                connected, requests, inbox, calls>>

\* prvShadowSubscribeToAcceptedRejected: its two subscriptions, and the way back
\* from the first.
SubscribeToAccepted(t) ==
    /\ pc[t] = "subAccepted" /\ FillTopic(t, "accepted")
    /\ \E ok \in BOOLEAN :
         /\ MQTT_AGENT_Subscribe(OperationOf(t, "accepted"), ok)
         /\ Returns(t, Result(ok))
         /\ GoesTo(t, IF ok THEN "subRejected" ELSE "cleanup")
    /\ UNCHANGED <<clientRest, xSubscribed>>

SubscribeToRejected(t) ==
    /\ pc[t] = "subRejected" /\ FillTopic(t, "rejected")
    /\ \E ok \in BOOLEAN :
         /\ MQTT_AGENT_Subscribe(OperationOf(t, "rejected"), ok)
         /\ Returns(t, Result(ok))
         /\ GoesTo(t, IF ok THEN "prepare" ELSE "undoAccepted")
    /\ UNCHANGED <<clientRest, xSubscribed>>

UndoAccepted(t) ==
    /\ pc[t] = "undoAccepted" /\ FillTopic(t, "accepted")
    /\ \E ok \in BOOLEAN : MQTT_AGENT_Unsubscribe(OperationOf(t, "accepted"), ok)
    /\ GoesTo(t, "cleanup")
    /\ UNCHANGED <<clientRest, xSubscribed, ret>>

\* mutant: the topic of the operation is not put into the topic buffer.
BugPrepare(t) ==
    /\ pc[t] = "prepare"
    /\ xSubscribed' = [xSubscribed EXCEPT ![call[t].op] = TRUE]
    /\ IF xCallbackSemaphore = 0
       THEN halted' = TRUE /\ UNCHANGED <<xCallbackSemaphore, pxOperationData, pc>>
       ELSE /\ xCallbackSemaphore' = 0
            /\ pxOperationData' = call[t]
            /\ GoesTo(t, "publish") /\ UNCHANGED halted
    /\ UNCHANGED <<xInUse, xOperationMutex, xOperationResult, xCallbackCatalog, call, ret,
                   found, registering, delivering, kept, networkVars, calls, budget,
                   ucTopicBuffer>>

\* From here the callback may find the operation.
Prepare(t) ==
    /\ pc[t] = "prepare"
    /\ xSubscribed' = [xSubscribed EXCEPT ![call[t].op] = TRUE]
    /\ IF xCallbackSemaphore = 0
       THEN halted' = TRUE /\ UNCHANGED <<xCallbackSemaphore, pxOperationData,
                                          ucTopicBuffer, pc>>
       ELSE /\ xCallbackSemaphore' = 0
            /\ FillTopic(t, "") /\ pxOperationData' = call[t]
            /\ GoesTo(t, "publish") /\ UNCHANGED halted
    /\ UNCHANGED <<xInUse, xOperationMutex, xOperationResult, xCallbackCatalog, call, ret,
                   found, registering, delivering, kept, networkVars, calls, budget>>

\* MQTT_AGENT_Publish: the message goes out, or not; the call returns later, and may
\* report a failure of a message that went out.
PublishOperation(t) ==
    /\ pc[t] = "publish"
    /\ \/ connected /\ requests' = requests \cup {call[t]} /\ UNCHANGED budget
          /\ GoesTo(t, "publishing") /\ UNCHANGED ret
       \/ /\ connected => "mqtt" \in Faults /\ SpendsOne
          /\ ~connected => UNCHANGED budget
          /\ UNCHANGED requests
          /\ GoesTo(t, "give") /\ Returns(t, Outcome("failed"))
    /\ UNCHANGED <<clientVars, call, found, registering, mqttVars, connected,
                   subscriptions, inbox, calls>>

PublishReturns(t) ==
    /\ pc[t] = "publishing"
    /\ \/ GoesTo(t, "wait") /\ UNCHANGED <<ret, budget>>
       \/ /\ "mqtt" \in Faults /\ SpendsOne
          /\ GoesTo(t, "give") /\ Returns(t, Outcome("failed"))
    /\ UNCHANGED <<clientVars, call, found, registering, mqttVars, networkVars, calls>>

\* mutant: the task waits without a limit of time.
BugWaitForAnswer(t) ==
    /\ pc[t] = "wait"
    /\ xCallbackSemaphore = 1 /\ xCallbackSemaphore' = 0
    /\ GoesTo(t, "read") /\ UNCHANGED ret
    /\ UNCHANGED <<xInUse, xSubscribed, xOperationMutex, pxOperationData,
                   xOperationResult, ucTopicBuffer, xCallbackCatalog, call, found,
                   registering, mqttVars, networkVars, calls, budget>>

\* The task waits for the callback to give the semaphore.
WaitForAnswer(t) ==
    /\ pc[t] = "wait"
    /\ \/ /\ xCallbackSemaphore = 1 /\ xCallbackSemaphore' = 0
          /\ GoesTo(t, "read") /\ UNCHANGED ret
       \/ /\ xCallbackSemaphore = 0 /\ UNCHANGED xCallbackSemaphore
          /\ GoesTo(t, "give") /\ Returns(t, Outcome("timeout"))
    /\ UNCHANGED <<xInUse, xSubscribed, xOperationMutex, pxOperationData,
                   xOperationResult, ucTopicBuffer, xCallbackCatalog, call, found,
                   registering, mqttVars, networkVars, calls, budget>>

ReadResult(t) ==
    /\ pc[t] = "read"
    /\ Returns(t, xOperationResult) /\ GoesTo(t, "give")
    /\ UNCHANGED <<clientVars, call, found, registering, mqttVars, networkVars, calls, budget>>

\* mutant: the semaphore is only given back after an answer.
BugGiveSemaphore(t) ==
    /\ pc[t] = "give" /\ GoesTo(t, "cleanup")
    /\ xCallbackSemaphore' = IF ret[t] = Outcome("timeout") THEN xCallbackSemaphore ELSE 1
    /\ UNCHANGED <<xInUse, xSubscribed, xOperationMutex, pxOperationData,
                   xOperationResult, ucTopicBuffer, xCallbackCatalog, call, ret, found,
                   registering, mqttVars, networkVars, calls, budget>>

\* The semaphore is binary: giving it when it is available fails, and the assertion
\* around the call does not let the board go on.
GiveSemaphore(t) ==
    /\ pc[t] = "give"
    /\ IF xCallbackSemaphore = 1
       THEN halted' = TRUE /\ UNCHANGED <<xCallbackSemaphore, pc>>
       ELSE xCallbackSemaphore' = 1 /\ GoesTo(t, "cleanup") /\ UNCHANGED halted
    /\ UNCHANGED <<xInUse, xSubscribed, xOperationMutex, pxOperationData,
                   xOperationResult, ucTopicBuffer, xCallbackCatalog, call, ret, found,
                   registering, delivering, kept, networkVars, calls, budget>>

\* prvMatchCallbackTopic of a topic of the Thing, whatever callbacks it has.
InCatalog(thing) == \E s \in Slots : xCallbackCatalog[s].xInUse
                                     /\ xCallbackCatalog[s].thing = thing

\* The subscriptions of a Delete are kept when the Thing has an entry, and that to
\* delete/accepted is kept even if it has none.
CleanUp(t) ==
    /\ pc[t] = "cleanup"
    /\ IF call[t].ucKeepSubscriptions = 1
       THEN GoesTo(t, "release") /\ UNCHANGED ucTopicBuffer
       ELSE IF call[t].op = "Delete"
       THEN /\ FillTopic(t, "accepted")
            /\ GoesTo(t, IF InCatalog(call[t].thing) THEN "release" ELSE "unsubRejected")
       ELSE GoesTo(t, "unsubAccepted") /\ UNCHANGED ucTopicBuffer
    /\ UNCHANGED <<clientRest, xSubscribed, subscriptions, budget, ret>>

\* prvShadowUnsubscribeFromAcceptedRejected: the result of the second call counts.
UnsubscribeFromAccepted(t) ==
    /\ pc[t] = "unsubAccepted" /\ FillTopic(t, "accepted")
    /\ \E ok \in BOOLEAN : MQTT_AGENT_Unsubscribe(OperationOf(t, "accepted"), ok)
    /\ GoesTo(t, "unsubRejected")
    /\ UNCHANGED <<clientRest, xSubscribed, ret>>

UnsubscribeFromRejected(t) ==
    /\ pc[t] = "unsubRejected" /\ FillTopic(t, "rejected")
    /\ \E ok \in BOOLEAN :
         /\ MQTT_AGENT_Unsubscribe(OperationOf(t, "rejected"), ok)
         /\ xSubscribed' = IF ok THEN [xSubscribed EXCEPT ![call[t].op] = FALSE]
                           ELSE xSubscribed
    /\ GoesTo(t, "release")
    /\ UNCHANGED <<clientRest, ret>>

\* The data of the operation is cleared under xOperationDataMutex.
ReleaseOperation(t) ==
    /\ pc[t] = "release" /\ delivering = NoMsg
    /\ pxOperationData' = NoCall /\ xOperationResult' = Outcome("success")
    /\ ucTopicBuffer' = Blank /\ xOperationMutex' = NoTask
    /\ GoesTo(t, "idle")
    /\ UNCHANGED <<xInUse, xSubscribed, xCallbackSemaphore, xCallbackCatalog, call, ret,
                   found, registering, mqttVars, networkVars, calls, budget>>

prvShadowOperation(t) ==
    \/ TakeOperationMutex(t)
    \/ SubscribeToAccepted(t) \/ SubscribeToRejected(t) \/ UndoAccepted(t)
    \/ Prepare(t) \/ PublishOperation(t) \/ PublishReturns(t)
    \/ WaitForAnswer(t) \/ ReadResult(t) \/ GiveSemaphore(t)
    \/ CleanUp(t) \/ UnsubscribeFromAccepted(t) \/ UnsubscribeFromRejected(t)
    \/ ReleaseOperation(t)

-----------------------------------------------------------------------------
(* SHADOW_RegisterCallbacks.                                               *)

EntriesOf(thing) == {s \in Slots : xCallbackCatalog[s].xInUse
                                   /\ xCallbackCatalog[s].thing = thing}
FreeEntries      == {s \in Slots : ~xCallbackCatalog[s].xInUse}

\* The entry of the Thing, or the last free one.
prvGetCallbackCatalogEntry(t) ==
    /\ pc[t] = "catalog"
    /\ LET fits == IF EntriesOf(call[t].thing) # {} THEN EntriesOf(call[t].thing)
                   ELSE {s \in FreeEntries : \A u \in FreeEntries : u <= s}
       IN  IF fits = {}
           THEN halted' = TRUE /\ UNCHANGED <<xCallbackCatalog, found, registering, pc>>
           ELSE \E s \in fits :
                  /\ xCallbackCatalog' = [xCallbackCatalog EXCEPT
                                            ![s].xInUse = TRUE, ![s].thing = call[t].thing]
                  /\ found' = [found EXCEPT ![t] = s]
                  /\ registering' = [registering EXCEPT ![t] = 1]
                  /\ GoesTo(t, "old") /\ UNCHANGED halted
    /\ UNCHANGED <<xInUse, xSubscribed, xOperationMutex, xCallbackSemaphore,
                   pxOperationData, xOperationResult, ucTopicBuffer, call, ret,
                   delivering, kept, networkVars, calls, budget>>

\* prvRegisterCallback: the old callback's topic is left, the new one's joined, and
\* the later result decides whether the callback is changed.
LeaveOldTopic(t) ==
    /\ pc[t] = "old" /\ GoesTo(t, "new")
    /\ LET kind == Kinds[registering[t]]
       IN  IF kind \in xCallbackCatalog[found[t]].callbacks
           THEN \E ok \in BOOLEAN :
                  /\ MQTT_AGENT_Unsubscribe(TopicOf(call[t].thing, kind), ok)
                  /\ Returns(t, Result(ok))
           ELSE Returns(t, Result(TRUE)) /\ UNCHANGED <<subscriptions, budget>>
    /\ UNCHANGED <<clientRest, xSubscribed, ucTopicBuffer>>

JoinNewTopic(t) ==
    LET kind  == Kinds[registering[t]]
        entry == xCallbackCatalog[found[t]]
        new   == call[t].callbacks \cap {kind}
        Changed(ok) ==
          /\ Returns(t, Result(ok))
          /\ xCallbackCatalog' = IF ok THEN [xCallbackCatalog EXCEPT ![found[t]].callbacks =
                                               (entry.callbacks \ {kind}) \cup new]
                                 ELSE xCallbackCatalog
          /\ IF ok /\ registering[t] < 3
             THEN registering' = [registering EXCEPT ![t] = @ + 1] /\ GoesTo(t, "old")
             ELSE UNCHANGED registering /\ GoesTo(t, "registered")
    IN  /\ pc[t] = "new"
        /\ IF new # {}
           THEN \E ok \in BOOLEAN : MQTT_AGENT_Subscribe(TopicOf(call[t].thing, kind), ok)
                                    /\ Changed(ok)
           ELSE Changed(ret[t] = Result(TRUE)) /\ UNCHANGED <<subscriptions, budget>>
        /\ UNCHANGED <<xInUse, xSubscribed, xOperationMutex, xCallbackSemaphore,
                       pxOperationData, xOperationResult, ucTopicBuffer, call, found,
                       mqttVars, connected, requests, inbox, calls>>

\* An entry without callbacks is freed.
FreeEmptyEntry(t) ==
    /\ pc[t] = "registered" /\ GoesTo(t, "idle")
    /\ xCallbackCatalog' = IF xCallbackCatalog[found[t]].callbacks = {}
                           THEN [xCallbackCatalog EXCEPT ![found[t]] = FreeEntry]
                           ELSE xCallbackCatalog
    /\ found' = [found EXCEPT ![t] = 0]
    /\ registering' = [registering EXCEPT ![t] = 0]
    /\ UNCHANGED <<xInUse, xSubscribed, xOperationMutex, xCallbackSemaphore,
                   pxOperationData, xOperationResult, ucTopicBuffer, call, ret, mqttVars,
                   networkVars, calls, budget>>

SHADOW_RegisterCallbacks(t) ==
    prvGetCallbackCatalogEntry(t) \/ LeaveOldTopic(t) \/ JoinNewTopic(t) \/ FreeEmptyEntry(t)

-----------------------------------------------------------------------------
(* prvShadowMQTTCallback, in the MQTT task.                                *)

\* The topic buffer is compared as far as it goes; the ending of the message's topic
\* says whether it is an answer.
IsAnswer(m) ==
    /\ pxOperationData # NoCall
    /\ m.topic.thing = ucTopicBuffer.thing /\ m.topic.op = ucTopicBuffer.op
    /\ ucTopicBuffer.suffix \in {"", m.topic.suffix}
    /\ m.topic.suffix \in {"accepted", "rejected"}

\* mutant: the client token is not looked at.
BugTokenMatches(m) == TRUE

\* prvShadowUpdateCallback looks at the client token; Get and Delete have none.
TokenMatches(m) == pxOperationData.op = "Update" => m.id = pxOperationData.id

\* While the task unsubscribes it rewrites the topic buffer without a lock.
BufferInUse == \E t \in Tasks : pc[t] \in {"cleanup", "unsubAccepted", "unsubRejected"}

callbackRest == <<xInUse, xSubscribed, xOperationMutex, pxOperationData, ucTopicBuffer,
                  xCallbackCatalog, taskVars, connected, subscriptions, requests,
                  calls, budget>>

\* The answer is taken for the operation in progress.
OperationAnswered ==
    /\ xInUse /\ delivering = NoMsg /\ inbox # <<>>
    /\ LET m == Head(inbox)
       IN  /\ IsAnswer(m) /\ TokenMatches(m)
           /\ xOperationResult' = m /\ delivering' = m
    /\ inbox' = Tail(inbox)
    /\ UNCHANGED <<callbackRest, xCallbackSemaphore, kept, halted>>

\* A deleted client has no xOperationDataMutex to take, which asserts.
ClientIsDeleted ==
    /\ ~xInUse /\ inbox # <<>>
    /\ halted' = TRUE
    /\ UNCHANGED <<callbackRest, inbox, xCallbackSemaphore, xOperationResult, delivering, kept>>

\* Any other message goes to the callback that is registered for its topic, if any;
\* the callbacks of the application leave the client alone.
OtherMessage ==
    /\ xInUse /\ delivering = NoMsg /\ inbox # <<>>
    /\ LET m == Head(inbox) IN IsAnswer(m) => ~TokenMatches(m) \/ BufferInUse
    /\ inbox' = Tail(inbox)
    /\ UNCHANGED <<callbackRest, xCallbackSemaphore, xOperationResult, mqttVars>>

\* mutant: the buffer is taken whatever the answer to a Get says.
BugBufferTaken ==
    /\ delivering # NoMsg
    /\ IF xCallbackSemaphore = 1
       THEN halted' = TRUE /\ UNCHANGED <<xCallbackSemaphore, kept, delivering>>
       ELSE /\ xCallbackSemaphore' = 1
            /\ kept' = kept + IF delivering.topic.op = "Get" THEN 1 ELSE 0
            /\ delivering' = NoMsg /\ UNCHANGED halted
    /\ UNCHANGED <<callbackRest, inbox, xOperationResult>>

\* The operation's callback gives the semaphore; the document of a Get is kept.
SemaphoreGiven ==
    /\ delivering # NoMsg
    /\ IF xCallbackSemaphore = 1
       THEN halted' = TRUE /\ UNCHANGED <<xCallbackSemaphore, kept, delivering>>
       ELSE /\ xCallbackSemaphore' = 1
            /\ kept' = kept + IF HasBuffer(delivering) THEN 1 ELSE 0
            /\ delivering' = NoMsg /\ UNCHANGED halted
    /\ UNCHANGED <<callbackRest, inbox, xOperationResult>>

prvShadowMQTTCallback == OperationAnswered \/ OtherMessage \/ SemaphoreGiven \/ ClientIsDeleted

-----------------------------------------------------------------------------
TaskStep(t) == ~halted /\ (prvShadowOperation(t) \/ SHADOW_RegisterCallbacks(t))
CallbackStep == ~halted /\ prvShadowMQTTCallback

Application(t) == ~halted /\ (CallsClient(t) \/ SHADOW_ReturnMQTTBuffer(t))
Client == ~halted /\ (\/ SHADOW_ClientCreate \/ SHADOW_ClientConnect
                      \/ SHADOW_ClientDisconnect \/ SHADOW_ClientDelete)
Service == ~halted /\ (ServiceAnswers \/ OtherClient \/ Repeated \/ ConnectionLost)

Next ==
    \/ \E t \in Tasks : Application(t) \/ TaskStep(t)
    \/ CallbackStep \/ Client \/ Service

Spec == Init /\ [][Next]_vars

\* The tasks and the MQTT task are scheduled.
FairSpec == Spec /\ WF_vars(CallbackStep) /\ \A t \in Tasks : WF_vars(TaskStep(t))

-----------------------------------------------------------------------------
Outcomes == {Outcome(s) : s \in {"none", "success", "failed", "timeout"}}

TypeOK ==
    /\ xInUse \in BOOLEAN /\ xSubscribed \in [Operations -> BOOLEAN]
    /\ xOperationMutex \in Tasks \cup {NoTask} /\ xCallbackSemaphore \in {0, 1}
    /\ xOperationResult \in Messages \cup Outcomes
    /\ ucTopicBuffer \in Topics \cup {Blank}
    /\ \A s \in Slots : xCallbackCatalog[s].thing \in Things \cup {NoThing}
                        /\ xCallbackCatalog[s].callbacks \subseteq KindSet
    /\ \A t \in Tasks : ret[t] \in Messages \cup Outcomes /\ registering[t] \in 0 .. 3
    /\ delivering \in Messages \cup {NoMsg} /\ kept \in Nat /\ halted \in BOOLEAN
    /\ connected \in BOOLEAN /\ subscriptions \subseteq Topics

\* An operation leaves the client clean for the next one: while nobody has the
\* operation mutex, the semaphore is available, no operation is visible to the MQTT
\* callback and the topic buffer is empty; while one is visible, it is that of the
\* task that holds the mutex.  Whatever failed, timed out or arrived late.
CleanBetweenOperations ==
    ~halted /\ xInUse =>
        /\ xOperationMutex = NoTask => /\ xCallbackSemaphore = 1
                                       /\ pxOperationData = NoCall /\ delivering = NoMsg
                                       /\ ucTopicBuffer = Blank
        /\ pxOperationData # NoCall => /\ xOperationMutex # NoTask
                                       /\ pxOperationData = call[xOperationMutex]

\* An answer that a call returns is one to its operation on its Thing, and for an
\* update one that carries its client token.
AnswerIsOwn ==
    \A t \in Tasks :
        ret[t].topic.thing # NoThing =>
            /\ ret[t].topic.thing = call[t].thing /\ ret[t].topic.op = call[t].op
            /\ call[t].op = "Update" => ret[t].id = call[t].id

\* Every buffer that the client takes from the MQTT agent is in the hands of a caller
\* of SHADOW_Get, which can return it: none is lost to a call that gave up.
BuffersAreHandedOver ==
    ~halted /\ xOperationMutex = NoTask =>
        kept = Cardinality({t \in Tasks : HasBuffer(ret[t])})

\* While a Delete waits, its own answer is taken for it and does not go to the
\* Deleted callback, which is for deletions by others (prvShadowMQTTCallback: "the
\* client will not be notified of gets or deletes performed by itself").
OwnAnswerIsNotNotified ==
    [][\A t \in Tasks :
         /\ pc[t] \in {"publishing", "wait"} /\ inbox # <<>> /\ connected'
         /\ Head(inbox).id = call[t].id /\ Head(inbox).topic.suffix \in {"accepted", "rejected"}
         /\ inbox' = Tail(inbox)
         => delivering' = Head(inbox)]_vars

\* Every call of the client returns, whatever fails, unless an assertion stops the
\* board.
EveryCallReturns == \A t \in Tasks : pc[t] # "idle" ~> (pc[t] = "idle" \/ halted)

=============================================================================
