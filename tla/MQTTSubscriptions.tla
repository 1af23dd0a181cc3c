--------------------------- MODULE MQTTSubscriptions ---------------------------
(***************************************************************************)
(* The subscription manager of the MQTT library: a table of topic filters  *)
(* and callbacks that is updated when a SUBSCRIBE is sent, when it times   *)
(* out or is refused, when an UNSUBSCRIBE is acknowledged and when the     *)
(* connection is reset, and that received messages are dispatched by.      *)
(*                                                                         *)
(* All steps are taken by the MQTT task, one connection at a time; what    *)
(* interleaves with them is the network: requests and answers travel in    *)
(* order, while an operation may time out before its answer arrives.       *)
(*                                                                         *)
(* Source: lib/mqtt/aws_mqtt_lib.c.  The server (toServer, toClient,       *)
(* served) is external.  A filter is a model value; what it matches is     *)
(* given by MatchedBy (MQTTTopicFilter has the algorithm).                 *)
(***************************************************************************)
EXTENDS Integers, Sequences, FiniteSets

CONSTANTS
    Filters,            \* topic filters
    SimpleFilters,      \* those without wild-cards
    Unstorable,         \* invalid or too long ones
    Topics,             \* topics of messages
    MatchedBy,          \* [Filters -> SUBSET Topics]
    NoFilter,           \* the filter of a free entry
    MAX_SUBSCRIPTIONS,  \* mqttconfigSUBSCRIPTION_MANAGER_MAX_SUBSCRIPTIONS
    MAX_PARALLEL_OPS,   \* mqttconfigMAX_PARALLEL_OPS
    MAX_REQUESTS,       \* bound: requests made in a behaviour
    MAX_MESSAGES,       \* bound: messages under way to the client
    Overlap             \* tasks use one filter while another's operation on it is pending

ASSUME FiltersAssumption ==
    /\ NoFilter \notin Filters
    /\ SimpleFilters \subseteq Filters /\ Unstorable \subseteq Filters
    /\ MatchedBy \in [Filters -> SUBSET Topics]
ASSUME BoundsAssumption ==
    /\ MAX_SUBSCRIPTIONS \in Nat \ {0} /\ MAX_PARALLEL_OPS \in Nat \ {0}
    /\ MAX_REQUESTS \in Nat /\ MAX_MESSAGES \in Nat /\ Overlap \in BOOLEAN

Slots     == 1 .. MAX_SUBSCRIPTIONS
Ids       == 1 .. MAX_REQUESTS
NoCb      == 0                 \* NULL; other callbacks are named by their request
Callbacks == Ids \cup {NoCb}
Free      == [filter |-> NoFilter, cb |-> NoCb]
Entries   == [filter : Filters, cb : Callbacks]
Requests  == [op : {"Subscribe", "Unsubscribe"}, id : Ids, filter : Filters, cb : Callbacks]
Answers   == [kind : {"SUBACK", "SUBACKFailure", "UNSUBACK"}, id : Ids]
Publishes == [kind : {"PUBLISH"}, topic : Topics]

VARIABLES
    connected,  \* xConnectionState = eMQTTConnected
    subs,       \* xSubscriptions; Free where xInUse is false
    inUse,      \* ulInUseSubscriptions
    tx,         \* the SUBSCRIBEs and UNSUBSCRIBEs in xTxBufferListHead
    nextId,     \* usPacketIdentifier of the next request
    toServer,   \* requests under way
    toClient,   \* answers and messages under way
    served,     \* filters the server has subscribed the client to
    told,       \* per filter: what the application was told last
    delivery    \* the callbacks invoked for the last message

tableVars == <<subs, inUse>>
netVars   == <<toServer, toClient, served>>
vars == <<connected, tableVars, tx, nextId, netVars, told, delivery>>

\* What the application knows of a filter after the last call on it, call id:
\* "nothing" (it is pending or timed out), that its subscription with callback
\* cb is "granted", or that the subscription is "gone".
Told(is, id, c) == [is |-> is, by |-> id, cb |-> c]
Nothing == Told("nothing", 0, NoCb)

NoDelivery == [invoked |-> << >>, taken |-> FALSE, generic |-> FALSE]

Init ==
    /\ connected = FALSE
    /\ subs = [x \in Slots |-> Free]
    /\ inUse = 0
    /\ tx = {}
    /\ nextId = 1
    /\ toServer = << >> /\ toClient = << >>
    /\ served = {}
    /\ told = [f \in Filters |-> Nothing]
    /\ delivery = NoDelivery

-----------------------------------------------------------------------------
(* The table.                                                               *)

First(S) == CHOOSE x \in S : \A y \in S : x <= y

\* prvRemoveSubscription: table and count without the first entry for f.
Removed(f) ==
    LET found == {x \in Slots : subs[x].filter = f} IN
    IF found = {} THEN [subs |-> subs, inUse |-> inUse]
    ELSE [subs |-> [subs EXCEPT ![First(found)] = Free], inUse |-> inUse - 1]

RemoveSubscription(f) ==
    /\ subs' = Removed(f).subs
    /\ inUse' = Removed(f).inUse

\* The free entries once an entry for f has been removed.
FreeFor(f) == {x \in Slots : Removed(f).subs[x] = Free}

\* prvStoreSubscription succeeds.
CanStore(f) ==
    inUse < MAX_SUBSCRIPTIONS /\ f \notin Unstorable /\ FreeFor(f) # {}

BugStored(f, c) ==   \* mutant: an entry for the same filter is kept
    [subs  |-> [subs EXCEPT ![First(FreeFor(f))] = [filter |-> f, cb |-> c]],
     inUse |-> inUse + 1]

Stored(f, c) ==
    [subs  |-> [Removed(f).subs EXCEPT ![First(FreeFor(f))] = [filter |-> f, cb |-> c]],
     inUse |-> Removed(f).inUse + 1]

BugResetTable ==   \* mutant: the count is not reset
    subs' = [x \in Slots |-> Free] /\ UNCHANGED inUse

\* The loop in prvResetMQTTContext.
ResetTable == subs' = [x \in Slots |-> Free] /\ inUse' = 0

-----------------------------------------------------------------------------
(* Calls.                                                                   *)

\* The agent has a free entry in xWaitingTasks, and nobody else is at it.
MayRequest(f) ==
    /\ nextId <= MAX_REQUESTS
    /\ Cardinality(tx) < MAX_PARALLEL_OPS
    /\ Overlap \/ \A r \in tx : r.filter # f

Send(request) ==
    /\ tx' = tx \cup {request}
    /\ toServer' = Append(toServer, request)
    /\ nextId' = nextId + 1
    /\ told' = [told EXCEPT ![request.filter] = Told("nothing", request.id, NoCb)]
    /\ UNCHANGED <<connected, toClient, served, delivery>>

\* MQTT_Subscribe with a callback of its own or none.
Subscribe(f, c) ==
    /\ connected /\ MayRequest(f) /\ CanStore(f)
    /\ subs' = Stored(f, c).subs
    /\ inUse' = Stored(f, c).inUse
    /\ Send([op |-> "Subscribe", id |-> nextId, filter |-> f, cb |-> c])

\* No buffer, or the send fails: the entry just stored is removed again, and
\* with it goes the one it replaced.
SubscribeFails(f) ==
    /\ connected /\ MayRequest(f) /\ CanStore(f)
    /\ RemoveSubscription(f)
    /\ nextId' = nextId + 1
    /\ told' = [told EXCEPT ![f] = Told("gone", nextId, NoCb)]
    /\ UNCHANGED <<connected, tx, netVars, delivery>>

\* eMQTTSubscriptionManagerFull: nothing is stored and nothing removed.
SubscribeRefused(f) ==
    /\ connected /\ MayRequest(f) /\ ~CanStore(f)
    /\ nextId' = nextId + 1
    /\ UNCHANGED <<connected, tableVars, tx, netVars, told, delivery>>

\* eMQTTClientNotConnected.
SubscribeNotConnected(f) ==
    /\ ~connected /\ MayRequest(f)
    /\ RemoveSubscription(f)
    /\ nextId' = nextId + 1
    /\ UNCHANGED <<connected, tx, netVars, told, delivery>>

\* MQTT_Unsubscribe: the entry stays until the acknowledgement.
Unsubscribe(f) ==
    /\ connected /\ MayRequest(f)
    /\ Send([op |-> "Unsubscribe", id |-> nextId, filter |-> f, cb |-> NoCb])
    /\ UNCHANGED tableVars

\* It fails at once: not connected, no buffer, or the send fails.
UnsubscribeFails(f) ==
    /\ MayRequest(f)
    /\ nextId' = nextId + 1
    /\ UNCHANGED <<connected, tableVars, tx, netVars, told, delivery>>

-----------------------------------------------------------------------------
(* What the MQTT task receives.                                             *)

Received(kinds) ==
    /\ connected /\ toClient # << >> /\ Head(toClient).kind \in kinds
    /\ toClient' = Tail(toClient)

\* The operation a received acknowledgement belongs to.
Acknowledged(op) == {r \in tx : r.op = op /\ r.id = Head(toClient).id}

\* The caller of r is told; it is news of the filter unless another call on it
\* has been made since.
Tell(r, is) ==
    told' = IF told[r.filter].by = r.id
            THEN [told EXCEPT ![r.filter] = Told(is, r.id, r.cb)] ELSE told

\* Unexpected: the operation has timed out.
ReceivedUnexpectedAck ==
    /\ Received({"SUBACK", "SUBACKFailure", "UNSUBACK"})
    /\ Acknowledged(IF Head(toClient).kind = "UNSUBACK" THEN "Unsubscribe" ELSE "Subscribe") = {}
    /\ UNCHANGED <<connected, tableVars, tx, nextId, toServer, served, told, delivery>>

ReceivedSUBACK ==
    /\ Received({"SUBACK"})
    /\ \E r \in Acknowledged("Subscribe") :
        /\ tx' = tx \ {r}
        /\ Tell(r, "granted")
    /\ UNCHANGED <<connected, tableVars, nextId, toServer, served, delivery>>

BugRemoveRejected(f) == UNCHANGED tableVars   \* mutant: the entry is kept

\* prvRemoveSubscriptionForSubscribeOrUnsubscribeBuffer
RemoveRejected(f) == RemoveSubscription(f)

ReceivedSUBACKFailure ==
    /\ Received({"SUBACKFailure"})
    /\ \E r \in Acknowledged("Subscribe") :
        /\ tx' = tx \ {r}
        /\ RemoveRejected(r.filter)
        /\ Tell(r, "gone")
    /\ UNCHANGED <<connected, nextId, toServer, served, delivery>>

ReceivedUNSUBACK ==
    /\ Received({"UNSUBACK"})
    /\ \E r \in Acknowledged("Unsubscribe") :
        /\ tx' = tx \ {r}
        /\ RemoveSubscription(r.filter)
        /\ Tell(r, "gone")
    /\ UNCHANGED <<connected, nextId, toServer, served, delivery>>

\* The callbacks of the used entries in S for a message on t, in table order.
CallbacksFor(t, S) ==
    LET hits   == {x \in Slots : /\ subs[x].filter \in S /\ t \in MatchedBy[subs[x].filter]
                                /\ subs[x].cb # NoCb}
        Nth(k) == CHOOSE x \in hits : Cardinality({y \in hits : y <= x}) = k
    IN  [k \in 1 .. Cardinality(hits) |-> subs[Nth(k)].cb]

BugSecondPass(t) ==   \* mutant: an exact match ends the search
    IF CallbacksFor(t, SimpleFilters) # << >> THEN CallbacksFor(t, SimpleFilters)
    ELSE CallbacksFor(t, Filters \ SimpleFilters)

\* First the simple filters, then those with wild-cards.
Calls(t) == CallbacksFor(t, SimpleFilters) \o CallbacksFor(t, Filters \ SimpleFilters)

\* prvInvokeSubscriptionCallbacks and prvInvokeCallback: up to the first callback
\* that takes the buffer; the generic callback only if there was none to invoke.
Invoked(t, takers) ==
    LET calls == Calls(t)
        stops == {k \in 1 .. Len(calls) : calls[k] \in takers}
    IN  [invoked |-> IF stops = {} THEN calls ELSE SubSeq(calls, 1, First(stops)),
         taken   |-> stops # {},
         generic |-> calls = << >>]

ReceivedPublish ==
    /\ Received({"PUBLISH"})
    /\ \E takers \in SUBSET {subs[x].cb : x \in Slots} :
           delivery' = Invoked(Head(toClient).topic, takers)
    /\ UNCHANGED <<connected, tableVars, tx, nextId, toServer, served, told>>

\* MQTT_Periodic: a SUBSCRIBE that timed out loses its entry; an UNSUBSCRIBE
\* leaves the entry where it is.
TimeoutSubscribe ==
    /\ \E r \in tx :
        /\ r.op = "Subscribe"
        /\ tx' = tx \ {r}
        /\ RemoveSubscription(r.filter)
        /\ Tell(r, "gone")
    /\ UNCHANGED <<connected, nextId, netVars, delivery>>

TimeoutUnsubscribe ==
    /\ \E r \in tx : r.op = "Unsubscribe" /\ tx' = tx \ {r}
    /\ UNCHANGED <<connected, tableVars, nextId, netVars, told, delivery>>

\* prvResetMQTTContext, whatever ended the connection.  Sessions are clean: the
\* server forgets the subscriptions and what is under way is lost.
Disconnect ==
    /\ connected
    /\ connected' = FALSE
    /\ ResetTable
    /\ tx' = {}
    /\ toServer' = << >> /\ toClient' = << >>
    /\ served' = {}
    /\ told' = [f \in Filters |-> Nothing]
    /\ UNCHANGED <<nextId, delivery>>

Connect ==
    /\ ~connected
    /\ connected' = TRUE
    /\ UNCHANGED <<tableVars, tx, nextId, netVars, told, delivery>>

-----------------------------------------------------------------------------
(* The server.                                                              *)

Answer(r, kind) == toClient' = Append(toClient, [kind |-> kind, id |-> r.id])

ServerAnswers ==
    /\ toServer # << >> /\ Len(toClient) < MAX_MESSAGES
    /\ toServer' = Tail(toServer)
    /\ LET r == Head(toServer) IN
        \/ r.op = "Subscribe" /\ served' = served \cup {r.filter} /\ Answer(r, "SUBACK")
        \/ r.op = "Subscribe" /\ served' = served /\ Answer(r, "SUBACKFailure")
        \/ r.op = "Unsubscribe" /\ served' = served \ {r.filter} /\ Answer(r, "UNSUBACK")
    /\ UNCHANGED <<connected, tableVars, tx, nextId, told, delivery>>

ServerPublishes ==
    /\ Len(toClient) < MAX_MESSAGES
    /\ \E f \in served : \E t \in MatchedBy[f] :
           toClient' = Append(toClient, [kind |-> "PUBLISH", topic |-> t])
    /\ UNCHANGED <<connected, tableVars, tx, nextId, toServer, served, told, delivery>>

Request(f) ==
    \/ \E c \in {nextId, NoCb} : Subscribe(f, c)
    \/ SubscribeFails(f) \/ SubscribeRefused(f) \/ SubscribeNotConnected(f)
    \/ Unsubscribe(f) \/ UnsubscribeFails(f)

Next ==
    \/ \E f \in Filters : Request(f)
    \/ ReceivedUnexpectedAck \/ ReceivedSUBACK \/ ReceivedSUBACKFailure
    \/ ReceivedUNSUBACK \/ ReceivedPublish
    \/ TimeoutSubscribe \/ TimeoutUnsubscribe \/ Disconnect \/ Connect
    \/ ServerAnswers \/ ServerPublishes

Spec == Init /\ [][Next]_vars

-----------------------------------------------------------------------------
(* Properties.                                                              *)

TypeOK ==
    /\ connected \in BOOLEAN
    /\ subs \in [Slots -> Entries \cup {Free}]
    /\ inUse \in 0 .. MAX_SUBSCRIPTIONS
    /\ tx \subseteq Requests
    /\ nextId \in 1 .. MAX_REQUESTS + 1
    /\ toServer \in Seq(Requests) /\ toClient \in Seq(Answers \cup Publishes)
    /\ served \subseteq Filters
    /\ told \in [Filters -> [is : {"nothing", "granted", "gone"},
                            by : Ids \cup {0}, cb : Callbacks]]
    /\ delivery \in [invoked : Seq(Ids), taken : BOOLEAN, generic : BOOLEAN]

Used == {x \in Slots : subs[x] # Free}

\* The count is the number of used entries, so that a store neither fails with
\* an entry free nor succeeds without one.
CountIsExact == inUse = Cardinality(Used)

\* A filter has one entry: a message is not handed to a callback that was
\* replaced, and an unsubscribe leaves none behind.
OneEntryPerFilter ==
    \A x, y \in Used : subs[x].filter = subs[y].filter => x = y

HasEntry(f, c) == \E x \in Used : subs[x] = [filter |-> f, cb |-> c]

\* What the application was told of a filter is true of the table and of the
\* server: a granted subscription is in both, one that is gone has no entry.
ToldIsTrue ==
    \A f \in Filters :
        /\ told[f].is = "granted" => HasEntry(f, told[f].cb) /\ f \in served
        /\ told[f].is = "gone" => \A x \in Used : subs[x].filter # f

\* A message reaches the callback of every granted subscription that matches,
\* unless a callback before it took the buffer.
MessagesReachSubscribers ==
    [][ReceivedPublish =>
          \A f \in Filters :
              told[f].is = "granted" /\ told[f].cb # NoCb
              /\ Head(toClient).topic \in MatchedBy[f] =>
                  \/ delivery'.taken
                  \/ \E k \in DOMAIN delivery'.invoked :
                         delivery'.invoked[k] = told[f].cb]_vars
=============================================================================
