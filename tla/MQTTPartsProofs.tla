--------------------------- MODULE MQTTPartsProofs ---------------------------
(***************************************************************************)
(* Theorems about the three parts that the MQTT library and its agent are  *)
(* built on: the table of the subscription manager, the matching of topics *)
(* with filters, and the pool of buffers.  Each has a specification of its *)
(* own (Spec, MatchSpec and PoolSpec).                                     *)
(***************************************************************************)
EXTENDS MQTTSubscriptions, MQTTTopicFilter, BufferPool,
        SequenceTheorems, FiniteSetTheorems, WellFoundedInduction, TLAPS

(***************************************************************************)
(* MQTTSubscriptions: the table stays consistent, for any number of        *)
(* filters, entries, operations in flight and requests, and also when      *)
(* tasks use the same filter at the same time.                             *)
(***************************************************************************)

\* The part of the types the table depends on.
TableType ==
    /\ subs \in [Slots -> Entries \cup {Free}]
    /\ inUse \in Nat
    /\ tx \subseteq Requests
    /\ nextId \in Nat \ {0}

TableInv == TableType /\ CountIsExact /\ OneEntryPerFilter

\* The same of any table t with count n.
Occupied(t) == {x \in Slots : t[x] # Free}

Consistent(t, n) ==
    /\ t \in [Slots -> Entries \cup {Free}] /\ n \in Nat
    /\ IsFiniteSet(Occupied(t)) /\ n = Cardinality(Occupied(t))
    /\ \A x, y \in Occupied(t) : t[x].filter = t[y].filter => x = y

HasNone(t, f) == \A x \in Slots : t[x].filter # f

LEMMA FreeIsNoEntry ==
  /\ \A e \in Entries : e.filter \in Filters /\ e # Free
  /\ \A f \in Filters : Free.filter # f
  BY FiltersAssumption DEF Entries, Free

LEMMA UsedIsFinite == IsFiniteSet(Used)
  <1>1. IsFiniteSet(Slots)
    BY FS_Interval, BoundsAssumption DEF Slots
  <1> QED
    BY <1>1, FS_Subset DEF Used

\* The first of some entries is one of them.
LEMMA FirstIsMember ==
  ASSUME NEW S \in SUBSET Slots, S # {}
  PROVE  First(S) \in S
  <1> DEFINE R == OpToRel(<, Nat)
  <1>1. S \subseteq Nat
    BY BoundsAssumption DEF Slots
  <1>2. PICK x \in S : \A y \in S : <<y, x>> \notin R
    <2> HIDE DEF R
    <2> QED
      BY <1>1, NatLessThanWellFounded, WFMin DEF R
  <1>3. R = {p \in Nat \X Nat : p[1] < p[2]}
    BY DEF OpToRel
  <1>4. \A y \in S : x <= y
    <2> HIDE DEF R
    <2> SUFFICES ASSUME NEW y \in S PROVE ~(y < x)
      BY <1>1
    <2>1. <<y, x>> \in Nat \X Nat /\ <<y, x>>[1] = y /\ <<y, x>>[2] = x
      BY <1>1
    <2> QED
      BY <1>2, <1>3, <2>1
  <1> QED
    BY <1>4 DEF First

LEMMA TableIsConsistent == TableInv => Consistent(subs, inUse)
  BY UsedIsFinite
  DEF TableInv, TableType, CountIsExact, OneEntryPerFilter, Consistent, Used, Occupied

LEMMA ConsistentTable ==
  ASSUME Consistent(subs', inUse'), tx' \subseteq Requests, nextId' \in Nat \ {0}
  PROVE  TableInv'
  BY DEF TableInv, TableType, CountIsExact, OneEntryPerFilter, Consistent, Used, Occupied

LEMMA EmptyTable == Consistent([x \in Slots |-> Free], 0)
  <1>1. Occupied([x \in Slots |-> Free]) = {}
    BY DEF Occupied
  <1> QED
    BY <1>1, FS_EmptySet DEF Consistent

\* prvRemoveSubscription keeps a table consistent and leaves no entry for f.
LEMMA RemovedTable ==
  ASSUME TableInv, NEW f \in Filters
  PROVE  Consistent(Removed(f).subs, Removed(f).inUse) /\ HasNone(Removed(f).subs, f)
  <1> DEFINE found == {x \in Slots : subs[x].filter = f}
             x == First(found)
             t == [subs EXCEPT ![x] = Free]
  <1>0. Consistent(subs, inUse)
    BY TableIsConsistent
  <1>1. CASE found = {}
    <2>1. Removed(f).subs = subs /\ Removed(f).inUse = inUse
      BY <1>1 DEF Removed
    <2> QED
      BY <1>0, <1>1, <2>1 DEF HasNone
  <1>2. CASE found # {}
    <2>1. x \in found
      BY <1>2, FirstIsMember
    <2>2. x \in Slots /\ subs[x].filter = f /\ subs[x] # Free
      BY <2>1, FreeIsNoEntry
    <2>3. Removed(f).subs = t /\ Removed(f).inUse = inUse - 1
      BY <1>2 DEF Removed
    <2> HIDE DEF x
    <2>4. /\ Occupied(t) = Occupied(subs) \ {x} /\ x \in Occupied(subs)
          /\ \A y \in Occupied(t) : t[y] = subs[y]
          /\ t \in [Slots -> Entries \cup {Free}]
      BY <1>0, <2>2 DEF Occupied, Consistent
    <2>5. HasNone(t, f)
      <3> SUFFICES ASSUME NEW y \in Slots, y # x, subs[y].filter = f PROVE FALSE
        BY <1>0, <2>2, FreeIsNoEntry DEF Consistent, HasNone
      <3>1. subs[y] # Free
        BY FreeIsNoEntry
      <3> QED
        BY <1>0, <2>2, <3>1 DEF Consistent, Occupied
    <2> HIDE DEF t
    <2>6. /\ IsFiniteSet(Occupied(t)) /\ Cardinality(Occupied(t)) \in Nat
          /\ Cardinality(Occupied(t)) = inUse - 1
      BY <1>0, <2>4, FS_RemoveElement, FS_CardinalityType DEF Consistent
    <2>7. Consistent(t, inUse - 1)
      BY <1>0, <2>4, <2>6 DEF Consistent
    <2> QED
      BY <2>3, <2>5, <2>7
  <1> QED
    BY <1>1, <1>2

\* A consistent table with one more entry, for a filter that has none.
LEMMA NewEntry ==
  ASSUME NEW t, NEW n, Consistent(t, n), NEW x \in Slots, t[x] = Free,
         NEW e \in Entries, HasNone(t, e.filter)
  PROVE  Consistent([t EXCEPT ![x] = e], n + 1)
  <1> DEFINE u == [t EXCEPT ![x] = e]
  <1>1. /\ Occupied(u) = Occupied(t) \cup {x} /\ x \notin Occupied(t)
        /\ \A y \in Occupied(t) : u[y] = t[y] /\ t[y].filter # e.filter
        /\ u[x] = e /\ u \in [Slots -> Entries \cup {Free}]
    BY FreeIsNoEntry DEF Occupied, Consistent, HasNone
  <1> HIDE DEF u
  <1>2. IsFiniteSet(Occupied(u)) /\ Cardinality(Occupied(u)) = n + 1
    BY <1>1, FS_AddElement DEF Consistent
  <1>3. \A y, z \in Occupied(u) : u[y].filter = u[z].filter => y = z
    BY <1>1 DEF Consistent
  <1>4. Consistent(u, n + 1)
    BY <1>1, <1>2, <1>3 DEF Consistent
  <1> QED
    BY <1>4 DEF u

\* prvStoreSubscription keeps a table consistent.
LEMMA StoredTable ==
  ASSUME TableInv, NEW f \in Filters, NEW c \in Callbacks, CanStore(f)
  PROVE  Consistent(Stored(f, c).subs, Stored(f, c).inUse)
  <1> DEFINE t == Removed(f).subs
             x == First(FreeFor(f))
             e == [filter |-> f, cb |-> c]
  <1>1. x \in FreeFor(f)
    BY FirstIsMember DEF FreeFor, CanStore
  <1>2. x \in Slots /\ t[x] = Free
    BY <1>1 DEF FreeFor
  <1>3. e \in Entries /\ e.filter = f
    BY DEF Entries
  <1>4. Stored(f, c).subs = [t EXCEPT ![x] = e] /\ Stored(f, c).inUse = Removed(f).inUse + 1
    BY DEF Stored
  <1>5. Consistent(t, Removed(f).inUse) /\ HasNone(t, f)
    BY RemovedTable
  <1> HIDE DEF t, x, e
  <1>6. Consistent([t EXCEPT ![x] = e], Removed(f).inUse + 1)
    BY <1>2, <1>3, <1>5, NewEntry
  <1> QED
    BY <1>4, <1>6

LEMMA TableInvInit == Init => TableInv
  <1> SUFFICES ASSUME Init PROVE TableInv
    OBVIOUS
  <1>1. Consistent(subs, inUse)
    BY EmptyTable DEF Init
  <1> QED
    BY <1>1
    DEF Init, TableInv, TableType, CountIsExact, OneEntryPerFilter, Consistent, Used, Occupied

\* A call keeps the table consistent.
LEMMA RequestKeepsTable ==
  ASSUME TableInv, NEW f \in Filters, Request(f)
  PROVE  TableInv'
  <1>0. nextId \in Nat \ {0} /\ (MayRequest(f) => nextId \in Ids)
    BY BoundsAssumption DEF TableInv, TableType, MayRequest, Ids
  <1>1. ASSUME NEW c \in {nextId, NoCb}, Subscribe(f, c) PROVE TableInv'
    <2>1. c \in Callbacks /\ nextId \in Ids
      BY <1>0, <1>1 DEF Callbacks, Subscribe
    <2>2. Consistent(subs', inUse')
      BY <1>1, <2>1, StoredTable DEF Subscribe
    <2>3. tx' \subseteq Requests /\ nextId' \in Nat \ {0}
      BY <1>0, <1>1, <2>1 DEF Subscribe, Send, Requests, TableInv, TableType
    <2> QED
      BY <2>2, <2>3, ConsistentTable
  <1>2. CASE SubscribeFails(f) \/ SubscribeNotConnected(f)
    <2>1. RemoveSubscription(f) /\ tx' = tx /\ nextId' = nextId + 1
      BY <1>2 DEF SubscribeFails, SubscribeNotConnected
    <2>2. Consistent(subs', inUse')
      BY <2>1, RemovedTable DEF RemoveSubscription
    <2>3. tx' \subseteq Requests /\ nextId' \in Nat \ {0}
      BY <1>0, <2>1 DEF TableInv, TableType
    <2> QED
      BY <2>2, <2>3, ConsistentTable
  <1>3. CASE SubscribeRefused(f) \/ Unsubscribe(f) \/ UnsubscribeFails(f)
    <2>1. UNCHANGED tableVars /\ nextId' = nextId + 1 /\ tx' \subseteq Requests
      BY <1>0, <1>3 DEF SubscribeRefused, Unsubscribe, UnsubscribeFails, Send,
         Requests, Callbacks, TableInv, TableType
    <2> QED
      BY <1>0, <2>1 DEF tableVars, TableInv, TableType, CountIsExact, OneEntryPerFilter, Used
  <1> QED
    BY <1>1, <1>2, <1>3 DEF Request

LEMMA TableInvStep == TableInv /\ [Next]_vars => TableInv'
  <1> SUFFICES ASSUME TableInv, [Next]_vars PROVE TableInv'
    OBVIOUS
  <1>1. CASE \E f \in Filters : Request(f)
    BY <1>1, RequestKeepsTable
  <1>2. CASE ReceivedSUBACKFailure \/ ReceivedUNSUBACK \/ TimeoutSubscribe
    <2>1. PICK r \in tx : RemoveSubscription(r.filter) /\ tx' = tx \ {r} /\ nextId' = nextId
      BY <1>2 DEF ReceivedSUBACKFailure, ReceivedUNSUBACK, TimeoutSubscribe, Acknowledged,
         RemoveRejected
    <2>2. r.filter \in Filters
      BY <2>1 DEF TableInv, TableType, Requests
    <2>3. Consistent(subs', inUse')
      BY <2>1, <2>2, RemovedTable DEF RemoveSubscription
    <2>4. tx' \subseteq Requests /\ nextId' \in Nat \ {0}
      BY <2>1 DEF TableInv, TableType
    <2> QED
      BY <2>3, <2>4, ConsistentTable
  <1>3. CASE Disconnect
    <2>1. Consistent(subs', inUse')
      BY <1>3, EmptyTable DEF Disconnect, ResetTable
    <2>2. tx' \subseteq Requests /\ nextId' \in Nat \ {0}
      BY <1>3 DEF Disconnect, TableInv, TableType
    <2> QED
      BY <2>1, <2>2, ConsistentTable
  <1>4. CASE \/ ReceivedUnexpectedAck \/ ReceivedSUBACK \/ ReceivedPublish
             \/ TimeoutUnsubscribe \/ Connect \/ ServerAnswers \/ ServerPublishes
             \/ UNCHANGED vars
    <2>1. UNCHANGED tableVars /\ nextId' = nextId /\ tx' \subseteq tx
      BY <1>4 DEF ReceivedUnexpectedAck, ReceivedSUBACK, ReceivedPublish, TimeoutUnsubscribe,
         Connect, ServerAnswers, ServerPublishes, vars, tableVars, netVars
    <2> QED
      BY <2>1 DEF tableVars, TableInv, TableType, CountIsExact, OneEntryPerFilter, Used
  <1> QED
    BY <1>1, <1>2, <1>3, <1>4 DEF Next

\* The count of prvStoreSubscription's capacity check is exact: every place that
\* stores, removes or resets entries keeps it in step with the table.
THEOREM CountStaysExact == Spec => []CountIsExact
  <1>1. TableInv => CountIsExact
    BY DEF TableInv
  <1> QED
    BY <1>1, TableInvInit, TableInvStep, PTL DEF Spec

\* No filter ever has two entries, so that a message is never handed to a
\* callback the application has replaced.
THEOREM FiltersAreUnique == Spec => []OneEntryPerFilter
  <1>1. TableInv => OneEntryPerFilter
    BY DEF TableInv
  <1> QED
    BY <1>1, TableInvInit, TableInvStep, PTL DEF Spec

-----------------------------------------------------------------------------
(***************************************************************************)
(* MQTTSubscriptions: what the application is told is true, when no task   *)
(* uses a filter while another's operation on it is pending.               *)
(***************************************************************************)

Elements(s) == {s[k] : k \in 1 .. Len(s)}

\* The requests under way to the server, and the answers under way from it.
Asked    == Elements(toServer)
Answered == {m \in Elements(toClient) : m.kind # "PUBLISH"}

NetTypes ==
    /\ connected \in BOOLEAN /\ served \subseteq Filters
    /\ toServer \in Seq(Requests) /\ toClient \in Seq(Answers \cup Publishes)
    /\ told \in [Filters -> [is : {"nothing", "granted", "gone"}, by : Nat, cb : Callbacks]]

\* Identifiers are given in order, requests travel in order and are answered in order.
IdsInOrder ==
    /\ \A r \in tx \cup Asked \cup Answered : r.id < nextId
    /\ \A m, n \in 1 .. Len(toServer) : m < n => toServer[m].id < toServer[n].id
    /\ \A a \in Answered, q \in Asked : a.id < q.id

\* An operation in flight is the only one on its filter, is known by its identifier,
\* and no request made after it is on its filter.
OnePerFilter ==
    /\ \A r, s \in tx : r.filter = s.filter \/ r.id = s.id => r = s
    /\ \A r \in tx, q \in Asked :
         /\ r.id = q.id => r = q
         /\ r.filter = q.filter => q.id <= r.id

\* An operation in flight has told the application nothing yet; if it subscribes, its
\* entry is in the table; and if its SUBACK is under way, the server has its filter.
InFlightIsOpen ==
    \A r \in tx :
        /\ told[r.filter] = Told("nothing", r.id, NoCb)
        /\ r.op = "Subscribe" => HasEntry(r.filter, r.cb)
        /\ \A a \in Answered : a.kind = "SUBACK" /\ a.id = r.id => r.filter \in served

\* Nothing is under way that would undo a subscription that was granted.
GrantedIsSettled ==
    \A f \in Filters : told[f].is = "granted" =>
        \A r \in tx \cup Asked : r.filter # f

NothingWhenDown ==
    ~connected => /\ tx = {} /\ served = {} /\ toServer = << >> /\ toClient = << >>
                  /\ \A f \in Filters : told[f].is = "nothing"

ToldInv ==
    /\ TableInv /\ NetTypes /\ IdsInOrder /\ OnePerFilter /\ InFlightIsOpen
    /\ GrantedIsSettled /\ NothingWhenDown /\ ToldIsTrue

LEMMA ElementsFacts ==
    ASSUME NEW S, NEW s \in Seq(S)
    PROVE  /\ Elements(s) \subseteq S /\ Len(s) \in Nat
           /\ \A m \in S : Append(s, m) \in Seq(S) /\ Elements(Append(s, m)) = Elements(s) \cup {m}
           /\ s # << >> => /\ Head(s) \in Elements(s) /\ Tail(s) \in Seq(S)
                           /\ Elements(Tail(s)) \subseteq Elements(s)
<1>1. Elements(s) \subseteq S /\ Len(s) \in Nat
  BY DEF Elements
<1>2. ASSUME NEW m \in S
      PROVE  Append(s, m) \in Seq(S) /\ Elements(Append(s, m)) = Elements(s) \cup {m}
  <2> DEFINE a == Append(s, m)
  <2>1. /\ a \in Seq(S) /\ Len(a) = Len(s) + 1 /\ a[Len(s) + 1] = m
        /\ \A k \in 1 .. Len(s) : a[k] = s[k]
    OBVIOUS
  <2> HIDE DEF a
  <2>2. \A k \in 1 .. Len(a) : k \in 1 .. Len(s) \/ k = Len(s) + 1
    BY <1>1, <2>1
  <2>3. 1 .. Len(s) \subseteq 1 .. Len(a) /\ Len(s) + 1 \in 1 .. Len(a)
    BY <1>1, <2>1
  <2>4. Elements(a) \subseteq Elements(s) \cup {m}
    BY <2>1, <2>2 DEF Elements
  <2>5. Elements(s) \cup {m} \subseteq Elements(a)
    BY <2>1, <2>3 DEF Elements
  <2> QED  BY <2>1, <2>4, <2>5 DEF a
<1>3. ASSUME s # << >>
      PROVE  /\ Head(s) \in Elements(s) /\ Tail(s) \in Seq(S)
             /\ Elements(Tail(s)) \subseteq Elements(s)
  <2>1. /\ 1 \in 1 .. Len(s) /\ Head(s) = s[1] /\ Tail(s) \in Seq(S) /\ Len(Tail(s)) = Len(s) - 1
        /\ \A k \in 1 .. Len(Tail(s)) : Tail(s)[k] = s[k + 1] /\ k + 1 \in 1 .. Len(s)
    BY <1>3
  <2> QED  BY <2>1 DEF Elements
<1> QED  BY <1>1, <1>2, <1>3

LEMMA NothingIsUnderWay == Elements(<< >>) = {}
BY DEF Elements

\* The answers under way after one has been taken, and after a message is sent.
LEMMA AnsweredTail ==
    ASSUME NetTypes, toClient # << >>, toClient' = Tail(toClient)
    PROVE  Answered' \subseteq Answered /\ toClient' \in Seq(Answers \cup Publishes)
BY ElementsFacts DEF NetTypes, Answered

LEMMA AnsweredAppend ==
    ASSUME NetTypes, NEW m \in Answers \cup Publishes, toClient' = Append(toClient, m)
    PROVE  /\ Answered' \subseteq Answered \cup {m} /\ toClient' \in Seq(Answers \cup Publishes)
           /\ m.kind = "PUBLISH" => Answered' \subseteq Answered
BY ElementsFacts DEF NetTypes, Answered

\* In any table t: an entry for f with callback c.
EntryIn(t, f, c) == \E x \in Slots : t[x] = [filter |-> f, cb |-> c]

\* The entries of table t for other filters than f are those of table u.
OnlyFor(t, u, f) ==
    \A g \in Filters \ {f} :
        /\ \A c \in Callbacks : EntryIn(t, g, c) => EntryIn(u, g, c)
        /\ HasNone(t, g) => HasNone(u, g)

\* What is said by ToldIsTrue of told, table and server.
TrueOf(td, t, sv) ==
    \A f \in Filters :
        /\ td[f].is = "granted" => EntryIn(t, f, td[f].cb) /\ f \in sv
        /\ td[f].is = "gone" => HasNone(t, f)

LEMMA EntriesAreUsed ==
    ASSUME NEW f \in Filters, NEW c
    PROVE  /\ HasEntry(f, c) <=> EntryIn(subs, f, c)
           /\ (\A x \in Used : subs[x].filter # f) <=> HasNone(subs, f)
BY FiltersAssumption DEF HasEntry, EntryIn, Used, HasNone, Free

LEMMA ToldIsTrueOf == ToldIsTrue <=> TrueOf(told, subs, served)
BY EntriesAreUsed DEF ToldIsTrue, TrueOf

LEMMA ToldIsTrueOfNext == ToldIsTrue' <=> TrueOf(told', subs', served')
<1>1. ASSUME NEW f \in Filters, NEW c
      PROVE  /\ HasEntry(f, c)' <=> EntryIn(subs', f, c)
             /\ (\A x \in Used' : subs'[x].filter # f) <=> HasNone(subs', f)
  BY FiltersAssumption DEF HasEntry, EntryIn, Used, HasNone, Free
<1>2. \A f \in Filters :
        (\E x \in Used' : subs'[x] = [filter |-> f, cb |-> told'[f].cb])
          <=> EntryIn(subs', f, told'[f].cb)
  BY FiltersAssumption DEF EntryIn, Used, Free
<1> QED  BY <1>1, <1>2 DEF ToldIsTrue, TrueOf, HasEntry

LEMMA SameOnly == ASSUME NEW t, NEW f PROVE OnlyFor(t, t, f)
BY DEF OnlyFor

LEMMA RemovedOnly ==
    ASSUME TableInv, NEW f \in Filters
    PROVE  /\ OnlyFor(subs, Removed(f).subs, f) /\ HasNone(Removed(f).subs, f)
           /\ \A x \in Slots : \/ Removed(f).subs[x] = subs[x]
                               \/ subs[x].filter = f /\ Removed(f).subs[x] = Free
<1> DEFINE t == Removed(f).subs
<1>1. \A x \in Slots : \/ t[x] = subs[x]
                       \/ subs[x].filter = f /\ t[x] = Free
  <2> DEFINE found == {x \in Slots : subs[x].filter = f}
  <2>1. CASE found = {}
    BY <2>1 DEF Removed
  <2>2. CASE found # {}
    <3>1. First(found) \in found
      BY <2>2, FirstIsMember
    <3>2. t = [subs EXCEPT ![First(found)] = Free]
      BY <2>2 DEF Removed
    <3> HIDE DEF found, t
    <3>3. First(found) \in Slots /\ subs[First(found)].filter = f
      BY <3>1 DEF found
    <3> QED  BY <3>2, <3>3 DEF TableInv, TableType
  <2> QED  BY <2>1, <2>2
<1>2. HasNone(t, f)
  BY RemovedTable
<1> HIDE DEF t
<1>3. OnlyFor(subs, t, f)
  BY <1>1, FreeIsNoEntry DEF OnlyFor, EntryIn, HasNone
<1> QED  BY <1>1, <1>2, <1>3 DEF t

LEMMA StoredOnly ==
    ASSUME TableInv, NEW f \in Filters, NEW c \in Callbacks, CanStore(f)
    PROVE  OnlyFor(subs, Stored(f, c).subs, f) /\ EntryIn(Stored(f, c).subs, f, c)
<1> DEFINE t == Removed(f).subs
           u == Stored(f, c).subs
           x == First(FreeFor(f))
           e == [filter |-> f, cb |-> c]
<1>1. x \in Slots /\ t[x] = Free
  <2>1. x \in FreeFor(f)
    BY FirstIsMember DEF FreeFor, CanStore
  <2> QED  BY <2>1 DEF FreeFor
<1>2. u = [t EXCEPT ![x] = e] /\ e.filter = f
  BY DEF Stored
<1>3. /\ t \in [Slots -> Entries \cup {Free}] /\ OnlyFor(subs, t, f)
      /\ \A y \in Slots : t[y] = subs[y] \/ (subs[y].filter = f /\ t[y] = Free)
  BY RemovedTable, RemovedOnly DEF Consistent
<1> HIDE DEF t, u, x
<1>4. u[x] = e /\ \A y \in Slots : y # x => u[y] = t[y]
  BY <1>1, <1>2, <1>3
<1>5. EntryIn(u, f, c)
  BY <1>1, <1>4 DEF EntryIn
<1>6. ASSUME NEW g \in Filters \ {f}, NEW d \in Callbacks, EntryIn(subs, g, d)
      PROVE  EntryIn(u, g, d)
  <2>1. PICK y \in Slots : t[y] = [filter |-> g, cb |-> d]
    BY <1>3, <1>6 DEF OnlyFor, EntryIn
  <2>2. y # x
    BY <1>1, <2>1, FreeIsNoEntry
  <2> QED  BY <1>4, <2>1, <2>2 DEF EntryIn
<1>7. ASSUME NEW g \in Filters \ {f}, HasNone(subs, g) PROVE HasNone(u, g)
  BY <1>2, <1>3, <1>4, <1>7 DEF OnlyFor, HasNone
<1> QED  BY <1>5, <1>6, <1>7 DEF OnlyFor, u

ToldType == [is : {"nothing", "granted", "gone"}, by : Nat, cb : Callbacks]

\* Whatever is told of f, and done to its entry, what was told of the others stays true.
LEMMA OthersStayTrue ==
    ASSUME ToldInv, NEW f \in Filters, NEW v \in ToldType, OnlyFor(subs, subs', f),
           told' = [told EXCEPT ![f] = v], served' = served,
           v.is = "granted" => EntryIn(subs', f, v.cb) /\ f \in served,
           v.is = "gone" => HasNone(subs', f)
    PROVE  ToldIsTrue'
<1>0. told \in [Filters -> ToldType] /\ TrueOf(told, subs, served)
  BY ToldIsTrueOf DEF ToldInv, NetTypes, ToldType
<1>1. ASSUME NEW g \in Filters
      PROVE  /\ told'[g].is = "granted" => EntryIn(subs', g, told'[g].cb) /\ g \in served
             /\ told'[g].is = "gone" => HasNone(subs', g)
  <2>1. CASE g = f
    BY <1>0, <2>1
  <2>2. CASE g # f
    <3>1. told'[g] = told[g] /\ told[g].cb \in Callbacks
      BY <1>0, <2>2 DEF ToldType
    <3> QED  BY <1>0, <2>2, <3>1 DEF TrueOf, OnlyFor
  <2> QED  BY <2>1, <2>2
<1>2. TrueOf(told', subs', served')
  BY <1>1 DEF TrueOf
<1> QED  BY <1>2, ToldIsTrueOfNext

\* An operation in flight with its entry in table t.
OpenIn(r, td, t, sv, answers) ==
    /\ td[r.filter] = Told("nothing", r.id, NoCb)
    /\ r.op = "Subscribe" => EntryIn(t, r.filter, r.cb)
    /\ \A a \in answers : a.kind = "SUBACK" /\ a.id = r.id => r.filter \in sv

LEMMA InFlightIsOpenIn ==
    ASSUME tx \subseteq Requests
    PROVE  InFlightIsOpen <=> \A r \in tx : OpenIn(r, told, subs, served, Answered)
<1>1. \A r \in tx : r.filter \in Filters
  BY DEF Requests
<1> QED  BY <1>1, EntriesAreUsed DEF InFlightIsOpen, OpenIn

LEMMA InFlightIsOpenInNext ==
    ASSUME tx' \subseteq Requests,
           \A r \in tx' : OpenIn(r, told', subs', served', Answered')
    PROVE  InFlightIsOpen'
<1> SUFFICES ASSUME NEW r \in tx'
             PROVE  /\ told'[r.filter] = Told("nothing", r.id, NoCb)
                    /\ r.op = "Subscribe" => HasEntry(r.filter, r.cb)'
                    /\ \A a \in Answered' : a.kind = "SUBACK" /\ a.id = r.id => r.filter \in served'
  BY DEF InFlightIsOpen
<1>1. r.filter \in Filters
  BY DEF Requests
<1>2. EntryIn(subs', r.filter, r.cb) => HasEntry(r.filter, r.cb)'
  BY <1>1, FiltersAssumption DEF HasEntry, EntryIn, Used, Free
<1> QED  BY <1>2 DEF OpenIn

\* An operation ends: it leaves the transmit list, its caller is told v, and only the
\* entry of its filter may be changed.
LEMMA OperationEnds ==
    ASSUME ToldInv, TableInv', NEW r \in tx, NEW v \in ToldType,
           tx' = tx \ {r}, OnlyFor(subs, subs', r.filter),
           told' = [told EXCEPT ![r.filter] = v],
           UNCHANGED <<connected, nextId, toServer, served>>,
           toClient' = toClient \/ (toClient # << >> /\ toClient' = Tail(toClient)),
           v.is = "granted" => /\ EntryIn(subs', r.filter, v.cb) /\ r.filter \in served
                               /\ \A q \in Asked : q.filter # r.filter,
           v.is = "gone" => HasNone(subs', r.filter)
    PROVE  ToldInv'
<1> USE DEF ToldInv
<1>0. /\ tx \subseteq Requests /\ r.filter \in Filters
      /\ told \in [Filters -> ToldType] /\ told' \in [Filters -> ToldType]
      /\ \A g \in Filters : g # r.filter => told'[g] = told[g]
      /\ told'[r.filter] = v
      /\ \A s \in tx' : s \in tx /\ s.filter # r.filter /\ s.filter \in Filters /\ s.cb \in Callbacks
  BY DEF TableInv, TableType, Requests, NetTypes, ToldType, OnePerFilter
<1>1. Answered' \subseteq Answered /\ toClient' \in Seq(Answers \cup Publishes) /\ Asked' = Asked
  BY AnsweredTail DEF NetTypes, Answered, Asked
<1>2. NetTypes'
  BY <1>0, <1>1 DEF NetTypes, ToldType
<1>3. IdsInOrder' /\ OnePerFilter'
  BY <1>0, <1>1 DEF IdsInOrder, OnePerFilter
<1>4. InFlightIsOpen'
  <2>1. ASSUME NEW s \in tx' PROVE OpenIn(s, told', subs', served', Answered')
    BY <1>0, <1>1, InFlightIsOpenIn DEF OpenIn, OnlyFor
  <2> QED  BY <1>0, <2>1, InFlightIsOpenInNext
<1>5. GrantedIsSettled'
  BY <1>0, <1>1 DEF GrantedIsSettled
<1>6. NothingWhenDown'
  BY <1>0 DEF NothingWhenDown
<1>7. ToldIsTrue'
  BY <1>0, OthersStayTrue
<1> QED  BY <1>2, <1>3, <1>4, <1>5, <1>6, <1>7

\* A request is sent, the first on its filter.
LEMMA RequestIsSent ==
    ASSUME ToldInv, TableInv', NEW r \in Requests, r.id = nextId, Send(r), connected,
           \A s \in tx : s.filter # r.filter, OnlyFor(subs, subs', r.filter),
           r.op = "Subscribe" => EntryIn(subs', r.filter, r.cb)
    PROVE  ToldInv'
<1> USE DEF ToldInv
<1> DEFINE v == Told("nothing", r.id, NoCb)
<1>0. /\ tx \subseteq Requests /\ r.filter \in Filters /\ tx' = tx \cup {r}
      /\ \A s \in tx : s.filter \in Filters /\ s.cb \in Callbacks /\ s.id < nextId
      /\ told \in [Filters -> ToldType] /\ nextId' = nextId + 1 /\ nextId \in Nat
      /\ UNCHANGED <<connected, toClient, served>>
      /\ told' = [told EXCEPT ![r.filter] = v]
  BY DEF TableInv, TableType, Requests, NetTypes, ToldType, IdsInOrder, Send
<1>1. v \in ToldType /\ v.is = "nothing" /\ r.id \in Nat
  BY <1>0 DEF ToldType, Told, Callbacks
<1>2. /\ toServer \in Seq(Requests) /\ toServer' = Append(toServer, r) /\ toServer' \in Seq(Requests)
      /\ Asked' = Asked \cup {r} /\ Answered' = Answered /\ Asked \subseteq Requests
  BY <1>0, ElementsFacts DEF NetTypes, Send, Asked, Answered
<1>3. /\ told' \in [Filters -> ToldType] /\ told'[r.filter] = v
      /\ \A g \in Filters : g # r.filter => told'[g] = told[g]
  BY <1>0, <1>1
<1>4. NetTypes'
  BY <1>0, <1>2, <1>3 DEF NetTypes, ToldType
<1>5. \A q \in Asked : q.id \in Nat /\ q.id < nextId
  BY <1>2 DEF IdsInOrder, Requests, Ids
<1>6. IdsInOrder'
  <2>1. \A s \in tx' \cup Asked' \cup Answered' : s.id < nextId'
    <3>1. \A s \in tx \cup Asked : s.id \in Nat
      BY <1>0, <1>2 DEF Requests, Ids
    <3>2. \A s \in Answered : s.id \in Nat
      BY ElementsFacts DEF NetTypes, Answered, Answers, Publishes, Ids
    <3> QED  BY <1>0, <1>1, <1>2, <3>1, <3>2 DEF IdsInOrder
  <2>2. ASSUME NEW m \in 1 .. Len(toServer'), NEW n \in 1 .. Len(toServer'), m < n
        PROVE  toServer'[m].id < toServer'[n].id
    <3>1. /\ Len(toServer') = Len(toServer) + 1 /\ Len(toServer) \in Nat
          /\ toServer'[Len(toServer) + 1] = r
          /\ \A k \in 1 .. Len(toServer) : toServer'[k] = toServer[k]
      BY <1>2
    <3>2. \A k \in 1 .. Len(toServer) : toServer[k].id < nextId
      BY <1>5 DEF Asked, Elements
    <3>3. CASE n = Len(toServer) + 1
      BY <2>2, <3>1, <3>2, <3>3
    <3>4. CASE n # Len(toServer) + 1
      BY <2>2, <3>1, <3>4 DEF IdsInOrder
    <3> QED  BY <3>3, <3>4
  <2>3. \A a \in Answered', q \in Asked' : a.id < q.id
    BY <1>2 DEF IdsInOrder
  <2> QED  BY <2>1, <2>2, <2>3 DEF IdsInOrder
<1>7. OnePerFilter'
  <2>1. \A s \in tx : s.filter # r.filter /\ s.id # r.id /\ s.id \in Nat
    BY <1>0 DEF Requests, Ids
  <2>2. \A q \in Asked : q.id # r.id /\ q.id <= r.id
    BY <1>1, <1>5
  <2>3. \A s, q \in tx' : s.filter = q.filter \/ s.id = q.id => s = q
    BY <1>0, <2>1 DEF OnePerFilter
  <2>4. ASSUME NEW s \in tx', NEW q \in Asked'
        PROVE  (s.id = q.id => s = q) /\ (s.filter = q.filter => q.id <= s.id)
    BY <1>0, <1>1, <1>2, <2>1, <2>2 DEF OnePerFilter
  <2> QED  BY <2>3, <2>4 DEF OnePerFilter
<1>8. InFlightIsOpen'
  <2>1. ASSUME NEW s \in tx PROVE OpenIn(s, told', subs', served', Answered')
    BY <1>0, <1>2, <1>3, InFlightIsOpenIn DEF OpenIn, OnlyFor
  <2>2. \A a \in Answered : a.id # r.id
    <3>1. \A a \in Answered : a.id < r.id /\ a.id \in Nat
      BY ElementsFacts DEF IdsInOrder, NetTypes, Answered, Answers, Publishes, Ids
    <3> QED  BY <1>1, <3>1
  <2>3. OpenIn(r, told', subs', served', Answered')
    BY <1>2, <1>3, <2>2 DEF OpenIn
  <2> QED  BY <1>0, <2>1, <2>3, InFlightIsOpenInNext DEF Requests
<1>9. GrantedIsSettled'
  BY <1>0, <1>1, <1>2, <1>3 DEF GrantedIsSettled
<1>10. NothingWhenDown'
  BY <1>0 DEF NothingWhenDown
<1>11. ToldIsTrue'
  BY <1>0, <1>1, OthersStayTrue
<1> QED  BY <1>4, <1>6, <1>7, <1>8, <1>9, <1>10, <1>11

\* A call that sends nothing: only the entry of its filter may be changed, on which
\* nothing is in flight, and what is told of it may be that it is gone.
LEMMA CallEndsAtOnce ==
    ASSUME ToldInv, TableInv', NEW f \in Filters, NEW v \in ToldType,
           \A s \in tx : s.filter # f, OnlyFor(subs, subs', f),
           told' = [told EXCEPT ![f] = v], nextId' = nextId + 1,
           UNCHANGED <<connected, tx, netVars>>,
           connected \/ v = told[f],
           v.is = "granted" => UNCHANGED subs /\ v = told[f],
           v.is = "gone" => HasNone(subs', f)
    PROVE  ToldInv'
<1> USE DEF ToldInv
<1>0. /\ tx \subseteq Requests /\ nextId \in Nat
      /\ \A s \in tx : s.filter \in Filters /\ s.cb \in Callbacks
      /\ told \in [Filters -> ToldType] /\ told' \in [Filters -> ToldType]
      /\ \A g \in Filters : g # f => told'[g] = told[g]
      /\ told'[f] = v
      /\ UNCHANGED <<toClient, toServer, served>>
  BY DEF TableInv, TableType, Requests, NetTypes, ToldType, netVars
<1>1. Asked' = Asked /\ Answered' = Answered
  BY <1>0 DEF Asked, Answered
<1>2. NetTypes'
  BY <1>0 DEF NetTypes, ToldType
<1>3. IdsInOrder'
  <2>1. \A s \in tx \cup Asked \cup Answered : s.id \in Nat
    <3>1. \A s \in tx \cup Asked : s.id \in Nat
      <4>1. Asked \subseteq Requests
        BY ElementsFacts DEF NetTypes, Asked
      <4> QED  BY <1>0, <4>1 DEF Requests, Ids
    <3>2. \A s \in Answered : s.id \in Nat
      BY ElementsFacts DEF NetTypes, Answered, Answers, Publishes, Ids
    <3> QED  BY <3>1, <3>2
  <2> QED  BY <1>0, <1>1, <2>1 DEF IdsInOrder
<1>4. OnePerFilter'
  BY <1>1 DEF OnePerFilter
<1>5. InFlightIsOpen'
  <2>1. ASSUME NEW s \in tx PROVE OpenIn(s, told', subs', served', Answered')
    BY <1>0, <1>1, InFlightIsOpenIn DEF OpenIn, OnlyFor
  <2> QED  BY <1>0, <2>1, InFlightIsOpenInNext
<1>6. GrantedIsSettled'
  BY <1>0, <1>1 DEF GrantedIsSettled
<1>7. NothingWhenDown'
  BY <1>0 DEF NothingWhenDown
<1>8. ToldIsTrue'
  <2>1. TrueOf(told, subs, served)
    BY ToldIsTrueOf
  <2>2. v.is = "granted" => EntryIn(subs', f, v.cb) /\ f \in served
    BY <2>1 DEF TrueOf
  <2> QED  BY <1>0, <2>2, OthersStayTrue
<1> QED  BY <1>2, <1>3, <1>4, <1>5, <1>6, <1>7, <1>8

LEMMA RequestToldInv ==
    ASSUME ~Overlap, ToldInv, TableInv', NEW f \in Filters, Request(f)
    PROVE  ToldInv'
<1>0. /\ told \in [Filters -> ToldType] /\ told[f] \in ToldType /\ nextId \in Nat
      /\ TableInv /\ (MayRequest(f) => nextId \in Ids)
  BY BoundsAssumption DEF ToldInv, NetTypes, ToldType, TableInv, TableType, MayRequest, Ids
<1>1. \A s \in tx : s.filter # f
  BY DEF Request, Subscribe, SubscribeFails, SubscribeRefused, SubscribeNotConnected,
         Unsubscribe, UnsubscribeFails, MayRequest
<1>2. ASSUME NEW c \in {nextId, NoCb}, Subscribe(f, c) PROVE ToldInv'
  <2> DEFINE r == [op |-> "Subscribe", id |-> nextId, filter |-> f, cb |-> c]
  <2>1. connected /\ CanStore(f) /\ subs' = Stored(f, c).subs /\ Send(r) /\ MayRequest(f)
    BY <1>2 DEF Subscribe
  <2>2. c \in Callbacks /\ r \in Requests /\ r.id = nextId /\ r.filter = f /\ r.cb = c
    BY <1>0, <2>1 DEF Callbacks, Requests
  <2>3. OnlyFor(subs, subs', f) /\ EntryIn(subs', f, c)
    BY <1>0, <2>1, <2>2, StoredOnly
  <2> HIDE DEF r
  <2> QED  BY <1>1, <2>1, <2>2, <2>3, RequestIsSent
<1>3. CASE Unsubscribe(f)
  <2> DEFINE r == [op |-> "Unsubscribe", id |-> nextId, filter |-> f, cb |-> NoCb]
  <2>1. connected /\ subs' = subs /\ Send(r) /\ MayRequest(f)
    BY <1>3 DEF Unsubscribe, tableVars
  <2>2. r \in Requests /\ r.id = nextId /\ r.filter = f /\ r.op = "Unsubscribe"
    BY <1>0, <2>1 DEF Callbacks, Requests
  <2>3. OnlyFor(subs, subs', f)
    BY <2>1, SameOnly
  <2> HIDE DEF r
  <2> QED  BY <1>1, <2>1, <2>2, <2>3, RequestIsSent
<1>4. CASE SubscribeFails(f)
  <2> DEFINE v == Told("gone", nextId, NoCb)
  <2>1. v \in ToldType /\ v.is = "gone"
    BY <1>0 DEF ToldType, Told, Callbacks
  <2>2. /\ connected /\ subs' = Removed(f).subs /\ nextId' = nextId + 1
        /\ told' = [told EXCEPT ![f] = v] /\ UNCHANGED <<connected, tx, netVars>>
    BY <1>4 DEF SubscribeFails, RemoveSubscription
  <2>3. OnlyFor(subs, subs', f) /\ HasNone(subs', f)
    BY <1>0, <2>2, RemovedOnly
  <2> HIDE DEF v
  <2> QED  BY <1>1, <2>1, <2>2, <2>3, CallEndsAtOnce
<1>5. CASE SubscribeNotConnected(f)
  <2>1. /\ ~connected /\ subs' = Removed(f).subs /\ nextId' = nextId + 1
        /\ UNCHANGED <<connected, tx, netVars, told>>
    BY <1>5 DEF SubscribeNotConnected, RemoveSubscription
  <2>2. OnlyFor(subs, subs', f) /\ HasNone(subs', f)
    BY <1>0, <2>1, RemovedOnly
  <2>3. told' = [told EXCEPT ![f] = told[f]] /\ told[f].is = "nothing"
    BY <1>0, <2>1 DEF ToldInv, NothingWhenDown
  <2> QED  BY <1>0, <1>1, <2>1, <2>2, <2>3, CallEndsAtOnce
<1>6. CASE SubscribeRefused(f) \/ UnsubscribeFails(f)
  <2>1. nextId' = nextId + 1 /\ UNCHANGED <<connected, tx, netVars, told, subs>>
    BY <1>6 DEF SubscribeRefused, UnsubscribeFails, tableVars
  <2>2. OnlyFor(subs, subs', f) /\ told' = [told EXCEPT ![f] = told[f]]
    BY <1>0, <2>1, SameOnly
  <2>3. told[f].is = "gone" => HasNone(subs', f)
    BY <2>1, ToldIsTrueOf DEF ToldInv, TrueOf
  <2> QED  BY <1>0, <1>1, <2>1, <2>2, <2>3, CallEndsAtOnce
<1> QED  BY <1>2, <1>3, <1>4, <1>5, <1>6 DEF Request

LEMMA ReceivedToldInv ==
    ASSUME ToldInv, TableInv',
           \/ ReceivedSUBACK \/ ReceivedSUBACKFailure \/ ReceivedUNSUBACK
           \/ TimeoutSubscribe \/ TimeoutUnsubscribe
    PROVE  ToldInv'
<1> USE DEF ToldInv
<1>0. /\ TableInv /\ told \in [Filters -> ToldType]
      /\ \A r \in tx : /\ r.filter \in Filters /\ r.id \in Nat /\ r.cb \in Callbacks
                       /\ told[r.filter] = Told("nothing", r.id, NoCb)
                       /\ told[r.filter] \in ToldType /\ told[r.filter].is = "nothing"
                       /\ told[r.filter].by = r.id
  BY DEF TableInv, TableType, Requests, Ids, NetTypes, ToldType, InFlightIsOpen, Told
<1>1. \A r \in tx, is \in {"granted", "gone"} :
        /\ Told(is, r.id, r.cb) \in ToldType /\ Told(is, r.id, r.cb).is = is
        /\ Told(is, r.id, r.cb).cb = r.cb
  BY <1>0 DEF Told, ToldType
<1>2. \A r \in tx, is \in {"granted", "gone"} :
        Tell(r, is) => told' = [told EXCEPT ![r.filter] = Told(is, r.id, r.cb)]
  BY <1>0 DEF Tell
<1>3. CASE ReceivedSUBACK
  <2>1. PICK r \in Acknowledged("Subscribe") : tx' = tx \ {r} /\ Tell(r, "granted")
    BY <1>3 DEF ReceivedSUBACK
  <2>2. /\ r \in tx /\ r.op = "Subscribe" /\ r.id = Head(toClient).id
        /\ Head(toClient).kind = "SUBACK" /\ toClient # << >> /\ toClient' = Tail(toClient)
        /\ UNCHANGED <<connected, subs, nextId, toServer, served>>
    BY <1>3, <2>1 DEF Acknowledged, ReceivedSUBACK, Received, tableVars
  <2>3. Head(toClient) \in Answered
    BY <2>2, ElementsFacts DEF NetTypes, Answered
  <2>4. r.filter \in served
    BY <2>2, <2>3 DEF InFlightIsOpen
  <2>5. EntryIn(subs', r.filter, r.cb)
    BY <1>0, <2>2, EntriesAreUsed DEF InFlightIsOpen
  <2>6. \A q \in Asked : q.filter # r.filter
    <3> SUFFICES ASSUME NEW q \in Asked, q.filter = r.filter PROVE FALSE
      OBVIOUS
    <3>1. r.id < q.id
      BY <2>2, <2>3 DEF IdsInOrder
    <3>2. q.id <= r.id
      BY <2>2 DEF OnePerFilter
    <3>3. q \in Requests
      BY ElementsFacts DEF NetTypes, Asked
    <3> QED  BY <1>0, <2>2, <3>1, <3>2, <3>3 DEF Requests, Ids
  <2>7. OnlyFor(subs, subs', r.filter)
    BY <2>2, SameOnly
  <2> DEFINE v == Told("granted", r.id, r.cb)
  <2>8. v \in ToldType /\ v.is = "granted" /\ v.cb = r.cb /\ told' = [told EXCEPT ![r.filter] = v]
    BY <1>1, <1>2, <2>1, <2>2
  <2> HIDE DEF v
  <2> QED  BY <2>1, <2>2, <2>4, <2>5, <2>6, <2>7, <2>8, OperationEnds
<1>4. CASE ReceivedSUBACKFailure \/ ReceivedUNSUBACK \/ TimeoutSubscribe
  <2>1. PICK r \in tx : /\ tx' = tx \ {r} /\ RemoveSubscription(r.filter) /\ Tell(r, "gone")
                        /\ toClient' = toClient \/ (toClient # << >> /\ toClient' = Tail(toClient))
    BY <1>4 DEF ReceivedSUBACKFailure, ReceivedUNSUBACK, TimeoutSubscribe, Acknowledged,
                RemoveRejected, Received, netVars
  <2>2. UNCHANGED <<connected, nextId, toServer, served>>
    BY <1>4 DEF ReceivedSUBACKFailure, ReceivedUNSUBACK, TimeoutSubscribe, netVars
  <2>3. OnlyFor(subs, subs', r.filter) /\ HasNone(subs', r.filter)
    BY <1>0, <2>1, RemovedOnly DEF RemoveSubscription
  <2> DEFINE v == Told("gone", r.id, r.cb)
  <2>4. v \in ToldType /\ v.is = "gone" /\ told' = [told EXCEPT ![r.filter] = v]
    BY <1>1, <1>2, <2>1
  <2> HIDE DEF v
  <2> QED  BY <2>1, <2>2, <2>3, <2>4, OperationEnds
<1>5. CASE TimeoutUnsubscribe
  <2>1. PICK r \in tx : tx' = tx \ {r}
    BY <1>5 DEF TimeoutUnsubscribe
  <2>2. UNCHANGED <<connected, nextId, toServer, toClient, served, subs, told>>
    BY <1>5 DEF TimeoutUnsubscribe, netVars, tableVars
  <2>3. /\ OnlyFor(subs, subs', r.filter) /\ told' = [told EXCEPT ![r.filter] = told[r.filter]]
    BY <1>0, <2>2, SameOnly
  <2> QED  BY <1>0, <2>1, <2>2, <2>3, OperationEnds
<1> QED  BY <1>3, <1>4, <1>5

\* Steps that take a message off the way, or put one there that answers nothing.
LEMMA MessageToldInv ==
    ASSUME ToldInv, TableInv', UNCHANGED <<connected, subs, tx, nextId, toServer, served, told>>,
           Answered' \subseteq Answered, toClient' \in Seq(Answers \cup Publishes),
           connected \/ toClient' = << >>
    PROVE  ToldInv'
<1> USE DEF ToldInv
<1>1. NetTypes' /\ IdsInOrder' /\ OnePerFilter' /\ GrantedIsSettled'
  BY DEF NetTypes, IdsInOrder, OnePerFilter, GrantedIsSettled, Asked
<1>2. InFlightIsOpen' /\ ToldIsTrue' /\ NothingWhenDown'
  BY DEF InFlightIsOpen, ToldIsTrue, NothingWhenDown, HasEntry, Used
<1> QED  BY <1>1, <1>2

LEMMA ServerToldInv == ASSUME ToldInv, TableInv', ServerAnswers PROVE ToldInv'
<1> USE DEF ToldInv
<1> DEFINE q == Head(toServer)
<1>0. /\ toServer # << >> /\ toServer' = Tail(toServer)
      /\ UNCHANGED <<connected, subs, tx, nextId, told>>
      /\ tx \subseteq Requests /\ served' \subseteq served \cup {q.filter}
  BY DEF ServerAnswers, tableVars, TableInv, TableType
<1>1. /\ q \in Asked /\ Asked' \subseteq Asked /\ toServer' \in Seq(Requests)
      /\ Asked \subseteq Requests /\ q \in Requests
  BY <1>0, ElementsFacts DEF NetTypes, Asked
<1>2. \A p \in Asked' : q.id < p.id
  <2> SUFFICES ASSUME NEW k \in 1 .. Len(Tail(toServer)) PROVE q.id < Tail(toServer)[k].id
    BY <1>0 DEF Asked, Elements
  <2>1. /\ toServer \in Seq(Requests) /\ Len(toServer) \in Nat /\ Len(Tail(toServer)) = Len(toServer) - 1
        /\ Tail(toServer)[k] = toServer[k + 1] /\ q = toServer[1]
    BY <1>0 DEF NetTypes
  <2>2. 1 \in 1 .. Len(toServer) /\ k + 1 \in 1 .. Len(toServer) /\ 1 < k + 1
    BY <2>1
  <2> HIDE DEF q
  <2> QED  BY <2>1, <2>2 DEF IdsInOrder
<1>3. \A m, n \in 1 .. Len(toServer') : m < n => toServer'[m].id < toServer'[n].id
  <2> SUFFICES ASSUME NEW m \in 1 .. Len(Tail(toServer)), NEW n \in 1 .. Len(Tail(toServer)), m < n
               PROVE  Tail(toServer)[m].id < Tail(toServer)[n].id
    BY <1>0
  <2>1. /\ toServer \in Seq(Requests) /\ Len(toServer) \in Nat /\ Len(Tail(toServer)) = Len(toServer) - 1
        /\ Tail(toServer)[m] = toServer[m + 1] /\ Tail(toServer)[n] = toServer[n + 1]
    BY <1>0 DEF NetTypes
  <2>2. m + 1 \in 1 .. Len(toServer) /\ n + 1 \in 1 .. Len(toServer) /\ m + 1 < n + 1
    BY <2>1
  <2> QED  BY <2>1, <2>2 DEF IdsInOrder
<1>4. PICK ans \in {"SUBACK", "SUBACKFailure", "UNSUBACK"} :
        /\ toClient' = Append(toClient, [kind |-> ans, id |-> q.id])
        /\ ans = "SUBACK" => q.op = "Subscribe" /\ served' = served \cup {q.filter}
        /\ ans = "SUBACKFailure" => served' = served
        /\ ans = "UNSUBACK" => served' = served \ {q.filter}
  BY DEF ServerAnswers, Answer
<1> DEFINE a == [kind |-> ans, id |-> q.id]
<1>5. a \in Answers /\ a.id = q.id /\ a.kind = ans /\ q.id \in Nat /\ q.filter \in Filters
  BY <1>1 DEF Answers, Requests, Ids
<1>6. Answered' \subseteq Answered \cup {a} /\ toClient' \in Seq(Answers \cup Publishes)
  BY <1>4, <1>5, AnsweredAppend
<1> HIDE DEF a, q
<1>7. NetTypes'
  BY <1>0, <1>1, <1>5, <1>6 DEF NetTypes
<1>8. IdsInOrder'
  BY <1>0, <1>1, <1>2, <1>3, <1>5, <1>6 DEF IdsInOrder
<1>9. OnePerFilter' /\ GrantedIsSettled'
  BY <1>0, <1>1 DEF OnePerFilter, GrantedIsSettled
<1>10. NothingWhenDown'
  BY <1>0 DEF NothingWhenDown
<1>11. InFlightIsOpen'
  <2> SUFFICES ASSUME NEW r \in tx PROVE OpenIn(r, told', subs', served', Answered')
    BY <1>0, InFlightIsOpenInNext
  <2>1. OpenIn(r, told, subs, served, Answered) /\ r.id \in Nat
    BY <1>0, InFlightIsOpenIn DEF Requests, Ids
  <2>2. ASSUME NEW b \in Answered', b.kind = "SUBACK", b.id = r.id PROVE r.filter \in served'
    <3>1. CASE b = a
      <4>1. q = r
        BY <1>1, <1>5, <2>2, <3>1 DEF OnePerFilter
      <4> QED  BY <1>4, <1>5, <2>2, <3>1, <4>1
    <3>2. CASE b # a
      <4>1. b \in Answered /\ r.filter \in served
        BY <1>6, <2>1, <2>2, <3>2 DEF OpenIn
      <4>2. q.filter # r.filter
        <5> SUFFICES ASSUME q.filter = r.filter PROVE FALSE
          OBVIOUS
        <5>1. q.id <= r.id
          BY <1>1 DEF OnePerFilter
        <5>2. r.id < q.id
          BY <1>1, <2>2, <4>1 DEF IdsInOrder
        <5> QED  BY <1>5, <2>1, <5>1, <5>2
      <4> QED  BY <1>4, <4>1, <4>2
    <3> QED  BY <3>1, <3>2
  <2> QED  BY <1>0, <2>1, <2>2 DEF OpenIn
<1>12. ToldIsTrue'
  <2>1. TrueOf(told, subs, served)
    BY ToldIsTrueOf
  <2>2. \A f \in Filters : told[f].is = "granted" => q.filter # f
    BY <1>1 DEF GrantedIsSettled
  <2>3. TrueOf(told', subs', served')
    BY <1>0, <1>4, <2>1, <2>2 DEF TrueOf
  <2> QED  BY <2>3, ToldIsTrueOfNext
<1> QED  BY <1>7, <1>8, <1>9, <1>10, <1>11, <1>12

LEMMA ToldInvInit == Init => ToldInv
<1> SUFFICES ASSUME Init PROVE ToldInv
  OBVIOUS
<1>1. TableInv /\ Asked = {} /\ Answered = {}
  BY TableInvInit, NothingIsUnderWay DEF Init, Asked, Answered
<1>2. NetTypes
  <2>1. Nothing \in ToldType /\ << >> \in Seq(Requests) /\ << >> \in Seq(Answers \cup Publishes)
    BY DEF Nothing, Told, ToldType, Callbacks
  <2> QED  BY <2>1 DEF Init, NetTypes, ToldType
<1>3. IdsInOrder /\ OnePerFilter /\ InFlightIsOpen /\ GrantedIsSettled /\ NothingWhenDown
  BY <1>1 DEF Init, IdsInOrder, OnePerFilter, InFlightIsOpen, GrantedIsSettled, NothingWhenDown,
              Nothing, Told
<1>4. ToldIsTrue
  BY DEF Init, ToldIsTrue, Nothing, Told
<1> QED  BY <1>1, <1>2, <1>3, <1>4 DEF ToldInv

LEMMA ToldInvStep == ~Overlap /\ ToldInv /\ [Next]_vars => ToldInv'
<1> SUFFICES ASSUME ~Overlap, ToldInv, [Next]_vars PROVE ToldInv'
  OBVIOUS
<1>0. TableInv' /\ NetTypes
  BY TableInvStep DEF ToldInv
<1>1. CASE \E f \in Filters : Request(f)
  BY <1>0, <1>1, RequestToldInv
<1>2. CASE \/ ReceivedSUBACK \/ ReceivedSUBACKFailure \/ ReceivedUNSUBACK
           \/ TimeoutSubscribe \/ TimeoutUnsubscribe
  BY <1>0, <1>2, ReceivedToldInv
<1>3. CASE ReceivedUnexpectedAck \/ ReceivedPublish
  <2>1. /\ connected /\ toClient # << >> /\ toClient' = Tail(toClient)
        /\ UNCHANGED <<connected, subs, tx, nextId, toServer, served, told>>
    BY <1>3 DEF ReceivedUnexpectedAck, ReceivedPublish, Received, tableVars
  <2> QED  BY <1>0, <2>1, AnsweredTail, MessageToldInv
<1>4. CASE ServerPublishes
  <2>0. PICK f \in served : \E t \in MatchedBy[f] :
          toClient' = Append(toClient, [kind |-> "PUBLISH", topic |-> t])
    BY <1>4 DEF ServerPublishes
  <2>1. PICK t \in MatchedBy[f] : toClient' = Append(toClient, [kind |-> "PUBLISH", topic |-> t])
    BY <2>0
  <2> DEFINE m == [kind |-> "PUBLISH", topic |-> t]
  <2>2. UNCHANGED <<connected, subs, tx, nextId, toServer, served, told>>
    BY <1>4 DEF ServerPublishes, tableVars
  <2>3. m \in Publishes /\ m.kind = "PUBLISH"
    BY <1>0, FiltersAssumption DEF Publishes, NetTypes
  <2>4. served # {}
    BY <2>0
  <2>5. connected
    BY <2>4 DEF ToldInv, NothingWhenDown
  <2> HIDE DEF m
  <2>6. Answered' \subseteq Answered /\ toClient' \in Seq(Answers \cup Publishes)
    BY <1>0, <2>1, <2>3, AnsweredAppend DEF m
  <2> QED  BY <1>0, <2>2, <2>5, <2>6, MessageToldInv
<1>5. CASE ServerAnswers
  BY <1>0, <1>5, ServerToldInv
<1>6. CASE Disconnect
  <2>1. /\ tx' = {} /\ toServer' = << >> /\ toClient' = << >> /\ connected' = FALSE
        /\ told' = [f \in Filters |-> Nothing]
    BY <1>6 DEF Disconnect
  <2>2. Asked' = {} /\ Answered' = {}
    BY <2>1, NothingIsUnderWay DEF Asked, Answered
  <2>3. NetTypes'
    <3>1. Nothing \in ToldType /\ << >> \in Seq(Requests) /\ << >> \in Seq(Answers \cup Publishes)
      BY DEF Nothing, Told, ToldType, Callbacks
    <3>2. told' \in [Filters -> ToldType] /\ served' = {}
      BY <1>6, <2>1, <3>1 DEF Disconnect
    <3> QED  BY <2>1, <3>1, <3>2 DEF NetTypes, ToldType
  <2>4. (IdsInOrder /\ OnePerFilter /\ InFlightIsOpen /\ GrantedIsSettled /\ NothingWhenDown)'
    <3>1. served' = {} /\ Nothing.is = "nothing"
      BY <1>6 DEF Disconnect, Nothing, Told
    <3> QED  BY <2>1, <2>2, <3>1 DEF IdsInOrder, OnePerFilter, InFlightIsOpen, GrantedIsSettled,
                                     NothingWhenDown
  <2>5. ToldIsTrue'
    BY <2>1 DEF ToldIsTrue, Nothing, Told
  <2> QED  BY <1>0, <2>3, <2>4, <2>5 DEF ToldInv
<1>7. CASE Connect
  <2>1. /\ ~connected /\ connected' = TRUE /\ UNCHANGED <<subs, tx, nextId, netVars, told>>
    BY <1>7 DEF Connect, tableVars
  <2>2. UNCHANGED <<toServer, toClient, served>>
    BY <2>1 DEF netVars
  <2> QED
    BY <1>0, <2>1, <2>2
    DEF ToldInv, NetTypes, IdsInOrder, OnePerFilter, InFlightIsOpen, GrantedIsSettled,
        NothingWhenDown, ToldIsTrue, HasEntry, Used, Asked, Answered
<1>8. CASE UNCHANGED vars
  <2>1. UNCHANGED <<connected, subs, tx, nextId, toServer, toClient, served, told>>
    BY <1>8 DEF vars, tableVars, netVars
  <2> QED
    BY <1>0, <2>1
    DEF ToldInv, NetTypes, IdsInOrder, OnePerFilter, InFlightIsOpen, GrantedIsSettled,
        NothingWhenDown, ToldIsTrue, HasEntry, Used, Asked, Answered
<1> QED  BY <1>1, <1>2, <1>3, <1>4, <1>5, <1>6, <1>7, <1>8 DEF Next

\* What an application was told of a filter is true: a subscription that was granted
\* is in the table with its callback, and the server has it; one that is gone has no
\* entry.  The tasks do not use a filter while another's operation on it is pending.
THEOREM ApplicationsAreToldTheTruth ==
    ASSUME ~Overlap
    PROVE  Spec => []ToldIsTrue
<1>1. ToldInv => ToldIsTrue
  BY DEF ToldInv
<1>2. ToldInv /\ [Next]_vars => ToldInv'
  BY ToldInvStep
<1> QED  BY <1>1, <1>2, ToldInvInit, PTL DEF Spec

-----------------------------------------------------------------------------
(* The dispatch of a message.                                              *)

\* The position of a slot among some slots.
Rank(hits, x) == Cardinality({y \in hits : y <= x})

LEMMA SlotsAreFinite ==
    /\ Slots \subseteq Nat
    /\ \A hits \in SUBSET Slots : IsFiniteSet(hits) /\ Cardinality(hits) \in Nat
<1>1. IsFiniteSet(Slots) /\ Slots \subseteq Nat
  BY FS_Interval, BoundsAssumption DEF Slots
<1> QED  BY <1>1, FS_Subset, FS_CardinalityType

LEMMA RanksAreDistinct ==
    ASSUME NEW hits \in SUBSET Slots
    PROVE  /\ \A x \in hits : Rank(hits, x) \in 1 .. Cardinality(hits)
           /\ \A x, z \in hits : Rank(hits, x) = Rank(hits, z) => x = z
<1>1. IsFiniteSet(hits) /\ hits \subseteq Nat
  BY SlotsAreFinite, FS_Subset
<1>2. ASSUME NEW x \in hits PROVE Rank(hits, x) \in 1 .. Cardinality(hits)
  <2> DEFINE upTo == {y \in hits : y <= x}
  <2>1. upTo \in SUBSET hits /\ x \in upTo
    BY <1>1
  <2>2. IsFiniteSet(upTo) /\ Cardinality(upTo) <= Cardinality(hits)
    BY <1>1, <2>1, FS_Subset
  <2>3. Cardinality(upTo) # 0
    BY <2>1, <2>2, FS_EmptySet
  <2>4. Cardinality(upTo) \in Nat /\ Cardinality(hits) \in Nat
    BY <1>1, <2>2, FS_CardinalityType
  <2> HIDE DEF upTo
  <2>5. Cardinality(upTo) \in 1 .. Cardinality(hits)
    BY <2>2, <2>3, <2>4
  <2> QED  BY <2>5 DEF upTo, Rank
<1>3. ASSUME NEW x \in hits, NEW z \in hits, x < z PROVE Rank(hits, x) # Rank(hits, z)
  <2> DEFINE a == {y \in hits : y <= x}
             b == {y \in hits : y <= z}
  <2>1. a \in SUBSET b /\ b \in SUBSET hits
    <3>1. \A y \in hits : y <= x => y <= z
      BY <1>1, <1>3
    <3> QED  BY <3>1
  <2>2. z \in b /\ z \notin a
    BY <1>1, <1>3
  <2> HIDE DEF a, b
  <2>3. IsFiniteSet(b)
    BY <1>1, <2>1, FS_Subset
  <2>4. Cardinality(a) # Cardinality(b)
    BY <2>1, <2>2, <2>3, FS_Subset
  <2> QED  BY <2>4 DEF a, b, Rank
<1>4. ASSUME NEW x \in hits, NEW z \in hits, Rank(hits, x) = Rank(hits, z) PROVE x = z
  <2>1. x < z \/ z < x \/ x = z
    BY <1>1
  <2> QED  BY <1>3, <1>4, <2>1
<1> QED  BY <1>2, <1>4

\* Each used entry that matches and has a callback has its callback among those called.
LEMMA MatchesAreCalled ==
    ASSUME NEW t, NEW S, NEW x \in Slots, subs[x].filter \in S,
           t \in MatchedBy[subs[x].filter], subs[x].cb # NoCb
    PROVE  \E k \in DOMAIN CallbacksFor(t, S) : CallbacksFor(t, S)[k] = subs[x].cb
<1> DEFINE hits == {y \in Slots : /\ subs[y].filter \in S /\ t \in MatchedBy[subs[y].filter]
                                  /\ subs[y].cb # NoCb}
           Nth(k) == CHOOSE y \in hits : Cardinality({z \in hits : z <= y}) = k
           n == Rank(hits, x)
<1>1. x \in hits /\ hits \in SUBSET Slots
  OBVIOUS
<1>2. CallbacksFor(t, S) = [k \in 1 .. Cardinality(hits) |-> subs[Nth(k)].cb]
  BY DEF CallbacksFor
<1> HIDE DEF hits
<1>3. n \in 1 .. Cardinality(hits)
  BY <1>1, RanksAreDistinct
<1>4. Nth(n) = x
  <2>1. \A y \in hits : Rank(hits, y) = n => y = x
    BY <1>1, RanksAreDistinct
  <2>2. \E y \in hits : Cardinality({z \in hits : z <= y}) = n
    BY <1>1 DEF Rank
  <2> DEFINE y == Nth(n)
  <2>3. y \in hits /\ Cardinality({z \in hits : z <= y}) = n
    BY <2>2
  <2> HIDE DEF y
  <2>4. y = x
    BY <2>1, <2>3 DEF Rank
  <2> QED  BY <2>4 DEF y
<1> HIDE DEF Nth, n
<1> QED  BY <1>2, <1>3, <1>4

LEMMA CallsOfBothPasses ==
    ASSUME NEW t
    PROVE  /\ \A k \in DOMAIN CallbacksFor(t, SimpleFilters) :
                 \E m \in DOMAIN Calls(t) : Calls(t)[m] = CallbacksFor(t, SimpleFilters)[k]
           /\ \A k \in DOMAIN CallbacksFor(t, Filters \ SimpleFilters) :
                 \E m \in DOMAIN Calls(t) : Calls(t)[m] = CallbacksFor(t, Filters \ SimpleFilters)[k]
<1> DEFINE a == CallbacksFor(t, SimpleFilters)
           b == CallbacksFor(t, Filters \ SimpleFilters)
<1>1. /\ \E n \in Nat : DOMAIN a = 1 .. n /\ a = [k \in 1 .. n |-> a[k]]
      /\ \E n \in Nat : DOMAIN b = 1 .. n /\ b = [k \in 1 .. n |-> b[k]]
  <2>1. ASSUME NEW S
        PROVE  \E n \in Nat : /\ DOMAIN CallbacksFor(t, S) = 1 .. n
                              /\ CallbacksFor(t, S) = [k \in 1 .. n |-> CallbacksFor(t, S)[k]]
    <3> DEFINE hits == {y \in Slots : /\ subs[y].filter \in S /\ t \in MatchedBy[subs[y].filter]
                                      /\ subs[y].cb # NoCb}
           Nth(k) == CHOOSE y \in hits : Cardinality({z \in hits : z <= y}) = k
    <3>1. hits \in SUBSET Slots
      OBVIOUS
    <3>2. CallbacksFor(t, S) = [k \in 1 .. Cardinality(hits) |-> subs[Nth(k)].cb]
      BY DEF CallbacksFor
    <3> HIDE DEF hits, Nth
    <3>3. Cardinality(hits) \in Nat
      BY <3>1, SlotsAreFinite
    <3> QED  BY <3>2, <3>3
  <2> QED  BY <2>1
<1>2. Calls(t) = a \o b
  BY DEF Calls
<1> HIDE DEF a, b
<1> DEFINE A == {a[k] : k \in DOMAIN a} \cup {b[k] : k \in DOMAIN b}
<1>3. a \in Seq(A) /\ b \in Seq(A)
  BY <1>1
<1> HIDE DEF A
<1>4. /\ DOMAIN (a \o b) = 1 .. Len(a) + Len(b) /\ Len(a) \in Nat /\ Len(b) \in Nat
      /\ DOMAIN a = 1 .. Len(a) /\ DOMAIN b = 1 .. Len(b)
      /\ \A k \in 1 .. Len(a) : (a \o b)[k] = a[k] /\ k \in 1 .. Len(a) + Len(b)
      /\ \A k \in 1 .. Len(b) : (a \o b)[Len(a) + k] = b[k] /\ Len(a) + k \in 1 .. Len(a) + Len(b)
  BY <1>3
<1>5. \A k \in DOMAIN a : \E m \in DOMAIN (a \o b) : (a \o b)[m] = a[k]
  BY <1>4
<1>6. \A k \in DOMAIN b : \E m \in DOMAIN (a \o b) : (a \o b)[m] = b[k]
  BY <1>4
<1> QED  BY <1>2, <1>5, <1>6 DEF a, b

\* A message reaches the callback of each granted subscription that matches, whether
\* its filter is simple or has wild-cards, unless a callback before it took the buffer.
\* The tasks do not use a filter while another's operation on it is pending.
THEOREM SubscribersAreReached ==
    ASSUME ~Overlap
    PROVE  Spec => MessagesReachSubscribers
<1>1. ToldInv =>
        [ReceivedPublish =>
          \A f \in Filters :
              told[f].is = "granted" /\ told[f].cb # NoCb
              /\ Head(toClient).topic \in MatchedBy[f] =>
                  \/ delivery'.taken
                  \/ \E k \in DOMAIN delivery'.invoked :
                         delivery'.invoked[k] = told[f].cb]_vars
  <2> SUFFICES ASSUME ToldInv, ReceivedPublish, NEW f \in Filters, told[f].is = "granted",
                      told[f].cb # NoCb, Head(toClient).topic \in MatchedBy[f], ~delivery'.taken
               PROVE  \E k \in DOMAIN delivery'.invoked : delivery'.invoked[k] = told[f].cb
    OBVIOUS
  <2> DEFINE t == Head(toClient).topic
  <2>1. PICK takers : delivery' = Invoked(t, takers)
    BY DEF ReceivedPublish
  <2>2. delivery'.invoked = Calls(t)
    BY <2>1 DEF Invoked
  <2>3. PICK x \in Slots : subs[x].filter = f /\ subs[x].cb = told[f].cb
    <3>1. HasEntry(f, told[f].cb)
      BY DEF ToldInv, ToldIsTrue
    <3>2. PICK y \in Used : subs[y] = [filter |-> f, cb |-> told[f].cb]
      BY <3>1 DEF HasEntry
    <3> QED  BY <3>2 DEF Used
  <2>4. \A S : f \in S => \E k \in DOMAIN CallbacksFor(t, S) : CallbacksFor(t, S)[k] = told[f].cb
    BY <2>3, MatchesAreCalled
  <2>5. \E k \in DOMAIN Calls(t) : Calls(t)[k] = told[f].cb
    <3>1. CASE f \in SimpleFilters
      BY <2>4, <3>1, CallsOfBothPasses
    <3>2. CASE f \notin SimpleFilters
      <4>1. \E k \in DOMAIN CallbacksFor(t, Filters \ SimpleFilters) :
              CallbacksFor(t, Filters \ SimpleFilters)[k] = told[f].cb
        BY <2>4, <3>2
      <4> QED  BY <4>1, CallsOfBothPasses
    <3> QED  BY <3>1, <3>2
  <2> QED  BY <2>2, <2>5
<1>2. ToldInv /\ [Next]_vars => ToldInv'
  BY ToldInvStep
<1> QED  BY <1>1, <1>2, ToldInvInit, PTL DEF Spec, MessagesReachSubscribers

-----------------------------------------------------------------------------
(***************************************************************************)
(* MQTTTopicFilter: prvDoesTopicMatchTopicFilter stays inside of the topic *)
(* and the filter, and it and prvGetTopicFilterType decide what a filter   *)
(* means, for topics and filters of any length and any characters.         *)
(***************************************************************************)

\* A set of natural numbers has a least one.
LEMMA LeastElement ==
  ASSUME NEW T \in SUBSET Nat, T # {}
  PROVE  \E e \in T : \A y \in T : e <= y
  <1> DEFINE R == OpToRel(<, Nat)
  <1>1. R = {p \in Nat \X Nat : p[1] < p[2]}
    BY DEF OpToRel
  <1>2. PICK e \in T : \A y \in T : <<y, e>> \notin R
    <2> HIDE DEF R
    <2> QED  BY NatLessThanWellFounded, WFMin DEF R
  <1>3. ASSUME NEW y \in T PROVE e <= y
    <2> HIDE DEF R
    <2>1. <<y, e>> \in Nat \X Nat /\ <<y, e>>[1] = y /\ <<y, e>>[2] = e
      OBVIOUS
    <2> QED  BY <1>1, <1>2, <2>1
  <1> QED  BY <1>3

\* Skipping a level ends at its end, the end of the topic at the latest.
LEMMA LevelEndIsInTopic ==
  ASSUME MatchTypeOK, i < Len(topic)
  PROVE  /\ LevelEnd \in i .. Len(topic)
         /\ LevelEnd = Len(topic) \/ topic[LevelEnd + 1] = "/"
         /\ \A k \in i .. (LevelEnd - 1) : topic[k + 1] # "/"
  <1> DEFINE T == {e \in i .. Len(topic) : e = Len(topic) \/ topic[e + 1] = "/"}
  <1>1. Len(topic) \in Nat /\ i \in Nat
    BY TopicStringsAssumption DEF MatchTypeOK
  <1>2. T \in SUBSET Nat /\ Len(topic) \in T
    BY <1>1
  <1>3. PICK e \in T : \A y \in T : e <= y
    <2> HIDE DEF T
    <2> QED  BY <1>2, LeastElement
  <1>4. e \in i .. Len(topic) /\ (e = Len(topic) \/ topic[e + 1] = "/")
    BY <1>3
  <1>5. \A k \in i .. (e - 1) : topic[k + 1] # "/"
    <2> SUFFICES ASSUME NEW k \in i .. (e - 1), topic[k + 1] = "/" PROVE FALSE
      OBVIOUS
    <2>1. k \in i .. Len(topic) /\ ~(e <= k)
      BY <1>1, <1>4
    <2>2. k \in T
      BY <2>1
    <2> QED  BY <1>3, <2>1, <2>2
  <1> HIDE DEF T
  <1> QED  BY <1>4, <1>5 DEF LevelEnd, LevelEndFrom

LEMMA MatchTypeInit == MatchInit => MatchTypeOK
  <1> SUFFICES ASSUME MatchInit PROVE MatchTypeOK
    OBVIOUS
  <1>1. Len(topic) \in Nat /\ Len(filter) \in Nat
    BY TopicStringsAssumption, FilterStringsAssumption DEF MatchInit
  <1>2. i \in 0 .. Len(topic) /\ j \in 0 .. Len(filter)
    BY <1>1 DEF MatchInit
  <1>3. matches \in BOOLEAN
    BY DEF MatchInit
  <1> QED
    BY <1>2, <1>3 DEF MatchInit, MatchTypeOK

LEMMA MatchTypeStep == MatchTypeOK /\ [MatchNext]_matchVars => MatchTypeOK'
  <1> SUFFICES ASSUME MatchTypeOK, [MatchNext]_matchVars PROVE MatchTypeOK'
    OBVIOUS
  <1>1. Len(topic) \in Nat /\ Len(filter) \in Nat
    BY TopicStringsAssumption, FilterStringsAssumption DEF MatchTypeOK
  <1>2. CASE Classify
    BY <1>2 DEF Classify, FilterType, MatchTypeOK
  <1>3. CASE Match
    BY <1>3 DEF Match, MatchTypeOK
  <1>4. CASE Advance
    BY <1>1, <1>4 DEF Advance, InLoop, MatchTypeOK
  <1>5. CASE SkipLevel
    <2>1. i' \in i .. Len(topic) /\ j' = j + 1 /\ j < Len(filter)
      BY <1>5, LevelEndIsInTopic DEF SkipLevel, InLoop, NextFilterIndex
    <2> QED
      BY <1>1, <1>5, <2>1 DEF SkipLevel, MatchTypeOK
  <1>6. CASE MatchRest \/ Mismatch \/ LeaveLoop
    BY <1>6 DEF MatchRest, Mismatch, LeaveLoop, MatchTypeOK
  <1>7. CASE Decide
    BY <1>7 DEF Decide, BothConsumed, MatchTypeOK
  <1>8. CASE UNCHANGED matchVars
    BY <1>8 DEF matchVars, MatchTypeOK
  <1> QED
    BY <1>2, <1>3, <1>4, <1>5, <1>6, <1>7, <1>8 DEF MatchNext

\* The loop never leaves the topic or the filter it reads.
THEOREM IndicesStayInside == MatchSpec => []MatchTypeOK
  BY MatchTypeInit, MatchTypeStep, PTL DEF MatchSpec

-----------------------------------------------------------------------------
(* Characters and levels: where the n-th '/' is, what is between two of     *)
(* them, and which wild-cards are levels of their own.                      *)

\* How many '/' are among the first k characters.
CountTo(s, k) == Cardinality({m \in 1 .. k : s[m] = "/"})

LEMMA SlashesAreFinite ==
  ASSUME NEW s, NEW n \in Nat
  PROVE  IsFiniteSet({m \in 1 .. n : s[m] = "/"})
  <1>1. IsFiniteSet(1 .. n)
    BY FS_Interval
  <1> QED  BY <1>1, FS_Subset

LEMMA CountFacts ==
  ASSUME NEW s, NEW k \in Nat
  PROVE  /\ CountTo(s, k) \in Nat
         /\ CountTo(s, 0) = 0
         /\ CountTo(s, k + 1) = IF s[k + 1] = "/" THEN CountTo(s, k) + 1 ELSE CountTo(s, k)
  <1> DEFINE A(n) == {m \in 1 .. n : s[m] = "/"}
  <1>1. IsFiniteSet(A(k)) /\ Cardinality(A(k)) \in Nat
    BY SlashesAreFinite, FS_CardinalityType
  <1>2. A(0) = {}
    OBVIOUS
  <1>3. A(k + 1) = (IF s[k + 1] = "/" THEN A(k) \cup {k + 1} ELSE A(k)) /\ k + 1 \notin A(k)
    <2>1. 1 .. (k + 1) = (1 .. k) \cup {k + 1}
      OBVIOUS
    <2> QED  BY <2>1
  <1> HIDE DEF A
  <1>4. Cardinality(A(k) \cup {k + 1}) = Cardinality(A(k)) + 1
    BY <1>1, <1>3, FS_AddElement
  <1> QED  BY <1>1, <1>2, <1>3, <1>4, FS_EmptySet DEF CountTo, A

\* The count never falls, and rises at each '/'.
LEMMA CountGrows ==
  ASSUME NEW s, NEW k \in Nat, NEW l \in Nat, k < l
  PROVE  /\ CountTo(s, k) <= CountTo(s, l)
         /\ s[l] = "/" => CountTo(s, k) < CountTo(s, l)
  <1> DEFINE A(n) == {m \in 1 .. n : s[m] = "/"}
  <1>1. \A n \in Nat : IsFiniteSet(A(n))
    BY SlashesAreFinite
  <1>2. ASSUME NEW m \in Nat, NEW n \in Nat, m <= n PROVE CountTo(s, m) <= CountTo(s, n)
    <2>1. A(m) \in SUBSET A(n)
      BY <1>2
    <2> QED  BY <1>1, <2>1, FS_Subset DEF CountTo
  <1>3. l - 1 \in Nat /\ k <= l - 1 /\ (l - 1) + 1 = l
    OBVIOUS
  <1>4. s[l] = "/" => CountTo(s, l) = CountTo(s, l - 1) + 1
    BY <1>3, CountFacts
  <1>5. CountTo(s, k) \in Nat /\ CountTo(s, l - 1) \in Nat /\ CountTo(s, l) \in Nat
    BY <1>3, CountFacts
  <1>6. CountTo(s, k) <= CountTo(s, l - 1)
    BY <1>2, <1>3
  <1>7. CountTo(s, k) <= CountTo(s, l)
    BY <1>2
  <1> HIDE DEF A
  <1> QED  BY <1>4, <1>5, <1>6, <1>7

\* Each n up to the number of '/' is the count at one of them.
LEMMA SlashIsThere ==
  ASSUME NEW s \in Seq(STRING), NEW n \in 1 .. SlashCount(s)
  PROVE  Slash(s, n) \in 1 .. Len(s) /\ s[Slash(s, n)] = "/" /\ CountTo(s, Slash(s, n)) = n
  <1> DEFINE T == {k \in 0 .. Len(s) : n <= CountTo(s, k)}
  <1>0. Len(s) \in Nat /\ SlashCount(s) = CountTo(s, Len(s)) /\ SlashCount(s) \in Nat
    <2>1. SlashCount(s) = CountTo(s, Len(s))
      BY DEF SlashCount, CountTo
    <2> QED  BY <2>1, CountFacts
  <1>1. T \in SUBSET Nat /\ T # {}
    <2>1. Len(s) \in T
      BY <1>0
    <2> QED  BY <2>1
  <1>2. PICK k \in T : \A y \in T : k <= y
    <2> HIDE DEF T
    <2> QED  BY <1>1, LeastElement
  <1>3. k # 0
    BY CountFacts, <1>0
  <1>4. k \in 1 .. Len(s) /\ k - 1 \in Nat /\ (k - 1) + 1 = k
    BY <1>0, <1>3
  <1>5. CountTo(s, k - 1) < n
    <2>1. k - 1 \notin T
      BY <1>2, <1>4
    <2>2. k - 1 \in 0 .. Len(s) /\ CountTo(s, k - 1) \in Nat
      <3> HIDE DEF T
      <3>1. CountTo(s, k - 1) \in Nat
        BY <1>4, CountFacts
      <3> QED  BY <1>0, <1>4, <3>1
    <2> QED  BY <1>0, <2>1, <2>2
  <1>6. s[k] = "/" /\ CountTo(s, k) = n
    <2>1. n <= CountTo(s, k)
      OBVIOUS
    <2>2. /\ CountTo(s, k) = (IF s[k] = "/" THEN CountTo(s, k - 1) + 1 ELSE CountTo(s, k - 1))
          /\ CountTo(s, k - 1) \in Nat
      BY <1>4, CountFacts
    <2> HIDE DEF T
    <2> QED  BY <1>0, <1>5, <2>1, <2>2
  <1>7. Slash(s, n) = CHOOSE x \in 1 .. Len(s) : s[x] = "/" /\ Cardinality({m \in 1 .. x : s[m] = "/"}) = n
    <2>1. n # 0 /\ ~(n > SlashCount(s))
      BY <1>0
    <2> QED  BY <2>1, Zenon DEF Slash
  <1>8. s[k] = "/" /\ Cardinality({m \in 1 .. k : s[m] = "/"}) = n
    BY <1>6 DEF CountTo
  <1> HIDE DEF T
  <1> QED  BY <1>4, <1>7, <1>8 DEF CountTo

\* The positions of the '/', with the one before the string and the one behind it.
LEMMA SlashFacts ==
  ASSUME NEW s \in Seq(STRING)
  PROVE  /\ SlashCount(s) \in Nat /\ SlashCount(s) = CountTo(s, Len(s)) /\ Len(s) \in Nat
         /\ Slash(s, 0) = 0 /\ Slash(s, SlashCount(s) + 1) = Len(s) + 1
         /\ \A n \in 0 .. SlashCount(s) : Slash(s, n) \in 0 .. Len(s) /\ CountTo(s, Slash(s, n)) = n
         /\ \A n \in 1 .. SlashCount(s) : Slash(s, n) \in 1 .. Len(s) /\ s[Slash(s, n)] = "/"
  <1>1. SlashCount(s) = CountTo(s, Len(s)) /\ Len(s) \in Nat
    BY DEF SlashCount, CountTo
  <1>2. SlashCount(s) \in Nat
    BY <1>1, CountFacts
  <1>3. Slash(s, 0) = 0 /\ Slash(s, SlashCount(s) + 1) = Len(s) + 1
    BY <1>2 DEF Slash
  <1>4. CountTo(s, 0) = 0
    BY CountFacts
  <1> QED  BY <1>1, <1>2, <1>3, <1>4, SlashIsThere

\* A position belongs to the level between the last '/' up to it and the next one.
LEMMA LevelAround ==
  ASSUME NEW s \in Seq(STRING), NEW k \in 0 .. Len(s), NEW c, c = CountTo(s, k)
  PROVE  /\ c \in 0 .. SlashCount(s)
         /\ Slash(s, c) <= k /\ k < Slash(s, c + 1)
         /\ k > 0 /\ s[k] = "/" => Slash(s, c) = k
         /\ k = Len(s) \/ s[k + 1] = "/" => Slash(s, c + 1) = k + 1
  <1> DEFINE N == SlashCount(s)
  <1>0. /\ N \in Nat /\ N = CountTo(s, Len(s)) /\ Len(s) \in Nat /\ k \in Nat
        /\ Slash(s, 0) = 0 /\ Slash(s, N + 1) = Len(s) + 1
        /\ \A n \in 0 .. N : Slash(s, n) \in 0 .. Len(s) /\ CountTo(s, Slash(s, n)) = n
        /\ \A n \in 1 .. N : Slash(s, n) \in 1 .. Len(s) /\ s[Slash(s, n)] = "/"
    BY SlashFacts
  <1>1. c \in 0 .. N
    <2>1. c \in Nat
      BY <1>0, CountFacts
    <2>2. k < Len(s) => c <= N
      BY <1>0, CountGrows
    <2> QED  BY <1>0, <2>1, <2>2
  <1> HIDE DEF N
  <1>2. \A x \in 0 .. Len(s), y \in 1 .. Len(s) : x < y /\ s[y] = "/" => CountTo(s, x) < CountTo(s, y)
    BY <1>0, CountGrows
  <1>3. Slash(s, c) <= k
    BY <1>0, <1>1, <1>2
  <1>4. k < Slash(s, c + 1)
    <2>1. CASE c = N
      BY <1>0, <2>1
    <2>2. CASE c # N
      <3>1. c + 1 \in 1 .. N
        BY <1>0, <1>1, <2>2
      <3>2. /\ Slash(s, c + 1) \in 1 .. Len(s) /\ s[Slash(s, c + 1)] = "/"
            /\ CountTo(s, Slash(s, c + 1)) = c + 1
        BY <1>0, <3>1
      <3>3. Slash(s, c + 1) < k => CountTo(s, Slash(s, c + 1)) <= c
        BY <1>0, <3>2, CountGrows
      <3>4. Slash(s, c + 1) # k
        BY <1>1, <3>2
      <3> QED  BY <1>0, <1>1, <3>2, <3>3, <3>4
    <2> QED  BY <2>1, <2>2
  <1>5. ASSUME k > 0, s[k] = "/" PROVE Slash(s, c) = k
    <2>1. Slash(s, c) < k => CountTo(s, Slash(s, c)) < c
      BY <1>0, <1>1, <1>2, <1>5
    <2> QED  BY <1>0, <1>1, <1>3, <2>1
  <1>6. CASE k = Len(s)
    <2>1. Slash(s, c + 1) = k + 1
      BY <1>0, <1>6
    <2> QED  BY <1>1, <1>3, <1>4, <1>5, <2>1 DEF N
  <1>7. ASSUME k # Len(s), s[k + 1] = "/" PROVE Slash(s, c + 1) = k + 1
    <2>1. CountTo(s, k + 1) = c + 1 /\ k + 1 \in 1 .. Len(s)
      <3>1. CountTo(s, k + 1) = c + 1
        BY <1>0, <1>7, CountFacts
      <3> QED  BY <1>0, <1>7, <3>1
    <2>2. c + 1 \in 1 .. N
      <3>1. k + 1 < Len(s) => CountTo(s, k + 1) <= N
        BY <1>0, <2>1, CountGrows
      <3> QED  BY <1>0, <1>1, <2>1, <3>1
    <2>3. /\ Slash(s, c + 1) \in 1 .. Len(s) /\ s[Slash(s, c + 1)] = "/"
          /\ CountTo(s, Slash(s, c + 1)) = c + 1
      BY <1>0, <2>2
    <2>4. k + 1 < Slash(s, c + 1) => c + 1 < c + 1
      BY <1>2, <2>1, <2>3
    <2> QED  BY <1>0, <1>1, <1>4, <2>1, <2>3, <2>4
  <1> QED  BY <1>1, <1>3, <1>4, <1>5, <1>6, <1>7 DEF N

\* There is no '/' inside of a level.
LEMMA LevelIsClear ==
  ASSUME NEW s \in Seq(STRING), NEW n \in 0 .. SlashCount(s)
  PROVE  /\ Slash(s, n) \in 0 .. Len(s) /\ Slash(s, n + 1) \in 1 .. (Len(s) + 1)
         /\ Slash(s, n) < Slash(s, n + 1)
         /\ \A x \in (Slash(s, n) + 1) .. (Slash(s, n + 1) - 1) : s[x] # "/" /\ CountTo(s, x) = n
  <1> DEFINE N == SlashCount(s)
  <1>0. /\ N \in Nat /\ N = CountTo(s, Len(s)) /\ Len(s) \in Nat
        /\ Slash(s, 0) = 0 /\ Slash(s, N + 1) = Len(s) + 1
        /\ \A l \in 0 .. N : Slash(s, l) \in 0 .. Len(s) /\ CountTo(s, Slash(s, l)) = l
        /\ \A l \in 1 .. N : Slash(s, l) \in 1 .. Len(s) /\ s[Slash(s, l)] = "/"
    BY SlashFacts
  <1>1. n \in 0 .. N
    OBVIOUS
  <1> HIDE DEF N
  <1>2. Slash(s, n) \in 0 .. Len(s) /\ CountTo(s, Slash(s, n)) = n
    BY <1>0, <1>1
  <1>3. Slash(s, n) < Slash(s, n + 1)
    BY <1>2, LevelAround
  <1>4. n + 1 \in 1 .. N \/ n = N
    BY <1>0, <1>1
  <1>5. Slash(s, n + 1) \in 1 .. (Len(s) + 1)
    BY <1>0, <1>4
  <1>6. ASSUME NEW x \in (Slash(s, n) + 1) .. (Slash(s, n + 1) - 1)
        PROVE  s[x] # "/" /\ CountTo(s, x) = n
    <2>1. x \in 1 .. Len(s) /\ Slash(s, n) < x /\ x < Slash(s, n + 1)
      BY <1>0, <1>2, <1>5
    <2>2. n <= CountTo(s, x) /\ (s[x] = "/" => n < CountTo(s, x)) /\ CountTo(s, x) \in Nat
      BY <1>0, <1>2, <2>1, CountGrows, CountFacts
    <2>3. CountTo(s, x) <= n
      <3>1. CASE n + 1 \in 1 .. N
        <4>1. CountTo(s, x) < CountTo(s, Slash(s, n + 1)) /\ CountTo(s, Slash(s, n + 1)) = n + 1
          <5>1. Slash(s, n + 1) \in 1 .. Len(s) /\ s[Slash(s, n + 1)] = "/" /\ x \in Nat
            BY <1>0, <2>1, <3>1
          <5>2. CountTo(s, Slash(s, n + 1)) = n + 1
            BY <1>0, <3>1
          <5> HIDE <1>0
          <5> QED  BY <2>1, <5>1, <5>2, CountGrows
        <4> QED  BY <1>1, <2>2, <4>1
      <3>2. CASE n = N
        <4>1. x < Len(s) => CountTo(s, x) <= n
          BY <1>0, <2>1, <3>2, CountGrows
        <4> QED  BY <1>0, <2>1, <3>2, <4>1
      <3> QED  BY <1>4, <3>1, <3>2
    <2> QED  BY <1>1, <2>2, <2>3
  <1> QED  BY <1>2, <1>3, <1>5, <1>6

\* Levels are counted from 1; the level n + 1 is between the n-th '/' and the next.
LEMMA LevelFacts ==
  ASSUME NEW s \in Seq(STRING)
  PROVE  /\ Len(Levels(s)) = SlashCount(s) + 1
         /\ \A n \in 0 .. SlashCount(s) :
               /\ Levels(s)[n + 1] \in Seq(STRING)
               /\ Len(Levels(s)[n + 1]) = Slash(s, n + 1) - Slash(s, n) - 1
               /\ \A x \in 1 .. (Slash(s, n + 1) - Slash(s, n) - 1) :
                     Levels(s)[n + 1][x] = s[Slash(s, n) + x]
  <1> DEFINE N == SlashCount(s)
             L(n) == SubSeq(s, Slash(s, n - 1) + 1, Slash(s, n) - 1)
  <1>0. N \in Nat /\ Len(s) \in Nat
    BY SlashFacts
  <1>1. Levels(s) = [n \in 1 .. (N + 1) |-> L(n)]
    BY DEF Levels
  <1>2. ASSUME NEW n \in 0 .. N
        PROVE  /\ L(n + 1) \in Seq(STRING)
               /\ Len(L(n + 1)) = Slash(s, n + 1) - Slash(s, n) - 1
               /\ \A x \in 1 .. (Slash(s, n + 1) - Slash(s, n) - 1) : L(n + 1)[x] = s[Slash(s, n) + x]
    <2> DEFINE a == Slash(s, n) + 1
               b == Slash(s, n + 1) - 1
    <2>1. /\ Slash(s, n) \in 0 .. Len(s) /\ Slash(s, n + 1) \in 1 .. (Len(s) + 1)
          /\ Slash(s, n) < Slash(s, n + 1)
      BY LevelIsClear
    <2>2. a \in Int /\ b \in Int /\ a <= b + 1 /\ \A x \in a .. b : s[x] \in STRING
      BY <1>0, <2>1
    <2>3. L(n + 1) = SubSeq(s, a, b)
      <3>1. (n + 1) - 1 = n
        OBVIOUS
      <3> QED  BY <3>1
    <2> HIDE DEF a, b, L, N
    <2>4. /\ SubSeq(s, a, b) \in Seq(STRING)
          /\ Len(SubSeq(s, a, b)) = IF a <= b THEN b - a + 1 ELSE 0
          /\ \A x \in 1 .. b - a + 1 : SubSeq(s, a, b)[x] = s[a + x - 1]
      BY <2>2, SubSeqProperties
    <2>5. Len(L(n + 1)) = b - a + 1
      BY <2>2, <2>3, <2>4
    <2>6. L(n + 1) \in Seq(STRING) /\ \A x \in 1 .. (b - a + 1) : L(n + 1)[x] = s[a + x - 1]
      BY <2>3, <2>4
    <2>7. /\ Slash(s, n) = a - 1 /\ Slash(s, n + 1) = b + 1 /\ a \in Int /\ b \in Int
          /\ Slash(s, n + 1) - Slash(s, n) - 1 = b - a + 1
      <3>1. PICK p \in Int, q \in Int : Slash(s, n) = p /\ Slash(s, n + 1) = q
        BY <1>0, <2>1
      <3>2. a = p + 1 /\ b = q - 1
        BY <3>1 DEF a, b
      <3> QED  BY <3>1, <3>2
    <2>8. \A x \in 1 .. (b - a + 1) : a + x - 1 = Slash(s, n) + x
      BY <2>7
    <2> HIDE DEF a, b
    <2> QED  BY <2>5, <2>6, <2>7, <2>8
  <1>3. Len(Levels(s)) = N + 1 /\ \A n \in 0 .. N : Levels(s)[n + 1] = L(n + 1)
    <2> HIDE DEF L, N
    <2>1. PICK m \in Nat : m = N + 1
      BY <1>0
    <2>2. Levels(s) = [n \in 1 .. m |-> L(n)]
      BY <1>1, <2>1
    <2>3. Len(Levels(s)) = m
      BY <2>2
    <2> QED  BY <1>0, <2>1, <2>2, <2>3
  <1> HIDE DEF L
  <1> QED  BY <1>2, <1>3

\* A character that is not '/' is inside of its level, and what the code looks for before
\* and behind it are the level's ends.
LEMMA InsideOfLevel ==
  ASSUME NEW s \in Seq(STRING), NEW x \in 1 .. Len(s), s[x] # "/", NEW c, c = CountTo(s, x)
  PROVE  /\ c \in 0 .. SlashCount(s)
         /\ x \in (Slash(s, c) + 1) .. (Slash(s, c + 1) - 1)
         /\ LevelStarts(s, x) <=> x = Slash(s, c) + 1
         /\ LevelEnds(s, x) <=> x = Slash(s, c + 1) - 1
  <1>0. /\ SlashCount(s) \in Nat /\ Len(s) \in Nat
        /\ Slash(s, 0) = 0 /\ Slash(s, SlashCount(s) + 1) = Len(s) + 1
        /\ \A n \in 1 .. SlashCount(s) : Slash(s, n) \in 1 .. Len(s) /\ s[Slash(s, n)] = "/"
    BY SlashFacts
  <1>1. /\ c \in 0 .. SlashCount(s) /\ Slash(s, c) <= x /\ x < Slash(s, c + 1)
        /\ x = Len(s) \/ s[x + 1] = "/" => Slash(s, c + 1) = x + 1
    BY <1>0, LevelAround
  <1>2. Slash(s, c) \in 0 .. Len(s) /\ Slash(s, c + 1) \in 1 .. (Len(s) + 1)
    BY <1>1, LevelIsClear
  <1>3. c = 0 \/ c \in 1 .. SlashCount(s)
    BY <1>0, <1>1
  <1>4. Slash(s, c) # x
    BY <1>0, <1>3
  <1>5. x - 1 \in 0 .. Len(s) /\ (x - 1) + 1 = x /\ x - 1 \in Nat
    BY <1>0
  <1>6. CountTo(s, x - 1) = c
    BY <1>5, CountFacts
  <1>7. LevelStarts(s, x) => x = Slash(s, c) + 1
    <2>1. CASE x = 1
      <3>1. c = 0
        BY <1>6, <2>1, CountFacts
      <3> QED  BY <1>0, <2>1, <3>1
    <2>2. CASE x # 1 /\ s[x - 1] = "/"
      <3>1. x - 1 > 0
        BY <1>5, <2>2
      <3>2. Slash(s, c) = x - 1
        BY <1>5, <1>6, <2>2, <3>1, LevelAround
      <3> QED  BY <1>5, <3>2
    <2> QED  BY <2>1, <2>2 DEF LevelStarts
  <1>8. x = Slash(s, c) + 1 => LevelStarts(s, x)
    <2>1. CASE c = 0
      BY <1>0, <2>1 DEF LevelStarts
    <2>2. CASE c \in 1 .. SlashCount(s)
      <3>1. x = Slash(s, c) + 1 => x - 1 = Slash(s, c)
        BY <1>2
      <3> QED  BY <1>0, <2>2, <3>1 DEF LevelStarts
    <2> QED  BY <1>3, <2>1, <2>2
  <1>9. LevelEnds(s, x) => x = Slash(s, c + 1) - 1
    BY <1>1, <1>2 DEF LevelEnds
  <1>10. x = Slash(s, c + 1) - 1 => LevelEnds(s, x)
    <2>1. CASE c = SlashCount(s)
      BY <1>0, <2>1 DEF LevelEnds
    <2>2. CASE c + 1 \in 1 .. SlashCount(s)
      <3>1. x = Slash(s, c + 1) - 1 => x + 1 = Slash(s, c + 1)
        BY <1>2
      <3> QED  BY <1>0, <2>2, <3>1 DEF LevelEnds
    <2> QED  BY <1>0, <1>1, <2>1, <2>2
  <1>11. x \in (Slash(s, c) + 1) .. (Slash(s, c + 1) - 1)
    BY <1>1, <1>2, <1>4
  <1> QED  BY <1>1, <1>7, <1>8, <1>9, <1>10, <1>11

\* A level is the character w alone.
LEMMA LevelIsOneCharacter ==
  ASSUME NEW s \in Seq(STRING), NEW n \in 0 .. SlashCount(s), NEW w
  PROVE  Levels(s)[n + 1] = <<w>> <=> Slash(s, n + 1) = Slash(s, n) + 2 /\ s[Slash(s, n) + 1] = w
  <1> DEFINE l == Levels(s)[n + 1]
  <1>1. /\ l \in Seq(STRING) /\ Len(l) = Slash(s, n + 1) - Slash(s, n) - 1
        /\ \A x \in 1 .. Len(l) : l[x] = s[Slash(s, n) + x]
    BY LevelFacts
  <1>2. Slash(s, n) \in Int /\ Slash(s, n + 1) \in Int /\ Slash(s, n) < Slash(s, n + 1)
    BY LevelIsClear, SlashFacts
  <1> HIDE DEF l
  <1>3. l = <<w>> => Len(l) = 1 /\ l[1] = w
    OBVIOUS
  <1>4. Len(l) = 1 /\ l[1] = w => l = <<w>>
    <2> DEFINE S == STRING \cup {w}
               u == <<w>>
    <2>1. u \in Seq(S) /\ Len(u) = 1 /\ u[1] = w
      <3>1. w \in S
        OBVIOUS
      <3> HIDE DEF S
      <3> QED  BY ONLY <3>1
    <2>2. l \in Seq(S)
      BY <1>1
    <2> HIDE DEF S, u
    <2> SUFFICES ASSUME Len(l) = 1, l[1] = w PROVE l = <<w>>
      OBVIOUS
    <2>3. \A x \in 1 .. Len(l) : l[x] = u[x]
      BY <2>1
    <2>4. l = u
      BY ONLY <2>1, <2>2, <2>3, Len(l) = 1, SeqEqual
    <2> QED  BY <2>4 DEF u
  <1>5. Len(l) = 1 <=> Slash(s, n + 1) = Slash(s, n) + 2
    BY <1>1, <1>2
  <1>6. Len(l) = 1 => l[1] = s[Slash(s, n) + 1]
    <2>1. Len(l) = 1 => 1 \in 1 .. Len(l)
      OBVIOUS
    <2> QED  BY <1>1, <2>1
  <1> QED  BY <1>3, <1>4, <1>5, <1>6 DEF l

\* A level with a wild-card has it between its ends.
LEMMA WildLevel ==
  ASSUME NEW s \in Seq(STRING), NEW n \in 0 .. SlashCount(s)
  PROVE  IsWild(Levels(s)[n + 1]) <=>
           \E x \in (Slash(s, n) + 1) .. (Slash(s, n + 1) - 1) : s[x] \in WildCards
  <1> DEFINE l == Levels(s)[n + 1]
  <1>1. /\ Len(l) = Slash(s, n + 1) - Slash(s, n) - 1
        /\ \A x \in 1 .. Len(l) : l[x] = s[Slash(s, n) + x]
    BY LevelFacts
  <1>2. Slash(s, n) \in Int /\ Slash(s, n + 1) \in Int /\ Slash(s, n) < Slash(s, n + 1)
    BY LevelIsClear, SlashFacts
  <1>3. PICK p \in Int, q \in Int : p = Slash(s, n) /\ q = Slash(s, n + 1)
    BY <1>2
  <1> HIDE DEF l
  <1>4. Len(l) = q - p - 1 /\ \A x \in 1 .. (q - p - 1) : l[x] = s[p + x]
    BY <1>1, <1>3
  <1>5. ASSUME NEW k \in 1 .. Len(l), l[k] \in WildCards
        PROVE  \E x \in (p + 1) .. (q - 1) : s[x] \in WildCards
    <2>1. p + k \in (p + 1) .. (q - 1) /\ s[p + k] \in WildCards
      BY <1>4, <1>5
    <2> QED  BY <2>1
  <1>6. ASSUME NEW x \in (p + 1) .. (q - 1), s[x] \in WildCards
        PROVE  \E k \in 1 .. Len(l) : l[k] \in WildCards
    <2>1. x - p \in 1 .. Len(l) /\ p + (x - p) = x
      BY <1>4
    <2>2. l[x - p] = s[x]
      BY <1>4, <2>1
    <2> QED  BY <1>6, <2>1, <2>2
  <1> QED  BY <1>3, <1>5, <1>6 DEF IsWild, l

Valid(f) == \A x \in 1 .. Len(f) : ~IsMisplaced(f, x)

\* What the code looks for at single characters is what is required of the levels.
LEMMA ValidLevels ==
  ASSUME NEW f \in Seq(STRING)
  PROVE  /\ Valid(f) <=> IsValid(Levels(f))
         /\ (\A x \in 1 .. Len(f) : f[x] \notin WildCards) <=>
              \A n \in 1 .. Len(Levels(f)) : ~IsWild(Levels(f)[n])
  <1> DEFINE N == SlashCount(f)
  <1>0. /\ N \in Nat /\ Len(f) \in Nat /\ Len(Levels(f)) = N + 1
        /\ Slash(f, N + 1) = Len(f) + 1
    BY SlashFacts, LevelFacts
  <1>1. \A n \in 1 .. Len(Levels(f)) : n - 1 \in 0 .. N /\ (n - 1) + 1 = n
    BY <1>0
  <1>2. \A n \in 0 .. N : n + 1 \in 1 .. Len(Levels(f)) /\ (n + 1 = Len(Levels(f)) <=> n = N)
    BY <1>0
  <1>3. ASSUME NEW x \in 1 .. Len(f), f[x] \in WildCards
        PROVE  /\ CountTo(f, x) \in 0 .. N
               /\ x \in (Slash(f, CountTo(f, x)) + 1) .. (Slash(f, CountTo(f, x) + 1) - 1)
    BY <1>3, InsideOfLevel DEF WildCards
  <1>4. ASSUME NEW n \in 0 .. N, NEW x \in (Slash(f, n) + 1) .. (Slash(f, n + 1) - 1)
        PROVE  x \in 1 .. Len(f) /\ f[x] # "/" /\ CountTo(f, x) = n
    <2>1. Slash(f, n) \in 0 .. Len(f) /\ Slash(f, n + 1) \in 1 .. (Len(f) + 1)
      BY LevelIsClear
    <2>2. f[x] # "/" /\ CountTo(f, x) = n
      BY LevelIsClear
    <2> QED  BY <1>0, <2>1, <2>2
  \* A wild-card in the level n + 1 is misplaced unless it is the level.
  <1>5. ASSUME NEW n \in 0 .. N, NEW x \in (Slash(f, n) + 1) .. (Slash(f, n + 1) - 1),
               f[x] \in WildCards
        PROVE  IsMisplaced(f, x) <=>
                 ~(\/ Levels(f)[n + 1] = <<"+">>
                   \/ Levels(f)[n + 1] = <<"#">> /\ n + 1 = Len(Levels(f)))
    <2>1. x \in 1 .. Len(f) /\ f[x] # "/" /\ CountTo(f, x) = n
      BY <1>4
    <2>2. /\ LevelStarts(f, x) <=> x = Slash(f, n) + 1
          /\ LevelEnds(f, x) <=> x = Slash(f, n + 1) - 1
      BY <2>1, InsideOfLevel
    <2>3. PICK p \in Int, q \in Int : p = Slash(f, n) /\ q = Slash(f, n + 1)
      BY <1>0, LevelIsClear
    <2>4. \A w \in {"+", "#"} : Levels(f)[n + 1] = <<w>> <=> q = p + 2 /\ f[p + 1] = w
      BY <2>3, LevelIsOneCharacter
    <2>5. x \in (p + 1) .. (q - 1)
      BY <2>3
    <2>6. n = N => q = Len(f) + 1
      BY <1>0, <2>3
    <2>7. n # N => q <= Len(f)
      <3>1. n # N => n + 1 \in 1 .. N
        BY <1>0
      <3>2. n # N => q \in 1 .. Len(f)
        BY <2>3, <3>1, SlashFacts
      <3> QED  BY <1>0, <3>2
    <2>8. n + 1 = Len(Levels(f)) <=> n = N
      BY <1>2
    <2>9. CASE f[x] = "+"
      <3>1. IsMisplaced(f, x) <=> ~(x = p + 1 /\ x = q - 1)
        BY <2>2, <2>3, <2>9 DEF IsMisplaced
      <3>2. x = p + 1 /\ x = q - 1 <=> q = p + 2 /\ f[p + 1] = "+"
        BY <2>5, <2>9
      <3>3. ~(q = p + 2 /\ f[p + 1] = "#")
        BY <2>5, <2>9
      <3> QED  BY <2>4, <3>1, <3>2, <3>3
    <2>10. CASE f[x] = "#"
      <3>1. IsMisplaced(f, x) <=> ~(x = p + 1 /\ x = Len(f))
        BY <2>2, <2>3, <2>10 DEF IsMisplaced
      <3>2. x = p + 1 /\ x = Len(f) <=> q = p + 2 /\ f[p + 1] = "#" /\ n = N
        <4>1. x = p + 1 /\ x = Len(f) => q = p + 2 /\ n = N
          BY <1>0, <2>5, <2>6, <2>7
        <4>2. q = p + 2 /\ n = N => x = p + 1 /\ x = Len(f)
          BY <1>0, <2>5, <2>6
        <4> QED  BY <2>10, <4>1, <4>2
      <3>3. ~(q = p + 2 /\ f[p + 1] = "+")
        BY <2>5, <2>10
      <3> QED  BY <2>4, <2>8, <3>1, <3>2, <3>3
    <2> QED  BY <1>5, <2>9, <2>10 DEF WildCards
  <1>6. \A n \in 0 .. N : IsWild(Levels(f)[n + 1]) <=>
           \E x \in (Slash(f, n) + 1) .. (Slash(f, n + 1) - 1) : f[x] \in WildCards
    BY WildLevel
  <1>7. \A x : IsMisplaced(f, x) => f[x] \in WildCards
    BY DEF IsMisplaced, WildCards
  <1> HIDE DEF N
  <1>8. Valid(f) => IsValid(Levels(f))
    <2> SUFFICES ASSUME Valid(f), NEW m \in 1 .. Len(Levels(f)), IsWild(Levels(f)[m])
                 PROVE  \/ Levels(f)[m] = <<"+">>
                        \/ Levels(f)[m] = <<"#">> /\ m = Len(Levels(f))
      BY DEF IsValid
    <2>1. PICK n \in 0 .. N : m = n + 1
      BY <1>1
    <2>2. PICK x \in (Slash(f, n) + 1) .. (Slash(f, n + 1) - 1) : f[x] \in WildCards
      BY <1>6, <2>1
    <2>3. ~IsMisplaced(f, x)
      BY <1>4 DEF Valid
    <2> QED  BY <1>5, <2>1, <2>2, <2>3
  <1>9. IsValid(Levels(f)) => Valid(f)
    <2> SUFFICES ASSUME IsValid(Levels(f)), NEW x \in 1 .. Len(f), IsMisplaced(f, x)
                 PROVE  FALSE
      BY DEF Valid
    <2>1. f[x] \in WildCards
      BY <1>7
    <2>2. PICK n \in 0 .. N : x \in (Slash(f, n) + 1) .. (Slash(f, n + 1) - 1)
      BY <1>3, <2>1
    <2>3. IsWild(Levels(f)[n + 1])
      BY <1>6, <2>1, <2>2
    <2>4. \/ Levels(f)[n + 1] = <<"+">>
          \/ Levels(f)[n + 1] = <<"#">> /\ n + 1 = Len(Levels(f))
      BY <1>2, <2>3 DEF IsValid
    <2> QED  BY <1>5, <2>1, <2>2, <2>4
  <1>10. (\A x \in 1 .. Len(f) : f[x] \notin WildCards) =>
              \A n \in 1 .. Len(Levels(f)) : ~IsWild(Levels(f)[n])
    BY <1>1, <1>4, <1>6
  <1>11. (\A n \in 1 .. Len(Levels(f)) : ~IsWild(Levels(f)[n])) =>
              \A x \in 1 .. Len(f) : f[x] \notin WildCards
    BY <1>2, <1>3, <1>6
  <1> QED  BY <1>8, <1>9, <1>10, <1>11

\* In a valid filter a wild-card is a level of its own, and '#' is the last one.
LEMMA WildIsAlone ==
  ASSUME NEW f \in Seq(STRING), Valid(f), NEW x \in 1 .. Len(f), NEW c, c = CountTo(f, x)
  PROVE  /\ f[x] \in WildCards => /\ c \in 0 .. SlashCount(f) /\ Levels(f)[c + 1] = <<f[x]>>
                                  /\ Slash(f, c) = x - 1 /\ Slash(f, c + 1) = x + 1
         /\ f[x] = "#" => x = Len(f) /\ c = SlashCount(f)
  <1>0. Len(f) \in Nat /\ SlashCount(f) = CountTo(f, Len(f)) /\ ~IsMisplaced(f, x)
    BY SlashFacts DEF Valid
  <1>1. ASSUME f[x] \in WildCards
        PROVE  /\ c \in 0 .. SlashCount(f) /\ Levels(f)[c + 1] = <<f[x]>>
               /\ Slash(f, c) = x - 1 /\ Slash(f, c + 1) = x + 1
    <2>1. /\ c \in 0 .. SlashCount(f)
          /\ LevelStarts(f, x) <=> x = Slash(f, c) + 1
          /\ LevelEnds(f, x) <=> x = Slash(f, c + 1) - 1
      BY <1>1, InsideOfLevel DEF WildCards
    <2>2. LevelStarts(f, x) /\ LevelEnds(f, x)
      BY <1>0, <1>1 DEF IsMisplaced, LevelEnds, WildCards
    <2>3. Slash(f, c) \in 0 .. Len(f) /\ Slash(f, c + 1) \in 1 .. (Len(f) + 1)
      BY <2>1, LevelIsClear
    <2>4. Slash(f, c) = x - 1 /\ Slash(f, c + 1) = x + 1
      BY <1>0, <2>1, <2>2, <2>3
    <2>5. Slash(f, c + 1) = Slash(f, c) + 2 /\ Slash(f, c) + 1 = x
      BY <2>4
    <2>6. Levels(f)[c + 1] = <<f[x]>>
      BY <2>1, <2>5, LevelIsOneCharacter
    <2> QED  BY <2>1, <2>4, <2>6
  <1>2. f[x] = "#" => x = Len(f)
    BY <1>0 DEF IsMisplaced
  <1> QED  BY <1>0, <1>1, <1>2

\* Levels are equal if they are as long as each other, with the same characters.
LEMMA EqualLevels ==
  ASSUME NEW t \in Seq(STRING), NEW f \in Seq(STRING), NEW c \in 0 .. SlashCount(t),
         c \in 0 .. SlashCount(f)
  PROVE  Levels(t)[c + 1] = Levels(f)[c + 1] <=>
           /\ Slash(t, c + 1) - Slash(t, c) = Slash(f, c + 1) - Slash(f, c)
           /\ \A x \in 1 .. (Slash(t, c + 1) - Slash(t, c) - 1) :
                 t[Slash(t, c) + x] = f[Slash(f, c) + x]
  <1> DEFINE l == Levels(t)[c + 1]
             m == Levels(f)[c + 1]
  <1>1. PICK p \in Int, r \in Int : p = Slash(t, c) /\ r = Slash(t, c + 1)
    BY LevelIsClear
  <1>2. PICK q \in Int, s \in Int : q = Slash(f, c) /\ s = Slash(f, c + 1)
    BY LevelIsClear
  <1>3. /\ l \in Seq(STRING) /\ Len(l) = r - p - 1
        /\ \A x \in 1 .. (r - p - 1) : l[x] = t[p + x]
    BY <1>1, LevelFacts
  <1>4. /\ m \in Seq(STRING) /\ Len(m) = s - q - 1
        /\ \A x \in 1 .. (s - q - 1) : m[x] = f[q + x]
    BY <1>2, LevelFacts
  <1> HIDE DEF l, m
  <1>5. l = m => r - p = s - q /\ \A x \in 1 .. (r - p - 1) : t[p + x] = f[q + x]
    <2> SUFFICES ASSUME l = m PROVE r - p = s - q /\ \A x \in 1 .. (r - p - 1) : t[p + x] = f[q + x]
      OBVIOUS
    <2>1. r - p - 1 = s - q - 1
      BY <1>3, <1>4
    <2>2. r - p = s - q
      BY <2>1
    <2> QED  BY <1>3, <1>4, <2>1, <2>2
  <1>6. r - p = s - q /\ (\A x \in 1 .. (r - p - 1) : t[p + x] = f[q + x]) => l = m
    <2> SUFFICES ASSUME r - p = s - q, \A x \in 1 .. (r - p - 1) : t[p + x] = f[q + x] PROVE l = m
      OBVIOUS
    <2>1. r - p - 1 = s - q - 1
      OBVIOUS
    <2>2. Len(l) = Len(m) /\ \A x \in 1 .. Len(l) : l[x] = m[x]
      BY <1>3, <1>4, <2>1
    <2> QED  BY <1>3, <1>4, <2>2, SeqEqual
  <1> QED  BY <1>1, <1>2, <1>5, <1>6 DEF l, m

-----------------------------------------------------------------------------
(* The loop: how far it has come, what each turn does, and what each way    *)
(* out of it says of the levels.                                            *)

\* How far the loop has come: a characters of the topic and b of the filter have been
\* consumed, c levels of both are behind it and match.  In the level at hand either as many
\* characters of both are consumed, and they are the same,
Abreast(t, f, a, b, c) ==
    /\ a - Slash(t, c) = b - Slash(f, c)
    /\ \A x \in 1 .. (a - Slash(t, c)) : t[Slash(t, c) + x] = f[Slash(f, c) + x]

\* or all of the topic's level and a '+' of the filter.
Skipped(t, f, a, b, c) ==
    f[Slash(f, c) + 1] = "+" /\ b = Slash(f, c) + 1 /\ Slash(t, c + 1) = a + 1

Reached(t, f, a, b, c) ==
    /\ CountTo(t, a) = c /\ CountTo(f, b) = c
    /\ LevelsMatch(Levels(t), Levels(f), c)
    /\ Abreast(t, f, a, b, c) \/ Skipped(t, f, a, b, c)

\* The filter goes on with what the corner cases look for at the end of the topic.
CornerAt(f, b) ==
    \/ b = Len(f) - 2 /\ f[b + 1] = "/" /\ f[b + 2] = "#"
    \/ b = Len(f) - 1 /\ f[b + 1] = "+"

IsTopic(t)  == t \in Seq(STRING) /\ t # << >> /\ \A x \in 1 .. Len(t) : t[x] \notin WildCards
IsFilter(f) == f \in Seq(STRING) /\ f # << >> /\ Valid(f)

Within(t, f, a, b) == IsTopic(t) /\ IsFilter(f) /\ a \in 0 .. Len(t) /\ b \in 0 .. Len(f)

Fits(t, f) == Matching(Levels(t), Levels(f))
Excepted(t, f) ==
    \/ HashIsParent(Levels(t), Levels(f)) /\ Levels(f)[Len(Levels(f)) - 1] = <<"+">>
    \/ HashIsEmptyLevel(Levels(t), Levels(f))

LEMMA WildCardsDiffer == <<"+">> # <<"#">>
  <1>1. <<"+">>[1] = "+" /\ <<"#">>[1] = "#"
    OBVIOUS
  <1> QED  BY <1>1

\* Where the ends of the levels at hand are.
LEMMA WithinFacts ==
  ASSUME NEW t, NEW f, NEW a, NEW b, NEW c, Within(t, f, a, b), Reached(t, f, a, b, c)
  PROVE  /\ Len(t) \in Nat \ {0} /\ Len(f) \in Nat \ {0}
         /\ SlashCount(t) \in Nat /\ SlashCount(f) \in Nat
         /\ Len(Levels(t)) = SlashCount(t) + 1 /\ Len(Levels(f)) = SlashCount(f) + 1
         /\ c \in 0 .. SlashCount(t) /\ c \in 0 .. SlashCount(f)
         /\ Slash(t, c) \in 0 .. a /\ Slash(f, c) \in 0 .. b
         /\ Slash(t, c + 1) \in (a + 1) .. (Len(t) + 1)
         /\ Slash(f, c + 1) \in (b + 1) .. (Len(f) + 1)
         /\ a = Len(t) => c = SlashCount(t)
         /\ b = Len(f) => c = SlashCount(f)
         /\ c = SlashCount(t) => Slash(t, c + 1) = Len(t) + 1
         /\ c = SlashCount(f) => Slash(f, c + 1) = Len(f) + 1
         /\ Slash(t, c + 1) = Len(t) + 1 => c = SlashCount(t)
         /\ Slash(f, c + 1) = Len(f) + 1 => c = SlashCount(f)
         /\ Slash(t, c + 1) <= Len(t) => t[Slash(t, c + 1)] = "/"
         /\ Slash(f, c + 1) <= Len(f) => f[Slash(f, c + 1)] = "/"
  <1>1. ASSUME NEW s \in Seq(STRING), s # << >>, NEW k \in 0 .. Len(s), c = CountTo(s, k)
        PROVE  /\ Len(s) \in Nat \ {0} /\ SlashCount(s) \in Nat /\ Len(Levels(s)) = SlashCount(s) + 1
               /\ c \in 0 .. SlashCount(s) /\ Slash(s, c) \in 0 .. k
               /\ Slash(s, c + 1) \in (k + 1) .. (Len(s) + 1)
               /\ k = Len(s) => c = SlashCount(s)
               /\ c = SlashCount(s) => Slash(s, c + 1) = Len(s) + 1
               /\ Slash(s, c + 1) = Len(s) + 1 => c = SlashCount(s)
               /\ Slash(s, c + 1) <= Len(s) => s[Slash(s, c + 1)] = "/"
    <2>1. /\ SlashCount(s) \in Nat /\ SlashCount(s) = CountTo(s, Len(s)) /\ Len(s) \in Nat
          /\ Slash(s, SlashCount(s) + 1) = Len(s) + 1
          /\ \A n \in 1 .. SlashCount(s) : Slash(s, n) \in 1 .. Len(s) /\ s[Slash(s, n)] = "/"
      BY SlashFacts
    <2>2. Len(Levels(s)) = SlashCount(s) + 1 /\ Len(s) # 0
      BY <1>1, LevelFacts
    <2>3. c \in 0 .. SlashCount(s) /\ Slash(s, c) <= k /\ k < Slash(s, c + 1)
      BY <1>1, LevelAround
    <2>4. Slash(s, c) \in 0 .. Len(s) /\ Slash(s, c + 1) \in 1 .. (Len(s) + 1)
      BY <2>3, LevelIsClear
    <2>5. c = SlashCount(s) \/ c + 1 \in 1 .. SlashCount(s)
      BY <2>1, <2>3
    <2>6. Slash(s, c + 1) = Len(s) + 1 => c = SlashCount(s)
      BY <2>1, <2>5
    <2>7. Slash(s, c + 1) <= Len(s) => s[Slash(s, c + 1)] = "/"
      BY <2>1, <2>5
    <2>8. Slash(s, c) \in 0 .. k /\ Slash(s, c + 1) \in (k + 1) .. (Len(s) + 1)
      BY <2>1, <2>3, <2>4
    <2> QED  BY <1>1, <2>1, <2>2, <2>3, <2>6, <2>7, <2>8
  <1>2. /\ t \in Seq(STRING) /\ t # << >> /\ a \in 0 .. Len(t) /\ c = CountTo(t, a)
        /\ f \in Seq(STRING) /\ f # << >> /\ b \in 0 .. Len(f) /\ c = CountTo(f, b)
    BY DEF Within, IsTopic, IsFilter, Reached
  <1> HIDE DEF Within, Reached
  <1> QED  BY <1>1, <1>2

\* A level of the filter that is a wild-card has not been begun, unless it was skipped.
LEMMA WildAhead ==
  ASSUME NEW t, NEW f, NEW a, NEW b, NEW c, Within(t, f, a, b), Reached(t, f, a, b, c),
         Abreast(t, f, a, b, c), NEW w \in WildCards, Levels(f)[c + 1] = <<w>>
  PROVE  Slash(f, c) = b /\ Slash(t, c) = a /\ f[b + 1] = w /\ Slash(f, c + 1) = b + 2
  <1>1. /\ c \in 0 .. SlashCount(f) /\ Len(t) \in Nat /\ b \in Nat /\ a \in 0 .. Len(t)
        /\ Slash(t, c) \in 0 .. a /\ Slash(f, c) \in 0 .. b /\ Slash(f, c + 1) \in (b + 1) .. (Len(f) + 1)
        /\ Len(f) \in Nat
    BY WithinFacts DEF Within
  <1>2. Slash(f, c + 1) = Slash(f, c) + 2 /\ f[Slash(f, c) + 1] = w
    BY <1>1, LevelIsOneCharacter DEF Within, IsFilter
  <1>3. PICK p \in Nat, q \in Nat : p = Slash(t, c) /\ q = Slash(f, c)
    BY <1>1
  <1>4. a - p = b - q /\ \A x \in 1 .. (a - p) : t[p + x] = f[q + x]
    BY <1>3 DEF Abreast
  <1>5. b = q \/ b = q + 1
    BY <1>1, <1>2, <1>3
  <1>6. b # q + 1
    <2> SUFFICES ASSUME b = q + 1 PROVE FALSE
      OBVIOUS
    <2>1. a - p = 1 /\ 1 \in 1 .. (a - p)
      BY <1>4
    <2>2. t[p + 1] = w
      BY <1>2, <1>3, <1>4, <2>1
    <2>3. p + 1 \in 1 .. Len(t)
      <3>1. a \in Int
        BY <1>1
      <3>2. p + 1 = a
        BY <1>3, <2>1, <3>1
      <3> QED  BY <1>1, <1>3, <3>2
    <2> QED  BY <2>2, <2>3 DEF Within, IsTopic
  <1>7. a = p
    BY <1>1, <1>4, <1>5, <1>6
  <1> QED  BY <1>2, <1>3, <1>5, <1>6, <1>7

\* A level of the filter that was skipped is "+" as a whole.
LEMMA SkippedLevel ==
  ASSUME NEW t, NEW f, NEW a, NEW b, NEW c, Within(t, f, a, b), Reached(t, f, a, b, c),
         Skipped(t, f, a, b, c)
  PROVE  Levels(f)[c + 1] = <<"+">> /\ Slash(f, c + 1) = b + 1
  <1>1. c \in 0 .. SlashCount(f) /\ Slash(f, c) \in 0 .. b /\ b \in 0 .. Len(f) /\ Len(f) \in Nat
    BY WithinFacts DEF Within
  <1>2. f[b] = "+" /\ b \in 1 .. Len(f) /\ CountTo(f, b) = c /\ Valid(f) /\ f \in Seq(STRING)
    BY <1>1 DEF Skipped, Reached, Within, IsFilter
  <1>3. "+" \in WildCards
    BY DEF WildCards
  <1> HIDE DEF Skipped, Reached, Within
  <1> QED  BY <1>2, <1>3, WildIsAlone

\* What a match says of the levels at hand.
LEMMA MustMatch ==
  ASSUME NEW t, NEW f, NEW a, NEW b, NEW c, Within(t, f, a, b), Reached(t, f, a, b, c),
         Fits(t, f), Levels(f)[c + 1] # <<"#">>
  PROVE  Levels(f)[c + 1] = Levels(t)[c + 1] \/ Levels(f)[c + 1] = <<"+">>
  <1>1. /\ SlashCount(t) \in Nat /\ SlashCount(f) \in Nat
        /\ Len(Levels(t)) = SlashCount(t) + 1 /\ Len(Levels(f)) = SlashCount(f) + 1
        /\ c \in 0 .. SlashCount(t) /\ c \in 0 .. SlashCount(f)
    BY WithinFacts
  <1>2. CASE Levels(f)[Len(Levels(f))] = <<"#">>
    <2>1. LevelsMatch(Levels(t), Levels(f), Len(Levels(f)) - 1)
      BY <1>2 DEF Fits, Matching
    <2>2. c + 1 # Len(Levels(f))
      BY <1>2
    <2>3. c + 1 \in 1 .. (Len(Levels(f)) - 1)
      BY <1>1, <2>2
    <2> QED  BY <2>1, <2>3 DEF LevelsMatch
  <1>3. CASE Levels(f)[Len(Levels(f))] # <<"#">>
    <2>1. LevelsMatch(Levels(t), Levels(f), Len(Levels(f)))
      BY <1>3 DEF Fits, Matching
    <2>2. c + 1 \in 1 .. Len(Levels(f))
      BY <1>1
    <2> QED  BY <2>1, <2>2 DEF LevelsMatch
  <1> QED  BY <1>2, <1>3

\* When the level at hand is at its end, or was skipped, it matches.
LEMMA AgreesUpTo ==
  ASSUME NEW t, NEW f, NEW a, NEW b, NEW c, Within(t, f, a, b), Reached(t, f, a, b, c),
         \/ Skipped(t, f, a, b, c)
         \/ Abreast(t, f, a, b, c) /\ Slash(t, c + 1) = a + 1 /\ Slash(f, c + 1) = b + 1
  PROVE  LevelsMatch(Levels(t), Levels(f), c + 1)
  <1>0. /\ c \in 0 .. SlashCount(t) /\ c \in 0 .. SlashCount(f) /\ SlashCount(t) \in Nat
        /\ a \in Nat /\ b \in Nat /\ Slash(t, c) \in 0 .. a /\ Slash(f, c) \in 0 .. b
    <2>1. Len(t) \in Nat /\ Len(f) \in Nat
      BY WithinFacts
    <2>2. a \in Nat /\ b \in Nat
      BY <2>1 DEF Within
    <2> QED  BY <2>2, WithinFacts
  <1>1. LevelsMatch(Levels(t), Levels(f), c)
    BY DEF Reached
  <1>2. Levels(f)[c + 1] = Levels(t)[c + 1] \/ Levels(f)[c + 1] = <<"+">>
    <2>1. CASE Skipped(t, f, a, b, c)
      BY <2>1, SkippedLevel
    <2>2. CASE Abreast(t, f, a, b, c) /\ Slash(t, c + 1) = a + 1 /\ Slash(f, c + 1) = b + 1
      <3>1. PICK p \in Nat, q \in Nat : p = Slash(t, c) /\ q = Slash(f, c)
        BY <1>0
      <3>2. a - p = b - q /\ \A x \in 1 .. (a - p) : t[p + x] = f[q + x]
        BY <2>2, <3>1 DEF Abreast
      <3>3. (a + 1) - p = (b + 1) - q /\ (a + 1) - p - 1 = a - p
        BY <1>0, <3>2
      <3>4. t \in Seq(STRING) /\ f \in Seq(STRING)
        BY DEF Within, IsTopic, IsFilter
      <3>5. Levels(t)[c + 1] = Levels(f)[c + 1]
        <4>1. Slash(t, c + 1) = a + 1 /\ Slash(f, c + 1) = b + 1
          BY <2>2
        <4>2. /\ Slash(t, c + 1) - Slash(t, c) = Slash(f, c + 1) - Slash(f, c)
              /\ \A x \in 1 .. (Slash(t, c + 1) - Slash(t, c) - 1) :
                    t[Slash(t, c) + x] = f[Slash(f, c) + x]
          BY <3>1, <3>2, <3>3, <4>1
        <4> QED  BY <1>0, <3>4, <4>2, EqualLevels
      <3> QED  BY <3>5
    <2> QED  BY <2>1, <2>2
  <1>3. \A k \in 1 .. (c + 1) : k \in 1 .. c \/ k = c + 1
    BY <1>0
  <1> QED  BY <1>1, <1>2, <1>3 DEF LevelsMatch

\* The turns of the loop.
LEMMA LoopBegins ==
  ASSUME NEW t, NEW f, Within(t, f, 0, 0)
  PROVE  Reached(t, f, 0, 0, 0) /\ Abreast(t, f, 0, 0, 0)
  <1>1. /\ CountTo(t, 0) = 0 /\ CountTo(f, 0) = 0 /\ Slash(t, 0) = 0 /\ Slash(f, 0) = 0
    BY CountFacts, SlashFacts DEF Within, IsTopic, IsFilter
  <1> QED  BY <1>1 DEF Reached, Abreast, LevelsMatch

LEMMA LoopAdvances ==
  ASSUME NEW t, NEW f, NEW a, NEW b, NEW c, Within(t, f, a, b), Reached(t, f, a, b, c),
         a < Len(t), b < Len(f), t[a + 1] = f[b + 1]
  PROVE  LET d == CountTo(t, a + 1)
         IN  Reached(t, f, a + 1, b + 1, d) /\ Abreast(t, f, a + 1, b + 1, d)
  <1>0. /\ Len(t) \in Nat /\ Len(f) \in Nat /\ a \in 0 .. Len(t) /\ b \in 0 .. Len(f)
        /\ a \in Nat /\ b \in Nat
        /\ c \in 0 .. SlashCount(t) /\ c \in 0 .. SlashCount(f) /\ SlashCount(t) \in Nat
        /\ Slash(t, c) \in 0 .. a /\ Slash(f, c) \in 0 .. b
        /\ Slash(t, c + 1) = a + 1 => t[a + 1] = "/"
        /\ CountTo(t, a) = c /\ CountTo(f, b) = c /\ LevelsMatch(Levels(t), Levels(f), c)
        /\ t \in Seq(STRING) /\ f \in Seq(STRING)
    <2>1. /\ Len(t) \in Nat /\ Len(f) \in Nat /\ Slash(t, c) \in 0 .. a /\ Slash(f, c) \in 0 .. b
          /\ c \in 0 .. SlashCount(t) /\ c \in 0 .. SlashCount(f) /\ SlashCount(t) \in Nat
          /\ Slash(t, c + 1) <= Len(t) => t[Slash(t, c + 1)] = "/"
      BY WithinFacts
    <2>2. /\ a \in 0 .. Len(t) /\ b \in 0 .. Len(f) /\ t \in Seq(STRING) /\ f \in Seq(STRING)
          /\ CountTo(t, a) = c /\ CountTo(f, b) = c /\ LevelsMatch(Levels(t), Levels(f), c)
      BY DEF Within, Reached, IsTopic, IsFilter
    <2>3. a \in Nat /\ b \in Nat /\ a + 1 <= Len(t)
      BY <2>1, <2>2
    <2>4. Slash(t, c + 1) = a + 1 => t[a + 1] = "/"
      BY <2>1, <2>3
    <2> QED  BY <2>1, <2>2, <2>3, <2>4
  <1>1. /\ CountTo(t, a + 1) = IF t[a + 1] = "/" THEN c + 1 ELSE c
        /\ CountTo(f, b + 1) = IF f[b + 1] = "/" THEN c + 1 ELSE c
    BY <1>0, CountFacts
  <1>2. CASE t[a + 1] # "/"
    <2>1. Abreast(t, f, a, b, c)
      BY <1>0, <1>2 DEF Reached, Skipped
    <2>2. PICK p \in Nat, q \in Nat : p = Slash(t, c) /\ q = Slash(f, c)
      BY <1>0
    <2>3. a - p = b - q /\ \A x \in 1 .. (a - p) : t[p + x] = f[q + x]
      BY <2>1, <2>2 DEF Abreast
    <2>4. /\ (a + 1) - p = (b + 1) - q
          /\ \A x \in 1 .. ((a + 1) - p) : x \in 1 .. (a - p) \/ (p + x = a + 1 /\ q + x = b + 1)
      <3>1. a \in Nat /\ b \in Nat /\ (a + 1) - p = (b + 1) - q
        BY <1>0, <2>2, <2>3
      <3>2. ASSUME NEW x \in 1 .. ((a + 1) - p) PROVE x \in 1 .. (a - p) \/ (p + x = a + 1 /\ q + x = b + 1)
        BY <2>2, <2>3, <3>1
      <3> QED  BY <3>1, <3>2
    <2>5. \A x \in 1 .. ((a + 1) - p) : t[p + x] = f[q + x]
      BY <2>3, <2>4
    <2>6. Abreast(t, f, a + 1, b + 1, c)
      BY <2>2, <2>4, <2>5 DEF Abreast
    <2> QED  BY <1>0, <1>1, <1>2, <2>6 DEF Reached
  <1>3. CASE t[a + 1] = "/"
    <2>1. Slash(t, c + 1) = a + 1 /\ Slash(f, c + 1) = b + 1
      <3>1. t[a + 1] = "/" /\ f[b + 1] = "/"
        BY <1>3
      <3>2. Slash(t, c + 1) = a + 1
        BY <1>0, <3>1, LevelAround
      <3>3. Slash(f, c + 1) = b + 1
        BY <1>0, <3>1, LevelAround
      <3> QED  BY <3>2, <3>3
    <2>2. LevelsMatch(Levels(t), Levels(f), c + 1)
      BY <2>1, AgreesUpTo DEF Reached
    <2>3. Abreast(t, f, a + 1, b + 1, c + 1)
      BY <1>0, <2>1 DEF Abreast
    <2> QED  BY <1>1, <1>3, <2>2, <2>3 DEF Reached
  <1> QED  BY <1>2, <1>3

LEMMA LoopSkips ==
  ASSUME NEW t, NEW f, NEW a, NEW b, NEW c, Within(t, f, a, b), Reached(t, f, a, b, c),
         a < Len(t), b < Len(f), f[b + 1] = "+",
         NEW e \in a .. Len(t), e = Len(t) \/ t[e + 1] = "/",
         \A k \in a .. (e - 1) : t[k + 1] # "/"
  PROVE  LET d == CountTo(t, e)
         IN  Reached(t, f, e, b + 1, d) /\ Skipped(t, f, e, b + 1, d)
  <1>0. /\ Len(t) \in Nat /\ Len(f) \in Nat /\ a \in 0 .. Len(t) /\ b \in 0 .. Len(f)
        /\ a \in Nat /\ b \in Nat /\ e \in Nat
        /\ c \in 0 .. SlashCount(t) /\ SlashCount(t) \in Nat
        /\ Slash(t, c) \in 0 .. a /\ Slash(t, c + 1) \in (a + 1) .. (Len(t) + 1)
        /\ CountTo(t, a) = c /\ CountTo(f, b) = c /\ LevelsMatch(Levels(t), Levels(f), c)
        /\ t \in Seq(STRING) /\ f \in Seq(STRING) /\ Valid(f)
        /\ Slash(t, c + 1) <= Len(t) => t[Slash(t, c + 1)] = "/"
    <2>1. /\ Len(t) \in Nat /\ Len(f) \in Nat /\ Slash(t, c) \in 0 .. a
          /\ Slash(t, c + 1) \in (a + 1) .. (Len(t) + 1)
          /\ c \in 0 .. SlashCount(t) /\ SlashCount(t) \in Nat
          /\ Slash(t, c + 1) <= Len(t) => t[Slash(t, c + 1)] = "/"
      BY WithinFacts
    <2>2. /\ a \in 0 .. Len(t) /\ b \in 0 .. Len(f) /\ t \in Seq(STRING) /\ f \in Seq(STRING)
          /\ CountTo(t, a) = c /\ CountTo(f, b) = c /\ LevelsMatch(Levels(t), Levels(f), c) /\ Valid(f)
      BY DEF Within, Reached, IsTopic, IsFilter
    <2>3. a \in Nat /\ b \in Nat /\ e \in Nat
      BY <2>1, <2>2
    <2> QED  BY <2>1, <2>2, <2>3
  <1>1. CountTo(f, b + 1) = c
    BY <1>0, CountFacts
  <1>2. Slash(f, c) = b
    <2>1. b + 1 \in 1 .. Len(f) /\ "+" \in WildCards
      BY <1>0 DEF WildCards
    <2>2. Slash(f, c) = (b + 1) - 1
      BY <1>0, <1>1, <2>1, WildIsAlone
    <2> QED  BY <1>0, <2>2
  \* The level of the topic ends at e.
  <1>3. CountTo(t, e) = c
    <2>1. ~(Slash(t, c + 1) - 1 \in a .. (e - 1))
      <3>1. (Slash(t, c + 1) - 1) + 1 = Slash(t, c + 1)
        BY <1>0
      <3>2. Slash(t, c + 1) - 1 \in a .. (e - 1) => Slash(t, c + 1) <= Len(t)
        BY <1>0
      <3> QED  BY <1>0, <3>1, <3>2
    <2>2. e <= Slash(t, c + 1) - 1
      BY <1>0, <2>1
    <2>3. e = a \/ e \in (Slash(t, c) + 1) .. (Slash(t, c + 1) - 1)
      BY <1>0, <2>2
    <2> QED  BY <1>0, <2>3, LevelIsClear
  <1>4. Slash(t, c + 1) = e + 1
    <2>1. e \in 0 .. Len(t)
      BY <1>0
    <2> QED  BY <1>0, <1>3, <2>1, LevelAround
  <1>5. Skipped(t, f, e, b + 1, c)
    BY <1>2, <1>4 DEF Skipped
  <1> QED  BY <1>0, <1>1, <1>3, <1>5 DEF Reached

\* The ways out of the loop with a match.
LEMMA CornerFits ==
  ASSUME NEW t, NEW f, NEW b, NEW c, Within(t, f, Len(t), b), Reached(t, f, Len(t), b, c),
         Abreast(t, f, Len(t), b, c), CornerAt(f, b)
  PROVE  Fits(t, f)
  <1>0. /\ Len(t) \in Nat /\ Len(f) \in Nat /\ c = SlashCount(t) /\ SlashCount(t) \in Nat
        /\ Len(Levels(t)) = c + 1 /\ Len(Levels(f)) = SlashCount(f) + 1
        /\ SlashCount(f) \in Nat /\ Slash(t, c + 1) = Len(t) + 1
    BY WithinFacts
  <1>1. /\ f \in Seq(STRING) /\ Valid(f) /\ b \in 0 .. Len(f) /\ CountTo(f, b) = c /\ b \in Nat
        /\ LevelsMatch(Levels(t), Levels(f), c) /\ SlashCount(f) = CountTo(f, Len(f))
    <2>1. /\ f \in Seq(STRING) /\ Valid(f) /\ b \in 0 .. Len(f) /\ CountTo(f, b) = c
          /\ LevelsMatch(Levels(t), Levels(f), c)
      BY DEF Within, Reached, IsFilter
    <2> QED  BY <1>0, <2>1, SlashFacts
  <1>2. CASE b = Len(f) - 2 /\ f[b + 1] = "/" /\ f[b + 2] = "#"
    <2>1. b + 1 \in Nat /\ (b + 1) + 1 = Len(f) /\ f[Len(f)] = "#" /\ Len(f) \in 1 .. Len(f)
      <3>1. (b + 1) + 1 = Len(f) /\ b + 2 = Len(f) /\ Len(f) >= 1
        BY <1>0, <1>1, <1>2
      <3> QED  BY <1>0, <1>1, <1>2, <3>1
    <2>2. CountTo(f, b + 1) = c + 1
      BY <1>1, <1>2, CountFacts
    <2>3. CountTo(f, (b + 1) + 1) = CountTo(f, b + 1)
      BY <2>1, CountFacts
    <2>4. SlashCount(f) = c + 1
      BY <1>1, <2>1, <2>2, <2>3
    <2>5. Levels(f)[SlashCount(f) + 1] = <<"#">>
      BY <1>1, <2>1, WildIsAlone DEF WildCards
    <2>6. Slash(f, c + 1) = b + 1
      BY <1>0, <1>1, <1>2, LevelAround
    <2>7. LevelsMatch(Levels(t), Levels(f), c + 1)
      BY <1>0, <2>6, AgreesUpTo
    <2> QED  BY <1>0, <2>4, <2>5, <2>7 DEF Fits, Matching
  <1>3. CASE b = Len(f) - 1 /\ f[b + 1] = "+"
    <2>1. b + 1 = Len(f) /\ f[Len(f)] = "+" /\ Len(f) \in 1 .. Len(f) /\ "+" # "/"
      <3>1. b + 1 = Len(f) /\ Len(f) >= 1
        BY <1>0, <1>1, <1>3
      <3> QED  BY <1>0, <1>3, <3>1
    <2>2. CountTo(f, b + 1) = c
      BY <1>1, <2>1, CountFacts
    <2>3. SlashCount(f) = c
      BY <1>1, <2>1, <2>2
    <2>4. Levels(f)[c + 1] = <<"+">>
      BY <1>1, <2>1, <2>3, WildIsAlone DEF WildCards
    <2>5. \A k \in 1 .. (c + 1) : k \in 1 .. c \/ k = c + 1
      BY <1>0
    <2>6. LevelsMatch(Levels(t), Levels(f), c + 1)
      BY <1>1, <2>4, <2>5 DEF LevelsMatch
    <2> QED  BY <1>0, <2>3, <2>4, <2>6, WildCardsDiffer DEF Fits, Matching
  <1> QED  BY <1>2, <1>3 DEF CornerAt

LEMMA HashFits ==
  ASSUME NEW t, NEW f, NEW a, NEW b, NEW c, Within(t, f, a, b), Reached(t, f, a, b, c),
         b < Len(f), f[b + 1] = "#"
  PROVE  Fits(t, f)
  <1>0. /\ Len(f) \in Nat /\ SlashCount(t) \in Nat /\ SlashCount(f) \in Nat /\ c \in 0 .. SlashCount(t)
        /\ Len(Levels(t)) = SlashCount(t) + 1 /\ Len(Levels(f)) = SlashCount(f) + 1
    BY WithinFacts
  <1>1. /\ f \in Seq(STRING) /\ Valid(f) /\ b \in 0 .. Len(f) /\ CountTo(f, b) = c
        /\ LevelsMatch(Levels(t), Levels(f), c)
    BY DEF Within, Reached, IsFilter
  <1>2. b \in Nat /\ b + 1 \in 1 .. Len(f)
    BY <1>0, <1>1
  <1>3. CountTo(f, b + 1) = c
    BY <1>1, <1>2, CountFacts
  <1>4. SlashCount(f) = c /\ Levels(f)[c + 1] = <<"#">>
    BY <1>1, <1>2, <1>3, WildIsAlone DEF WildCards
  <1> QED  BY <1>0, <1>1, <1>4 DEF Fits, Matching

LEMMA BothEndsFit ==
  ASSUME NEW t, NEW f, NEW c, Within(t, f, Len(t), Len(f)), Reached(t, f, Len(t), Len(f), c)
  PROVE  Fits(t, f)
  <1>0. /\ Len(t) \in Nat /\ Len(f) \in Nat /\ c = SlashCount(t) /\ c = SlashCount(f) /\ c \in Nat
        /\ Len(Levels(t)) = c + 1 /\ Len(Levels(f)) = c + 1
        /\ Slash(t, c + 1) = Len(t) + 1 /\ Slash(f, c + 1) = Len(f) + 1
    BY WithinFacts
  <1>1. LevelsMatch(Levels(t), Levels(f), c + 1)
    BY <1>0, AgreesUpTo DEF Reached
  <1>2. Levels(f)[c + 1] # <<"#">>
    <2>1. CASE Skipped(t, f, Len(t), Len(f), c)
      BY <2>1, SkippedLevel, WildCardsDiffer
    <2>2. CASE Abreast(t, f, Len(t), Len(f), c)
      <3>1. Levels(f)[c + 1] = <<"#">> => Slash(f, c + 1) = Len(f) + 2
        BY <2>2, WildAhead DEF WildCards
      <3>2. Len(f) + 1 # Len(f) + 2
        BY <1>0
      <3> QED  BY <1>0, <3>1, <3>2
    <2> QED  BY <2>1, <2>2 DEF Reached
  <1> QED  BY <1>0, <1>1, <1>2 DEF Fits, Matching

\* The ways out of the loop without one.
LEMMA MismatchFits ==
  ASSUME NEW t, NEW f, NEW a, NEW b, NEW c, Within(t, f, a, b), Reached(t, f, a, b, c),
         a < Len(t), b < Len(f), t[a + 1] # f[b + 1], f[b + 1] \notin WildCards, Fits(t, f)
  PROVE  FALSE
  <1>0. /\ Len(t) \in Nat /\ Len(f) \in Nat /\ c \in 0 .. SlashCount(t) /\ c \in 0 .. SlashCount(f)
        /\ Slash(t, c) \in 0 .. a /\ Slash(f, c) \in 0 .. b
        /\ Slash(t, c + 1) \in (a + 1) .. (Len(t) + 1) /\ Slash(f, c + 1) \in (b + 1) .. (Len(f) + 1)
        /\ Slash(t, c + 1) <= Len(t) => t[Slash(t, c + 1)] = "/"
        /\ Slash(f, c + 1) <= Len(f) => f[Slash(f, c + 1)] = "/"
    BY WithinFacts
  <1>1. /\ a \in 0 .. Len(t) /\ b \in 0 .. Len(f) /\ t \in Seq(STRING) /\ f \in Seq(STRING)
    BY DEF Within, IsTopic, IsFilter
  <1>2. a \in Nat /\ b \in Nat /\ a + 1 <= Len(t) /\ b + 1 <= Len(f)
    BY <1>0, <1>1
  <1>3. ~(Slash(t, c + 1) = a + 1 /\ Slash(f, c + 1) = b + 1)
    BY <1>0, <1>2
  <1>4. CASE Skipped(t, f, a, b, c)
    <2>1. Slash(f, c + 1) = b + 1 /\ Slash(t, c + 1) = a + 1
      BY <1>4, SkippedLevel DEF Skipped
    <2> QED  BY <1>3, <2>1
  <1>5. CASE Abreast(t, f, a, b, c)
    <2>1. Levels(f)[c + 1] # <<"+">> /\ Levels(f)[c + 1] # <<"#">>
      BY <1>5, WildAhead DEF WildCards
    <2>2. Levels(t)[c + 1] = Levels(f)[c + 1]
      BY <2>1, MustMatch
    <2>3. /\ Slash(t, c + 1) - Slash(t, c) = Slash(f, c + 1) - Slash(f, c)
          /\ \A x \in 1 .. (Slash(t, c + 1) - Slash(t, c) - 1) :
                t[Slash(t, c) + x] = f[Slash(f, c) + x]
      BY <1>0, <1>1, <2>2, EqualLevels
    <2>4. PICK p \in Nat, q \in Nat : p = Slash(t, c) /\ q = Slash(f, c)
      BY <1>0, <1>2
    <2>5. PICK r \in Nat, s \in Nat : r = Slash(t, c + 1) /\ s = Slash(f, c + 1)
      BY <1>0, <1>2
    <2>6. a - p = b - q /\ r - p = s - q /\ r >= a + 1 /\ s >= b + 1 /\ p <= a
      BY <1>0, <1>2, <1>5, <2>3, <2>4, <2>5 DEF Abreast
    <2>7. r # a + 1
      <3>1. r = a + 1 => s = b + 1
        BY <1>2, <2>4, <2>5, <2>6
      <3> QED  BY <1>3, <2>5, <3>1
    <2>8. /\ a + 1 - p \in 1 .. (r - p - 1) /\ p + (a + 1 - p) = a + 1 /\ q + (a + 1 - p) = b + 1
      <3>1. r > a + 1
        BY <1>2, <2>5, <2>6, <2>7
      <3>2. a + 1 - p \in 1 .. (r - p - 1)
        <4>1. p <= a /\ a + 1 < r /\ a \in Nat /\ p \in Nat /\ r \in Nat
          BY <1>2, <2>4, <2>5, <2>6, <3>1
        <4> QED  BY ONLY <4>1
      <3>3. p + (a + 1 - p) = a + 1 /\ q + (a + 1 - p) = b + 1
        BY <1>2, <2>4, <2>6
      <3> QED  BY <3>2, <3>3
    <2>9. \A x \in 1 .. (r - p - 1) : t[p + x] = f[q + x]
      BY <2>3, <2>4, <2>5
    <2>10. t[p + (a + 1 - p)] = f[q + (a + 1 - p)]
      BY <2>8, <2>9
    <2> QED  BY <2>8, <2>10
  <1> QED  BY <1>4, <1>5 DEF Reached

LEMMA FilterEnds ==
  ASSUME NEW t, NEW f, NEW a, NEW c, Within(t, f, a, Len(f)), Reached(t, f, a, Len(f), c),
         a < Len(t), Fits(t, f)
  PROVE  FALSE
  <1>0. /\ Len(t) \in Nat /\ Len(f) \in Nat /\ c \in 0 .. SlashCount(t) /\ c = SlashCount(f) /\ c \in Nat
        /\ Len(Levels(t)) = SlashCount(t) + 1 /\ Len(Levels(f)) = c + 1 /\ SlashCount(t) \in Nat
        /\ Slash(t, c) \in 0 .. a /\ Slash(f, c) \in 0 .. Len(f)
        /\ Slash(f, c + 1) = Len(f) + 1
        /\ c = SlashCount(t) => Slash(t, c + 1) = Len(t) + 1
    BY WithinFacts
  <1>1. a \in 0 .. Len(t) /\ t \in Seq(STRING) /\ f \in Seq(STRING)
    BY DEF Within, IsTopic, IsFilter
  <1>2. Len(f) + 1 # Len(f) + 2
    BY <1>0
  <1>3. Levels(f)[c + 1] # <<"#">>
    <2>1. CASE Skipped(t, f, a, Len(f), c)
      BY <2>1, SkippedLevel, WildCardsDiffer
    <2>2. CASE Abreast(t, f, a, Len(f), c)
      BY <1>0, <1>2, <2>2, WildAhead DEF WildCards
    <2> QED  BY <2>1, <2>2 DEF Reached
  <1>4. c = SlashCount(t) /\ Slash(t, c + 1) = Len(t) + 1
    <2>1. Len(Levels(t)) = Len(Levels(f))
      BY <1>0, <1>3 DEF Fits, Matching
    <2> QED  BY <1>0, <2>1
  <1>5. Slash(t, c + 1) = a + 1
    <2>1. CASE Skipped(t, f, a, Len(f), c)
      BY <2>1 DEF Skipped
    <2>2. CASE Abreast(t, f, a, Len(f), c)
      <3>1. Levels(f)[c + 1] # <<"+">>
        BY <1>0, <1>2, <2>2, WildAhead DEF WildCards
      <3>2. Levels(t)[c + 1] = Levels(f)[c + 1]
        BY <1>3, <3>1, MustMatch
      <3>3. Slash(t, c + 1) - Slash(t, c) = Slash(f, c + 1) - Slash(f, c)
        BY <1>0, <1>1, <3>2, EqualLevels
      <3>4. a - Slash(t, c) = Len(f) - Slash(f, c)
        BY <2>2 DEF Abreast
      <3> QED  BY <1>0, <1>1, <1>4, <3>3, <3>4
    <2> QED  BY <2>1, <2>2 DEF Reached
  <1> QED  BY <1>0, <1>1, <1>4, <1>5

\* A filter that matches goes on behind the last level of the topic with '#' only.
LEMMA OnlyHashIsLeft ==
  ASSUME NEW t, NEW f, NEW b, NEW c, Within(t, f, Len(t), b), Reached(t, f, Len(t), b, c),
         c < SlashCount(f), Fits(t, f)
  PROVE  /\ SlashCount(f) = c + 1 /\ Levels(f)[c + 2] = <<"#">>
         /\ HashIsParent(Levels(t), Levels(f)) /\ Len(Levels(f)) - 1 = c + 1
  <1>0. /\ c = SlashCount(t) /\ SlashCount(t) \in Nat /\ SlashCount(f) \in Nat
        /\ Len(Levels(t)) = c + 1 /\ Len(Levels(f)) = SlashCount(f) + 1
    BY WithinFacts
  <1>1. Levels(f)[Len(Levels(f))] = <<"#">> /\ Len(Levels(t)) >= Len(Levels(f)) - 1
    <2>1. Len(Levels(t)) # Len(Levels(f))
      BY <1>0
    <2> QED  BY <2>1 DEF Fits, Matching
  <1>2. SlashCount(f) = c + 1
    BY <1>0, <1>1
  <1>3. Len(Levels(f)) = c + 2 /\ Len(Levels(t)) = Len(Levels(f)) - 1 /\ Len(Levels(f)) - 1 = c + 1
    BY <1>0, <1>2
  <1> QED  BY <1>1, <1>2, <1>3 DEF HashIsParent

LEMMA TopicEnds ==
  ASSUME NEW t, NEW f, NEW b, NEW c, Within(t, f, Len(t), b), Reached(t, f, Len(t), b, c),
         b < Len(f), Abreast(t, f, Len(t), b, c) => ~CornerAt(f, b), Fits(t, f)
  PROVE  Excepted(t, f)
  <1>0. /\ Len(t) \in Nat /\ Len(f) \in Nat /\ c = SlashCount(t) /\ c \in 0 .. SlashCount(f)
        /\ c \in Nat /\ SlashCount(f) \in Nat
        /\ Len(Levels(t)) = c + 1 /\ Len(Levels(f)) = SlashCount(f) + 1
        /\ Slash(t, c) \in 0 .. Len(t) /\ Slash(f, c) \in 0 .. b
        /\ Slash(t, c + 1) = Len(t) + 1
        /\ c = SlashCount(f) => Slash(f, c + 1) = Len(f) + 1
        /\ Slash(f, c + 1) = Len(f) + 1 => c = SlashCount(f)
        /\ Slash(f, c + 1) <= Len(f) => f[Slash(f, c + 1)] = "/"
    BY WithinFacts
  <1>1. b \in 0 .. Len(f) /\ b \in Nat /\ t \in Seq(STRING) /\ f \in Seq(STRING)
    <2>1. b \in 0 .. Len(f) /\ t \in Seq(STRING) /\ f \in Seq(STRING)
      BY DEF Within, IsTopic, IsFilter
    <2> QED  BY <1>0, <2>1
  <1>2. ASSUME Levels(f)[c + 1] = <<"+">>, c < SlashCount(f) PROVE Excepted(t, f)
    BY <1>2, OnlyHashIsLeft DEF Excepted
  <1>3. CASE Skipped(t, f, Len(t), b, c)
    <2>1. Levels(f)[c + 1] = <<"+">> /\ Slash(f, c + 1) = b + 1
      BY <1>3, SkippedLevel
    <2>2. c # SlashCount(f)
      BY <1>0, <1>1, <2>1
    <2> QED  BY <1>0, <1>2, <2>1, <2>2
  <1>4. CASE Abreast(t, f, Len(t), b, c)
    <2>1. CASE Levels(f)[c + 1] = <<"#">>
      <3>1. Slash(f, c) = b /\ Slash(t, c) = Len(t) /\ f[b + 1] = "#" /\ Slash(f, c + 1) = b + 2
        BY <1>4, <2>1, WildAhead DEF WildCards
      <3>2. c = SlashCount(f)
        <4>1. b + 1 \in 1 .. Len(f) /\ CountTo(f, b + 1) = c /\ Valid(f)
          <5>1. CountTo(f, b) = c /\ Valid(f)
            BY DEF Reached, Within, IsFilter
          <5>2. b + 1 \in 1 .. Len(f)
            BY <1>0, <1>1
          <5>3. CountTo(f, b + 1) = c
            BY <1>1, <3>1, <5>1, CountFacts
          <5> QED  BY <5>1, <5>2, <5>3
        <4> QED  BY <1>1, <3>1, <4>1, WildIsAlone
      <3>3. Len(Levels(t)[c + 1]) = 0 /\ Levels(t)[c + 1] \in Seq(STRING)
        <4>1. Len(Levels(t)[c + 1]) = Slash(t, c + 1) - Slash(t, c) - 1 /\ Levels(t)[c + 1] \in Seq(STRING)
          <5>1. c \in 0 .. SlashCount(t)
            BY <1>0
          <5> QED  BY <1>1, <5>1, LevelFacts
        <4> QED  BY <1>0, <3>1, <4>1
      <3>4. Levels(t)[c + 1] = << >>
        BY ONLY <3>3
      <3> QED  BY <1>0, <2>1, <3>2, <3>4 DEF Excepted, HashIsEmptyLevel
    <2>2. CASE Levels(f)[c + 1] = <<"+">>
      <3>1. f[b + 1] = "+" /\ Slash(f, c + 1) = b + 2
        BY <1>4, <2>2, WildAhead DEF WildCards
      <3>2. b # Len(f) - 1
        BY <1>4, <3>1 DEF CornerAt
      <3>3. c # SlashCount(f)
        BY <1>0, <1>1, <3>1, <3>2
      <3> QED  BY <1>0, <1>2, <2>2, <3>3
    <2>3. CASE Levels(f)[c + 1] # <<"#">> /\ Levels(f)[c + 1] # <<"+">>
      <3>1. Levels(t)[c + 1] = Levels(f)[c + 1]
        BY <2>3, MustMatch
      <3>2. Slash(t, c + 1) - Slash(t, c) = Slash(f, c + 1) - Slash(f, c)
        BY <1>0, <1>1, <3>1, EqualLevels
      <3>3. Len(t) - Slash(t, c) = b - Slash(f, c)
        BY <1>4 DEF Abreast
      <3>4. Slash(f, c + 1) \in Int
        BY <1>0, <1>1, LevelIsClear
      <3>5. Slash(f, c + 1) = b + 1
        BY <1>0, <1>1, <3>2, <3>3, <3>4
      <3>6. c < SlashCount(f) /\ f[b + 1] = "/"
        BY <1>0, <1>1, <3>5
      <3>7. SlashCount(f) = c + 1 /\ Levels(f)[(c + 1) + 1] = <<"#">>
        BY <1>0, <3>6, OnlyHashIsLeft
      <3>8. Slash(f, (c + 1) + 1) = Slash(f, c + 1) + 2 /\ f[Slash(f, c + 1) + 1] = "#"
        <4>1. c + 1 \in 0 .. SlashCount(f)
          BY <1>0, <3>7
        <4> QED  BY <1>1, <3>7, <4>1, LevelIsOneCharacter
      <3>9. Slash(f, (c + 1) + 1) = Len(f) + 1
        BY <1>1, <3>7, SlashFacts
      <3>10. b = Len(f) - 2 /\ f[b + 2] = "#"
        BY <1>0, <1>1, <3>5, <3>8, <3>9
      <3> QED  BY <1>4, <3>6, <3>10 DEF CornerAt
    <2> QED  BY <2>1, <2>2, <2>3
  <1> QED  BY <1>3, <1>4 DEF Reached

-----------------------------------------------------------------------------
(* The verdict.                                                             *)

\* The loop is on its way, and has left no corner case out.
OnTrack(t, f, a, b) ==
    LET c == CountTo(t, a)
    IN  /\ Reached(t, f, a, b, c)
        /\ a = Len(t) /\ Abreast(t, f, a, b, c) => ~CornerAt(f, b)

\* A verdict that is right but for the exceptions.
Right(t, f, verdict) == (verdict => Fits(t, f)) /\ (Fits(t, f) => verdict \/ Excepted(t, f))

\* The loop is on its way, and its verdict is right when it has left.
VerdictInv ==
    /\ MatchTypeOK
    /\ IF matchPc = "classify" THEN i = 0 /\ j = 0 ELSE kind = FilterType(filter)
    /\ matchPc \in {"loop", "decide"} => kind = "WildCard"
    /\ matchPc \in {"classify", "loop"} => ~matches
    /\ matchPc = "loop" => OnTrack(topic, filter, i, j)
    /\ matchPc = "decide" => Right(topic, filter, matches \/ BothConsumed)
    /\ matchPc = "done" => IF kind = "WildCard" THEN Right(topic, filter, matches) ELSE ~matches

\* What the assumptions say of the topic and the filter at hand.
LEMMA StringsAreRight ==
  ASSUME MatchTypeOK
  PROVE  /\ IsTopic(topic) /\ filter \in Seq(STRING) /\ filter # << >>
         /\ Len(topic) \in Nat \ {0} /\ Len(filter) \in Nat \ {0}
         /\ FilterType(filter) = "WildCard" => Within(topic, filter, i, j)
  <1>1. IsTopic(topic) /\ filter \in Seq(STRING) /\ filter # << >>
    BY TopicStringsAssumption, FilterStringsAssumption DEF MatchTypeOK, IsTopic
  <1>2. Len(topic) \in Nat \ {0} /\ Len(filter) \in Nat \ {0}
    BY <1>1 DEF IsTopic
  <1>3. FilterType(filter) = "WildCard" => Valid(filter)
    BY DEF FilterType, Valid
  <1> QED  BY <1>1, <1>2, <1>3 DEF Within, IsFilter, MatchTypeOK

LEMMA LoopVerdict ==
  ASSUME VerdictInv, matchPc = "loop",
         Match \/ Advance \/ SkipLevel \/ MatchRest \/ Mismatch \/ LeaveLoop, MatchTypeOK'
  PROVE  VerdictInv'
  <1> DEFINE c == CountTo(topic, i)
  <1>0. /\ MatchTypeOK /\ kind = "WildCard" /\ kind = FilterType(filter) /\ ~matches
        /\ topic' = topic /\ filter' = filter /\ kind' = kind
        /\ Reached(topic, filter, i, j, c)
        /\ i = Len(topic) /\ Abreast(topic, filter, i, j, c) => ~CornerAt(filter, j)
    BY DEF VerdictInv, OnTrack, Match, Advance, SkipLevel, MatchRest, Mismatch, LeaveLoop
  <1>1. /\ Within(topic, filter, i, j) /\ Len(topic) \in Nat \ {0} /\ Len(filter) \in Nat \ {0}
        /\ i \in 0 .. Len(topic) /\ j \in 0 .. Len(filter)
    BY <1>0, StringsAreRight DEF MatchTypeOK
  <1> HIDE DEF c
  <1>2. ASSUME matchPc' = "loop", ~matches', OnTrack(topic, filter, i', j') PROVE VerdictInv'
    BY <1>0, <1>2 DEF VerdictInv
  <1>3. ASSUME matchPc' = "decide", i' = i, j' = j,
               Right(topic, filter, matches' \/ BothConsumed)
        PROVE  VerdictInv'
    <2>1. BothConsumed' = BothConsumed
      BY <1>0, <1>3 DEF BothConsumed
    <2> QED  BY <1>0, <1>3, <2>1 DEF VerdictInv
  \* When the characters at hand are the same, both are consumed.
  <1>4. ASSUME InLoop, Equal
        PROVE  LET d == CountTo(topic, i + 1)
               IN  /\ Reached(topic, filter, i + 1, j + 1, d) /\ Abreast(topic, filter, i + 1, j + 1, d)
                   /\ Within(topic, filter, i + 1, j + 1)
    <2>1. i < Len(topic) /\ j < Len(filter) /\ topic[i + 1] = filter[j + 1]
      BY <1>4 DEF InLoop, Equal
    <2>2. Within(topic, filter, i + 1, j + 1)
      BY <1>1, <2>1 DEF Within
    <2> QED  BY <1>0, <1>1, <2>1, <2>2, LoopAdvances
  <1>5. ParentLevel \/ EmptyLastLevel <=> i + 1 = Len(topic) /\ CornerAt(filter, j + 1)
    <2>1. /\ i = Len(topic) - 1 <=> i + 1 = Len(topic)
          /\ j = Len(filter) - 3 <=> j + 1 = Len(filter) - 2
          /\ j = Len(filter) - 2 <=> j + 1 = Len(filter) - 1
          /\ (j + 1) + 1 = j + 2 /\ (j + 1) + 2 = j + 3
      BY <1>1
    <2> QED  BY <2>1 DEF ParentLevel, EmptyLastLevel, CornerAt
  <1>6. CASE Match
    <2>1. InLoop /\ Equal /\ matches' /\ matchPc' = "decide" /\ i' = i /\ j' = j
      BY <1>6 DEF Match
    <2>2. i + 1 = Len(topic) /\ CornerAt(filter, j + 1)
      BY <1>5, <1>6 DEF Match
    <2>3. Fits(topic, filter)
      BY <1>4, <2>1, <2>2, CornerFits
    <2> QED  BY <1>3, <2>1, <2>3 DEF Right
  <1>7. CASE Advance
    <2>1. InLoop /\ Equal /\ matchPc' = "loop" /\ matches' = matches /\ i' = i + 1 /\ j' = j + 1
      BY <1>7 DEF Advance, InLoop
    <2>2. ~(i + 1 = Len(topic) /\ CornerAt(filter, j + 1))
      BY <1>5, <1>7 DEF Advance
    <2>3. OnTrack(topic, filter, i + 1, j + 1)
      BY <1>4, <2>1, <2>2 DEF OnTrack
    <2> QED  BY <1>0, <1>2, <2>1, <2>3
  <1>8. CASE SkipLevel
    <2>1. /\ i < Len(topic) /\ j < Len(filter) /\ filter[j + 1] = "+" /\ matchPc' = "loop"
          /\ matches' = matches /\ i' = LevelEnd /\ j' = j + 1
      BY <1>8 DEF SkipLevel, InLoop, NextFilterIndex
    <2>2. /\ LevelEnd \in i .. Len(topic)
          /\ LevelEnd = Len(topic) \/ topic[LevelEnd + 1] = "/"
          /\ \A k \in i .. (LevelEnd - 1) : topic[k + 1] # "/"
      BY <1>0, <2>1, LevelEndIsInTopic
    <2>3. PICK e \in i .. Len(topic) : e = LevelEnd
      BY <2>2
    <2>4. LET d == CountTo(topic, e)
          IN  Reached(topic, filter, e, j + 1, d) /\ Skipped(topic, filter, e, j + 1, d)
      BY <1>0, <1>1, <2>1, <2>2, <2>3, LoopSkips
    <2>5. ~Abreast(topic, filter, e, j + 1, CountTo(topic, e))
      <3> DEFINE d == CountTo(topic, e)
      <3>1. /\ Reached(topic, filter, e, j + 1, d) /\ Skipped(topic, filter, e, j + 1, d)
            /\ Within(topic, filter, e, j + 1)
        <4>1. e \in 0 .. Len(topic) /\ j + 1 \in 0 .. Len(filter)
          BY <1>1, <2>1
        <4> QED  BY <1>1, <2>4, <4>1 DEF Within
      <3> HIDE DEF d
      <3>2. Levels(filter)[d + 1] = <<"+">> /\ Slash(filter, d + 1) = (j + 1) + 1
        BY <3>1, SkippedLevel
      <3>3. Abreast(topic, filter, e, j + 1, d) => Slash(filter, d + 1) = (j + 1) + 2
        BY <3>1, <3>2, WildAhead DEF WildCards
      <3>4. (j + 1) + 1 # (j + 1) + 2
        BY <1>1
      <3> QED  BY <3>2, <3>3, <3>4 DEF d
    <2> QED  BY <1>0, <1>2, <2>1, <2>3, <2>4, <2>5 DEF OnTrack
  <1>9. CASE MatchRest
    <2>1. /\ j < Len(filter) /\ filter[j + 1] = "#" /\ matches' /\ matchPc' = "decide"
          /\ i' = i /\ j' = j
      BY <1>9 DEF MatchRest, InLoop
    <2>2. Fits(topic, filter)
      BY <1>0, <1>1, <2>1, HashFits
    <2> QED  BY <1>3, <2>1, <2>2 DEF Right
  <1>10. CASE Mismatch
    <2>1. /\ i < Len(topic) /\ j < Len(filter) /\ topic[i + 1] # filter[j + 1]
          /\ filter[j + 1] \notin WildCards
          /\ matchPc' = "decide" /\ i' = i /\ j' = j /\ matches' = matches
      BY <1>10 DEF Mismatch, InLoop, Equal
    <2>2. ~Fits(topic, filter)
      BY <1>0, <1>1, <2>1, MismatchFits
    <2>3. ~BothConsumed
      BY <1>1, <2>1 DEF BothConsumed
    <2> QED  BY <1>0, <1>3, <2>1, <2>2, <2>3 DEF Right
  <1>11. CASE LeaveLoop
    <2>1. /\ ~(i < Len(topic) /\ j < Len(filter))
          /\ matchPc' = "decide" /\ i' = i /\ j' = j /\ matches' = matches
      BY <1>11 DEF LeaveLoop, InLoop
    <2>2. CASE i = Len(topic) /\ j = Len(filter)
      <3>1. BothConsumed
        BY <1>1, <2>2 DEF BothConsumed
      <3>2. Fits(topic, filter)
        BY <1>0, <1>1, <2>2, BothEndsFit
      <3> QED  BY <1>3, <2>1, <3>1, <3>2 DEF Right
    <2>3. CASE i = Len(topic) /\ j < Len(filter)
      <3>1. ~BothConsumed
        BY <1>1, <2>3 DEF BothConsumed
      <3>2. Fits(topic, filter) => Excepted(topic, filter)
        BY <1>0, <1>1, <2>3, TopicEnds
      <3> QED  BY <1>0, <1>3, <2>1, <3>1, <3>2 DEF Right
    <2>4. CASE i < Len(topic) /\ j = Len(filter)
      <3>1. ~BothConsumed
        BY <1>1, <2>4 DEF BothConsumed
      <3>2. ~Fits(topic, filter)
        BY <1>0, <1>1, <2>4, FilterEnds
      <3> QED  BY <1>0, <1>3, <2>1, <3>1, <3>2 DEF Right
    <2> QED  BY <1>1, <2>1, <2>2, <2>3, <2>4
  <1> QED  BY <1>6, <1>7, <1>8, <1>9, <1>10, <1>11

LEMMA VerdictInit == MatchInit /\ MatchTypeOK => VerdictInv
BY DEF MatchInit, VerdictInv

LEMMA VerdictStep == VerdictInv /\ MatchTypeOK' /\ [MatchNext]_matchVars => VerdictInv'
  <1> SUFFICES ASSUME VerdictInv, MatchTypeOK', [MatchNext]_matchVars PROVE VerdictInv'
    OBVIOUS
  <1>1. CASE Classify
    <2>1. /\ matchPc = "classify" /\ kind' = FilterType(filter) /\ i = 0 /\ j = 0 /\ ~matches
          /\ matchPc' = IF kind' = "WildCard" THEN "loop" ELSE "done"
          /\ topic' = topic /\ filter' = filter /\ i' = 0 /\ j' = 0 /\ matches' = matches
          /\ MatchTypeOK
      BY <1>1 DEF Classify, VerdictInv
    <2>2. ASSUME kind' = "WildCard" PROVE OnTrack(topic, filter, 0, 0)
      <3>1. Within(topic, filter, 0, 0) /\ Len(topic) # 0
        BY <2>1, <2>2, StringsAreRight
      <3>2. CountTo(topic, 0) = 0
        BY CountFacts
      <3> QED  BY <3>1, <3>2, LoopBegins DEF OnTrack
    <2> QED  BY <2>1, <2>2 DEF VerdictInv
  <1>2. CASE Match \/ Advance \/ SkipLevel \/ MatchRest \/ Mismatch \/ LeaveLoop
    <2>1. matchPc = "loop"
      BY <1>2 DEF Match, Advance, SkipLevel, MatchRest, Mismatch, LeaveLoop, InLoop
    <2> QED  BY <1>2, <2>1, LoopVerdict
  <1>3. CASE Decide
    <2>1. /\ matchPc = "decide" /\ matchPc' = "done" /\ matches' = (matches \/ BothConsumed)
          /\ topic' = topic /\ filter' = filter /\ kind' = kind
          /\ kind = "WildCard" /\ kind = FilterType(filter)
          /\ Right(topic, filter, matches \/ BothConsumed)
      BY <1>3 DEF Decide, VerdictInv
    <2> QED  BY <2>1 DEF VerdictInv
  <1>4. CASE UNCHANGED matchVars
    <2>1. UNCHANGED <<topic, filter, matchPc, kind, i, j, matches>>
      BY <1>4 DEF matchVars
    <2>2. BothConsumed' = BothConsumed
      BY <2>1 DEF BothConsumed
    <2> QED  BY <2>1, <2>2 DEF VerdictInv
  <1> QED  BY <1>1, <1>2, <1>3, <1>4 DEF MatchNext

LEMMA VerdictIsRight == VerdictInv => FiltersMeanWhatTheySay
  <1> SUFFICES ASSUME VerdictInv PROVE FiltersMeanWhatTheySay
    OBVIOUS
  <1>1. /\ filter \in Seq(STRING) /\ matches \in BOOLEAN
        /\ matchPc # "classify" => kind = FilterType(filter)
    BY StringsAreRight DEF VerdictInv, MatchTypeOK
  <1>2. KindIsRight
    <2>1. FilterType(filter) = "Invalid" <=> ~Valid(filter)
      <3>1. \A x : IsMisplaced(filter, x) => filter[x] \in WildCards
        BY DEF IsMisplaced, WildCards
      <3> QED  BY <3>1 DEF FilterType, Valid
    <2>2. FilterType(filter) = "Simple" <=> \A x \in 1 .. Len(filter) : filter[x] \notin WildCards
      <3>1. \A x : IsMisplaced(filter, x) => filter[x] \in WildCards
        BY DEF IsMisplaced, WildCards
      <3> QED  BY <3>1 DEF FilterType
    <2> QED  BY <1>1, <2>1, <2>2, ValidLevels DEF KindIsRight
  <1>3. MatchIsSound
    BY DEF MatchIsSound, VerdictInv, Right, Fits
  <1>4. MatchIsComplete
    BY DEF MatchIsComplete, VerdictInv, Right, Fits, Excepted
  <1> QED  BY <1>2, <1>3, <1>4 DEF FiltersMeanWhatTheySay

\* The two algorithms decide what a filter means, for strings of any length: a filter is
\* refused exactly if a wild-card is not a level of its own or '#' is not the last, no
\* topic is matched that does not fit, and one that fits is missed only in the two
\* corner cases the code leaves out.
THEOREM VerdictsAreRight == MatchSpec => []FiltersMeanWhatTheySay
<1>1. MatchInit => MatchTypeOK /\ VerdictInv
  BY MatchTypeInit, VerdictInit
<1>2. MatchTypeOK /\ VerdictInv /\ [MatchNext]_matchVars => MatchTypeOK' /\ VerdictInv'
  BY MatchTypeStep, VerdictStep
<1>3. VerdictInv => FiltersMeanWhatTheySay
  BY VerdictIsRight
<1> QED  BY <1>1, <1>2, <1>3, PTL DEF MatchSpec

-----------------------------------------------------------------------------
(***************************************************************************)
(* BufferPool, for any number of tasks and buffers.                        *)
(***************************************************************************)

\* Typing: the variables keep their types and a scan never runs past the pool.
THEOREM PoolTypeCorrect == PoolSpec => []PoolTypeOK
  <1> USE SizesAssumption, LengthsAssumption DEF Buffers, NULL, IsFree, IndexAfter
  <1>1. PoolInit => PoolTypeOK
    BY DEF PoolInit, PoolTypeOK
  <1>2. PoolTypeOK /\ [PoolNext]_poolVars => PoolTypeOK'
    <2> SUFFICES ASSUME PoolTypeOK, [PoolNext]_poolVars PROVE PoolTypeOK'
      OBVIOUS
    <2> USE DEF PoolTypeOK
    <2>1. ASSUME NEW t \in Tasks, NEW len \in Lengths, GetFreeBuffer(t, len)
          PROVE  PoolTypeOK'
      <3>1. CASE len <= BUFFER_SIZE
        <4>1. 1 \in 1 .. (NUM_BUFFERS + 1)
          OBVIOUS
        <4>2. index' \in [Tasks -> 1 .. (NUM_BUFFERS + 1)]
          <5>1. index' = [index EXCEPT ![t] = 1]
            BY <2>1, <3>1 DEF GetFreeBuffer
          <5> QED
            BY <4>1, <5>1
        <4> QED
          BY <2>1, <3>1, <4>2 DEF GetFreeBuffer
      <3>2. CASE ~(len <= BUFFER_SIZE)
        BY <2>1, <3>2 DEF GetFreeBuffer
      <3> QED
        BY <3>1, <3>2
    <2>2. ASSUME NEW t \in Tasks, Take(t) PROVE PoolTypeOK'
      <3>1. sawFull' \in [Tasks -> BOOLEAN]
        BY <2>2 DEF Take, Observe
      <3>2. index[t] \in Buffers
        BY <2>2 DEF Take
      <3> QED
        BY <2>2, <3>1, <3>2 DEF Take
    <2>3. ASSUME NEW t \in Tasks, Skip(t) PROVE PoolTypeOK'
      BY <2>3 DEF Skip
    <2>4. ASSUME NEW t \in Tasks, Fail(t) PROVE PoolTypeOK'
      BY <2>4 DEF Fail
    <2>5. ASSUME NEW t \in Tasks, NEW b \in Buffers, Return(t, b) PROVE PoolTypeOK'
      BY <2>5 DEF Return, ReturnBuffer
    <2>6. ASSUME NEW t \in Tasks, NEW u \in Tasks, NEW b \in Buffers,
                 HandOver(t, u, b)
          PROVE  PoolTypeOK'
      BY <2>6 DEF HandOver
    <2>7. CASE UNCHANGED poolVars
      BY <2>7 DEF poolVars
    <2> QED
      BY <2>1, <2>2, <2>3, <2>4, <2>5, <2>6, <2>7 DEF PoolNext
  <1> QED
    BY <1>1, <1>2, PTL DEF PoolSpec

\* No leak and no double use: a buffer is marked exactly while a task holds it.
THEOREM MarksAreExact == PoolSpec => []InUseIffHeld
  <1> USE SizesAssumption, TasksAssumption DEF Buffers, NULL, InUseIffHeld, IsFree
  <1>1. PoolInit => InUseIffHeld
    BY DEF PoolInit
  <1>2. PoolTypeOK /\ InUseIffHeld /\ [PoolNext]_poolVars => InUseIffHeld'
    <2> SUFFICES ASSUME PoolTypeOK, InUseIffHeld, [PoolNext]_poolVars PROVE InUseIffHeld'
      OBVIOUS
    <2> USE DEF PoolTypeOK
    <2>1. ASSUME NEW t \in Tasks, NEW len \in Lengths, GetFreeBuffer(t, len)
          PROVE  InUseIffHeld'
      BY <2>1 DEF GetFreeBuffer
    <2>2. ASSUME NEW t \in Tasks, Take(t) PROVE InUseIffHeld'
      BY <2>2 DEF Take
    <2>3. ASSUME NEW t \in Tasks, Skip(t) \/ Fail(t) PROVE InUseIffHeld'
      BY <2>3 DEF Skip, Fail
    <2>4. ASSUME NEW t \in Tasks, NEW b \in Buffers, Return(t, b)
          PROVE  InUseIffHeld'
      BY <2>4 DEF Return, ReturnBuffer
    <2>5. ASSUME NEW t \in Tasks, NEW u \in Tasks, NEW b \in Buffers,
                 HandOver(t, u, b)
          PROVE  InUseIffHeld'
      BY <2>5 DEF HandOver
    <2>6. CASE UNCHANGED poolVars
      BY <2>6 DEF poolVars
    <2> QED
      BY <2>1, <2>2, <2>3, <2>4, <2>5, <2>6 DEF PoolNext
  <1> QED
    BY <1>1, <1>2, PoolTypeCorrect, PTL DEF PoolSpec

\* A full pool is never overlooked by a scan that is under way.
FullIsSeen == \A t \in Tasks : poolPc[t] = "scan" /\ Full(bufferInUse) => sawFull[t]

\* The strengthening: what was scanned stays in use as long as nothing is
\* returned, so that a scan that finds nothing has met a full pool.
ScanInv == ScannedAreInUse /\ FullIsSeen

LEMMA ScanInvJustifies == PoolTypeOK /\ ScanInv => FailureIsJustified
  <1> SUFFICES ASSUME PoolTypeOK, ScanInv, NEW t \in Tasks,
                      poolPc[t] = "scan", index[t] > NUM_BUFFERS, ~returned[t]
               PROVE  sawFull[t]
    BY DEF FailureIsJustified
  <1>1. \A b \in Buffers : b < index[t]
    BY SizesAssumption DEF Buffers, PoolTypeOK
  <1>2. Full(bufferInUse)
    BY <1>1 DEF Full, ScanInv, ScannedAreInUse
  <1> QED
    BY <1>2 DEF ScanInv, FullIsSeen

LEMMA ScanInvInductive == PoolTypeOK /\ ScanInv /\ [PoolNext]_poolVars => ScanInv'
  <1> SUFFICES ASSUME PoolTypeOK, ScanInv, [PoolNext]_poolVars PROVE ScanInv'
    OBVIOUS
  <1> USE SizesAssumption DEF PoolTypeOK, ScanInv, ScannedAreInUse, FullIsSeen, Full, Buffers,
             IsFree, IndexAfter
  <1>1. ASSUME NEW t \in Tasks, NEW len \in Lengths, GetFreeBuffer(t, len)
        PROVE  ScanInv'
    <2>1. CASE len <= BUFFER_SIZE
      <3> USE <1>1, <2>1 DEF GetFreeBuffer
      <3>1. ScannedAreInUse'
        OBVIOUS
      <3>2. FullIsSeen'
        OBVIOUS
      <3> QED
        BY <3>1, <3>2
    <2>2. CASE ~(len <= BUFFER_SIZE)
      BY <1>1, <2>2 DEF GetFreeBuffer
    <2> QED
      BY <2>1, <2>2
  <1>2. ASSUME NEW t \in Tasks, Take(t) PROVE ScanInv'
    BY <1>2 DEF Take, Observe
  <1>3. ASSUME NEW t \in Tasks, Skip(t) PROVE ScanInv'
    BY <1>3 DEF Skip
  <1>4. ASSUME NEW t \in Tasks, Fail(t) PROVE ScanInv'
    BY <1>4 DEF Fail
  <1>5. ASSUME NEW t \in Tasks, NEW b \in Buffers, Return(t, b) PROVE ScanInv'
    <2>1. ~Full(bufferInUse')
      BY <1>5 DEF Return, ReturnBuffer
    <2>2. \A u \in Tasks : poolPc'[u] = "scan" => returned'[u]
      BY <1>5 DEF Return, ReturnBuffer
    <2> QED
      BY <2>1, <2>2
  <1>6. ASSUME NEW t \in Tasks, NEW u \in Tasks, NEW b \in Buffers,
               HandOver(t, u, b)
        PROVE  ScanInv'
    BY <1>6 DEF HandOver
  <1>7. CASE UNCHANGED poolVars
    BY <1>7 DEF poolVars
  <1> QED
    BY <1>1, <1>2, <1>3, <1>4, <1>5, <1>6, <1>7 DEF PoolNext

\* BUFFERPOOL_GetFreeBuffer refuses a request that fits only when the pool was
\* exhausted at some moment of the scan, or a buffer was returned during it.
THEOREM RefusalIsJustified == PoolSpec => []FailureIsJustified
  <1>1. PoolInit => ScanInv
    BY DEF PoolInit, ScanInv, ScannedAreInUse, FullIsSeen
  <1> QED
    BY <1>1, ScanInvInductive, ScanInvJustifies, PoolTypeCorrect, PTL DEF PoolSpec

\* BUFFERPOOL_GetFreeBuffer takes a buffer nobody else has, however the scans of
\* several tasks and the returns are interleaved.
THEOREM TakesAreExclusive == PoolSpec => TakesOnlyFreeBuffers
  <1> DEFINE Taken == \A t \in Tasks : result'[t] # result[t] /\ result'[t] # NULL =>
                        holder[result'[t]] = NoTask /\ holder'[result'[t]] = t
  <1>1. PoolTypeOK /\ InUseIffHeld /\ [PoolNext]_poolVars => [Taken]_poolVars
    <2> SUFFICES ASSUME PoolTypeOK, InUseIffHeld, PoolNext PROVE Taken
      OBVIOUS
    <2> USE DEF PoolTypeOK
    <2>1. ASSUME NEW t \in Tasks, Take(t) PROVE Taken
      <3>1. index[t] \in Buffers
        BY <2>1, SizesAssumption DEF Take, Buffers
      <3>2. holder[index[t]] = NoTask
        BY <2>1, <3>1 DEF InUseIffHeld, Take, IsFree
      <3> QED
        BY <2>1, <3>1, <3>2 DEF Take
    <2>2. ASSUME NEW t \in Tasks, NEW len \in Lengths, GetFreeBuffer(t, len) PROVE Taken
      BY <2>2 DEF GetFreeBuffer
    <2>3. ASSUME NEW t \in Tasks, UNCHANGED result PROVE Taken
      BY <2>3
    <2> QED
      BY <2>1, <2>2, <2>3 DEF PoolNext, Skip, Fail, Return, ReturnBuffer, HandOver
  <1> QED
    BY <1>1, PoolTypeCorrect, MarksAreExact, PTL DEF PoolSpec, TakesOnlyFreeBuffers
=============================================================================
