# Verification of the cloud kit's connectivity software

This directory holds TLA+ models of the software of the RX65N cloud kit that an
application's connection to the cloud depends on: the MQTT agent and library, the
subscription manager and buffer pool, the device shadow client, the Device
Defender agent, the over-the-air update agent with bootloader and flash, and the
sockets of the Wi-Fi driver. TLC checks small instances of them; TLAPS proves their
invariants, action properties and refinements for every size.

Source paths are relative to the repository (`lib/mqtt/aws_mqtt_agent.c` and so
on). `PROJECT.json` gives the lines behind every definition.

| Module | Models | Source |
|---|---|---|
| `MQTTAgent` | the agent, its callers, the MQTT task, the library's connection state, transmit list and receive buffer | `aws_mqtt_agent.c`, `aws_mqtt_lib.c` |
| `MQTTCalls` | what the agent's API promises a caller (abstract) | `aws_mqtt_agent.h` |
| `MQTTReceive` | `MQTT_ParseReceivedData` and the handlers of received packets | `aws_mqtt_lib.c` |
| `MQTTPackets` | what becomes of each packet of a stream (abstract) | `aws_mqtt_lib.c` |
| `MQTTKeepAlive` | `MQTT_Periodic`: time-outs, ping requests, how long the MQTT task sleeps | `aws_mqtt_lib.c`, `aws_mqtt_agent.c` |
| `MQTTSubscriptions` | the subscription table and the dispatch of messages | `aws_mqtt_lib.c` |
| `MQTTTopicFilter` | validation and matching of topic filters | `aws_mqtt_lib.c` |
| `BufferPool` | the pool shared by the library and the applications | `aws_bufferpool_static_thread_safe.c` |
| `ShadowClient` | the shadow operations, the callback catalog, the client's MQTT callback | `aws_shadow.c` |
| `DefenderAgent` | the reporting task and the functions that start, stop and time it | `aws_defender.c` |
| `OTAFlash` | the two flash banks, the PAL and the bootloader, as operators on banks | `aws_boot_*.c`, `aws_ota_pal.c` (PIC32MZ) |
| `OTAAgent` | the OTA task, its callback and timers, the job and stream services, resets | `aws_ota_agent.c` |
| `WiFiSockets` | the driver's sockets, mutexes and queues and the secure sockets over them | `sx_ulpgn_driver.c`, `aws_secure_sockets.c` |
| `*Proofs` | theorems about the module they are named after | |
| `MQTTPartsProofs` | theorems about `MQTTSubscriptions`, `MQTTTopicFilter` and `BufferPool` | |
| `MC*` | instances for TLC | |

Run `tlc -config MCAgent_parallel.cfg MCAgent.tla` for a model run and
`tlapm MQTTAgentProofs.tla` for a proof.

Operators named `Bug...` are plausible mistakes in the definition whose name follows. No
specification uses them; put in the place of the original, each makes TLC report the
property it is listed with in `PROJECT.json`.

## 1. The system

The repository is Amazon FreeRTOS with a board port. Most of its lines are the
upstream kernel with a port for every processor, mbed TLS, TCP/IP and POSIX layers,
vendor drivers and generated headers. The logic of its own that runs on the cloud
kit is the following.

**MQTT agent** (`lib/mqtt/aws_mqtt_agent.c`).
*State:* per broker a socket, a library context, the table `xWaitingTasks` of
(task, message identifier) pairs, and whether the connection is in use; one
command queue of `MAX_BROKERS * MAX_PARALLEL_OPS` entries; the counter message
identifiers are drawn from.
*Operations:* `MQTT_AGENT_Create/Delete/Connect/Disconnect/Subscribe/`
`Unsubscribe/Publish/ReturnBuffer`, called by any task. Except for Create,
Delete and ReturnBuffer each puts a command into the queue and blocks on a task
notification. One MQTT task takes commands, calls the library, and after each
command reads all sockets and runs `MQTT_Periodic` (`prvManageConnections`).
*Interaction:* the library calls `prvMQTTEventCallback` for acknowledgements,
messages, timeouts and disconnects; this notifies the waiting task, closes the
socket, or calls the application back in the MQTT task.
*Hard behaviour:* commands enter the queue in another order than their
identifiers; commands that waited too long are answered without being executed;
replies race with timeouts, disconnects and late packets; notifications are sent
with "set value without overwrite"; callbacks may call the API.
*Correct if:* a blocked caller is answered once, with the answer to this call; no
answer outlives its call; the waiting tasks and the library's transmit list hold
the same operations; socket and library state agree; every call returns.

**MQTT library** (`lib/mqtt/aws_mqtt_lib.c`).
*State:* per connection the connection state, the list of transmit buffers that
wait for an acknowledgement, the packet being received and its buffer, the
subscription table, the clocks of operations and of the keep-alive.
*Operations:* `MQTT_Connect`, `MQTT_Disconnect`, `MQTT_Subscribe`,
`MQTT_Unsubscribe`, `MQTT_Publish`, `MQTT_ParseReceivedData`, `MQTT_Periodic`,
`MQTT_ReturnBuffer`, all called by the MQTT task only.
*Hard behaviour:* bytes arrive in any chunks; packets for which no buffer is free
are dropped; error paths return buffers and reset the context while a handler
holds references; tick counts wrap around and the task sleeps by the earliest.
*Correct if:* no buffer leaks or is returned twice, also when the pool runs dry;
the event that ends an operation is raised exactly once; the receiver never loses
step with the stream; nothing times out early or late, and the server hears of
the client within the keep-alive interval.

**Subscription manager** (in `aws_mqtt_lib.c`).
*State:* a fixed table of topic filters with callbacks, and a count.
*Operations:* store before a SUBSCRIBE is sent; remove when it fails, times out or
is rejected, and when an UNSUBSCRIBE is acknowledged; reset with the context;
dispatch a message to matching callbacks.
*Hard behaviour:* the table changes before the server has answered, and answers act
on the entry by topic, not by the call that stored it.
*Correct if:* the count is exact, a filter has one entry, what callers were told is
true of the table and the server, and messages reach granted subscriptions.

**Buffer pool** (`lib/bufferpool`).
*State:* a mark per buffer. *Operations:* get and return, from several tasks, with a
critical section per buffer looked at. *Correct if:* a buffer has one holder and a
request fails only for a reason.

**Shadow client** (`lib/shadow/aws_shadow.c`).
*State:* per client an MQTT client, a mutex for operations, a semaphore the answer
gives, the data of the operation in progress, the topic buffer, flags for the topics
it stays subscribed to, a catalog of callbacks per Thing.
*Operations:* create and delete a client, connect, disconnect, register callbacks,
update, get, delete, return a buffer. An operation subscribes, publishes and waits
for an answer; the MQTT callback accepts, rejects or passes on what arrives.
*Hard behaviour:* answers come late, twice, or for other clients; each agent call in
an operation may fail with or without effect; the callback and the operation share
the semaphore, the operation's data and the topic buffer.
*Correct if:* an operation leaves the client as it found it, gets only its own
answer, its buffers end with exactly one owner, and every call returns.

**Device Defender agent** (`lib/defender/aws_defender.c`).
*State:* the state of the reporting task, the kill flag, the status of the last
report, the period, the MQTT client. *Operations:* start, stop, set the period, read
the status; a task that runs a round of states per period; the answer callback.
*Hard behaviour:* stop and start in any state; every state may fail; the status is
written by two tasks; the rest of a period is an unsigned difference.
*Correct if:* the status is what became of the last report, rounds go on and keep
the period, and a client is created, used and deleted in order.

**OTA agent** (`lib/ota/aws_ota_agent.c`), **bootloader**
(`demos/common/ota/bootloader`) and **PAL** (`lib/ota/portable`).
*State:* the agent's state, job name and client token, the file context with its
block bitmap, request momentum and timers, a message queue and event flags, all lost
at a reset; two flash banks with header, trailer and image flags, kept over resets.
*Operations:* init, shut down, check for updates, activate, set the image state,
called by the application or its callback; job documents and file blocks by MQTT;
timers; on a reset the bootloader validates the banks, picks the newest image and
marks the first launch, and a watchdog bounds the self test.
*Hard behaviour:* messages lost, repeated, or of an earlier job; a write, erase,
header or trailer failing; power cuts between closing a file, its first launch, the
self test and the commit; a job that is reported only after a reset.
*Correct if:* only complete, authentic images are launched; an image is on probation
once and its end is reported as it is; transfers and probation end.

**Wi-Fi driver and secure sockets**
(`third_party/mcu_vendor/renesas/.../uart_sx_ulpgn/sx_ulpgn_driver.c`,
`lib/secure_sockets/portable/renesas/rx65n-cloud-kit-uart-sx-ulpgn`).
*State:* which sockets are created and connected, a byte queue per socket, the queue
of the data UART, the selected socket, the flag that diverts bytes, two mutexes.
*Operations:* create, connect, send, receive, shut down, close; the receive interrupt.
*Interaction:* the MQTT agent and other tasks call the sockets; one command UART and
one data UART for whichever socket is selected.
*Hard behaviour:* before each operation the driver may have to switch sockets while
bytes of the old one arrive, and splits what came at a border it counts; refusals,
a busy module and mutex time-outs at every point.
*Correct if:* one command is under way at a time, a task acts on its own socket, no
byte is lost or goes to another socket, and every way out leaves the driver ready.

**Others.** Greengrass discovery (one sequential HTTP exchange), TLS, PKCS #11 and
CBOR (glue over libraries, formatting), the kernel, TCP/IP and POSIX layers. They are
not modelled; see section 13.

*How the modules compose.* `MQTTAgent` contains the agent, the library below it and
the callers above it. `MQTTReceive`, `MQTTKeepAlive`, `MQTTSubscriptions`,
`MQTTTopicFilter` and `BufferPool` each take one part of the library that
`MQTTAgent` abstracts and give it in detail. `ShadowClient`, `DefenderAgent` and
`OTAAgent` are users of the agent and rely on what `MQTTCalls` promises: a call
returns, with success, failure or a time-out, and an error does not tell whether the
message went out. `OTAAgent` extends `OTAFlash`. `WiFiSockets` is below the agent.

## 2. The agent: `MQTTAgent`, `MQTTCalls`

### State and actions

| Variable | Code |
|---|---|
| `pc`, `call`, `result` | a caller inside `prvSendCommandToMQTTTask`: before the queue send, in `xTaskNotifyWait`, or not in a call |
| `notif` | its pending task notification |
| `nextId` | `ulQueueMessageIdentifier` |
| `owner`, `up`, `held` | `xConnectionInUse` and what applications remember: who created a client, whether its owner believes it is connected, buffers kept by callbacks |
| `queue` | `xCommandQueue` |
| `pool` | number of pool buffers in use |
| `mstage`, `mbroker` | where the MQTT task is in its loop |
| `sock`, `slots` | `xSocket` valid, used entries of `xWaitingTasks` |
| `state`, `tx`, `rx` | the library's `xConnectionState`, `xTxBufferListHead`, receive buffer |
| `halted` | a `configASSERT` of the MQTT task failed |
| `atBroker`, `acked` | the server: unanswered requests, identifiers it has accepted |

Application side: `SendCommand` (up to the queue send), `Enqueue`,
`EnqueueTimesOut`, `NotifyWait`, `Create`, `Delete`, `ReturnBuffer`. MQTT task:
`Receive...` and one `Initiate...` action per command with everything the library
does in it; `Received...`, `SocketError` and `DroppedPacket` for what a socket read
leads to; `Periodic...` for `MQTT_Periodic`. `ReceivedPublish` and
`CallbackReturns` are two steps, because the application code between them may
call the API (`CallFromCallback`). Other sources: `SocketWakeup` from the network
stack and `ForeignNotification`.

### Abstractions

- A packet arrives in two steps, its fixed header (when a buffer is requested) and
  the rest; single bytes are the matter of `MQTTReceive`.
- Time is not counted. An operation in the transmit list may be found timed out by
  any `MQTT_Periodic`; a command may be found too late whenever it is received. The
  clocks are in `MQTTKeepAlive`.
- Setting up a socket and closing it are single steps. A failed send counts as not
  sent; PUBACKs are left out.
- Identifiers are a few instead of 65534. `IdIsUnused` assumes what the large
  number gives in practice: one is not drawn again while in use.
- Applications connect a client only if they believe it is down, and delete it only
  then (`MayCall`, `Delete`). The wakeup callback's check of the queue and its send
  are one step.
- `ForeignAt` says where in a call a task can be notified by something other than
  the agent: anywhere in `agent_parallel` and in the theorems, before the call only
  in `agent_live`, since a notification during the call can cost the caller
  its answer (section 12).

### Runs

| Run | Instance | Shows |
|---|---|---|
| `agent_parallel` | 2 tasks share 1 broker, 2 operations in flight; connect, disconnect, subscribe, which stands for all acknowledged operations; foreign notifications anywhere; 1.3 million states | `NothingStale`: queue, slots and notifications refer only to calls still waiting for exactly that; `WaitingIsServedOnce`: a waiting caller is in one of these places, and no step takes it out of them unanswered unless a foreign notification is in the way of the answer; `SlotsMatchTx`: agent and library hold the same operations; `BufferConservation` with a pool that runs dry; `SocketMatchesState`; `NeverHalted`: no connect on an open socket; `ConnectFailureMeansClosed`; `ImplementsCalls`: refinement of `MQTTCalls`. All are proved too (section 11) |
| `agent_live` | 1 task, all operations, a queue of one, calls from callbacks, no foreign notification during a call | `EveryCallReturns` |

`MQTTCalls` is the abstract promise: a call is invoked, answered at most once, and
returns; "pass" for an acknowledged operation requires that the server accepted
this very request. The refinement mapping reads a call's phase from `pc` and
`notif`, so a reply that reaches the wrong call or comes twice is a step
`MQTTCalls` does not have.

*Bounds.* Two buffers: with one, the CONNECT's own buffer leaves none for the
CONNACK and no connection is ever made; with two, one operation and one received
packet exhaust the pool. Four identifier values, of which three are used, make the
counter wrap and still leave a fresh one for each of two callers and a late packet.
The queue has the code's length: two tasks and a wakeup fill two entries, and in
`agent_live` the service message of a wakeup fills the only one. Two
tasks give every pair of racing callers; the invariants relate a call to the queue,
the slots and the notifications, and what is proved for all sizes (section 11)
covers larger instances. Tasks are symmetric except where liveness is checked.

*Fairness.* `FairSpec` assumes weak fairness of the MQTT task (it loops for ever and
never blocks without a timeout while a connection is up) and of each caller's next
step (a preemptive kernel runs ready tasks), and strong fairness of finding timed
out an operation someone waits for: `MQTT_Periodic` runs in every turn of the loop,
and its clock advances. Nothing is assumed of the server, the network, or the order
in which tasks run.

## 3. Receiving: `MQTTReceive`, `MQTTPackets`

One action of `MQTTReceive` is one turn of the loop of `MQTT_ParseReceivedData`:
`PacketType`, `FieldContinues`, `FieldIsMalformed`, `HeaderOnly`, `GetBuffer` or
`GetNoBuffer` once the length is known, `StoreSome`, `DropSome`, `DropRest`, and
`ProcessPacket` with the handler of a complete packet. `Receive` hands over any piece
of what the server has sent; `Connect`, `Disconnect`, `ReturnBuffer` come from outside.
The parser's variables have their names in the code; `next` is where `xProcessedBytes`
stands in the stream of the connection, and the bytes are real ones, so that reading
the header buffer back and decoding the length are computed as the code does.

`MQTTPackets` knows packets only: each packet of a connection, in order, is delivered
with the bytes that were sent, dropped because no buffer is free or large enough, or
refused as malformed, which closes the connection. The refinement maps the receive
buffer away (a buffer is lent only when a callback has kept it). Whether the request an
ACK answers is in the transmit list is a free choice here, since that list belongs to
`MQTTAgent`; other users of the pool are the reason why `GetNoBuffer` is always possible.
`Connect` resets only the model's bookkeeping, as the code keeps the parser's state with
the context. A user callback that disconnects while its packet is parsed is not modelled.

Run `receive`: seven connections with well-formed and malformed packets, length fields
of one to four bytes, with a spare digit or without an end, a body of 130 bytes that several
reads have to skip, reads of at most 9 bytes cut anywhere, buffers of 7 bytes, two of
them; 132,355 states. `HandlesEveryPacket` is the refinement. The instance has each kind
of first byte the switch distinguishes, each outcome of the length field, and packets
that fit, just fit and do not.

## 4. Clocks: `MQTTKeepAlive`

`Tick` passes time; the MQTT task waits (`sleep`), takes a command, reads the socket and
runs `MQTT_Periodic`, whose parts (`ConnectTimesOut` or `OperationsTimeOut`, then
`PingTimeout`, `SendPing`, `KeepAliveIsNotDue`) have the code's arithmetic. A recorded tick count is represented by its age, since the code only uses
differences that cannot wrap within a sleep. Handlers take no time; ticks pass between
them, at most `MAX_LAG` in a turn. `timeout`, `waited`, `pinged`, `quiet` are history.
A failed PINGREQ is retried in every turn; the agent ignores the event of an unanswered
ping, as its callback does.

Run `keep_alive`: two operations with time-outs 0, 2 and 5, an actual interval of 4, a
lag of 1; about 60,000 states. `OperationsEndInTime`:
nobody waits longer than asked for, plus the lag. `NothingEndsEarly`: nor shorter, and a
PINGRESP has its full time, whatever is sent meanwhile. `SilenceIsBounded`: the library is
never silent for longer than `2 * ACTUAL_INTERVAL + 2 * MAX_LAG`. This is tight: a late
PINGRESP restarts the clock although nothing was sent. Two operations let a shorter and a
longer sleep compete.

Run `keep_alive_kit` has the kit's ratio of the promised to the actual interval, 1 to 3, and no
lag; it violates `ServerHearsInTime`: the server hears of the client within the interval
promised in CONNECT (section 12). This holds where the promise is at least the bound above,
which no configuration in the repository for this kit meets.

## 5. Subscriptions: `MQTTSubscriptions`, `MQTTTopicFilter`

`MQTTSubscriptions` has the table (`subs`, `inUse`), operations in flight (`tx`), a
server that answers in order, and messages. `Removed`, `Stored`, `ResetTable` are
the three ways the code changes the table; the actions are the places that use them:
`Subscribe`, `SubscribeFails`, `SubscribeRefused`, `SubscribeNotConnected`,
`Unsubscribe`, `UnsubscribeFails`, `ReceivedSUBACK`, `ReceivedSUBACKFailure`,
`ReceivedUNSUBACK`, `ReceivedUnexpectedAck`, `TimeoutSubscribe`,
`TimeoutUnsubscribe`, `Disconnect`. `Calls` is the dispatch: simple filters in table
order, then wild-cards, until a callback takes the buffer. `told` is history: what
the last call on a filter told its caller.

It is separate from `MQTTAgent`: everything happens in the MQTT task, so that only the
order of requests, answers and timeouts matters, which `MayRequest` takes from the
agent (at most `MAX_PARALLEL_OPS` in flight). Sessions are clean, as `MQTT_Connect`
requests.

`MQTTTopicFilter` runs `prvDoesTopicMatchTopicFilter` with one action per branch of its
loop, on every pair of an input topic and filter, and compares the verdict with the
standard's definition over levels.

| Run | Instance | Shows |
|---|---|---|
| `subscriptions` | table of 2, a simple, a wild-card and an invalid filter, 4 requests, 2 in flight, 3 messages; one task per filter at a time (`Overlap = FALSE`, section 12) | `CountIsExact`, `OneEntryPerFilter`, `ToldIsTrue`, `MessagesReachSubscribers` |
| `topic_filter` | all topics up to 3 and filters up to 5 characters over two letters, `/` and wild-cards | `FiltersMeanWhatTheySay`: validation, and matching in both directions |

*Bounds.* Two entries make the table full with the two valid filters. Four requests are
subscribe, timeout, retry and a further operation with the late answer of the first
still under way; three messages in transit let an answer be behind another answer and a
message. Three and five characters reach each corner case of the loop: a level before
and behind `/`, empty levels, `x/#`, `x/+`, `+/#`, `+/+/+`. Both instances stop when
their requests or characters are used up, hence no deadlock check.

## 6. Buffer pool: `BufferPool`

One action per turn of the scanning loop, since the critical section covers one turn;
`ReturnBuffer` and `HandOver` (a callback takes a receive buffer) come between turns.
Ghost variables record whether the pool was full at some moment of a scan and whether a
buffer came back during it. Run `pool` (3 tasks, 3 buffers, requests up to one larger than a
buffer) checks `InUseIffHeld` and `FailureIsJustified`; three buffers have a first, an
inner and a last one, and three tasks are a scanner, one that returns behind it and one
that takes ahead of it. `MQTTAgent` uses the pool through its number of
buffers in use; that a request may fail although a buffer is free is allowed there.

## 7. Shadow: `ShadowClient`

The client's variables have the names of the structure's members. A task's operation is
cut around each call of the MQTT agent (`Subscribe`, `Publish` with its send and its
return, `Unsubscribe`) and each use of a semaphore; the MQTT callback is cut where it
reads what a task may change. `Faults` names what may go wrong: a call of the agent that
fails with or without effect, a lost connection, a message of another client, a message
that comes twice. Catalog registration runs through the three callbacks of a Thing and
stops at the first that fails. Buffers taken from the agent are counted in `kept`.

Run `shadow` (2 tasks, 2 Things, a catalog of one entry, 2 calls, one fault of any kind, 2
messages on their way; 1.6 million states) checks `CleanBetweenOperations` (semaphore, topic
buffer and the data the callback sees are as before, however an operation ends),
`AnswerIsOwn` (an answer is to this operation on this Thing, for an update with this
client token), `BuffersAreHandedOver`, `OwnAnswerIsNotNotified` (the device's own delete
is not announced to it as somebody else's), and `EveryCallReturns`. Two calls give the
race of two tasks for the mutex and an operation after a timed-out one; one catalog entry
is full with one of two Things. Calls run out, hence no deadlock check.

*The client's life.* A client may be deleted while it is connected: `MQTT_AGENT_Delete` only
marks the connection as unused (`aws_mqtt_agent.c:1935`). The connection stays up and the
next client gets it. A message before that finds no data mutex to take, and a connect after it
finds a socket: both stop the board in an assertion (`halted`).

*Abstractions.* One client (the board's configuration) whose creation succeeded, one
task at a time that registers callbacks. The subscription flags are per client and not per
Thing, as in the code. JSON scanning is abstracted to which document a message is.

*Fairness:* the tasks and the MQTT callback are scheduled; nothing of the service.

## 8. Device Defender: `DefenderAgent`

One action per state of the task (`StateInit`, `StateNewMQTT`, `StateConnectMqtt`, ...), with the check of
`xDefenderKill` at its head; an action ends where the task blocks. `Answered` is the
accepted or rejected callback, `Tick` passes time, `ConnectionLost` the network.
`Start`, `Stop` and `ReportPeriodSet` come from one application task.

Run `defender` (periods 2 and 5 s, 2 ticks per second, 32-bit numbers as numbers modulo
8192, a wait of 2 ticks, 2 answers owed to earlier reports; 102,648 states):
`StatusIsEarned` (the status shows nothing that did not become of the last report, but what
an answer to an earlier one has set), `NeverOversleeps` (no sleep reaches beyond the
period), `RoundsGoOn` (an agent that is not stopped sleeps again and again). Rounds can
be shorter and longer than the period, the period can be shortened during one, and the
milliseconds of the longer period times the tick rate overflow, as those of periods from
4295 s do in 32 bits at 1000 Hz (`PeriodTicks`).

An answer outlives its connection and its round: the topics are those of the Thing, and
the callbacks compare nothing. `answer` is what the service owes to the last report, `earlier` how
many answers to the ones before; `stale` records that one of these has set the status.
That this happens is the violation of `SuccessIsOfLastReport`, and that the period is not kept that of
`RoundsKeepThePeriod` (section 12).

*Abstractions.* The contents of a report are left out. A period and a round together fit in
the tick range (`DefenderAssumption`). The value zero of the status before any report is
`eDefenderRepSuccess`.

*Fairness:* the task is scheduled and the clock advances; strong fairness of the
disconnect succeeding, which the state repeats until it does.

## 9. Over-the-air updates: `OTAFlash`, `OTAAgent`

`OTAFlash` has the banks (header, flag, trailer, blocks) and the functions that change
them as operators from banks to banks: the PAL's (create, write, close, set and get the
image state, erase) and the bootloader's (validate, invalidate, choose, default start).
The PAL is that of the PIC32MZ, the only one in the repository the bootloader works
with; the kit's own is a stub that returns constants. The bootloader's configuration is not
in the repository either, so its two options are CONSTANTS.

`OTAAgent` has the agent's context under the code's names, the job and stream services,
the messages on their way, and history (what was launched, reported and committed). The
task is cut where it waits and around each status report; the callback `prvOTAPublishCallback`
is cut between its check of the event group and the queue send. `PowerCut` is
possible anywhere, and a reset runs the bootloader. `Faults` names which operations may fail.

Run `ota` (a factory image and two updates, one of two blocks and one of one, a queue of
one, one fault or user call of thirteen kinds; 1.2 million states) checks `BitmapMatchesFlash` (a block is
missing exactly when nothing was written where it goes), `NoMessageStranded` (an event is
set while a message is queued), `NewImageIsAuthentic` (a job is reported ready for its self
test only with its own whole image in a bank), `SucceededMeansCommitted` (what is reported as succeeded is
what the bootloader will boot), `ProbationIsOnce`, `TransferEnds`, `ProbationEnds`.
Two jobs give a block or a document of the earlier job during the later; two blocks give
the momentum and a repeated block; one accident at a time is enough for each of the error
paths, which the code treats one by one. Accidents run out, hence no deadlock check.

*Abstractions.* JSON, CBOR and signatures are abstracted to what they decide; closing a
file can also fail for another reason than its signature, without erasing it (`"verify"`). `Version`
doubles as the bootloader's sequence number. The job service starts jobs in the order of
their versions. The user sets the image state from its callback only.

*Fairness:* the task, the MQTT callback, the timers and the watchdog. A transfer whose
stream request cannot be published is exempted from `TransferEnds` (section 12).

## 10. Wi-Fi sockets: `WiFiSockets`

`pc` follows a task through `SOCKETS_Socket`, `Connect`, `Send`, `Recv`, `Shutdown` and
`Close`, the driver function they call, and `sx_ulpgn_change_socket_index` with its
count, drain, select, recount, split and copy. `uc`, `tx`, `rx` hold the mutexes; `byteq`
the bytes of each socket, `sciq` those in the UART's queue; `ModuleSends` is the receive
interrupt. The module is external: it answers each command with OK, an error or busy, or
leaves the selection of a socket unanswered, having carried it out or not (`unsure`); it
stops as soon as the RTS line is raised. A step ends where a task waits for a mutex or for
an answer, or where an interrupt makes a difference.

Run `wifi` (2 tasks, 2 sockets, byte queues of 2, 2 bytes sent on open connections; 5.5
million states, the tasks symmetric) checks `OneCommandAtATime`, `UsesItsOwnSocket` (a task acts on
the driver's current socket, which is the module's unless an answer to a selection was
lost), `StreamIsIntact` (bytes are received in order, on the socket they were sent to),
`NothingIsLeftBehind` (mutexes, and RTS and the diversion of bytes, after a call, on every
way out; RTS may be up only if a selection that could not be sent has left its flag),
`BorderIsCounted` (the loop that drains the old socket's bytes never waits for more than
there are, and the border between old and new is exact). Two sockets give each switch from
and to, two bytes an order to lose and a byte on either side of the border. The history
variable `mishap` marks the moments for which the driver has no provision (section 12):
a byte between the last copy and the reset of the flag, an overflow of a queue, a
recount that fails after the switch, anything sent or received for a socket other than
the module's. `StreamIsIntact` claims nothing behind one, and no further byte is sent and
no further selection lost (a bound). Two exits of the switch leave more behind than the driver provides
for: `SendsToItsPeer` and `ModuleMaySend`, which its comments and its interface promise,
do not hold (section 12).

*Abstractions.* The two-UART mode, as on the kit. Left out are a module that stays silent on
the query of its counter (ten tries, then the function returns 0 with unset values), the
Wi-Fi management commands, TLS, options and name look-up. Mutex time-outs are always possible while a mutex is held.
No liveness is claimed: the driver's calls end by their time-outs only.

## 11. Proofs

All theorems hold for every value of the constants the named assumptions allow.

- `MQTTAgentProofs`. `AgentTypeCorrect`: `TypeOK`. The invariant is
  `TypeInv == TypeOK /\ CallsAreCommands /\ TxIsFinite`: the type of the reply to a
  call needs that a caller in a call has one of its own commands there, the buffer
  count that transmit lists are finite.
  `CallersAreServedOnce` (`WaitingIsServedOnce`) and `NothingOutlivesItsCall`
  (`NothingStale`) share `ServiceInv`. "Served once" alone is not inductive: removing the
  head of the queue must not remove a second copy of a call (`Distinct`); a waiter is in no
  two places (`OnePlace`); answering one must not answer a caller that has gone on
  (`NothingStale`); and what is pending for a caller in a call is its answer or not the agent's
  (`NotificationsAreAnswers`). In the second case an answer is refused and the caller loses its
  place, which is the only step that does so (`PlacesAreKept`). The argument is one
  lemma on answering a set of callers (`AnswerKeepsCore`), one on executing a command
  (`AnswerCommand`, `SentKeepsCore`), and a case per action on top of them.
  `TablesStayTogether` (`SlotsMatchTx`) adds `TxInv`: no two calls have one identifier
  (`IdsDiffer`), so that requests and waiters are paired by it (`TablesAgree`); the equal
  sizes follow by a bijection. `NoBufferLeaks` (`BufferConservation`) adds `BufInv`; that a
  request sent is a new element of its list comes from the pairing.
  `SocketAndStateAgree`, `AgentNeverHalts` and `FailedConnectIsClosed` share `SockInv`: the
  library's context matches the socket (`ContextInv`), only the owner of a connection
  connects it, and only when it believes it down (`OwnerInv`), and an open socket is one
  whose owner knows it or is still in its Connect, out of the queue and told nothing but
  success (`OpenInv`); from the three, a Connect finds
  the socket closed (`ConnectFindsClosed`). The replies of every handler go through one
  lemma (`RepliesAreTrue`). `CallsAreImplemented` (`ImplementsCalls`) adds `AckInv`: an
  identifier the server accepted is that of a waiting call, and a CONNACK is for the
  CONNECT under way. Each handler of the MQTT task is a `Serve` of `MQTTCalls`
  (`AnswersAreServed`), each step of a caller an `Invoke`, `Refuse`, `Return` or a stutter.
  All hold with foreign notifications anywhere in a call.
- `MQTTReceiveProofs`. `ReceiveTypeCorrect`: no copy leaves its buffer and the parser's
  assertions hold. `PacketsAreHandled`: `MQTTReceive` implements `MQTTPackets`, for every
  stream, every way of cutting it and every size of the buffers. The invariant is
  `Types`, `Clean` (between connections the parser is reset), `BuffersAreKept` (the receive
  buffer and the taken ones are among those in use), and `InStream`, which says for
  each state of the parser which bytes of which packet it has seen: the field bytes are
  those of the packet the parser is in, and the received length is the distance from
  its start. Lemmas on the encoding show that the first byte without continuation bit
  ends the field and what it decodes to; each turn of the loop is then a stutter
  except the one that finishes a packet. The assumption on streams is that they are the
  concatenation of their packets, given by the function `Start`.
- `MQTTKeepAliveProofs`. `KeepAliveTypeCorrect`; `OperationsTimeOutInTime` from
  `WakesForOperations` (the task sleeps no longer than the least remaining time) and
  `CountsWhatPassed` (age and remaining time add up to the time-out); `TimersRunInFull`, the
  action property, from the same and `PingIsTimed`; `SilenceStaysBounded`
  (`SilenceIsBounded`), for all settings of the clocks, from `WakesForKeepAlive` and
  `QuietIsShort`. That the server hears in time of a client that promised at least this bound
  is a corollary (`ServerIsKeptHearing`); the kit's does not (section 12).
- `MQTTPartsProofs`, subscriptions. `CountStaysExact` and `FiltersAreUnique` also for
  overlapping operations. `TableInv` is both properties and the table's types; the proof
  speaks of any consistent table, shows that removing, adding to and emptying one leaves
  it consistent, and only then of the actions.
  `ApplicationsAreToldTheTruth` (`ToldIsTrue`) assumes `~Overlap`, without which it does not
  hold (section 12). What an application was told can be undone by an answer or a
  request still under way, so `ToldInv` is about those: requests and answers travel in the
  order of their identifiers (`IdsInOrder`), an operation in flight is alone on its filter
  and no later request is on it (`OnePerFilter`), it has told nothing yet and its entry is
  still in the table (`InFlightIsOpen`), and on a filter told to be granted nothing is in flight or
  on its way to the server (`GrantedIsSettled`). A late SUBACK or UNSUBACK of a timed-out
  call then has an identifier no operation in flight has, and changes nothing.
  `SubscribersAreReached` (`MessagesReachSubscribers`) adds that the n-th call of
  a pass is that of the n-th matching entry (`RanksAreDistinct`), hence that every entry
  that matches is called unless one before it takes the buffer.
- `MQTTPartsProofs`, topic filter. `IndicesStayInside`: for topics and filters of any
  length the loop's indices never pass the ends. `VerdictsAreRight`
  (`FiltersMeanWhatTheySay`): nor is its verdict wrong, for any strings without (topic) and
  with (filter) wild-cards. Levels are located by counting the `/` up to a position: that
  the n-th exists is shown with the least position that has counted n (`LeastElement`),
  which takes the place of an induction over the string. The loop's invariant (`OnTrack`) says how many levels both
  strings have behind them and that these match, and that in the level at hand
  either the same characters are consumed (`Abreast`) or a `+` and all of the topic's
  level (`Skipped`); and that at the end of the topic no corner case was left out, for which
  the code looks one character earlier. One lemma for each way out of the loop compares
  this with the definition over levels; the two exceptions (section 12) are the cases
  where the topic has ended and the filter goes on.
- `MQTTPartsProofs`, pool. `PoolTypeCorrect`, `MarksAreExact`, `RefusalIsJustified`,
  `TakesAreExclusive`. `RefusalIsJustified` needs `ScanInv`: what a scan has passed is in
  use unless a buffer came back, so at its end the pool was full once.
- `ShadowClientProofs`. `ClientIsLeftClean` and `AnswersAreOwn` from `IInv`: who is in an
  operation holds the mutex (`MutexIsHeld`), the data the callback sees are the holder's
  (`VisibleIsHolders`), what it delivers is for them (`DeliversToVisible`), the semaphore is
  taken back on each way out (`SemaphoreIsBack`), and so on. `NoBufferIsLost` from `BInv`:
  every kept buffer is either with a caller, on its way to one, or about to be returned
  (`Accounted`, a count over the finite set of tasks). `OwnAnswersStayOwn`
  (`OwnAnswerIsNotNotified`) from `OInv`: no two tasks have one client token
  (`CallsAreNumbered`), a request that carries a task's token is that task's
  (`RequestsAreCalls`), an answer that carries it is on its topic (`AnswersFit`), and from
  the publication on the callback sees the data and the topic of the call that waits
  (`WaitingIsVisible`), so it recognises the answer before it looks at the catalog.
- `DefenderAgentProofs`. `DefenderTypeCorrect`; `ClientsAreGivenBack` (`ClientFitsState`: a
  client is created only when the last was given back and deleted only when its
  connection is closed); `StatusIsOfLastReport` (`StatusIsEarned`), for every number of
  answers to earlier reports, which needs where the task is between a report and its status
  (`InFunction`); `SleepsWithinPeriod`, from lemmas on subtraction modulo the
  tick range and on the conversion of a period to ticks, which is never more than the exact
  value, overflow or not (`PeriodTicksAreBounded`). It assumes that a period and a round fit in the tick
  range together (`DefenderAssumption`).
- `OTAAgentProofs`. One invariant, `IInv`, for all. Where the task is in its loop, which
  message it holds and what is left of its context when it does not run (`ControlInv`,
  `LoopInv`); a file is open only where it may be, and is the active job's (`FileInv`); the
  bank it is received into has no header (`FlashInv`). These give `TypeCorrect` and
  `BitmapIsTrue` (`BitmapMatchesFlash`): a block is written and crossed off in one turn, for
  one file. `NoMessageIsStranded` is `EventInv`, which also allows the task to have the event
  in hand as long as it has not gone back to waiting. `ReportedImageIsAuthentic`
  (`NewImageIsAuthentic`) and `SuccessIsCommitted` (`SucceededMeansCommitted`) need what
  connects the job service with the flash over any number of resets: a job is named only when those
  before it are done, one in self test before all others, and documents under way are in
  that order (`JobsInv`); while a job is in self test, no bank holds an image newer than the
  one that received the job's, other than the job's own (`BanksInv`); a document that says
  "self test" was true when it was made (`DocsInv`). From the three, an image that finds its
  own job in self test and is newer than the updater named there is the job's image
  (`Tested`), and it stays so until the verdict is reported (`VerdictInv`). A late
  document, a cancelled job and a rollback are the cases in which one of the three alone is
  not enough. `ProbationHappensOnce` (`ProbationIsOnce`) follows from the bootloader's
  operators and the types. The assumptions on images are that versions are
  distinct and that every file has the first block (`DataAssumption`), so that an erased bank is
  no image.
- `WiFiSocketsProofs`. `TypeCorrect` and the five invariants the run checks, for any
  number of tasks and sockets and queues of any size, from one `IInv`. A mutex is held exactly
  between its take and its give (`MutexInv`), which gives `CommandsAreExclusive`
  (`OneCommandAtATime`): a send and a receive hold different mutexes, but a switch holds both.
  The driver's current socket is the task's own from the switch to the end of its command, and
  the module's unless an answer to a selection was lost (`TurnInv`), for `TurnsAreKept`
  (`UsesItsOwnSocket`). Bytes are diverted only while somebody switches, and so is RTS
  raised unless a selection that was not sent has left its flag (`LineInv`), for `CallsCleanUp`
  (`NothingIsLeftBehind`). `CountInv` says what the module's count
  is at each point of a switch and, without a mishap, whose bytes it counts, for `BorderIsKnown`
  (`BorderIsCounted`); `LinkInv` that bytes come only on sockets that exist. `StreamInv`, for `StreamsAreKept` (`StreamIsIntact`),
  accounts for every byte sent: it has been returned, is in its socket's queue, or is in the
  UART's, and there on the side of the border of the socket it was sent to
  (`BothSidesOf`). It claims nothing behind a `mishap`.

*Only model-checked:* liveness (`EveryCallReturns` of the agent and of the shadow client,
`TransferEnds`, `ProbationEnds`, `RoundsGoOn`), which is out of the prover's reach, as is
everything about `ENABLED`. Every other property of the passing runs is stated by a
theorem.

## 12. Where the code differs from its documentation

With a run:

1. **The kit's keep-alive settings do not fit** (`keep_alive_kit`;
   `demos/renesas/rx65n-cloud-kit-uart-sx-ulpgn/common/config_files/aws_mqtt_agent_config.h:78`).
   The interval promised to the server is 100 s (`:66`), the time after which a ping is sent
   300 s, against "the user can and should send Keep Alive messages at a slightly faster
   rate" (`:72`).

With a configuration that is kept beside the runs; TLC reports the property violated.

2. **A foreign notification can cost a caller its answer** (`MCAgent_foreign.cfg`,
   `EveryCallReturns`; `aws_mqtt_agent.c:1258`).
   The caller expects notifications it does not know and keeps waiting with
   `portMAX_DELAY` (`:1728`), but the reply is sent with `eSetValueWithoutOverwrite` and its
   failure ignored. If such a notification is pending then, the call never returns.
3. **The defender does not keep its period** (`MCDefender_period.cfg`, `RoundsKeepThePeriod`;
   `aws_defender.c:454`).
   The rest of the period, in ticks, is compared with the period in seconds; unless it is
   smaller, the task sleeps for one tick. Reports follow one another without a pause,
   against "Set the reporting period in seconds" (`lib/include/aws_defender.h:110`).
4. **The defender takes any answer for the last report's** (`MCDefender_status.cfg`,
   `SuccessIsOfLastReport`; `aws_defender.c:313`). The callbacks do not look at the answer, and its topic
   is that of the Thing: one that comes after its round has ended sets the status of the next report.
5. **The driver can lose track of the module's socket** (`MCWiFi_unanswered.cfg`,
   `SendsToItsPeer`; `sx_ulpgn_driver.c:2193`). When no answer to a selection comes,
   or a garbled one, `current_socket_index` keeps the old number, although the module may have
   switched. Who uses that socket next finds it selected and sends to the peer of another.
6. **The driver can leave the module stopped** (`MCWiFi_deaf.cfg`, `ModuleMaySend`;
   `sx_ulpgn_driver.c:2159`). When a selection cannot be sent, `g_sockindex_command_flag` stays
   set; the clean-up (`:2377`) does not clear it, the next command's transmit-end interrupt
   (`:2982`) raises RTS after it, and nobody lowers it until the next switch.

Found while modelling, and stated without a run. Each is either excluded by an
assumption named here, or is in the model and not claimed otherwise.

7. **Two tasks on one filter** (`aws_mqtt_lib.c:1412`, against `aws_mqtt_lib.h:330`). The
   rejection, timeout or UNSUBACK of the first call removes the entry that the second
   call's SUBSCRIBE has stored since; its callback is never invoked. (Excluded by `Overlap`.)
8. **`+/#` does not match the parent level** (`aws_mqtt_lib.c:2343`). The code looks for the
   parent level only behind a literal character. `a/#` does not match `a/` either;
   `FiltersMeanWhatTheySay` shows that these two are the only misses.
9. **NULL although a buffer was available** (`aws_bufferpool_static_thread_safe.c:143`). A
   scan overtaken by a return behind it and a take ahead of it fails although at no moment
   the pool was exhausted. (`FailureIsJustified` allows it.)
10. **A ping's time-out is prolonged by sending** (`aws_mqtt_lib.c:1117`): everything sent
    resets the variable that holds the time left for the PINGRESP. (`NothingEndsEarly` claims
    one direction only.)
11. **A late shadow answer** can make the assertion at `aws_shadow.c:1095` or at `:1258` fail when it comes
    while the timed-out operation gives the semaphore back. (In the model as `halted`.)
    Three further ones there: a client that is deleted while it is connected leaves its
    connection up and its callback registered (`:1518`); `SHADOW_RegisterCallbacks` stops at the first failure and leaves
    what was registered, and a subscription flag stays set if the unsubscribe after a
    rejection fails.
12. **The defender's "no acknowledgement" can overwrite an answer** (`aws_defender.c:418`,
    against `aws_defender.h:80`) that comes between the time-out and the assignment.
    `eDefenderErrPeriodTooShort` is never returned, and a start soon after a stop returns
    "already started" before the agent ends.
13. **A rejected image's rollback can be lost** (`aws_ota_agent.c:2459`, against
    `aws_ota_agent.h:190`). A job that arrives between the rejection of an image by its self
    test and the reset is received into the bank of the last good image.
14. **A transfer can stall** (`aws_ota_agent.c:1231`). When a stream request cannot be
    published, the one-shot request timer is not started again and nothing is counted, against
    the comment there. (`Stalled` in `TransferEnds`.) At `:2362` the client token is a pointer
    into a message buffer that has been freed.
15. **The driver can strand bytes** (`sx_ulpgn_driver.c:2313`): a byte between the last copy and
    the reset of the flag stays behind, where the disabling of interrupts is commented out
    (`:2288`, `:2309`); a recount that fails after the switch misroutes the old socket's bytes
    (`:2221`). (`mishap`.)
16. **Closing a shut-down socket** (`aws_secure_sockets.c:429`, `:463`): Shutdown frees the
    number, and Close disconnects it again, when another task may have it; the MQTT agent does
    this (`aws_mqtt_agent.c:1006`). (In the model; `UsesItsOwnSocket` is about the selection,
    not about who owns the number.) `ssockets_num_allocated` is changed without a lock.
17. Further in the driver: a time-out of the receive mutex makes the creation return 0 (`:1117`),
    a valid number; a failed disconnect leaks a number (`:1546`); the time-out helpers compare
    the wrong way after a tick overflow (`:2683`). `SOCKETS_SetSockOpt` has no wake-up
    callback on this kit, so that the agent finds received bytes by its periodic reads only.

## 13. Not modelled

- *Greengrass discovery, CBOR, JSON, reports of the defender*: sequential scanning and
  formatting, no shared state.
- *The bytes of packets that are sent, PUBACKs, partial sends* of the MQTT library:
  `SOCKETS_Send` either delivers or fails.
- *Creation of a shadow client that fails half-way*, and two registrars at a time.
- *Wi-Fi management* (join, scan, ping): sequences of commands under both mutexes.
- *TLS, PKCS #11, the other ports and PALs*: glue over libraries and hardware; seen by the
  models as calls that may fail.
- *FreeRTOS kernel*: upstream, and its many ports are not for this processor; modelled as
  its users see it (queue, notification, semaphore, critical section). *FreeRTOS+TCP,
  FreeRTOS+POSIX*: not built for this kit. *Demos, third-party code, register headers*: left
  aside. These are by far the most of the repository's lines, which is why the models
  cover a small share of them.

## 14. Plan

Done, in this order: the agent with its abstract specification, the pool, subscriptions
and topic filters; the receive path with its refinement proved; the clocks; OTA with
bootloader and flash; the shadow client; the defender; the Wi-Fi sockets; then the proofs
of their safety properties.

What would come next:

- An abstract specification of a byte stream per socket which `WiFiSockets` implements up
  to its mishaps, and liveness of its calls, with the time-outs' clocks.
- `MQTTKeepAlive` with several connections that share one sleep.
