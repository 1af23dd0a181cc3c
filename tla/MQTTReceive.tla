----------------------------- MODULE MQTTReceive -----------------------------
(***************************************************************************)
(* The receive path of the MQTT library: MQTT_ParseReceivedData puts the   *)
(* packets of a connection together from the pieces in which the socket    *)
(* delivers their bytes, in a buffer of the pool, or drops them when there *)
(* is none, and hands each on.                                             *)
(*                                                                         *)
(* Source: lib/mqtt/aws_mqtt_lib.c.  One action is one turn of the loop.   *)
(* Which request a received ACK answers is the concern of module MQTTAgent;*)
(* here "awaited" says that one was found in the transmit list.  The topic *)
(* and the payload of a PUBLISH are bytes that are passed on.              *)
(***************************************************************************)
EXTENDS Integers, Sequences

CONSTANTS
    Connections,    \* the connections of this instance
    Sent,           \* per connection: the packets its server sends
    Stream,         \* per connection: the bytes of them
    Start,          \* per connection and packet: the bytes before it, and in all
    RX_BUFFER_SIZE, \* mqttconfigRX_BUFFER_SIZE: the most bytes of one call
    BUFFER_SIZE,    \* the longest packet a buffer of the pool can hold
    NUM_BUFFERS     \* bufferpoolconfigNUM_BUFFERS

VARIABLES
    connection, \* the current, or last, connection
    connected,  \* xConnectionState # eMQTTNotConnected
    inCall,     \* MQTT_ParseReceivedData is executing
    arrived,    \* the end of pucReceivedData in the stream
    next,       \* the byte of the stream xProcessedBytes stands at
    header,     \* ucRxFixedHeaderBuffer
    received,   \* ulRxMessageReceivedLength
    nextByte,   \* xRxMessageState.xRxNextByte
    action,     \* xRxMessageState.xRxMessageAction
    fieldBytes, \* xRxMessageState.ucRemaingingLengthFieldBytes
    total,      \* xRxMessageState.ulTotalMessageLength
    rxBuffer,   \* the data of xRxBuffer; << >> = NULL
    out,        \* buffers of the pool in use
    taken,      \* those of them whose ownership a callback took
    handled,    \* packets of the connection the callback was told of
    event       \* what the last of them came to

callVars   == <<inCall, arrived>>
rxVars     == <<header, received, nextByte, action, fieldBytes, total, rxBuffer>>
bufferVars == <<out, taken>>
userVars   == <<handled, event>>
vars == <<connection, connected, inCall, arrived, next, header, received, nextByte,
          action, fieldBytes, total, rxBuffer, out, taken, handled, event>>

Packets == INSTANCE MQTTPackets WITH
    open <- connected,
    lent <- out - (IF rxBuffer = << >> THEN 0 ELSE 1)

FIXED_HEADER_MAX_SIZE == 5
REMAINING_LENGTH_MAX_BYTES == 4

-----------------------------------------------------------------------------
(* The bytes a server may send.                                             *)

Byte == 0 .. 255

ASSUME SizesAssumption ==
    /\ RX_BUFFER_SIZE \in Nat \ {0}
    /\ BUFFER_SIZE \in Nat
    /\ NUM_BUFFERS \in Nat

\* A Remaining Length field of one to four digits that gives the length of the
\* body, or one that is malformed and ends the packet.
FieldFits(p) ==
    LET n == Len(p.field) IN
    /\ n \in 1 .. REMAINING_LENGTH_MAX_BYTES
    /\ \A k \in 1 .. (n - 1) : Packets!Continues(p.field[k])
    /\ IF Packets!Continues(p.field[n]) THEN n = REMAINING_LENGTH_MAX_BYTES /\ p.body = << >>
       ELSE Len(p.body) = Packets!Value(p.field)

ASSUME PacketsAssumption == \A c \in Connections :
    /\ Sent[c] \in Seq([first : Byte, field : Seq(Byte), body : Seq(Byte)])
    /\ \A i \in 1 .. Len(Sent[c]) : FieldFits(Sent[c][i])

\* The stream is the packets, one after the other.
ASSUME StreamAssumption == \A c \in Connections :
    LET n == Len(Sent[c]) IN
    /\ Start[c] \in [1 .. (n + 1) -> Nat]
    /\ Stream[c] \in Seq(Byte)
    /\ Start[c][1] = 0 /\ Start[c][n + 1] = Len(Stream[c])
    /\ \A i \in 1 .. n :
          /\ Start[c][i + 1] = Start[c][i] + Len(Packets!Bytes(Sent[c][i]))
          /\ Start[c][i + 1] <= Len(Stream[c])
          /\ \A k \in 1 .. Len(Packets!Bytes(Sent[c][i])) :
                Stream[c][Start[c][i] + k] = Packets!Bytes(Sent[c][i])[k]

-----------------------------------------------------------------------------
Init ==
    /\ connection \in Connections
    /\ connected = FALSE
    /\ inCall = FALSE
    /\ arrived = 0
    /\ next = 0
    /\ header = [k \in 1 .. FIXED_HEADER_MAX_SIZE |-> 0]
    /\ received = 0
    /\ nextByte = "PacketType"
    /\ action = "Store"
    /\ fieldBytes = 0
    /\ total = 0
    /\ rxBuffer = << >>
    /\ out = 0
    /\ taken = 0
    /\ handled = 0
    /\ event = Packets!NoEvent

\* prvResetRxMessageState
ResetRxMessageState ==
    /\ fieldBytes' = 0
    /\ total' = 0
    /\ action' = "Store"
    /\ nextByte' = "PacketType"
    /\ received' = 0
    /\ rxBuffer' = << >>

BugResetMQTTContext(buffer) ==   \* mutant: the receive buffer is not returned
    /\ connected' = FALSE
    /\ UNCHANGED out
    /\ ResetRxMessageState

\* prvResetMQTTContext, when xRxBuffer holds what is given
ResetMQTTContext(buffer) ==
    /\ connected' = FALSE
    /\ out' = out - (IF buffer = << >> THEN 0 ELSE 1)
    /\ ResetRxMessageState

\* A callback: the packet that began where the last one ended is done with.
Tell(fate, bytes) ==
    /\ handled' = handled + 1
    /\ event' = [fate |-> fate, bytes |-> bytes]

-----------------------------------------------------------------------------
(* Between the calls.                                                       *)

\* MQTT_Connect sets the state of the connection and no other field of these.
Connect(c) ==
    /\ ~connected /\ ~inCall
    /\ connection' = c
    /\ connected' = TRUE
    /\ arrived' = 0 /\ next' = 0
    /\ handled' = 0 /\ event' = Packets!NoEvent
    /\ UNCHANGED <<inCall, rxVars, bufferVars>>

\* MQTT_Disconnect, or a CONNECT that times out in MQTT_Periodic.
Disconnect ==
    /\ connected /\ ~inCall
    /\ ResetMQTTContext(rxBuffer)
    /\ UNCHANGED <<connection, callVars, next, header, taken, userVars>>

\* The agent has read some bytes from the socket.
Receive ==
    /\ connected /\ ~inCall
    /\ \E n \in 1 .. RX_BUFFER_SIZE :
          /\ arrived + n <= Len(Stream[connection])
          /\ arrived' = arrived + n
    /\ inCall' = TRUE
    /\ UNCHANGED <<connection, connected, next, rxVars, bufferVars, userVars>>

\* The bytes are used up, or the client is not connected (any more).
Return ==
    /\ inCall
    /\ next = arrived \/ ~connected
    /\ inCall' = FALSE
    /\ UNCHANGED <<connection, connected, arrived, next, rxVars, bufferVars, userVars>>

\* MQTT_ReturnBuffer, called by the application for a buffer it took over.
ReturnBuffer ==
    /\ taken > 0
    /\ taken' = taken - 1
    /\ out' = out - 1
    /\ UNCHANGED <<connection, connected, callVars, next, rxVars, userVars>>

-----------------------------------------------------------------------------
(* The loop.                                                                *)

AtByte(what) == inCall /\ connected /\ next < arrived /\ nextByte = what

\* The next byte goes into the fixed header buffer.
CopyHeaderByte ==
    /\ header' = [header EXCEPT ![received + 1] = Stream[connection][next + 1]]
    /\ next' = next + 1

PacketType ==
    /\ AtByte("PacketType")
    /\ CopyHeaderByte
    /\ received' = received + 1
    /\ nextByte' = "PacketLength"
    /\ UNCHANGED <<connection, connected, callVars, action, fieldBytes, total, rxBuffer,
                   bufferVars, userVars>>

LengthByte == AtByte("PacketLength") /\ CopyHeaderByte

HasContinuationBit(byte) == byte >= 128

\* The field cannot span more than four bytes.
FieldIsFull(n) == n >= FIXED_HEADER_MAX_SIZE

FieldContinues ==
    /\ LengthByte
    /\ HasContinuationBit(header'[received + 1])
    /\ ~FieldIsFull(received + 1)
    /\ received' = received + 1
    /\ UNCHANGED <<connection, connected, callVars, nextByte, action, fieldBytes, total,
                   rxBuffer, bufferVars, userVars>>

FieldIsMalformed ==
    /\ LengthByte
    /\ HasContinuationBit(header'[received + 1])
    /\ FieldIsFull(received + 1)
    /\ ResetMQTTContext(rxBuffer)
    /\ Tell("Malformed", << >>)
    /\ UNCHANGED <<connection, callVars, taken>>

\* prvDecodeRemainingLength: the field ends with its n-th byte and says ...
FieldEndsAt(buffer, n) ==
    /\ ~HasContinuationBit(buffer[n + 1])
    /\ \A k \in 1 .. (n - 1) : HasContinuationBit(buffer[k + 1])

DecodedLength(buffer, n) ==
    LET Bits(x, weight) == IF n < x THEN 0 ELSE weight * (buffer[x + 1] % 128)
    IN  Bits(1, 1) + Bits(2, 128) + Bits(3, 16384) + Bits(4, 2097152)

\* The last byte of the field, which has n of them.
FieldEnds(n) ==
    /\ LengthByte
    /\ ~HasContinuationBit(header'[received + 1])
    /\ FieldEndsAt(header', n)

FieldLengths == 1 .. REMAINING_LENGTH_MAX_BYTES

\* A packet that is only a fixed header is processed at once.
HeaderOnly ==
    /\ \E n \in FieldLengths : FieldEnds(n) /\ DecodedLength(header', n) = 0
    /\ IF header'[1] = 208 /\ header'[2] = 0
       THEN /\ Tell("Delivered", <<208, 0>>)
            /\ ResetRxMessageState
            /\ UNCHANGED <<connected, out>>
       ELSE Tell("Malformed", << >>) /\ ResetMQTTContext(rxBuffer)
    /\ UNCHANGED <<connection, callVars, taken>>

\* The rest of the packet will be stored or dropped.
AwaitRest(what) ==
    /\ \E n \in FieldLengths :
          /\ FieldEnds(n)
          /\ fieldBytes' = n
          /\ DecodedLength(header', n) > 0
          /\ total' = DecodedLength(header', n) + received + 1
    /\ received' = received + 1
    /\ nextByte' = "Message"
    /\ action' = what
    /\ UNCHANGED <<connection, connected, callVars, taken, userVars>>

\* prvGetFreeBuffer finds a buffer that is large enough.
GetBuffer ==
    /\ AwaitRest("Store")
    /\ total' <= BUFFER_SIZE
    /\ out < NUM_BUFFERS
    /\ out' = out + 1
    /\ rxBuffer' = [k \in 1 .. received' |-> header'[k]]

\* It finds none: others use the pool too.
GetNoBuffer == AwaitRest("Drop") /\ UNCHANGED <<rxBuffer, out>>

\* The bytes that the packet lacks and those that are there.
Expected(have) == total - have
Unprocessed    == arrived - next

\* mqttCOPY_BYTES of n bytes behind those in the receive buffer
Stored(n) == [k \in 1 .. (Len(rxBuffer) + n) |->
                 IF k <= Len(rxBuffer) THEN rxBuffer[k]
                 ELSE Stream[connection][next + k - Len(rxBuffer)]]

Storing == AtByte("Message") /\ action = "Store"

StoreSome ==
    /\ Storing
    /\ Unprocessed < Expected(Len(rxBuffer))
    /\ rxBuffer' = Stored(Unprocessed)
    /\ next' = arrived
    /\ UNCHANGED <<connection, connected, callVars, header, received, nextByte, action,
                   fieldBytes, total, bufferVars, userVars>>

ADJUST_OFFSET(offset, n) == offset + n - 1

IsPublish(packet) == packet[1] \in 48 .. 63
QoSBits(packet)   == (packet[1] \div 2) % 4

\* prvProcessReceivedPublish, -CONNACK, -SUBACK, -PUBACK and -UNSUBACK: the
\* packet is one the library knows and not malformed.
IsValid(packet, n, awaited) ==
    \/ IsPublish(packet) /\ QoSBits(packet) \in {0, 1}
    \/ /\ packet[1] = 32
       /\ awaited => Len(packet) >= 4 /\ packet[2] = 2 /\ packet[4] <= 5
    \/ /\ packet[1] = 144
       /\ Len(packet) > ADJUST_OFFSET(4, n)
       /\ awaited => packet[ADJUST_OFFSET(4, n) + 1] \in {0, 1, 128}
    \/ packet[1] \in {64, 176} /\ Len(packet) >= 4 /\ packet[2] = 2

IsRefusal(packet, awaited) == packet[1] = 32 /\ awaited /\ packet[4] # 0

\* The packet is complete: prvProcessReceivedMQTTPacket
StoreRest(packet) ==
    /\ Storing
    /\ Unprocessed >= Expected(Len(rxBuffer))
    /\ next' = next + Expected(Len(rxBuffer))
    /\ UNCHANGED <<connection, callVars, header>>

Deliver(packet, awaited) ==
    /\ StoreRest(packet)
    /\ IsValid(packet, fieldBytes, awaited) /\ ~IsRefusal(packet, awaited)
    /\ Tell("Delivered", packet)
    /\ \/ out' = out - 1 /\ UNCHANGED taken
       \/ IsPublish(packet) /\ taken' = taken + 1 /\ UNCHANGED out
    /\ ResetRxMessageState
    /\ UNCHANGED connected

Refuse(packet, awaited) ==
    /\ StoreRest(packet)
    /\ IsValid(packet, fieldBytes, awaited) /\ IsRefusal(packet, awaited)
    /\ Tell("Refused", << >>)
    /\ ResetMQTTContext(packet)
    /\ UNCHANGED taken

Reject(packet, awaited) ==
    /\ StoreRest(packet)
    /\ ~IsValid(packet, fieldBytes, awaited)
    /\ Tell("Malformed", << >>)
    /\ ResetMQTTContext(packet)
    /\ UNCHANGED taken

ProcessPacket(awaited) ==
    LET packet == Stored(Expected(Len(rxBuffer))) IN
    Deliver(packet, awaited) \/ Refuse(packet, awaited) \/ Reject(packet, awaited)

Dropping == AtByte("Message") /\ action = "Drop"

DropSome ==
    /\ Dropping
    /\ Unprocessed < Expected(received)
    /\ received' = received + Unprocessed
    /\ next' = arrived
    /\ UNCHANGED <<connection, connected, callVars, header, nextByte, action, fieldBytes,
                   total, rxBuffer, bufferVars, userVars>>

DropRest ==
    /\ Dropping
    /\ Unprocessed >= Expected(received)
    /\ next' = next + Expected(received)
    /\ Tell("Dropped", << >>)
    /\ ResetRxMessageState
    /\ UNCHANGED <<connection, connected, callVars, header, bufferVars>>

Next ==
    \/ \E c \in Connections : Connect(c)
    \/ Disconnect \/ Receive \/ Return \/ ReturnBuffer
    \/ PacketType \/ FieldContinues \/ FieldIsMalformed \/ HeaderOnly
    \/ GetBuffer \/ GetNoBuffer
    \/ StoreSome \/ DropSome \/ DropRest
    \/ \E awaited \in BOOLEAN : ProcessPacket(awaited)

Spec == Init /\ [][Next]_vars

-----------------------------------------------------------------------------
\* Every variable has its type, every index and every copy stays within its
\* buffer, and the assertions of MQTT_ParseReceivedData hold.
TypeOK ==
    /\ connection \in Connections
    /\ connected \in BOOLEAN /\ inCall \in BOOLEAN
    /\ arrived \in 0 .. Len(Stream[connection]) /\ next \in 0 .. arrived
    /\ header \in [1 .. FIXED_HEADER_MAX_SIZE -> Byte]
    /\ nextByte \in {"PacketType", "PacketLength", "Message"}
    /\ action \in {"Store", "Drop"}
    /\ fieldBytes \in 0 .. REMAINING_LENGTH_MAX_BYTES
    /\ total \in Nat /\ received \in Nat
    /\ rxBuffer \in Seq(Byte) /\ Len(rxBuffer) <= BUFFER_SIZE
    /\ out \in 0 .. NUM_BUFFERS /\ taken \in 0 .. NUM_BUFFERS
    /\ handled \in 0 .. Len(Sent[connection])
    /\ nextByte = "PacketType" => received = 0 /\ rxBuffer = << >>
    /\ nextByte = "PacketLength" => received < FIXED_HEADER_MAX_SIZE

\* MQTT_ParseReceivedData keeps the promise of module MQTTPackets: however TCP
\* cuts the stream, also within a fixed header, and whatever became of the
\* connection before, each packet is told of once, in order, with its bytes.
HandlesEveryPacket == Packets!Spec
=============================================================================
