-------------------------- MODULE MQTTReceiveProofs --------------------------
(***************************************************************************)
(* MQTT_ParseReceivedData keeps the promise of module MQTTPackets for every*)
(* stream of packets, every way of cutting it into calls and every size of *)
(* the buffers.                                                            *)
(***************************************************************************)
EXTENDS MQTTReceive, SequenceTheorems, TLAPS

-----------------------------------------------------------------------------
(* The stream.                                                              *)

\* A concatenation has the elements of its parts.
LEMMA Concatenation ==
  ASSUME NEW S, NEW s \in Seq(S), NEW t \in Seq(S)
  PROVE  /\ s \o t \in Seq(S) /\ Len(s \o t) = Len(s) + Len(t)
         /\ \A k \in 1 .. Len(s) : (s \o t)[k] = s[k]
         /\ \A k \in 1 .. Len(t) : (s \o t)[Len(s) + k] = t[k]
<1>1. Len(s) \in Nat /\ Len(t) \in Nat
  BY LenProperties
<1>2. s \o t \in Seq(S) /\ Len(s \o t) = Len(s) + Len(t)
  BY ConcatProperties
<1>3. \A j \in 1 .. (Len(s) + Len(t)) :
         (s \o t)[j] = IF j <= Len(s) THEN s[j] ELSE t[j - Len(s)]
  BY ConcatProperties
<1>4. ASSUME NEW k \in 1 .. Len(s) PROVE (s \o t)[k] = s[k]
  <2>1. k \in 1 .. (Len(s) + Len(t)) /\ k <= Len(s)
    BY <1>1
  <2>. QED
    BY <2>1, <1>3
<1>5. ASSUME NEW k \in 1 .. Len(t) PROVE (s \o t)[Len(s) + k] = t[k]
  <2>1. Len(s) + k \in 1 .. (Len(s) + Len(t)) /\ ~(Len(s) + k <= Len(s))
    BY <1>1
  <2>2. (s \o t)[Len(s) + k] = t[(Len(s) + k) - Len(s)]
    BY <2>1, <1>3
  <2>3. (Len(s) + k) - Len(s) = k
    BY <1>1
  <2>. QED
    BY <2>2, <2>3
<1>. QED
  BY <1>2, <1>4, <1>5

\* The parts of a packet in its bytes.
\* What the assumptions say of the i-th packet of connection c.
Facts(c, i) ==
  LET p == Sent[c][i]
      w == Packets!Bytes(p)
      n == Len(p.field)
  IN  /\ p.first \in Byte /\ p.field \in Seq(Byte) /\ p.body \in Seq(Byte)
      /\ n \in FieldLengths
      /\ \A k \in 1 .. (n - 1) : p.field[k] >= 128
      /\ p.field[n] >= 128 => n = REMAINING_LENGTH_MAX_BYTES /\ p.body = << >>
      /\ p.field[n] < 128 => Len(p.body) = Packets!Value(p.field)
      /\ w \in Seq(Byte) /\ Len(w) = 1 + n + Len(p.body)
      /\ w[1] = p.first
      /\ \A k \in 1 .. n : w[k + 1] = p.field[k]
      /\ \A k \in 1 .. Len(p.body) : w[1 + n + k] = p.body[k]
      /\ Start[c][i] \in Nat /\ Start[c][i + 1] = Start[c][i] + Len(w)
      /\ Start[c][i + 1] <= Len(Stream[c])
      /\ \A k \in 1 .. Len(w) : Stream[c][Start[c][i] + k] = w[k]

LEMMA BytesShape ==
  ASSUME NEW first \in Byte, NEW field \in Seq(Byte), NEW body \in Seq(Byte)
  PROVE  LET w == <<first>> \o field \o body
         IN  /\ w \in Seq(Byte) /\ Len(w) = 1 + Len(field) + Len(body)
             /\ w[1] = first
             /\ \A k \in 1 .. Len(field) : w[k + 1] = field[k]
             /\ \A k \in 1 .. Len(body) : w[1 + Len(field) + k] = body[k]
<1> DEFINE u == <<first>>
           v == u \o field
<1>1. u \in Seq(Byte) /\ Len(u) = 1 /\ u[1] = first
  OBVIOUS
<1>2. /\ v \in Seq(Byte) /\ Len(v) = 1 + Len(field) /\ v[1] = first
      /\ \A k \in 1 .. Len(field) : v[k + 1] = field[k]
  <2> HIDE DEF u
  <2>1. /\ v \in Seq(Byte) /\ Len(v) = Len(u) + Len(field)
        /\ \A k \in 1 .. Len(u) : v[k] = u[k]
        /\ \A k \in 1 .. Len(field) : v[Len(u) + k] = field[k]
    BY <1>1, Concatenation
  <2>2. v[1] = first
    BY <1>1, <2>1
  <2>3. ASSUME NEW k \in 1 .. Len(field) PROVE v[k + 1] = field[k]
    <3>1. Len(u) + k = k + 1
      BY <1>1
    <3>. QED
      BY <2>1, <3>1
  <2> HIDE DEF v
  <2>. QED
    BY <1>1, <2>1, <2>2, <2>3
<1>3. /\ v \o body \in Seq(Byte) /\ Len(v \o body) = Len(v) + Len(body)
      /\ \A k \in 1 .. Len(v) : (v \o body)[k] = v[k]
      /\ \A k \in 1 .. Len(body) : (v \o body)[Len(v) + k] = body[k]
  <2>1. v \in Seq(Byte) /\ body \in Seq(Byte)
    BY <1>2
  <2> HIDE DEF v
  <2>. QED
    BY <2>1, Concatenation
<1>. QED
  <2>1. Len(field) \in Nat /\ Len(body) \in Nat
    OBVIOUS
  <2> HIDE DEF v
  <2>2. LET w == v \o body
        IN  /\ w \in Seq(Byte) /\ Len(w) = 1 + Len(field) + Len(body)
            /\ w[1] = first
            /\ \A k \in 1 .. Len(field) : w[k + 1] = field[k]
            /\ \A k \in 1 .. Len(body) : w[1 + Len(field) + k] = body[k]
    BY <1>2, <1>3, <2>1
  <2>. QED
    BY <2>2 DEF v

LEMMA PacketFacts ==
  ASSUME NEW c \in Connections, NEW i \in 1 .. Len(Sent[c])
  PROVE  Facts(c, i)
<1> DEFINE p == Sent[c][i]
           w == Packets!Bytes(p)
           n == Len(p.field)
<1>1. p \in [first : Byte, field : Seq(Byte), body : Seq(Byte)] /\ FieldFits(p)
  <2>1. /\ Sent[c] \in Seq([first : Byte, field : Seq(Byte), body : Seq(Byte)])
        /\ FieldFits(Sent[c][i])
    BY PacketsAssumption
  <2> DEFINE R == [first : Byte, field : Seq(Byte), body : Seq(Byte)]
  <2>2. Sent[c] \in Seq(R)
    BY <2>1
  <2>3. Sent[c][i] \in R
    <3> HIDE DEF R
    <3>. QED  BY <2>2
  <2>. QED
    BY <2>1, <2>3
<1>2. /\ p.first \in Byte /\ p.field \in Seq(Byte) /\ p.body \in Seq(Byte)
      /\ n \in FieldLengths
      /\ \A k \in 1 .. (n - 1) : p.field[k] >= 128
      /\ p.field[n] >= 128 => n = REMAINING_LENGTH_MAX_BYTES /\ p.body = << >>
      /\ p.field[n] < 128 => Len(p.body) = Packets!Value(p.field)
  <2>1. p.first \in Byte /\ p.field \in Seq(Byte) /\ p.body \in Seq(Byte)
    BY <1>1
  <2>2. n \in FieldLengths
    BY <1>1 DEF FieldFits, FieldLengths
  <2>3. \A k \in 1 .. n : p.field[k] \in Byte
    BY <2>1, <2>2 DEF FieldLengths, REMAINING_LENGTH_MAX_BYTES
  <2>4. \A k \in 1 .. (n - 1) : p.field[k] >= 128
    BY <1>1 DEF FieldFits, Packets!Continues
  <2>5. IF p.field[n] >= 128 THEN n = REMAINING_LENGTH_MAX_BYTES /\ p.body = << >>
        ELSE Len(p.body) = Packets!Value(p.field)
    BY <1>1 DEF FieldFits, Packets!Continues
  <2>6. p.field[n] \in Int
    <3>1. n \in 1 .. n
      BY <2>2 DEF FieldLengths, REMAINING_LENGTH_MAX_BYTES
    <3>2. p.field[n] \in Byte
      BY <2>3, <3>1
    <3>3. \A b \in Byte : b \in Int
      BY DEF Byte
    <3>. QED
      BY <3>2, <3>3
  <2>7. p.field[n] < 128 => ~(p.field[n] >= 128)
    BY <2>6
  <2>. QED
    BY <2>1, <2>2, <2>4, <2>5, <2>7
<1>3. /\ w \in Seq(Byte) /\ Len(w) = 1 + n + Len(p.body)
      /\ w[1] = p.first
      /\ \A k \in 1 .. n : w[k + 1] = p.field[k]
      /\ \A k \in 1 .. Len(p.body) : w[1 + n + k] = p.body[k]
  <2>1. w = <<p.first>> \o p.field \o p.body
    BY DEF Packets!Bytes
  <2>2. p.first \in Byte /\ p.field \in Seq(Byte) /\ p.body \in Seq(Byte)
    BY <1>2
  <2>3. LET v == <<p.first>> \o p.field \o p.body
        IN  /\ v \in Seq(Byte) /\ Len(v) = 1 + Len(p.field) + Len(p.body)
            /\ v[1] = p.first
            /\ \A k \in 1 .. Len(p.field) : v[k + 1] = p.field[k]
            /\ \A k \in 1 .. Len(p.body) : v[1 + Len(p.field) + k] = p.body[k]
    <3> HIDE DEF p
    <3>. QED
      BY <2>2, BytesShape, Zenon
  <2>. QED
    BY <2>1, <2>3, Zenon
<1>4. /\ Start[c][i] \in Nat /\ Start[c][i + 1] = Start[c][i] + Len(w)
      /\ Start[c][i + 1] <= Len(Stream[c])
      /\ \A k \in 1 .. Len(w) : Stream[c][Start[c][i] + k] = w[k]
  <2>1. Len(Sent[c]) \in Nat
    BY PacketsAssumption
  <2>2. i \in 1 .. (Len(Sent[c]) + 1)
    BY <2>1
  <2>3. Start[c] \in [1 .. (Len(Sent[c]) + 1) -> Nat]
    BY StreamAssumption
  <2>4. Start[c][i] \in Nat
    BY <2>2, <2>3
  <2>. QED
    BY <2>4, StreamAssumption
<1>. QED
  BY <1>2, <1>3, <1>4 DEF Facts

-----------------------------------------------------------------------------
(* The invariant.                                                           *)

Packet == Sent[connection][handled + 1]
Wire   == Packets!Bytes(Packet)
Begin  == Start[connection][handled + 1]

\* The first n bytes of the current packet.
Prefix(buffer, n) == \A k \in 1 .. n : buffer[k] = Wire[k]

\* No packet has begun.
AtPacket ==
  /\ received = 0 /\ rxBuffer = << >>
  /\ next = Begin

\* Its fixed header is being read.
InHeader ==
  /\ handled < Len(Sent[connection])
  /\ received \in 1 .. Len(Packet.field)
  /\ rxBuffer = << >>
  /\ next = Begin + received
  /\ Prefix(header, received)

\* Its fixed header is known.
HeaderIsRead ==
  /\ handled < Len(Sent[connection])
  /\ fieldBytes = Len(Packet.field)
  /\ Packet.field[fieldBytes] < 128
  /\ total = Len(Wire)

\* Its bytes are in the receive buffer.
InStore ==
  /\ HeaderIsRead /\ total <= BUFFER_SIZE
  /\ Len(rxBuffer) > fieldBytes /\ Len(rxBuffer) < total
  /\ next = Begin + Len(rxBuffer)
  /\ Prefix(rxBuffer, Len(rxBuffer))

\* Its bytes are skipped.
InDrop ==
  /\ HeaderIsRead
  /\ rxBuffer = << >>
  /\ received > fieldBytes /\ received < total
  /\ next = Begin + received

InStream ==
  /\ nextByte = "PacketType" => AtPacket
  /\ nextByte = "PacketLength" => InHeader
  /\ nextByte = "Message" /\ action = "Store" => InStore
  /\ nextByte = "Message" /\ action = "Drop" => InDrop

Types ==
  /\ connection \in Connections
  /\ connected \in BOOLEAN /\ inCall \in BOOLEAN
  /\ arrived \in 0 .. Len(Stream[connection]) /\ next \in 0 .. arrived
  /\ header \in [1 .. FIXED_HEADER_MAX_SIZE -> Byte]
  /\ nextByte \in {"PacketType", "PacketLength", "Message"}
  /\ action \in {"Store", "Drop"}
  /\ fieldBytes \in 0 .. REMAINING_LENGTH_MAX_BYTES
  /\ total \in Nat /\ received \in Nat
  /\ rxBuffer \in Seq(Byte)
  /\ out \in 0 .. NUM_BUFFERS /\ taken \in Nat
  /\ handled \in 0 .. Len(Sent[connection])

\* What a connection leaves behind: the next one starts with a new packet.
Clean == ~connected => nextByte = "PacketType" /\ received = 0 /\ rxBuffer = << >>

\* A buffer is in use for the packet that is read, or with the application.
BuffersAreKept == out = taken + (IF rxBuffer = << >> THEN 0 ELSE 1)

IInv ==
  /\ Types
  /\ Clean
  /\ BuffersAreKept
  /\ connected => InStream
  /\ connected /\ ~inCall => next = arrived

\* The current packet and its place in the stream.
LEMMA Current ==
  ASSUME IInv, handled < Len(Sent[connection])
  PROVE  /\ Facts(connection, handled + 1)
         /\ handled + 1 \in 1 .. Len(Sent[connection])
         /\ Start[connection][handled + 2] = Begin + Len(Wire)
         /\ Begin \in Nat /\ Len(Wire) \in Nat
<1>1. handled \in Nat /\ Len(Sent[connection]) \in Nat /\ connection \in Connections
  BY PacketsAssumption DEF IInv, Types
<1>2. handled + 1 \in 1 .. Len(Sent[connection]) /\ (handled + 1) + 1 = handled + 2
  BY <1>1
<1>3. Facts(connection, handled + 1)
  BY <1>1, <1>2, PacketFacts
<1>. QED
  BY <1>2, <1>3, LenProperties DEF Facts, Begin, Wire, Packet

\* Another packet follows where the stream has not ended.
LEMMA MoreToCome ==
  ASSUME IInv, next = Begin, next < arrived
  PROVE  handled < Len(Sent[connection])
<1>1. /\ connection \in Connections /\ handled \in 0 .. Len(Sent[connection])
      /\ Len(Sent[connection]) \in Nat
  BY PacketsAssumption DEF IInv, Types
<1>2. Start[connection][Len(Sent[connection]) + 1] = Len(Stream[connection])
  BY <1>1, StreamAssumption
<1>3. Len(Stream[connection]) \in Nat /\ next < Len(Stream[connection])
  <2>1. Stream[connection] \in Seq(Byte)
    BY <1>1, StreamAssumption
  <2>. QED
    BY <2>1, LenProperties DEF IInv, Types
<1>. QED
  BY <1>1, <1>2, <1>3 DEF Begin

\* The next byte of the stream, in a packet of which n bytes have been read.
LEMMA ByteOfPacket ==
  ASSUME IInv, handled < Len(Sent[connection]), NEW n \in Nat, n < Len(Wire),
         next = Begin + n
  PROVE  Stream[connection][next + 1] = Wire[n + 1] /\ Wire[n + 1] \in Byte
<1>1. n + 1 \in 1 .. Len(Wire) /\ next + 1 = Begin + (n + 1)
  BY Current
<1>2. Stream[connection][Begin + (n + 1)] = Wire[n + 1]
  BY <1>1, Current DEF Facts, Begin, Wire, Packet
<1>3. Wire[n + 1] \in Byte
  BY <1>1, Current, ElementOfSeq DEF Facts, Wire, Packet
<1>. QED
  BY <1>1, <1>2, <1>3

\* The packet ends where the next one begins.
LEMMA NextBegin ==
  ASSUME IInv, handled < Len(Sent[connection]), handled' = handled + 1,
         UNCHANGED connection
  PROVE  /\ handled' \in 0 .. Len(Sent'[connection'])
         /\ Begin' = Begin + Len(Wire)
<1>1. handled \in Nat /\ Len(Sent[connection]) \in Nat
  BY PacketsAssumption DEF IInv, Types
<1>2. Begin' = Start[connection][(handled + 1) + 1] /\ (handled + 1) + 1 = handled + 2
  BY <1>1 DEF Begin
<1>. QED
  BY <1>1, <1>2, Current

LEMMA InitIInv == Init => IInv
<1> SUFFICES ASSUME Init PROVE IInv
  OBVIOUS
<1>1. connection \in Connections
  BY DEF Init
<1>2. Len(Stream[connection]) \in Nat /\ Len(Sent[connection]) \in Nat
  <2>1. Stream[connection] \in Seq(Byte)
    BY <1>1, StreamAssumption
  <2>. QED
    BY <1>1, <2>1, PacketsAssumption, LenProperties
<1>3. header \in [1 .. FIXED_HEADER_MAX_SIZE -> Byte]
  BY DEF Init, Byte
<1>4. 0 \in 0 .. REMAINING_LENGTH_MAX_BYTES /\ << >> \in Seq(Byte)
  BY DEF REMAINING_LENGTH_MAX_BYTES
<1>5. connected \in BOOLEAN /\ inCall \in BOOLEAN /\ arrived = 0 /\ next = 0
  BY DEF Init
<1>6. /\ nextByte = "PacketType" /\ action = "Store" /\ received = 0 /\ total = 0
      /\ rxBuffer = << >> /\ fieldBytes = 0 /\ out = 0 /\ taken = 0 /\ handled = 0
  BY DEF Init
<1>7. Types
  BY <1>1, <1>2, <1>3, <1>4, <1>5, <1>6, SizesAssumption DEF Types
<1>. QED
  BY <1>7 DEF Init, IInv, Clean, BuffersAreKept

\* A step that changes nothing of the packet that is read.
LEMMA ReaderIsUnchanged ==
  ASSUME InStream, UNCHANGED <<connection, next, rxVars, handled>>
  PROVE  InStream'
<1>1. /\ header' = header /\ received' = received /\ nextByte' = nextByte
      /\ action' = action /\ fieldBytes' = fieldBytes /\ total' = total
      /\ rxBuffer' = rxBuffer /\ next' = next /\ connection' = connection
      /\ handled' = handled
  BY DEF rxVars
<1>2. Packet' = Packet /\ Wire' = Wire /\ Begin' = Begin
  BY <1>1 DEF Packet, Wire, Begin
<1>. QED
  BY <1>1, <1>2
  DEF InStream, AtPacket, InHeader, InStore, InDrop, HeaderIsRead, Prefix

LEMMA ConnectIInv ==
  ASSUME IInv, NEW c \in Connections, Connect(c)
  PROVE  IInv'
<1>1. Len(Stream[c]) \in Nat /\ Len(Sent[c]) \in Nat /\ Start[c][1] = 0
  <2>1. Stream[c] \in Seq(Byte)
    BY StreamAssumption
  <2>. QED
    BY <2>1, StreamAssumption, PacketsAssumption, LenProperties
<1>2. InStream'
  <2>1. Begin' = 0
    <3>1. connection' = c /\ handled' = 0
      BY DEF Connect
    <3>. QED
      BY <1>1, <3>1 DEF Begin
  <2>. QED
    BY <2>1 DEF InStream, AtPacket, Connect, IInv, Clean, rxVars
<1>3. UNCHANGED <<inCall, header, received, nextByte, action, fieldBytes, total,
                  rxBuffer, out, taken>>
  BY DEF Connect, rxVars, bufferVars
<1>4. Types'
  BY <1>1, <1>3 DEF IInv, Connect, Types
<1>5. Clean' /\ BuffersAreKept'
  BY <1>3 DEF IInv, Connect, Clean, BuffersAreKept
<1>. QED
  BY <1>2, <1>4, <1>5 DEF IInv, Connect

\* The receive buffer goes back when the context is reset.
LEMMA ResetIInv ==
  ASSUME IInv, NEW buffer, buffer = << >> <=> rxBuffer = << >>,
         ResetMQTTContext(buffer), UNCHANGED <<connection, inCall, arrived, taken>>,
         header' \in [1 .. FIXED_HEADER_MAX_SIZE -> Byte], next' \in 0 .. arrived,
         handled' \in 0 .. Len(Sent[connection])
  PROVE  IInv'
<1>1. out' = taken' /\ out' \in 0 .. NUM_BUFFERS /\ taken' \in Nat
  BY SizesAssumption DEF IInv, Types, BuffersAreKept, ResetMQTTContext
<1>2. /\ fieldBytes' = 0 /\ total' = 0 /\ action' = "Store" /\ nextByte' = "PacketType"
      /\ received' = 0 /\ rxBuffer' = << >> /\ connected' = FALSE
  BY DEF ResetMQTTContext, ResetRxMessageState
<1>3. 0 \in 0 .. REMAINING_LENGTH_MAX_BYTES /\ << >> \in Seq(Byte)
  BY DEF REMAINING_LENGTH_MAX_BYTES
<1>4. Types'
  BY <1>1, <1>2, <1>3 DEF IInv, Types
<1>. QED
  BY <1>1, <1>2, <1>4 DEF IInv, Clean, BuffersAreKept

LEMMA DisconnectIInv ==
  ASSUME IInv, Disconnect
  PROVE  IInv'
BY ResetIInv DEF IInv, Disconnect, Types, callVars, userVars

LEMMA ReceiveIInv ==
  ASSUME IInv, Receive
  PROVE  IInv'
<1>1. InStream'
  BY ReaderIsUnchanged DEF IInv, Receive, userVars
<1>2. Len(Stream[connection]) \in Nat
  <2>1. Stream[connection] \in Seq(Byte)
    BY StreamAssumption DEF IInv, Types
  <2>. QED
    BY <2>1, LenProperties
<1>. QED
  BY <1>1, <1>2, SizesAssumption
  DEF IInv, Receive, Types, Clean, BuffersAreKept, rxVars, bufferVars, userVars

LEMMA ReturnIInv ==
  ASSUME IInv, Return
  PROVE  IInv'
<1>1. connected => InStream'
  BY ReaderIsUnchanged DEF IInv, Return, userVars
<1>. QED
  BY <1>1 DEF IInv, Return, Types, Clean, BuffersAreKept, rxVars, bufferVars, userVars

LEMMA ReturnBufferIInv ==
  ASSUME IInv, ReturnBuffer
  PROVE  IInv'
<1>1. connected => InStream'
  BY ReaderIsUnchanged DEF IInv, ReturnBuffer, userVars
<1>. QED
  BY <1>1, SizesAssumption
  DEF IInv, ReturnBuffer, Types, Clean, BuffersAreKept, callVars, rxVars, userVars

-----------------------------------------------------------------------------
(* The loop keeps the invariant.                                            *)

\* A byte of the fixed header is copied.
LEMMA HeaderByteIsCopied ==
  ASSUME IInv, handled < Len(Sent[connection]), received \in 0 .. Len(Packet.field),
         next = Begin + received, Prefix(header, received),
         next < arrived, CopyHeaderByte
  PROVE  /\ header' \in [1 .. FIXED_HEADER_MAX_SIZE -> Byte]
         /\ \A k \in 1 .. (received + 1) : header'[k] = Wire[k]
         /\ next' \in 0 .. arrived /\ next' = Begin + (received + 1)
<1>1. /\ Len(Packet.field) \in 1 .. 4 /\ Len(Packet.body) \in Nat
      /\ Len(Wire) = 1 + Len(Packet.field) + Len(Packet.body)
  <2>1. Facts(connection, handled + 1)
    BY Current
  <2>2. Packet.body \in Seq(Byte)
    BY <2>1 DEF Facts, Packet
  <2>. QED
    BY <2>1, <2>2, LenProperties
    DEF Facts, Packet, Wire, FieldLengths, REMAINING_LENGTH_MAX_BYTES
<1>2. received \in Nat /\ received < Len(Wire) /\ received + 1 \in 1 .. FIXED_HEADER_MAX_SIZE
  <2>1. \A m, n \in Nat : \A r \in 0 .. m :
           m <= 4 => r \in Nat /\ r < 1 + m + n /\ r + 1 \in 1 .. 5
    OBVIOUS
  <2>2. \A m \in 1 .. 4 : m \in Nat /\ m <= 4
    OBVIOUS
  <2>3. Len(Packet.field) \in Nat /\ Len(Packet.field) <= 4
    BY <1>1, <2>2, Zenon
  <2>. QED
    BY <1>1, <2>1, <2>3, Zenon DEF FIXED_HEADER_MAX_SIZE
<1>3. Stream[connection][next + 1] = Wire[received + 1] /\ Wire[received + 1] \in Byte
  BY <1>2, ByteOfPacket
<1>4. header \in [1 .. FIXED_HEADER_MAX_SIZE -> Byte]
  BY DEF IInv, Types
<1>5. header' = [header EXCEPT ![received + 1] = Wire[received + 1]]
  BY <1>3 DEF CopyHeaderByte
<1>6. header' \in [1 .. FIXED_HEADER_MAX_SIZE -> Byte]
  BY <1>3, <1>4, <1>5
<1>7. ASSUME NEW k \in 1 .. (received + 1) PROVE header'[k] = Wire[k]
  <2>1. k \in 1 .. FIXED_HEADER_MAX_SIZE /\ (k = received + 1 \/ k \in 1 .. received)
    BY <1>2 DEF FIXED_HEADER_MAX_SIZE
  <2>. QED
    BY <1>4, <1>5, <2>1 DEF Prefix
<1>8. next' \in 0 .. arrived /\ next' = Begin + (received + 1)
  <2>1. Begin \in Nat /\ arrived \in Int
    <3>1. Len(Stream[connection]) \in Int
      <4>1. Stream[connection] \in Seq(Byte)
        BY StreamAssumption DEF IInv, Types
      <4>. QED
        BY <4>1, LenProperties
    <3>. QED
      BY <3>1, Current DEF IInv, Types
  <2>. QED
    BY <1>2, <2>1 DEF CopyHeaderByte
<1>. QED
  BY <1>6, <1>7, <1>8

\* The shape of a fixed header that is being read.
LEMMA HeaderShape ==
  ASSUME IInv, connected, nextByte = "PacketLength"
  PROVE  /\ InHeader
         /\ received \in 0 .. Len(Packet.field)
         /\ Len(Packet.field) \in 1 .. 4 /\ Len(Packet.body) \in Nat
         /\ Len(Wire) = 1 + Len(Packet.field) + Len(Packet.body)
         /\ \A k \in 1 .. Len(Packet.field) : Wire[k + 1] = Packet.field[k]
         /\ \A k \in 1 .. (Len(Packet.field) - 1) : Packet.field[k] >= 128
         /\ \A k \in 1 .. Len(Packet.field) : Packet.field[k] \in Byte
<1>1. InHeader
  BY DEF IInv, InStream
<1>2. Facts(connection, handled + 1)
  BY <1>1, Current DEF InHeader
<1>3. Packet.body \in Seq(Byte) /\ Packet.field \in Seq(Byte)
  BY <1>2 DEF Facts, Packet
<1>4. Len(Packet.field) \in 1 .. 4
  BY <1>2 DEF Facts, Packet, FieldLengths, REMAINING_LENGTH_MAX_BYTES
<1>5. Len(Packet.body) \in Nat /\ Len(Wire) = 1 + Len(Packet.field) + Len(Packet.body)
  BY <1>2, <1>3, LenProperties DEF Facts, Packet, Wire
<1>6. received \in 0 .. Len(Packet.field)
  BY <1>1, <1>4 DEF InHeader
<1>. QED
  BY <1>1, <1>2, <1>3, <1>4, <1>5, <1>6, ElementOfSeq DEF Facts, Packet, Wire

\* One more byte of the field has been copied.
LEMMA LengthByteIsCopied ==
  ASSUME IInv, LengthByte
  PROVE  /\ header' \in [1 .. FIXED_HEADER_MAX_SIZE -> Byte]
         /\ \A k \in 1 .. (received + 1) : header'[k] = Wire[k]
         /\ header'[received + 1] = Packet.field[received]
         /\ next' \in 0 .. arrived /\ next' = Begin + (received + 1)
<1>1. InHeader /\ received \in 0 .. Len(Packet.field) /\ Len(Packet.field) \in 1 .. 4
  BY HeaderShape DEF LengthByte, AtByte
<1>2. /\ header' \in [1 .. FIXED_HEADER_MAX_SIZE -> Byte]
      /\ \A k \in 1 .. (received + 1) : header'[k] = Wire[k]
      /\ next' \in 0 .. arrived /\ next' = Begin + (received + 1)
  BY <1>1, HeaderByteIsCopied DEF LengthByte, AtByte, InHeader
<1>3. received \in 1 .. Len(Packet.field) /\ received + 1 \in 1 .. (received + 1)
  BY <1>1 DEF InHeader
<1>4. Wire[received + 1] = Packet.field[received]
  BY <1>3, HeaderShape DEF LengthByte, AtByte
<1>. QED
  BY <1>2, <1>3, <1>4

LEMMA PacketTypeIInv ==
  ASSUME IInv, PacketType
  PROVE  IInv'
<1>1. AtPacket /\ connected /\ next < arrived
  BY DEF IInv, InStream, PacketType, AtByte
<1>2. handled < Len(Sent[connection])
  BY <1>1, MoreToCome DEF AtPacket
<1>3. received = 0 /\ next = Begin + received
  <2>1. Begin \in Nat
    BY <1>2, Current
  <2>. QED
    BY <1>1, <2>1 DEF AtPacket
<1>4. Len(Packet.field) \in 1 .. 4
  BY <1>2, Current DEF Facts, Packet, FieldLengths, REMAINING_LENGTH_MAX_BYTES
<1>5. /\ header' \in [1 .. FIXED_HEADER_MAX_SIZE -> Byte]
      /\ \A k \in 1 .. (received + 1) : header'[k] = Wire[k]
      /\ next' \in 0 .. arrived /\ next' = Begin + (received + 1)
  BY <1>1, <1>2, <1>3, <1>4, HeaderByteIsCopied DEF Prefix, PacketType
<1>6. /\ received' = 1 /\ nextByte' = "PacketLength" /\ rxBuffer' = rxBuffer
      /\ UNCHANGED <<connection, connected, inCall, arrived, action, fieldBytes, total,
                     out, taken, handled>>
  BY <1>3 DEF PacketType, callVars, bufferVars, userVars
<1>7. Packet' = Packet /\ Wire' = Wire /\ Begin' = Begin
  BY <1>6 DEF Packet, Wire, Begin
<1>8. InStream'
  <2>1. received' \in 1 .. Len(Packet'.field)
    BY <1>4, <1>6, <1>7
  <2>2. InHeader'
    BY <1>1, <1>2, <1>3, <1>5, <1>6, <1>7, <2>1 DEF InHeader, AtPacket, Prefix
  <2>. QED
    BY <1>6, <2>2 DEF InStream
<1>9. Types'
  BY <1>5, <1>6 DEF IInv, Types
<1>. QED
  BY <1>1, <1>6, <1>8, <1>9 DEF IInv, Clean, BuffersAreKept, PacketType, AtByte

LEMMA FieldContinuesIInv ==
  ASSUME IInv, FieldContinues
  PROVE  IInv'
<1>1. LengthByte /\ connected /\ inCall
  BY DEF FieldContinues, LengthByte, AtByte
<1>2. /\ InHeader /\ received \in 1 .. Len(Packet.field) /\ Len(Packet.field) \in 1 .. 4
      /\ Facts(connection, handled + 1)
  BY <1>1, HeaderShape, Current DEF LengthByte, AtByte, InHeader
<1>3. received < Len(Packet.field)
  <2>1. Packet.field[received] >= 128 /\ received + 1 < FIXED_HEADER_MAX_SIZE
    BY <1>1, <1>2, LengthByteIsCopied
    DEF FieldContinues, HasContinuationBit, FieldIsFull, FIXED_HEADER_MAX_SIZE
  <2>2. Packet.field[Len(Packet.field)] >= 128 => Len(Packet.field) = 4
    BY <1>2 DEF Facts, Packet, REMAINING_LENGTH_MAX_BYTES
  <2>. QED
    BY <1>2, <2>1, <2>2 DEF FIXED_HEADER_MAX_SIZE
<1>4. /\ header' \in [1 .. FIXED_HEADER_MAX_SIZE -> Byte]
      /\ \A k \in 1 .. (received + 1) : header'[k] = Wire[k]
      /\ next' \in 0 .. arrived /\ next' = Begin + (received + 1)
  BY <1>1, LengthByteIsCopied
<1>5. /\ received' = received + 1 /\ nextByte' = nextByte /\ rxBuffer' = rxBuffer
      /\ UNCHANGED <<connection, connected, inCall, arrived, action, fieldBytes, total,
                     out, taken, handled>>
  BY DEF FieldContinues, callVars, bufferVars, userVars
<1>6. Packet' = Packet /\ Wire' = Wire /\ Begin' = Begin
  BY <1>5 DEF Packet, Wire, Begin
<1>7. nextByte = "PacketLength"
  BY <1>1 DEF LengthByte, AtByte
<1>8. InStream'
  <2>1. received' \in 1 .. Len(Packet'.field)
    BY <1>2, <1>3, <1>5, <1>6
  <2>2. InHeader'
    BY <1>2, <1>4, <1>5, <1>6, <2>1 DEF InHeader, Prefix
  <2>. QED
    BY <1>5, <1>7, <2>2 DEF InStream
<1>9. Types'
  BY <1>2, <1>4, <1>5 DEF IInv, Types
<1>. QED
  BY <1>1, <1>5, <1>8, <1>9 DEF IInv, Clean, BuffersAreKept

LEMMA FieldIsMalformedIInv ==
  ASSUME IInv, FieldIsMalformed
  PROVE  IInv'
<1>1. LengthByte /\ connected /\ nextByte = "PacketLength"
  BY DEF FieldIsMalformed, LengthByte, AtByte
<1>2. handled < Len(Sent[connection])
  BY <1>1, HeaderShape DEF InHeader
<1>3. handled' \in 0 .. Len(Sent[connection])
  BY <1>2, NextBegin DEF FieldIsMalformed, Tell
<1>4. header' \in [1 .. FIXED_HEADER_MAX_SIZE -> Byte] /\ next' \in 0 .. arrived
  BY <1>1, LengthByteIsCopied
<1>. QED
  BY <1>3, <1>4, ResetIInv DEF FieldIsMalformed, callVars

\* The field that has been decoded is that of the packet.
LEMMA FieldIsRead ==
  ASSUME IInv, NEW n \in FieldLengths, FieldEnds(n)
  PROVE  /\ n = received /\ n = Len(Packet.field)
         /\ Packet.field[n] < 128
         /\ DecodedLength(header', n) = Len(Packet.body)
<1>1. LengthByte /\ connected /\ nextByte = "PacketLength"
  BY DEF FieldEnds, LengthByte, AtByte
<1> DEFINE field == Packet.field
           m == Len(field)
<1>2. /\ received \in 1 .. m /\ m \in 1 .. 4
      /\ \A k \in 1 .. m : Wire[k + 1] = field[k]
      /\ \A k \in 1 .. (m - 1) : field[k] >= 128
      /\ \A k \in 1 .. m : field[k] \in Byte
  BY <1>1, HeaderShape DEF InHeader
<1>3. \A k \in 1 .. (received + 1) : header'[k] = Wire[k]
  BY <1>1, LengthByteIsCopied
<1>4. ASSUME NEW k \in 1 .. received
      PROVE  header'[k + 1] = field[k] /\ field[k] \in Byte
  <2>1. k + 1 \in 1 .. (received + 1) /\ k \in 1 .. m
    <3>1. \A a \in 1 .. 4 : \A b \in 1 .. a : \A c \in 1 .. b :
             c + 1 \in 1 .. (b + 1) /\ c \in 1 .. a
      OBVIOUS
    <3>. QED
      BY <1>2, <3>1, Zenon
  <2>. QED
    BY <1>2, <1>3, <2>1, Zenon
<1>5. \A k \in 1 .. received : HasContinuationBit(header'[k + 1]) <=> field[k] >= 128
  BY <1>4, Zenon DEF HasContinuationBit
<1>6. received \in 1 .. received /\ received \in 1 .. 4 /\ n \in 1 .. 4
  <2>1. \A a \in 1 .. 4 : \A b \in 1 .. a : b \in 1 .. b /\ b \in 1 .. 4
    OBVIOUS
  <2>. QED
    BY <1>2, <2>1, Zenon DEF FieldLengths, REMAINING_LENGTH_MAX_BYTES
<1>7. ~(field[received] >= 128)
  BY <1>5, <1>6, Zenon DEF FieldEnds
<1>8. m = received
  <2>1. \A a \in 1 .. 4 : \A b \in 1 .. a : b # a => b \in 1 .. (a - 1)
    OBVIOUS
  <2>. QED
    BY <1>2, <1>7, <2>1, Zenon
<1>9. n = received
  <2>1. CASE n < received
    <3>1. n \in 1 .. received /\ n \in 1 .. (m - 1)
      BY <1>6, <1>8, <2>1
    <3>2. HasContinuationBit(header'[n + 1])
      BY <1>2, <1>5, <3>1, Zenon
    <3>. QED
      BY <3>2 DEF FieldEnds, FieldEndsAt
  <2>2. CASE n > received
    <3>1. received \in 1 .. (n - 1)
      BY <1>6, <2>2
    <3>2. HasContinuationBit(header'[received + 1])
      BY <3>1 DEF FieldEnds, FieldEndsAt
    <3>. QED
      BY <3>2 DEF FieldEnds
  <2>. QED
    BY <1>6, <2>1, <2>2
<1>10. \A k \in 1 .. n : header'[k + 1] = field[k] /\ field[k] \in Byte
  BY <1>4, <1>9
<1>11. field[n] < 128
  <2>1. field[n] \in Int
    <3>1. \A b \in Byte : b \in Int
      BY DEF Byte
    <3>. QED
      BY <1>6, <1>9, <1>10, <3>1, Zenon
  <2>. QED
    BY <1>7, <1>9, <2>1
<1>12. Len(Packet.body) = Packets!Value(field)
  BY <1>1, <1>8, <1>9, <1>11, HeaderShape, Current DEF Facts, Packet, InHeader
<1>13. DecodedLength(header', n) = Packets!Value(field)
  <2>1. n = m
    BY <1>8, <1>9
  <2>2. n >= 1 /\ n <= 4
    BY <1>6
  <2>3. /\ n >= 1 => header'[2] = field[1]
        /\ n >= 2 => header'[3] = field[2]
        /\ n >= 3 => header'[4] = field[3]
        /\ n >= 4 => header'[5] = field[4]
    <3>1. \A k \in 1 .. n : header'[k + 1] = field[k]
      BY <1>10
    <3> HIDE DEF field
    <3>. QED
      BY <2>2, <3>1
  <2>. QED
    BY <2>1, <2>2, <2>3 DEF DecodedLength, Packets!Value
<1>. QED
  BY <1>8, <1>9, <1>11, <1>12, <1>13

\* A packet is done with, the connection stays.
LEMMA PacketIsDone ==
  ASSUME IInv, handled < Len(Sent[connection]), handled' = handled + 1,
         UNCHANGED <<connection, connected, inCall, arrived>>, ResetRxMessageState,
         header' \in [1 .. FIXED_HEADER_MAX_SIZE -> Byte],
         next' \in 0 .. arrived, next' = Begin + Len(Wire), inCall,
         out' \in 0 .. NUM_BUFFERS, taken' \in Nat, out' = taken'
  PROVE  IInv'
<1>1. /\ fieldBytes' = 0 /\ total' = 0 /\ action' = "Store" /\ nextByte' = "PacketType"
      /\ received' = 0 /\ rxBuffer' = << >>
  BY DEF ResetRxMessageState
<1>2. handled' \in 0 .. Len(Sent[connection]) /\ next' = Begin'
  BY NextBegin
<1>3. 0 \in 0 .. REMAINING_LENGTH_MAX_BYTES /\ << >> \in Seq(Byte)
  BY DEF REMAINING_LENGTH_MAX_BYTES
<1>4. Types'
  BY <1>1, <1>2, <1>3 DEF IInv, Types
<1>5. InStream'
  BY <1>1, <1>2 DEF InStream, AtPacket
<1>6. Clean'
  BY <1>1 DEF Clean
<1>7. BuffersAreKept'
  <2>1. \A n \in Nat : n + 0 = n
    OBVIOUS
  <2>. QED
    BY <1>1, <2>1, Zenon DEF BuffersAreKept
<1>8. inCall'
  OBVIOUS
<1>. QED
  BY <1>4, <1>5, <1>6, <1>7, <1>8 DEF IInv

\* The header of a packet without a body has been read.
LEMMA HeaderIsAll ==
  ASSUME IInv, HeaderOnly
  PROVE  /\ LengthByte /\ handled < Len(Sent[connection])
         /\ Len(Packet.body) = 0 /\ Len(Wire) = 1 + received /\ rxBuffer = << >>
         /\ received = Len(Packet.field) /\ Packet.field[received] < 128
<1>1. PICK n \in FieldLengths : FieldEnds(n) /\ DecodedLength(header', n) = 0
  BY DEF HeaderOnly
<1>2. n = received /\ n = Len(Packet.field) /\ Len(Packet.body) = 0 /\ Packet.field[n] < 128
  BY <1>1, FieldIsRead
<1>3. LengthByte /\ connected /\ nextByte = "PacketLength"
  BY <1>1 DEF FieldEnds, LengthByte, AtByte
<1>4. InHeader /\ Len(Wire) = 1 + Len(Packet.field) + Len(Packet.body) /\ received \in 0 .. Len(Packet.field)
  BY <1>3, HeaderShape
<1>. QED
  BY <1>2, <1>3, <1>4 DEF InHeader

LEMMA HeaderOnlyIInv ==
  ASSUME IInv, HeaderOnly
  PROVE  IInv'
<1>1. /\ LengthByte /\ handled < Len(Sent[connection]) /\ rxBuffer = << >>
      /\ Len(Wire) = received + 1
  <2>1. received \in Nat
    BY DEF IInv, Types
  <2>. QED
    BY <2>1, HeaderIsAll
<1>2. /\ header' \in [1 .. FIXED_HEADER_MAX_SIZE -> Byte]
      /\ next' \in 0 .. arrived /\ next' = Begin + Len(Wire)
  BY <1>1, LengthByteIsCopied
<1>3. handled' = handled + 1 /\ UNCHANGED <<connection, inCall, arrived, taken>> /\ inCall
  BY <1>1 DEF HeaderOnly, Tell, callVars, LengthByte, AtByte
<1>4. CASE ResetRxMessageState /\ UNCHANGED <<connected, out>>
  <2>1. out' \in 0 .. NUM_BUFFERS /\ taken' \in Nat /\ out' = taken'
    BY <1>1, <1>3, <1>4 DEF IInv, Types, BuffersAreKept
  <2>. QED
    BY <1>1, <1>2, <1>3, <1>4, <2>1, PacketIsDone
<1>5. CASE ResetMQTTContext(rxBuffer)
  <2>1. handled' \in 0 .. Len(Sent[connection])
    BY <1>1, <1>3, NextBegin
  <2>. QED
    BY <1>2, <1>3, <1>5, <2>1, ResetIInv
<1>. QED
  BY <1>4, <1>5 DEF HeaderOnly

\* The rest of a packet is awaited.
LEMMA RestIsAwaited ==
  ASSUME IInv, NEW what, AwaitRest(what)
  PROVE  /\ HeaderIsRead' /\ handled < Len(Sent[connection])
         /\ rxBuffer = << >> /\ out = taken
         /\ fieldBytes' \in 0 .. REMAINING_LENGTH_MAX_BYTES /\ total' \in Nat
         /\ received' \in Nat /\ received' > 1 /\ received' <= FIXED_HEADER_MAX_SIZE
         /\ received' > fieldBytes' /\ received' < total'
         /\ header' \in [1 .. FIXED_HEADER_MAX_SIZE -> Byte]
         /\ \A k \in 1 .. received' : header'[k] = Wire'[k]
         /\ next' \in 0 .. arrived' /\ next' = Begin' + received'
         /\ inCall /\ connected
<1>1. PICK n \in FieldLengths :
        /\ FieldEnds(n) /\ fieldBytes' = n
        /\ DecodedLength(header', n) > 0
        /\ total' = DecodedLength(header', n) + received + 1
  BY DEF AwaitRest
<1>2. LengthByte /\ connected /\ nextByte = "PacketLength" /\ inCall
  BY <1>1 DEF FieldEnds, LengthByte, AtByte
<1>3. /\ n = received /\ n = Len(Packet.field) /\ Packet.field[n] < 128
      /\ DecodedLength(header', n) = Len(Packet.body)
  BY <1>1, FieldIsRead
<1>4. /\ InHeader /\ Len(Packet.body) \in Nat /\ n \in 1 .. 4
      /\ Len(Wire) = 1 + Len(Packet.field) + Len(Packet.body)
  BY <1>2, HeaderShape DEF FieldLengths, REMAINING_LENGTH_MAX_BYTES
<1>5. /\ header' \in [1 .. FIXED_HEADER_MAX_SIZE -> Byte]
      /\ \A k \in 1 .. (received + 1) : header'[k] = Wire[k]
      /\ next' \in 0 .. arrived /\ next' = Begin + (received + 1)
  BY <1>2, LengthByteIsCopied
<1>6. /\ received' = received + 1
      /\ UNCHANGED <<connection, connected, inCall, arrived, taken, handled>>
  BY DEF AwaitRest, callVars, userVars
<1>7. Packet' = Packet /\ Wire' = Wire /\ Begin' = Begin
  BY <1>6 DEF Packet, Wire, Begin
<1>8. /\ received' = 1 + n /\ total' = 1 + n + Len(Packet.body) /\ Len(Packet.body) > 0
      /\ total' \in Nat
  <2>1. \A a \in 1 .. 4 : \A b \in Nat :
           a + 1 = 1 + a /\ b + a + 1 = 1 + a + b /\ 1 + a + b \in Nat
    OBVIOUS
  <2>2. received' = n + 1 /\ total' = Len(Packet.body) + n + 1 /\ Len(Packet.body) > 0
    BY <1>1, <1>3, <1>6, Zenon
  <2>. QED
    BY <1>4, <2>1, <2>2, Zenon
<1>9. total' = Len(Wire)
  BY <1>3, <1>4, <1>8, Zenon
<1>10. HeaderIsRead'
  BY <1>1, <1>3, <1>4, <1>6, <1>7, <1>9 DEF HeaderIsRead, InHeader
<1>11. /\ fieldBytes' \in 0 .. REMAINING_LENGTH_MAX_BYTES
       /\ received' \in Nat /\ received' > 1 /\ received' <= FIXED_HEADER_MAX_SIZE
       /\ received' > fieldBytes' /\ received' < total'
  <2>1. \A a \in 1 .. 4 : \A b \in Nat : b > 0 =>
           /\ a \in 0 .. 4 /\ 1 + a \in Nat /\ 1 + a > 1 /\ 1 + a <= 5
           /\ 1 + a > a /\ 1 + a < 1 + a + b
    OBVIOUS
  <2>. QED
    BY <1>1, <1>4, <1>8, <2>1, Zenon DEF FIXED_HEADER_MAX_SIZE, REMAINING_LENGTH_MAX_BYTES
<1>12. out = taken
  BY <1>4 DEF InHeader, IInv, Types, BuffersAreKept
<1>. QED
  BY <1>1, <1>2, <1>4, <1>5, <1>6, <1>7, <1>8, <1>9, <1>10, <1>11, <1>12
  DEF InHeader, FieldLengths

LEMMA GetBufferIInv ==
  ASSUME IInv, GetBuffer
  PROVE  IInv'
<1>1. AwaitRest("Store")
  BY DEF GetBuffer
<1>2. /\ HeaderIsRead' /\ handled < Len(Sent[connection])
      /\ out = taken
      /\ fieldBytes' \in 0 .. REMAINING_LENGTH_MAX_BYTES /\ total' \in Nat
      /\ received' \in Nat /\ received' > 1 /\ received' <= FIXED_HEADER_MAX_SIZE
      /\ received' > fieldBytes' /\ received' < total'
      /\ header' \in [1 .. FIXED_HEADER_MAX_SIZE -> Byte]
      /\ \A k \in 1 .. received' : header'[k] = Wire'[k]
      /\ next' \in 0 .. arrived' /\ next' = Begin' + received'
      /\ inCall /\ connected
  BY <1>1, RestIsAwaited
<1>3. /\ nextByte' = "Message" /\ action' = "Store"
      /\ UNCHANGED <<connection, connected, inCall, arrived, taken, handled>>
  BY <1>1 DEF AwaitRest, callVars, userVars
<1>4. rxBuffer' \in Seq(Byte) /\ Len(rxBuffer') = received' /\ Prefix(rxBuffer, Len(rxBuffer))'
  <2>1. rxBuffer' = [k \in 1 .. received' |-> header'[k]]
    BY DEF GetBuffer
  <2>2. received' \in Nat /\ \A k \in 1 .. received' : k \in 1 .. FIXED_HEADER_MAX_SIZE
    BY <1>2 DEF FIXED_HEADER_MAX_SIZE
  <2>3. \A k \in 1 .. received' : header'[k] \in Byte
    BY <1>2, <2>2
  <2>4. rxBuffer' \in Seq(Byte) /\ Len(rxBuffer') = received'
    BY <2>1, <2>2, <2>3, IsASeq
  <2>. QED
    BY <1>2, <2>1, <2>4 DEF Prefix
<1>5. rxBuffer' # << >>
  <2>1. Len(rxBuffer') > 1
    BY <1>2, <1>4
  <2>. QED
    BY <2>1
<1>6. out' = out + 1 /\ out' \in 0 .. NUM_BUFFERS
  BY SizesAssumption DEF GetBuffer, IInv, Types
<1>7. Types'
  BY <1>2, <1>3, <1>4, <1>6 DEF IInv, Types
<1>8. InStore'
  <2>1. Len(rxBuffer') > fieldBytes' /\ Len(rxBuffer') < total'
    BY <1>2, <1>4
  <2>2. total' <= BUFFER_SIZE
    BY DEF GetBuffer
  <2>. QED
    BY <1>2, <1>4, <2>1, <2>2 DEF InStore
<1>9. InStream'
  BY <1>3, <1>8 DEF InStream
<1>10. BuffersAreKept'
  BY <1>2, <1>3, <1>5, <1>6 DEF BuffersAreKept, IInv, Types
<1>11. connected' /\ inCall'
  BY <1>2, <1>3
<1>. QED
  BY <1>7, <1>9, <1>10, <1>11 DEF IInv, Clean

LEMMA GetNoBufferIInv ==
  ASSUME IInv, GetNoBuffer
  PROVE  IInv'
<1>1. AwaitRest("Drop")
  BY DEF GetNoBuffer
<1>2. /\ HeaderIsRead' /\ handled < Len(Sent[connection])
      /\ rxBuffer = << >> /\ out = taken
      /\ fieldBytes' \in 0 .. REMAINING_LENGTH_MAX_BYTES /\ total' \in Nat
      /\ received' \in Nat /\ received' > 1 /\ received' <= FIXED_HEADER_MAX_SIZE
      /\ received' > fieldBytes' /\ received' < total'
      /\ header' \in [1 .. FIXED_HEADER_MAX_SIZE -> Byte]
      /\ next' \in 0 .. arrived' /\ next' = Begin' + received'
      /\ inCall /\ connected
  BY <1>1, RestIsAwaited
<1>3. /\ nextByte' = "Message" /\ action' = "Drop"
      /\ UNCHANGED <<connection, connected, inCall, arrived, taken, handled, rxBuffer, out>>
  BY <1>1 DEF AwaitRest, GetNoBuffer, callVars, userVars
<1>4. Types'
  BY <1>2, <1>3 DEF IInv, Types
<1>5. InDrop'
  BY <1>2, <1>3 DEF InDrop
<1>6. InStream'
  BY <1>3, <1>5 DEF InStream
<1>7. BuffersAreKept'
  BY <1>3 DEF BuffersAreKept, IInv
<1>8. connected' /\ inCall'
  BY <1>2, <1>3
<1>. QED
  BY <1>4, <1>6, <1>7, <1>8 DEF IInv, Clean

\* The bytes of the receive buffer are read.
LEMMA StoreShape ==
  ASSUME IInv, Storing
  PROVE  /\ HeaderIsRead /\ total <= BUFFER_SIZE /\ total = Len(Wire)
         /\ rxBuffer \in Seq(Byte) /\ Len(rxBuffer) \in Nat /\ Len(Wire) \in Nat
         /\ Len(rxBuffer) > fieldBytes /\ Len(rxBuffer) < Len(Wire)
         /\ next = Begin + Len(rxBuffer) /\ Begin \in Nat
         /\ Prefix(rxBuffer, Len(rxBuffer))
         /\ Wire \in Seq(Byte)
         /\ \A k \in 1 .. Len(Wire) : Stream[connection][Begin + k] = Wire[k]
<1>1. InStore /\ HeaderIsRead /\ handled < Len(Sent[connection])
  BY DEF IInv, InStream, Storing, AtByte, InStore, HeaderIsRead
<1>2. Facts(connection, handled + 1) /\ Begin \in Nat /\ Len(Wire) \in Nat
  BY <1>1, Current
<1>. QED
  BY <1>1, <1>2, LenProperties
  DEF InStore, HeaderIsRead, IInv, Types, Facts, Begin, Wire, Packet

\* A function on an initial segment of the numbers is a sequence.
LEMMA IsSequence ==
  ASSUME NEW S, NEW n \in Nat, NEW f, f = [k \in 1 .. n |-> f[k]],
         \A k \in 1 .. n : f[k] \in S
  PROVE  f \in Seq(S) /\ Len(f) = n
<1>1. f \in [1 .. n -> S]
  OBVIOUS
<1>. QED
  BY <1>1

\* n more bytes of the packet have been stored.
LEMMA BytesAreStored ==
  ASSUME IInv, Storing, NEW n \in Nat, n <= total - Len(rxBuffer)
  PROVE  /\ Stored(n) \in Seq(Byte) /\ Len(Stored(n)) = Len(rxBuffer) + n
         /\ Prefix(Stored(n), Len(rxBuffer) + n)
<1> DEFINE m == Len(rxBuffer)
<1>1. /\ m \in Nat /\ m + n \in Nat /\ m + n <= Len(Wire) /\ Len(Wire) \in Nat
      /\ rxBuffer \in Seq(Byte) /\ Prefix(rxBuffer, m)
      /\ next = Begin + m /\ Begin \in Nat /\ Wire \in Seq(Byte)
      /\ \A k \in 1 .. Len(Wire) : Stream[connection][Begin + k] = Wire[k]
  BY StoreShape
<1> HIDE DEF m
<1>2. ASSUME NEW k \in 1 .. (m + n)
      PROVE  Stored(n)[k] = Wire[k]
  <2>1. Stored(n)[k] = IF k <= m THEN rxBuffer[k] ELSE Stream[connection][next + k - m]
    BY DEF Stored, m
  <2>2. CASE k <= m
    BY <1>1, <2>1, <2>2 DEF Prefix
  <2>3. CASE ~(k <= m)
    <3>1. next + k - m = Begin + k /\ k \in 1 .. Len(Wire)
      BY <1>1
    <3>. QED
      BY <1>1, <2>1, <2>3, <3>1
  <2>. QED
    BY <2>2, <2>3
<1>3. ASSUME NEW k \in 1 .. (m + n)
      PROVE  Wire[k] \in Byte
  <2>1. k \in 1 .. Len(Wire)
    BY <1>1
  <2>. QED
    BY <1>1, <2>1, ElementOfSeq
<1>4. Stored(n) = [k \in 1 .. (m + n) |-> Stored(n)[k]]
  BY DEF Stored, m
<1>5. Stored(n) \in Seq(Byte) /\ Len(Stored(n)) = m + n
  <2>1. \A k \in 1 .. (m + n) : Stored(n)[k] \in Byte
    BY <1>2, <1>3
  <2>. QED
    BY <1>1, <1>4, <2>1, IsSequence
<1>. QED
  BY <1>2, <1>5 DEF Prefix, m

LEMMA StoreSomeIInv ==
  ASSUME IInv, StoreSome
  PROVE  IInv'
<1> DEFINE n == arrived - next
           m == Len(rxBuffer)
<1>1. /\ Storing /\ n < total - m /\ rxBuffer' = Stored(n) /\ next' = arrived
      /\ inCall /\ connected /\ nextByte = "Message" /\ action = "Store"
      /\ UNCHANGED <<connection, connected, inCall, arrived, header, received, nextByte,
                     action, fieldBytes, total, out, taken, handled>>
  BY DEF StoreSome, Storing, AtByte, Unprocessed, Expected, callVars, bufferVars, userVars
<1>2. arrived \in Nat /\ next \in Nat /\ n \in Nat
  <2>1. Stream[connection] \in Seq(Byte)
    BY StreamAssumption DEF IInv, Types
  <2>2. Len(Stream[connection]) \in Nat
    BY <2>1, LenProperties
  <2>. QED
    BY <2>2 DEF IInv, Types
<1>3. /\ HeaderIsRead /\ total <= BUFFER_SIZE /\ total = Len(Wire) /\ total \in Nat
      /\ m \in Nat /\ m > fieldBytes /\ next = Begin + m /\ Begin \in Nat
      /\ fieldBytes \in Nat
  BY <1>1, StoreShape DEF IInv, Types, REMAINING_LENGTH_MAX_BYTES
<1>4. rxBuffer' \in Seq(Byte) /\ Len(rxBuffer') = m + n /\ Prefix(Stored(n), m + n)
  <2>1. n <= total - m
    BY <1>1, <1>2, <1>3
  <2>. QED
    BY <1>1, <1>2, <2>1, BytesAreStored
<1>5. Packet' = Packet /\ Wire' = Wire /\ Begin' = Begin
  BY <1>1 DEF Packet, Wire, Begin
<1>6. HeaderIsRead'
  BY <1>1, <1>3, <1>5 DEF HeaderIsRead
<1>7. Len(rxBuffer') > fieldBytes' /\ Len(rxBuffer') < total' /\ next' = Begin' + Len(rxBuffer')
  <2> HIDE DEF m
  <2>1. m + (arrived - next) > fieldBytes /\ m + (arrived - next) < total
        /\ arrived = Begin + (m + (arrived - next))
    BY <1>1, <1>2, <1>3
  <2>. QED
    BY <1>1, <1>4, <1>5, <2>1, Zenon
<1>8. Prefix(rxBuffer, Len(rxBuffer))'
  BY <1>1, <1>4, <1>5 DEF Prefix
<1>9. InStream'
  BY <1>1, <1>3, <1>6, <1>7, <1>8 DEF InStream, InStore
<1>10. Types'
  BY <1>1, <1>2, <1>4 DEF IInv, Types
<1>11. BuffersAreKept'
  <2>1. rxBuffer # << >> /\ rxBuffer' # << >>
    BY <1>3, <1>7, <1>1
  <2>. QED
    BY <1>1, <2>1 DEF IInv, BuffersAreKept
<1>. QED
  BY <1>1, <1>9, <1>10, <1>11 DEF IInv, Clean

\* The packet the library processes is the one that was sent.
LEMMA PacketIsWhole ==
  ASSUME IInv, NEW packet, packet = Stored(Expected(Len(rxBuffer))), StoreRest(packet)
  PROVE  /\ packet = Wire /\ packet # << >> /\ rxBuffer # << >>
         /\ next' = Begin + Len(Wire) /\ next' \in 0 .. arrived
         /\ inCall /\ connected /\ handled < Len(Sent[connection])
         /\ HeaderIsRead
         /\ header' \in [1 .. FIXED_HEADER_MAX_SIZE -> Byte]
         /\ UNCHANGED <<connection, inCall, arrived>>
<1> DEFINE m == Len(rxBuffer)
           n == total - m
<1>1. /\ Storing /\ arrived - next >= n /\ next' = next + n /\ packet = Stored(n)
      /\ inCall /\ connected
      /\ UNCHANGED <<connection, inCall, arrived, header>>
  BY DEF StoreRest, Storing, AtByte, Unprocessed, Expected, callVars
<1>2. arrived \in Nat /\ next \in Nat
  <2>1. Stream[connection] \in Seq(Byte)
    BY StreamAssumption DEF IInv, Types
  <2>2. Len(Stream[connection]) \in Nat
    BY <2>1, LenProperties
  <2>. QED
    BY <2>2 DEF IInv, Types
<1>3. /\ HeaderIsRead /\ total = Len(Wire) /\ Len(Wire) \in Nat /\ Wire \in Seq(Byte)
      /\ m \in Nat /\ m > fieldBytes /\ m < Len(Wire) /\ next = Begin + m /\ Begin \in Nat
      /\ fieldBytes \in Nat
  BY <1>1, StoreShape DEF IInv, Types, REMAINING_LENGTH_MAX_BYTES
<1>4. n \in Nat /\ n <= total - m /\ m + n = Len(Wire)
  BY <1>3
<1>5. /\ packet \in Seq(Byte) /\ Len(packet) = Len(Wire)
      /\ \A k \in 1 .. Len(Wire) : packet[k] = Wire[k]
  BY <1>1, <1>4, BytesAreStored DEF Prefix
<1>6. packet = Wire
  BY <1>3, <1>5, SeqEqual
<1>7. rxBuffer # << >> /\ packet # << >>
  BY <1>3, <1>5
<1>8. next' = Begin + Len(Wire) /\ next' \in 0 .. arrived
  BY <1>1, <1>2, <1>3
<1>. QED
  BY <1>1, <1>3, <1>6, <1>7, <1>8 DEF HeaderIsRead, IInv, Types

LEMMA ProcessPacketIInv ==
  ASSUME IInv, NEW awaited \in BOOLEAN, ProcessPacket(awaited)
  PROVE  IInv'
<1> DEFINE packet == Stored(Expected(Len(rxBuffer)))
<1>1. StoreRest(packet)
  BY DEF ProcessPacket, Deliver, Refuse, Reject
<1>2. /\ packet # << >> /\ rxBuffer # << >>
      /\ next' = Begin + Len(Wire) /\ next' \in 0 .. arrived
      /\ inCall /\ connected /\ handled < Len(Sent[connection])
      /\ header' \in [1 .. FIXED_HEADER_MAX_SIZE -> Byte]
      /\ UNCHANGED <<connection, inCall, arrived>>
  BY <1>1, PacketIsWhole
<1>3. handled' = handled + 1
  BY DEF ProcessPacket, Deliver, Refuse, Reject, Tell
<1>4. handled' \in 0 .. Len(Sent[connection])
  BY <1>2, <1>3, NextBegin
<1>5. CASE Deliver(packet, awaited)
  <2>1. ResetRxMessageState /\ UNCHANGED connected
    BY <1>5 DEF Deliver
  <2>2. out = taken + 1 /\ out \in 0 .. NUM_BUFFERS /\ taken \in Nat
    BY <1>2 DEF IInv, BuffersAreKept, Types
  <2>3. out' \in 0 .. NUM_BUFFERS /\ taken' \in Nat /\ out' = taken'
    BY <1>5, <2>2, SizesAssumption DEF Deliver
  <2>. QED
    BY <1>2, <1>3, <2>1, <2>3, PacketIsDone
<1>6. CASE Refuse(packet, awaited) \/ Reject(packet, awaited)
  <2>1. ResetMQTTContext(packet) /\ UNCHANGED taken
    BY <1>6 DEF Refuse, Reject
  <2>. QED
    BY <1>2, <1>4, <2>1, ResetIInv
<1>. QED
  BY <1>5, <1>6 DEF ProcessPacket

\* The bytes of a packet without a buffer are read.
LEMMA DropShape ==
  ASSUME IInv, Dropping
  PROVE  /\ HeaderIsRead /\ handled < Len(Sent[connection]) /\ total = Len(Wire)
         /\ rxBuffer = << >> /\ received > fieldBytes /\ received < Len(Wire)
         /\ next = Begin + received /\ Begin \in Nat /\ Len(Wire) \in Nat
         /\ received \in Nat /\ fieldBytes \in Nat
         /\ arrived \in Nat /\ next \in 0 .. arrived /\ inCall /\ connected
<1>1. InDrop /\ HeaderIsRead /\ handled < Len(Sent[connection]) /\ inCall /\ connected
  BY DEF IInv, InStream, Dropping, AtByte, InDrop, HeaderIsRead
<1>2. Begin \in Nat /\ Len(Wire) \in Nat
  BY <1>1, Current
<1>3. arrived \in Nat
  <2>1. Stream[connection] \in Seq(Byte)
    BY StreamAssumption DEF IInv, Types
  <2>2. Len(Stream[connection]) \in Nat
    BY <2>1, LenProperties
  <2>. QED
    BY <2>2 DEF IInv, Types
<1>. QED
  BY <1>1, <1>2, <1>3 DEF InDrop, HeaderIsRead, IInv, Types, REMAINING_LENGTH_MAX_BYTES

LEMMA DropSomeIInv ==
  ASSUME IInv, DropSome
  PROVE  IInv'
<1>1. /\ Dropping /\ arrived - next < total - received
      /\ received' = received + (arrived - next) /\ next' = arrived
      /\ nextByte = "Message" /\ action = "Drop"
      /\ UNCHANGED <<connection, connected, inCall, arrived, header, nextByte, action,
                     fieldBytes, total, rxBuffer, out, taken, handled>>
  BY DEF DropSome, Dropping, AtByte, Unprocessed, Expected, callVars, bufferVars, userVars
<1>2. /\ HeaderIsRead /\ total = Len(Wire) /\ rxBuffer = << >> /\ received > fieldBytes
      /\ next = Begin + received /\ Begin \in Nat /\ Len(Wire) \in Nat
      /\ received \in Nat /\ fieldBytes \in Nat /\ arrived \in Nat /\ next \in 0 .. arrived
      /\ inCall /\ connected
  BY <1>1, DropShape
<1>3. Packet' = Packet /\ Wire' = Wire /\ Begin' = Begin
  BY <1>1 DEF Packet, Wire, Begin
<1>4. HeaderIsRead'
  BY <1>1, <1>2, <1>3 DEF HeaderIsRead
<1>5. /\ received' \in Nat /\ received' > fieldBytes /\ received' < total
      /\ next' = Begin + received'
  BY <1>1, <1>2
<1>6. InDrop'
  BY <1>1, <1>2, <1>3, <1>4, <1>5 DEF InDrop
<1>7. InStream'
  BY <1>1, <1>6 DEF InStream
<1>8. Types'
  BY <1>1, <1>2, <1>5 DEF IInv, Types
<1>. QED
  BY <1>1, <1>2, <1>7, <1>8 DEF IInv, Clean, BuffersAreKept

\* The whole packet is skipped.
LEMMA PacketIsSkipped ==
  ASSUME IInv, DropRest
  PROVE  /\ handled < Len(Sent[connection]) /\ HeaderIsRead /\ rxBuffer = << >>
         /\ next' = Begin + Len(Wire) /\ next' \in 0 .. arrived /\ inCall /\ connected
<1>1. /\ Dropping /\ arrived - next >= total - received
      /\ next' = next + (total - received)
  BY DEF DropRest, Unprocessed, Expected
<1>2. /\ handled < Len(Sent[connection]) /\ HeaderIsRead /\ total = Len(Wire)
      /\ rxBuffer = << >> /\ received < Len(Wire)
      /\ next = Begin + received /\ Begin \in Nat /\ Len(Wire) \in Nat
      /\ received \in Nat /\ arrived \in Nat /\ next \in 0 .. arrived
      /\ inCall /\ connected
  BY <1>1, DropShape
<1>3. next' = Begin + Len(Wire) /\ next' \in 0 .. arrived
  BY <1>1, <1>2
<1>. QED
  BY <1>2, <1>3

LEMMA DropRestIInv ==
  ASSUME IInv, DropRest
  PROVE  IInv'
<1>1. /\ handled < Len(Sent[connection]) /\ rxBuffer = << >>
      /\ next' = Begin + Len(Wire) /\ next' \in 0 .. arrived /\ inCall
  BY PacketIsSkipped
<1>2. /\ handled' = handled + 1 /\ ResetRxMessageState
      /\ UNCHANGED <<connection, connected, inCall, arrived, header, out, taken>>
  BY DEF DropRest, Tell, callVars, bufferVars
<1>3. /\ out' \in 0 .. NUM_BUFFERS /\ taken' \in Nat /\ out' = taken'
      /\ header' \in [1 .. FIXED_HEADER_MAX_SIZE -> Byte]
  BY <1>1, <1>2 DEF IInv, Types, BuffersAreKept
<1>. QED
  BY <1>1, <1>2, <1>3, PacketIsDone

LEMMA StutterIInv ==
  ASSUME IInv, UNCHANGED vars
  PROVE  IInv'
<1>1. connected => InStream'
  BY ReaderIsUnchanged DEF IInv, vars, rxVars
<1>. QED
  BY <1>1 DEF IInv, vars, Types, Clean, BuffersAreKept

\* The invariant holds in every state the library reaches.
THEOREM Invariance == Spec => []IInv
<1>1. IInv /\ [Next]_vars => IInv'
  <2> SUFFICES ASSUME IInv, [Next]_vars PROVE IInv'
    OBVIOUS
  <2>1. CASE \E c \in Connections : Connect(c)
    BY <2>1, ConnectIInv
  <2>2. CASE Disconnect \/ Receive \/ Return \/ ReturnBuffer
    BY <2>2, DisconnectIInv, ReceiveIInv, ReturnIInv, ReturnBufferIInv
  <2>3. CASE PacketType \/ FieldContinues \/ FieldIsMalformed \/ HeaderOnly
    BY <2>3, PacketTypeIInv, FieldContinuesIInv, FieldIsMalformedIInv, HeaderOnlyIInv
  <2>4. CASE GetBuffer \/ GetNoBuffer
    BY <2>4, GetBufferIInv, GetNoBufferIInv
  <2>5. CASE StoreSome \/ DropSome \/ DropRest
    BY <2>5, StoreSomeIInv, DropSomeIInv, DropRestIInv
  <2>6. CASE \E awaited \in BOOLEAN : ProcessPacket(awaited)
    BY <2>6, ProcessPacketIInv
  <2>7. CASE UNCHANGED vars
    BY <2>7, StutterIInv
  <2>. QED
    BY <2>1, <2>2, <2>3, <2>4, <2>5, <2>6, <2>7 DEF Next
<1>. QED
  BY InitIInv, <1>1, PTL DEF Spec
\* Every variable has its type, every index and every copy stays within its
\* buffer: the type invariant of module MQTTReceive, for every stream and size.
THEOREM ReceiveTypeCorrect == Spec => []TypeOK
<1>1. IInv => TypeOK
  <2> SUFFICES ASSUME IInv PROVE TypeOK
    OBVIOUS
  <2>1. taken \in 0 .. NUM_BUFFERS
    BY SizesAssumption DEF IInv, Types, BuffersAreKept
  <2>2. Len(rxBuffer) <= BUFFER_SIZE
    <3>1. CASE rxBuffer = << >>
      BY <3>1, SizesAssumption
    <3>2. CASE rxBuffer # << >>
      <4>1. InStore
        BY <3>2 DEF IInv, Types, Clean, InStream, AtPacket, InHeader, InDrop
      <4>2. Len(rxBuffer) \in Nat
        BY LenProperties DEF IInv, Types
      <4>. QED
        BY <4>1, <4>2, SizesAssumption DEF InStore, IInv, Types
    <3>. QED
      BY <3>1, <3>2
  <2>3. nextByte = "PacketType" => received = 0 /\ rxBuffer = << >>
    BY DEF IInv, Types, Clean, InStream, AtPacket
  <2>4. nextByte = "PacketLength" => received < FIXED_HEADER_MAX_SIZE
    <3> SUFFICES ASSUME nextByte = "PacketLength" PROVE received < FIXED_HEADER_MAX_SIZE
      OBVIOUS
    <3>1. connected
      BY DEF IInv, Types, Clean
    <3>2. received \in 0 .. Len(Packet.field) /\ Len(Packet.field) \in 1 .. 4
      BY <3>1, HeaderShape
    <3>3. \A a \in 1 .. 4 : \A b \in 0 .. a : b < 5
      OBVIOUS
    <3>. QED
      BY <3>2, <3>3, Zenon DEF FIXED_HEADER_MAX_SIZE
  <2>. QED
    BY <2>1, <2>2, <2>3, <2>4 DEF IInv, Types, TypeOK
<1>. QED
  BY <1>1, Invariance, PTL

-----------------------------------------------------------------------------
(* Every step is one of module MQTTPackets, or none.                        *)

\* The buffers lent to the application are those a callback took.
Lent == out - (IF rxBuffer = << >> THEN 0 ELSE 1)

LEMMA LentIsTaken ==
  ASSUME IInv, IInv'
  PROVE  Lent = taken /\ Lent' = taken'
<1>1. ASSUME NEW t \in Nat, NEW n \in {0, 1}
      PROVE  (t + n) - n = t
  OBVIOUS
<1>2. Lent = taken
  BY <1>1 DEF Lent, IInv, Types, BuffersAreKept
<1>3. Lent' = taken'
  BY <1>1 DEF Lent, IInv, Types, BuffersAreKept
<1>. QED
  BY <1>2, <1>3

LEMMA InitIsInit == Init => Packets!Init
BY DEF Init, Packets!Init

LEMMA ConnectIsConnect ==
  ASSUME NEW c \in Connections, Connect(c)
  PROVE  Packets!Connect(c)
BY DEF Connect, Packets!Connect, rxVars, bufferVars

LEMMA DisconnectIsDisconnect ==
  ASSUME IInv, IInv', Disconnect
  PROVE  Packets!Disconnect
BY LentIsTaken DEF Disconnect, Packets!Disconnect, ResetMQTTContext, callVars, userVars, Lent

LEMMA ReceiveIsReceive ==
  ASSUME IInv, Receive
  PROVE  Packets!Receive
<1>1. connection \in Connections /\ arrived \in Nat
  <2>1. Stream[connection] \in Seq(Byte)
    BY StreamAssumption DEF IInv, Types
  <2>. QED
    BY <2>1, LenProperties DEF IInv, Types
<1>2. /\ Start[connection][Len(Sent[connection]) + 1] = Len(Stream[connection])
      /\ Len(Stream[connection]) \in Nat
  <2>1. Stream[connection] \in Seq(Byte)
    BY <1>1, StreamAssumption
  <2>. QED
    BY <1>1, <2>1, StreamAssumption, LenProperties
<1>3. arrived' \in (arrived + 1) .. Len(Stream[connection])
  BY <1>1, <1>2, SizesAssumption DEF Receive
<1>. QED
  BY <1>2, <1>3 DEF Receive, Packets!Receive, rxVars, bufferVars, userVars

\* The packet that is read has not ended.
LEMMA PacketIsUnfinished ==
  ASSUME IInv, connected, handled < Len(Sent[connection])
  PROVE  next < Begin + Len(Wire)
<1>1. Begin \in Nat /\ Len(Wire) \in Nat /\ Facts(connection, handled + 1)
  BY Current
<1>2. CASE nextByte = "PacketType"
  <2>1. Packet.body \in Seq(Byte) /\ Len(Packet.field) \in 1 .. 4
    BY <1>1 DEF Facts, Packet, FieldLengths, REMAINING_LENGTH_MAX_BYTES
  <2>2. Len(Wire) = 1 + Len(Packet.field) + Len(Packet.body) /\ Len(Packet.body) \in Nat
    BY <1>1, <2>1, LenProperties DEF Facts, Packet, Wire
  <2>3. \A a \in 1 .. 4 : \A m, b \in Nat : b < b + (1 + a + m)
    OBVIOUS
  <2>4. next = Begin
    BY <1>2 DEF IInv, InStream, AtPacket
  <2>. QED
    BY <1>1, <2>1, <2>2, <2>3, <2>4, Zenon
<1>3. CASE nextByte = "PacketLength"
  <2>1. /\ InHeader /\ received \in 0 .. Len(Packet.field)
        /\ Len(Packet.field) \in 1 .. 4 /\ Len(Packet.body) \in Nat
        /\ Len(Wire) = 1 + Len(Packet.field) + Len(Packet.body)
    BY <1>3, HeaderShape
  <2>2. \A a \in 1 .. 4 : \A b \in 0 .. a : \A m \in Nat : b < 1 + a + m /\ b \in Nat
    OBVIOUS
  <2>3. received < Len(Wire) /\ received \in Nat
    BY <2>1, <2>2, Zenon
  <2>4. next = Begin + received
    BY <2>1 DEF InHeader
  <2>. QED
    BY <1>1, <2>3, <2>4
<1>4. CASE nextByte = "Message"
  <2>1. Len(rxBuffer) \in Nat /\ received \in Nat
    BY LenProperties DEF IInv, Types
  <2>. QED
    BY <1>1, <1>4, <2>1 DEF IInv, Types, InStream, InStore, InDrop, HeaderIsRead
<1>. QED
  BY <1>2, <1>3, <1>4 DEF IInv, Types

LEMMA ReturnIsReturn ==
  ASSUME IInv, Return
  PROVE  Packets!Return
<1>1. ~Packets!PacketIsThere
  <2> SUFFICES ASSUME connected, handled < Len(Sent[connection]), next = arrived
               PROVE  ~(arrived >= Start[connection][handled + 2])
    BY DEF Return, Packets!PacketIsThere
  <2>1. next < Begin + Len(Wire) /\ Begin \in Nat /\ Len(Wire) \in Nat
        /\ Start[connection][handled + 2] = Begin + Len(Wire)
    BY PacketIsUnfinished, Current
  <2>2. next \in Int
    BY DEF IInv, Types
  <2>. QED
    BY <2>1, <2>2
<1>. QED
  BY <1>1 DEF Return, Packets!Return, rxVars, bufferVars, userVars

LEMMA ReturnBufferIsGiveBack ==
  ASSUME IInv, IInv', ReturnBuffer
  PROVE  Packets!GiveBack
BY LentIsTaken DEF ReturnBuffer, Packets!GiveBack, callVars, rxVars, userVars, Lent

\* The library reads on.
LEMMA ReadsOn ==
  ASSUME IInv, IInv', UNCHANGED <<connection, connected, callVars, userVars, taken>>
  PROVE  UNCHANGED Packets!vars
BY LentIsTaken DEF Packets!vars, callVars, userVars, Lent

\* The packet that ends at the reader is the one that is answered for.
LEMMA IsAnswered ==
  ASSUME IInv, NEW fate, NEW bytes, Tell(fate, bytes), handled < Len(Sent[connection]),
         UNCHANGED <<connection, callVars>>, inCall, connected,
         Begin + Len(Wire) \in 0 .. arrived
  PROVE  Packets!Answer(fate, bytes) /\ Packets!NextPacket = Packet
<1>1. Start[connection][handled + 2] = Begin + Len(Wire)
  BY Current
<1>2. arrived \in Int
  <2>1. Stream[connection] \in Seq(Byte)
    BY StreamAssumption DEF IInv, Types
  <2>. QED
    BY <2>1, LenProperties DEF IInv, Types
<1>3. arrived >= Start[connection][handled + 2]
  BY <1>1, <1>2
<1>. QED
  BY <1>3 DEF Packets!Answer, Packets!PacketIsThere, Packets!NextPacket, Packet, Tell, callVars

LEMMA FieldIsMalformedIsClose ==
  ASSUME IInv, IInv', FieldIsMalformed
  PROVE  Packets!Close(TRUE)
<1>1. LengthByte /\ inCall /\ connected /\ nextByte = "PacketLength"
  BY DEF FieldIsMalformed, LengthByte, AtByte
<1>2. /\ InHeader /\ received \in 0 .. Len(Packet.field) /\ Len(Packet.field) \in 1 .. 4
      /\ Len(Wire) = 1 + Len(Packet.field) + Len(Packet.body)
      /\ handled < Len(Sent[connection])
  BY <1>1, HeaderShape DEF InHeader
<1>3. /\ header'[received + 1] = Packet.field[received]
      /\ next' \in 0 .. arrived /\ next' = Begin + (received + 1)
  BY <1>1, LengthByteIsCopied
<1>4. received = 4 /\ Len(Packet.field) = 4 /\ received + 1 = 5
  <2>1. \A a \in 1 .. 4 : \A b \in 0 .. a : b + 1 >= 5 => b = 4 /\ a = 4 /\ b + 1 = 5
    OBVIOUS
  <2>2. received + 1 >= 5
    BY DEF FieldIsMalformed, FieldIsFull, FIXED_HEADER_MAX_SIZE
  <2>. QED
    BY <1>2, <2>1, <2>2, Zenon
<1>5. Packet.field[4] >= 128
  BY <1>3, <1>4, Zenon DEF FieldIsMalformed, HasContinuationBit
<1>6. Packet.body = << >>
  BY <1>2, <1>4, <1>5, Current DEF Facts, Packet, REMAINING_LENGTH_MAX_BYTES
<1>7. Begin + Len(Wire) = next'
  <2>1. Len(Packet.body) = 0
    BY <1>6
  <2>. QED
    BY <1>2, <1>3, <1>4, <2>1
<1>8. Packets!Answer("Malformed", << >>) /\ Packets!NextPacket = Packet
  BY <1>1, <1>2, <1>3, <1>7, IsAnswered DEF FieldIsMalformed
<1>9. ~Packets!Acceptable(Packet, TRUE)
  BY <1>4, <1>5 DEF Packets!Acceptable, Packets!FieldIsWhole, Packets!Continues
<1>10. connected' = FALSE /\ UNCHANGED Lent
  BY LentIsTaken DEF FieldIsMalformed, ResetMQTTContext
<1>. QED
  BY <1>8, <1>9, <1>10 DEF Packets!Close, Lent

LEMMA HeaderOnlyIsAnswered ==
  ASSUME IInv, IInv', HeaderOnly
  PROVE  Packets!Deliver(TRUE) \/ Packets!Close(TRUE)
<1>1. /\ LengthByte /\ handled < Len(Sent[connection])
      /\ Len(Packet.body) = 0 /\ Len(Wire) = 1 + received /\ received = Len(Packet.field)
      /\ Packet.field[received] < 128
  BY HeaderIsAll
<1>2. /\ \A k \in 1 .. (received + 1) : header'[k] = Wire[k]
      /\ next' \in 0 .. arrived /\ next' = Begin + (received + 1)
  BY <1>1, LengthByteIsCopied
<1>3. inCall /\ connected /\ nextByte = "PacketLength"
  BY <1>1 DEF LengthByte, AtByte
<1>4. /\ received \in 1 .. 4 /\ Begin + Len(Wire) \in 0 .. arrived
      /\ \A k \in 1 .. (received - 1) : Packet.field[k] >= 128
      /\ \A k \in 1 .. received : Packet.field[k] \in Byte
      /\ \A k \in 1 .. received : Wire[k + 1] = Packet.field[k]
  <2>1. /\ Len(Packet.field) \in 1 .. 4
        /\ \A k \in 1 .. Len(Packet.field) : Wire[k + 1] = Packet.field[k]
        /\ \A k \in 1 .. (Len(Packet.field) - 1) : Packet.field[k] >= 128
        /\ \A k \in 1 .. Len(Packet.field) : Packet.field[k] \in Byte
    BY <1>3, HeaderShape
  <2>2. \A n \in 1 .. 4 : 1 + n = n + 1
    OBVIOUS
  <2>. QED
    BY <1>1, <1>2, <2>1, <2>2, Zenon
<1>5. header'[1] = Packet.first /\ header'[2] = Packet.field[1]
  <2>1. Wire[1] = Packet.first
    BY <1>1, Current DEF Facts, Packet, Wire
  <2>2. /\ 1 \in 1 .. (received + 1) /\ 2 \in 1 .. (received + 1) /\ 1 \in 1 .. received
        /\ 1 + 1 = 2
    BY <1>4
  <2>3. Wire[1 + 1] = Packet.field[1]
    BY <1>4, <2>2, Zenon
  <2>. QED
    BY <1>2, <2>1, <2>2, <2>3, Zenon
<1>6. Packet.field \in Seq(Byte) /\ Packet.body = << >> /\ Wire \in Seq(Byte)
  <2>1. /\ Packet.field \in Seq(Byte) /\ Packet.body \in Seq(Byte) /\ Wire \in Seq(Byte)
    BY <1>1, Current DEF Facts, Packet, Wire
  <2>. QED
    BY <1>1, <2>1
<1>7. CASE header'[1] = 208 /\ header'[2] = 0
  <2>1. Tell("Delivered", <<208, 0>>) /\ UNCHANGED connected /\ UNCHANGED <<connection, callVars, taken>>
    BY <1>7 DEF HeaderOnly
  <2>2. received = 1
    <3>1. \A n \in 1 .. 4 : n # 1 => 1 \in 1 .. (n - 1)
      OBVIOUS
    <3>2. received # 1 => Packet.field[1] >= 128
      BY <1>4, <3>1, Zenon
    <3>3. Packet.field[1] = 0
      BY <1>5, <1>7
    <3>. QED
      BY <3>2, <3>3
  <2>3. Packet.field = <<0>> /\ Packet.first = 208
    <3>1. <<0>> \in Seq(Byte) /\ Len(<<0>>) = 1 /\ <<0>>[1] = 0
      BY DEF Byte
    <3>2. Len(Packet.field) = 1 /\ Packet.field[1] = 0
      BY <1>1, <1>5, <1>7, <2>2
    <3>3. \A k \in 1 .. Len(Packet.field) : Packet.field[k] = <<0>>[k]
      BY <3>1, <3>2
    <3>. QED
      BY <1>5, <1>6, <1>7, <3>1, <3>2, <3>3, SeqEqual
  <2>4. Wire = <<208, 0>>
    <3>1. <<208, 0>> \in Seq(Byte) /\ Len(<<208, 0>>) = 2
      BY DEF Byte
    <3>2. Len(Wire) = 2
      BY <1>1, <2>2
    <3>3. Wire[1] = 208 /\ Wire[2] = 0
      BY <1>2, <1>7, <2>2
    <3>4. \A k \in 1 .. Len(Wire) : Wire[k] = <<208, 0>>[k]
      BY <3>2, <3>3
    <3>. QED
      BY <1>6, <3>1, <3>2, <3>4, SeqEqual
  <2>5. Packets!Answer("Delivered", <<208, 0>>) /\ Packets!NextPacket = Packet
    BY <1>1, <1>3, <1>4, <2>1, IsAnswered
  <2>6. Packets!Acceptable(Packet, TRUE) /\ ~Packets!Refuses(Packet, TRUE)
    BY <1>1, <2>2, <2>3
    DEF Packets!Acceptable, Packets!Refuses, Packets!FieldIsWhole, Packets!Continues
  <2>7. UNCHANGED Lent
    BY <2>1, LentIsTaken
  <2>. QED
    BY <2>1, <2>4, <2>5, <2>6, <2>7 DEF Packets!Deliver, Wire, Lent
<1>8. CASE ~(header'[1] = 208 /\ header'[2] = 0)
  <2>1. /\ Tell("Malformed", << >>) /\ connected' = FALSE
        /\ UNCHANGED <<connection, callVars, taken>>
    BY <1>8 DEF HeaderOnly, ResetMQTTContext
  <2>2. Packets!Answer("Malformed", << >>) /\ Packets!NextPacket = Packet
    BY <1>1, <1>3, <1>4, <2>1, IsAnswered
  <2>3. ~Packets!Acceptable(Packet, TRUE)
    <3>1. ~(Packet.first = 208 /\ Packet.field = <<0>>)
      <4>1. Packet.field = <<0>> => Packet.field[1] = 0
        OBVIOUS
      <4>. QED
        BY <1>5, <1>8, <4>1, Zenon
    <3>. QED
      BY <1>1, <1>6, <3>1 DEF Packets!Acceptable, Packets!IsShort
  <2>4. UNCHANGED Lent
    BY <2>1, LentIsTaken
  <2>. QED
    BY <2>1, <2>2, <2>3, <2>4 DEF Packets!Close, Lent
<1>. QED
  BY <1>7, <1>8

\* The bytes of a packet with a body, in terms of the packet.
LEMMA BodyShape ==
  ASSUME IInv, HeaderIsRead
  PROVE  /\ Packet.first \in Byte /\ Packet.body \in Seq(Byte) /\ Packet.field \in Seq(Byte)
         /\ fieldBytes = Len(Packet.field) /\ fieldBytes \in 1 .. 4
         /\ Packet.field[fieldBytes] < 128
         /\ Len(Wire) = 1 + fieldBytes + Len(Packet.body) /\ Len(Packet.body) \in Nat
         /\ Wire[1] = Packet.first
         /\ \A k \in 1 .. fieldBytes : Wire[k + 1] = Packet.field[k]
         /\ \A k \in 1 .. Len(Packet.body) : Wire[1 + fieldBytes + k] = Packet.body[k]
         /\ \A k \in 1 .. (fieldBytes - 1) : Packet.field[k] >= 128
         /\ Len(Packet.body) = Packets!Value(Packet.field)
<1>1. /\ handled < Len(Sent[connection]) /\ fieldBytes = Len(Packet.field)
      /\ Packet.field[fieldBytes] < 128
  BY DEF HeaderIsRead
<1>2. Facts(connection, handled + 1)
  BY <1>1, Current
<1>3. Packet.body \in Seq(Byte) /\ Len(Packet.body) \in Nat
  BY <1>2, LenProperties DEF Facts, Packet
<1>. QED
  BY <1>1, <1>2, <1>3 DEF Facts, Packet, Wire, FieldLengths, REMAINING_LENGTH_MAX_BYTES

\* A length field of one digit is its value.
LEMMA ShortLength ==
  ASSUME IInv, HeaderIsRead
  PROVE  Wire[2] = 2 <=> Packets!IsShort(Packet)
<1>1. /\ Packet.field \in Seq(Byte) /\ fieldBytes = Len(Packet.field) /\ fieldBytes \in 1 .. 4
      /\ Packet.field[fieldBytes] < 128 /\ Len(Packet.body) = Packets!Value(Packet.field)
      /\ \A k \in 1 .. fieldBytes : Wire[k + 1] = Packet.field[k]
      /\ \A k \in 1 .. (fieldBytes - 1) : Packet.field[k] >= 128
  BY BodyShape
<1>2. Wire[2] = Packet.field[1] /\ Packet.field[1] \in Byte
  <2>1. \A n \in 1 .. 4 : 1 \in 1 .. n /\ 1 + 1 = 2
    OBVIOUS
  <2>2. 1 \in 1 .. Len(Packet.field)
    BY <1>1, <2>1
  <2>. QED
    BY <1>1, <2>1, <2>2, ElementOfSeq, Zenon
<1>3. CASE fieldBytes = 1
  <2>1. Packets!Value(Packet.field) = Packet.field[1]
    <3>1. \A x \in Byte : x < 128 => 1 * (x % 128) + 0 + 0 + 0 = x
      BY DEF Byte
    <3>. QED
      BY <1>1, <1>2, <1>3, <3>1 DEF Packets!Value
  <2>. QED
    BY <1>1, <1>2, <1>3, <2>1 DEF Packets!IsShort
<1>4. CASE fieldBytes # 1
  <2>1. \A n \in 1 .. 4 : n # 1 => 1 \in 1 .. (n - 1)
    OBVIOUS
  <2>2. Packet.field[1] >= 128
    BY <1>1, <1>4, <2>1, Zenon
  <2>. QED
    BY <1>1, <1>2, <1>4, <2>2 DEF Packets!IsShort, Byte
<1>. QED
  BY <1>3, <1>4

\* The library accepts the packets a client accepts.
LEMMA ValidIsAcceptable ==
  ASSUME IInv, HeaderIsRead, Len(Packet.body) > 0, NEW awaited \in BOOLEAN
  PROVE  /\ IsValid(Wire, fieldBytes, awaited) <=> Packets!Acceptable(Packet, awaited)
         /\ IsValid(Wire, fieldBytes, awaited) =>
              (IsRefusal(Wire, awaited) <=> Packets!Refuses(Packet, awaited))
         /\ IsPublish(Wire) <=> Packet.first \in 48 .. 63
<1> DEFINE first == Packet.first
           body == Packet.body
           m == Len(body)
           n == fieldBytes
           short == Packets!IsShort(Packet)
<1>1. /\ first \in Byte /\ body \in Seq(Byte) /\ m \in Nat /\ m > 0 /\ n \in 1 .. 4
      /\ n = Len(Packet.field) /\ Packet.field[n] < 128 /\ Packet.field \in Seq(Byte)
      /\ Len(Wire) = 1 + n + m /\ Wire[1] = first
      /\ \A k \in 1 .. m : Wire[1 + n + k] = body[k]
  BY BodyShape
<1>2. body # << >>
  BY <1>1
<1>3. Packets!FieldIsWhole(Packet)
  <2>1. Packet.field[n] \in Int
    <3>1. (\A k \in 1 .. 4 : k \in 1 .. k) /\ \A b \in Byte : b \in Int
      BY DEF Byte
    <3>2. n \in 1 .. Len(Packet.field)
      BY <1>1, <3>1, Zenon
    <3>3. Packet.field[n] \in Byte
      BY <1>1, <3>2, ElementOfSeq, Zenon
    <3>. QED
      BY <3>1, <3>3, Zenon
  <2>. QED
    BY <1>1, <2>1 DEF Packets!FieldIsWhole, Packets!Continues
<1>4. IsPublish(Wire) <=> first \in 48 .. 63
  BY <1>1 DEF IsPublish
<1>5. QoSBits(Wire) \in {0, 1} <=> ~Packets!HasQoS2(Packet)
  <2>1. \A x \in Byte : (x \div 2) % 4 \in {0, 1} <=> ~((x \div 2) % 4 > 1)
    BY DEF Byte
  <2>. QED
    BY <1>1, <2>1, Zenon DEF QoSBits, Packets!HasQoS2
<1>6. Wire[2] = 2 <=> short
  BY ShortLength
<1>7. short => n = 1 /\ m = 2 /\ Len(Wire) = 4 /\ Wire[4] = body[2] /\ body[2] \in Byte
  <2> SUFFICES ASSUME short
               PROVE  n = 1 /\ m = 2 /\ Len(Wire) = 4 /\ Wire[4] = body[2] /\ body[2] \in Byte
    OBVIOUS
  <2>1. n = 1 /\ m = 2
    BY <1>1 DEF Packets!IsShort
  <2>2. 2 \in 1 .. m /\ 1 + n + 2 = 4
    BY <2>1
  <2>3. body[2] \in Byte
    BY <1>1, <2>2, ElementOfSeq, Zenon
  <2>. QED
    BY <1>1, <2>1, <2>2, <2>3
<1>8. Len(Wire) > ADJUST_OFFSET(4, n) <=> m >= 3
  <2>1. \A a \in 1 .. 4 : \A b \in Nat : 1 + a + b > 4 + a - 1 <=> b >= 3
    OBVIOUS
  <2>. QED
    BY <1>1, <2>1, Zenon DEF ADJUST_OFFSET
<1>9. m >= 3 => Wire[ADJUST_OFFSET(4, n) + 1] = body[3]
  <2> SUFFICES ASSUME m >= 3 PROVE Wire[ADJUST_OFFSET(4, n) + 1] = body[3]
    OBVIOUS
  <2>1. 3 \in 1 .. m /\ ADJUST_OFFSET(4, n) + 1 = 1 + n + 3
    BY <1>1 DEF ADJUST_OFFSET
  <2>. QED
    BY <1>1, <2>1
<1>10. short => (Wire[4] <= 5 <=> body[2] \in 0 .. 5)
  <2>1. \A b \in Byte : b <= 5 <=> b \in 0 .. 5
    BY DEF Byte
  <2>. QED
    BY <1>7, <2>1, Zenon
<1>11. short => Len(Wire) >= 4
  <2>1. 4 >= 4
    OBVIOUS
  <2>. QED
    BY <1>7, <2>1, Zenon
<1>12. ~(Packet.field = <<0>>)
  <2>1. CASE Packet.field = <<0>>
    <3>1. n = 1 /\ Packet.field[1] = 0
      BY <1>1, <2>1
    <3>2. Packets!Value(Packet.field) = 0
      BY <1>1, <3>1 DEF Packets!Value
    <3>3. m = Packets!Value(Packet.field)
      BY BodyShape
    <3>. QED
      BY <1>1, <3>2, <3>3
  <2>. QED
    BY <2>1
<1>13. IsValid(Wire, n, awaited) <=> Packets!Acceptable(Packet, awaited)
  <2>1. IsValid(Wire, n, awaited) <=>
          \/ first \in 48 .. 63 /\ ~Packets!HasQoS2(Packet)
          \/ first = 32 /\ (awaited => short /\ body[2] \in 0 .. 5)
          \/ first = 144 /\ m >= 3 /\ (awaited => body[3] \in {0, 1, 128})
          \/ first \in {64, 176} /\ short
    BY <1>1, <1>4, <1>5, <1>6, <1>8, <1>9, <1>10, <1>11, Zenon DEF IsValid
  <2>2. Packets!Acceptable(Packet, awaited) <=>
          \/ first \in 48 .. 63 /\ ~Packets!HasQoS2(Packet)
          \/ first = 32 /\ (awaited => short /\ body[2] \in 0 .. 5)
          \/ first = 144 /\ m >= 3 /\ (awaited => body[3] \in {0, 1, 128})
          \/ first \in {64, 176} /\ short
    BY <1>2, <1>3, <1>12, Zenon DEF Packets!Acceptable
  <2>. QED
    BY <2>1, <2>2, Zenon
<1>14. IsValid(Wire, n, awaited) =>
         (IsRefusal(Wire, awaited) <=> Packets!Refuses(Packet, awaited))
  <2>1. CASE ~awaited \/ first # 32
    BY <1>1, <2>1, Zenon DEF IsRefusal, Packets!Refuses
  <2>2. CASE awaited /\ first = 32
    <3>1. IsValid(Wire, n, awaited) => short
      <4>1. first \notin 48 .. 63 /\ first # 144 /\ first \notin {64, 176}
        BY <2>2
      <4>. QED
        BY <1>1, <1>4, <1>6, <2>2, <4>1, Zenon DEF IsValid
    <3>. QED
      BY <1>1, <1>7, <2>2, <3>1 DEF IsRefusal, Packets!Refuses
  <2>. QED
    BY <2>1, <2>2
<1>. QED
  BY <1>4, <1>13, <1>14

LEMMA ProcessPacketIsAnswered ==
  ASSUME IInv, IInv', NEW awaited \in BOOLEAN, ProcessPacket(awaited)
  PROVE  Packets!Deliver(awaited) \/ Packets!Close(awaited)
<1> DEFINE packet == Stored(Expected(Len(rxBuffer)))
<1>1. StoreRest(packet)
  BY DEF ProcessPacket, Deliver, Refuse, Reject
<1>2. /\ packet = Wire /\ next' = Begin + Len(Wire) /\ next' \in 0 .. arrived
      /\ inCall /\ connected /\ handled < Len(Sent[connection]) /\ HeaderIsRead
      /\ UNCHANGED <<connection, callVars>>
  BY <1>1, PacketIsWhole DEF callVars
<1>3. Len(Packet.body) > 0
  <2>1. Storing
    BY <1>1 DEF StoreRest
  <2>2. /\ Len(rxBuffer) \in Nat /\ Len(rxBuffer) > fieldBytes /\ Len(rxBuffer) < Len(Wire)
    BY <2>1, StoreShape
  <2>3. /\ Len(Wire) = 1 + fieldBytes + Len(Packet.body) /\ fieldBytes \in 1 .. 4
        /\ Len(Packet.body) \in Nat
    BY <1>2, BodyShape
  <2>4. \A a \in 1 .. 4 : \A b, r \in Nat : r > a /\ r < 1 + a + b => b > 0
    OBVIOUS
  <2>. QED
    BY <2>2, <2>3, <2>4, Zenon
<1>4. /\ IsValid(Wire, fieldBytes, awaited) <=> Packets!Acceptable(Packet, awaited)
      /\ IsValid(Wire, fieldBytes, awaited) =>
           (IsRefusal(Wire, awaited) <=> Packets!Refuses(Packet, awaited))
      /\ IsPublish(Wire) <=> Packet.first \in 48 .. 63
  BY <1>2, <1>3, ValidIsAcceptable
<1>5. Lent = taken /\ Lent' = taken'
  BY LentIsTaken
<1>6. Begin + Len(Wire) \in 0 .. arrived
  BY <1>2
<1> HIDE DEF packet
<1>7. CASE Deliver(packet, awaited)
  <2>1. /\ Tell("Delivered", Wire) /\ UNCHANGED connected
        /\ IsValid(Wire, fieldBytes, awaited) /\ ~IsRefusal(Wire, awaited)
        /\ UNCHANGED taken \/ (IsPublish(Wire) /\ taken' = taken + 1)
    BY <1>2, <1>7 DEF Deliver
  <2>2. Packets!Answer("Delivered", Wire) /\ Packets!NextPacket = Packet
    BY <1>2, <1>6, <2>1, IsAnswered
  <2>. QED
    BY <1>4, <1>5, <2>1, <2>2 DEF Packets!Deliver, Wire, Lent
<1>8. CASE Refuse(packet, awaited)
  <2>1. /\ Tell("Refused", << >>) /\ connected' = FALSE /\ UNCHANGED taken
        /\ IsValid(Wire, fieldBytes, awaited) /\ IsRefusal(Wire, awaited)
    BY <1>2, <1>8 DEF Refuse, ResetMQTTContext
  <2>2. Packets!Answer("Refused", << >>) /\ Packets!NextPacket = Packet
    BY <1>2, <1>6, <2>1, IsAnswered
  <2>. QED
    BY <1>4, <1>5, <2>1, <2>2 DEF Packets!Close, Lent
<1>9. CASE Reject(packet, awaited)
  <2>1. /\ Tell("Malformed", << >>) /\ connected' = FALSE /\ UNCHANGED taken
        /\ ~IsValid(Wire, fieldBytes, awaited)
    BY <1>2, <1>9 DEF Reject, ResetMQTTContext
  <2>2. Packets!Answer("Malformed", << >>) /\ Packets!NextPacket = Packet
    BY <1>2, <1>6, <2>1, IsAnswered
  <2>. QED
    BY <1>4, <1>5, <2>1, <2>2 DEF Packets!Close, Lent
<1>. QED
  BY <1>7, <1>8, <1>9 DEF ProcessPacket, packet

LEMMA DropRestIsDrop ==
  ASSUME IInv, IInv', DropRest
  PROVE  Packets!Drop
<1>1. /\ handled < Len(Sent[connection]) /\ HeaderIsRead
      /\ next' = Begin + Len(Wire) /\ next' \in 0 .. arrived /\ inCall /\ connected
  BY PacketIsSkipped
<1>2. /\ Tell("Dropped", << >>)
      /\ UNCHANGED <<connection, connected, callVars, taken>>
  BY DEF DropRest, bufferVars
<1>3. Packet.body # << >>
  <2>1. received \in Nat /\ received > fieldBytes /\ received < Len(Wire)
    BY DropShape DEF DropRest
  <2>2. /\ Len(Wire) = 1 + fieldBytes + Len(Packet.body) /\ fieldBytes \in 1 .. 4
        /\ Len(Packet.body) \in Nat
    BY <1>1, BodyShape
  <2>3. \A a \in 1 .. 4 : \A b, r \in Nat : r > a /\ r < 1 + a + b => b # 0
    OBVIOUS
  <2>4. Len(Packet.body) # 0
    BY <2>1, <2>2, <2>3, Zenon
  <2>. QED
    BY <2>4
<1>4. Packets!Answer("Dropped", << >>) /\ Packets!NextPacket = Packet
  BY <1>1, <1>2, IsAnswered
<1>5. UNCHANGED Lent
  BY <1>2, LentIsTaken
<1>. QED
  BY <1>2, <1>3, <1>4, <1>5 DEF Packets!Drop, Lent

\* MQTT_ParseReceivedData keeps the promise of module MQTTPackets: each packet
\* of a connection is told of once, in order and with its bytes, a malformed one
\* closes the connection, and no buffer is lost, for every stream of packets,
\* every way of cutting it and every number and size of the buffers.
THEOREM PacketsAreHandled == Spec => HandlesEveryPacket
<1>1. IInv /\ IInv' /\ [Next]_vars => [Packets!Next]_(Packets!vars)
  <2> SUFFICES ASSUME IInv, IInv', [Next]_vars
               PROVE  Packets!Next \/ UNCHANGED Packets!vars
    OBVIOUS
  <2>1. CASE \E c \in Connections : Connect(c)
    BY <2>1, ConnectIsConnect DEF Packets!Next
  <2>2. CASE Disconnect \/ Receive \/ Return \/ ReturnBuffer
    BY <2>2, DisconnectIsDisconnect, ReceiveIsReceive, ReturnIsReturn,
       ReturnBufferIsGiveBack DEF Packets!Next
  <2>3. CASE PacketType \/ FieldContinues \/ GetBuffer \/ GetNoBuffer \/ StoreSome \/ DropSome
    <3>1. UNCHANGED <<connection, connected, callVars, userVars, taken>>
      BY <2>3 DEF PacketType, FieldContinues, GetBuffer, GetNoBuffer, AwaitRest, StoreSome,
         DropSome, bufferVars
    <3>. QED
      BY <3>1, ReadsOn
  <2>4. CASE FieldIsMalformed \/ HeaderOnly
    BY <2>4, FieldIsMalformedIsClose, HeaderOnlyIsAnswered DEF Packets!Next
  <2>5. CASE DropRest
    BY <2>5, DropRestIsDrop DEF Packets!Next
  <2>6. CASE \E awaited \in BOOLEAN : ProcessPacket(awaited)
    BY <2>6, ProcessPacketIsAnswered DEF Packets!Next
  <2>7. CASE UNCHANGED vars
    BY <2>7, ReadsOn DEF vars, callVars, userVars
  <2>. QED
    BY <2>1, <2>2, <2>3, <2>4, <2>5, <2>6, <2>7 DEF Next
<1>. QED
  BY InitIsInit, Invariance, <1>1, PTL DEF Spec, HandlesEveryPacket, Packets!Spec
=============================================================================
