----------------------------- MODULE MQTTPackets -----------------------------
(***************************************************************************)
(* What the receive path of the MQTT library promises, stated over the     *)
(* packets a server sends and not over the pieces in which TCP brings them:*)
(* every packet that has arrived is answered for once, in order and with   *)
(* the bytes that were sent, before MQTT_ParseReceivedData returns; a      *)
(* malformed one ends the connection; no buffer is lost on the way.        *)
(*                                                                         *)
(* Abstract specification; module MQTTReceive implements it.               *)
(***************************************************************************)
EXTENDS Integers, Sequences

CONSTANTS
    Connections, \* the connections of this instance
    Sent,        \* per connection: the packets its server sends
    Start        \* per connection and packet: the bytes sent before it; one
                 \* more entry holds the bytes sent in all

VARIABLES
    connection, \* the current, or last, connection
    open,       \* the client is not in the state eMQTTNotConnected
    arrived,    \* bytes of the connection handed to the library
    inCall,     \* MQTT_ParseReceivedData is executing
    handled,    \* packets of the connection the library is done with
    event,      \* what the last of them came to
    lent        \* receive buffers the application has taken over

vars == <<connection, open, arrived, inCall, handled, event, lent>>

NoEvent == [fate |-> "none", bytes |-> << >>]

-----------------------------------------------------------------------------
(* Packets.  A packet is a record [first, field, body]: the byte with type  *)
(* and flags, the bytes of the Remaining Length field and the rest.         *)

Bytes(p) == <<p.first>> \o p.field \o p.body

\* A digit of the field says that another one follows.
Continues(byte) == byte >= 128

\* The number the field stands for: digits to the base 128, lowest first.
Value(field) ==
    LET Part(k, weight) == IF Len(field) < k THEN 0 ELSE weight * (field[k] % 128)
    IN  Part(1, 1) + Part(2, 128) + Part(3, 16384) + Part(4, 2097152)

\* Four digits that promise a fifth are malformed, and the end of the packet.
FieldIsWhole(p) == ~Continues(p.field[Len(p.field)])

HasQoS2(p) == (p.first \div 2) % 4 > 1
IsShort(p) == Len(p.field) = 1 /\ Len(p.body) = 2

\* The packet is one that a client accepts; "awaited" says that it answers a
\* request of the client that has not timed out.
Acceptable(p, awaited) ==
    /\ FieldIsWhole(p)
    /\ \/ p.first \in 48 .. 63 /\ ~HasQoS2(p) /\ p.body # << >>      \* PUBLISH
       \/ p.first \in {64, 176} /\ IsShort(p)                \* PUBACK, UNSUBACK
       \/ /\ p.first = 144 /\ Len(p.body) >= 3                       \* SUBACK
          /\ awaited => p.body[3] \in {0, 1, 128}
       \/ /\ p.first = 32 /\ p.body # << >>                          \* CONNACK
          /\ awaited => IsShort(p) /\ p.body[2] \in 0 .. 5
       \/ p.first = 208 /\ p.field = <<0>>                           \* PINGRESP

\* By such a packet the server refuses the connection.
Refuses(p, awaited) == p.first = 32 /\ awaited /\ p.body[2] # 0

-----------------------------------------------------------------------------
Init ==
    /\ connection \in Connections
    /\ open = FALSE
    /\ arrived = 0
    /\ inCall = FALSE
    /\ handled = 0
    /\ event = NoEvent
    /\ lent = 0

Connect(c) ==
    /\ ~open /\ ~inCall
    /\ connection' = c
    /\ open' = TRUE
    /\ arrived' = 0
    /\ handled' = 0
    /\ event' = NoEvent
    /\ UNCHANGED <<inCall, lent>>

Disconnect ==
    /\ open /\ ~inCall
    /\ open' = FALSE
    /\ UNCHANGED <<connection, arrived, inCall, handled, event, lent>>

\* TCP brings the next bytes, cut anywhere.
Receive ==
    /\ open /\ ~inCall
    /\ \E n \in (arrived + 1) .. Start[connection][Len(Sent[connection]) + 1] :
           arrived' = n
    /\ inCall' = TRUE
    /\ UNCHANGED <<connection, open, handled, event, lent>>

\* All bytes of the next packet have arrived.
PacketIsThere ==
    /\ open
    /\ handled < Len(Sent[connection])
    /\ arrived >= Start[connection][handled + 2]

NextPacket == Sent[connection][handled + 1]

\* The next packet is answered for.
Answer(fate, bytes) ==
    /\ inCall /\ PacketIsThere
    /\ handled' = handled + 1
    /\ event' = [fate |-> fate, bytes |-> bytes]
    /\ UNCHANGED <<connection, arrived, inCall>>

\* The application is told of a packet and given its bytes; it may take the
\* buffer of a PUBLISH over.
Deliver(awaited) ==
    /\ Answer("Delivered", Bytes(NextPacket))
    /\ Acceptable(NextPacket, awaited) /\ ~Refuses(NextPacket, awaited)
    /\ UNCHANGED open
    /\ \/ UNCHANGED lent
       \/ NextPacket.first \in 48 .. 63 /\ lent' = lent + 1

\* No buffer is free or large enough for the packet.
Drop ==
    /\ Answer("Dropped", << >>)
    /\ NextPacket.body # << >>
    /\ UNCHANGED <<open, lent>>

\* The server refuses the client, or sends what no server may.
Close(awaited) ==
    /\ \/ /\ Answer("Refused", << >>)
          /\ Acceptable(NextPacket, awaited) /\ Refuses(NextPacket, awaited)
       \/ Answer("Malformed", << >>) /\ ~Acceptable(NextPacket, awaited)
    /\ open' = FALSE
    /\ UNCHANGED lent

\* MQTT_ParseReceivedData returns when it has answered for all that is there.
Return ==
    /\ inCall /\ ~PacketIsThere
    /\ inCall' = FALSE
    /\ UNCHANGED <<connection, open, arrived, handled, event, lent>>

\* The application returns a buffer it had taken over, at any time.
GiveBack ==
    /\ lent > 0
    /\ lent' = lent - 1
    /\ UNCHANGED <<connection, open, arrived, inCall, handled, event>>

Next ==
    \/ \E c \in Connections : Connect(c)
    \/ Disconnect
    \/ Receive
    \/ \E awaited \in BOOLEAN : Deliver(awaited) \/ Close(awaited)
    \/ Drop
    \/ Return
    \/ GiveBack

Spec == Init /\ [][Next]_vars
=============================================================================
