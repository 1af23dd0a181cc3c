------------------------------ MODULE MCReceive ------------------------------
(* TLC instance of MQTTReceive: some connections with short streams.        *)
EXTENDS MQTTReceive, SequencesExt

Packet(first, field, body) == [first |-> first, field |-> field, body |-> body]

Wire(p) == <<p.first>> \o p.field \o p.body

ConnAck == Packet(32, <<2>>, <<0, 0>>)
Refusal == Packet(32, <<2>>, <<0, 5>>)
SubAck  == Packet(144, <<131, 0>>, <<0, 1, 128>>)   \* a length with a spare digit
PubAck  == Packet(64, <<2>>, <<0, 1>>)
Message == Packet(48, <<4>>, <<0, 1, 97, 98>>)
Large   == Packet(50, <<6>>, <<0, 1, 97, 0, 1, 98>>)
Long    == Packet(48, <<130, 1>>, [k \in 1 .. 130 |-> 0])
QoS2    == Packet(52, <<3>>, <<0, 1, 97>>)
Pong    == Packet(208, <<0>>, << >>)
BadPong == Packet(208, <<128, 0>>, << >>)
BadAck  == Packet(176, <<130, 0>>, <<0, 1>>)
BadSize == Packet(48, <<128, 128, 128, 128>>, << >>)

MCSent == << <<ConnAck, Message, Pong, Large>>, <<ConnAck, SubAck, PubAck, QoS2>>,
             <<Refusal>>, <<Message, BadPong, Pong>>, <<BadAck, Message>>,
             <<Pong, BadSize>>, <<Message, Long, Message>> >>
MCConnections == DOMAIN MCSent
MCStream == [c \in MCConnections |->
                FlattenSeq([i \in DOMAIN MCSent[c] |-> Wire(MCSent[c][i])])]
MCStart == [c \in MCConnections |->
               [i \in 1 .. (Len(MCSent[c]) + 1) |->
                   Len(FlattenSeq([k \in 1 .. (i - 1) |-> Wire(MCSent[c][k])]))]]
=============================================================================
