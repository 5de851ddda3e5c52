---------------------------- MODULE ClientSession ----------------------------
(***************************************************************************)
(* The part of SessionBase (ClientSession.h), PacketFunctor                *)
(* (PacketHandlerManager.h) and the chat handler (ClientSessionHandler.cpp)*)
(* that works on a session's two PacketBuffers, as operators.  Their       *)
(* control, which interleaves with what the peers do, is in MServer.       *)
(***************************************************************************)
EXTENDS PacketBuffer

(* PC2S::ProtocolNumber and PS2C::ProtocolNumber. *)
PC2S_Chat == 0
PS2C_Chat == 0

(***************************************************************************)
(* The protobuf message Chat, external.  Its one field is serialized as a  *)
(* tag and the characters of the message (the length, which the size of    *)
(* the payload repeats, is left out), and parsing refuses a payload that   *)
(* does not lead with the tag.                                             *)
(***************************************************************************)
Tag                  == 1
SerializeChat(msg)   == <<Tag>> \o msg
ParsesAsChat(bytes)  == bytes # << >> /\ bytes[1] = Tag
ParseChat(bytes)     == Tail(bytes)

(* fmt::format("{},{}", message, count), external: the message, a comma and *)
(* the digits of the count.                                                *)
Comma == 2
Numeral[n \in Nat] ==
    IF n < ByteBase THEN <<n>> ELSE Numeral[n \div ByteBase] \o <<n % ByteBase>>
Format(msg, count) == msg \o <<Comma>> \o Numeral[count]

(* Mutant: the packet is consumed whether or not send() failed. *)
SendPacketConsumesAlways(sendBuffer, packetNo, payload, sendable, junk) ==
    LET set == SetPacket(sendBuffer, packetNo, payload)
    IN  [ok   |-> set.ok /\ sendable,
         pb   |-> IF set.ok THEN ConsumePacket(set.pb) ELSE set.pb,
         sent |-> IF set.ok /\ sendable THEN PacketBytes(set.pb, junk) ELSE << >>]

(* Mutant: the result of SetPacket is ignored. *)
SendPacketSendsAnyway(sendBuffer, packetNo, payload, sendable, junk) ==
    LET pb == SetPacket(sendBuffer, packetNo, payload).pb
    IN  [ok   |-> sendable,
         pb   |-> IF sendable THEN ConsumePacket(pb) ELSE pb,
         sent |-> IF sendable THEN PacketBytes(pb, junk) ELSE << >>]

(***************************************************************************)
(* SendPacket.  sendable says whether send() succeeds, in which case it    *)
(* takes all it is given; nothing is consumed when it fails.               *)
(***************************************************************************)
SendPacket(sendBuffer, packetNo, payload, sendable, junk) ==
    LET set == SetPacket(sendBuffer, packetNo, payload)
    IN  IF set.ok /\ sendable
        THEN [ok |-> TRUE, pb |-> ConsumePacket(set.pb),
              sent |-> PacketBytes(set.pb, junk)]
        ELSE [ok |-> FALSE, pb |-> set.pb, sent |-> << >>]

(* Mutant: a chunk that fills the buffer is refused too. *)
OnRecvTight(recvBuffer, bytes) ==
    IF Len(bytes) >= MAX_BUF_SIZE
    THEN Return(FALSE, recvBuffer)
    ELSE AppendBuffer(recvBuffer, bytes)

(* The beginning of OnRecv: what it refuses is lost. *)
OnRecv(recvBuffer, bytes) ==
    IF Len(bytes) > MAX_BUF_SIZE
    THEN Return(FALSE, recvBuffer)
    ELSE AppendBuffer(recvBuffer, bytes)

(* A request as a peer sends it, and the reply the handler makes of it. *)
ChatRequest(msg)        == PacketOf(PC2S_Chat, SerializeChat(msg))
ReplyPayload(msg, count) == SerializeChat(Format(msg, count))
=============================================================================
