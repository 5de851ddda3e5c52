-------------------------- MODULE PacketBufferSpec --------------------------
(***************************************************************************)
(* One PacketBuffer object and every sequence of calls of its public       *)
(* operations.  Nothing in the program bounds the packets SetPacket is     *)
(* given, so nothing does here: empty ones, ones longer than the array and *)
(* ones whose size wraps are among them.                                   *)
(***************************************************************************)
EXTENDS PacketBuffer

CONSTANTS Chunks,      \* byte sequences given to AppendBuffer
          Payloads,    \* serializations of packets given to SetPacket
          PacketNos    \* protocol numbers of those packets

(* A chunk's size is a uint16 parameter of AppendBuffer. *)
ASSUME InputAssumption ==
    /\ Chunks \subseteq Seq(Byte)
    /\ \A bytes \in Chunks : Len(bytes) <= MAX_BUF_SIZE
    /\ Payloads \subseteq Seq(Byte)
    /\ PacketNos \subseteq Uint16

VARIABLES pb,          \* the object
          returned,    \* what the last AppendBuffer or SetPacket returned
          overrun      \* history: a header was copied past the array

bufferVars == <<pb, returned, overrun>>

BufferInit ==
    /\ pb \in {Constructed(pad) : pad \in Byte}
    /\ returned = TRUE
    /\ overrun = FALSE

(***************************************************************************)
(* SetPacket tests its uint16 packetSize against the room, but copies four *)
(* bytes of header: when the size has wrapped to less than that, they pass *)
(* the test where there is no room for them.                               *)
(***************************************************************************)
PacketSize(payload)  == ToUint16(GetHeaderSize + Len(payload))
HeaderRoom(payload)  == GetRemainSize(MakeRoom(pb, PacketSize(payload)))
HeaderOverruns(payload) ==
    PacketSize(payload) <= HeaderRoom(payload) /\ HeaderRoom(payload) < GetHeaderSize

PacketHeader(packetNo, payload) == BytesOf(PacketSize(payload)) \o BytesOf(packetNo)

DoAppendBuffer(bytes) ==
    LET r == AppendBuffer(pb, bytes)
    IN  pb' = r.pb /\ returned' = r.ok /\ UNCHANGED overrun

DoSetPacket(packetNo, payload) ==
    LET r == SetPacket(pb, packetNo, payload)
    IN  /\ pb' = r.pb
        /\ returned' = r.ok
        /\ overrun' = (overrun \/ HeaderOverruns(payload))

DoConsumePacket == pb' = ConsumePacket(pb) /\ UNCHANGED <<returned, overrun>>

DoClear == pb' = Clear(pb) /\ overrun' = FALSE /\ UNCHANGED returned

BufferNext ==
    \/ \E bytes \in Chunks : DoAppendBuffer(bytes)
    \/ \E packetNo \in PacketNos, payload \in Payloads :
          DoSetPacket(packetNo, payload)
    \/ DoConsumePacket
    \/ DoClear

BufferSpec == BufferInit /\ [][BufferNext]_bufferVars

(***************************************************************************)
(* The object keeps its type: the positions stay uint16 values, also when  *)
(* a header that overruns the array falls on one of them.                  *)
(***************************************************************************)
BufferTypeOK == pb \in PacketBuffers /\ returned \in BOOLEAN /\ overrun \in BOOLEAN

(***************************************************************************)
(* No sequence of appends, compactions, consumptions and refused packets   *)
(* lets readPos pass writePos, the case GetBufferSize reports as an error  *)
(* and takes for an empty buffer, until a header overruns the array.       *)
(***************************************************************************)
PositionsOrdered == BufferTypeOK /\ (~overrun => pb.readPos <= pb.writePos)

(***************************************************************************)
(* When the unchecked copies of SetPacketSize and SetPacketNo leave the    *)
(* array and what it does: in no other call is pad, the first byte behind  *)
(* the array, touched.  In those a byte of the header falls on it; and if  *)
(* the payload is one the local array can hold, SetPacket stores it over   *)
(* the unread bytes, returns true and leaves writePos as if a packet of    *)
(* the wrapped size had been put.                                          *)
(***************************************************************************)
OverrunsExactly ==
    [][ /\ ~overrun' => pb'.pad = pb.pad
        /\ \A packetNo \in PacketNos, payload \in Payloads :
              LET room == HeaderRoom(payload)
              IN  HeaderOverruns(payload) /\ DoSetPacket(packetNo, payload) =>
                    /\ pb'.pad = PacketHeader(packetNo, payload)[room + 1]
                    /\ returned' = (Len(payload) <= MAX_BUF_SIZE)
                    /\ returned' => pb'.writePos = MAX_BUF_SIZE - room + PacketSize(payload)
      ]_bufferVars

(* The bytes of the queue; none is relied on after an overrun. *)
QueueBytes == IF overrun THEN << >> ELSE Unread(pb)

(***************************************************************************)
(* The class implements the byte queue: compaction (ReArrange), wherever   *)
(* the positions are, loses and reorders nothing, an append is refused     *)
(* exactly when the free space is too small in total, a packet is consumed *)
(* whole, and of a packet that can not be queued nothing or the header is. *)
(***************************************************************************)
Queue == INSTANCE ByteQueue
    WITH q        <- QueueBytes,
         result   <- returned,
         broken   <- overrun,
         Capacity <- MAX_BUF_SIZE,
         Inputs   <- Chunks \cup {PacketOf(no, p) : no \in PacketNos,
                                                   p \in {x \in Payloads : Fits(x)}},
         Headers  <- {PacketHeader(no, p) : no \in PacketNos,
                                            p \in {x \in Payloads : ~Fits(x)}}

ImplementsByteQueue == Queue!Spec
=============================================================================
