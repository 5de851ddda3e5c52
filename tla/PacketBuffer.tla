---------------------------- MODULE PacketBuffer ----------------------------
(***************************************************************************)
(* The class PacketBuffer (src/Shared/PacketBuffer.h, .cpp) as operators   *)
(* on a record pb: the byte array `buffer` and the uint16 positions        *)
(* readPos and writePos.  Both programs own such buffers, one to receive   *)
(* and one to send with, so the class is a module of operators and its     *)
(* users hold the records in their variables.                              *)
(*                                                                         *)
(* The widths are scaled.  A byte is a digit below ByteBase and a uint16   *)
(* is two of them, so with ByteBase = 256 the constants are those of the   *)
(* program: Uint16Range = 65536 and MAX_BUF_SIZE = 65535.                  *)
(***************************************************************************)
EXTENDS Integers, Sequences

CONSTANTS ByteBase,     \* the number of values of a byte
          Uint16Range   \* the number of values of a uint16

ASSUME WidthAssumption ==
    /\ ByteBase \in Nat
    /\ ByteBase >= 3
    /\ Uint16Range = ByteBase * ByteBase

Byte   == 0 .. (ByteBase - 1)
Uint16 == 0 .. (Uint16Range - 1)

MAX_BUF_SIZE == Uint16Range - 1

(* Conversion of an int, size_t or int expression to uint16. *)
ToUint16(n) == n % Uint16Range

(* CopyMemory between a uint16 and two bytes of a buffer, low byte first. *)
BytesOf(n)      == << n % ByteBase, n \div ByteBase >>
ValueOf(lo, hi) == lo + ByteBase * hi

SizeofUint16  == 2
GetHeaderSize == SizeofUint16 + SizeofUint16

(***************************************************************************)
(* The object.  pad is the byte the compiler leaves between the 65535      *)
(* bytes of the array and readPos; the constructor does not set it.        *)
(***************************************************************************)
PacketBuffers == [ buffer   : [0 .. (MAX_BUF_SIZE - 1) -> Byte],
                   pad      : Byte,
                   readPos  : Uint16,
                   writePos : Uint16 ]

Constructed(pad) == [ buffer   |-> [i \in 0 .. (MAX_BUF_SIZE - 1) |-> 0],
                      pad      |-> pad,
                      readPos  |-> 0,
                      writePos |-> 0 ]

Clear(pb) == Constructed(pb.pad)

(***************************************************************************)
(* The byte at an offset from buffer.data().  Past the array come the rest *)
(* of the object and then memory this module knows nothing of: junk.       *)
(***************************************************************************)
ByteAt(pb, i, junk) ==
    LET rest == <<pb.pad>> \o BytesOf(pb.readPos) \o BytesOf(pb.writePos)
    IN  IF i < MAX_BUF_SIZE THEN pb.buffer[i]
        ELSE IF i - MAX_BUF_SIZE < Len(rest) THEN rest[i - MAX_BUF_SIZE + 1]
        ELSE junk

BytesFrom(pb, i, n, junk) == [k \in 1 .. n |-> ByteAt(pb, i + k - 1, junk)]

(***************************************************************************)
(* Queries.                                                                *)
(***************************************************************************)
GetRemainSize(pb) == ToUint16(MAX_BUF_SIZE - pb.writePos)

GetBufferSize(pb) ==
    IF pb.readPos > pb.writePos THEN 0 ELSE pb.writePos - pb.readPos

GetPacketSize(pb) ==
    IF GetBufferSize(pb) < SizeofUint16
    THEN 0
    ELSE ValueOf(pb.buffer[pb.readPos], pb.buffer[pb.readPos + 1])

(* The early return tests writePos, not the number of unread bytes. *)
GetPacketNo(pb) ==
    IF pb.writePos < GetHeaderSize
    THEN 0
    ELSE LET at == pb.readPos + SizeofUint16
         IN  ValueOf(ByteAt(pb, at, 0), ByteAt(pb, at + 1, 0))

GetPayloadBufferSize(pb) == ToUint16(GetPacketSize(pb) - GetHeaderSize)

(* The bytes the protobuf parser is given. *)
Payload(pb, junk) ==
    BytesFrom(pb, pb.readPos + GetHeaderSize, GetPayloadBufferSize(pb), junk)

(* The bytes send() is given: GetPacketSize() bytes from GetPacketBuffer(). *)
PacketBytes(pb, junk) == BytesFrom(pb, pb.readPos, GetPacketSize(pb), junk)

(* Mutant: more than the packet has to be there. *)
IsAbleToGetPacketStrict(pb) ==
    GetPacketSize(pb) # 0 /\ GetPacketSize(pb) < GetBufferSize(pb)

IsAbleToGetPacket(pb) ==
    /\ GetPacketSize(pb) # 0
    /\ GetBufferSize(pb) # 0
    /\ GetPacketSize(pb) <= GetBufferSize(pb)

(***************************************************************************)
(* Updates.  Those that return bool yield [ok |-> ..., pb |-> ...].        *)
(***************************************************************************)
Return(ok, pb) == [ok |-> ok, pb |-> pb]

(* Mutant: the positions are reset and the bytes are not moved. *)
ReArrangeWithoutMove(pb) ==
    [pb EXCEPT !.readPos = 0, !.writePos = GetBufferSize(pb)]

ReArrange(pb) ==
    LET size == GetBufferSize(pb)
    IN  [ buffer   |-> [i \in 0 .. (MAX_BUF_SIZE - 1) |->
                          IF i < size THEN pb.buffer[pb.readPos + i]
                                      ELSE pb.buffer[i]],
          pad      |-> pb.pad,
          readPos  |-> 0,
          writePos |-> size ]

(* Mutant: the test of the buffer's size is dropped. *)
TruncateBufferUnchecked(pb, size) == [pb EXCEPT !.readPos = ToUint16(@ + size)]

TruncateBuffer(pb, size) ==
    IF size > GetBufferSize(pb)
    THEN pb
    ELSE [pb EXCEPT !.readPos = ToUint16(@ + size)]

ConsumePacket(pb) == TruncateBuffer(pb, GetPacketSize(pb))

(***************************************************************************)
(* CopyMemory(buffer.data() + writePos, bytes, n); writePos += n.  Nothing *)
(* here checks the end of the array: a copy that runs over it falls on pad *)
(* and then on the low byte of readPos (the only ones within reach of the  *)
(* two-byte copies that are made unchecked).                               *)
(***************************************************************************)
Store(pb, bytes) ==
    LET w == pb.writePos
        n == Len(bytes)
    IN  [ buffer   |-> [i \in 0 .. (MAX_BUF_SIZE - 1) |->
                          IF w <= i /\ i < w + n THEN bytes[i - w + 1]
                                                 ELSE pb.buffer[i]],
          pad      |-> IF w + n > MAX_BUF_SIZE
                       THEN bytes[MAX_BUF_SIZE - w + 1] ELSE pb.pad,
          readPos  |-> IF w + n > MAX_BUF_SIZE + 1
                       THEN pb.readPos - (pb.readPos % ByteBase)
                                       + bytes[MAX_BUF_SIZE - w + 2]
                       ELSE pb.readPos,
          writePos |-> ToUint16(w + n) ]

(* `if (size > GetRemainSize()) ReArrange();` *)
MakeRoom(pb, size) == IF size > GetRemainSize(pb) THEN ReArrange(pb) ELSE pb

AppendBuffer(pb, bytes) ==
    LET size  == ToUint16(Len(bytes))
        roomy == MakeRoom(pb, size)
    IN  IF size = 0 THEN Return(FALSE, pb)
        ELSE IF size > GetRemainSize(roomy) THEN Return(FALSE, roomy)
        ELSE Return(TRUE, Store(roomy, SubSeq(bytes, 1, size)))

(* SetPacketSize and SetPacketNo; their own test can not fail a uint16. *)
SetHeader(pb, packetSize, packetNo) ==
    Store(Store(pb, BytesOf(packetSize)), BytesOf(packetNo))

(* Mutant: SetPacket without its second test of the room. *)
SetPacketUnchecked(pb, packetNo, payload) ==
    LET packetSize == ToUint16(GetHeaderSize + Len(payload))
    IN  AppendBuffer(SetHeader(MakeRoom(pb, packetSize), packetSize, packetNo), payload)

(***************************************************************************)
(* SetPacket of a packet whose serialization is the byte sequence payload. *)
(* SerializeToArray fails when the payload is longer than MAX_BUF_SIZE, by *)
(* which time the header is in the buffer.                                 *)
(***************************************************************************)
SetPacket(pb, packetNo, payload) ==
    LET packetSize == ToUint16(GetHeaderSize + Len(payload))
        roomy      == MakeRoom(pb, packetSize)
        headed     == SetHeader(roomy, packetSize, packetNo)
    IN  IF packetSize > GetRemainSize(roomy) THEN Return(FALSE, roomy)
        ELSE IF Len(payload) > MAX_BUF_SIZE THEN Return(FALSE, headed)
        ELSE AppendBuffer(headed, payload)

(***************************************************************************)
(* Reference notions, used to say what the class is for: the unread bytes, *)
(* and the layout of a packet that PacketBuffer.h draws.                   *)
(***************************************************************************)
Unread(pb) == [k \in 1 .. GetBufferSize(pb) |-> pb.buffer[pb.readPos + k - 1]]

PacketOf(packetNo, payload) ==
    BytesOf(GetHeaderSize + Len(payload)) \o BytesOf(packetNo) \o payload

(* A byte sequence is one packet: it leads with its own length. *)
Framed(bytes) == /\ Len(bytes) >= SizeofUint16
                 /\ ValueOf(bytes[1], bytes[2]) = Len(bytes)

(* SetPacket's caller may expect the whole packet to be framed. *)
Fits(payload) == /\ payload # << >>
                 /\ GetHeaderSize + Len(payload) <= MAX_BUF_SIZE
=============================================================================
