------------------------- MODULE PacketBufferProofs -------------------------
(***************************************************************************)
(* What the operators of PacketBuffer do to the unread bytes, for every    *)
(* byte width, and what a queue of framed packets does when its front is   *)
(* taken.  The proofs about the modules that use PacketBuffers cite these. *)
(* Last, the theorems about PacketBufferSpec, for every set of chunks and  *)
(* every set of packets.                                                   *)
(***************************************************************************)
EXTENDS PacketBufferSpec, EcoClient, SequenceTheorems, WellFoundedInduction, TLAPS

(* The states in which the operations are called. *)
Sound(b) == b \in PacketBuffers /\ b.readPos <= b.writePos

-----------------------------------------------------------------------------
(* Arithmetic of the widths. *)

(* A value below the range of uint16 is not changed by the conversion. *)
LEMMA WidthFacts ==
    /\ Uint16Range \in Nat
    /\ Uint16Range >= 9
    /\ MAX_BUF_SIZE \in Nat
    /\ \A n \in Uint16 : ToUint16(n) = n
    /\ \A n \in Int : ToUint16(n) \in Uint16
  <1>1. ByteBase * ByteBase \in Nat /\ ByteBase * ByteBase >= 9
    BY WidthAssumption, Z3
  <1>2. \A u \in Nat \ {0}, n \in Int : (n % u) \in 0 .. (u - 1)
    BY Z3
  <1>3. \A u \in Nat, n \in Nat : n < u => n % u = n
    BY Z3
  <1> QED
    BY <1>1, <1>2, <1>3, WidthAssumption DEF MAX_BUF_SIZE, ToUint16, Uint16

(* The two digits of a number below B^2. *)
LEMMA Digits ==
    ASSUME NEW B \in Nat, B > 0, NEW n \in 0 .. (B * B - 1)
    PROVE  /\ n % B \in 0 .. (B - 1)
           /\ n \div B \in 0 .. (B - 1)
           /\ (n % B) + B * (n \div B) = n
  BY Z3

(* Two bytes hold a uint16 and give it back. *)
LEMMA BytesOfFacts ==
    ASSUME NEW n \in Uint16
    PROVE  /\ BytesOf(n) \in Seq(Byte)
           /\ Len(BytesOf(n)) = 2
           /\ ValueOf(BytesOf(n)[1], BytesOf(n)[2]) = n
  <1>1. /\ ByteBase \in Nat /\ ByteBase > 0
        /\ n \in 0 .. (ByteBase * ByteBase - 1)
    BY WidthAssumption DEF Uint16
  <1>2. /\ n % ByteBase \in Byte
        /\ n \div ByteBase \in Byte
        /\ (n % ByteBase) + ByteBase * (n \div ByteBase) = n
    BY <1>1, Digits, Zenon DEF Byte
  <1> QED
    BY <1>2 DEF BytesOf, ValueOf

(* The value of two bytes is a uint16. *)
LEMMA ValueOfFacts ==
    ASSUME NEW lo \in Byte, NEW hi \in Byte
    PROVE  ValueOf(lo, hi) \in Uint16
  <1>1. \A B \in Nat : \A l, h \in 0 .. (B - 1) : l + B * h \in 0 .. (B * B - 1)
    BY Z3
  <1> QED
    BY <1>1, WidthAssumption DEF Byte, Uint16, ValueOf

(* A part of a sequence. *)
LEMMA SubSeqOf ==
    ASSUME NEW S, NEW s \in Seq(S), NEW m \in 1 .. (Len(s) + 1), NEW n \in (m - 1) .. Len(s)
    PROVE  /\ SubSeq(s, m, n) \in Seq(S)
           /\ Len(SubSeq(s, m, n)) = n - m + 1
           /\ \A i \in 1 .. (n - m + 1) : SubSeq(s, m, n)[i] = s[m + i - 1]
  <1>1. Len(s) \in Nat /\ m \in Int /\ n \in Int
    OBVIOUS
  <1>2. \A i \in m .. n : i \in 1 .. Len(s)
    BY <1>1
  <1>3. \A i \in m .. n : s[i] \in S
    BY <1>2, ElementOfSeq
  <1>4. /\ SubSeq(s, m, n) \in Seq(S)
        /\ Len(SubSeq(s, m, n)) = IF m <= n THEN n - m + 1 ELSE 0
        /\ \A i \in 1 .. n - m + 1 : SubSeq(s, m, n)[i] = s[m + i - 1]
    BY <1>1, <1>3, SubSeqProperties
  <1>5. (IF m <= n THEN n - m + 1 ELSE 0) = n - m + 1
    BY <1>1
  <1> QED
    BY <1>4, <1>5, Zenon

(* The concatenation of byte sequences is one, and its length is the sum. *)
LEMMA ConcatBytes ==
    ASSUME NEW s \in Seq(Byte), NEW t \in Seq(Byte)
    PROVE  s \o t \in Seq(Byte) /\ Len(s \o t) = Len(s) + Len(t)
  BY ConcatProperties

(* Concatenation is associative on byte sequences. *)
LEMMA ConcatBytesAssoc ==
    ASSUME NEW s \in Seq(Byte), NEW t \in Seq(Byte), NEW u \in Seq(Byte)
    PROVE  (s \o t) \o u = s \o (t \o u)
  BY ConcatAssociative

-----------------------------------------------------------------------------
(* What the operations do to the unread bytes. *)

(* The unread bytes of a sound buffer are a byte sequence. *)
LEMMA UnreadFacts ==
    ASSUME NEW b, Sound(b)
    PROVE  /\ GetBufferSize(b) = b.writePos - b.readPos
           /\ GetBufferSize(b) \in 0 .. MAX_BUF_SIZE
           /\ Unread(b) \in Seq(Byte)
           /\ Len(Unread(b)) = GetBufferSize(b)
           /\ GetRemainSize(b) = MAX_BUF_SIZE - b.writePos
  <1>1. /\ GetBufferSize(b) = b.writePos - b.readPos
        /\ GetBufferSize(b) \in 0 .. MAX_BUF_SIZE
    BY WidthFacts DEF Sound, PacketBuffers, GetBufferSize, Uint16, MAX_BUF_SIZE
  <1>2. \A k \in 1 .. GetBufferSize(b) : b.buffer[b.readPos + k - 1] \in Byte
    BY <1>1, WidthFacts DEF Sound, PacketBuffers, Uint16, MAX_BUF_SIZE
  <1>3. Unread(b) \in [1 .. GetBufferSize(b) -> Byte]
    BY <1>2 DEF Unread
  <1>4. GetRemainSize(b) = MAX_BUF_SIZE - b.writePos
    BY WidthFacts DEF Sound, PacketBuffers, GetRemainSize, Uint16, MAX_BUF_SIZE
  <1> QED
    BY <1>1, <1>3, <1>4

(* Compaction moves the unread bytes to the front and keeps them. *)
LEMMA ReArrangeFacts ==
    ASSUME NEW b, Sound(b)
    PROVE  /\ Sound(ReArrange(b))
           /\ Unread(ReArrange(b)) = Unread(b)
           /\ ReArrange(b).pad = b.pad
           /\ ReArrange(b).writePos = GetBufferSize(b)
  <1> DEFINE a == ReArrange(b)
             size == GetBufferSize(b)
  <1>1. /\ size = b.writePos - b.readPos
        /\ size \in 0 .. MAX_BUF_SIZE
    BY UnreadFacts
  <1>2. /\ b.buffer \in [0 .. (MAX_BUF_SIZE - 1) -> Byte]
        /\ b.pad \in Byte
        /\ b.readPos \in 0 .. MAX_BUF_SIZE
        /\ b.writePos \in 0 .. MAX_BUF_SIZE
    BY WidthFacts DEF Sound, PacketBuffers, Uint16, MAX_BUF_SIZE
  <1> DEFINE moved == [i \in 0 .. (MAX_BUF_SIZE - 1) |->
                         IF i < size THEN b.buffer[b.readPos + i]
                                     ELSE b.buffer[i]]
  <1>3. a = [buffer |-> moved, pad |-> b.pad, readPos |-> 0, writePos |-> size]
    BY Zenon DEF ReArrange
  <1>4. Sound(a)
    <2>1. \A i \in 0 .. (MAX_BUF_SIZE - 1) :
             i < size => b.buffer[b.readPos + i] \in Byte
      BY <1>1, <1>2, WidthFacts
    <2>2. moved \in [0 .. (MAX_BUF_SIZE - 1) -> Byte]
      BY <1>2, <2>1
    <2> HIDE DEF moved, a, size
    <2> QED
      BY <1>1, <1>2, <1>3, <2>2, WidthFacts
      DEF Sound, PacketBuffers, Uint16, MAX_BUF_SIZE
  <1>5. GetBufferSize(a) = size
    <2> HIDE DEF moved, a, size
    <2> QED BY <1>1, <1>3, WidthFacts DEF GetBufferSize
  <1>6. \A k \in 1 .. size : a.buffer[a.readPos + k - 1] = b.buffer[b.readPos + k - 1]
    <2>1. \A k \in 1 .. size : moved[k - 1] = b.buffer[b.readPos + k - 1]
      BY <1>1, <1>2, WidthFacts
    <2> HIDE DEF moved, a, size
    <2> QED BY <1>1, <1>3, <2>1
  <1>7. Unread(a) = Unread(b)
    BY <1>5, <1>6 DEF Unread
  <1> QED
    BY <1>3, <1>4, <1>7

(* A copy that ends inside the array appends to the unread bytes. *)
LEMMA StoreFacts ==
    ASSUME NEW b, Sound(b), NEW bytes \in Seq(Byte),
           b.writePos + Len(bytes) <= MAX_BUF_SIZE
    PROVE  /\ Sound(Store(b, bytes))
           /\ Unread(Store(b, bytes)) = Unread(b) \o bytes
           /\ Store(b, bytes).pad = b.pad
           /\ Store(b, bytes).writePos = b.writePos + Len(bytes)
  <1> DEFINE a == Store(b, bytes)
             w == b.writePos
             n == Len(bytes)
  <1>1. /\ b.buffer \in [0 .. (MAX_BUF_SIZE - 1) -> Byte]
        /\ b.pad \in Byte
        /\ b.readPos \in 0 .. w
        /\ w \in 0 .. MAX_BUF_SIZE
        /\ n \in Nat
        /\ w + n \in Uint16
    BY WidthFacts DEF Sound, PacketBuffers, Uint16, MAX_BUF_SIZE
  <1> DEFINE copied == [i \in 0 .. (MAX_BUF_SIZE - 1) |->
                          IF w <= i /\ i < w + n THEN bytes[i - w + 1]
                                                 ELSE b.buffer[i]]
  <1>2. a = [ buffer   |-> copied,
              pad      |-> b.pad,
              readPos  |-> b.readPos,
              writePos |-> w + n ]
    <2>1. ToUint16(w + n) = w + n
      BY <1>1, WidthFacts
    <2>2. ~(w + n > MAX_BUF_SIZE) /\ ~(w + n > MAX_BUF_SIZE + 1)
      BY <1>1, WidthFacts
    <2> QED
      BY <2>1, <2>2, Zenon DEF Store
  <1>3. copied \in [0 .. (MAX_BUF_SIZE - 1) -> Byte]
    <2>1. \A i \in 0 .. (MAX_BUF_SIZE - 1) :
             w <= i /\ i < w + n => bytes[i - w + 1] \in Byte
      BY <1>1, WidthFacts
    <2> QED
      BY <1>1, <2>1
  <1>a. /\ \A i \in 0 .. (w - 1) : copied[i] = b.buffer[i]
        /\ \A i \in w .. (w + n - 1) : copied[i] = bytes[i - w + 1]
    BY <1>1, WidthFacts
  <1> HIDE DEF a, copied
  <1>4. Sound(a)
    BY <1>1, <1>2, <1>3, WidthFacts
    DEF Sound, PacketBuffers, Uint16, MAX_BUF_SIZE
  <1>5. /\ Unread(a) \in Seq(Byte)
        /\ Len(Unread(a)) = w + n - b.readPos
        /\ GetBufferSize(a) = w + n - b.readPos
    BY <1>1, <1>2, <1>4, UnreadFacts
  <1>6. /\ Unread(b) \in Seq(Byte)
        /\ Len(Unread(b)) = w - b.readPos
        /\ GetBufferSize(b) = w - b.readPos
    BY UnreadFacts
  <1>7. /\ Unread(b) \o bytes \in Seq(Byte)
        /\ Len(Unread(b) \o bytes) = w + n - b.readPos
    BY <1>1, <1>6, ConcatProperties
  <1>8. ASSUME NEW k \in 1 .. (w + n - b.readPos)
        PROVE  Unread(a)[k] = (Unread(b) \o bytes)[k]
    <2>1. Unread(a)[k] = copied[b.readPos + k - 1]
      BY <1>2, <1>5 DEF Unread
    <2>2. CASE k <= w - b.readPos
      <3>1. b.readPos + k - 1 \in 0 .. (w - 1) /\ k \in 1 .. (w - b.readPos)
        BY <1>1, <2>2
      <3>2. copied[b.readPos + k - 1] = b.buffer[b.readPos + k - 1]
        BY <1>a, <3>1
      <3>3. Unread(b)[k] = b.buffer[b.readPos + k - 1]
        BY <1>6, <3>1 DEF Unread
      <3>4. (Unread(b) \o bytes)[k] = Unread(b)[k]
        BY <1>1, <1>6, <2>2, ConcatProperties
      <3> QED
        BY <2>1, <3>2, <3>3, <3>4
    <2>3. CASE k > w - b.readPos
      <3>1. b.readPos + k - 1 \in w .. (w + n - 1)
        BY <1>1, <2>3
      <3>2. copied[b.readPos + k - 1] = bytes[(b.readPos + k - 1) - w + 1]
        BY <1>a, <3>1
      <3>3. (b.readPos + k - 1) - w + 1 = k - (w - b.readPos)
        BY <1>1
      <3>4. (Unread(b) \o bytes)[k] = bytes[k - (w - b.readPos)]
        BY <1>1, <1>6, <2>3, ConcatProperties
      <3> QED
        BY <2>1, <3>2, <3>3, <3>4
    <2>4. k <= w - b.readPos \/ k > w - b.readPos
      BY <1>1
    <2> QED
      BY <2>2, <2>3, <2>4, Zenon
  <1>9. Unread(a) = Unread(b) \o bytes
    BY <1>5, <1>7, <1>8, SeqEqual
  <1> QED
    BY <1>2, <1>4, <1>9 DEF a

(* MakeRoom keeps the unread bytes, and room is found exactly when there is *)
(* enough of it in front of and behind them together.                       *)
LEMMA MakeRoomFacts ==
    ASSUME NEW b, Sound(b), NEW size \in Nat
    PROVE  /\ Sound(MakeRoom(b, size))
           /\ Unread(MakeRoom(b, size)) = Unread(b)
           /\ MakeRoom(b, size).pad = b.pad
           /\ size <= GetRemainSize(MakeRoom(b, size))
                 <=> GetBufferSize(b) + size <= MAX_BUF_SIZE
  <1> DEFINE r == MakeRoom(b, size)
  <1>1. /\ GetBufferSize(b) = b.writePos - b.readPos
        /\ GetRemainSize(b) = MAX_BUF_SIZE - b.writePos
        /\ b.readPos \in Nat /\ b.writePos \in Nat
        /\ MAX_BUF_SIZE \in Nat
    <2>1. b.readPos \in Nat /\ b.writePos \in Nat
      BY DEF Sound, PacketBuffers, Uint16
    <2> QED
      BY <2>1, UnreadFacts, WidthFacts, Zenon
  <1>2. CASE size > GetRemainSize(b)
    <2>1. r = ReArrange(b)
      BY <1>2, Zenon DEF MakeRoom
    <2>2. /\ Sound(r) /\ Unread(r) = Unread(b) /\ r.pad = b.pad
          /\ r.writePos = GetBufferSize(b)
      BY <2>1, ReArrangeFacts
    <2>3. GetRemainSize(r) = MAX_BUF_SIZE - GetBufferSize(b)
      BY <2>2, UnreadFacts
    <2> QED
      BY <1>1, <2>2, <2>3
  <1>3. CASE ~(size > GetRemainSize(b))
    <2>1. r = b
      BY <1>3, Zenon DEF MakeRoom
    <2> QED
      BY <1>1, <1>3, <2>1
  <1> QED
    BY <1>2, <1>3, Zenon

(* AppendBuffer takes the bytes whole when they fit, else changes nothing. *)
LEMMA AppendBufferFacts ==
    ASSUME NEW b, Sound(b), NEW bytes \in Seq(Byte), Len(bytes) <= MAX_BUF_SIZE
    PROVE  LET r  == AppendBuffer(b, bytes)
               ok == bytes # << >> /\ GetBufferSize(b) + Len(bytes) <= MAX_BUF_SIZE
           IN  /\ r.ok = ok
               /\ Sound(r.pb)
               /\ Unread(r.pb) = IF ok THEN Unread(b) \o bytes ELSE Unread(b)
               /\ r.pb.pad = b.pad
  <1> DEFINE size  == Len(bytes)
             roomy == MakeRoom(b, size)
             r     == AppendBuffer(b, bytes)
  <1>1. /\ size \in Nat
        /\ ToUint16(Len(bytes)) = size
        /\ bytes = << >> <=> size = 0
    BY WidthFacts DEF Uint16, MAX_BUF_SIZE
  <1>2. /\ Sound(roomy)
        /\ Unread(roomy) = Unread(b)
        /\ roomy.pad = b.pad
        /\ size <= GetRemainSize(roomy) <=> GetBufferSize(b) + size <= MAX_BUF_SIZE
    BY <1>1, MakeRoomFacts
  <1>3. GetRemainSize(roomy) = MAX_BUF_SIZE - roomy.writePos
    BY <1>2, UnreadFacts
  <1>4. SubSeq(bytes, 1, size) = bytes
    BY SubSeqFull
  <1>5. /\ MAX_BUF_SIZE \in Nat
        /\ roomy.writePos \in Nat
    BY <1>2, WidthFacts DEF Sound, PacketBuffers, Uint16
  <1>6. r = IF size = 0 THEN Return(FALSE, b)
            ELSE IF size > GetRemainSize(roomy) THEN Return(FALSE, roomy)
            ELSE Return(TRUE, Store(roomy, bytes))
    BY <1>1, <1>4, Zenon DEF AppendBuffer
  <1> HIDE DEF size, roomy, r
  <1>7. CASE size = 0
    <2>1. r.ok = FALSE /\ r.pb = b
      BY <1>6, <1>7 DEF Return
    <2> QED
      BY <1>1, <1>7, <2>1 DEF r
  <1>8. CASE size # 0 /\ size > GetRemainSize(roomy)
    <2>1. r.ok = FALSE /\ r.pb = roomy
      BY <1>6, <1>8 DEF Return
    <2>2. ~(GetBufferSize(b) + size <= MAX_BUF_SIZE)
      BY <1>1, <1>2, <1>3, <1>5, <1>8
    <2> QED
      BY <1>2, <2>1, <2>2 DEF r, size
  <1>9. CASE size # 0 /\ ~(size > GetRemainSize(roomy))
    <2>1. r.ok = TRUE /\ r.pb = Store(roomy, bytes)
      BY <1>6, <1>9 DEF Return
    <2>2. roomy.writePos + size <= MAX_BUF_SIZE
      BY <1>1, <1>3, <1>5, <1>9
    <2>3. /\ Sound(r.pb)
          /\ Unread(r.pb) = Unread(roomy) \o bytes
          /\ r.pb.pad = roomy.pad
      BY <1>2, <2>1, <2>2, StoreFacts DEF size
    <2>4. GetBufferSize(b) + size <= MAX_BUF_SIZE
      BY <1>1, <1>2, <1>3, <1>5, <1>9
    <2> QED
      BY <1>1, <1>2, <1>9, <2>1, <2>3, <2>4 DEF r, size
  <1> QED
    BY <1>7, <1>8, <1>9, Zenon

(* A header for which there is room is appended to the unread bytes. *)
LEMMA SetHeaderFacts ==
    ASSUME NEW b, Sound(b), NEW size \in Uint16, NEW packetNo \in Uint16,
           b.writePos + 4 <= MAX_BUF_SIZE
    PROVE  LET h      == SetHeader(b, size, packetNo)
               header == BytesOf(size) \o BytesOf(packetNo)
           IN  /\ header \in Seq(Byte) /\ Len(header) = 4
               /\ Sound(h)
               /\ Unread(h) = Unread(b) \o header
               /\ h.pad = b.pad
               /\ GetBufferSize(h) = GetBufferSize(b) + 4
  <1> DEFINE A == BytesOf(size)
             B == BytesOf(packetNo)
             sized == Store(b, A)
             h     == Store(sized, B)
  <1>1. /\ A \in Seq(Byte) /\ Len(A) = 2
        /\ B \in Seq(Byte) /\ Len(B) = 2
    BY BytesOfFacts
  <1>2. /\ Unread(b) \in Seq(Byte) /\ Len(Unread(b)) = GetBufferSize(b)
        /\ GetBufferSize(b) \in Nat /\ b.writePos \in Nat /\ MAX_BUF_SIZE \in Nat
    BY UnreadFacts, WidthFacts DEF Sound, PacketBuffers, Uint16
  <1>3. SetHeader(b, size, packetNo) = h
    BY Zenon DEF SetHeader
  <1> HIDE DEF A, B, sized, h
  <1>4. A \o B \in Seq(Byte) /\ Len(A \o B) = 4
    <2>1. A \o B \in Seq(Byte) /\ Len(A \o B) = Len(A) + Len(B)
      BY <1>1, ConcatBytes, Zenon
    <2> QED
      BY <1>1, <2>1
  <1>5. /\ Sound(sized)
        /\ Unread(sized) = Unread(b) \o A
        /\ sized.pad = b.pad
        /\ sized.writePos = b.writePos + 2
    <2>1. b.writePos + Len(A) <= MAX_BUF_SIZE
      BY <1>1, <1>2
    <2> QED
      BY <1>1, <2>1, StoreFacts DEF sized
  <1>6. /\ Sound(h)
        /\ Unread(h) = (Unread(b) \o A) \o B
        /\ h.pad = b.pad
    <2>1. sized.writePos + Len(B) <= MAX_BUF_SIZE
      BY <1>1, <1>2, <1>5
    <2> QED
      BY <1>1, <1>5, <2>1, StoreFacts DEF h
  <1>7. Unread(h) = Unread(b) \o (A \o B)
    BY <1>1, <1>2, <1>6, ConcatBytesAssoc, Zenon
  <1>8. GetBufferSize(h) = GetBufferSize(b) + 4
    <2>1. Len(Unread(b) \o (A \o B)) = Len(Unread(b)) + Len(A \o B)
      BY <1>2, <1>4, ConcatBytes, Zenon
    <2>2. Len(Unread(h)) = GetBufferSize(b) + 4
      BY <1>2, <1>4, <1>7, <2>1
    <2> QED
      BY <1>6, <2>2, UnreadFacts
  <1> QED
    BY <1>3, <1>4, <1>6, <1>7, <1>8 DEF A, B

(* SetPacket of a packet that fits the array frames it whole when it fits   *)
(* the free space, else changes nothing.                                    *)
LEMMA SetPacketFacts ==
    ASSUME NEW b, Sound(b), NEW packetNo \in Uint16,
           NEW payload \in Seq(Byte), Fits(payload)
    PROVE  LET r     == SetPacket(b, packetNo, payload)
               whole == PacketOf(packetNo, payload)
               ok    == whole # << >> /\ GetBufferSize(b) + Len(whole) <= MAX_BUF_SIZE
           IN  /\ whole \in Seq(Byte)
               /\ r.ok = ok
               /\ Sound(r.pb)
               /\ Unread(r.pb) = IF ok THEN Unread(b) \o whole ELSE Unread(b)
               /\ r.pb.pad = b.pad
  <1> DEFINE r     == SetPacket(b, packetNo, payload)
             whole == PacketOf(packetNo, payload)
             n     == 4 + Len(payload)
             A     == BytesOf(n)
             B     == BytesOf(packetNo)
             roomy == MakeRoom(b, n)
             headed == SetHeader(roomy, n, packetNo)
  <1>1. /\ MAX_BUF_SIZE \in Nat
        /\ Len(payload) \in Nat
        /\ payload # << >>
        /\ n \in Uint16 /\ n \in Nat
        /\ n <= MAX_BUF_SIZE
        /\ GetHeaderSize + Len(payload) = n
        /\ ToUint16(GetHeaderSize + Len(payload)) = n
        /\ ~(Len(payload) > MAX_BUF_SIZE)
    BY WidthFacts DEF Fits, GetHeaderSize, SizeofUint16, Uint16, MAX_BUF_SIZE
  <1>2. /\ A \in Seq(Byte) /\ Len(A) = 2
        /\ B \in Seq(Byte) /\ Len(B) = 2
    BY <1>1, BytesOfFacts
  <1>3. whole = (A \o B) \o payload
    BY <1>1, Zenon DEF PacketOf
  <1>4. /\ A \o B \in Seq(Byte) /\ Len(A \o B) = 4
        /\ whole \in Seq(Byte) /\ Len(whole) = n
    <2> HIDE DEF A, B, whole
    <2>1. A \o B \in Seq(Byte) /\ Len(A \o B) = 4
      <3>1. A \o B \in Seq(Byte) /\ Len(A \o B) = Len(A) + Len(B)
        BY <1>2, ConcatBytes, Zenon
      <3> QED
        BY <1>2, <3>1
    <2>2. whole \in Seq(Byte) /\ Len(whole) = 4 + Len(payload)
      BY <1>3, <2>1, ConcatProperties
    <2> QED
      BY <2>1, <2>2
  <1>5. whole # << >>
    BY <1>1, <1>4
  <1>6. /\ Sound(roomy)
        /\ Unread(roomy) = Unread(b)
        /\ roomy.pad = b.pad
        /\ n <= GetRemainSize(roomy) <=> GetBufferSize(b) + n <= MAX_BUF_SIZE
    BY <1>1, MakeRoomFacts
  <1>7. /\ GetRemainSize(roomy) = MAX_BUF_SIZE - roomy.writePos
        /\ roomy.writePos \in Nat
    <2> HIDE DEF roomy
    <2>1. GetRemainSize(roomy) = MAX_BUF_SIZE - roomy.writePos
      BY <1>6, UnreadFacts
    <2> QED
      BY <1>6, <2>1, WidthFacts DEF Sound, PacketBuffers, Uint16
  <1>8. r = IF n > GetRemainSize(roomy) THEN Return(FALSE, roomy)
                                        ELSE AppendBuffer(headed, payload)
    BY <1>1, Zenon DEF SetPacket
  <1> HIDE DEF r, whole, n, A, B, roomy, headed
  <1>9. CASE n > GetRemainSize(roomy)
    <2>1. r.ok = FALSE /\ r.pb = roomy
      BY <1>8, <1>9 DEF Return
    <2>2. ~(GetBufferSize(b) + Len(whole) <= MAX_BUF_SIZE)
      BY <1>1, <1>4, <1>6, <1>7, <1>9
    <2>3. Sound(r.pb) /\ Unread(r.pb) = Unread(b) /\ r.pb.pad = b.pad
      BY <1>6, <2>1
    <2> QED
      BY <1>4, <1>5, <2>1, <2>2, <2>3 DEF r, whole
  <1>10. CASE ~(n > GetRemainSize(roomy))
    <2>1. roomy.writePos + n <= MAX_BUF_SIZE
      BY <1>1, <1>7, <1>10
    <2>2. roomy.writePos + 4 <= MAX_BUF_SIZE
      BY <1>1, <1>7, <2>1 DEF n
    <2>3. /\ Sound(headed)
          /\ Unread(headed) = Unread(b) \o (A \o B)
          /\ headed.pad = b.pad
          /\ GetBufferSize(headed) = GetBufferSize(roomy) + 4
      BY <1>1, <1>6, <2>2, SetHeaderFacts, Zenon DEF headed, A, B
    <2>4. /\ Unread(b) \in Seq(Byte)
          /\ Len(Unread(b)) = GetBufferSize(b)
          /\ GetBufferSize(b) \in Nat
      BY UnreadFacts
    <2>5. GetBufferSize(headed) = GetBufferSize(b) + 4
      <3>1. GetBufferSize(roomy) = Len(Unread(roomy))
        BY <1>6, UnreadFacts
      <3> QED
        BY <1>6, <2>3, <2>4, <3>1, Zenon
    <2>6. GetBufferSize(b) + n <= MAX_BUF_SIZE
      BY <1>1, <1>6, <1>7, <1>10
    <2>7. GetBufferSize(headed) + Len(payload) <= MAX_BUF_SIZE
      BY <1>1, <2>4, <2>5, <2>6 DEF n
    <2>8. r = AppendBuffer(headed, payload)
      BY <1>8, <1>10
    <2>9. /\ r.ok = TRUE
          /\ Sound(r.pb)
          /\ Unread(r.pb) = (Unread(b) \o (A \o B)) \o payload
          /\ r.pb.pad = b.pad
      <3>1. Len(payload) <= MAX_BUF_SIZE
        BY <1>1
      <3> QED
        BY <1>1, <2>3, <2>7, <2>8, <3>1, AppendBufferFacts
    <2>10. (Unread(b) \o (A \o B)) \o payload = Unread(b) \o whole
      <3> DEFINE AB == A \o B
      <3>1. AB \in Seq(Byte) /\ whole = AB \o payload
        BY <1>3, <1>4
      <3> HIDE DEF AB
      <3>2. (Unread(b) \o AB) \o payload = Unread(b) \o whole
        BY <2>4, <3>1, ConcatBytesAssoc, Zenon
      <3> QED
        BY <3>2, Zenon DEF AB
    <2> QED
      BY <1>4, <1>5, <2>6, <2>9, <2>10 DEF r, whole
  <1> QED
    BY <1>9, <1>10, Zenon

(* The packet size a sound buffer reads is the one that leads its queue. *)
FrontSizeOf(u) == IF Len(u) < 2 THEN 0 ELSE u[1] + ByteBase * u[2]

LEMMA PacketSizeFacts ==
    ASSUME NEW b, Sound(b)
    PROVE  /\ GetPacketSize(b) = FrontSizeOf(Unread(b))
           /\ FrontSizeOf(Unread(b)) \in Uint16
           /\ FrontSizeOf(Unread(b)) \in Nat
  <1> DEFINE u == Unread(b)
             f == FrontSizeOf(u)
             size == GetBufferSize(b)
  <1>1. /\ size = b.writePos - b.readPos
        /\ size \in Nat /\ size <= MAX_BUF_SIZE
        /\ u \in Seq(Byte)
        /\ Len(u) = size
        /\ b.buffer \in [0 .. (MAX_BUF_SIZE - 1) -> Byte]
        /\ b.pad \in Byte
        /\ b.readPos \in Nat /\ b.writePos \in Nat
        /\ b.readPos <= b.writePos /\ b.writePos <= MAX_BUF_SIZE
        /\ MAX_BUF_SIZE \in Nat
    BY UnreadFacts, WidthFacts DEF Sound, PacketBuffers, Uint16, MAX_BUF_SIZE
  <1>2. \A k \in 1 .. size : u[k] = b.buffer[b.readPos + k - 1]
    BY DEF Unread
  <1>3. GetPacketSize(b) = f
    <2>1. CASE size < 2
      BY <1>1, <2>1, Zenon DEF GetPacketSize, SizeofUint16, FrontSizeOf
    <2>2. CASE ~(size < 2)
      <3>1. u[1] = b.buffer[b.readPos + 1 - 1] /\ u[2] = b.buffer[b.readPos + 2 - 1]
        BY <1>1, <1>2, <2>2
      <3>2. b.readPos + 1 - 1 = b.readPos /\ b.readPos + 2 - 1 = b.readPos + 1
        BY <1>1
      <3>3. u[1] = b.buffer[b.readPos] /\ u[2] = b.buffer[b.readPos + 1]
        BY <3>1, <3>2
      <3> QED
        BY <1>1, <2>2, <3>3, Zenon DEF GetPacketSize, SizeofUint16, ValueOf, FrontSizeOf
    <2> QED
      BY <2>1, <2>2, Zenon
  <1>4. f \in Uint16 /\ f \in Nat
    <2>1. CASE Len(u) < 2
      BY <2>1, WidthFacts DEF Uint16, FrontSizeOf
    <2>2. CASE ~(Len(u) < 2)
      <3>1. u[1] \in Byte /\ u[2] \in Byte
        BY <1>1, <2>2
      <3>2. ValueOf(u[1], u[2]) \in Uint16
        BY <3>1, ValueOfFacts
      <3>3. f = ValueOf(u[1], u[2])
        BY <2>2, Zenon DEF ValueOf, FrontSizeOf
      <3> QED
        BY <3>2, <3>3, WidthFacts DEF Uint16
    <2> QED
      BY <2>1, <2>2, Zenon
  <1> QED
    BY <1>3, <1>4

(* Consuming the packet drops that many bytes, or none. *)
LEMMA ConsumePacketFacts ==
    ASSUME NEW b, Sound(b)
    PROVE  LET u == Unread(b)
               f == IF Len(u) < 2 THEN 0 ELSE u[1] + ByteBase * u[2]
               c == ConsumePacket(b)
           IN  /\ Sound(c)
               /\ Unread(c) = IF f <= Len(u) THEN SubSeq(u, f + 1, Len(u)) ELSE u
               /\ c.pad = b.pad
  <1> DEFINE u == Unread(b)
             f == IF Len(u) < 2 THEN 0 ELSE u[1] + ByteBase * u[2]
             c == ConsumePacket(b)
             size == GetBufferSize(b)
  <1>1. /\ size = b.writePos - b.readPos
        /\ size \in Nat /\ size <= MAX_BUF_SIZE
        /\ u \in Seq(Byte)
        /\ Len(u) = size
        /\ b.buffer \in [0 .. (MAX_BUF_SIZE - 1) -> Byte]
        /\ b.pad \in Byte
        /\ b.readPos \in Nat /\ b.writePos \in Nat
        /\ b.readPos <= b.writePos /\ b.writePos <= MAX_BUF_SIZE
        /\ MAX_BUF_SIZE \in Nat
    BY UnreadFacts, WidthFacts DEF Sound, PacketBuffers, Uint16, MAX_BUF_SIZE
  <1>2. \A k \in 1 .. size : u[k] = b.buffer[b.readPos + k - 1]
    BY DEF Unread
  <1>3. GetPacketSize(b) = f
    BY PacketSizeFacts, Zenon DEF FrontSizeOf
  <1>4. f \in Uint16 /\ f \in Nat
    BY PacketSizeFacts, Zenon DEF FrontSizeOf
  <1>5. c = TruncateBuffer(b, f)
    BY <1>3, Zenon DEF ConsumePacket
  <1> HIDE DEF f, c, size, u
  <1>6. CASE f > size
    <2>1. c = b
      BY <1>5, <1>6, Zenon DEF TruncateBuffer, size
    <2>2. ~(f <= Len(u))
      BY <1>1, <1>4, <1>6
    <2> QED
      BY <2>1, <2>2 DEF c, f, u
  <1>7. CASE ~(f > size)
    <2>1. c = [b EXCEPT !.readPos = ToUint16(b.readPos + f)]
      BY <1>5, <1>7, Zenon DEF TruncateBuffer, size
    <2>2. /\ b.readPos + f <= b.writePos
          /\ b.readPos + f \in Uint16
      <3>1. b.readPos + f <= b.writePos /\ b.readPos + f \in Nat
        BY <1>1, <1>4, <1>7
      <3> QED
        BY <1>1, <3>1, WidthFacts DEF Uint16, MAX_BUF_SIZE
    <2>3. ToUint16(b.readPos + f) = b.readPos + f
      BY <2>2, WidthFacts
    <2>4. /\ c \in PacketBuffers
          /\ c.buffer = b.buffer /\ c.pad = b.pad
          /\ c.readPos = b.readPos + f /\ c.writePos = b.writePos
      BY <2>1, <2>2, <2>3 DEF Sound, PacketBuffers
    <2>5. Sound(c)
      BY <2>2, <2>4 DEF Sound
    <2>6. /\ Unread(c) \in Seq(Byte)
          /\ Len(Unread(c)) = size - f
          /\ GetBufferSize(c) = size - f
      BY <1>1, <1>4, <2>4, <2>5, UnreadFacts
    <2>7. /\ SubSeq(u, f + 1, Len(u)) \in Seq(Byte)
          /\ Len(SubSeq(u, f + 1, Len(u))) = size - f
          /\ \A k \in 1 .. (size - f) : SubSeq(u, f + 1, Len(u))[k] = u[f + k]
      <3>1. f + 1 \in 1 .. (Len(u) + 1) /\ Len(u) - (f + 1) + 1 = size - f
        BY <1>1, <1>4, <1>7
      <3>2. /\ SubSeq(u, f + 1, Len(u)) \in Seq(Byte)
            /\ Len(SubSeq(u, f + 1, Len(u))) = size - f
            /\ \A k \in 1 .. (size - f) : SubSeq(u, f + 1, Len(u))[k] = u[(f + 1) + k - 1]
        <4> DEFINE m == f + 1
        <4>1. u \in Seq(Byte) /\ m \in 1 .. (Len(u) + 1) /\ Len(u) \in (m - 1) .. Len(u)
          BY <1>1, <1>4, <3>1
        <4> HIDE DEF m
        <4>2. /\ SubSeq(u, m, Len(u)) \in Seq(Byte)
              /\ Len(SubSeq(u, m, Len(u))) = Len(u) - m + 1
              /\ \A k \in 1 .. (Len(u) - m + 1) : SubSeq(u, m, Len(u))[k] = u[m + k - 1]
          BY <4>1, SubSeqOf, Zenon
        <4>3. Len(u) - m + 1 = size - f
          BY <3>1 DEF m
        <4> QED
          BY <4>2, <4>3 DEF m
      <3>3. \A k \in 1 .. (size - f) : (f + 1) + k - 1 = f + k
        BY <1>1, <1>4
      <3> QED
        BY <3>2, <3>3
    <2>8. ASSUME NEW k \in 1 .. (size - f)
          PROVE  Unread(c)[k] = SubSeq(u, f + 1, Len(u))[k]
      <3>1. Unread(c)[k] = b.buffer[b.readPos + f + k - 1]
        BY <2>4, <2>6 DEF Unread
      <3>2. f + k \in 1 .. size
        BY <1>1, <1>4
      <3>3. u[f + k] = b.buffer[b.readPos + (f + k) - 1]
        BY <1>2, <3>2
      <3>4. b.readPos + (f + k) - 1 = b.readPos + f + k - 1
        BY <1>1, <1>4
      <3> QED
        BY <2>7, <3>1, <3>3, <3>4
    <2>9. Unread(c) = SubSeq(u, f + 1, Len(u))
      BY <2>6, <2>7, <2>8, SeqEqual
    <2>10. f <= Len(u)
      BY <1>1, <1>4, <1>7
    <2> QED
      BY <2>4, <2>5, <2>9, <2>10 DEF c, f, u
  <1> QED
    BY <1>6, <1>7, Zenon

(* A new or cleared buffer is sound and empty, whatever its pad byte. *)
LEMMA ConstructedFacts ==
    ASSUME NEW pad \in Byte
    PROVE  /\ Sound(Constructed(pad))
           /\ Unread(Constructed(pad)) = << >>
           /\ Constructed(pad).pad = pad
  <1> DEFINE zeros == [i \in 0 .. (MAX_BUF_SIZE - 1) |-> 0]
             c     == Constructed(pad)
  <1>1. c = [buffer |-> zeros, pad |-> pad, readPos |-> 0, writePos |-> 0]
    BY Zenon DEF Constructed
  <1>2. zeros \in [0 .. (MAX_BUF_SIZE - 1) -> Byte]
    BY WidthAssumption DEF Byte
  <1> HIDE DEF zeros, c
  <1>3. Sound(c)
    BY <1>1, <1>2, WidthFacts DEF Sound, PacketBuffers, Uint16
  <1>4. Unread(c) \in Seq(Byte) /\ Len(Unread(c)) = 0
    BY <1>1, <1>3, UnreadFacts
  <1> QED
    BY <1>1, <1>3, <1>4 DEF c

-----------------------------------------------------------------------------
(* Sequences of byte sequences. *)

(* Induction over the naturals, with a set in the place of the predicate. *)
LEMMA SetInduction ==
    ASSUME NEW T, 0 \in T, \A n \in Nat : n \in T => n + 1 \in T
    PROVE  \A n \in Nat : n \in T
  <1> SUFFICES ASSUME Nat \ T # {} PROVE FALSE
    OBVIOUS
  <1>1. PICK x \in Nat \ T : \A y \in Nat \ T : ~(<<y, x>> \in OpToRel(<, Nat))
    <2>1. Nat \ T \subseteq Nat
      OBVIOUS
    <2> QED
      BY <2>1, NatLessThanWellFounded, WFMin
  <1>2. x # 0 /\ x - 1 \in Nat
    OBVIOUS
  <1>3. <<x - 1, x>> \in OpToRel(<, Nat)
    BY <1>2 DEF OpToRel
  <1>4. x - 1 \in T
    BY <1>1, <1>2, <1>3, Zenon
  <1>5. (x - 1) + 1 \in T
    BY <1>2, <1>4, Zenon
  <1> QED
    BY <1>5

(* The empty sequence is the one of length 0. *)
LEMMA EmptyFacts ==
    ASSUME NEW S
    PROVE  /\ << >> \in Seq(S)
           /\ Len(<< >>) = 0
           /\ \A s \in Seq(S) : Len(s) \in Nat /\ (s = << >> <=> Len(s) = 0)
  OBVIOUS

(* The recursion of FlattenSeq: c[i] is the concatenation of the first i. *)
Concats(c, seqs, n) ==
    \A i \in 1 .. n : c[i] = IF i = 1 THEN seqs[i] ELSE c[i - 1] \o seqs[i]

Agree(r, s, n) == \A i \in 1 .. n : r[i] = s[i]

(* There is such a function for every sequence of sequences ... *)
LEMMA ConcatsExist ==
    ASSUME NEW S, NEW seqs \in Seq(Seq(S))
    PROVE  \E c \in [1 .. Len(seqs) -> Seq(S)] : Concats(c, seqs, Len(seqs))
  <1> DEFINE T == {n \in Nat : n <= Len(seqs) =>
                     \E c \in [1 .. n -> Seq(S)] : Concats(c, seqs, n)}
  <1>0. /\ Len(seqs) \in Nat
        /\ \A i \in 1 .. Len(seqs) : seqs[i] \in Seq(S)
    BY ElementOfSeq
  <1>1. 0 \in T
    <2>1. [i \in 1 .. 0 |-> << >>] \in [1 .. 0 -> Seq(S)]
      OBVIOUS
    <2>2. \A c : Concats(c, seqs, 0)
      BY DEF Concats
    <2> QED
      BY <2>1, <2>2
  <1>2. ASSUME NEW n \in Nat, n \in T PROVE n + 1 \in T
    <2> SUFFICES ASSUME n + 1 <= Len(seqs)
                 PROVE  \E c \in [1 .. (n + 1) -> Seq(S)] : Concats(c, seqs, n + 1)
      OBVIOUS
    <2>1. PICK c \in [1 .. n -> Seq(S)] : Concats(c, seqs, n)
      BY <1>0, <1>2
    <2> DEFINE last == IF n + 1 = 1 THEN seqs[n + 1] ELSE c[n] \o seqs[n + 1]
               d == [i \in 1 .. (n + 1) |-> IF i = n + 1 THEN last ELSE c[i]]
    <2>2. last \in Seq(S)
      <3>1. seqs[n + 1] \in Seq(S)
        BY <1>0
      <3>2. n # 0 => c[n] \in Seq(S)
        OBVIOUS
      <3> QED
        BY <3>1, <3>2, ConcatProperties
    <2>3. d \in [1 .. (n + 1) -> Seq(S)]
      <3> HIDE DEF last
      <3> QED BY <2>2
    <2>4. Concats(d, seqs, n + 1)
      <3> SUFFICES ASSUME NEW i \in 1 .. (n + 1)
                   PROVE  d[i] = IF i = 1 THEN seqs[i] ELSE d[i - 1] \o seqs[i]
        BY DEF Concats
      <3>1. CASE i = n + 1
        <4>1. i # 1 => d[i - 1] = c[n]
          BY <3>1
        <4>2. d[i] = last
          BY <3>1
        <4> QED
          BY <3>1, <4>1, <4>2
      <3>2. CASE i # n + 1
        <4>1. i \in 1 .. n /\ (i # 1 => i - 1 \in 1 .. n)
          BY <3>2
        <4>2. d[i] = c[i] /\ (i # 1 => d[i - 1] = c[i - 1])
          <5> HIDE DEF last
          <5>1. \A j \in 1 .. n : j \in 1 .. (n + 1) /\ j # n + 1
            OBVIOUS
          <5>2. \A j \in 1 .. n : d[j] = c[j]
            BY <5>1
          <5> QED
            BY <4>1, <5>2
        <4>3. c[i] = IF i = 1 THEN seqs[i] ELSE c[i - 1] \o seqs[i]
          BY <2>1, <4>1 DEF Concats
        <4> QED
          BY <4>2, <4>3
      <3> QED
        BY <3>1, <3>2
    <2> QED
      BY <2>3, <2>4
  <1> HIDE DEF T
  <1>3. Len(seqs) \in T
    BY <1>0, <1>1, <1>2, SetInduction
  <1> QED
    BY <1>0, <1>3 DEF T

(* ... and only one. *)
LEMMA ConcatsUnique ==
    ASSUME NEW n \in Nat, NEW r, NEW s, NEW c, NEW d,
           Agree(r, s, n), Concats(c, r, n), Concats(d, s, n)
    PROVE  Agree(c, d, n)
  <1> DEFINE T == {i \in Nat : i \in 1 .. n => c[i] = d[i]}
  <1>1. 0 \in T
    OBVIOUS
  <1>2. ASSUME NEW i \in Nat, i \in T PROVE i + 1 \in T
    <2> SUFFICES ASSUME i + 1 \in 1 .. n PROVE c[i + 1] = d[i + 1]
      OBVIOUS
    <2>1. /\ c[i + 1] = IF i + 1 = 1 THEN r[i + 1] ELSE c[(i + 1) - 1] \o r[i + 1]
          /\ d[i + 1] = IF i + 1 = 1 THEN s[i + 1] ELSE d[(i + 1) - 1] \o s[i + 1]
          /\ r[i + 1] = s[i + 1]
      BY Zenon DEF Concats, Agree
    <2>2. (i + 1) - 1 = i /\ (i + 1 # 1 => i \in 1 .. n)
      OBVIOUS
    <2>3. i + 1 # 1 => c[i] = d[i]
      BY <1>2, <2>2
    <2> QED
      BY <2>1, <2>2, <2>3
  <1> HIDE DEF T
  <1>3. \A i \in Nat : i \in T
    BY <1>1, <1>2, SetInduction
  <1> QED
    BY <1>3 DEF T, Agree

(* FlattenSeq computes it. *)
LEMMA FlattenIsConcats ==
    ASSUME NEW S, NEW seqs \in Seq(Seq(S)), seqs # << >>,
           NEW c, Concats(c, seqs, Len(seqs))
    PROVE  FlattenSeq(seqs) = c[Len(seqs)]
  <1> DEFINE n == Len(seqs)
             Is(f) == f = [i \in 1 .. n |-> IF i = 1 THEN seqs[i] ELSE f[i - 1] \o seqs[i]]
             flatten == CHOOSE f : Is(f)
             d == [i \in 1 .. n |-> c[i]]
  <1>1. n \in Nat /\ n # 0 /\ n \in 1 .. n
    <2>1. n \in Nat /\ (n = 0 => seqs = << >>)
      OBVIOUS
    <2> QED
      BY <2>1
  <1>2. Is(d)
    <2>1. \A i \in 1 .. n : c[i] = IF i = 1 THEN seqs[i] ELSE c[i - 1] \o seqs[i]
      BY DEF Concats
    <2>2. ASSUME NEW i \in 1 .. n
          PROVE  c[i] = IF i = 1 THEN seqs[i] ELSE d[i - 1] \o seqs[i]
      <3>1. i # 1 => i - 1 \in 1 .. n
        BY <1>1
      <3>2. i # 1 => d[i - 1] = c[i - 1]
        BY <3>1
      <3> HIDE DEF d
      <3> QED
        BY <2>1, <3>2
    <2> QED
      BY <2>2, Zenon
  <1>3. Is(flatten)
    <2> HIDE DEF Is, d
    <2> QED BY <1>2, Zenon
  <1>4. FlattenSeq(seqs) = flatten[n]
    BY <1>1, Zenon DEF FlattenSeq
  <1>5. Concats(flatten, seqs, n)
    <2> SUFFICES ASSUME NEW i \in 1 .. n
                 PROVE  flatten[i] = IF i = 1 THEN seqs[i] ELSE flatten[i - 1] \o seqs[i]
      BY Zenon DEF Concats
    <2> HIDE DEF flatten
    <2> QED
      BY <1>3, Zenon
  <1> HIDE DEF flatten, Is, d
  <1>6. Agree(flatten, c, n)
    <2>1. Agree(seqs, seqs, n)
      BY DEF Agree
    <2> QED
      BY <1>1, <1>5, <2>1, ConcatsUnique, Zenon
  <1> QED
    BY <1>1, <1>4, <1>6, Zenon DEF Agree

LEMMA FlattenEmpty == FlattenSeq(<< >>) = << >>
  BY DEF FlattenSeq

(* The concatenation of sequences is one. *)
LEMMA FlattenType ==
    ASSUME NEW S, NEW seqs \in Seq(Seq(S))
    PROVE  FlattenSeq(seqs) \in Seq(S)
  <1>1. CASE seqs = << >>
    <2>1. << >> \in Seq(S)
      OBVIOUS
    <2> QED
      BY <1>1, <2>1, FlattenEmpty, Zenon
  <1>2. CASE seqs # << >>
    <2>1. PICK c \in [1 .. Len(seqs) -> Seq(S)] : Concats(c, seqs, Len(seqs))
      BY ConcatsExist
    <2>2. FlattenSeq(seqs) = c[Len(seqs)]
      BY <1>2, <2>1, FlattenIsConcats
    <2>3. Len(seqs) \in 1 .. Len(seqs)
      <3>1. Len(seqs) \in Nat /\ (Len(seqs) = 0 => seqs = << >>)
        OBVIOUS
      <3> QED
        BY <1>2, <3>1
    <2> QED
      BY <2>2, <2>3
  <1> QED
    BY <1>1, <1>2

(* One more sequence at the end is appended to the concatenation. *)
LEMMA FlattenAppend ==
    ASSUME NEW S, NEW seqs \in Seq(Seq(S)), NEW s \in Seq(S)
    PROVE  FlattenSeq(Append(seqs, s)) = FlattenSeq(seqs) \o s
  <1> DEFINE n == Len(seqs)
             all == Append(seqs, s)
  <1>1. /\ n \in Nat
        /\ all \in Seq(Seq(S))
        /\ Len(all) = n + 1
        /\ all # << >>
        /\ \A i \in 1 .. n : all[i] = seqs[i]
        /\ all[n + 1] = s
    BY AppendProperties
  <1>2. PICK d \in [1 .. Len(all) -> Seq(S)] : Concats(d, all, Len(all))
    BY <1>1, ConcatsExist
  <1>3. FlattenSeq(all) = d[n + 1]
    BY <1>1, <1>2, FlattenIsConcats, Zenon
  <1>4. \A i \in 1 .. (n + 1) : d[i] = IF i = 1 THEN all[i] ELSE d[i - 1] \o all[i]
    BY <1>1, <1>2, Zenon DEF Concats
  <1>5. d[n + 1] = IF n = 0 THEN s ELSE d[n] \o s
    <2> HIDE DEF all
    <2>1. n + 1 \in 1 .. (n + 1) /\ (n + 1 = 1 <=> n = 0) /\ (n + 1) - 1 = n
      BY <1>1
    <2> QED
      BY <1>1, <1>4, <2>1
  <1>6. CASE n = 0
    <2>1. seqs = << >>
      BY <1>6
    <2>2. << >> \o s = s
      OBVIOUS
    <2> QED
      BY <1>3, <1>5, <1>6, <2>1, <2>2, FlattenEmpty, Zenon
  <1>7. CASE n # 0
    <2>1. PICK c \in [1 .. n -> Seq(S)] : Concats(c, seqs, n)
      BY ConcatsExist
    <2>2. Concats(d, all, n)
      <3>1. \A i \in 1 .. n : i \in 1 .. (n + 1)
        BY <1>1
      <3> QED
        BY <1>4, <3>1, Zenon DEF Concats
    <2>3. Agree(d, c, n)
      <3>1. Agree(all, seqs, n)
        BY <1>1, Zenon DEF Agree
      <3> QED
        BY <1>1, <2>1, <2>2, <3>1, ConcatsUnique, Zenon
    <2>4. n \in 1 .. n /\ seqs # << >>
      BY <1>1, <1>7
    <2>5. FlattenSeq(seqs) = c[n]
      BY <2>1, <2>4, FlattenIsConcats, Zenon
    <2> QED
      BY <1>3, <1>5, <1>7, <2>3, <2>4, <2>5, Zenon DEF Agree
  <1> QED
    BY <1>6, <1>7, Zenon

(* Concatenation is associative. *)
LEMMA AssociativeConcat ==
    ASSUME NEW S, NEW s \in Seq(S), NEW t \in Seq(S), NEW u \in Seq(S)
    PROVE  (s \o t) \o u = s \o (t \o u)
  BY ConcatAssociative

(* The concatenation begins with the first sequence. *)
LEMMA FlattenHead ==
    ASSUME NEW S, NEW seqs \in Seq(Seq(S)), seqs # << >>
    PROVE  FlattenSeq(seqs) = Head(seqs) \o FlattenSeq(Tail(seqs))
  <1> DEFINE Split(q) == FlattenSeq(q) = Head(q) \o FlattenSeq(Tail(q))
             T == {n \in Nat : \A q \in Seq(Seq(S)) : Len(q) = n + 1 => Split(q)}
  <1>0. \A s, t, u \in Seq(S) : (s \o t) \o u = s \o (t \o u)
    BY AssociativeConcat, SMTT(30)
  <1>1. 0 \in T
    <2> SUFFICES ASSUME NEW q \in Seq(Seq(S)), Len(q) = 1 PROVE Split(q)
      OBVIOUS
    <2>1. /\ Head(q) \in Seq(S) /\ Head(q) = q[1]
          /\ Tail(q) = << >>
      <3>1. q # << >>
        <4>1. Len(q) # 0
          OBVIOUS
        <4> QED
          BY <4>1, EmptyFacts, Zenon
      <3>2. Head(q) \in Seq(S) /\ Tail(q) \in Seq(Seq(S)) /\ Len(Tail(q)) = 1 - 1
        BY <3>1, HeadTailProperties
      <3>3. Tail(q) = << >>
        <4>1. Tail(q) \in Seq(Seq(S)) /\ Len(Tail(q)) = 0
          BY <3>2
        <4> QED
          BY <4>1, EmptyFacts, Zenon
      <3>4. Head(q) = q[1]
        BY <3>1
      <3> QED
        BY <3>2, <3>3, <3>4, Zenon
    <2>4. q = Append(<< >>, Head(q))
      <3>1. /\ Append(<< >>, Head(q)) \in Seq(Seq(S))
            /\ Len(Append(<< >>, Head(q))) = 1
            /\ Append(<< >>, Head(q))[1] = Head(q)
        BY <2>1
      <3> HIDE DEF Split
      <3> QED
        BY <2>1, <3>1, SeqEqual
    <2>2. FlattenSeq(q) = << >> \o Head(q)
      <3>1. << >> \in Seq(Seq(S))
        OBVIOUS
      <3> QED
        BY <2>1, <2>4, <3>1, FlattenAppend, FlattenEmpty, Zenon
    <2>3. << >> \o Head(q) = Head(q) /\ Head(q) \o << >> = Head(q)
      BY <2>1
    <2> QED
      BY <2>1, <2>2, <2>3, FlattenEmpty, Zenon
  <1>2. ASSUME NEW n \in Nat, n \in T PROVE n + 1 \in T
    <2> SUFFICES ASSUME NEW q \in Seq(Seq(S)), Len(q) = n + 2 PROVE Split(q)
      <3>1. (n + 1) + 1 = n + 2 /\ n + 1 \in Nat
        OBVIOUS
      <3> QED
        BY <3>1, Zenon
    <2> DEFINE f == SubSeq(q, 1, n + 1)
               x == q[n + 2]
    <2>1. /\ f \in Seq(Seq(S)) /\ Len(f) = n + 1
          /\ \A i \in 1 .. (n + 1) : f[i] = q[i]
          /\ x \in Seq(S)
          /\ f # << >>
      <3>1. \A i \in 1 .. Len(q) : q[i] \in Seq(S)
        BY ElementOfSeq
      <3>2. /\ \A i \in 1 .. (n + 1) : q[i] \in Seq(S)
            /\ x \in Seq(S)
            /\ 1 \in Int /\ n + 1 \in Int
        BY <3>1
      <3>3. /\ f \in Seq(Seq(S))
            /\ Len(f) = IF 1 <= n + 1 THEN (n + 1) - 1 + 1 ELSE 0
            /\ \A i \in 1 .. ((n + 1) - 1 + 1) : f[i] = q[1 + i - 1]
        BY <3>2, SubSeqProperties
      <3>4. f \in Seq(Seq(S)) /\ Len(f) = n + 1 /\ \A i \in 1 .. (n + 1) : f[i] = q[i]
        BY <3>3
      <3> HIDE DEF f
      <3> QED
        BY <3>2, <3>4
    <2>2. q = Append(f, x)
      <3>1. /\ Append(f, x) \in Seq(Seq(S)) /\ Len(Append(f, x)) = n + 2
            /\ \A i \in 1 .. (n + 1) : Append(f, x)[i] = f[i]
            /\ Append(f, x)[n + 2] = x
        BY <2>1, AppendProperties
      <3>2. \A i \in 1 .. (n + 2) : i \in 1 .. (n + 1) \/ i = n + 2
        OBVIOUS
      <3>3. \A i \in 1 .. Len(q) : q[i] = Append(f, x)[i]
        BY <2>1, <3>1, <3>2, Zenon
      <3> QED
        BY <3>1, <3>3, SeqEqual
    <2>3. Split(f)
      BY <1>2, <2>1
    <2>4. Head(q) = Head(f) /\ Tail(q) = Append(Tail(f), x)
      <3> HIDE DEF f, x
      <3>1. /\ Tail(f) \in Seq(Seq(S)) /\ Len(Tail(f)) = n
            /\ \A i \in 1 .. n : Tail(f)[i] = f[i + 1]
        BY <2>1, HeadTailProperties
      <3>2. /\ Tail(q) \in Seq(Seq(S)) /\ Len(Tail(q)) = n + 1
            /\ \A i \in 1 .. (n + 1) : Tail(q)[i] = q[i + 1]
        BY HeadTailProperties
      <3>3. /\ Append(Tail(f), x) \in Seq(Seq(S)) /\ Len(Append(Tail(f), x)) = n + 1
            /\ \A i \in 1 .. n : Append(Tail(f), x)[i] = Tail(f)[i]
            /\ Append(Tail(f), x)[n + 1] = x
        BY <2>1, <3>1, AppendProperties
      <3>4. \A i \in 1 .. (n + 1) : Tail(q)[i] = Append(Tail(f), x)[i]
        <4> TAKE i \in 1 .. (n + 1)
        <4>1. CASE i = n + 1
          <5>1. i + 1 = n + 2
            BY <4>1
          <5> QED
            BY <3>2, <3>3, <4>1, <5>1 DEF x
        <4>2. CASE i # n + 1
          <5>1. i \in 1 .. n /\ i + 1 \in 1 .. (n + 1)
            BY <4>2
          <5> QED
            BY <2>1, <3>1, <3>2, <3>3, <5>1, Zenon
        <4> QED
          BY <4>1, <4>2
      <3>5. Tail(q) = Append(Tail(f), x)
        BY <3>2, <3>3, <3>4, SeqEqual, Zenon
      <3>6. Head(q) = Head(f)
        <4>1. Head(q) = q[1] /\ Head(f) = f[1] /\ 1 \in 1 .. (n + 1)
          OBVIOUS
        <4> QED
          BY <2>1, <4>1, Zenon
      <3> QED
        BY <3>5, <3>6
    <2>5. /\ Head(f) \in Seq(S)
          /\ Tail(f) \in Seq(Seq(S))
          /\ FlattenSeq(Tail(f)) \in Seq(S)
      BY <2>1, HeadTailProperties, FlattenType
    <2>6. FlattenSeq(q) = (Head(f) \o FlattenSeq(Tail(f))) \o x
      BY <2>1, <2>2, <2>3, FlattenAppend, Zenon
    <2>7. FlattenSeq(Tail(q)) = FlattenSeq(Tail(f)) \o x
      BY <2>1, <2>4, <2>5, FlattenAppend, Zenon
    <2>8. (Head(f) \o FlattenSeq(Tail(f))) \o x = Head(f) \o (FlattenSeq(Tail(f)) \o x)
      BY <1>0, <2>1, <2>5, Zenon
    <2> QED
      BY <2>4, <2>6, <2>7, <2>8, Zenon
  <1> HIDE DEF T
  <1>3. \A n \in Nat : n \in T
    BY <1>1, <1>2, SetInduction, Zenon
  <1>4. Len(seqs) - 1 \in Nat /\ Len(seqs) = (Len(seqs) - 1) + 1
    <2>1. Len(seqs) \in Nat /\ Len(seqs) # 0
      OBVIOUS
    <2> QED
      BY <2>1
  <1> QED
    BY <1>3, <1>4, Zenon DEF T

-----------------------------------------------------------------------------
(* The packet at the front of the unread bytes. *)

(* Two ways to cut a sequence after the same number of elements are one. *)
LEMMA ConcatCancel ==
    ASSUME NEW S, NEW p \in Seq(S), NEW x \in Seq(S), NEW a \in Seq(S), NEW w \in Seq(S),
           Len(p) = Len(x), p \o a = x \o w
    PROVE  p = x /\ a = w
  <1> DEFINE s == p \o a
             n == Len(p)
  <1>1. /\ n \in Nat /\ Len(a) \in Nat /\ Len(w) \in Nat
        /\ s \in Seq(S) /\ Len(s) = n + Len(a) /\ Len(s) = n + Len(w)
        /\ \A i \in 1 .. Len(s) : s[i] = IF i <= n THEN p[i] ELSE a[i - n]
        /\ \A i \in 1 .. Len(s) : s[i] = IF i <= n THEN x[i] ELSE w[i - n]
    <2>1. Len(p) \in Nat /\ Len(a) \in Nat /\ Len(w) \in Nat
      OBVIOUS
    <2>2. /\ p \o a \in Seq(S) /\ Len(p \o a) = Len(p) + Len(a)
          /\ \A i \in 1 .. (Len(p) + Len(a)) :
                (p \o a)[i] = IF i <= Len(p) THEN p[i] ELSE a[i - Len(p)]
      BY ConcatProperties
    <2>3. /\ Len(x \o w) = Len(x) + Len(w)
          /\ \A i \in 1 .. (Len(x) + Len(w)) :
                (x \o w)[i] = IF i <= Len(x) THEN x[i] ELSE w[i - Len(x)]
      BY ConcatProperties
    <2>4. Len(x) = n /\ x \o w = s
      OBVIOUS
    <2> HIDE DEF s, n
    <2> QED
      BY <2>1, <2>2, <2>3, <2>4, Zenon DEF s, n
  <1> HIDE DEF s
  <1>2. \A i \in 1 .. n : p[i] = x[i]
    <2> TAKE i \in 1 .. n
    <2>1. i \in 1 .. Len(s) /\ i <= n
      BY <1>1
    <2> QED
      BY <1>1, <2>1, Zenon
  <1>3. Len(a) = Len(w) /\ \A i \in 1 .. Len(a) : a[i] = w[i]
    <2>1. Len(a) = Len(w)
      BY <1>1
    <2>2. ASSUME NEW i \in 1 .. Len(a) PROVE a[i] = w[i]
      <3>1. n + i \in 1 .. Len(s) /\ ~(n + i <= n) /\ (n + i) - n = i
        BY <1>1
      <3>2. s[n + i] = a[(n + i) - n] /\ s[n + i] = w[(n + i) - n]
        BY <1>1, <3>1, Zenon
      <3> QED
        BY <3>1, <3>2, Zenon
    <2> QED
      BY <2>1, <2>2
  <1> QED
    BY <1>2, <1>3, SeqEqual

(* A sequence is what it leads with followed by the rest. *)
LEMMA SplitFacts ==
    ASSUME NEW S, NEW u \in Seq(S), NEW n \in 0 .. Len(u)
    PROVE  LET p == SubSeq(u, 1, n)
               r == SubSeq(u, n + 1, Len(u))
           IN  /\ p \in Seq(S) /\ Len(p) = n
               /\ r \in Seq(S) /\ Len(r) = Len(u) - n
               /\ u = p \o r
               /\ \A i \in 1 .. n : p[i] = u[i]
               /\ \A i \in 1 .. (Len(u) - n) : r[i] = u[n + i]
  <1> DEFINE p == SubSeq(u, 1, n)
             r == SubSeq(u, n + 1, Len(u))
  <1>0. Len(u) \in Nat /\ n \in Nat /\ n <= Len(u)
    OBVIOUS
  <1>1. \A i \in 1 .. Len(u) : u[i] \in S
    BY ElementOfSeq
  <1>2. /\ p \in Seq(S) /\ Len(p) = n
        /\ \A i \in 1 .. n : p[i] = u[i]
    <2>1. \A i \in 1 .. n : u[i] \in S
      BY <1>0, <1>1
    <2>2. /\ p \in Seq(S)
          /\ Len(p) = IF 1 <= n THEN n - 1 + 1 ELSE 0
          /\ \A i \in 1 .. (n - 1 + 1) : p[i] = u[1 + i - 1]
      BY <1>0, <2>1, SubSeqProperties
    <2>3. n - 1 + 1 = n /\ \A i \in 1 .. n : 1 + i - 1 = i
      BY <1>0
    <2> HIDE DEF p
    <2> QED
      BY <1>0, <2>2, <2>3
  <1>3. /\ r \in Seq(S) /\ Len(r) = Len(u) - n
        /\ \A i \in 1 .. (Len(u) - n) : r[i] = u[n + i]
    <2>1. \A i \in (n + 1) .. Len(u) : u[i] \in S
      BY <1>0, <1>1
    <2>2. /\ r \in Seq(S)
          /\ Len(r) = IF n + 1 <= Len(u) THEN Len(u) - (n + 1) + 1 ELSE 0
          /\ \A i \in 1 .. (Len(u) - (n + 1) + 1) : r[i] = u[(n + 1) + i - 1]
      BY <1>0, <2>1, SubSeqProperties
    <2>3. /\ Len(u) - (n + 1) + 1 = Len(u) - n
          /\ \A i \in 1 .. (Len(u) - n) : (n + 1) + i - 1 = n + i
          /\ ~(n + 1 <= Len(u)) => Len(u) - n = 0
      BY <1>0
    <2> HIDE DEF r
    <2>4. Len(r) = Len(u) - n
      BY <2>2, <2>3, Zenon
    <2>5. \A i \in 1 .. (Len(u) - n) : r[i] = u[n + i]
      BY <2>2, <2>3, Zenon
    <2> QED
      BY <2>2, <2>4, <2>5, Zenon
  <1> HIDE DEF p, r
  <1>4. /\ p \o r \in Seq(S) /\ Len(p \o r) = Len(u)
        /\ \A i \in 1 .. Len(u) : (p \o r)[i] = IF i <= n THEN p[i] ELSE r[i - n]
    BY <1>0, <1>2, <1>3, ConcatProperties
  <1>5. \A i \in 1 .. Len(u) : (p \o r)[i] = u[i]
    <2> TAKE i \in 1 .. Len(u)
    <2>1. CASE i <= n
      <3>1. i \in 1 .. n
        BY <1>0, <2>1
      <3> QED
        BY <1>2, <1>4, <2>1, <3>1, Zenon
    <2>2. CASE ~(i <= n)
      <3>1. i - n \in 1 .. (Len(u) - n) /\ n + (i - n) = i
        BY <1>0, <2>2
      <3>2. r[i - n] = u[n + (i - n)]
        BY <1>3, <3>1, Zenon
      <3> QED
        BY <1>4, <2>2, <3>1, <3>2, Zenon
    <2> QED
      BY <2>1, <2>2, Zenon
  <1>6. u = p \o r
    BY <1>4, <1>5, SeqEqual
  <1> QED
    BY <1>2, <1>3, <1>6 DEF p, r

(* Bytes taken from the unread part of the array do not depend on what is *)
(* behind it.                                                              *)
LEMMA BytesFromFacts ==
    ASSUME NEW b, Sound(b), NEW junk, NEW k \in Nat, NEW n \in Nat,
           k + n <= Len(Unread(b))
    PROVE  BytesFrom(b, b.readPos + k, n, junk) = SubSeq(Unread(b), k + 1, k + n)
  <1> DEFINE u == Unread(b)
             f == BytesFrom(b, b.readPos + k, n, junk)
             s == SubSeq(u, k + 1, k + n)
  <1>1. /\ u \in Seq(Byte) /\ Len(u) \in Nat
        /\ b.readPos \in Nat /\ b.writePos \in Nat
        /\ Len(u) = b.writePos - b.readPos
        /\ Len(u) = GetBufferSize(b)
        /\ b.writePos <= MAX_BUF_SIZE
        /\ MAX_BUF_SIZE \in Nat
        /\ k + n <= Len(u)
    BY UnreadFacts, WidthFacts DEF Sound, PacketBuffers, Uint16, MAX_BUF_SIZE
  <1>2. \A i \in 1 .. Len(u) : u[i] \in Byte
    BY <1>1, ElementOfSeq
  <1>3. /\ s \in Seq(Byte) /\ Len(s) = n
        /\ \A i \in 1 .. n : s[i] = u[k + i]
    <2> DEFINE m == k + 1
               l == k + n
    <2>1. u \in Seq(Byte) /\ m \in 1 .. (Len(u) + 1) /\ l \in (m - 1) .. Len(u)
      BY <1>1
    <2> HIDE DEF m, l
    <2>2. /\ SubSeq(u, m, l) \in Seq(Byte)
          /\ Len(SubSeq(u, m, l)) = l - m + 1
          /\ \A i \in 1 .. (l - m + 1) : SubSeq(u, m, l)[i] = u[m + i - 1]
      BY <2>1, SubSeqOf, Zenon
    <2>3. s = SubSeq(u, m, l) /\ l - m + 1 = n /\ \A i \in 1 .. n : m + i - 1 = k + i
      BY DEF m, l
    <2> HIDE DEF s
    <2> QED
      BY <2>2, <2>3
  <1>4. ASSUME NEW i \in 1 .. n
        PROVE  ByteAt(b, b.readPos + k + i - 1, junk) = u[k + i]
    <2>1. /\ b.readPos + k + i - 1 < MAX_BUF_SIZE
          /\ k + i \in 1 .. GetBufferSize(b)
          /\ b.readPos + (k + i) - 1 = b.readPos + k + i - 1
      BY <1>1
    <2>2. ByteAt(b, b.readPos + k + i - 1, junk) = b.buffer[b.readPos + k + i - 1]
      BY <2>1, Zenon DEF ByteAt
    <2>3. u[k + i] = b.buffer[b.readPos + (k + i) - 1]
      BY <2>1 DEF Unread
    <2> QED
      BY <2>1, <2>2, <2>3, Zenon
  <1>5. f = [i \in 1 .. n |-> u[k + i]]
    <2> HIDE DEF u
    <2> QED
      BY <1>4, Zenon DEF BytesFrom
  <1>6. f \in Seq(Byte) /\ Len(f) = n /\ \A i \in 1 .. n : f[i] = s[i]
    <2> HIDE DEF u, s, f
    <2>1. \A i \in 1 .. n : u[k + i] \in Byte
      BY <1>1, <1>2
    <2>2. \A i \in 1 .. n : f[i] = s[i]
      BY <1>3, <1>5
    <2>3. f \in Seq(Byte) /\ Len(f) = n
      BY <1>5, <2>1
    <2> QED
      BY <2>2, <2>3
  <1> QED
    BY <1>3, <1>6, SeqEqual

(* An unread byte is read from the array. *)
LEMMA ByteAtFacts ==
    ASSUME NEW b, Sound(b), NEW junk, NEW k \in Nat, k < Len(Unread(b))
    PROVE  ByteAt(b, b.readPos + k, junk) = Unread(b)[k + 1]
  <1> DEFINE u == Unread(b)
  <1>1. /\ Len(u) \in Nat /\ k < Len(u)
        /\ b.readPos \in Nat /\ b.writePos \in Nat
        /\ Len(u) = b.writePos - b.readPos
        /\ Len(u) = GetBufferSize(b)
        /\ b.writePos <= MAX_BUF_SIZE
        /\ MAX_BUF_SIZE \in Nat
    BY UnreadFacts, WidthFacts DEF Sound, PacketBuffers, Uint16, MAX_BUF_SIZE
  <1> HIDE DEF u
  <1>2. /\ b.readPos + k < MAX_BUF_SIZE
        /\ k + 1 \in 1 .. GetBufferSize(b)
        /\ b.readPos + (k + 1) - 1 = b.readPos + k
    BY <1>1
  <1>3. ByteAt(b, b.readPos + k, junk) = b.buffer[b.readPos + k]
    BY <1>2, Zenon DEF ByteAt
  <1>4. u[k + 1] = b.buffer[b.readPos + (k + 1) - 1]
    BY <1>2 DEF Unread, u
  <1> QED
    BY <1>2, <1>3, <1>4, Zenon DEF u

(* A byte of the object, or beyond it, is a byte. *)
LEMMA ByteAtType ==
    ASSUME NEW b \in PacketBuffers, NEW junk \in Byte, NEW i \in Nat
    PROVE  ByteAt(b, i, junk) \in Byte
  <1> DEFINE rest == <<b.pad>> \o BytesOf(b.readPos) \o BytesOf(b.writePos)
             k == i - MAX_BUF_SIZE
  <1>1. rest \in Seq(Byte)
    <2>1. <<b.pad>> \in Seq(Byte) /\ b.readPos \in Uint16 /\ b.writePos \in Uint16
      BY DEF PacketBuffers
    <2>2. BytesOf(b.readPos) \in Seq(Byte) /\ BytesOf(b.writePos) \in Seq(Byte)
      BY <2>1, BytesOfFacts
    <2> QED
      BY <2>1, <2>2, ConcatBytes
  <1> HIDE DEF rest
  <1>2. i < MAX_BUF_SIZE => b.buffer[i] \in Byte
    BY WidthFacts DEF PacketBuffers
  <1>3. k \in Int /\ (~(i < MAX_BUF_SIZE) => k \in Nat)
    BY WidthFacts
  <1> HIDE DEF k
  <1>4. k \in Nat /\ k < Len(rest) => rest[k + 1] \in Byte
    BY <1>1
  <1>5. ByteAt(b, i, junk) = IF i < MAX_BUF_SIZE THEN b.buffer[i]
                             ELSE IF k < Len(rest) THEN rest[k + 1] ELSE junk
    BY Zenon DEF ByteAt, rest, k
  <1> QED
    BY <1>2, <1>3, <1>4, <1>5, Zenon

(* When a whole packet is there, PacketBytes is that packet, consuming it  *)
(* leaves the rest, and number and payload are read from inside it as soon *)
(* as its size covers the header.                                          *)
LEMMA PacketFacts ==
    ASSUME NEW b, Sound(b), IsAbleToGetPacket(b), NEW junk
    PROVE  LET u == Unread(b)
               n == GetPacketSize(b)
           IN  /\ n \in 1 .. Len(u)
               /\ Len(u) >= 2 /\ n = ValueOf(u[1], u[2])
               /\ PacketBytes(b, junk) = SubSeq(u, 1, n)
               /\ Unread(ConsumePacket(b)) = SubSeq(u, n + 1, Len(u))
               /\ Sound(ConsumePacket(b))
               /\ n >= GetHeaderSize =>
                     /\ GetPacketNo(b) = ValueOf(u[3], u[4])
                     /\ Payload(b, junk) = SubSeq(u, 5, n)
  <1> DEFINE u == Unread(b)
             n == GetPacketSize(b)
  <1>1. /\ u \in Seq(Byte) /\ Len(u) \in Nat
        /\ Len(u) = GetBufferSize(b)
        /\ n = FrontSizeOf(u) /\ n \in Uint16 /\ n \in Nat
        /\ b.readPos \in Nat /\ b.writePos \in Nat
        /\ Len(u) = b.writePos - b.readPos
    <2>1. /\ u \in Seq(Byte)
          /\ Len(u) = GetBufferSize(b)
          /\ Len(u) = b.writePos - b.readPos
      BY UnreadFacts
    <2>2. n = FrontSizeOf(u) /\ n \in Uint16 /\ n \in Nat
      BY PacketSizeFacts, Zenon
    <2>3. b.readPos \in Nat /\ b.writePos \in Nat
      BY WidthFacts DEF Sound, PacketBuffers, Uint16, MAX_BUF_SIZE
    <2> QED
      BY <2>1, <2>2, <2>3
  <1>2. n # 0 /\ n <= GetBufferSize(b)
    BY DEF IsAbleToGetPacket
  <1> HIDE DEF u, n
  <1>3. n \in 1 .. Len(u)
    BY <1>1, <1>2
  <1>4. Len(u) >= 2 /\ n = ValueOf(u[1], u[2])
    BY <1>1, <1>2 DEF FrontSizeOf, ValueOf
  <1>5. PacketBytes(b, junk) = SubSeq(u, 1, n)
    <2>1. 0 + n <= Len(Unread(b)) /\ 0 \in Nat /\ n \in Nat
      BY <1>1, <1>3 DEF u
    <2>2. BytesFrom(b, b.readPos + 0, n, junk) = SubSeq(u, 0 + 1, 0 + n)
      BY <2>1, BytesFromFacts, Zenon DEF u
    <2>3. b.readPos + 0 = b.readPos /\ 0 + 1 = 1 /\ 0 + n = n
      <3>1. b.readPos \in Nat /\ n \in Nat
        BY <1>1
      <3> QED
        BY <3>1
    <2> QED
      BY <2>2, <2>3, Zenon DEF PacketBytes, n
  <1>6. Unread(ConsumePacket(b)) = SubSeq(u, n + 1, Len(u)) /\ Sound(ConsumePacket(b))
    <2> DEFINE f == IF Len(u) < 2 THEN 0 ELSE u[1] + ByteBase * u[2]
    <2>1. /\ Sound(ConsumePacket(b))
          /\ Unread(ConsumePacket(b)) = IF f <= Len(u) THEN SubSeq(u, f + 1, Len(u)) ELSE u
      BY ConsumePacketFacts, Zenon DEF u
    <2>2. f = n
      BY <1>1, Zenon DEF FrontSizeOf
    <2>3. n <= Len(u)
      BY <1>1, <1>3
    <2> QED
      BY <2>1, <2>2, <2>3, Zenon
  <1>7. ASSUME n >= GetHeaderSize
        PROVE  /\ GetPacketNo(b) = ValueOf(u[3], u[4])
               /\ Payload(b, junk) = SubSeq(u, 5, n)
    <2>1. n >= 4 /\ GetHeaderSize = 4
      BY <1>7 DEF GetHeaderSize, SizeofUint16
    <2>2. ~(b.writePos < GetHeaderSize) /\ 2 < Len(u) /\ 3 < Len(u)
      BY <1>1, <1>3, <2>1
    <2>3. /\ ByteAt(b, b.readPos + 2, 0) = u[2 + 1]
          /\ ByteAt(b, b.readPos + 3, 0) = u[3 + 1]
      <3>1. /\ 2 < Len(Unread(b)) /\ 3 < Len(Unread(b))
            /\ 2 \in Nat /\ 3 \in Nat
        BY <2>2 DEF u
      <3>2. ByteAt(b, b.readPos + 2, 0) = Unread(b)[2 + 1]
        BY <3>1, ByteAtFacts, Zenon
      <3>3. ByteAt(b, b.readPos + 3, 0) = Unread(b)[3 + 1]
        BY <3>1, ByteAtFacts, Zenon
      <3> QED
        BY <3>2, <3>3, Zenon DEF u
    <2>4. (b.readPos + 2) + 1 = b.readPos + 3
      BY <1>1
    <2>5. GetPacketNo(b) = ValueOf(ByteAt(b, b.readPos + 2, 0), ByteAt(b, b.readPos + 2 + 1, 0))
      BY <2>2, Zenon DEF GetPacketNo, SizeofUint16
    <2>6. GetPacketNo(b) = ValueOf(u[3], u[4])
      BY <2>3, <2>4, <2>5
    <2>7. GetPayloadBufferSize(b) = n - 4
      <3>1. n - GetHeaderSize = n - 4 /\ n - 4 \in Uint16
        <4>1. n \in Nat /\ n <= Uint16Range - 1 /\ Uint16Range \in Nat
          BY <1>1, WidthFacts DEF Uint16
        <4> QED
          BY <2>1, <4>1 DEF Uint16
      <3> QED
        BY <3>1, WidthFacts DEF GetPayloadBufferSize, n
    <2>8. 4 \in Nat /\ n - 4 \in Nat /\ 4 + (n - 4) <= Len(u)
      BY <1>1, <1>3, <2>1
    <2>9. BytesFrom(b, b.readPos + 4, n - 4, junk) = SubSeq(u, 4 + 1, 4 + (n - 4))
      BY <2>8, BytesFromFacts, Zenon DEF u
    <2>10. 4 + 1 = 5 /\ 4 + (n - 4) = n
      BY <1>1
    <2> QED
      BY <2>1, <2>6, <2>7, <2>9, <2>10, Zenon DEF Payload
  <1> QED
    BY <1>3, <1>4, <1>5, <1>6, <1>7 DEF u, n

(* When the unread bytes begin with a framed packet, it is that packet. *)
LEMMA FrontFacts ==
    ASSUME NEW b, Sound(b), NEW x \in Seq(Byte), Framed(x), NEW w \in Seq(Byte),
           Unread(b) = x \o w
    PROVE  /\ IsAbleToGetPacket(b)
           /\ GetPacketSize(b) = Len(x)
           /\ \A junk : PacketBytes(b, junk) = x
           /\ Unread(ConsumePacket(b)) = w
           /\ Sound(ConsumePacket(b))
  <1> DEFINE u == Unread(b)
             n == Len(x)
  <1>1. /\ n \in Nat /\ n >= 2 /\ ValueOf(x[1], x[2]) = n
        /\ Len(w) \in Nat
    BY DEF Framed, SizeofUint16
  <1>2. /\ u \in Seq(Byte) /\ Len(u) = n + Len(w)
        /\ \A i \in 1 .. n : u[i] = x[i]
        /\ Len(u) = GetBufferSize(b)
    <2>1. u \in Seq(Byte) /\ Len(u) = GetBufferSize(b)
      BY UnreadFacts
    <2>2. /\ Len(x \o w) = n + Len(w)
          /\ \A i \in 1 .. (Len(x) + Len(w)) : (x \o w)[i] = IF i <= n THEN x[i] ELSE w[i - n]
      BY ConcatProperties
    <2>3. \A i \in 1 .. n : i \in 1 .. (Len(x) + Len(w)) /\ i <= n
      BY <1>1
    <2> HIDE DEF n
    <2> QED
      BY <2>1, <2>2, <2>3, Zenon
  <1> HIDE DEF u, n
  <1>3. GetPacketSize(b) = n
    <2>1. GetPacketSize(b) = FrontSizeOf(u)
      BY PacketSizeFacts DEF u
    <2>2. u[1] = x[1] /\ u[2] = x[2] /\ ~(Len(u) < 2)
      BY <1>1, <1>2
    <2>3. FrontSizeOf(u) = u[1] + ByteBase * u[2]
      BY <2>2, Zenon DEF FrontSizeOf
    <2> QED
      BY <1>1, <2>1, <2>2, <2>3, Zenon DEF ValueOf
  <1>4. IsAbleToGetPacket(b)
    <2>1. n # 0 /\ Len(u) # 0 /\ n <= Len(u)
      BY <1>1, <1>2
    <2> QED
      BY <1>2, <1>3, <2>1, Zenon DEF IsAbleToGetPacket
  <1>5. n \in 0 .. Len(u)
    BY <1>1, <1>2
  <1>6. /\ SubSeq(u, 1, n) \in Seq(Byte) /\ Len(SubSeq(u, 1, n)) = n
        /\ SubSeq(u, n + 1, Len(u)) \in Seq(Byte)
        /\ u = SubSeq(u, 1, n) \o SubSeq(u, n + 1, Len(u))
    BY <1>2, <1>5, SplitFacts
  <1>7. SubSeq(u, 1, n) = x /\ SubSeq(u, n + 1, Len(u)) = w
    <2> DEFINE p == SubSeq(u, 1, n)
               r == SubSeq(u, n + 1, Len(u))
    <2>1. /\ p \in Seq(Byte) /\ r \in Seq(Byte) /\ Len(p) = Len(x)
          /\ p \o r = x \o w
      BY <1>6, Zenon DEF n, u
    <2> HIDE DEF p, r
    <2>2. p = x /\ r = w
      BY <2>1, ConcatCancel
    <2> QED
      BY <2>2, Zenon DEF p, r
  <1>8. ASSUME NEW junk PROVE PacketBytes(b, junk) = x
    BY <1>3, <1>4, <1>7, PacketFacts DEF u
  <1>9. Unread(ConsumePacket(b)) = w /\ Sound(ConsumePacket(b))
    BY <1>3, <1>4, <1>7, PacketFacts DEF u
  <1> QED
    BY <1>3, <1>4, <1>8, <1>9 DEF n

(* Number and payload of the front packet, when it has a whole header. *)
LEMMA FrontHeaderFacts ==
    ASSUME NEW b, Sound(b), NEW x \in Seq(Byte), Framed(x), NEW w \in Seq(Byte),
           Unread(b) = x \o w, Len(x) >= GetHeaderSize, NEW junk
    PROVE  /\ GetPacketNo(b) = ValueOf(x[3], x[4])
           /\ Payload(b, junk) = SubSeq(x, GetHeaderSize + 1, Len(x))
  <1> DEFINE u == x \o w
  <1>1. IsAbleToGetPacket(b) /\ GetPacketSize(b) = Len(x)
    BY FrontFacts
  <1>2. /\ GetPacketNo(b) = ValueOf(u[3], u[4])
        /\ Payload(b, junk) = SubSeq(u, 5, Len(x))
    BY <1>1, PacketFacts, Zenon
  <1>3. GetHeaderSize = 4 /\ Len(x) \in Nat /\ Len(x) >= 4
    BY DEF GetHeaderSize, SizeofUint16
  <1>4. /\ u \in Seq(Byte) /\ Len(u) = Len(x) + Len(w) /\ Len(w) \in Nat
        /\ \A i \in 1 .. Len(x) : u[i] = x[i]
    BY ConcatBytes
  <1> HIDE DEF u
  <1>5. u[3] = x[3] /\ u[4] = x[4]
    BY <1>3, <1>4
  <1>6. SubSeq(u, 5, Len(x)) = SubSeq(x, 5, Len(x))
    <2>1. /\ SubSeq(u, 5, Len(x)) = [i \in 1 .. (Len(x) - 4) |-> u[i + 4]]
          /\ SubSeq(x, 5, Len(x)) = [i \in 1 .. (Len(x) - 4) |-> x[i + 4]]
      BY <1>3, <1>4
    <2>2. \A i \in 1 .. (Len(x) - 4) : u[i + 4] = x[i + 4]
      BY <1>3, <1>4
    <2> QED
      BY <2>1, <2>2
  <1>7. GetHeaderSize + 1 = 5
    BY <1>3
  <1> QED
    BY <1>2, <1>5, <1>6, <1>7, Zenon

(* The unread bytes are the packet at the front and what consuming it       *)
(* leaves; the packet says its own length, unless it is a single byte.      *)
LEMMA FrontPacketFacts ==
    ASSUME NEW b, Sound(b), IsAbleToGetPacket(b), NEW junk
    PROVE  LET u == Unread(b)
               x == PacketBytes(b, junk)
               w == Unread(ConsumePacket(b))
           IN  /\ Sound(ConsumePacket(b))
               /\ u \in Seq(Byte) /\ x \in Seq(Byte) /\ w \in Seq(Byte)
               /\ u = x \o w
               /\ x # << >>
               /\ Framed(x) \/ Len(x) < SizeofUint16
  <1> DEFINE u == Unread(b)
             n == GetPacketSize(b)
             x == PacketBytes(b, junk)
             w == Unread(ConsumePacket(b))
  <1>1. u \in Seq(Byte) /\ Len(u) \in Nat
    BY UnreadFacts
  <1>2. /\ n \in 1 .. Len(u) /\ Len(u) >= 2 /\ n = ValueOf(u[1], u[2])
        /\ x = SubSeq(u, 1, n) /\ w = SubSeq(u, n + 1, Len(u))
        /\ Sound(ConsumePacket(b))
    BY PacketFacts
  <1> HIDE DEF u, n, x, w
  <1>3. n \in 0 .. Len(u) /\ n \in Nat /\ n # 0
    BY <1>1, <1>2
  <1>4. /\ x \in Seq(Byte) /\ Len(x) = n /\ w \in Seq(Byte) /\ u = x \o w
        /\ \A i \in 1 .. n : x[i] = u[i]
    BY <1>1, <1>2, <1>3, SplitFacts
  <1>5. x # << >>
    <2>1. Len(x) # 0 /\ x \in Seq(Byte)
      BY <1>3, <1>4, Zenon
    <2> QED
      BY <2>1, EmptyFacts
  <1>6. Len(x) >= 2 => Framed(x)
    <2>1. Len(x) >= 2 => x[1] = u[1] /\ x[2] = u[2]
      BY <1>3, <1>4
    <2> QED
      BY <1>2, <1>4, <2>1, Zenon DEF Framed, SizeofUint16
  <1>7. Framed(x) \/ Len(x) < SizeofUint16
    <2>1. x \in Seq(Byte)
      BY <1>4
    <2>2. Len(x) >= 2 \/ Len(x) < 2
      BY <2>1
    <2> QED
      BY <1>6, <2>2, Zenon DEF SizeofUint16
  <1>8. Sound(ConsumePacket(b)) /\ x \in Seq(Byte) /\ w \in Seq(Byte) /\ u = x \o w
    BY <1>2, <1>4, Zenon
  <1> QED
    BY <1>1, <1>5, <1>7, <1>8 DEF u, x, w

-----------------------------------------------------------------------------
(* The types hold even when a packet that does not fit overruns the array. *)

(* A two-byte copy leaves a well-typed object, wherever writePos is. *)
LEMMA StoreTwoType ==
    ASSUME NEW b \in PacketBuffers, NEW bytes \in Seq(Byte), Len(bytes) = 2
    PROVE  Store(b, bytes) \in PacketBuffers
  <1> DEFINE w == b.writePos
             M == MAX_BUF_SIZE
  <1>1. /\ b.buffer \in [0 .. (M - 1) -> Byte]
        /\ b.pad \in Byte
        /\ b.readPos \in 0 .. M /\ w \in 0 .. M
        /\ M \in Nat
        /\ bytes[1] \in Byte /\ bytes[2] \in Byte
    <2>1. bytes[1] \in Byte /\ bytes[2] \in Byte
      BY ElementOfSeq
    <2> QED
      BY <2>1, WidthFacts DEF PacketBuffers, Uint16, MAX_BUF_SIZE
  <1> DEFINE copied == [i \in 0 .. (M - 1) |->
                          IF w <= i /\ i < w + 2 THEN bytes[i - w + 1] ELSE b.buffer[i]]
             pad == IF w + 2 > M THEN bytes[M - w + 1] ELSE b.pad
             low == b.readPos - (b.readPos % ByteBase)
             readPos == IF w + 2 > M + 1 THEN low + bytes[M - w + 2] ELSE b.readPos
  <1>2. Store(b, bytes) = [buffer |-> copied, pad |-> pad, readPos |-> readPos,
                           writePos |-> ToUint16(w + 2)]
    BY Zenon DEF Store
  <1>3. copied \in [0 .. (M - 1) -> Byte]
    <2>1. \A i \in 0 .. (M - 1) : w <= i /\ i < w + 2 => i - w + 1 = 1 \/ i - w + 1 = 2
      BY <1>1
    <2>2. \A i \in 0 .. (M - 1) : w <= i /\ i < w + 2 => bytes[i - w + 1] \in Byte
      BY <1>1, <2>1
    <2> HIDE DEF M, w
    <2> QED
      BY <1>1, <2>2
  <1>4. pad \in Byte
    <2>1. w + 2 > M => M - w + 1 = 1 \/ M - w + 1 = 2
      BY <1>1
    <2> QED
      BY <1>1, <2>1
  <1>5. readPos \in Uint16
    <2>1. w + 2 > M + 1 => M - w + 2 = 2
      BY <1>1
    <2>2. w + 2 > M + 1 => bytes[M - w + 2] \in 0 .. (ByteBase - 1)
      BY <1>1, <2>1 DEF Byte
    <2>3. low + (ByteBase - 1) \in Uint16 /\ low \in Nat
      <3>1. b.readPos \in 0 .. (ByteBase * ByteBase - 1) /\ ByteBase \in Nat /\ ByteBase > 0
        BY <1>1, WidthAssumption DEF MAX_BUF_SIZE
      <3> DEFINE q == b.readPos \div ByteBase
                 d == b.readPos % ByteBase
      <3>2. d \in 0 .. (ByteBase - 1) /\ q \in 0 .. (ByteBase - 1) /\ d + ByteBase * q = b.readPos
        BY <3>1, Digits, Zenon
      <3>3. \A B \in Nat : \A x \in 0 .. (B - 1) :
               B * x + (B - 1) <= B * B - 1 /\ B * x \in Nat
        BY Z3
      <3>4. ByteBase * q + (ByteBase - 1) <= ByteBase * ByteBase - 1 /\ ByteBase * q \in Nat
        BY <3>1, <3>2, <3>3, Zenon
      <3>5. low = ByteBase * q
        <4> DEFINE e == ByteBase * q
        <4>1. e \in Nat /\ d \in Nat /\ d + e = b.readPos /\ b.readPos \in Nat
          BY <3>1, <3>2, <3>4
        <4> HIDE DEF e, d
        <4>2. b.readPos - d = e
          BY <4>1
        <4> QED
          BY <4>2, Zenon DEF d, e
      <3> DEFINE e == ByteBase * q
                 s == ByteBase * ByteBase
      <3>6. /\ e + (ByteBase - 1) <= s - 1 /\ e \in Nat /\ s \in Nat /\ low = e
            /\ Uint16Range = s /\ ByteBase \in Nat /\ ByteBase > 0
        BY <3>1, <3>4, <3>5, WidthAssumption
      <3> HIDE DEF e, s, low
      <3> QED
        BY <3>6 DEF Uint16
    <2> HIDE DEF M, w, low
    <2>4. \A k \in 0 .. (ByteBase - 1) : low + k \in Uint16
      BY <2>3, WidthFacts, WidthAssumption DEF Uint16
    <2>5. b.readPos \in Uint16
      BY DEF PacketBuffers
    <2> QED
      BY <2>2, <2>4, <2>5, Zenon
  <1>6. ToUint16(w + 2) \in Uint16
    BY <1>1, WidthFacts
  <1> HIDE DEF copied, pad, readPos
  <1> QED
    BY <1>2, <1>3, <1>4, <1>5, <1>6 DEF PacketBuffers

LEMMA ReArrangeType ==
    ASSUME NEW b \in PacketBuffers
    PROVE  ReArrange(b) \in PacketBuffers
  <1>1. CASE b.readPos <= b.writePos
    BY <1>1, ReArrangeFacts DEF Sound
  <1>2. CASE ~(b.readPos <= b.writePos)
    <2>1. /\ b.buffer \in [0 .. (MAX_BUF_SIZE - 1) -> Byte] /\ b.pad \in Byte
          /\ b.readPos \in Nat /\ b.writePos \in Nat
      BY WidthFacts DEF PacketBuffers, Uint16
    <2>2. GetBufferSize(b) = 0
      BY <1>2, <2>1 DEF GetBufferSize
    <2> DEFINE moved == [i \in 0 .. (MAX_BUF_SIZE - 1) |->
                           IF i < 0 THEN b.buffer[b.readPos + i] ELSE b.buffer[i]]
    <2>3. ReArrange(b) = [buffer |-> moved, pad |-> b.pad, readPos |-> 0, writePos |-> 0]
      BY <2>2, Zenon DEF ReArrange
    <2>4. moved \in [0 .. (MAX_BUF_SIZE - 1) -> Byte]
      <3>1. \A i \in 0 .. (MAX_BUF_SIZE - 1) : ~(i < 0)
        BY WidthFacts
      <3> QED
        BY <2>1, <3>1
    <2>5. 0 \in Uint16
      BY WidthFacts DEF Uint16
    <2> HIDE DEF moved
    <2> QED
      BY <2>1, <2>3, <2>4, <2>5 DEF PacketBuffers
  <1> QED
    BY <1>1, <1>2

LEMMA MakeRoomType ==
    ASSUME NEW b \in PacketBuffers, NEW size
    PROVE  MakeRoom(b, size) \in PacketBuffers
  BY ReArrangeType DEF MakeRoom

(* A copy that ends inside the array leaves a well-typed object. *)
LEMMA StoreType ==
    ASSUME NEW b \in PacketBuffers, NEW bytes \in Seq(Byte),
           b.writePos + Len(bytes) <= MAX_BUF_SIZE
    PROVE  Store(b, bytes) \in PacketBuffers
  <1> DEFINE w == b.writePos
             n == Len(bytes)
             copied == [i \in 0 .. (MAX_BUF_SIZE - 1) |->
                          IF w <= i /\ i < w + n THEN bytes[i - w + 1] ELSE b.buffer[i]]
  <1>1. /\ b.buffer \in [0 .. (MAX_BUF_SIZE - 1) -> Byte]
        /\ b.pad \in Byte /\ b.readPos \in Uint16
        /\ w \in Nat /\ n \in Nat /\ w + n \in Uint16
        /\ MAX_BUF_SIZE \in Nat
    BY WidthFacts DEF PacketBuffers, Uint16, MAX_BUF_SIZE
  <1>2. copied \in [0 .. (MAX_BUF_SIZE - 1) -> Byte]
    <2>1. \A i \in 0 .. (MAX_BUF_SIZE - 1) :
             w <= i /\ i < w + n => i - w + 1 \in 1 .. n
      BY <1>1
    <2>2. \A i \in 1 .. n : bytes[i] \in Byte
      BY ElementOfSeq
    <2> HIDE DEF w, n
    <2> QED
      BY <1>1, <2>1, <2>2
  <1>3. Store(b, bytes) = [buffer |-> copied, pad |-> b.pad, readPos |-> b.readPos,
                           writePos |-> w + n]
    <2>1. ToUint16(w + n) = w + n
      BY <1>1, WidthFacts
    <2>2. ~(w + n > MAX_BUF_SIZE) /\ ~(w + n > MAX_BUF_SIZE + 1)
      BY <1>1
    <2> QED
      BY <2>1, <2>2, Zenon DEF Store
  <1> HIDE DEF copied
  <1> QED
    BY <1>1, <1>2, <1>3 DEF PacketBuffers

LEMMA AppendBufferType ==
    ASSUME NEW b \in PacketBuffers, NEW bytes \in Seq(Byte)
    PROVE  AppendBuffer(b, bytes).pb \in PacketBuffers
  <1> DEFINE size  == ToUint16(Len(bytes))
             roomy == MakeRoom(b, size)
             part  == SubSeq(bytes, 1, size)
             r     == AppendBuffer(b, bytes)
  <1>1. /\ roomy \in PacketBuffers
        /\ roomy.writePos \in 0 .. MAX_BUF_SIZE
        /\ MAX_BUF_SIZE \in Nat
        /\ size \in Nat /\ size <= Len(bytes)
    <2>1. roomy \in PacketBuffers
      BY MakeRoomType
    <2>2. Len(bytes) \in Nat
      OBVIOUS
    <2>3. \A n \in Nat, u \in Nat : u > 0 => n % u \in Nat /\ n % u <= n
      BY Z3
    <2>4. size \in Nat /\ size <= Len(bytes)
      <3>1. Uint16Range \in Nat /\ Uint16Range > 0
        BY WidthFacts
      <3>2. Len(bytes) % Uint16Range \in Nat /\ Len(bytes) % Uint16Range <= Len(bytes)
        BY <2>2, <2>3, <3>1, Zenon
      <3> QED
        BY <3>2, Zenon DEF ToUint16
    <2> HIDE DEF roomy, size
    <2> QED
      BY <2>1, <2>4, WidthFacts DEF PacketBuffers, Uint16, MAX_BUF_SIZE
  <1>2. part \in Seq(Byte) /\ Len(part) = size
    <2>1. size \in 0 .. Len(bytes)
      BY <1>1
    <2> HIDE DEF size
    <2> QED
      BY <2>1, SplitFacts
  <1>3. GetRemainSize(roomy) = MAX_BUF_SIZE - roomy.writePos
    <2> HIDE DEF roomy, size
    <2>1. MAX_BUF_SIZE - roomy.writePos \in Uint16
      BY <1>1, WidthFacts DEF Uint16, MAX_BUF_SIZE
    <2> QED
      BY <2>1, WidthFacts DEF GetRemainSize
  <1>4. r = IF size = 0 THEN Return(FALSE, b)
            ELSE IF size > GetRemainSize(roomy) THEN Return(FALSE, roomy)
            ELSE Return(TRUE, Store(roomy, part))
    BY Zenon DEF AppendBuffer
  <1> HIDE DEF size, roomy, part, r
  <1>5. CASE size = 0
    BY <1>4, <1>5 DEF Return, r
  <1>6. CASE size # 0 /\ size > GetRemainSize(roomy)
    BY <1>1, <1>4, <1>6 DEF Return, r
  <1>7. CASE size # 0 /\ ~(size > GetRemainSize(roomy))
    <2>1. roomy.writePos + Len(part) <= MAX_BUF_SIZE
      BY <1>1, <1>2, <1>3, <1>7
    <2>2. Store(roomy, part) \in PacketBuffers
      BY <1>1, <1>2, <2>1, StoreType
    <2> QED
      BY <1>4, <1>7, <2>2 DEF Return, r
  <1> QED
    BY <1>5, <1>6, <1>7

(* SetPacket leaves a well-typed object whatever the payload, although the *)
(* header of one too long for the array may overrun it.                    *)
LEMMA SetPacketType ==
    ASSUME NEW b \in PacketBuffers, NEW packetNo \in Uint16, NEW payload \in Seq(Byte)
    PROVE  SetPacket(b, packetNo, payload).pb \in PacketBuffers
  <1> DEFINE size   == ToUint16(GetHeaderSize + Len(payload))
             roomy  == MakeRoom(b, size)
             headed == SetHeader(roomy, size, packetNo)
             r      == SetPacket(b, packetNo, payload)
  <1>1. size \in Uint16
    BY WidthFacts DEF GetHeaderSize, SizeofUint16
  <1>2. roomy \in PacketBuffers
    BY MakeRoomType
  <1>3. headed \in PacketBuffers
    <2>1. /\ BytesOf(size) \in Seq(Byte) /\ Len(BytesOf(size)) = 2
          /\ BytesOf(packetNo) \in Seq(Byte) /\ Len(BytesOf(packetNo)) = 2
      BY <1>1, BytesOfFacts
    <2> HIDE DEF roomy, size
    <2>2. Store(roomy, BytesOf(size)) \in PacketBuffers
      BY <1>2, <2>1, StoreTwoType
    <2> QED
      BY <2>1, <2>2, StoreTwoType DEF SetHeader
  <1>4. r = IF size > GetRemainSize(roomy) THEN Return(FALSE, roomy)
            ELSE IF Len(payload) > MAX_BUF_SIZE THEN Return(FALSE, headed)
            ELSE AppendBuffer(headed, payload)
    BY Zenon DEF SetPacket
  <1>5. AppendBuffer(headed, payload).pb \in PacketBuffers
    BY <1>3, AppendBufferType
  <1> HIDE DEF size, roomy, headed, r
  <1>6. Return(FALSE, roomy).pb \in PacketBuffers /\ Return(FALSE, headed).pb \in PacketBuffers
    BY <1>2, <1>3 DEF Return
  <1> QED
    BY <1>4, <1>5, <1>6, Zenon DEF r

(* The size of the packet is read from inside the array. *)
LEMMA PacketSizeType ==
    ASSUME NEW b \in PacketBuffers
    PROVE  GetPacketSize(b) \in Nat
  <1>1. CASE GetBufferSize(b) < SizeofUint16
    BY <1>1 DEF GetPacketSize
  <1>2. CASE ~(GetBufferSize(b) < SizeofUint16)
    <2>1. b.readPos \in 0 .. (MAX_BUF_SIZE - 1) /\ b.readPos + 1 \in 0 .. (MAX_BUF_SIZE - 1)
      BY <1>2, WidthFacts DEF GetBufferSize, SizeofUint16, PacketBuffers, Uint16, MAX_BUF_SIZE
    <2>2. b.buffer[b.readPos] \in Byte /\ b.buffer[b.readPos + 1] \in Byte
      BY <2>1 DEF PacketBuffers
    <2> QED
      BY <1>2, <2>2, ValueOfFacts, WidthFacts DEF GetPacketSize, Uint16
  <1> QED
    BY <1>1, <1>2

LEMMA ConsumePacketType ==
    ASSUME NEW b \in PacketBuffers
    PROVE  ConsumePacket(b) \in PacketBuffers
  <1> DEFINE f == GetPacketSize(b)
  <1>1. f \in Nat
    BY PacketSizeType
  <1>2. ToUint16(b.readPos + f) \in Uint16
    BY <1>1, WidthFacts DEF PacketBuffers, Uint16
  <1> HIDE DEF f
  <1>3. [b EXCEPT !.readPos = ToUint16(@ + f)] \in PacketBuffers
    BY <1>2 DEF PacketBuffers
  <1> QED
    BY <1>3, Zenon DEF ConsumePacket, TruncateBuffer, f

-----------------------------------------------------------------------------
(* What the session makes of messages. *)

(* The recursion of Numeral. *)
Numerals(f, N) ==
    \A n \in N : f[n] = IF n < ByteBase THEN <<n>> ELSE f[n \div ByteBase] \o <<n % ByteBase>>

(* A quotient by the base is smaller, and a remainder is a digit. *)
LEMMA QuotientFacts ==
    ASSUME NEW n \in Nat
    PROVE  /\ n % ByteBase \in Byte
           /\ n \div ByteBase \in Nat
           /\ n >= ByteBase => n \div ByteBase < n
           /\ n < ByteBase => n \in Byte
  <1>1. \A B \in Nat : B >= 3 => n % B \in 0 .. (B - 1) /\ n \div B \in Nat /\ (n >= B => n \div B < n)
    BY Z3
  <1>2. ByteBase \in Nat /\ ByteBase >= 3
    BY WidthAssumption
  <1>3. n < ByteBase => n \in 0 .. (ByteBase - 1)
    BY <1>2
  <1> QED
    BY <1>1, <1>2, <1>3, Zenon DEF Byte

(* The digits below every bound exist, *)
LEMMA NumeralsExist ==
    ASSUME NEW N \in Nat
    PROVE  \E f \in [0 .. N -> Seq(Byte)] : Numerals(f, 0 .. N) /\ \A n \in 0 .. N : f[n] # << >>
  <1> DEFINE Good(f, n) == Numerals(f, 0 .. n) /\ \A i \in 0 .. n : f[i] # << >>
             T == {n \in Nat : \E f \in [0 .. n -> Seq(Byte)] : Good(f, n)}
  <1>1. 0 \in T
    <2> DEFINE f == [i \in 0 .. 0 |-> <<0>>]
    <2>1. 0 \in Byte /\ 0 < ByteBase
      BY WidthAssumption DEF Byte
    <2>2. f \in [0 .. 0 -> Seq(Byte)] /\ \A i \in 0 .. 0 : f[i] = <<i>> /\ i < ByteBase
      BY <2>1
    <2> HIDE DEF f
    <2>3. Good(f, 0)
      BY <2>2 DEF Numerals
    <2> QED
      BY <2>2, <2>3
  <1>2. ASSUME NEW n \in Nat, n \in T PROVE n + 1 \in T
    <2>1. PICK f \in [0 .. n -> Seq(Byte)] : Good(f, n)
      BY <1>2
    <2> DEFINE m == n + 1
               last == IF m < ByteBase THEN <<m>> ELSE f[m \div ByteBase] \o <<m % ByteBase>>
               g == [i \in 0 .. m |-> IF i = m THEN last ELSE f[i]]
    <2>2. last \in Seq(Byte) /\ last # << >>
      <3>1. CASE m < ByteBase
        <4>1. m \in Byte
          BY <3>1, QuotientFacts
        <4> QED
          BY <3>1, <4>1
      <3>2. CASE ~(m < ByteBase)
        <4>1. m \in Nat /\ ByteBase \in Nat
          BY WidthAssumption
        <4>2. m % ByteBase \in Byte /\ m \div ByteBase \in Nat /\ m \div ByteBase < m
          BY <3>2, <4>1, QuotientFacts
        <4> DEFINE q == m \div ByteBase
                   d == <<m % ByteBase>>
        <4>3. q \in 0 .. n
          BY <4>2
        <4>4. f[q] \in Seq(Byte) /\ d \in Seq(Byte) /\ Len(d) = 1
          <5>1. d \in Seq(Byte) /\ Len(d) = 1
            BY <4>2
          <5> HIDE DEF q, d
          <5> QED
            BY <4>3, <5>1
        <4> HIDE DEF q, d
        <4>5. f[q] \o d \in Seq(Byte) /\ Len(f[q] \o d) = Len(f[q]) + 1
          BY <4>4, ConcatBytes, Zenon
        <4>6. Len(f[q]) \in Nat
          BY <4>4
        <4>7. f[q] \o d # << >>
          BY <4>5, <4>6
        <4> QED
          BY <3>2, <4>5, <4>7, Zenon DEF q, d
      <3> QED
        BY <3>1, <3>2
    <2> HIDE DEF last
    <2>3. /\ g \in [0 .. m -> Seq(Byte)]
          /\ g[m] = last
          /\ \A i \in 0 .. n : g[i] = f[i]
          /\ \A i \in 0 .. m : i = m \/ i \in 0 .. n
      BY <2>2
    <2> HIDE DEF g
    <2>4. \A i \in 0 .. m : g[i] # << >>
      BY <2>1, <2>2, <2>3, Zenon
    <2>5. ASSUME NEW i \in 0 .. m
          PROVE  g[i] = IF i < ByteBase THEN <<i>> ELSE g[i \div ByteBase] \o <<i % ByteBase>>
      <3>1. i \in Nat /\ ByteBase \in Nat
        BY WidthAssumption
      <3>2. i \div ByteBase \in Nat /\ (i >= ByteBase => i \div ByteBase < i)
        BY <3>1, QuotientFacts
      <3>3. ~(i < ByteBase) => i \div ByteBase \in 0 .. n
        BY <3>1, <3>2
      <3>4. ~(i < ByteBase) => g[i \div ByteBase] = f[i \div ByteBase]
        BY <2>3, <3>3, Zenon
      <3>5. CASE i = m
        BY <2>3, <3>4, <3>5, Zenon DEF last
      <3>6. CASE i \in 0 .. n
        <4>1. f[i] = IF i < ByteBase THEN <<i>> ELSE f[i \div ByteBase] \o <<i % ByteBase>>
          BY <2>1, <3>6, Zenon DEF Numerals
        <4> QED
          BY <2>3, <3>4, <3>6, <4>1, Zenon
      <3> QED
        BY <2>3, <3>5, <3>6, Zenon
    <2>6. Good(g, m)
      BY <2>4, <2>5, Zenon DEF Numerals
    <2>7. m \in Nat
      OBVIOUS
    <2> HIDE DEF m
    <2>8. m \in T
      BY <2>3, <2>6, <2>7
    <2> QED
      BY <2>8 DEF m
  <1> HIDE DEF T
  <1>3. N \in T
    BY <1>1, <1>2, SetInduction
  <1> QED
    BY <1>3 DEF T

(* agree with one another, *)
LEMMA NumeralsUnique ==
    ASSUME NEW N \in Nat, NEW f, NEW g, Numerals(f, 0 .. N), Numerals(g, 0 .. N)
    PROVE  f[N] = g[N]
  <1> DEFINE T == {n \in Nat : \A i \in 0 .. n : i <= N => f[i] = g[i]}
             Step(h, i) == h[i] = IF i < ByteBase THEN <<i>>
                                  ELSE h[i \div ByteBase] \o <<i % ByteBase>>
  <1>0. ASSUME NEW n \in Nat, n <= N, \A i \in 0 .. (n - 1) : f[i] = g[i]
        PROVE  f[n] = g[n]
    <2>1. n \in 0 .. N
      BY <1>0
    <2>2. Step(f, n) /\ Step(g, n)
      BY <2>1, Zenon DEF Numerals
    <2>3. ~(n < ByteBase) => n \div ByteBase \in 0 .. (n - 1)
      <3>1. n \div ByteBase \in Nat /\ (n >= ByteBase => n \div ByteBase < n) /\ ByteBase \in Nat
        BY QuotientFacts, WidthAssumption
      <3> DEFINE q == n \div ByteBase
      <3> HIDE DEF q
      <3>2. q \in Nat /\ (n >= ByteBase => q < n) /\ ByteBase \in Nat
        BY <3>1 DEF q
      <3>3. ~(n < ByteBase) => q \in 0 .. (n - 1)
        BY <3>2
      <3> QED
        BY <3>3 DEF q
    <2>4. ~(n < ByteBase) => f[n \div ByteBase] = g[n \div ByteBase]
      BY <1>0, <2>3, Zenon
    <2> QED
      BY <2>2, <2>4, Zenon
  <1>1. 0 \in T
    <2>1. \A i \in 0 .. (0 - 1) : f[i] = g[i]
      OBVIOUS
    <2>2. 0 <= N /\ 0 \in Nat /\ \A i \in 0 .. 0 : i = 0
      OBVIOUS
    <2>3. f[0] = g[0]
      BY <1>0, <2>1, <2>2, Zenon
    <2> QED
      BY <2>2, <2>3
  <1>2. ASSUME NEW n \in Nat, n \in T PROVE n + 1 \in T
    <2> SUFFICES ASSUME n + 1 <= N PROVE f[n + 1] = g[n + 1]
      BY <1>2
    <2>1. n + 1 \in Nat /\ \A i \in 0 .. ((n + 1) - 1) : i \in 0 .. n /\ i <= N
      OBVIOUS
    <2>2. \A i \in 0 .. ((n + 1) - 1) : f[i] = g[i]
      BY <1>2, <2>1
    <2> QED
      BY <1>0, <2>1, <2>2, Zenon
  <1> HIDE DEF T
  <1>3. N \in T
    BY <1>1, <1>2, SetInduction
  <1>4. N \in 0 .. N /\ N <= N
    OBVIOUS
  <1> QED
    BY <1>3, <1>4, Zenon DEF T

(* and make up Numeral: every count has digits. *)
LEMMA NumeralFacts ==
    ASSUME NEW n \in Nat
    PROVE  /\ Numeral[n] \in Seq(Byte) /\ Numeral[n] # << >>
           /\ n < ByteBase => Numeral[n] = <<n>>
  <1> DEFINE Good(f, N) == /\ f \in [0 .. N -> Seq(Byte)]
                           /\ Numerals(f, 0 .. N)
                           /\ \A i \in 0 .. N : f[i] # << >>
             Digitize(N) == CHOOSE f : Good(f, N)
             F == [N \in Nat |-> Digitize(N)[N]]
             Is(f) == f = [N \in Nat |-> IF N < ByteBase THEN <<N>>
                                         ELSE f[N \div ByteBase] \o <<N % ByteBase>>]
  <1>1. \A N \in Nat : Good(Digitize(N), N)
    <2> TAKE N \in Nat
    <2>1. \E f : Good(f, N)
      BY NumeralsExist, Zenon
    <2> HIDE DEF Good
    <2> QED
      BY <2>1, Zenon
  <1> HIDE DEF Digitize
  <1>2. ASSUME NEW N \in Nat, NEW m \in 0 .. N, NEW f, Numerals(f, 0 .. N)
        PROVE  Numerals(f, 0 .. m)
    <2>1. \A i \in 0 .. m : i \in 0 .. N
      OBVIOUS
    <2> QED
      BY <1>2, <2>1, Zenon DEF Numerals
  <1>3. ASSUME NEW N \in Nat, NEW m \in 0 .. N
        PROVE  Digitize(N)[m] = F[m]
    <2>1. m \in Nat /\ m \in 0 .. m
      OBVIOUS
    <2>2. Numerals(Digitize(N), 0 .. m) /\ Numerals(Digitize(m), 0 .. m)
      BY <1>1, <1>2, <2>1, Zenon
    <2>3. Digitize(N)[m] = Digitize(m)[m]
      BY <2>1, <2>2, NumeralsUnique, Zenon
    <2> QED
      BY <2>1, <2>3
  <1>4. \A N \in Nat : F[N] = Digitize(N)[N]
    OBVIOUS
  <1> HIDE DEF F
  <1>5. ASSUME NEW N \in Nat
        PROVE  F[N] = IF N < ByteBase THEN <<N>> ELSE F[N \div ByteBase] \o <<N % ByteBase>>
    <2>1. N \in 0 .. N
      OBVIOUS
    <2>2. Digitize(N)[N] = IF N < ByteBase THEN <<N>>
                           ELSE Digitize(N)[N \div ByteBase] \o <<N % ByteBase>>
      BY <1>1, <2>1, Zenon DEF Numerals
    <2>3. ~(N < ByteBase) => N \div ByteBase \in 0 .. N
      <3> DEFINE q == N \div ByteBase
      <3>1. q \in Nat /\ (N >= ByteBase => q < N) /\ ByteBase \in Nat
        BY QuotientFacts, WidthAssumption
      <3> HIDE DEF q
      <3>2. ~(N < ByteBase) => q \in 0 .. N
        BY <3>1
      <3> QED
        BY <3>2 DEF q
    <2>4. ~(N < ByteBase) => Digitize(N)[N \div ByteBase] = F[N \div ByteBase]
      BY <1>3, <2>3, Zenon
    <2> QED
      BY <1>4, <2>2, <2>4, Zenon
  <1>6. Is(F)
    <2>1. F = [N \in Nat |-> F[N]]
      BY DEF F
    <2> QED
      BY <1>5, <2>1, Zenon
  <1>7. Numeral = CHOOSE f : Is(f)
    BY Zenon DEF Numeral
  <1> HIDE DEF Is
  <1>8. Is(Numeral)
    BY <1>6, <1>7, Zenon
  <1>9. Numerals(Numeral, 0 .. n)
    <2> SUFFICES ASSUME NEW i \in 0 .. n
                 PROVE  Numeral[i] = IF i < ByteBase THEN <<i>>
                                     ELSE Numeral[i \div ByteBase] \o <<i % ByteBase>>
      BY Zenon DEF Numerals
    <2>1. i \in Nat
      OBVIOUS
    <2> QED
      BY <1>8, <2>1, Zenon DEF Is
  <1>10. Numeral[n] = Digitize(n)[n]
    <2>1. n \in 0 .. n
      OBVIOUS
    <2> QED
      BY <1>1, <1>9, <2>1, NumeralsUnique, Zenon
  <1>11. Digitize(n) \in [0 .. n -> Seq(Byte)] /\ \A i \in 0 .. n : Digitize(n)[i] # << >>
    BY <1>1
  <1>12. n < ByteBase => Numeral[n] = <<n>>
    <2>1. n \in 0 .. n
      OBVIOUS
    <2> QED
      BY <1>9, <2>1, Zenon DEF Numerals
  <1> QED
    BY <1>10, <1>11, <1>12

(* A reply is a byte sequence, and the one to an empty message is shortest. *)
LEMMA ReplyFacts ==
    ASSUME NEW msg \in Seq(Byte), NEW n \in Nat
    PROVE  /\ ReplyPayload(msg, n) \in Seq(Byte)
           /\ Len(ReplyPayload(msg, n)) >= 3
           /\ msg = << >> /\ n = 0 => Len(ReplyPayload(msg, n)) = 3
  <1> DEFINE num  == Numeral[n]
             text == msg \o <<Comma>>
  <1>1. num \in Seq(Byte) /\ num # << >> /\ (n < ByteBase => num = <<n>>)
    BY NumeralFacts
  <1>2. /\ Len(num) >= 1 /\ Len(num) \in Nat
        /\ n = 0 => Len(num) = 1
    <2>1. 0 < ByteBase
      BY WidthAssumption
    <2> HIDE DEF num
    <2> QED
      BY <1>1, <2>1
  <1>3. <<Comma>> \in Seq(Byte) /\ <<Tag>> \in Seq(Byte)
    BY WidthAssumption DEF Byte, Comma, Tag
  <1>4. text \in Seq(Byte) /\ Len(text) = Len(msg) + 1 /\ Len(msg) \in Nat
    BY <1>3, ConcatBytes
  <1> HIDE DEF num, text
  <1> DEFINE all == text \o num
  <1>5. all \in Seq(Byte) /\ Len(all) = Len(text) + Len(num)
    BY <1>1, <1>4, ConcatBytes
  <1>6. ReplyPayload(msg, n) = <<Tag>> \o all
    BY DEF ReplyPayload, SerializeChat, Format, num, text
  <1> HIDE DEF all
  <1>7. <<Tag>> \o all \in Seq(Byte) /\ Len(<<Tag>> \o all) = 1 + Len(all)
    BY <1>3, <1>5, ConcatBytes
  <1>8. msg = << >> => Len(msg) = 0
    OBVIOUS
  <1> DEFINE reply == ReplyPayload(msg, n)
  <1>9. reply \in Seq(Byte) /\ Len(reply) = 1 + Len(all)
    BY <1>6, <1>7, Zenon
  <1> HIDE DEF reply
  <1>10. Len(reply) = Len(msg) + 2 + Len(num)
    BY <1>2, <1>4, <1>5, <1>9
  <1>11. Len(reply) >= 3
    BY <1>2, <1>4, <1>10
  <1>12. ASSUME msg = << >>, n = 0 PROVE Len(reply) = 3
    <2>1. Len(msg) = 0 /\ Len(num) = 1
      BY <1>2, <1>8, <1>12, Zenon
    <2> QED
      BY <1>10, <2>1
  <1> QED
    BY <1>9, <1>11, <1>12, Zenon DEF reply

(* A message that was parsed is a byte sequence. *)
LEMMA ParseType ==
    ASSUME NEW b \in PacketBuffers, NEW junk \in Byte, ParsesAsChat(Payload(b, junk))
    PROVE  ParseChat(Payload(b, junk)) \in Seq(Byte)
  <1> DEFINE n == GetPayloadBufferSize(b)
             at == b.readPos + GetHeaderSize
  <1>1. GetPacketSize(b) \in Int
    BY PacketSizeType
  <1>2. n \in Nat
    BY <1>1, WidthFacts DEF GetPayloadBufferSize, GetHeaderSize, SizeofUint16, ToUint16, Uint16
  <1>3. at \in Nat
    BY WidthFacts DEF PacketBuffers, Uint16, GetHeaderSize, SizeofUint16
  <1>4. Payload(b, junk) = [k \in 1 .. n |-> ByteAt(b, at + k - 1, junk)]
    BY Zenon DEF Payload, BytesFrom
  <1> HIDE DEF n, at
  <1>5. \A k \in 1 .. n : ByteAt(b, at + k - 1, junk) \in Byte
    <2> TAKE k \in 1 .. n
    <2>1. at + k - 1 \in Nat
      BY <1>2, <1>3
    <2> QED
      BY <2>1, ByteAtType
  <1>6. Payload(b, junk) \in Seq(Byte)
    BY <1>2, <1>4, <1>5
  <1> QED
    BY <1>6 DEF ParsesAsChat, ParseChat

-----------------------------------------------------------------------------
(* A line of input. *)

(* A set of naturals with an element has a least one. *)
LEMMA MinFacts ==
    ASSUME NEW S, S \subseteq Nat, S # {}
    PROVE  Min(S) \in S /\ \A y \in S : Min(S) <= y
  <1>1. PICK x \in S : \A y \in S : ~(<<y, x>> \in OpToRel(<, Nat))
    BY NatLessThanWellFounded, WFMin
  <1>2. ASSUME NEW y \in S PROVE x <= y
    <2>1. x \in Nat /\ y \in Nat
      OBVIOUS
    <2>2. ~(y < x)
      BY <1>1, <2>1 DEF OpToRel
    <2> QED
      BY <2>1, <2>2
  <1>3. \E m \in S : \A y \in S : m <= y
    BY <1>2
  <1> QED
    BY <1>3, Zenon DEF Min

(* The message made of what fgets() returned. *)
LEMMA RemoveEnterType ==
    ASSUME NEW chars \in Seq(Byte), ~InputThrows(chars)
    PROVE  RemoveEnter(chars) \in Seq(Byte)
  <1> DEFINE nuls == {i \in 1 .. Len(chars) : chars[i] = NUL}
             s    == CString(chars)
  <1>1. s \in Seq(Byte)
    <2>1. s = IF nuls = {} THEN chars ELSE SubSeq(chars, 1, Min(nuls) - 1)
      BY Zenon DEF CString
    <2>2. nuls # {} => Min(nuls) \in 1 .. Len(chars)
      <3>1. nuls \subseteq Nat /\ nuls \subseteq 1 .. Len(chars)
        OBVIOUS
      <3> HIDE DEF nuls
      <3> QED
        BY <3>1, MinFacts
    <2> HIDE DEF nuls, s
    <2>3. nuls # {} => SubSeq(chars, 1, Min(nuls) - 1) \in Seq(Byte)
      <3> SUFFICES ASSUME nuls # {} PROVE SubSeq(chars, 1, Min(nuls) - 1) \in Seq(Byte)
        OBVIOUS
      <3>1. Min(nuls) - 1 \in 0 .. Len(chars)
        BY <2>2
      <3> QED
        BY <3>1, SplitFacts
    <2> QED
      BY <2>1, <2>3
  <1>2. s # << >>
    BY DEF InputThrows
  <1> HIDE DEF s
  <1>3. Len(s) - 1 \in 0 .. Len(s)
    BY <1>1, <1>2
  <1>4. SubSeq(s, 1, Len(s) - 1) \in Seq(Byte)
    BY <1>1, <1>3, SplitFacts
  <1> QED
    BY <1>4 DEF RemoveEnter, s

-----------------------------------------------------------------------------
(* A queue of packets in a buffer that is sent from. *)

Packets == {bytes \in Seq(Byte) : Framed(bytes)}

LEMMA PacketsType == Packets \subseteq Seq(Byte) /\ Seq(Packets) \subseteq Seq(Seq(Byte))
  <1>1. Packets \subseteq Seq(Byte)
    BY DEF Packets
  <1> QED
    BY <1>1, SeqMonotonic

(* A concatenation begins as its first part does. *)
LEMMA ConcatFront ==
    ASSUME NEW s \in Seq(Byte), NEW t \in Seq(Byte), Len(s) >= 2
    PROVE  /\ s \o t \in Seq(Byte) /\ Len(s \o t) = Len(s) + Len(t)
           /\ (s \o t)[1] = s[1] /\ (s \o t)[2] = s[2]
  BY ConcatBytes

(* What SetPacket frames is one packet. *)
LEMMA PacketOfFacts ==
    ASSUME NEW packetNo \in Uint16, NEW payload \in Seq(Byte), Fits(payload)
    PROVE  LET whole == PacketOf(packetNo, payload)
           IN  /\ whole \in Packets
               /\ whole # << >>
               /\ Len(whole) = 4 + Len(payload)
               /\ Len(whole) <= MAX_BUF_SIZE
  <1> DEFINE whole == PacketOf(packetNo, payload)
             n == 4 + Len(payload)
             A == BytesOf(n)
             B == BytesOf(packetNo)
             AB == A \o B
  <1>1. /\ Len(payload) \in Nat /\ n \in Uint16 /\ n \in Nat
        /\ GetHeaderSize + Len(payload) = n /\ n <= MAX_BUF_SIZE
    BY WidthFacts DEF Fits, GetHeaderSize, SizeofUint16, Uint16, MAX_BUF_SIZE
  <1>2. /\ A \in Seq(Byte) /\ Len(A) = 2 /\ ValueOf(A[1], A[2]) = n
        /\ B \in Seq(Byte) /\ Len(B) = 2
    BY <1>1, BytesOfFacts
  <1>3. whole = AB \o payload
    BY <1>1, Zenon DEF PacketOf
  <1> HIDE DEF n, A, B, whole
  <1>4. /\ AB \in Seq(Byte) /\ Len(AB) = 4
        /\ AB[1] = A[1] /\ AB[2] = A[2]
    <2>1. Len(A) >= 2 /\ Len(A) + Len(B) = 4
      BY <1>2
    <2> QED
      BY <1>2, <2>1, ConcatFront, Zenon
  <1> HIDE DEF AB
  <1>5. /\ whole \in Seq(Byte) /\ Len(whole) = 4 + Len(payload)
        /\ whole[1] = AB[1] /\ whole[2] = AB[2]
    <2>1. Len(AB) >= 2 /\ Len(AB) + Len(payload) = 4 + Len(payload)
      BY <1>1, <1>4
    <2> QED
      BY <1>3, <1>4, <2>1, ConcatFront, Zenon
  <1>6. Len(whole) = n
    BY <1>5 DEF n
  <1>7. Len(whole) >= SizeofUint16 /\ whole # << >>
    BY <1>1, <1>5 DEF SizeofUint16
  <1>8. ValueOf(whole[1], whole[2]) = Len(whole)
    BY <1>2, <1>4, <1>5, <1>6, Zenon
  <1> QED
    BY <1>1, <1>5, <1>6, <1>7, <1>8 DEF Packets, Framed, whole

(* One more packet at the end, and the first one taken. *)
LEMMA PacketQueueFacts ==
    ASSUME NEW q \in Seq(Packets)
    PROVE  /\ FlattenSeq(q) \in Seq(Byte)
           /\ \A x \in Packets : /\ Append(q, x) \in Seq(Packets)
                                 /\ FlattenSeq(Append(q, x)) = FlattenSeq(q) \o x
           /\ q # << >> => /\ Head(q) \in Packets /\ Tail(q) \in Seq(Packets)
                           /\ FlattenSeq(q) = Head(q) \o FlattenSeq(Tail(q))
                           /\ FlattenSeq(q) # << >>
  <1>1. q \in Seq(Seq(Byte)) /\ Packets \subseteq Seq(Byte)
    BY PacketsType
  <1>2. FlattenSeq(q) \in Seq(Byte)
    BY <1>1, FlattenType
  <1>3. ASSUME NEW x \in Packets
        PROVE  /\ Append(q, x) \in Seq(Packets)
               /\ FlattenSeq(Append(q, x)) = FlattenSeq(q) \o x
    <2>1. Append(q, x) \in Seq(Packets)
      BY AppendProperties
    <2>2. x \in Seq(Byte)
      BY <1>1
    <2> QED
      BY <1>1, <2>1, <2>2, FlattenAppend
  <1>4. ASSUME q # << >>
        PROVE  /\ Head(q) \in Packets /\ Tail(q) \in Seq(Packets)
               /\ FlattenSeq(q) = Head(q) \o FlattenSeq(Tail(q))
               /\ FlattenSeq(q) # << >>
    <2>1. Head(q) \in Packets /\ Tail(q) \in Seq(Packets)
      BY <1>4, HeadTailProperties
    <2>2. FlattenSeq(q) = Head(q) \o FlattenSeq(Tail(q))
      BY <1>1, <1>4, FlattenHead
    <2>3. FlattenSeq(Tail(q)) \in Seq(Byte)
      BY <2>1, PacketsType, FlattenType
    <2>4. Head(q) \in Seq(Byte) /\ Len(Head(q)) >= 2
      BY <2>1 DEF Packets, Framed, SizeofUint16
    <2>5. Head(q) \o FlattenSeq(Tail(q)) # << >>
      <3> DEFINE h == Head(q)
                 f == FlattenSeq(Tail(q))
      <3>1. h \in Seq(Byte) /\ f \in Seq(Byte) /\ Len(h) >= 2
        BY <2>3, <2>4
      <3> HIDE DEF h, f
      <3>2. Len(h \o f) = Len(h) + Len(f) /\ Len(h) \in Nat /\ Len(f) \in Nat
        BY <3>1, ConcatBytes
      <3>3. h \o f # << >>
        BY <3>1, <3>2
      <3> QED
        BY <3>3 DEF h, f
    <2> QED
      BY <2>1, <2>2, <2>5
  <1> QED
    BY <1>2, <1>3, <1>4

(* SendPacket puts its packet behind those left in the buffer and sends the *)
(* one in front of all of them, or none.                                    *)
SendsFirst(b, pending, packetNo, payload, sendable, junk) ==
    LET whole  == PacketOf(packetNo, payload)
        queued == SetPacket(b, packetNo, payload).ok
        r      == SendPacket(b, packetNo, payload, sendable, junk)
        all    == IF queued THEN Append(pending, whole) ELSE pending
    IN  /\ queued = (GetBufferSize(b) + Len(whole) <= MAX_BUF_SIZE)
        /\ all \in Seq(Packets)
        /\ Sound(r.pb)
        /\ r.ok = (queued /\ sendable)
        /\ r.ok => r.sent = Head(all) /\ Unread(r.pb) = FlattenSeq(Tail(all))
        /\ ~r.ok => Unread(r.pb) = FlattenSeq(all)

LEMMA SendPacketFacts ==
    ASSUME NEW b, Sound(b), NEW pending \in Seq(Packets), Unread(b) = FlattenSeq(pending),
           NEW packetNo \in Uint16, NEW payload \in Seq(Byte), Fits(payload),
           NEW sendable \in BOOLEAN, NEW junk
    PROVE  SendsFirst(b, pending, packetNo, payload, sendable, junk)
  <1> DEFINE whole  == PacketOf(packetNo, payload)
             set    == SetPacket(b, packetNo, payload)
             queued == set.ok
             r      == SendPacket(b, packetNo, payload, sendable, junk)
             all    == IF queued THEN Append(pending, whole) ELSE pending
             fits   == GetBufferSize(b) + Len(whole) <= MAX_BUF_SIZE
  <1>1. whole \in Packets /\ whole \in Seq(Byte) /\ whole # << >>
    BY PacketOfFacts DEF Packets
  <1>2. /\ queued = fits
        /\ Sound(set.pb)
        /\ Unread(set.pb) = IF fits THEN Unread(b) \o whole ELSE Unread(b)
    <2>1. /\ set.ok = (whole # << >> /\ fits)
          /\ Sound(set.pb)
          /\ Unread(set.pb) = IF whole # << >> /\ fits THEN Unread(b) \o whole ELSE Unread(b)
      BY SetPacketFacts, Zenon
    <2>2. fits \in BOOLEAN
      OBVIOUS
    <2> HIDE DEF set, fits, whole
    <2> QED
      BY <1>1, <2>1, <2>2
  <1>3. all \in Seq(Packets) /\ Unread(set.pb) = FlattenSeq(all)
    <2> HIDE DEF set, fits, whole
    <2> QED
      BY <1>1, <1>2, PacketQueueFacts, Zenon
  <1>4. queued => all # << >>
    <2> HIDE DEF whole, set
    <2>1. Append(pending, whole) # << >>
      BY <1>1, AppendProperties
    <2> QED
      BY <2>1
  <1>5. r = IF set.ok /\ sendable
            THEN [ok |-> TRUE, pb |-> ConsumePacket(set.pb), sent |-> PacketBytes(set.pb, junk)]
            ELSE [ok |-> FALSE, pb |-> set.pb, sent |-> << >>]
    BY Zenon DEF SendPacket
  <1> HIDE DEF whole, set, r, all, fits
  <1>6. CASE set.ok /\ sendable
    <2>1. r.ok = TRUE /\ r.pb = ConsumePacket(set.pb) /\ r.sent = PacketBytes(set.pb, junk)
      BY <1>5, <1>6
    <2>2. /\ Head(all) \in Packets /\ Tail(all) \in Seq(Packets)
          /\ FlattenSeq(all) = Head(all) \o FlattenSeq(Tail(all))
      BY <1>3, <1>4, <1>6, PacketQueueFacts
    <2>3. Head(all) \in Seq(Byte) /\ Framed(Head(all)) /\ FlattenSeq(Tail(all)) \in Seq(Byte)
      BY <2>2, PacketQueueFacts DEF Packets
    <2>4. Unread(set.pb) = Head(all) \o FlattenSeq(Tail(all))
      BY <1>3, <2>2, Zenon
    <2>5. /\ PacketBytes(set.pb, junk) = Head(all)
          /\ Unread(ConsumePacket(set.pb)) = FlattenSeq(Tail(all))
          /\ Sound(ConsumePacket(set.pb))
      BY <1>2, <2>3, <2>4, FrontFacts, Zenon
    <2> QED
      BY <1>2, <1>3, <1>6, <2>1, <2>5, Zenon DEF SendsFirst, whole, set, r, all, fits
  <1>7. CASE ~(set.ok /\ sendable)
    <2>1. r.ok = FALSE /\ r.pb = set.pb
      BY <1>5, <1>7
    <2> QED
      BY <1>2, <1>3, <1>7, <2>1, Zenon DEF SendsFirst, whole, set, r, all, fits
  <1> QED
    BY <1>6, <1>7, Zenon

(* The packets of q behind the first n wait in a buffer.  When a packet x   *)
(* has been queued and the first one sent, if ok, the rest of them wait.    *)
QueueMoves(q, n, x, queued, ok) ==
    LET pending == SubSeq(q, n + 1, Len(q))
        all  == IF queued THEN Append(pending, x) ELSE pending
        made == IF queued THEN Append(q, x) ELSE q
        m    == IF ok THEN n + 1 ELSE n
        rest == SubSeq(made, m + 1, Len(made))
    IN  /\ pending \in Seq(Packets)
        /\ made \in Seq(Packets) /\ m \in 0 .. Len(made)
        /\ rest = IF ok THEN Tail(all) ELSE all
        /\ ok => Head(all) = made[n + 1]
        /\ ok /\ n = Len(q) => Head(all) = x
        /\ \A i \in 1 .. n : made[i] = q[i]
        /\ pending # << >> \/ (queued /\ ~ok) => rest # << >>
        /\ pending = << >> /\ (queued => ok) => rest = << >>
        /\ pending = << >> <=> n = Len(q)

LEMMA QueueStep ==
    ASSUME NEW q \in Seq(Packets), NEW n \in 0 .. Len(q), NEW x \in Packets,
           NEW queued \in BOOLEAN, NEW ok \in BOOLEAN, ok => queued
    PROVE  QueueMoves(q, n, x, queued, ok)
  <1> DEFINE pending == SubSeq(q, n + 1, Len(q))
             all  == IF queued THEN Append(pending, x) ELSE pending
             made == IF queued THEN Append(q, x) ELSE q
             m    == IF ok THEN n + 1 ELSE n
             rest == SubSeq(made, m + 1, Len(made))
  <1>1. /\ pending \in Seq(Packets) /\ Len(pending) = Len(q) - n
        /\ \A i \in 1 .. (Len(q) - n) : pending[i] = q[n + i]
        /\ Len(q) \in Nat
    BY SplitFacts
  <1> HIDE DEF pending
  <1>2. /\ all \in Seq(Packets)
        /\ queued => Len(all) = Len(pending) + 1
        /\ ~queued => Len(all) = Len(pending)
        /\ \A i \in 1 .. Len(pending) : all[i] = pending[i]
        /\ queued => all[Len(pending) + 1] = x
    BY <1>1, AppendProperties
  <1>3. /\ made \in Seq(Packets)
        /\ queued => Len(made) = Len(q) + 1
        /\ ~queued => Len(made) = Len(q)
        /\ \A i \in 1 .. Len(q) : made[i] = q[i]
        /\ queued => made[Len(q) + 1] = x
    BY <1>1, AppendProperties
  <1> HIDE DEF all, made
  <1>4. /\ n \in Nat /\ n <= Len(q) /\ m \in 0 .. Len(made)
        /\ ok => m = n + 1
        /\ ~ok => m = n
        /\ \A i \in 1 .. n : made[i] = q[i]
    BY <1>1, <1>3
  <1> HIDE DEF m
  <1>5. \A i \in 1 .. Len(all) : n + i \in 1 .. Len(made) /\ all[i] = made[n + i]
    <2> TAKE i \in 1 .. Len(all)
    <2>1. CASE i \in 1 .. Len(pending)
      <3>1. n + i \in 1 .. Len(q) /\ n + i \in 1 .. Len(made) /\ i \in 1 .. (Len(q) - n)
        BY <1>1, <1>3, <1>4, <2>1
      <3> QED
        BY <1>1, <1>2, <1>3, <2>1, <3>1, Zenon
    <2>2. CASE i \notin 1 .. Len(pending)
      <3>1. queued /\ i = Len(pending) + 1 /\ n + i = Len(q) + 1
        <4>1. Len(pending) \in Nat /\ Len(all) \in Nat /\ i \in 1 .. Len(all)
          BY <1>1, <1>2
        <4>2. i > Len(pending)
          BY <2>2, <4>1
        <4>3. queued /\ Len(all) = Len(pending) + 1
          BY <1>2, <4>1, <4>2
        <4>4. n + Len(pending) = Len(q)
          BY <1>1, <1>4
        <4>5. n \in Nat /\ Len(q) \in Nat
          BY <1>1, <1>4
        <4>6. i = Len(pending) + 1
          BY <4>1, <4>2, <4>3
        <4> QED
          BY <4>1, <4>3, <4>4, <4>5, <4>6
      <3> QED
        BY <1>2, <1>3, <1>4, <3>1
    <2> QED
      BY <2>1, <2>2
  <1>6. /\ rest \in Seq(Packets) /\ Len(rest) = Len(made) - m
        /\ \A i \in 1 .. (Len(made) - m) : rest[i] = made[m + i]
    BY <1>3, <1>4, SplitFacts
  <1> HIDE DEF rest
  <1>7. /\ ok => Len(rest) = Len(all) - 1
        /\ ~ok => Len(rest) = Len(all)
    <2>1. CASE queued
      BY <1>1, <1>2, <1>3, <1>4, <1>6, <2>1
    <2>2. CASE ~queued
      BY <1>1, <1>2, <1>3, <1>4, <1>6, <2>2
    <2> QED
      BY <2>1, <2>2
  <1>8. rest = IF ok THEN Tail(all) ELSE all
    <2>1. CASE ok
      <3> DEFINE t == Tail(all)
      <3>1. Len(all) \in Nat /\ Len(all) >= 1
        BY <1>1, <1>2, <1>4, <2>1
      <3>2. all # << >>
        BY <3>1
      <3>3. /\ t \in Seq(Packets) /\ Len(t) = Len(all) - 1
            /\ \A i \in 1 .. Len(t) : t[i] = all[i + 1]
        BY <1>2, <3>2, HeadTailProperties
      <3> HIDE DEF t
      <3>4. \A i \in 1 .. Len(rest) : rest[i] = t[i]
        <4> TAKE i \in 1 .. Len(rest)
        <4>1. /\ i \in 1 .. (Len(made) - m) /\ i \in 1 .. Len(t) /\ i + 1 \in 1 .. Len(all)
              /\ m + i = n + (i + 1)
          BY <1>4, <1>6, <1>7, <2>1, <3>1, <3>3 DEF m
        <4>2. rest[i] = made[m + i] /\ t[i] = all[i + 1] /\ all[i + 1] = made[n + (i + 1)]
          BY <1>5, <1>6, <3>3, <4>1, Zenon
        <4> QED
          BY <4>1, <4>2, Zenon
      <3>5. rest = t
        BY <1>6, <1>7, <2>1, <3>3, <3>4, SeqEqual
      <3> QED
        BY <2>1, <3>5 DEF t
    <2>2. CASE ~ok
      <3>1. \A i \in 1 .. Len(rest) : rest[i] = all[i]
        BY <1>5, <1>6, <1>7, <2>2 DEF m
      <3>2. rest = all
        BY <1>2, <1>6, <1>7, <2>2, <3>1, SeqEqual
      <3> QED
        BY <2>2, <3>2
    <2> QED
      BY <2>1, <2>2
  <1>9. ASSUME ok PROVE /\ Head(all) = made[n + 1]
                        /\ n = Len(q) => Head(all) = x
    <2>1. 1 \in 1 .. Len(all) /\ Head(all) = all[1]
      BY <1>1, <1>2, <1>4, <1>9
    <2>2. all[1] = made[n + 1]
      BY <1>5, <2>1
    <2>3. n = Len(q) => made[n + 1] = x
      BY <1>3, <1>9
    <2> QED
      BY <2>1, <2>2, <2>3
  <1>10. /\ pending = << >> <=> n = Len(q)
         /\ rest = << >> <=> Len(rest) = 0
    <2>1. pending = << >> <=> Len(pending) = 0
      BY <1>1, EmptyFacts
    <2>2. rest = << >> <=> Len(rest) = 0
      BY <1>6, EmptyFacts
    <2> QED
      BY <1>1, <1>4, <2>1, <2>2
  <1>11. pending # << >> \/ (queued /\ ~ok) => Len(rest) # 0
    BY <1>1, <1>2, <1>4, <1>7, <1>10
  <1>12. pending = << >> /\ (queued => ok) => Len(rest) = 0
    BY <1>1, <1>2, <1>4, <1>7, <1>10
  <1> QED
    BY <1>1, <1>3, <1>4, <1>8, <1>9, <1>10, <1>11, <1>12, Zenon DEF QueueMoves, pending, all, made, rest, m

(* Of the packets of q all but the first n wait in the buffer b. *)
Waiting(b, q, n) ==
    /\ n \in 0 .. Len(q)
    /\ Sound(b)
    /\ Unread(b) = FlattenSeq(SubSeq(q, n + 1, Len(q)))

(* What SendPacket does to them: its packet joins the queue if there is     *)
(* room, and then the first one waiting is sent, if the socket takes it.    *)
Sends(b, q, n, packetNo, payload, sendable, junk) ==
    LET x      == PacketOf(packetNo, payload)
        queued == SetPacket(b, packetNo, payload).ok
        r      == SendPacket(b, packetNo, payload, sendable, junk)
        made   == IF queued THEN Append(q, x) ELSE q
    IN  /\ x \in Packets
        /\ queued = (GetBufferSize(b) + Len(x) <= MAX_BUF_SIZE)
        /\ r.ok = (queued /\ sendable)
        /\ made \in Seq(Packets)
        /\ \A i \in 1 .. n : made[i] = q[i]
        /\ Waiting(r.pb, made, IF r.ok THEN n + 1 ELSE n)
        /\ r.ok => r.sent \in Packets /\ r.sent = made[n + 1]
        /\ ~queued => Unread(r.pb) = Unread(b)
        /\ Unread(b) # << >> \/ (queued /\ ~r.ok) => Unread(r.pb) # << >>
        /\ Unread(b) = << >> /\ r.ok => r.sent = x
        /\ Unread(b) = << >> /\ (queued => r.ok) => Unread(r.pb) = << >>

LEMMA SendPacketSends ==
    ASSUME NEW q \in Seq(Packets), NEW n, NEW b, Waiting(b, q, n),
           NEW packetNo \in Uint16, NEW payload \in Seq(Byte), Fits(payload),
           NEW sendable \in BOOLEAN, NEW junk
    PROVE  Sends(b, q, n, packetNo, payload, sendable, junk)
  <1> DEFINE x       == PacketOf(packetNo, payload)
             queued  == SetPacket(b, packetNo, payload).ok
             r       == SendPacket(b, packetNo, payload, sendable, junk)
             pending == SubSeq(q, n + 1, Len(q))
             all     == IF queued THEN Append(pending, x) ELSE pending
             made    == IF queued THEN Append(q, x) ELSE q
             m       == IF r.ok THEN n + 1 ELSE n
             rest    == SubSeq(made, m + 1, Len(made))
  <1>1. n \in 0 .. Len(q) /\ Sound(b) /\ Unread(b) = FlattenSeq(pending)
    BY DEF Waiting
  <1>2. pending \in Seq(Packets)
    BY <1>1, SplitFacts
  <1>3. x \in Packets
    BY PacketOfFacts
  <1> HIDE DEF pending
  <1>4. /\ queued = (GetBufferSize(b) + Len(x) <= MAX_BUF_SIZE)
        /\ all \in Seq(Packets)
        /\ Sound(r.pb)
        /\ r.ok = (queued /\ sendable)
        /\ r.ok => r.sent = Head(all) /\ Unread(r.pb) = FlattenSeq(Tail(all))
        /\ ~r.ok => Unread(r.pb) = FlattenSeq(all)
    <2>1. SendsFirst(b, pending, packetNo, payload, sendable, junk)
      BY <1>1, <1>2, SendPacketFacts, Zenon
    <2> QED
      BY <2>1, Zenon DEF SendsFirst
  <1> HIDE DEF x, queued, r
  <1>5. queued \in BOOLEAN /\ r.ok \in BOOLEAN /\ (r.ok => queued)
    BY <1>4
  <1> DEFINE ok == r.ok
  <1>6. ok \in BOOLEAN /\ (ok => queued)
    BY <1>5
  <1> HIDE DEF ok
  <1> DEFINE step == IF ok THEN n + 1 ELSE n
             left == SubSeq(made, step + 1, Len(made))
  <1>7. /\ made \in Seq(Packets) /\ step \in 0 .. Len(made)
        /\ left = IF ok THEN Tail(all) ELSE all
        /\ ok => Head(all) = made[n + 1]
        /\ ok /\ n = Len(q) => Head(all) = x
        /\ \A i \in 1 .. n : made[i] = q[i]
        /\ pending # << >> \/ (queued /\ ~ok) => left # << >>
        /\ pending = << >> /\ (queued => ok) => left = << >>
        /\ pending = << >> <=> n = Len(q)
    <2>1. QueueMoves(q, n, x, queued, ok)
      BY <1>1, <1>3, <1>5, <1>6, QueueStep, Zenon
    <2> QED
      BY <2>1, Zenon DEF QueueMoves, pending
  <1>8. step = m /\ left = rest
    BY DEF ok
  <1>9. left \in Seq(Packets)
    BY <1>7, SplitFacts
  <1> HIDE DEF all, made, m, rest, step, left
  <1>10. Unread(r.pb) = FlattenSeq(left)
    BY <1>4, <1>7, Zenon DEF ok
  <1>11. /\ left # << >> <=> Unread(r.pb) # << >>
         /\ pending # << >> <=> Unread(b) # << >>
    <2>1. \A p \in Seq(Packets) : p # << >> <=> FlattenSeq(p) # << >>
      BY PacketQueueFacts, FlattenEmpty
    <2> QED
      BY <1>1, <1>2, <1>9, <1>10, <2>1, Zenon
  <1>12. Waiting(r.pb, made, m)
    BY <1>4, <1>7, <1>8, <1>10, Zenon DEF Waiting, rest
  <1>13. r.ok => r.sent \in Packets /\ r.sent = made[n + 1]
    <2>1. r.ok => n + 1 \in 1 .. Len(made)
      <3>1. n \in Int /\ Len(made) \in Nat
        BY <1>1, <1>7
      <3> QED
        BY <1>1, <1>7, <3>1 DEF step, ok
    <2>2. r.ok => made[n + 1] \in Packets
      BY <1>7, <2>1
    <2> QED
      BY <1>4, <1>7, <2>2, Zenon DEF ok
  <1>14. ~queued => Unread(r.pb) = Unread(b)
    BY <1>1, <1>4, <1>5, Zenon DEF all
  <1>15. /\ Unread(b) # << >> \/ (queued /\ ~r.ok) => Unread(r.pb) # << >>
         /\ Unread(b) = << >> /\ r.ok => r.sent = x
         /\ Unread(b) = << >> /\ (queued => r.ok) => Unread(r.pb) = << >>
    BY <1>4, <1>7, <1>11, Zenon DEF ok
  <1> QED
    BY <1>3, <1>4, <1>7, <1>12, <1>13, <1>14, <1>15, Zenon DEF Sends, x, queued, r, made, m

(* SendPacket keeps a buffer a buffer, whatever it is given. *)
LEMMA SendPacketType ==
    ASSUME NEW b \in PacketBuffers, NEW packetNo \in Uint16, NEW payload \in Seq(Byte),
           NEW sendable, NEW junk
    PROVE  SendPacket(b, packetNo, payload, sendable, junk).pb \in PacketBuffers
  <1> DEFINE set == SetPacket(b, packetNo, payload)
  <1>1. set.pb \in PacketBuffers
    BY SetPacketType
  <1>2. ConsumePacket(set.pb) \in PacketBuffers
    BY <1>1, ConsumePacketType
  <1> HIDE DEF set
  <1> QED
    BY <1>1, <1>2 DEF SendPacket, set

-----------------------------------------------------------------------------
(* A stream of packets, cut anywhere, and a buffer that receives it. *)

(* An element between two sequences ends the first or begins the second. *)
LEMMA ConcatAppendBytes ==
    ASSUME NEW r \in Seq(Seq(Byte)), NEW s \in Seq(Seq(Byte)), NEW x \in Seq(Byte)
    PROVE  /\ r \o Append(s, x) = Append(r \o s, x)
           /\ r \o (<<x>> \o s) = Append(r, x) \o s
  <1> DEFINE S == Seq(Byte)
  <1>1. r \in Seq(S) /\ s \in Seq(S) /\ x \in S
    OBVIOUS
  <1> HIDE DEF S
  <1>2. <<x>> \in Seq(S)
    BY <1>1
  <1>3. Append(s, x) = s \o <<x>> /\ Append(r, x) = r \o <<x>>
    BY <1>1, AppendIsConcat
  <1>4. r \o s \in Seq(S)
    BY <1>1, ConcatProperties
  <1>5. Append(r \o s, x) = (r \o s) \o <<x>>
    BY <1>1, <1>4, AppendIsConcat
  <1>6. (r \o s) \o <<x>> = r \o (s \o <<x>>)
    BY <1>1, <1>2, ConcatAssociative
  <1>7. (r \o <<x>>) \o s = r \o (<<x>> \o s)
    BY <1>1, <1>2, ConcatAssociative
  <1> QED
    BY <1>3, <1>5, <1>6, <1>7, Zenon

(* The concatenation of a concatenation. *)
LEMMA FlattenConcat ==
    ASSUME NEW r \in Seq(Seq(Byte)), NEW s \in Seq(Seq(Byte))
    PROVE  FlattenSeq(r \o s) = FlattenSeq(r) \o FlattenSeq(s)
  <1> DEFINE T == {n \in Nat : \A q \in Seq(Seq(Byte)) :
                     Len(q) = n => FlattenSeq(r \o q) = FlattenSeq(r) \o FlattenSeq(q)}
  <1>a. FlattenSeq(r) \in Seq(Byte)
    BY FlattenType
  <1>1. 0 \in T
    <2> SUFFICES ASSUME NEW q \in Seq(Seq(Byte)), Len(q) = 0
                 PROVE  FlattenSeq(r \o q) = FlattenSeq(r) \o FlattenSeq(q)
      OBVIOUS
    <2>1. q = << >>
      BY EmptyFacts, Zenon
    <2>2. r \o << >> = r
      OBVIOUS
    <2>3. FlattenSeq(r) \o << >> = FlattenSeq(r)
      BY <1>a
    <2> QED
      BY <2>1, <2>2, <2>3, FlattenEmpty, Zenon
  <1>2. ASSUME NEW n \in Nat, n \in T PROVE n + 1 \in T
    <2> SUFFICES ASSUME NEW q \in Seq(Seq(Byte)), Len(q) = n + 1
                 PROVE  FlattenSeq(r \o q) = FlattenSeq(r) \o FlattenSeq(q)
      <3>1. n + 1 \in Nat
        OBVIOUS
      <3> QED
        BY <3>1, Zenon
    <2>1. PICK f \in Seq(Seq(Byte)), x \in Seq(Byte) : q = Append(f, x) /\ Len(f) = n
      <3> DEFINE f == SubSeq(q, 1, n)
                 x == q[n + 1]
      <3>1. /\ f \in Seq(Seq(Byte)) /\ Len(f) = n
            /\ \A i \in 1 .. n : f[i] = q[i]
        <4>1. n \in 0 .. Len(q)
          OBVIOUS
        <4> QED
          BY <4>1, SplitFacts
      <3>2. x \in Seq(Byte)
        BY ElementOfSeq
      <3> HIDE DEF f, x
      <3>3. /\ Append(f, x) \in Seq(Seq(Byte)) /\ Len(Append(f, x)) = n + 1
            /\ \A i \in 1 .. n : Append(f, x)[i] = f[i]
            /\ Append(f, x)[n + 1] = x
        BY <3>1, <3>2, AppendProperties
      <3>4. \A i \in 1 .. (n + 1) : i \in 1 .. n \/ i = n + 1
        OBVIOUS
      <3>5. \A i \in 1 .. (n + 1) : q[i] = Append(f, x)[i]
        BY <3>1, <3>3, <3>4, Zenon DEF x
      <3>6. q = Append(f, x)
        BY <3>3, <3>5, SeqEqual
      <3> QED
        BY <3>1, <3>2, <3>6
    <2>2. FlattenSeq(r \o f) = FlattenSeq(r) \o FlattenSeq(f)
      BY <1>2, <2>1
    <2>3. r \o q = Append(r \o f, x) /\ r \o f \in Seq(Seq(Byte))
      <3>1. r \o f \in Seq(Seq(Byte))
        BY ConcatProperties
      <3>2. r \o Append(f, x) = Append(r \o f, x)
        BY <2>1, ConcatAppendBytes
      <3> QED
        BY <2>1, <3>1, <3>2, Zenon
    <2>4. FlattenSeq(r \o q) = (FlattenSeq(r) \o FlattenSeq(f)) \o x
      BY <2>2, <2>3, FlattenAppend, Zenon
    <2>5. FlattenSeq(q) = FlattenSeq(f) \o x /\ FlattenSeq(f) \in Seq(Byte)
      BY <2>1, FlattenAppend, FlattenType
    <2> QED
      <3>1. (FlattenSeq(r) \o FlattenSeq(f)) \o x = FlattenSeq(r) \o (FlattenSeq(f) \o x)
        BY <1>a, <2>5, ConcatBytesAssoc, Zenon
      <3> QED
        BY <2>4, <2>5, <3>1, Zenon
  <1> HIDE DEF T
  <1>3. Len(s) \in T
    <2>1. Len(s) \in Nat
      OBVIOUS
    <2> QED
      BY <1>1, <1>2, <2>1, SetInduction
  <1> QED
    BY <1>3, Zenon DEF T

(* The first part of a concatenation is a prefix of it. *)
LEMMA PrefixFacts ==
    ASSUME NEW s \in Seq(Byte), NEW t \in Seq(Byte)
    PROVE  IsPrefix(s, s \o t)
  <1> DEFINE u == s \o t
  <1>1. /\ u \in Seq(Byte) /\ Len(s) \in Nat /\ Len(s) <= Len(u)
        /\ \A i \in 1 .. Len(s) : u[i] = s[i]
    BY ConcatBytes
  <1> HIDE DEF u
  <1>2. /\ SubSeq(s, 1, Len(s)) = [i \in 1 .. Len(s) |-> s[i]]
        /\ SubSeq(u, 1, Len(s)) = [i \in 1 .. Len(s) |-> u[i]]
    BY <1>1
  <1>3. SubSeq(s, 1, Len(s)) = SubSeq(u, 1, Len(s))
    BY <1>1, <1>2
  <1> QED
    BY <1>1, <1>3 DEF IsPrefix, u

(* Of the packets asked, those taken are the first, and the unread bytes u, *)
(* the bytes up under way and those that were cut off make up the rest of   *)
(* them.  Nothing has been cut off the stream while it is whole.            *)
Received(asked, taken, u, up, whole) ==
    \E more \in Seq(Packets), lost \in Seq(Byte) :
        /\ asked = taken \o more
        /\ (u \o up) \o lost = FlattenSeq(more)
        /\ whole => lost = << >>

LEMMA ReceivedStart ==
    ASSUME NEW asked \in Seq(Packets), NEW whole
    PROVE  Received(asked, << >>, << >>, FlattenSeq(asked), whole)
  <1>1. FlattenSeq(asked) \in Seq(Byte)
    BY PacketQueueFacts
  <1>2. << >> \o asked = asked
    OBVIOUS
  <1> DEFINE f == FlattenSeq(asked)
  <1>3. (<< >> \o f) \o << >> = f
    <2> HIDE DEF f
    <2>1. f \in Seq(Byte)
      BY <1>1 DEF f
    <2> QED
      BY <2>1
  <1>4. << >> \in Seq(Byte)
    OBVIOUS
  <1> QED
    BY <1>2, <1>3, <1>4, Zenon DEF Received

LEMMA ReceivedSend ==
    ASSUME NEW asked \in Seq(Packets), NEW taken \in Seq(Seq(Byte)),
           NEW u \in Seq(Byte), NEW up \in Seq(Byte), NEW x \in Packets,
           Received(asked, taken, u, up, TRUE)
    PROVE  Received(Append(asked, x), taken, u, up \o x, TRUE)
  <1>1. PICK more \in Seq(Packets), lost \in Seq(Byte) :
           /\ asked = taken \o more
           /\ (u \o up) \o lost = FlattenSeq(more)
           /\ lost = << >>
    BY DEF Received
  <1>2. x \in Seq(Byte)
    BY DEF Packets
  <1>3. u \o up = FlattenSeq(more)
    <2>1. u \o up \in Seq(Byte)
      BY ConcatBytes
    <2>2. (u \o up) \o << >> = u \o up
      BY <2>1
    <2> QED
      BY <1>1, <2>2, Zenon
  <1>4. /\ Append(more, x) \in Seq(Packets)
        /\ FlattenSeq(Append(more, x)) = FlattenSeq(more) \o x
    BY PacketQueueFacts
  <1>5. Append(asked, x) = taken \o Append(more, x)
    <2>1. more \in Seq(Seq(Byte))
      BY PacketsType
    <2>2. taken \o Append(more, x) = Append(taken \o more, x)
      BY <1>2, <2>1, ConcatAppendBytes
    <2> QED
      BY <1>1, <2>2, Zenon
  <1>6. (u \o (up \o x)) \o << >> = FlattenSeq(more) \o x
    <2>1. (u \o up) \o x = u \o (up \o x)
      BY <1>2, ConcatBytesAssoc
    <2>2. up \o x \in Seq(Byte)
      BY <1>2, ConcatBytes
    <2>3. u \o (up \o x) \in Seq(Byte)
      BY <2>2, ConcatBytes
    <2>4. (u \o (up \o x)) \o << >> = u \o (up \o x)
      BY <2>3
    <2> QED
      BY <1>3, <2>1, <2>4, Zenon
  <1>7. << >> \in Seq(Byte)
    OBVIOUS
  <1> QED
    BY <1>4, <1>5, <1>6, <1>7, Zenon DEF Received

LEMMA ReceivedCut ==
    ASSUME NEW asked, NEW taken, NEW u \in Seq(Byte), NEW up \in Seq(Byte), NEW whole,
           Received(asked, taken, u, up, whole)
    PROVE  Received(asked, taken, u, << >>, FALSE)
  <1>1. PICK more \in Seq(Packets), lost \in Seq(Byte) :
           /\ asked = taken \o more
           /\ (u \o up) \o lost = FlattenSeq(more)
    BY DEF Received
  <1>2. u \o << >> = u
    OBVIOUS
  <1>3. (u \o up) \o lost = u \o (up \o lost) /\ up \o lost \in Seq(Byte)
    BY ConcatBytesAssoc, ConcatBytes
  <1> QED
    BY <1>1, <1>2, <1>3, Zenon DEF Received

LEMMA ReceivedMove ==
    ASSUME NEW asked, NEW taken, NEW u \in Seq(Byte), NEW up \in Seq(Byte), NEW whole,
           NEW n \in 0 .. Len(up),
           Received(asked, taken, u, up, whole)
    PROVE  Received(asked, taken, u \o SubSeq(up, 1, n), SubSeq(up, n + 1, Len(up)), whole)
  <1> DEFINE p == SubSeq(up, 1, n)
             r == SubSeq(up, n + 1, Len(up))
  <1>1. p \in Seq(Byte) /\ r \in Seq(Byte) /\ up = p \o r
    BY SplitFacts
  <1> HIDE DEF p, r
  <1>2. (u \o p) \o r = u \o up
    BY <1>1, ConcatBytesAssoc
  <1> QED
    BY <1>2, Zenon DEF Received, p, r

LEMMA ReceivedTake ==
    ASSUME NEW asked, NEW taken \in Seq(Seq(Byte)), NEW up \in Seq(Byte), NEW whole,
           NEW b, Sound(b), IsAbleToGetPacket(b), NEW junk,
           Received(asked, taken, Unread(b), up, whole)
    PROVE  Received(asked, Append(taken, PacketBytes(b, junk)),
                    Unread(ConsumePacket(b)), up, whole)
  <1> DEFINE u == Unread(b)
             n == GetPacketSize(b)
             p == PacketBytes(b, junk)
             v == Unread(ConsumePacket(b))
  <1>1. u \in Seq(Byte) /\ Len(u) \in Nat
    BY UnreadFacts
  <1>2. /\ n \in 1 .. Len(u) /\ Len(u) >= 2 /\ n = ValueOf(u[1], u[2])
        /\ p = SubSeq(u, 1, n)
        /\ v = SubSeq(u, n + 1, Len(u))
    BY PacketFacts
  <1> HIDE DEF u, n, p, v
  <1>3. p \in Seq(Byte) /\ Len(p) = n /\ v \in Seq(Byte) /\ u = p \o v
    <2>1. n \in 0 .. Len(u)
      BY <1>1, <1>2
    <2> QED
      BY <1>1, <1>2, <2>1, SplitFacts
  <1>4. PICK more \in Seq(Packets), lost \in Seq(Byte) :
           /\ asked = taken \o more
           /\ (u \o up) \o lost = FlattenSeq(more)
           /\ whole => lost = << >>
    BY DEF Received, u
  <1> DEFINE rest == up \o lost
  <1>5. /\ rest \in Seq(Byte)
        /\ (u \o up) \o lost = u \o rest
        /\ v \o rest \in Seq(Byte)
        /\ u \o rest = p \o (v \o rest)
        /\ (v \o up) \o lost = v \o rest
    <2>1. rest \in Seq(Byte)
      BY ConcatBytes
    <2>2. (u \o up) \o lost = u \o rest /\ (v \o up) \o lost = v \o rest
      <3>1. u \in Seq(Byte) /\ v \in Seq(Byte)
        BY <1>1, <1>3
      <3>2. (u \o up) \o lost = u \o (up \o lost)
        BY <3>1, ConcatBytesAssoc
      <3>3. (v \o up) \o lost = v \o (up \o lost)
        BY <3>1, ConcatBytesAssoc
      <3> QED
        BY <3>2, <3>3, Zenon
    <2> HIDE DEF rest
    <2>3. v \o rest \in Seq(Byte)
      BY <1>3, <2>1, ConcatBytes
    <2>4. u \o rest = p \o (v \o rest)
      <3>1. /\ p \in Seq(Byte) /\ v \in Seq(Byte) /\ u = p \o v
        BY <1>3
      <3>2. (p \o v) \o rest = p \o (v \o rest)
        BY <2>1, <3>1, ConcatBytesAssoc, SMTT(30)
      <3> QED
        BY <3>1, <3>2, Zenon
    <2> QED
      BY <2>1, <2>2, <2>3, <2>4
  <1> HIDE DEF rest
  <1>6. more # << >>
    <2>1. u \o rest # << >>
      <3>1. Len(u \o rest) = Len(u) + Len(rest) /\ Len(rest) \in Nat
        BY <1>1, <1>5, ConcatBytes
      <3>2. Len(u \o rest) # 0
        BY <1>1, <1>2, <3>1
      <3> QED
        BY <3>2
    <2> QED
      BY <1>4, <1>5, <2>1, FlattenEmpty, Zenon
  <1> DEFINE h == Head(more)
             t == Tail(more)
             f == FlattenSeq(t)
  <1>7. /\ h \in Packets /\ t \in Seq(Packets) /\ f \in Seq(Byte)
        /\ FlattenSeq(more) = h \o f
    BY <1>6, PacketQueueFacts
  <1>8. more = <<h>> \o t
    BY <1>6
  <1> HIDE DEF h, t, f
  <1>9. h \in Seq(Byte) /\ Len(h) >= 2 /\ ValueOf(h[1], h[2]) = Len(h)
    BY <1>7 DEF Packets, Framed, SizeofUint16
  <1>10. u \o rest = h \o f
    BY <1>4, <1>5, <1>7, Zenon
  <1>11. u[1] = h[1] /\ u[2] = h[2]
    <2>1. /\ (u \o rest)[1] = u[1] /\ (u \o rest)[2] = u[2]
          /\ (h \o f)[1] = h[1] /\ (h \o f)[2] = h[2]
      BY <1>1, <1>2, <1>5, <1>7, <1>9, ConcatFront
    <2> QED
      BY <1>10, <2>1, Zenon
  <1>12. Len(p) = Len(h)
    BY <1>2, <1>3, <1>9, <1>11, Zenon
  <1>13. p = h /\ v \o rest = f
    <2> DEFINE a == v \o rest
    <2>1. a \in Seq(Byte) /\ p \o a = h \o f
      BY <1>5, <1>10, Zenon
    <2> HIDE DEF a
    <2>2. p = h /\ a = f
      BY <1>3, <1>7, <1>9, <1>12, <2>1, ConcatCancel
    <2> QED
      BY <2>2 DEF a
  <1>14. asked = Append(taken, p) \o t
    <2>1. <<h>> \in Seq(Seq(Byte)) /\ t \in Seq(Seq(Byte))
      <3>1. t \in Seq(Seq(Byte))
        BY <1>7, PacketsType
      <3> QED
        BY <1>9, <3>1
    <2>2. taken \o (<<h>> \o t) = Append(taken, h) \o t
      <3>1. h \in Seq(Byte) /\ t \in Seq(Seq(Byte))
        BY <1>9, <2>1
      <3> QED
        BY <3>1, ConcatAppendBytes, Zenon
    <2> QED
      BY <1>4, <1>8, <1>13, <2>2, Zenon
  <1>15. (v \o up) \o lost = FlattenSeq(t)
    BY <1>5, <1>13, Zenon DEF f
  <1> QED
    BY <1>4, <1>7, <1>14, <1>15, Zenon DEF Received, p, v

LEMMA ReceivedFacts ==
    ASSUME NEW asked, NEW taken \in Seq(Seq(Byte)), NEW u \in Seq(Byte), NEW up \in Seq(Byte),
           NEW whole, Received(asked, taken, u, up, whole)
    PROVE  /\ IsPrefix(taken, asked)
           /\ whole => (FlattenSeq(taken) \o u) \o up = FlattenSeq(asked)
  <1>1. PICK more \in Seq(Packets), lost \in Seq(Byte) :
           /\ asked = taken \o more
           /\ (u \o up) \o lost = FlattenSeq(more)
           /\ whole => lost = << >>
    BY DEF Received
  <1>2. more \in Seq(Seq(Byte))
    BY PacketsType
  <1>3. IsPrefix(taken, asked)
    <2>1. /\ asked \in Seq(Seq(Byte))
          /\ Len(asked) = Len(taken) + Len(more)
          /\ \A i \in 1 .. (Len(taken) + Len(more)) :
                asked[i] = IF i <= Len(taken) THEN taken[i] ELSE more[i - Len(taken)]
      BY <1>1, <1>2, ConcatProperties
    <2> DEFINE n == Len(taken)
    <2>2. n \in Nat /\ Len(more) \in Nat /\ n <= Len(asked) /\ n \in 0 .. Len(asked) /\ n \in 0 .. n
      BY <1>2, <2>1
    <2>3. /\ SubSeq(asked, 1, n) \in Seq(Seq(Byte)) /\ Len(SubSeq(asked, 1, n)) = n
          /\ \A i \in 1 .. n : SubSeq(asked, 1, n)[i] = asked[i]
      BY <2>1, <2>2, SplitFacts
    <2>4. SubSeq(taken, 1, n) = taken
      BY SubSeqFull
    <2>5. \A i \in 1 .. n : asked[i] = taken[i]
      BY <2>1, <2>2
    <2>6. SubSeq(asked, 1, n) = taken
      BY <2>3, <2>5, SeqEqual
    <2> QED
      BY <2>2, <2>4, <2>6 DEF IsPrefix
  <1>4. ASSUME whole PROVE (FlattenSeq(taken) \o u) \o up = FlattenSeq(asked)
    <2> DEFINE f == FlattenSeq(taken)
    <2>1. f \in Seq(Byte)
      BY FlattenType
    <2>2. FlattenSeq(asked) = f \o FlattenSeq(more)
      BY <1>1, <1>2, FlattenConcat
    <2>3. u \o up = FlattenSeq(more)
      <3>1. u \o up \in Seq(Byte)
        BY ConcatBytes
      <3>2. (u \o up) \o << >> = u \o up
        BY <3>1
      <3> QED
        BY <1>1, <1>4, <3>2, Zenon
    <2> HIDE DEF f
    <2>4. (f \o u) \o up = f \o (u \o up)
      BY <2>1, ConcatBytesAssoc
    <2> QED
      BY <2>2, <2>3, <2>4, Zenon DEF f
  <1> QED
    BY <1>3, <1>4

-----------------------------------------------------------------------------
(* Packets that do not fit, and headers that overrun the array. *)

(* Of a packet that can not be queued SetPacket stores the header, or       *)
(* nothing: it judges by the size that the header claims.                   *)
LEMMA MisfitFacts ==
    ASSUME NEW b, Sound(b), NEW packetNo \in Uint16,
           NEW payload \in Seq(Byte), ~Fits(payload),
           LET size == ToUint16(GetHeaderSize + Len(payload))
               room == GetRemainSize(MakeRoom(b, size))
           IN  ~(size <= room /\ room < GetHeaderSize)
    PROVE  LET size   == ToUint16(GetHeaderSize + Len(payload))
               r      == SetPacket(b, packetNo, payload)
               header == BytesOf(size) \o BytesOf(packetNo)
               taken  == GetBufferSize(b) + size <= MAX_BUF_SIZE
           IN  /\ r.ok = FALSE
               /\ Sound(r.pb)
               /\ Unread(r.pb) = IF taken THEN Unread(b) \o header ELSE Unread(b)
               /\ r.pb.pad = b.pad
               /\ taken => GetBufferSize(b) + 4 <= MAX_BUF_SIZE
  <1> DEFINE size   == ToUint16(GetHeaderSize + Len(payload))
             r      == SetPacket(b, packetNo, payload)
             header == BytesOf(size) \o BytesOf(packetNo)
             taken  == GetBufferSize(b) + size <= MAX_BUF_SIZE
             roomy  == MakeRoom(b, size)
             headed == SetHeader(roomy, size, packetNo)
             room   == GetRemainSize(roomy)
  <1>1. /\ size \in Uint16 /\ size \in Nat /\ MAX_BUF_SIZE \in Nat
        /\ Len(payload) \in Nat
    BY WidthFacts DEF GetHeaderSize, SizeofUint16, Uint16
  <1>2. ~(size <= room /\ room < 4)
    BY DEF GetHeaderSize, SizeofUint16
  <1>3. /\ Sound(roomy) /\ Unread(roomy) = Unread(b) /\ roomy.pad = b.pad
        /\ size <= room <=> taken
    <2> HIDE DEF size
    <2> QED
      BY <1>1, MakeRoomFacts
  <1>4. r = IF size > room THEN Return(FALSE, roomy)
            ELSE IF Len(payload) > MAX_BUF_SIZE THEN Return(FALSE, headed)
            ELSE AppendBuffer(headed, payload)
    BY Zenon DEF SetPacket
  <1>5. /\ Len(payload) <= MAX_BUF_SIZE => payload = << >> \/ 4 + Len(payload) > MAX_BUF_SIZE
    BY <1>1 DEF Fits, GetHeaderSize, SizeofUint16
  <1> HIDE DEF size, header, r, roomy, headed, room, taken
  <1>6. /\ room = MAX_BUF_SIZE - roomy.writePos
        /\ roomy.writePos \in Nat
        /\ GetBufferSize(roomy) = GetBufferSize(b)
        /\ GetBufferSize(roomy) <= roomy.writePos /\ GetBufferSize(b) \in Nat
    <2>1. /\ Len(Unread(b)) = GetBufferSize(b) /\ GetBufferSize(b) \in 0 .. MAX_BUF_SIZE
      BY UnreadFacts
    <2>2. /\ Len(Unread(roomy)) = GetBufferSize(roomy)
          /\ GetBufferSize(roomy) = roomy.writePos - roomy.readPos
          /\ GetRemainSize(roomy) = MAX_BUF_SIZE - roomy.writePos
      BY <1>3, UnreadFacts
    <2>3. roomy.writePos \in Nat /\ roomy.readPos \in Nat
      BY <1>3, WidthFacts DEF Sound, PacketBuffers, Uint16
    <2> QED
      BY <1>1, <1>3, <2>1, <2>2, <2>3 DEF room
  <1>7. CASE size > room
    <2>1. r.ok = FALSE /\ r.pb = roomy
      BY <1>4, <1>7 DEF Return
    <2>2. ~taken
      BY <1>1, <1>3, <1>6, <1>7
    <2> QED
      BY <1>3, <2>1, <2>2 DEF r, header, taken, size
  <1>8. CASE ~(size > room)
    <2>1. size <= room /\ room >= 4 /\ roomy.writePos + 4 <= MAX_BUF_SIZE
      BY <1>1, <1>2, <1>6, <1>8
    <2>2. taken /\ GetBufferSize(b) + 4 <= MAX_BUF_SIZE
      BY <1>1, <1>3, <1>6, <2>1
    <2>3. /\ Sound(headed)
          /\ Unread(headed) = Unread(b) \o header
          /\ headed.pad = b.pad
          /\ GetBufferSize(headed) = GetBufferSize(b) + 4
      BY <1>1, <1>3, <1>6, <2>1, SetHeaderFacts DEF headed, header
    <2>4. CASE Len(payload) > MAX_BUF_SIZE
      <3>1. r.ok = FALSE /\ r.pb = headed
        BY <1>4, <1>8, <2>4 DEF Return
      <3> QED
        BY <2>2, <2>3, <3>1 DEF r, header, taken, size
    <2>5. CASE ~(Len(payload) > MAX_BUF_SIZE)
      <3>1. r = AppendBuffer(headed, payload)
        BY <1>4, <1>8, <2>5, Zenon
      <3>2. Len(payload) <= MAX_BUF_SIZE
        BY <1>1, <2>5
      <3>3. ~(payload # << >> /\ GetBufferSize(headed) + Len(payload) <= MAX_BUF_SIZE)
        BY <1>1, <1>5, <1>6, <2>3, <3>2
      <3>4. r.ok = FALSE /\ Sound(r.pb) /\ Unread(r.pb) = Unread(headed) /\ r.pb.pad = headed.pad
        BY <2>3, <3>1, <3>2, <3>3, AppendBufferFacts
      <3> QED
        BY <2>2, <2>3, <3>4 DEF r, header, taken, size
    <2> QED
      BY <2>4, <2>5, Zenon
  <1> QED
    BY <1>7, <1>8, Zenon

(* A two-byte copy, wherever it starts: where writePos goes, and what falls *)
(* on pad.                                                                  *)
LEMMA StoreTwoFacts ==
    ASSUME NEW b \in PacketBuffers, NEW bytes \in Seq(Byte), Len(bytes) = 2
    PROVE  LET w == b.writePos
               h == Store(b, bytes)
           IN  /\ w + 2 <= MAX_BUF_SIZE => h.writePos = w + 2 /\ h.pad = b.pad
               /\ w + 2 = MAX_BUF_SIZE + 1 => h.writePos = 0 /\ h.pad = bytes[2]
               /\ w + 2 = MAX_BUF_SIZE + 2 => h.writePos = 1 /\ h.pad = bytes[1]
  <1> DEFINE w == b.writePos
             M == MAX_BUF_SIZE
             h == Store(b, bytes)
  <1>1. /\ h.writePos = ToUint16(w + 2)
        /\ h.pad = IF w + 2 > M THEN bytes[M - w + 1] ELSE b.pad
    BY DEF Store
  <1>2. w \in Nat /\ w <= M /\ M \in Nat /\ M >= 8
    BY WidthFacts DEF PacketBuffers, Uint16, MAX_BUF_SIZE
  <1>3. /\ w + 2 <= M => ToUint16(w + 2) = w + 2
        /\ w + 2 = M + 1 => ToUint16(w + 2) = 0
        /\ w + 2 = M + 2 => ToUint16(w + 2) = 1
    <2>1. Uint16Range \in Nat /\ Uint16Range = M + 1
      BY WidthFacts DEF MAX_BUF_SIZE
    <2>2. \A u \in Nat : u > 1 => u % u = 0 /\ (u + 1) % u = 1
      BY Z3
    <2>3. w + 2 <= M => w + 2 \in Uint16
      BY <1>2, <2>1 DEF Uint16
    <2> HIDE DEF w, M
    <2>4. (M + 1) % Uint16Range = 0 /\ (M + 2) % Uint16Range = 1
      <3>1. Uint16Range > 1 /\ M + 2 = Uint16Range + 1
        BY <1>2, <2>1
      <3> QED
        BY <2>1, <2>2, <3>1, Zenon
    <2> QED
      BY <2>3, <2>4, WidthFacts, Zenon DEF ToUint16
  <1> HIDE DEF h, w, M
  <1>4. /\ w + 2 <= M => h.pad = b.pad
        /\ w + 2 = M + 1 => h.pad = bytes[2]
        /\ w + 2 = M + 2 => h.pad = bytes[1]
    <2>1. /\ w + 2 = M + 1 => M - w + 1 = 2 /\ w + 2 > M
          /\ w + 2 = M + 2 => M - w + 1 = 1 /\ w + 2 > M
          /\ w + 2 <= M => ~(w + 2 > M)
      BY <1>2
    <2> QED
      BY <1>1, <2>1, Zenon
  <1> QED
    BY <1>1, <1>3, <1>4, Zenon DEF h, w, M

(* Four bytes of header where there is room for fewer: one of them falls on *)
(* pad, and writePos goes on from the front of the array.                   *)
LEMMA HeaderOverrunFacts ==
    ASSUME NEW b \in PacketBuffers, NEW size \in Uint16, NEW packetNo \in Uint16,
           MAX_BUF_SIZE - b.writePos < 4
    PROVE  LET h      == SetHeader(b, size, packetNo)
               header == BytesOf(size) \o BytesOf(packetNo)
               room   == MAX_BUF_SIZE - b.writePos
           IN  /\ h \in PacketBuffers
               /\ h.writePos = 3 - room
               /\ h.pad = header[room + 1]
  <1> DEFINE A == BytesOf(size)
             B == BytesOf(packetNo)
             sized == Store(b, A)
             h     == Store(sized, B)
             w     == b.writePos
             M     == MAX_BUF_SIZE
             room  == M - w
  <1>1. /\ A \in Seq(Byte) /\ Len(A) = 2
        /\ B \in Seq(Byte) /\ Len(B) = 2
    BY BytesOfFacts
  <1>2. w \in Nat /\ w <= M /\ M \in Nat /\ M >= 8
    BY WidthFacts DEF PacketBuffers, Uint16, MAX_BUF_SIZE
  <1>3. SetHeader(b, size, packetNo) = h
    BY Zenon DEF SetHeader
  <1>4. /\ (A \o B)[1] = A[1] /\ (A \o B)[2] = A[2]
        /\ (A \o B)[3] = B[1] /\ (A \o B)[4] = B[2]
    <2> HIDE DEF A, B
    <2>1. \A i \in 1 .. (Len(A) + Len(B)) :
             (A \o B)[i] = IF i <= Len(A) THEN A[i] ELSE B[i - Len(A)]
      BY <1>1, ConcatProperties, Zenon
    <2> DEFINE s == A \o B
    <2>2. \A i \in 1 .. (2 + 2) : s[i] = IF i <= 2 THEN A[i] ELSE B[i - 2]
      BY <1>1, <2>1, Zenon
    <2> HIDE DEF s
    <2>3. s[1] = A[1] /\ s[2] = A[2] /\ s[3] = B[1] /\ s[4] = B[2]
      BY <2>2
    <2> QED
      BY <2>3 DEF s
  <1> HIDE DEF A, B, sized, h, w, M
  <1>5. sized \in PacketBuffers /\ h \in PacketBuffers
    BY <1>1, StoreTwoType DEF sized, h
  <1>6. /\ w + 2 <= M => sized.writePos = w + 2 /\ sized.pad = b.pad
        /\ w + 2 = M + 1 => sized.writePos = 0 /\ sized.pad = A[2]
        /\ w + 2 = M + 2 => sized.writePos = 1 /\ sized.pad = A[1]
    BY <1>1, StoreTwoFacts, Zenon DEF sized, w, M
  <1>7. /\ sized.writePos + 2 <= M => h.writePos = sized.writePos + 2 /\ h.pad = sized.pad
        /\ sized.writePos + 2 = M + 1 => h.writePos = 0 /\ h.pad = B[2]
        /\ sized.writePos + 2 = M + 2 => h.writePos = 1 /\ h.pad = B[1]
    BY <1>1, <1>5, StoreTwoFacts, Zenon DEF h, M
  <1>8. M - w < 4
    BY DEF M, w
  <1>9. CASE w = M
    <2>1. w + 2 = M + 2 /\ 1 + 2 <= M /\ 1 + 2 = 3 - room /\ room + 1 = 1
      BY <1>2, <1>9
    <2> QED
      BY <1>3, <1>4, <1>5, <1>6, <1>7, <2>1, Zenon DEF A, B, w, M
  <1>10. CASE w = M - 1
    <2>1. w + 2 = M + 1 /\ 0 + 2 <= M /\ 0 + 2 = 3 - room /\ room + 1 = 2
      BY <1>2, <1>10
    <2> QED
      BY <1>3, <1>4, <1>5, <1>6, <1>7, <2>1, Zenon DEF A, B, w, M
  <1>11. CASE w = M - 2
    <2>1. w + 2 <= M /\ (w + 2) + 2 = M + 2 /\ 1 = 3 - room /\ room + 1 = 3
      BY <1>2, <1>11
    <2> QED
      BY <1>3, <1>4, <1>5, <1>6, <1>7, <2>1, Zenon DEF A, B, w, M
  <1>12. CASE w = M - 3
    <2>1. w + 2 <= M /\ (w + 2) + 2 = M + 1 /\ 0 = 3 - room /\ room + 1 = 4
      BY <1>2, <1>12
    <2> QED
      BY <1>3, <1>4, <1>5, <1>6, <1>7, <2>1, Zenon DEF A, B, w, M
  <1>13. w = M \/ w = M - 1 \/ w = M - 2 \/ w = M - 3
    BY <1>2, <1>8
  <1> QED
    BY <1>9, <1>10, <1>11, <1>12, <1>13, Zenon

(* An append to a buffer with room for it is a copy inside the array. *)
LEMMA AppendRoomFacts ==
    ASSUME NEW b \in PacketBuffers, NEW bytes \in Seq(Byte), bytes # << >>,
           b.writePos + Len(bytes) <= MAX_BUF_SIZE
    PROVE  LET r == AppendBuffer(b, bytes)
           IN  r.ok = TRUE /\ r.pb.writePos = b.writePos + Len(bytes) /\ r.pb.pad = b.pad
  <1> DEFINE n == Len(bytes)
             w == b.writePos
             M == MAX_BUF_SIZE
             c == Store(b, bytes)
             r == AppendBuffer(b, bytes)
  <1>1. /\ n \in Nat /\ n # 0 /\ w \in Nat /\ M \in Nat /\ w + n <= M
        /\ n \in Uint16 /\ w + n \in Uint16 /\ M - w \in Uint16
    BY WidthFacts DEF PacketBuffers, Uint16, MAX_BUF_SIZE
  <1>2. ToUint16(n) = n /\ ToUint16(w + n) = w + n /\ GetRemainSize(b) = M - w
    BY <1>1, WidthFacts, Zenon DEF GetRemainSize
  <1>3. ~(n > GetRemainSize(b)) /\ ~(w + n > M)
    BY <1>1, <1>2
  <1>4. MakeRoom(b, n) = b
    BY <1>3, Zenon DEF MakeRoom
  <1>5. SubSeq(bytes, 1, n) = bytes
    BY SubSeqFull
  <1>6. r = Return(TRUE, c)
    BY <1>1, <1>2, <1>3, <1>4, <1>5, Zenon DEF AppendBuffer
  <1>7. c.writePos = w + n /\ c.pad = b.pad
    BY <1>2, <1>3 DEF Store
  <1> HIDE DEF c, r
  <1> QED
    BY <1>6, <1>7 DEF Return, r

(* A SetPacket whose header overruns the array stores the payload too, when *)
(* there is one the local array can hold: at the front, without a test that *)
(* refuses it.                                                              *)
LEMMA OverrunFacts ==
    ASSUME NEW b \in PacketBuffers, NEW packetNo \in Uint16, NEW payload \in Seq(Byte),
           LET size == ToUint16(GetHeaderSize + Len(payload))
               room == GetRemainSize(MakeRoom(b, size))
           IN  size <= room /\ room < GetHeaderSize
    PROVE  LET size   == ToUint16(GetHeaderSize + Len(payload))
               room   == GetRemainSize(MakeRoom(b, size))
               r      == SetPacket(b, packetNo, payload)
               header == BytesOf(size) \o BytesOf(packetNo)
           IN  /\ r.pb.pad = header[room + 1]
               /\ r.ok = (Len(payload) <= MAX_BUF_SIZE)
               /\ r.ok => r.pb.writePos = MAX_BUF_SIZE - room + size
  <1> DEFINE n      == Len(payload)
             size   == ToUint16(GetHeaderSize + n)
             roomy  == MakeRoom(b, size)
             headed == SetHeader(roomy, size, packetNo)
             room   == GetRemainSize(roomy)
             r      == SetPacket(b, packetNo, payload)
             header == BytesOf(size) \o BytesOf(packetNo)
             M      == MAX_BUF_SIZE
  <1>1. /\ size \in Uint16 /\ size \in Nat /\ M \in Nat /\ M >= 8 /\ n \in Nat
        /\ size <= room /\ room < 4
    BY WidthFacts DEF GetHeaderSize, SizeofUint16, Uint16, MAX_BUF_SIZE
  <1>2. n <= M => size = 4 + n \/ size = 3 + n - M
    <2>1. Uint16Range \in Nat /\ Uint16Range = M + 1
      BY WidthFacts DEF MAX_BUF_SIZE
    <2>2. \A u \in Nat, k \in Nat : k >= u /\ k < u + u => k % u = k - u
      BY Z3
    <2>3. \A u \in Nat, k \in Nat : k < u => k % u = k
      BY Z3
    <2>4. size = (4 + n) % Uint16Range
      BY <1>1 DEF ToUint16, GetHeaderSize, SizeofUint16
    <2> HIDE DEF size, n, M
    <2>5. 4 + n \in Nat
      BY <1>1
    <2>6. CASE 4 + n < Uint16Range
      BY <2>1, <2>3, <2>4, <2>5, <2>6, Zenon
    <2>7. CASE ~(4 + n < Uint16Range) /\ n <= M
      <3>1. 4 + n >= Uint16Range /\ 4 + n < Uint16Range + Uint16Range
        BY <1>1, <2>1, <2>7
      <3>2. size = (4 + n) - Uint16Range
        BY <2>1, <2>2, <2>4, <2>5, <3>1, Zenon
      <3> QED
        BY <1>1, <2>1, <3>2
    <2> QED
      BY <2>6, <2>7
  <1>3. /\ roomy \in PacketBuffers /\ roomy.writePos \in Nat
        /\ room = M - roomy.writePos
    <2>1. roomy \in PacketBuffers
      BY MakeRoomType
    <2> HIDE DEF roomy
    <2>2. roomy.writePos \in Nat /\ M - roomy.writePos \in Uint16
      BY <2>1, WidthFacts DEF PacketBuffers, Uint16, MAX_BUF_SIZE
    <2> QED
      BY <2>1, <2>2, WidthFacts, Zenon DEF GetRemainSize
  <1>4. r = IF size > room THEN Return(FALSE, roomy)
            ELSE IF n > M THEN Return(FALSE, headed)
            ELSE AppendBuffer(headed, payload)
    BY Zenon DEF SetPacket
  <1>5. n = 0 <=> payload = << >>
    OBVIOUS
  <1> HIDE DEF n, size, roomy, headed, room, r, header, M
  <1>6. /\ headed \in PacketBuffers
        /\ headed.writePos = 3 - room
        /\ headed.pad = header[room + 1]
    <2>1. M - roomy.writePos < 4
      BY <1>1, <1>3
    <2> QED
      BY <1>1, <1>3, <2>1, HeaderOverrunFacts, Zenon DEF headed, header, M
  <1>7. ~(size > room) /\ room \in Nat
    BY <1>1, <1>3
  <1> DEFINE Told == /\ r.pb.pad = header[room + 1]
                     /\ r.ok = (n <= M)
                     /\ r.ok => r.pb.writePos = M - room + size
  <1>8. ASSUME n > M PROVE Told
    <2>1. r = Return(FALSE, headed) /\ ~(n <= M)
      BY <1>1, <1>4, <1>7, <1>8
    <2>2. r.ok = FALSE /\ r.pb = headed
      BY <2>1 DEF Return
    <2>3. (n <= M) = FALSE
      BY <2>1
    <2> QED
      BY <1>6, <2>2, <2>3, Zenon
  <1>9. ASSUME ~(n > M) PROVE Told
    <2>1. n <= M /\ size = 3 + n - M
      BY <1>1, <1>2, <1>7, <1>9
    <2>2. n # 0 /\ headed.writePos + n <= M /\ headed.writePos + n = M - room + size
      BY <1>1, <1>6, <1>7, <2>1
    <2>3. r = AppendBuffer(headed, payload)
      BY <1>4, <1>7, <1>9, Zenon
    <2>4. r.ok = TRUE /\ r.pb.writePos = headed.writePos + n /\ r.pb.pad = headed.pad
      BY <1>5, <1>6, <2>2, <2>3, AppendRoomFacts, Zenon DEF n, M
    <2>5. (n <= M) = TRUE
      BY <2>1
    <2> QED
      BY <1>6, <2>2, <2>4, <2>5, Zenon
  <1>10. Told
    BY <1>8, <1>9, Zenon
  <1> QED
    BY <1>10, Zenon DEF Told, r, header, room, roomy, size, n, M

-----------------------------------------------------------------------------
(* One PacketBuffer and every sequence of calls.  The inductive invariant:  *)
(* until a header overruns the array the positions are ordered.            *)
BufferInv == BufferTypeOK /\ (~overrun => Sound(pb))

(* The inputs have the types the lemmas ask for. *)
LEMMA BufferInputFacts ==
    /\ \A bytes \in Chunks : bytes \in Seq(Byte) /\ Len(bytes) <= MAX_BUF_SIZE
    /\ \A payload \in Payloads : payload \in Seq(Byte)
    /\ \A packetNo \in PacketNos : packetNo \in Uint16
  BY InputAssumption

(* What the two calls that can fail return. *)
LEMMA ReturnFacts ==
    /\ \A b, bytes : AppendBuffer(b, bytes).ok \in BOOLEAN
    /\ \A b, packetNo, payload : SetPacket(b, packetNo, payload).ok \in BOOLEAN
  <1>1. \A ok, b : Return(ok, b).ok = ok
    BY DEF Return
  <1>2. ASSUME NEW b, NEW bytes PROVE AppendBuffer(b, bytes).ok \in BOOLEAN
    <2> DEFINE size  == ToUint16(Len(bytes))
               roomy == MakeRoom(b, size)
               c     == Store(roomy, SubSeq(bytes, 1, size))
    <2>1. \/ AppendBuffer(b, bytes) = Return(FALSE, b)
          \/ AppendBuffer(b, bytes) = Return(FALSE, roomy)
          \/ AppendBuffer(b, bytes) = Return(TRUE, c)
      BY Zenon DEF AppendBuffer
    <2> HIDE DEF roomy, c
    <2> QED
      BY <1>1, <2>1
  <1>3. ASSUME NEW b, NEW packetNo, NEW payload
        PROVE  SetPacket(b, packetNo, payload).ok \in BOOLEAN
    <2> DEFINE size   == ToUint16(GetHeaderSize + Len(payload))
               roomy  == MakeRoom(b, size)
               headed == SetHeader(roomy, size, packetNo)
    <2>1. \/ SetPacket(b, packetNo, payload) = Return(FALSE, roomy)
          \/ SetPacket(b, packetNo, payload) = Return(FALSE, headed)
          \/ SetPacket(b, packetNo, payload) = AppendBuffer(headed, payload)
      BY Zenon DEF SetPacket
    <2> HIDE DEF roomy, headed
    <2> QED
      BY <1>1, <1>2, <2>1
  <1> QED
    BY <1>2, <1>3

(* A packet that fits has a size of four bytes at least, so its header is   *)
(* copied only where there is room for it.                                 *)
LEMMA FitsFacts ==
    ASSUME pb \in PacketBuffers, NEW payload \in Seq(Byte), Fits(payload)
    PROVE  ~HeaderOverruns(payload)
  <1>1. PacketSize(payload) = 4 + Len(payload) /\ Len(payload) \in Nat
    <2>1. Len(payload) \in Nat /\ 4 + Len(payload) \in Uint16
      BY WidthFacts DEF Fits, GetHeaderSize, SizeofUint16, Uint16, MAX_BUF_SIZE
    <2>2. PacketSize(payload) = ToUint16(4 + Len(payload))
      BY DEF PacketSize, GetHeaderSize, SizeofUint16
    <2> QED
      BY <2>1, <2>2, WidthFacts
  <1>2. HeaderRoom(payload) \in Int
    <2> DEFINE roomy == MakeRoom(pb, PacketSize(payload))
    <2>1. roomy \in PacketBuffers
      BY MakeRoomType
    <2> HIDE DEF roomy
    <2>2. MAX_BUF_SIZE - roomy.writePos \in Int
      BY <2>1, WidthFacts DEF PacketBuffers, Uint16
    <2>3. GetRemainSize(roomy) \in Uint16
      BY <2>2, WidthFacts, Zenon DEF GetRemainSize
    <2> QED
      BY <2>3, WidthFacts DEF HeaderRoom, roomy, Uint16
  <1>3. GetHeaderSize = 4
    BY DEF GetHeaderSize, SizeofUint16
  <1> QED
    BY <1>1, <1>2, <1>3 DEF HeaderOverruns

LEMMA BufferInitFacts == BufferInit => BufferInv /\ Queue!Init
  <1> SUFFICES ASSUME BufferInit PROVE BufferInv /\ Queue!Init
    OBVIOUS
  <1>1. PICK pad \in Byte : pb = Constructed(pad)
    BY DEF BufferInit
  <1>2. Sound(pb) /\ Unread(pb) = << >>
    BY <1>1, ConstructedFacts
  <1>3. pb \in PacketBuffers
    BY <1>2 DEF Sound
  <1> QED
    BY <1>2, <1>3 DEF BufferInit, BufferInv, BufferTypeOK, Queue!Init, QueueBytes

(* The two calls that store: as long as no header overruns the array they   *)
(* keep the positions ordered, leave the byte behind the array alone and do *)
(* to the unread bytes what the byte queue does.                            *)
LEMMA AppendStepFacts ==
    ASSUME BufferInv, NEW bytes \in Chunks, DoAppendBuffer(bytes)
    PROVE  BufferInv' /\ (~overrun' => pb'.pad = pb.pad) /\ Queue!Next
  <1>1. pb \in PacketBuffers /\ overrun \in BOOLEAN /\ bytes \in Seq(Byte) /\ Len(bytes) <= MAX_BUF_SIZE
    BY BufferInputFacts DEF BufferInv, BufferTypeOK
  <1>2. /\ pb' = AppendBuffer(pb, bytes).pb
        /\ returned' = AppendBuffer(pb, bytes).ok
        /\ overrun' = overrun
    BY Zenon DEF DoAppendBuffer
  <1>3. pb' \in PacketBuffers /\ returned' \in BOOLEAN /\ overrun' \in BOOLEAN
    BY <1>1, <1>2, AppendBufferType, ReturnFacts
  <1>4. CASE overrun
    <2>1. Queue!Broken
      BY <1>2, <1>3, <1>4 DEF Queue!Broken, QueueBytes
    <2> QED
      BY <1>2, <1>3, <1>4, <2>1 DEF BufferInv, BufferTypeOK, Queue!Next
  <1>5. CASE ~overrun
    <2> DEFINE ok == bytes # << >> /\ GetBufferSize(pb) + Len(bytes) <= MAX_BUF_SIZE
    <2>1. Sound(pb) /\ Len(Unread(pb)) = GetBufferSize(pb) /\ GetBufferSize(pb) \in Nat
      BY <1>5, UnreadFacts DEF BufferInv
    <2>2. /\ returned' = ok
          /\ Sound(pb')
          /\ Unread(pb') = IF ok THEN Unread(pb) \o bytes ELSE Unread(pb)
          /\ pb'.pad = pb.pad
      BY <1>1, <1>2, <2>1, AppendBufferFacts, Zenon
    <2>q. QueueBytes = Unread(pb) /\ QueueBytes' = Unread(pb')
      BY <1>2, <1>5 DEF QueueBytes
    <2>3. Queue!Accepts(bytes) = ok
      <3>1. Len(bytes) <= MAX_BUF_SIZE - GetBufferSize(pb)
              <=> GetBufferSize(pb) + Len(bytes) <= MAX_BUF_SIZE
        BY <1>1, <2>1, WidthFacts
      <3> QED
        BY <2>1, <2>q, <3>1 DEF Queue!Accepts, Queue!Free
    <2>4. Queue!Put(bytes)
      BY <1>2, <1>5, <2>2, <2>3, <2>q, Zenon DEF Queue!Put
    <2> QED
      BY <1>2, <1>3, <2>2, <2>4 DEF BufferInv, BufferTypeOK, Queue!Next
  <1> QED
    BY <1>4, <1>5

LEMMA SetPacketStepFacts ==
    ASSUME BufferInv, NEW packetNo \in PacketNos, NEW payload \in Payloads,
           DoSetPacket(packetNo, payload)
    PROVE  BufferInv' /\ (~overrun' => pb'.pad = pb.pad) /\ Queue!Next
  <1> DEFINE r      == SetPacket(pb, packetNo, payload)
             size   == PacketSize(payload)
             header == PacketHeader(packetNo, payload)
             whole  == PacketOf(packetNo, payload)
             over   == HeaderOverruns(payload)
  <1>1. pb \in PacketBuffers /\ overrun \in BOOLEAN /\ packetNo \in Uint16 /\ payload \in Seq(Byte)
    BY BufferInputFacts DEF BufferInv, BufferTypeOK
  <1>2. /\ pb' = r.pb
        /\ returned' = r.ok
        /\ overrun' = (overrun \/ over)
    BY Zenon DEF DoSetPacket
  <1>3. pb' \in PacketBuffers /\ returned' \in BOOLEAN /\ overrun' \in BOOLEAN
    <2>1. pb' \in PacketBuffers /\ returned' \in BOOLEAN
      BY <1>1, <1>2, SetPacketType, ReturnFacts, Zenon
    <2>2. overrun' \in BOOLEAN
      BY <1>2, Zenon
    <2> QED
      BY <2>1, <2>2
  <1>4. /\ size \in Uint16
        /\ header = BytesOf(size) \o BytesOf(packetNo)
        /\ size = ToUint16(GetHeaderSize + Len(payload))
        /\ over <=> size <= GetRemainSize(MakeRoom(pb, size)) /\ GetRemainSize(MakeRoom(pb, size)) < GetHeaderSize
    <2>1. GetHeaderSize + Len(payload) \in Int
      BY <1>1 DEF GetHeaderSize, SizeofUint16
    <2>2. size = ToUint16(GetHeaderSize + Len(payload)) /\ size \in Uint16
      BY <2>1, WidthFacts, Zenon DEF PacketSize
    <2> QED
      BY <2>2, Zenon DEF PacketHeader, HeaderOverruns, HeaderRoom
  <1>5. /\ Fits(payload) => whole \in {PacketOf(no, p) : no \in PacketNos, p \in {x \in Payloads : Fits(x)}}
        /\ ~Fits(payload) => header \in {PacketHeader(no, p) : no \in PacketNos, p \in {x \in Payloads : ~Fits(x)}}
    OBVIOUS
  <1>6. Fits(payload) => ~over
    BY <1>1, FitsFacts
  <1> HIDE DEF r, size, header, whole, over
  <1>7. CASE overrun
    <2>1. overrun' = TRUE
      BY <1>2, <1>7, Zenon
    <2>2. Queue!Broken
      BY <1>1, <1>3, <1>7, <2>1 DEF Queue!Broken, QueueBytes
    <2> QED
      BY <1>3, <2>1, <2>2 DEF BufferInv, BufferTypeOK, Queue!Next
  <1>8. ASSUME ~overrun
        PROVE  /\ Sound(pb) /\ Unread(pb) \in Seq(Byte)
               /\ Len(Unread(pb)) = GetBufferSize(pb) /\ GetBufferSize(pb) \in Nat
    BY <1>8, UnreadFacts DEF BufferInv
  <1>9. /\ header \in Seq(Byte) /\ Len(header) = 4
        /\ Queue!SizeField(header) = size
    <2> DEFINE A == BytesOf(size)
               B == BytesOf(packetNo)
    <2>1. /\ A \in Seq(Byte) /\ Len(A) = 2 /\ B \in Seq(Byte) /\ Len(B) = 2
          /\ A[1] + ByteBase * A[2] = size
      BY <1>1, <1>4, BytesOfFacts DEF ValueOf
    <2> HIDE DEF A, B
    <2>2. header = A \o B
      BY <1>4 DEF A, B
    <2>3. header \in Seq(Byte) /\ Len(header) = Len(A) + Len(B)
      BY <2>1, <2>2, ConcatBytes, Zenon
    <2>4. \A i \in 1 .. (Len(A) + Len(B)) :
             (A \o B)[i] = IF i <= Len(A) THEN A[i] ELSE B[i - Len(A)]
      BY <2>1, ConcatProperties, Zenon
    <2>5. header[1] = A[1] /\ header[2] = A[2]
      <3>1. \A i \in 1 .. (2 + 2) : header[i] = IF i <= 2 THEN A[i] ELSE B[i - 2]
        BY <2>1, <2>2, <2>4, Zenon
      <3> QED
        BY <3>1
    <2>6. Len(header) = 4 /\ ~(Len(header) < 2)
      BY <2>1, <2>3
    <2> QED
      BY <2>1, <2>3, <2>5, <2>6, Zenon DEF Queue!SizeField
  <1>10. CASE ~overrun /\ Fits(payload)
    <2> DEFINE ok == whole # << >> /\ GetBufferSize(pb) + Len(whole) <= MAX_BUF_SIZE
    <2>1. overrun' = FALSE
      BY <1>2, <1>6, <1>10, Zenon
    <2>2. /\ whole \in Seq(Byte)
          /\ returned' = ok
          /\ Sound(pb')
          /\ Unread(pb') = IF ok THEN Unread(pb) \o whole ELSE Unread(pb)
          /\ pb'.pad = pb.pad
      BY <1>1, <1>2, <1>8, <1>10, SetPacketFacts, Zenon DEF r, whole
    <2>q. QueueBytes = Unread(pb) /\ QueueBytes' = Unread(pb') /\ overrun' = overrun
      BY <1>1, <1>10, <2>1 DEF QueueBytes
    <2>3. Queue!Accepts(whole) = ok
      <3>1. Len(whole) <= MAX_BUF_SIZE - GetBufferSize(pb)
              <=> GetBufferSize(pb) + Len(whole) <= MAX_BUF_SIZE
        BY <1>8, <1>10, <2>2, WidthFacts
      <3> QED
        BY <1>8, <1>10, <2>q, <3>1 DEF Queue!Accepts, Queue!Free
    <2>4. Queue!Put(whole)
      BY <1>10, <2>2, <2>3, <2>q, Zenon DEF Queue!Put
    <2> QED
      BY <1>3, <1>5, <1>10, <2>1, <2>2, <2>4 DEF BufferInv, BufferTypeOK, Queue!Next
  <1>11. CASE ~overrun /\ ~Fits(payload) /\ ~over
    <2> DEFINE taken == GetBufferSize(pb) + size <= MAX_BUF_SIZE
    <2>1. overrun' = FALSE
      BY <1>2, <1>11, Zenon
    <2>2. /\ returned' = FALSE
          /\ Sound(pb')
          /\ Unread(pb') = IF taken THEN Unread(pb) \o header ELSE Unread(pb)
          /\ pb'.pad = pb.pad
          /\ taken => GetBufferSize(pb) + 4 <= MAX_BUF_SIZE
      BY <1>1, <1>2, <1>4, <1>8, <1>11, MisfitFacts, Zenon DEF r
    <2>3. /\ size <= MAX_BUF_SIZE - GetBufferSize(pb) <=> taken
          /\ taken => 4 <= MAX_BUF_SIZE - GetBufferSize(pb)
      <3>1. size \in Nat /\ GetBufferSize(pb) \in Nat /\ MAX_BUF_SIZE \in Nat
        BY <1>4, <1>8, <1>11, WidthFacts DEF Uint16
      <3> QED
        BY <2>2, <3>1
    <2>q. QueueBytes = Unread(pb) /\ QueueBytes' = Unread(pb') /\ overrun' = overrun
      BY <1>1, <1>11, <2>1 DEF QueueBytes
    <2> DEFINE free == MAX_BUF_SIZE - GetBufferSize(pb)
    <2>4. /\ size <= free => 4 <= free /\ Unread(pb') = Unread(pb) \o header
          /\ ~(size <= free) => Unread(pb') = Unread(pb)
      BY <2>2, <2>3, Zenon
    <2>5. Queue!Free = free
      BY <1>8, <1>11, <2>q, Zenon DEF Queue!Free
    <2> HIDE DEF free
    <2>6. Queue!PutHeader(header)
      BY <1>9, <1>11, <2>2, <2>4, <2>5, <2>q, Zenon DEF Queue!PutHeader
    <2> QED
      BY <1>3, <1>5, <1>11, <2>1, <2>2, <2>6 DEF BufferInv, BufferTypeOK, Queue!Next
  <1>12. CASE ~overrun /\ ~Fits(payload) /\ over
    <2>1. overrun' = TRUE
      BY <1>2, <1>12, Zenon
    <2>2. size <= MAX_BUF_SIZE - GetBufferSize(pb) /\ size < 4
      <3> DEFINE room == GetRemainSize(MakeRoom(pb, size))
      <3>1. size <= room /\ room < 4
        BY <1>4, <1>12 DEF GetHeaderSize, SizeofUint16
      <3>2. size \in Nat
        BY <1>4 DEF Uint16
      <3>3. size <= room <=> GetBufferSize(pb) + size <= MAX_BUF_SIZE
        BY <1>8, <1>12, <3>2, MakeRoomFacts
      <3>4. room \in Int
        <4>1. Sound(MakeRoom(pb, size))
          BY <1>8, <1>12, <3>2, MakeRoomFacts
        <4> DEFINE m == MakeRoom(pb, size)
        <4> HIDE DEF m
        <4>2. GetRemainSize(m) = MAX_BUF_SIZE - m.writePos /\ m.writePos \in Int
          BY <4>1, UnreadFacts DEF m, Sound, PacketBuffers, Uint16
        <4> QED
          BY <4>2, WidthFacts DEF m
      <3> HIDE DEF room
      <3> QED
        BY <1>8, <1>12, <3>1, <3>2, <3>3, <3>4, WidthFacts
    <2>3. Queue!Break(header)
      <3>1. QueueBytes = Unread(pb) /\ QueueBytes' = << >>
        BY <1>12, <2>1 DEF QueueBytes
      <3> QED
        BY <1>3, <1>8, <1>9, <1>12, <2>1, <2>2, <3>1 DEF Queue!Break, Queue!Free
    <2> QED
      BY <1>3, <1>5, <1>12, <2>1, <2>3 DEF BufferInv, BufferTypeOK, Queue!Next
  <1> QED
    BY <1>7, <1>10, <1>11, <1>12, Zenon

LEMMA ConsumeStepFacts ==
    ASSUME BufferInv, DoConsumePacket
    PROVE  BufferInv' /\ pb'.pad = pb.pad /\ Queue!Next
  <1>1. /\ pb \in PacketBuffers /\ overrun \in BOOLEAN /\ returned \in BOOLEAN
        /\ pb' = ConsumePacket(pb) /\ overrun' = overrun /\ returned' = returned
    BY DEF BufferInv, BufferTypeOK, DoConsumePacket
  <1>2. pb' \in PacketBuffers /\ pb'.pad = pb.pad
    <2>1. pb' \in PacketBuffers
      BY <1>1, ConsumePacketType
    <2>2. \A r : [pb EXCEPT !.readPos = r].pad = pb.pad
      BY <1>1 DEF PacketBuffers
    <2> QED
      BY <1>1, <2>1, <2>2, Zenon DEF ConsumePacket, TruncateBuffer
  <1>3. CASE overrun
    <2>1. Queue!Broken
      BY <1>1, <1>3 DEF Queue!Broken, QueueBytes
    <2> QED
      BY <1>1, <1>2, <1>3, <2>1 DEF BufferInv, BufferTypeOK, Queue!Next
  <1>4. CASE ~overrun
    <2>1. Sound(pb)
      BY <1>4 DEF BufferInv
    <2>2. QueueBytes = Unread(pb) /\ QueueBytes' = Unread(pb')
      BY <1>1, <1>4 DEF QueueBytes
    <2>3. Sound(pb') /\ Queue!Consume
      BY <1>1, <2>1, <2>2, ConsumePacketFacts, Zenon DEF Queue!Consume, Queue!SizeField
    <2> QED
      BY <1>1, <1>2, <2>3 DEF BufferInv, BufferTypeOK, Queue!Next
  <1> QED
    BY <1>3, <1>4

LEMMA ClearStepFacts ==
    ASSUME BufferInv, DoClear
    PROVE  BufferInv' /\ pb'.pad = pb.pad /\ Queue!Next
  <1>1. pb.pad \in Byte /\ returned \in BOOLEAN
    BY DEF BufferInv, BufferTypeOK, PacketBuffers
  <1>2. pb' = Constructed(pb.pad) /\ overrun' = FALSE /\ returned' = returned
    BY DEF DoClear, Clear
  <1>3. Sound(pb') /\ Unread(pb') = << >> /\ pb'.pad = pb.pad
    BY <1>1, <1>2, ConstructedFacts
  <1>4. pb' \in PacketBuffers
    BY <1>3 DEF Sound
  <1>5. QueueBytes' = << >>
    BY <1>2, <1>3 DEF QueueBytes
  <1>6. BufferInv'
    BY <1>1, <1>2, <1>3, <1>4 DEF BufferInv, BufferTypeOK
  <1>7. Queue!Reset
    BY <1>2, <1>5, Zenon DEF Queue!Reset
  <1> QED
    BY <1>3, <1>6, <1>7 DEF Queue!Next

(* Every call keeps the invariant, touches the byte behind the array only   *)
(* if a header overruns it, and is a step of the byte queue.                *)
LEMMA BufferStepFacts ==
    ASSUME BufferInv, [BufferNext]_bufferVars
    PROVE  BufferInv' /\ (~overrun' => pb'.pad = pb.pad) /\ [Queue!Next]_(Queue!vars)
  <1>1. CASE \E bytes \in Chunks : DoAppendBuffer(bytes)
    BY <1>1, AppendStepFacts, Zenon
  <1>2. CASE \E packetNo \in PacketNos, payload \in Payloads : DoSetPacket(packetNo, payload)
    BY <1>2, SetPacketStepFacts, Zenon
  <1>3. CASE DoConsumePacket
    BY <1>3, ConsumeStepFacts, Zenon
  <1>4. CASE DoClear
    BY <1>4, ClearStepFacts, Zenon
  <1>5. CASE UNCHANGED bufferVars
    BY <1>5 DEF bufferVars, BufferInv, BufferTypeOK, Queue!vars, QueueBytes
  <1> QED
    BY <1>1, <1>2, <1>3, <1>4, <1>5, Zenon DEF BufferNext

(* BufferInv holds after every sequence of calls. *)
LEMMA BufferInvariance == BufferSpec => []BufferInv
  <1>1. BufferInit => BufferInv
    BY BufferInitFacts
  <1>2. BufferInv /\ [BufferNext]_bufferVars => BufferInv'
    BY BufferStepFacts
  <1> QED
    BY <1>1, <1>2, PTL DEF BufferSpec

-----------------------------------------------------------------------------
(* No call takes readPos or writePos out of a uint16, and the case that    *)
(* GetBufferSize logs as an error, writePos before readPos, never arises   *)
(* before a header overruns the array.                                     *)
THEOREM OrderedPositions == BufferSpec => []PositionsOrdered
  <1>1. BufferInv => PositionsOrdered
    BY DEF BufferInv, Sound, PositionsOrdered
  <1> QED
    BY <1>1, BufferInvariance, PTL

(* Whatever is put, SetPacketSize and SetPacketNo leave the array exactly   *)
(* when the wrapped size of a packet passes the test of the room and there  *)
(* is none for its header, and SetPacket then does what OverrunsExactly     *)
(* says.                                                                    *)
THEOREM OverrunsAlwaysExact == BufferSpec => OverrunsExactly
  <1> DEFINE Told(packetNo, payload) ==
                LET room == HeaderRoom(payload)
                IN  /\ pb'.pad = PacketHeader(packetNo, payload)[room + 1]
                    /\ returned' = (Len(payload) <= MAX_BUF_SIZE)
                    /\ returned' => pb'.writePos = MAX_BUF_SIZE - room + PacketSize(payload)
  <1>1. ASSUME BufferInv, NEW packetNo \in PacketNos, NEW payload \in Payloads,
               HeaderOverruns(payload), DoSetPacket(packetNo, payload)
        PROVE  Told(packetNo, payload)
    <2>1. pb \in PacketBuffers /\ packetNo \in Uint16 /\ payload \in Seq(Byte)
      BY <1>1, BufferInputFacts DEF BufferInv, BufferTypeOK
    <2>2. /\ pb' = SetPacket(pb, packetNo, payload).pb
          /\ returned' = SetPacket(pb, packetNo, payload).ok
      BY <1>1, Zenon DEF DoSetPacket
    <2> QED
      BY <1>1, <2>1, <2>2, OverrunFacts, Zenon
      DEF HeaderOverruns, HeaderRoom, PacketSize, PacketHeader
  <1>2. ASSUME BufferInv, [BufferNext]_bufferVars
        PROVE  /\ ~overrun' => pb'.pad = pb.pad
               /\ \A packetNo \in PacketNos, payload \in Payloads :
                     HeaderOverruns(payload) /\ DoSetPacket(packetNo, payload) =>
                        Told(packetNo, payload)
    <2> HIDE DEF Told
    <2> QED
      BY <1>1, <1>2, BufferStepFacts, Zenon
  <1> QED
    BY <1>2, BufferInvariance, PTL DEF BufferSpec, OverrunsExactly

(* The class implements the abstract byte queue: the unread bytes are the   *)
(* queue, whatever compactions happen in between.                           *)
THEOREM QueueRefinement == BufferSpec => ImplementsByteQueue
  <1>1. BufferInit => Queue!Init
    BY BufferInitFacts
  <1>2. BufferInv /\ [BufferNext]_bufferVars => [Queue!Next]_(Queue!vars)
    BY BufferStepFacts
  <1> QED
    BY <1>1, <1>2, BufferInvariance, PTL DEF BufferSpec, ImplementsByteQueue, Queue!Spec
=============================================================================
