--------------------------- MODULE EcoClientProofs ---------------------------
(***************************************************************************)
(* Proofs about the client, for all lines of input, all framed replies and *)
(* every byte width: the lines become messages intact, the replies are     *)
(* taken in order, and the packets made of both leave in order.            *)
(***************************************************************************)
EXTENDS EcoClientSpec, PacketBufferProofs

-----------------------------------------------------------------------------
(* The inductive invariant. *)

(* The histories the other parts speak of. *)
Histories ==
    /\ input \in [typed : Seq(Lines), read : Seq(Seq(Byte))]
    /\ inbound \in [served : Seq(Packets), arrived : Seq(Byte),
                    taken : Seq(Seq(Byte)), clean : BOOLEAN]
    /\ outbound.failed \in BOOLEAN /\ outbound.misfit \in BOOLEAN

(* The lines without their enters. *)
Fronts(lines) == [i \in 1 .. Len(lines) |-> Front(lines[i])]

Legible(lines) == \A i \in 1 .. Len(lines) : Readable(lines[i])

(* What LinesIntact says, of input that can be continued: the lines done    *)
(* are the messages read, and the rest of the lines is in stdin.            *)
Remaining(typed, read, chars) ==
    \E done \in Seq(Lines), more \in Seq(Lines) :
        /\ typed = done \o more
        /\ read = Fronts(done)
        /\ chars = FlattenSeq(more)

Entered ==
    Legible(input.typed) =>
        \/ client.pc = "aborted" /\ IsPrefix(input.read, Fronts(input.typed))
        \/ client.pc # "aborted" /\ Remaining(input.typed, input.read, stdin)

(* What RepliesTakenInOrder says, of a stream that can be continued. *)
Taken ==
    /\ Sound(client.recvBuffer)
    /\ inbound.arrived = FlattenSeq(inbound.taken) \o Unread(client.recvBuffer)
    /\ inbound.clean =>
          Received(inbound.served, inbound.taken, Unread(client.recvBuffer),
                   down, conn # "reset")

(* What PacketsSentInOrder says, of packets that wait in sendBuffer. *)
Sent ==
    ~outbound.misfit =>
        /\ outbound.made \in Seq(Packets) /\ outbound.sent \in Seq(Packets)
        /\ Waiting(client.sendBuffer, outbound.made, Len(outbound.sent))
        /\ PacketsSentInOrder

(* The client connects when it has started. *)
Connecting == client.pc = "start" => conn = "none"

IInv == TypeOK /\ Histories /\ Connecting /\ Entered /\ Taken /\ Sent

-----------------------------------------------------------------------------
(* Lines. *)

(* fgets() returns no more than there is. *)
LEMMA FgetsType ==
    ASSUME NEW chars \in Seq(Byte), NEW end \in BOOLEAN
    PROVE  Fgets(chars, end) \in 0 .. Len(chars)
  <1> DEFINE limit == MAX_BUF_SIZE - 1
             ends  == {i \in 1 .. Len(chars) : i <= limit /\ chars[i] = Newline}
  <1>1. Len(chars) \in Nat /\ limit \in Nat
    BY WidthFacts DEF MAX_BUF_SIZE
  <1>2. ends # {} => Min(ends) \in 1 .. Len(chars)
    <2>1. ends \subseteq Nat /\ ends \subseteq 1 .. Len(chars)
      BY <1>1
    <2> HIDE DEF ends
    <2> QED
      BY <2>1, MinFacts
  <1>3. Fgets(chars, end) = IF ends # {} THEN Min(ends)
                            ELSE IF Len(chars) >= limit THEN limit
                            ELSE IF end THEN Len(chars) ELSE 0
    BY Zenon DEF Fgets
  <1> HIDE DEF ends, limit
  <1> QED
    BY <1>1, <1>2, <1>3

(* Of lines that fit, fgets() returns the first. *)
LEMMA FgetsLine ==
    ASSUME NEW line \in Lines, Len(line) < MAX_BUF_SIZE, NEW rest \in Seq(Byte), NEW end
    PROVE  Fgets(line \o rest, end) = Len(line)
  <1> DEFINE chars == line \o rest
             limit == MAX_BUF_SIZE - 1
             ends  == {i \in 1 .. Len(chars) : i <= limit /\ chars[i] = Newline}
  <1>1. /\ line \in Seq(Byte) /\ line # << >>
        /\ \A i \in 1 .. Len(line) : line[i] = Newline <=> i = Len(line)
    BY ClientAssumption
  <1>2. /\ Len(line) \in Nat /\ Len(line) >= 1 /\ Len(rest) \in Nat
        /\ MAX_BUF_SIZE \in Nat
    BY <1>1, WidthFacts
  <1>3. /\ Len(chars) = Len(line) + Len(rest)
        /\ \A i \in 1 .. Len(line) : chars[i] = line[i]
    BY <1>1, ConcatBytes
  <1> HIDE DEF chars
  <1>4. Len(line) \in ends
    BY <1>1, <1>2, <1>3
  <1>5. \A i \in ends : i >= Len(line)
    <2> SUFFICES ASSUME NEW i \in ends, i < Len(line) PROVE FALSE
      BY <1>2, <1>3
    <2>1. i \in 1 .. Len(line) /\ i # Len(line) /\ chars[i] = Newline
      BY <1>2, <1>3
    <2> QED
      BY <1>1, <1>3, <2>1
  <1>6. ends \subseteq Nat
    BY <1>3
  <1>7. Fgets(chars, end) = IF ends # {} THEN Min(ends)
                            ELSE IF Len(chars) >= limit THEN limit
                            ELSE IF end THEN Len(chars) ELSE 0
    BY Zenon DEF Fgets
  <1> HIDE DEF ends
  <1>8. Min(ends) \in ends /\ Min(ends) <= Len(line)
    BY <1>4, <1>6, MinFacts
  <1>9. Min(ends) = Len(line)
    <2> DEFINE m == Min(ends)
    <2>1. m \in Nat /\ m >= Len(line) /\ m <= Len(line)
      BY <1>5, <1>6, <1>8
    <2> HIDE DEF m
    <2>2. m = Len(line)
      BY <1>2, <2>1
    <2> QED
      BY <2>2 DEF m
  <1> QED
    BY <1>4, <1>7, <1>9 DEF chars

(* fgets() waits when nothing is there. *)
LEMMA FgetsNothing ==
    ASSUME NEW end
    PROVE  Fgets(<< >>, end) = 0
  <1> DEFINE limit == MAX_BUF_SIZE - 1
             ends  == {i \in 1 .. Len(<< >>) : i <= limit /\ << >>[i] = Newline}
  <1>1. Len(<< >>) = 0 /\ limit > 0 /\ limit \in Nat
    BY WidthFacts DEF MAX_BUF_SIZE
  <1>2. ends = {}
    BY <1>1
  <1>3. Fgets(<< >>, end) = IF ends # {} THEN Min(ends)
                            ELSE IF Len(<< >>) >= limit THEN limit
                            ELSE IF end THEN Len(<< >>) ELSE 0
    BY Zenon DEF Fgets
  <1> HIDE DEF ends, limit
  <1> QED
    BY <1>1, <1>2, <1>3

(* Of a readable line only the enter is removed. *)
LEMMA RemoveEnterLine ==
    ASSUME NEW line \in Lines, Readable(line), ~InputThrows(line)
    PROVE  RemoveEnter(line) = Front(line)
  <1> DEFINE nuls == {i \in 1 .. Len(line) : line[i] = NUL}
  <1>1. line \in Seq(Byte) /\ Len(line) \in Nat
    BY ClientAssumption
  <1>2. CString(line) = IF nuls = {} THEN line ELSE SubSeq(line, 1, Min(nuls) - 1)
    BY Zenon DEF CString
  <1>3. nuls \subseteq {1}
    BY <1>1 DEF Readable
  <1> HIDE DEF nuls
  <1>4. CASE nuls = {}
    BY <1>2, <1>4 DEF RemoveEnter, Front
  <1>5. CASE nuls # {}
    <2>1. Min(nuls) = 1
      <3>1. nuls \subseteq Nat
        BY <1>3
      <3> QED
        BY <1>3, <1>5, <3>1, MinFacts
    <2>2. SubSeq(line, 1, Min(nuls) - 1) = << >>
      BY <1>1, <2>1
    <2> QED
      BY <1>2, <1>5, <2>2 DEF InputThrows
  <1> QED
    BY <1>4, <1>5

LEMMA LinesType == Lines \subseteq Seq(Byte) /\ Seq(Lines) \subseteq Seq(Seq(Byte))
  <1>1. Lines \subseteq Seq(Byte)
    BY ClientAssumption
  <1> QED
    BY <1>1, SeqMonotonic

(* A sequence is a prefix of one that is as long and agrees with it. *)
LEMMA PrefixPointwise ==
    ASSUME NEW S, NEW s \in Seq(S), NEW t \in Seq(S)
    PROVE  IsPrefix(s, t) <=> Len(s) <= Len(t) /\ \A i \in 1 .. Len(s) : s[i] = t[i]
  <1> DEFINE n == Len(s)
  <1>1. n \in Nat /\ Len(t) \in Nat /\ n \in 0 .. n
    OBVIOUS
  <1>2. SubSeq(s, 1, n) = s
    BY SubSeqFull
  <1>3. IsPrefix(s, t) <=> n <= Len(t) /\ s = SubSeq(t, 1, n)
    BY <1>2, Zenon DEF IsPrefix
  <1>4. ASSUME n <= Len(t)
        PROVE  s = SubSeq(t, 1, n) <=> \A i \in 1 .. n : s[i] = t[i]
    <2>1. n \in 0 .. Len(t)
      BY <1>1, <1>4
    <2>2. /\ SubSeq(t, 1, n) \in Seq(S) /\ Len(SubSeq(t, 1, n)) = n
          /\ \A i \in 1 .. n : SubSeq(t, 1, n)[i] = t[i]
      BY <2>1, SplitFacts
    <2>3. ASSUME \A i \in 1 .. n : s[i] = t[i] PROVE s = SubSeq(t, 1, n)
      BY <2>2, <2>3, SeqEqual
    <2>4. ASSUME s = SubSeq(t, 1, n) PROVE \A i \in 1 .. n : s[i] = t[i]
      BY <2>2, <2>4, Zenon
    <2> QED
      BY <2>3, <2>4
  <1> QED
    BY <1>3, <1>4, Zenon

LEMMA FrontsType ==
    ASSUME NEW lines \in Seq(Lines)
    PROVE  /\ Fronts(lines) \in Seq(Seq(Byte))
           /\ Len(Fronts(lines)) = Len(lines) /\ Len(lines) \in Nat
           /\ \A i \in 1 .. Len(lines) : Fronts(lines)[i] = Front(lines[i])
  <1>1. ASSUME NEW i \in 1 .. Len(lines) PROVE Front(lines[i]) \in Seq(Byte)
    <2> DEFINE line == lines[i]
    <2>1. line \in Seq(Byte) /\ line # << >>
      BY ClientAssumption
    <2> HIDE DEF line
    <2>2. Len(line) - 1 \in 0 .. Len(line)
      BY <2>1
    <2>3. SubSeq(line, 1, Len(line) - 1) \in Seq(Byte)
      BY <2>1, <2>2, SplitFacts
    <2> QED
      BY <2>3 DEF line, Front
  <1> QED
    BY <1>1 DEF Fronts

LEMMA FrontsAppend ==
    ASSUME NEW lines \in Seq(Lines), NEW line \in Lines
    PROVE  /\ Append(lines, line) \in Seq(Lines)
           /\ Fronts(Append(lines, line)) = Append(Fronts(lines), Front(line))
           /\ Front(line) \in Seq(Byte)
  <1> DEFINE s == Append(lines, line)
             a == Fronts(s)
             b == Append(Fronts(lines), Front(line))
             n == Len(lines)
  <1>1. /\ s \in Seq(Lines) /\ Len(s) = n + 1 /\ n \in Nat
        /\ \A i \in 1 .. n : s[i] = lines[i]
        /\ s[n + 1] = line
    BY AppendProperties
  <1> HIDE DEF s
  <1>2. /\ a \in Seq(Seq(Byte)) /\ Len(a) = n + 1
        /\ \A i \in 1 .. Len(s) : a[i] = Front(s[i])
    BY <1>1, FrontsType, Zenon
  <1>3. Front(line) \in Seq(Byte)
    <2>1. n + 1 \in 1 .. Len(s) /\ n + 1 \in 1 .. Len(a)
      BY <1>1, <1>2
    <2>2. a[n + 1] \in Seq(Byte)
      BY <1>2, <2>1
    <2> QED
      BY <1>1, <1>2, <2>1, <2>2, Zenon
  <1>4. /\ b \in Seq(Seq(Byte)) /\ Len(b) = n + 1
        /\ \A i \in 1 .. n : b[i] = Front(lines[i])
        /\ b[n + 1] = Front(line)
    BY <1>3, FrontsType, AppendProperties
  <1> HIDE DEF a, b
  <1>5. ASSUME NEW i \in 1 .. (n + 1) PROVE a[i] = b[i]
    <2>1. i \in 1 .. Len(s) /\ (i \in 1 .. n \/ i = n + 1)
      BY <1>1
    <2> QED
      BY <1>1, <1>2, <1>4, <2>1, Zenon
  <1>6. a = b
    BY <1>1, <1>2, <1>4, <1>5, SeqEqual
  <1> QED
    BY <1>1, <1>3, <1>6 DEF s, a, b

LEMMA RemainingTypes ==
    ASSUME NEW typed \in Seq(Lines), NEW read, NEW chars \in Seq(Byte), NEW line \in Lines,
           Remaining(typed, read, chars)
    PROVE  Remaining(Append(typed, line), read, chars \o line)
  <1>1. PICK done \in Seq(Lines), more \in Seq(Lines) :
           /\ typed = done \o more
           /\ read = Fronts(done)
           /\ chars = FlattenSeq(more)
    BY DEF Remaining
  <1>2. /\ done \in Seq(Seq(Byte)) /\ more \in Seq(Seq(Byte)) /\ line \in Seq(Byte)
        /\ Append(more, line) \in Seq(Lines)
    <2>1. Append(more, line) \in Seq(Lines)
      BY AppendProperties
    <2> QED
      BY <2>1, LinesType
  <1>3. Append(typed, line) = done \o Append(more, line)
    BY <1>1, <1>2, ConcatAppendBytes, Zenon
  <1>4. chars \o line = FlattenSeq(Append(more, line))
    BY <1>1, <1>2, FlattenAppend
  <1> QED
    BY <1>1, <1>2, <1>3, <1>4, Zenon DEF Remaining

LEMMA RemainingFacts ==
    ASSUME NEW typed \in Seq(Lines), NEW read, NEW chars, Remaining(typed, read, chars)
    PROVE  IsPrefix(read, Fronts(typed))
  <1>1. PICK done \in Seq(Lines), more \in Seq(Lines) :
           typed = done \o more /\ read = Fronts(done)
    BY DEF Remaining
  <1> DEFINE n == Len(done)
  <1>2. /\ Len(typed) = n + Len(more) /\ n \in Nat /\ Len(more) \in Nat
        /\ \A i \in 1 .. n : typed[i] = done[i]
    <2>1. /\ Len(done \o more) = Len(done) + Len(more)
          /\ \A i \in 1 .. (Len(done) + Len(more)) :
                (done \o more)[i] = IF i <= Len(done) THEN done[i] ELSE more[i - Len(done)]
      BY ConcatProperties
    <2> QED
      BY <1>1, <2>1
  <1>3. /\ read \in Seq(Seq(Byte)) /\ Len(read) = n
        /\ \A i \in 1 .. n : read[i] = Front(done[i])
    BY <1>1, FrontsType
  <1>4. /\ Fronts(typed) \in Seq(Seq(Byte)) /\ Len(Fronts(typed)) = Len(typed)
        /\ \A i \in 1 .. Len(typed) : Fronts(typed)[i] = Front(typed[i])
    BY FrontsType
  <1> DEFINE f == Fronts(typed)
  <1> HIDE DEF f, n
  <1>5. Len(read) <= Len(f) /\ \A i \in 1 .. Len(read) : read[i] = f[i]
    <2>1. Len(read) <= Len(f)
      BY <1>2, <1>3, <1>4 DEF f
    <2>2. ASSUME NEW i \in 1 .. n PROVE read[i] = f[i]
      <3>1. i \in 1 .. Len(typed)
        BY <1>2
      <3> QED
        BY <1>2, <1>3, <1>4, <3>1, Zenon DEF f
    <2> QED
      BY <1>3, <2>1, <2>2
  <1>6. f \in Seq(Seq(Byte))
    BY <1>4 DEF f
  <1> QED
    BY <1>3, <1>5, <1>6, PrefixPointwise DEF f

(* fgets() takes a whole line, and its message is the next one. *)
LEMMA RemainingTake ==
    ASSUME NEW typed \in Seq(Lines), NEW read \in Seq(Seq(Byte)), NEW chars \in Seq(Byte),
           NEW end, Remaining(typed, read, chars), Legible(typed),
           NEW n, n = Fgets(chars, end), n > 0,
           ~InputThrows(SubSeq(chars, 1, n))
    PROVE  Remaining(typed, Append(read, RemoveEnter(SubSeq(chars, 1, n))),
                     SubSeq(chars, n + 1, Len(chars)))
  <1>1. PICK done \in Seq(Lines), more \in Seq(Lines) :
           /\ typed = done \o more
           /\ read = Fronts(done)
           /\ chars = FlattenSeq(more)
    BY DEF Remaining
  <1>2. more # << >>
    <2> SUFFICES ASSUME more = << >> PROVE FALSE
      OBVIOUS
    <2>1. n = 0
      BY <1>1, FlattenEmpty, FgetsNothing, Zenon
    <2> QED
      BY <2>1
  <1> DEFINE h == Head(more)
             t == Tail(more)
             f == FlattenSeq(t)
  <1>3. /\ h \in Lines /\ t \in Seq(Lines) /\ more = <<h>> \o t
        /\ h = more[1] /\ Len(more) >= 1 /\ Len(more) \in Nat
    BY <1>2
  <1>4. f \in Seq(Byte) /\ chars = h \o f
    <2>1. more \in Seq(Seq(Byte)) /\ t \in Seq(Seq(Byte))
      BY <1>3, LinesType
    <2>2. f \in Seq(Byte)
      BY <2>1, FlattenType
    <2> QED
      BY <1>1, <1>2, <2>1, <2>2, FlattenHead
  <1>5. Readable(h)
    <2>1. /\ Len(typed) = Len(done) + Len(more) /\ Len(done) \in Nat
          /\ typed[Len(done) + 1] = more[1]
      <3>1. /\ Len(done \o more) = Len(done) + Len(more)
            /\ \A i \in 1 .. (Len(done) + Len(more)) :
                  (done \o more)[i] = IF i <= Len(done) THEN done[i] ELSE more[i - Len(done)]
        BY ConcatProperties
      <3> QED
        BY <1>1, <1>3, <3>1
    <2>2. Len(done) + 1 \in 1 .. Len(typed)
      BY <1>3, <2>1
    <2> QED
      BY <1>3, <2>1, <2>2, Zenon DEF Legible
  <1> HIDE DEF h, t, f
  <1>6. h \in Seq(Byte) /\ Len(h) \in Nat
    BY <1>3, ClientAssumption
  <1>7. n = Len(h)
    BY <1>3, <1>4, <1>5, FgetsLine, Zenon DEF Readable
  <1>8. SubSeq(chars, 1, n) = h /\ SubSeq(chars, n + 1, Len(chars)) = f
    <2>1. Len(chars) = Len(h) + Len(f) /\ Len(f) \in Nat
      BY <1>4, <1>6, ConcatBytes
    <2>2. n \in 0 .. Len(chars)
      BY <1>6, <1>7, <2>1
    <2> DEFINE p == SubSeq(chars, 1, n)
               r == SubSeq(chars, n + 1, Len(chars))
    <2>3. p \in Seq(Byte) /\ Len(p) = n /\ r \in Seq(Byte) /\ chars = p \o r
      BY <2>2, SplitFacts
    <2> HIDE DEF p, r
    <2>4. p \o r = h \o f /\ Len(p) = Len(h)
      BY <1>4, <1>7, <2>3, Zenon
    <2>5. p = h /\ r = f
      BY <1>4, <1>6, <2>3, <2>4, ConcatCancel
    <2> QED
      BY <2>5 DEF p, r
  <1>9. RemoveEnter(h) = Front(h)
    BY <1>3, <1>5, <1>8, RemoveEnterLine, Zenon
  <1> DEFINE new == Append(done, h)
  <1>10. new \in Seq(Lines) /\ Append(read, Front(h)) = Fronts(new)
    BY <1>1, <1>3, FrontsAppend, Zenon
  <1>11. typed = new \o t
    <2>1. done \in Seq(Seq(Byte)) /\ t \in Seq(Seq(Byte))
      BY <1>3, LinesType
    <2>2. done \o (<<h>> \o t) = Append(done, h) \o t
      BY <1>6, <2>1, ConcatAppendBytes, Zenon
    <2> QED
      BY <1>1, <1>3, <2>2, Zenon
  <1> HIDE DEF new
  <1> QED
    BY <1>3, <1>8, <1>9, <1>10, <1>11, Zenon DEF Remaining, f

-----------------------------------------------------------------------------
(* Initially. *)

LEMMA InitIInv == Init => IInv
  <1> SUFFICES ASSUME Init PROVE IInv
    OBVIOUS
  <1>1. PICK pad \in Junk : client = NewClient(pad)
    BY DEF Init
  <1>2. Sound(Constructed(pad)) /\ Unread(Constructed(pad)) = << >>
    <2>1. pad \in Byte
      BY ClientAssumption
    <2> QED
      BY <2>1, ConstructedFacts, Zenon
  <1>3. /\ client.pc = "start"
        /\ client.sendBuffer = Constructed(pad) /\ client.recvBuffer = Constructed(pad)
    BY <1>1 DEF NewClient
  <1>4. /\ stdin = << >> /\ eof = FALSE /\ conn = "none" /\ down = << >>
        /\ input = [typed |-> << >>, read |-> << >>]
        /\ inbound = [served |-> << >>, arrived |-> << >>, taken |-> << >>, clean |-> TRUE]
        /\ outbound.made = << >> /\ outbound.sent = << >>
        /\ outbound.failed = FALSE /\ outbound.misfit = FALSE
    BY DEF Init
  <1>5. /\ input.typed = << >> /\ input.read = << >>
        /\ inbound.served = << >> /\ inbound.arrived = << >> /\ inbound.taken = << >>
    BY <1>4
  <1>6. TypeOK
    <2>1. Constructed(pad) \in PacketBuffers
      BY <1>2 DEF Sound
    <2>2. client \in Clients
      BY <1>1, <2>1 DEF NewClient, Clients, ClientPCs
    <2>3. << >> \in Seq(Byte) /\ FALSE \in BOOLEAN
      OBVIOUS
    <2> QED
      BY <1>4, <2>2, <2>3, Zenon DEF TypeOK
  <1>7. Histories /\ Connecting
    <2>1. /\ << >> \in Seq(Lines) /\ << >> \in Seq(Packets)
          /\ << >> \in Seq(Byte) /\ << >> \in Seq(Seq(Byte))
      OBVIOUS
    <2>2. input \in [typed : Seq(Lines), read : Seq(Seq(Byte))]
      BY <1>4, <2>1
    <2>3. inbound \in [served : Seq(Packets), arrived : Seq(Byte),
                       taken : Seq(Seq(Byte)), clean : BOOLEAN]
      BY <1>4, <2>1
    <2> QED
      BY <1>4, <2>2, <2>3 DEF Histories, Connecting
  <1>8. Entered
    <2>1. << >> \in Seq(Lines) /\ << >> \o << >> = << >> /\ Fronts(<< >>) = << >>
      BY DEF Fronts
    <2>2. Remaining(<< >>, << >>, << >>)
      BY <2>1, FlattenEmpty, Zenon DEF Remaining
    <2>3. client.pc # "aborted"
      BY <1>3
    <2> QED
      BY <1>4, <1>5, <2>2, <2>3, Zenon DEF Entered
  <1>9. Taken
    <2>1. << >> \in Seq(Packets) /\ << >> \o << >> = << >>
      OBVIOUS
    <2>2. Received(<< >>, << >>, << >>, << >>, conn # "reset")
      BY <2>1, ReceivedStart, FlattenEmpty, Zenon
    <2> QED
      BY <1>2, <1>3, <1>4, <1>5, <2>1, <2>2, FlattenEmpty, Zenon DEF Taken
  <1>10. Sent
    <2>1. /\ << >> \in Seq(Packets) /\ Len(<< >>) = 0 /\ 0 \in 0 .. 0
          /\ SubSeq(<< >>, 0 + 1, 0) = << >>
      OBVIOUS
    <2>2. Waiting(client.sendBuffer, outbound.made, Len(outbound.sent))
      BY <1>2, <1>3, <1>4, <2>1, FlattenEmpty, Zenon DEF Waiting
    <2>3. IsPrefix(outbound.sent, outbound.made)
      BY <1>4, <2>1 DEF IsPrefix
    <2>4. PacketsSentInOrder
      BY <1>2, <1>3, <1>4, <2>2, <2>3, Zenon DEF PacketsSentInOrder, Waiting
    <2> QED
      BY <1>4, <2>1, <2>2, <2>4, Zenon DEF Sent
  <1> QED
    BY <1>6, <1>7, <1>8, <1>9, <1>10 DEF IInv

-----------------------------------------------------------------------------
(* What a step leaves alone. *)

LEMMA EnteredAlone ==
    ASSUME Entered, input' = input, stdin' = stdin,
           client'.pc = "aborted" <=> client.pc = "aborted"
    PROVE  Entered'
  BY DEF Entered

LEMMA TakenAlone ==
    ASSUME Taken, client'.recvBuffer = client.recvBuffer, inbound' = inbound,
           down' = down, conn' = "reset" <=> conn = "reset"
    PROVE  Taken'
  <1>1. (conn' # "reset") = (conn # "reset")
    OBVIOUS
  <1> QED
    BY <1>1, Zenon DEF Taken

LEMMA SentAlone ==
    ASSUME Sent, client'.sendBuffer = client.sendBuffer, outbound' = outbound
    PROVE  Sent'
  BY Zenon DEF Sent, PacketsSentInOrder

-----------------------------------------------------------------------------
(* The user and the server. *)

LEMMA TypesKeeps ==
    ASSUME IInv, NEW line \in Lines, Types(line)
    PROVE  IInv'
  <1>1. /\ stdin' = stdin \o line
        /\ input' = [input EXCEPT !.typed = Append(@, line)]
        /\ client' = client /\ eof' = eof /\ conn' = conn /\ down' = down
        /\ inbound' = inbound /\ outbound' = outbound
    BY DEF Types
  <1>2. /\ input \in [typed : Seq(Lines), read : Seq(Seq(Byte))]
        /\ input.typed \in Seq(Lines) /\ input.read \in Seq(Seq(Byte))
        /\ stdin \in Seq(Byte) /\ line \in Seq(Byte)
    BY ClientAssumption DEF IInv, TypeOK, Histories
  <1> DEFINE typed == input.typed
             all   == Append(typed, line)
  <1>3. /\ all \in Seq(Lines) /\ Len(all) = Len(typed) + 1 /\ Len(typed) \in Nat
        /\ \A i \in 1 .. Len(typed) : all[i] = typed[i]
    BY <1>2, AppendProperties
  <1>4. input' \in [typed : Seq(Lines), read : Seq(Seq(Byte))]
        /\ input'.typed = all /\ input'.read = input.read
    BY <1>1, <1>2, <1>3
  <1>5. TypeOK'
    BY <1>1, <1>2, ConcatBytes DEF IInv, TypeOK
  <1>6. Histories' /\ Connecting'
    BY <1>1, <1>4 DEF IInv, Histories, Connecting
  <1> HIDE DEF typed, all
  <1>7. Entered'
    <2> SUFFICES ASSUME Legible(all)
                 PROVE  \/ client.pc = "aborted" /\ IsPrefix(input.read, Fronts(all))
                        \/ client.pc # "aborted" /\ Remaining(all, input.read, stdin')
      BY <1>1, <1>4, Zenon DEF Entered
    <2>1. Legible(typed)
      BY <1>3 DEF Legible
    <2>2. CASE client.pc = "aborted"
      <3>1. IsPrefix(input.read, Fronts(typed))
        BY <2>1, <2>2 DEF IInv, Entered, typed
      <3>2. /\ Fronts(typed) \in Seq(Seq(Byte)) /\ Front(line) \in Seq(Byte)
            /\ Fronts(all) = Append(Fronts(typed), Front(line))
        BY <1>2, FrontsType, FrontsAppend DEF typed, all
      <3> DEFINE f == Fronts(typed)
                 g == Append(f, Front(line))
      <3>3. /\ f \in Seq(Seq(Byte)) /\ g \in Seq(Seq(Byte)) /\ Len(g) = Len(f) + 1 /\ Len(f) \in Nat
            /\ \A i \in 1 .. Len(f) : g[i] = f[i]
        BY <3>2, AppendProperties
      <3> HIDE DEF f, g
      <3>4. /\ Len(input.read) <= Len(f) /\ Len(input.read) \in Nat
            /\ \A i \in 1 .. Len(input.read) : input.read[i] = f[i]
        BY <1>2, <3>1, <3>3, PrefixPointwise DEF f
      <3>5. Len(input.read) <= Len(g) /\ \A i \in 1 .. Len(input.read) : input.read[i] = g[i]
        <4>1. Len(input.read) <= Len(g)
          BY <3>3, <3>4
        <4>2. \A i \in 1 .. Len(input.read) : i \in 1 .. Len(f)
          BY <3>3, <3>4
        <4> QED
          BY <3>3, <3>4, <4>1, <4>2, Zenon
      <3>6. IsPrefix(input.read, g)
        BY <1>2, <3>3, <3>5, PrefixPointwise
      <3> QED
        BY <2>2, <3>2, <3>6, Zenon DEF f, g
    <2>3. CASE client.pc # "aborted"
      <3>1. Remaining(typed, input.read, stdin)
        BY <2>1, <2>3 DEF IInv, Entered, typed
      <3>2. Remaining(all, input.read, stdin \o line)
        BY <1>2, <3>1, RemainingTypes, Zenon DEF typed, all
      <3> QED
        BY <1>1, <2>3, <3>2, Zenon
    <2> QED
      BY <2>2, <2>3
  <1>8. Taken' /\ Sent'
    BY <1>1, TakenAlone, SentAlone DEF IInv
  <1> QED
    BY <1>5, <1>6, <1>7, <1>8 DEF IInv

LEMMA EndsInputKeeps ==
    ASSUME IInv, EndsInput
    PROVE  IInv'
  <1>1. /\ eof' = TRUE /\ client' = client /\ stdin' = stdin /\ conn' = conn /\ down' = down
        /\ input' = input /\ inbound' = inbound /\ outbound' = outbound
    BY DEF EndsInput
  <1>2. TypeOK' /\ Histories' /\ Connecting'
    BY <1>1 DEF IInv, TypeOK, Histories, Connecting
  <1>3. Entered' /\ Taken' /\ Sent'
    BY <1>1, EnteredAlone, TakenAlone, SentAlone DEF IInv
  <1> QED
    BY <1>2, <1>3 DEF IInv

LEMMA ServerSendsKeeps ==
    ASSUME IInv, NEW packet \in Replies, ServerSends(packet)
    PROVE  IInv'
  <1>1. /\ conn = "open" /\ down' = down \o packet
        /\ inbound' = [inbound EXCEPT !.served = Append(@, packet)]
        /\ client' = client /\ stdin' = stdin /\ eof' = eof /\ conn' = conn
        /\ input' = input /\ outbound' = outbound
    BY DEF ServerSends
  <1>2. /\ packet \in Packets /\ packet \in Seq(Byte)
        /\ down \in Seq(Byte) /\ down \o packet \in Seq(Byte)
    <2>1. packet \in Packets /\ packet \in Seq(Byte) /\ down \in Seq(Byte)
      BY ClientAssumption DEF Packets, IInv, TypeOK
    <2> QED
      BY <2>1, ConcatBytes
  <1>3. inbound \in [served : Seq(Packets), arrived : Seq(Byte),
                     taken : Seq(Seq(Byte)), clean : BOOLEAN]
    BY DEF IInv, Histories
  <1>4. /\ inbound' \in [served : Seq(Packets), arrived : Seq(Byte),
                          taken : Seq(Seq(Byte)), clean : BOOLEAN]
        /\ inbound'.served = Append(inbound.served, packet)
        /\ inbound'.arrived = inbound.arrived /\ inbound'.taken = inbound.taken
        /\ inbound'.clean = inbound.clean
    <2> DEFINE s == Append(inbound.served, packet)
    <2>1. s \in Seq(Packets)
      BY <1>2, <1>3, AppendProperties
    <2>2. inbound' = [inbound EXCEPT !.served = s]
      BY <1>1
    <2> HIDE DEF s
    <2>3. /\ inbound' \in [served : Seq(Packets), arrived : Seq(Byte),
                            taken : Seq(Seq(Byte)), clean : BOOLEAN]
          /\ inbound'.served = s
          /\ inbound'.arrived = inbound.arrived /\ inbound'.taken = inbound.taken
          /\ inbound'.clean = inbound.clean
      BY <1>3, <2>1, <2>2
    <2> QED
      BY <2>3, Zenon DEF s
  <1>5. TypeOK' /\ Histories' /\ Connecting'
    BY <1>1, <1>2, <1>4 DEF IInv, TypeOK, Histories, Connecting
  <1>6. Entered' /\ Sent'
    BY <1>1, EnteredAlone, SentAlone DEF IInv
  <1>7. Taken'
    <2> DEFINE u == Unread(client.recvBuffer)
    <2>1. Sound(client.recvBuffer) /\ inbound.arrived = FlattenSeq(inbound.taken) \o u
      BY DEF IInv, Taken
    <2>2. u \in Seq(Byte) /\ inbound.served \in Seq(Packets) /\ inbound.taken \in Seq(Seq(Byte))
      BY <1>3, <2>1, UnreadFacts
    <2>3. (conn # "reset") = TRUE
      BY <1>1
    <2>4. inbound.clean => Received(inbound.served, inbound.taken, u, down, TRUE)
      BY <2>3, Zenon DEF IInv, Taken
    <2> HIDE DEF u
    <2>5. inbound.clean => Received(Append(inbound.served, packet), inbound.taken, u,
                                    down \o packet, TRUE)
      BY <1>2, <2>2, <2>4, ReceivedSend, Zenon
    <2> QED
      BY <1>1, <1>4, <2>1, <2>3, <2>5, Zenon DEF Taken, u
  <1> QED
    BY <1>5, <1>6, <1>7 DEF IInv

LEMMA ServerClosesKeeps ==
    ASSUME IInv, ServerCloses
    PROVE  IInv'
  <1>1. /\ conn = "open" /\ conn' = "closed"
        /\ client' = client /\ stdin' = stdin /\ eof' = eof /\ down' = down
        /\ input' = input /\ inbound' = inbound /\ outbound' = outbound
    BY DEF ServerCloses
  <1>2. TypeOK' /\ Histories' /\ Connecting'
    BY <1>1 DEF IInv, TypeOK, Histories, Connecting
  <1>3. Entered' /\ Taken' /\ Sent'
    BY <1>1, EnteredAlone, TakenAlone, SentAlone DEF IInv
  <1> QED
    BY <1>2, <1>3 DEF IInv

LEMMA ServerResetsKeeps ==
    ASSUME IInv, ServerResets
    PROVE  IInv'
  <1>1. /\ conn \in {"open", "closed"} /\ conn' = "reset" /\ down' = << >>
        /\ client' = client /\ stdin' = stdin /\ eof' = eof
        /\ input' = input /\ inbound' = inbound /\ outbound' = outbound
    BY DEF ServerResets
  <1>2. TypeOK' /\ Histories' /\ Connecting'
    BY <1>1 DEF IInv, TypeOK, Histories, Connecting
  <1>3. Entered' /\ Sent'
    BY <1>1, EnteredAlone, SentAlone DEF IInv
  <1>4. Taken'
    <2> DEFINE u == Unread(client.recvBuffer)
    <2>1. Sound(client.recvBuffer) /\ inbound.arrived = FlattenSeq(inbound.taken) \o u
      BY DEF IInv, Taken
    <2>2. u \in Seq(Byte) /\ down \in Seq(Byte)
      BY <2>1, UnreadFacts DEF IInv, TypeOK
    <2>3. inbound.clean => Received(inbound.served, inbound.taken, u, down, conn # "reset")
      BY Zenon DEF IInv, Taken
    <2> HIDE DEF u
    <2>4. inbound.clean => Received(inbound.served, inbound.taken, u, << >>, FALSE)
      BY <2>2, <2>3, ReceivedCut, Zenon
    <2>5. (conn' # "reset") = FALSE
      BY <1>1
    <2> QED
      BY <1>1, <2>1, <2>4, <2>5, Zenon DEF Taken, u
  <1> QED
    BY <1>2, <1>3, <1>4 DEF IInv

-----------------------------------------------------------------------------
(* The client's other steps than those that take input or packets. *)

LEMMA MovesKeeps ==
    ASSUME IInv, StartupFails \/ Starts \/ RecvEnds
    PROVE  IInv'
  <1>1. \E to \in {"exit", "input"} : client' = [client EXCEPT !.pc = to]
    BY DEF StartupFails, Starts, RecvEnds
  <1>2. /\ client.pc \in {"start", "recv"}
        /\ conn' = "reset" <=> conn = "reset"
        /\ conn' \in {"none", "open", "closed", "reset"}
        /\ stdin' = stdin /\ eof' = eof /\ down' = down
        /\ input' = input /\ inbound' = inbound /\ outbound' = outbound
    BY DEF StartupFails, Starts, RecvEnds, IInv, TypeOK, Connecting
  <1>3. client \in Clients
    BY DEF IInv, TypeOK
  <1>4. /\ client' \in Clients /\ client'.pc \in {"exit", "input"}
        /\ client'.sendBuffer = client.sendBuffer /\ client'.recvBuffer = client.recvBuffer
    BY <1>1, <1>3 DEF Clients, ClientPCs
  <1>5. TypeOK' /\ Histories' /\ Connecting'
    BY <1>2, <1>4 DEF IInv, TypeOK, Histories, Connecting
  <1>6. client'.pc = "aborted" <=> client.pc = "aborted"
    BY <1>2, <1>4
  <1>7. Entered' /\ Taken' /\ Sent'
    BY <1>2, <1>4, <1>6, EnteredAlone, TakenAlone, SentAlone DEF IInv
  <1> QED
    BY <1>5, <1>7 DEF IInv

-----------------------------------------------------------------------------
(* A message is sent. *)

LEMMA SendsKeeps ==
    ASSUME IInv, NEW msg \in Seq(Byte), NEW junk, NEW r, Records(msg, r),
           r.ok = ClientSend(client.sendBuffer, msg, Sendable, junk).ok,
           r.sent = ClientSend(client.sendBuffer, msg, Sendable, junk).sent,
           client'.sendBuffer = ClientSend(client.sendBuffer, msg, Sendable, junk).pb
    PROVE  /\ client'.sendBuffer \in PacketBuffers
           /\ outbound'.failed \in BOOLEAN /\ outbound'.misfit \in BOOLEAN
           /\ Sent'
  <1> DEFINE payload == SerializeChat(msg)
             b       == client.sendBuffer
             s       == SendPacket(b, PC2S_Chat, payload, Sendable, junk)
             queued  == SetPacket(b, PC2S_Chat, payload).ok
             x       == PacketOf(PC2S_Chat, payload)
             q       == outbound.made
             n       == Len(outbound.sent)
             made    == IF queued THEN Append(q, x) ELSE q
             m       == IF s.ok THEN n + 1 ELSE n
  <1>1. /\ outbound'.made = made
        /\ outbound'.sent = IF s.ok THEN Append(outbound.sent, s.sent) ELSE outbound.sent
        /\ outbound'.failed = (outbound.failed \/ (queued /\ ~s.ok))
        /\ outbound'.misfit = (outbound.misfit \/ ~Fits(payload))
        /\ client'.sendBuffer = s.pb
    BY DEF Records, ClientSend
  <1>2. /\ payload \in Seq(Byte) /\ PC2S_Chat \in Uint16 /\ Sendable \in BOOLEAN
        /\ b \in PacketBuffers
    <2>1. PC2S_Chat \in Uint16 /\ <<Tag>> \in Seq(Byte)
      BY WidthFacts, WidthAssumption DEF PC2S_Chat, Uint16, Tag, Byte
    <2>2. payload \in Seq(Byte)
      BY <2>1, ConcatBytes DEF SerializeChat
    <2>3. Sendable \in BOOLEAN
      BY DEF Sendable
    <2>4. b \in PacketBuffers
      BY DEF IInv, TypeOK, Clients
    <2> QED
      BY <2>1, <2>2, <2>3, <2>4, Zenon
  <1> HIDE DEF payload, s, queued, x
  <1>3. client'.sendBuffer \in PacketBuffers
    BY <1>1, <1>2, SendPacketType, Zenon DEF s
  <1>4. outbound'.failed \in BOOLEAN /\ outbound'.misfit \in BOOLEAN
    BY <1>1, Zenon
  <1>5. ASSUME ~outbound'.misfit
        PROVE  /\ outbound'.made \in Seq(Packets) /\ outbound'.sent \in Seq(Packets)
               /\ Waiting(client'.sendBuffer, outbound'.made, Len(outbound'.sent))
               /\ IsPrefix(outbound'.sent, outbound'.made)
               /\ outbound'.failed <=> Unread(client'.sendBuffer) # << >>
    <2>1. ~outbound.misfit /\ Fits(payload)
      BY <1>1, <1>5, Zenon
    <2>2. /\ q \in Seq(Packets) /\ outbound.sent \in Seq(Packets)
          /\ Waiting(b, q, n)
          /\ IsPrefix(outbound.sent, q)
          /\ outbound.failed <=> Unread(b) # << >>
      BY <2>1, Zenon DEF IInv, Sent, PacketsSentInOrder
    <2>3. \A i \in 1 .. n : outbound.sent[i] = q[i]
      BY <2>2, PrefixPointwise
    <2>4. n \in Nat
      BY <2>2
    <2> HIDE DEF q, n
    <2>5. Sends(b, q, n, PC2S_Chat, payload, Sendable, junk)
      BY <1>2, <2>1, <2>2, <2>4, SendPacketSends, Zenon
    <2>6. /\ made \in Seq(Packets)
          /\ s.ok = (queued /\ Sendable)
          /\ \A i \in 1 .. n : made[i] = q[i]
          /\ Waiting(s.pb, made, m)
          /\ s.ok => s.sent \in Packets /\ s.sent = made[n + 1]
          /\ Unread(b) # << >> \/ (queued /\ ~s.ok) => Unread(s.pb) # << >>
          /\ Unread(b) = << >> /\ (queued => s.ok) => Unread(s.pb) = << >>
      BY <2>5, Zenon DEF Sends, x, queued, s
    <2> HIDE DEF made
    <2>7. /\ outbound'.sent \in Seq(Packets) /\ Len(outbound'.sent) = m
          /\ \A i \in 1 .. m : outbound'.sent[i] = made[i]
      <3>1. CASE s.ok
        <4> DEFINE sent == Append(outbound.sent, s.sent)
        <4>1. /\ sent \in Seq(Packets) /\ Len(sent) = n + 1
              /\ \A i \in 1 .. n : sent[i] = outbound.sent[i]
              /\ sent[n + 1] = s.sent
          BY <2>2, <2>6, <3>1, AppendProperties DEF n
        <4>2. outbound'.sent = sent /\ m = n + 1
          BY <1>1, <3>1, Zenon
        <4> HIDE DEF sent, m
        <4>3. ASSUME NEW i \in 1 .. (n + 1) PROVE sent[i] = made[i]
          <5>1. i \in 1 .. n \/ i = n + 1
            BY <2>4
          <5>2. CASE i \in 1 .. n
            BY <2>3, <2>6, <4>1, <5>2, Zenon
          <5>3. CASE i = n + 1
            BY <2>6, <3>1, <4>1, <5>3, Zenon
          <5> QED
            BY <5>1, <5>2, <5>3
        <4> QED
          BY <4>1, <4>2, <4>3, Zenon
      <3>2. CASE ~s.ok
        <4>1. outbound'.sent = outbound.sent /\ m = n
          BY <1>1, <3>2, Zenon
        <4> HIDE DEF m
        <4>2. Len(outbound'.sent) = n
          BY <4>1 DEF n
        <4> QED
          BY <2>2, <2>3, <2>6, <4>1, <4>2, Zenon
      <3> QED
        BY <3>1, <3>2
    <2> HIDE DEF m
    <2>8. m \in 0 .. Len(made) /\ m <= Len(made)
      <3>1. m \in 0 .. Len(made)
        BY <2>6 DEF Waiting
      <3> QED
        BY <3>1
    <2>9. IsPrefix(outbound'.sent, made)
      <3> DEFINE sent == outbound'.sent
      <3>1. /\ sent \in Seq(Packets) /\ made \in Seq(Packets)
            /\ Len(sent) <= Len(made)
            /\ \A i \in 1 .. Len(sent) : sent[i] = made[i]
        BY <2>6, <2>7, <2>8, Zenon
      <3> HIDE DEF sent
      <3>2. IsPrefix(sent, made)
        BY <3>1, PrefixPointwise
      <3> QED
        BY <3>2 DEF sent
    <2>10. outbound'.failed <=> Unread(s.pb) # << >>
      BY <1>1, <2>2, <2>6, Zenon
    <2> QED
      BY <1>1, <2>6, <2>7, <2>9, <2>10, Zenon
  <1>6. Sent'
    <2> SUFFICES ASSUME ~outbound'.misfit
                 PROVE  /\ outbound'.made \in Seq(Packets) /\ outbound'.sent \in Seq(Packets)
                        /\ Waiting(client'.sendBuffer, outbound'.made, Len(outbound'.sent))
                        /\ PacketsSentInOrder'
      BY Zenon DEF Sent
    <2>1. PacketsSentInOrder'
      BY <1>5, Zenon DEF PacketsSentInOrder, Waiting
    <2> QED
      BY <1>5, <2>1, Zenon
  <1> QED
    BY <1>3, <1>4, <1>6

-----------------------------------------------------------------------------
(* A line. *)

LEMMA ReadsLineKeeps ==
    ASSUME IInv, NEW junk \in Junk, ReadsLine(junk)
    PROVE  IInv'
  <1> DEFINE n     == Fgets(stdin, eof)
             chars == SubSeq(stdin, 1, n)
             rest  == SubSeq(stdin, n + 1, Len(stdin))
             msg   == RemoveEnter(chars)
             s     == ClientSend(client.sendBuffer, msg, Sendable, junk)
             r     == AfterInput(client, chars, Sendable, junk)
  <1>1. /\ client.pc = "input" /\ n > 0
        /\ stdin' = rest /\ client' = r.c
        /\ InputThrows(chars) => input' = input /\ outbound' = outbound
        /\ ~InputThrows(chars) => /\ input' = [input EXCEPT !.read = Append(@, msg)]
                                  /\ Records(msg, r)
        /\ eof' = eof /\ conn' = conn /\ down' = down /\ inbound' = inbound
    BY DEF ReadsLine
  <1>2. /\ client \in Clients /\ stdin \in Seq(Byte) /\ eof \in BOOLEAN
        /\ input \in [typed : Seq(Lines), read : Seq(Seq(Byte))]
        /\ input.typed \in Seq(Lines) /\ input.read \in Seq(Seq(Byte))
    BY DEF IInv, TypeOK, Histories
  <1>3. chars \in Seq(Byte) /\ rest \in Seq(Byte)
    <2>1. n \in 0 .. Len(stdin)
      BY <1>2, FgetsType
    <2> HIDE DEF n
    <2> QED
      BY <1>2, <2>1, SplitFacts
  <1>4. Legible(input.typed) => Remaining(input.typed, input.read, stdin)
    BY <1>1 DEF IInv, Entered
  <1>5. r = IF InputThrows(chars)
            THEN [c |-> [client EXCEPT !.pc = "aborted"], sent |-> << >>, ok |-> FALSE]
            ELSE [c    |-> [client EXCEPT !.pc = IF s.ok THEN "recv" ELSE "input",
                                          !.sendBuffer = s.pb],
                  sent |-> s.sent,
                  ok   |-> s.ok]
    BY DEF AfterInput
  <1> HIDE DEF n, rest, msg, s, r
  <1>6. CASE InputThrows(chars)
    <2>1. client' = [client EXCEPT !.pc = "aborted"]
      BY <1>1, <1>5, <1>6
    <2>2. /\ client' \in Clients /\ client'.pc = "aborted"
          /\ client'.sendBuffer = client.sendBuffer /\ client'.recvBuffer = client.recvBuffer
      BY <1>2, <2>1 DEF Clients, ClientPCs
    <2>3. TypeOK' /\ Histories' /\ Connecting'
      BY <1>1, <1>3, <1>6, <2>2 DEF IInv, TypeOK, Histories, Connecting
    <2>4. Entered'
      <3>1. Legible(input.typed) => IsPrefix(input.read, Fronts(input.typed))
        BY <1>2, <1>4, RemainingFacts, Zenon
      <3> QED
        BY <1>1, <1>6, <2>2, <3>1, Zenon DEF Entered
    <2>5. Taken' /\ Sent'
      BY <1>1, <1>6, <2>2, TakenAlone, SentAlone DEF IInv
    <2> QED
      BY <2>3, <2>4, <2>5 DEF IInv
  <1>7. CASE ~InputThrows(chars)
    <2>1. /\ msg \in Seq(Byte) /\ Records(msg, r)
          /\ input' = [input EXCEPT !.read = Append(@, msg)]
      BY <1>1, <1>3, <1>7, RemoveEnterType, Zenon DEF msg
    <2>2. /\ r.ok = s.ok /\ r.sent = s.sent
          /\ client' = [client EXCEPT !.pc = IF s.ok THEN "recv" ELSE "input",
                                     !.sendBuffer = s.pb]
      BY <1>1, <1>5, <1>7
    <2>3. /\ client'.pc \in {"recv", "input"}
          /\ client'.sendBuffer = s.pb /\ client'.recvBuffer = client.recvBuffer
          /\ client' = [client EXCEPT !.pc = client'.pc, !.sendBuffer = s.pb]
      BY <1>2, <2>2 DEF Clients
    <2>4. /\ client'.sendBuffer \in PacketBuffers
          /\ outbound'.failed \in BOOLEAN /\ outbound'.misfit \in BOOLEAN
          /\ Sent'
      BY <2>1, <2>2, <2>3, SendsKeeps, Zenon DEF s
    <2>5. client' \in Clients
      BY <1>2, <2>3, <2>4 DEF Clients, ClientPCs
    <2> DEFINE new == Append(input.read, msg)
    <2>6. new \in Seq(Seq(Byte)) /\ input' = [input EXCEPT !.read = new]
      BY <1>2, <2>1, AppendProperties
    <2> HIDE DEF new
    <2>7. /\ input' \in [typed : Seq(Lines), read : Seq(Seq(Byte))]
          /\ input'.typed = input.typed /\ input'.read = new
      BY <1>2, <2>6
    <2>8. TypeOK' /\ Histories' /\ Connecting'
      BY <1>1, <1>3, <2>3, <2>4, <2>5, <2>7 DEF IInv, TypeOK, Histories, Connecting
    <2>9. Entered'
      <3>1. ASSUME Legible(input.typed) PROVE Remaining(input.typed, new, rest)
        BY <1>1, <1>2, <1>4, <1>7, <3>1, RemainingTake, Zenon DEF new, msg, rest, n
      <3>2. client'.pc # "aborted"
        BY <2>3
      <3> QED
        BY <1>1, <2>7, <3>1, <3>2, Zenon DEF Entered
    <2>10. Taken'
      BY <1>1, <2>3, TakenAlone DEF IInv
    <2> QED
      BY <2>4, <2>8, <2>9, <2>10 DEF IInv
  <1> QED
    BY <1>6, <1>7

-----------------------------------------------------------------------------
(* A chunk. *)

(* The chunk goes into recvBuffer whole, or is lost. *)
Arrival(a, bytes, rest) ==
    /\ Sound(a.pb)
    /\ a.ok => /\ inbound.arrived \o bytes = FlattenSeq(inbound.taken) \o Unread(a.pb)
               /\ inbound.arrived \o bytes \in Seq(Byte)
               /\ inbound.clean => Received(inbound.served, inbound.taken, Unread(a.pb),
                                            rest, conn # "reset")
    /\ ~a.ok => inbound.arrived = FlattenSeq(inbound.taken) \o Unread(a.pb)

LEMMA ArrivalFacts ==
    ASSUME IInv, NEW n \in 1 .. MAX_BUF_SIZE, n <= Len(down)
    PROVE  /\ SubSeq(down, n + 1, Len(down)) \in Seq(Byte)
           /\ Arrival(AppendBuffer(client.recvBuffer, SubSeq(down, 1, n)), SubSeq(down, 1, n),
                      SubSeq(down, n + 1, Len(down)))
  <1> DEFINE bytes == SubSeq(down, 1, n)
             rest  == SubSeq(down, n + 1, Len(down))
             b     == client.recvBuffer
             u     == Unread(b)
             a     == AppendBuffer(b, bytes)
             v     == Unread(a.pb)
             f     == FlattenSeq(inbound.taken)
  <1>1. down \in Seq(Byte) /\ n \in 0 .. Len(down) /\ n \in Nat
    BY WidthFacts DEF IInv, TypeOK
  <1>2. bytes \in Seq(Byte) /\ rest \in Seq(Byte) /\ Len(bytes) = n
    BY <1>1, SplitFacts
  <1>3. /\ Sound(b) /\ u \in Seq(Byte)
        /\ inbound.arrived = f \o u
        /\ inbound.clean => Received(inbound.served, inbound.taken, u, down, conn # "reset")
    <2>1. Sound(b) /\ inbound.arrived = f \o u
      BY DEF IInv, Taken
    <2>2. inbound.clean => Received(inbound.served, inbound.taken, u, down, conn # "reset")
      BY Zenon DEF IInv, Taken
    <2> QED
      BY <2>1, <2>2, UnreadFacts
  <1>4. f \in Seq(Byte) /\ inbound.arrived \in Seq(Byte)
    <2>1. inbound.taken \in Seq(Seq(Byte)) /\ inbound.arrived \in Seq(Byte)
      BY DEF IInv, Histories
    <2> QED
      BY <2>1, FlattenType
  <1>5. Sound(a.pb) /\ v = IF a.ok THEN u \o bytes ELSE u
    <2>1. Len(bytes) <= MAX_BUF_SIZE
      BY <1>2, WidthFacts
    <2> QED
      BY <1>2, <1>3, <2>1, AppendBufferFacts, Zenon
  <1> HIDE DEF a, b, u, v, f
  <1>6. ASSUME a.ok
        PROVE  /\ inbound.arrived \o bytes = f \o v
               /\ inbound.arrived \o bytes \in Seq(Byte)
               /\ inbound.clean => Received(inbound.served, inbound.taken, v, rest, conn # "reset")
    <2>1. (f \o u) \o bytes = f \o (u \o bytes)
      BY <1>2, <1>3, <1>4, ConcatBytesAssoc
    <2>2. inbound.arrived \o bytes \in Seq(Byte)
      BY <1>2, <1>4, ConcatBytes
    <2>3. inbound.clean => Received(inbound.served, inbound.taken, u \o bytes, rest, conn # "reset")
      BY <1>1, <1>3, ReceivedMove, Zenon
    <2> QED
      BY <1>3, <1>5, <1>6, <2>1, <2>2, <2>3, Zenon
  <1> QED
    BY <1>2, <1>3, <1>5, <1>6, Zenon DEF Arrival, a, b, v, f

LEMMA RecvKeeps ==
    ASSUME IInv, client.pc = "recv", NEW junk \in Junk, NEW n \in 1 .. MAX_BUF_SIZE,
           n <= Len(down), Recv(n, junk)
    PROVE  IInv'
  <1> DEFINE bytes == SubSeq(down, 1, n)
             rest  == SubSeq(down, n + 1, Len(down))
             a     == AppendBuffer(client.recvBuffer, bytes)
             msg   == ParseChat(Payload(a.pb, junk))
             s     == ClientSend(client.sendBuffer, msg, Sendable, junk)
             r     == AfterRecv(client, bytes, Sendable, junk)
             x     == PacketBytes(a.pb, junk)
             takes == TakesPacket(a, junk)
  <1>1. /\ down' = rest /\ client' = r.c
        /\ inbound' = [inbound EXCEPT !.arrived = IF a.ok THEN @ \o bytes ELSE @,
                                      !.taken   = IF takes THEN Append(@, x) ELSE @,
                                      !.clean   = @ /\ a.ok]
        /\ takes => Records(msg, r)
        /\ ~takes => outbound' = outbound
        /\ stdin' = stdin /\ eof' = eof /\ conn' = conn /\ input' = input
    BY DEF Recv
  <1>2. rest \in Seq(Byte) /\ Arrival(a, bytes, rest)
    BY ArrivalFacts
  <1>3. r = IF takes
            THEN [c    |-> [pc         |-> IF s.ok THEN "recv" ELSE "input",
                            sendBuffer |-> s.pb,
                            recvBuffer |-> ConsumePacket(a.pb)],
                  sent |-> s.sent,
                  ok   |-> s.ok]
            ELSE [c    |-> [client EXCEPT !.pc = IF a.ok /\ ~IsAbleToGetPacket(a.pb)
                                                 THEN "recv" ELSE "input",
                                          !.recvBuffer = a.pb],
                  sent |-> << >>,
                  ok   |-> FALSE]
    BY Zenon DEF AfterRecv
  <1>4. /\ client \in Clients
        /\ inbound \in [served : Seq(Packets), arrived : Seq(Byte),
                         taken : Seq(Seq(Byte)), clean : BOOLEAN]
    BY DEF IInv, TypeOK, Histories
  <1>5. takes => a.ok /\ IsAbleToGetPacket(a.pb) /\ ParsesAsChat(Payload(a.pb, junk))
    BY DEF TakesPacket
  <1>6. Sound(a.pb) /\ a.pb \in PacketBuffers
    BY <1>2 DEF Arrival, Sound
  <1> HIDE DEF bytes, rest, a, s, r, x, takes
  <1>7. CASE takes
    <2> DEFINE w   == Unread(ConsumePacket(a.pb))
               all == Append(inbound.taken, x)
               arr == inbound.arrived \o bytes
    <2>1. msg \in Seq(Byte)
      BY <1>5, <1>6, <1>7, ParseType, ClientAssumption
    <2> HIDE DEF msg
    <2>2. /\ Records(msg, r) /\ r.ok = s.ok /\ r.sent = s.sent
          /\ client' = [pc         |-> IF s.ok THEN "recv" ELSE "input",
                        sendBuffer |-> s.pb,
                        recvBuffer |-> ConsumePacket(a.pb)]
      BY <1>1, <1>3, <1>7
    <2>3. /\ client'.pc \in {"recv", "input"}
          /\ client'.sendBuffer = s.pb /\ client'.recvBuffer = ConsumePacket(a.pb)
          /\ client' = [pc |-> client'.pc, sendBuffer |-> s.pb, recvBuffer |-> ConsumePacket(a.pb)]
      BY <2>2
    <2>4. /\ client'.sendBuffer \in PacketBuffers
          /\ outbound'.failed \in BOOLEAN /\ outbound'.misfit \in BOOLEAN
          /\ Sent'
      BY <2>1, <2>2, <2>3, SendsKeeps, Zenon DEF s
    <2>5. /\ x \in Seq(Byte) /\ w \in Seq(Byte) /\ Unread(a.pb) = x \o w
          /\ Sound(ConsumePacket(a.pb))
      BY <1>5, <1>6, <1>7, FrontPacketFacts, Zenon DEF x
    <2>6. client' \in Clients
      BY <2>3, <2>4, <2>5 DEF Clients, ClientPCs, Sound
    <2>7. /\ all \in Seq(Seq(Byte)) /\ arr \in Seq(Byte)
          /\ arr = FlattenSeq(inbound.taken) \o Unread(a.pb)
      <3>1. all \in Seq(Seq(Byte))
        BY <1>4, <2>5, AppendProperties
      <3> QED
        BY <1>2, <1>5, <1>7, <3>1, Zenon DEF Arrival
    <2>8. inbound' = [inbound EXCEPT !.arrived = arr, !.taken = all, !.clean = inbound.clean]
      BY <1>1, <1>4, <1>5, <1>7
    <2> HIDE DEF all, arr, w
    <2>9. /\ inbound' \in [served : Seq(Packets), arrived : Seq(Byte),
                            taken : Seq(Seq(Byte)), clean : BOOLEAN]
          /\ inbound'.served = inbound.served /\ inbound'.arrived = arr
          /\ inbound'.taken = all /\ inbound'.clean = inbound.clean
      BY <1>4, <2>7, <2>8
    <2>10. TypeOK' /\ Histories' /\ Connecting'
      BY <1>1, <1>2, <2>3, <2>4, <2>6, <2>9 DEF IInv, TypeOK, Histories, Connecting
    <2>11. Entered'
      BY <1>1, <2>3, EnteredAlone DEF IInv
    <2>12. Taken'
      <3> DEFINE f == FlattenSeq(inbound.taken)
      <3>1. f \in Seq(Byte) /\ inbound.taken \in Seq(Seq(Byte)) /\ FlattenSeq(all) = f \o x
        BY <1>4, <2>5, FlattenType, FlattenAppend DEF all
      <3> HIDE DEF f
      <3>2. f \o (x \o w) = (f \o x) \o w
        BY <2>5, <3>1, ConcatBytesAssoc
      <3>3. arr = FlattenSeq(all) \o w
        BY <2>5, <2>7, <3>1, <3>2, Zenon DEF f
      <3>4. inbound.clean => Received(inbound.served, inbound.taken, Unread(a.pb),
                                      rest, conn # "reset")
        BY <1>2, <1>5, <1>7, Zenon DEF Arrival
      <3>5. inbound.clean => Received(inbound.served, all, w, rest, conn # "reset")
        BY <1>2, <1>5, <1>6, <1>7, <3>1, <3>4, ReceivedTake, Zenon DEF all, w, x
      <3> QED
        BY <1>1, <2>3, <2>5, <2>9, <3>3, <3>5, Zenon DEF Taken, w
    <2> QED
      BY <2>4, <2>10, <2>11, <2>12 DEF IInv
  <1>8. CASE ~takes
    <2>1. client' = [client EXCEPT !.pc = IF a.ok /\ ~IsAbleToGetPacket(a.pb)
                                         THEN "recv" ELSE "input",
                                  !.recvBuffer = a.pb]
      BY <1>1, <1>3, <1>8
    <2>2. /\ client' \in Clients /\ client'.pc \in {"recv", "input"}
          /\ client'.sendBuffer = client.sendBuffer /\ client'.recvBuffer = a.pb
      BY <1>4, <1>6, <2>1 DEF Clients, ClientPCs
    <2>3. /\ inbound'.served = inbound.served /\ inbound'.taken = inbound.taken
          /\ a.ok => inbound'.arrived = inbound.arrived \o bytes /\ inbound'.clean = inbound.clean
          /\ ~a.ok => inbound'.arrived = inbound.arrived /\ inbound'.clean = FALSE
          /\ inbound' \in [served : Seq(Packets), arrived : Seq(Byte),
                            taken : Seq(Seq(Byte)), clean : BOOLEAN]
      <3>1. CASE a.ok
        <4> DEFINE arr == inbound.arrived \o bytes
        <4>1. arr \in Seq(Byte)
          BY <1>2, <3>1, Zenon DEF Arrival
        <4>2. inbound' = [inbound EXCEPT !.arrived = arr]
          BY <1>1, <1>4, <1>8, <3>1
        <4> HIDE DEF arr
        <4> QED
          BY <1>4, <3>1, <4>1, <4>2 DEF arr
      <3>2. CASE ~a.ok
        <4>1. inbound' = [inbound EXCEPT !.clean = FALSE]
          BY <1>1, <1>4, <1>8, <3>2
        <4> QED
          BY <1>4, <3>2, <4>1
      <3> QED
        BY <3>1, <3>2
    <2>4. TypeOK' /\ Histories' /\ Connecting'
      BY <1>1, <1>2, <1>8, <2>2, <2>3 DEF IInv, TypeOK, Histories, Connecting
    <2>5. Entered'
      BY <1>1, <2>2, EnteredAlone DEF IInv
    <2>6. Sent'
      BY <1>1, <1>8, <2>2, SentAlone DEF IInv
    <2>7. Taken'
      BY <1>1, <1>2, <1>6, <2>2, <2>3, Zenon DEF Taken, Arrival
    <2> QED
      BY <2>4, <2>5, <2>6, <2>7 DEF IInv
  <1> QED
    BY <1>7, <1>8

-----------------------------------------------------------------------------
(* Every step. *)

LEMMA StepIInv == IInv /\ [Next]_vars => IInv'
  <1> SUFFICES ASSUME IInv, [Next]_vars PROVE IInv'
    OBVIOUS
  <1>1. CASE EnvNext
    BY <1>1, TypesKeeps, EndsInputKeeps, ServerSendsKeeps, ServerClosesKeeps,
       ServerResetsKeeps, Zenon DEF EnvNext
  <1>2. CASE StartupFails \/ Starts \/ RecvEnds
    BY <1>2, MovesKeeps, Zenon
  <1>3. CASE \E junk \in Junk : ReadsLine(junk)
    BY <1>3, ReadsLineKeeps, Zenon
  <1>4. CASE \E junk \in Junk : Receives(junk)
    BY <1>4, RecvKeeps, Zenon DEF Receives
  <1>5. CASE UNCHANGED vars
    <2>1. /\ client' = client /\ stdin' = stdin /\ eof' = eof /\ conn' = conn /\ down' = down
          /\ input' = input /\ inbound' = inbound /\ outbound' = outbound
      BY <1>5 DEF vars
    <2>2. TypeOK' /\ Histories' /\ Connecting'
      BY <2>1 DEF IInv, TypeOK, Histories, Connecting
    <2>3. Entered' /\ Taken' /\ Sent'
      BY <2>1, EnteredAlone, TakenAlone, SentAlone DEF IInv
    <2> QED
      BY <2>2, <2>3 DEF IInv
  <1> QED
    BY <1>1, <1>2, <1>3, <1>4, <1>5, Zenon DEF Next, ClientNext

LEMMA SpecIInv == Spec => []IInv
  BY InitIInv, StepIInv, PTL DEF Spec

-----------------------------------------------------------------------------
(* The invariants. *)

(* As long as fgets() need not cut a line and no line has the end of a C    *)
(* string inside, the messages ReadsLine makes are the lines typed without  *)
(* their enters, in order, however the client's input and its packets       *)
(* interleave.                                                              *)
THEOREM LinesAlwaysIntact == Spec => []LinesIntact
  <1>1. IInv => LinesIntact
    <2> SUFFICES ASSUME IInv, Legible(input.typed)
                 PROVE  IsPrefix(input.read, Fronts(input.typed))
      BY Zenon DEF LinesIntact, Legible, Fronts
    <2>1. input.typed \in Seq(Lines)
      BY DEF IInv, Histories
    <2> QED
      BY <2>1, RemainingFacts, Zenon DEF IInv, Entered
  <1> QED
    BY <1>1, SpecIInv, PTL

(* However recv() cuts the stream, the packets the client takes and the     *)
(* bytes it keeps are those it received, and the first the server sent      *)
(* until a chunk is refused.                                                *)
THEOREM RepliesAlwaysTakenInOrder == Spec => []RepliesTakenInOrder
  <1>1. IInv => RepliesTakenInOrder
    <2> SUFFICES ASSUME IInv PROVE RepliesTakenInOrder
      OBVIOUS
    <2> DEFINE taken  == inbound.taken
               served == inbound.served
               u      == Unread(client.recvBuffer)
               whole  == conn # "reset"
    <2>1. /\ TypeOK /\ inbound.arrived = FlattenSeq(taken) \o u
          /\ taken \in Seq(Seq(Byte)) /\ u \in Seq(Byte) /\ down \in Seq(Byte)
      BY UnreadFacts DEF IInv, TypeOK, Histories, Taken
    <2>2. inbound.clean => Received(served, taken, u, down, whole)
      BY Zenon DEF IInv, Taken
    <2> HIDE DEF taken, served, u, whole
    <2>3. inbound.clean => /\ IsPrefix(taken, served)
                           /\ whole => (FlattenSeq(taken) \o u) \o down = FlattenSeq(served)
      <3> SUFFICES ASSUME inbound.clean
                   PROVE  /\ IsPrefix(taken, served)
                          /\ whole => (FlattenSeq(taken) \o u) \o down = FlattenSeq(served)
        OBVIOUS
      <3>1. Received(served, taken, u, down, whole)
        BY <2>2
      <3> DEFINE up == down
      <3>2. /\ taken \in Seq(Seq(Byte)) /\ u \in Seq(Byte) /\ up \in Seq(Byte)
            /\ Received(served, taken, u, up, whole)
        BY <2>1, <3>1
      <3> HIDE DEF up
      <3>3. IsPrefix(taken, served) /\ (whole => (FlattenSeq(taken) \o u) \o up = FlattenSeq(served))
        BY <3>2, ReceivedFacts, Zenon
      <3> QED
        BY <3>3, Zenon DEF up
    <2> QED
      BY <2>1, <2>3, Zenon DEF RepliesTakenInOrder, taken, served, u, whole
  <1> QED
    BY <1>1, SpecIInv, PTL

(* The packets SetPacket took leave in the order they were made, whole and  *)
(* once, and sendBuffer is empty exactly as long as no send() has failed,   *)
(* until a message outgrows it.                                             *)
THEOREM PacketsAlwaysSentInOrder == Spec => []PacketsSentInOrder
  <1>1. IInv => PacketsSentInOrder
    BY Zenon DEF IInv, Sent, PacketsSentInOrder
  <1> QED
    BY <1>1, SpecIInv, PTL

=============================================================================
