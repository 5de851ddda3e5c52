----------------------- MODULE CodedOutputStreamProofs ----------------------
(***************************************************************************)
(* What CodedOutputStream writes arrives in the file, or the loss is       *)
(* reported, for blocks and writes of every size, any number of coded      *)
(* streams over one file and every failure of write().                     *)
(***************************************************************************)
EXTENDS CodedOutputStream, SequenceTheorems, TLAPS

(* The members, and what they may hold.                                     *)
Streams == [live : BOOLEAN, buffer : 0 .. BlockSize, buffer_size : 0 .. BlockSize,
            total_bytes : 0 .. (MaxBytes + BlockSize), had_error : BOOLEAN]
Buffers == {NULL} \cup [1 .. BlockSize -> 0 .. MaxBytes]
Outputs == [buffer : Buffers, buffer_used : 0 .. BlockSize,
            position : 0 .. MaxBytes, failed : BOOLEAN]
Files == [data : Seq(0 .. MaxBytes), closed : BOOLEAN]
Calls == {Idle} \cup [op : {"write", "skip"}, n : Nat]

Typed ==
    /\ cos \in Streams /\ out \in Outputs /\ file \in Files
    /\ call \in Calls
    /\ asked \in 0 .. MaxBytes
    /\ begun \in [asked : Nat, failed : BOOLEAN]
    /\ begun.asked + call.n <= asked

(* The file and the first m bytes of the adaptor's buffer are n bytes of    *)
(* the client's, unless an error has cut them off.                          *)
Carries(o, f, n, m) ==
    /\ Len(f.data) <= n /\ Holds(f.data) /\ o.position <= Len(f.data)
    /\ ~o.failed => /\ Len(f.data) = o.position /\ o.position + m = n
                    /\ \A j \in 1 .. m : o.position + j \in holes \/ o.buffer[j] = o.position + j
    /\ o.buffer = NULL => o.buffer_used = 0

Carried == Carries(out, file, asked - call.n, out.buffer_used - cos.buffer_size)

(* What the loop has left to skip is skipped.                               *)
Skipping == call.op = "skip" => (asked - call.n + 1) .. asked \subseteq holes

(* The coded stream's window is the end of the adaptor's buffer.            *)
Window ==
    cos.buffer_size > 0 \/ (cos.live /\ ~out.failed) =>
        cos.live /\ out.buffer_used = BlockSize /\ cos.buffer + cos.buffer_size = BlockSize

Counted ==
    LET count == cos.total_bytes - cos.buffer_size
    IN  cos.live => /\ count >= 0 /\ count <= asked - call.n - begun.asked
                    /\ ~out.failed => count = asked - call.n - begun.asked

Reported == cos.live /\ ~cos.had_error /\ ~begun.failed => ~out.failed

(* Between coded streams.                                                   *)
Released ==
    /\ ~cos.live => cos = NoStream /\ call = Idle
    /\ file.closed => ~cos.live /\ (out.failed \/ out.buffer_used = 0)

Delivered ==
    done.op \in {"flush", "close"} =>
        call = Idle /\ (done.ok => Len(file.data) = asked)

IInv == Typed /\ Carried /\ Skipping /\ Window /\ Counted /\ Reported /\ Released /\ Delivered

-----------------------------------------------------------------------------
(* The buffers.                                                             *)

LEMMA Constants ==
    /\ BlockSize \in Nat /\ BlockSize >= 1 /\ MaxVarint \in Nat /\ MaxBytes \in Nat
    /\ Sizes \subseteq Int
  BY OutputAssumption

(* A buffer that was allocated is not NULL. *)
LEMMA Allocated ==
    ASSUME NEW S, NEW f \in [1 .. BlockSize -> S]
    PROVE  f # NULL /\ f \in Seq(S) /\ Len(f) = BlockSize
  <1>1. f \in Seq(S) /\ Len(f) = BlockSize
    BY Constants
  <1>2. Len(NULL) = 0
    BY DEF NULL
  <1> QED
    BY <1>1, <1>2, Constants

LEMMA FreshBuffer == Fresh \in [1 .. BlockSize -> 0 .. MaxBytes]
  BY Constants DEF Fresh

(* A file that took k bytes. *)
Grown(f, bytes, k, g) ==
    /\ g \in Files /\ g.closed = f.closed
    /\ Len(g.data) = Len(f.data) + k
    /\ \A i \in 1 .. Len(f.data) : g.data[i] = f.data[i]
    /\ \A i \in 1 .. k : g.data[Len(f.data) + i] = bytes[i]

LEMMA FileTook ==
    ASSUME file \in Files, NEW bytes \in [1 .. BlockSize -> 0 .. MaxBytes],
           NEW n \in 0 .. BlockSize, NEW k \in 0 .. n
    PROVE  Grown(file, bytes, k, [file EXCEPT !.data = @ \o SubSeq(SubSeq(bytes, 1, n), 1, k)])
  <1> DEFINE part == SubSeq(SubSeq(bytes, 1, n), 1, k)
             new  == [file EXCEPT !.data = file.data \o part]
  <1>1. bytes \in Seq(0 .. MaxBytes) /\ Len(bytes) = BlockSize /\ n \in Nat /\ k \in Nat
    BY Allocated, Constants
  <1>2. /\ SubSeq(bytes, 1, n) \in Seq(0 .. MaxBytes) /\ Len(SubSeq(bytes, 1, n)) = n
        /\ \A i \in 1 .. n : SubSeq(bytes, 1, n)[i] = bytes[i]
    BY <1>1, Constants, SubSeqProperties
  <1>3. part \in Seq(0 .. MaxBytes) /\ Len(part) = k /\ \A i \in 1 .. k : part[i] = bytes[i]
    BY <1>1, <1>2, SubSeqProperties
  <1> HIDE DEF part
  <1>4. file.data \in Seq(0 .. MaxBytes) /\ file.closed \in BOOLEAN
    BY DEF Files
  <1>5. /\ file.data \o part \in Seq(0 .. MaxBytes)
        /\ Len(file.data \o part) = Len(file.data) + k
        /\ \A i \in 1 .. Len(file.data) : (file.data \o part)[i] = file.data[i]
        /\ \A i \in 1 .. k : (file.data \o part)[Len(file.data) + i] = bytes[i]
    <2> DEFINE d == file.data
    <2>1. d \in Seq(0 .. MaxBytes)
      BY <1>4
    <2> HIDE DEF d
    <2>2. /\ d \o part \in Seq(0 .. MaxBytes)
          /\ Len(d \o part) = Len(d) + Len(part)
          /\ \A i \in 1 .. Len(d) + Len(part) :
                (d \o part)[i] = IF i <= Len(d) THEN d[i] ELSE part[i - Len(d)]
      BY <1>3, <2>1, ConcatProperties
    <2>3. Len(d) \in Nat
      BY <2>1
    <2>4. \A i \in 1 .. Len(d) : (d \o part)[i] = d[i]
      BY <1>1, <1>3, <2>2, <2>3
    <2>5. ASSUME NEW i \in 1 .. k
          PROVE  (d \o part)[Len(d) + i] = bytes[i]
      <3>1. /\ Len(d) + i \in 1 .. Len(d) + Len(part) /\ ~(Len(d) + i <= Len(d))
            /\ (Len(d) + i) - Len(d) = i
        BY <1>1, <1>3, <2>3
      <3>2. (d \o part)[Len(d) + i] = part[(Len(d) + i) - Len(d)]
        BY <2>2, <3>1
      <3> QED
        BY <1>3, <3>1, <3>2
    <2> QED
      BY <1>3, <2>2, <2>4, <2>5 DEF d
  <1>6. new \in Files /\ new.data = file.data \o part /\ new.closed = file.closed
    BY <1>4, <1>5 DEF Files
  <1> QED
    BY <1>5, <1>6 DEF Grown, part

-----------------------------------------------------------------------------
(* FileOutputStream and its adaptor.                                        *)

(* The adaptor after an error. *)
LEMMA ErrorSet ==
    ASSUME NEW o \in Outputs
    PROVE  LET new == FreeBuffer([o EXCEPT !.failed = TRUE])
           IN  /\ new \in Outputs /\ new.failed = TRUE
               /\ new.buffer_used = 0 /\ new.position = o.position
  <1> DEFINE failed == [o EXCEPT !.failed = TRUE]
             new    == [failed EXCEPT !.buffer_used = 0, !.buffer = NULL]
  <1>1. 0 \in 0 .. BlockSize /\ NULL \in Buffers
    BY Constants DEF Buffers
  <1>2. failed \in Outputs /\ failed.failed = TRUE /\ failed.position = o.position
    BY DEF Outputs
  <1> HIDE DEF failed
  <1>3. /\ new \in Outputs /\ new.failed = failed.failed
        /\ new.buffer_used = 0 /\ new.position = failed.position
    BY <1>1, <1>2 DEF Outputs
  <1> QED
    BY <1>2, <1>3 DEF failed, FreeBuffer

(* What WriteBuffer() may do: all, nothing after an error, or a part. *)
Writes(o, r) ==
    /\ ~r.crash /\ r.out \in Outputs /\ r.file \in Files /\ r.ok \in BOOLEAN
    /\ r.file.closed = file.closed
    /\ r.ok => /\ ~o.failed /\ ~r.out.failed
               /\ r.out.buffer_used = 0 /\ r.out.position = o.position + o.buffer_used
               /\ Grown(file, o.buffer, o.buffer_used, r.file)
    /\ ~r.ok => /\ r.out.failed /\ r.out.position = o.position
                /\ r.out.buffer = NULL => r.out.buffer_used = 0
                /\ o.failed => r.file = file
                /\ ~o.failed => \E k \in 0 .. o.buffer_used : Grown(file, o.buffer, k, r.file)

LEMMA WriteBufferFacts ==
    ASSUME file \in Files, NEW o \in Outputs, o.buffer = NULL => o.buffer_used = 0,
           ~o.failed => o.position + o.buffer_used <= MaxBytes,
           file.closed => o.failed \/ o.buffer_used = 0,
           NEW r \in WriteBuffer(o)
    PROVE  Writes(o, r)
  <1>1. /\ o.buffer \in Buffers /\ o.buffer_used \in 0 .. BlockSize
        /\ o.position \in 0 .. MaxBytes /\ o.failed \in BOOLEAN
    BY DEF Outputs
  <1>0. 0 \in 0 .. BlockSize /\ NULL \in Buffers
    BY Constants DEF Buffers
  <1>2. CASE o.failed
    <2>1. r = Outcome(o, file, FALSE)
      BY <1>2 DEF WriteBuffer
    <2>2. r.out = o /\ r.file = file /\ r.ok = FALSE /\ r.crash = FALSE
      BY <2>1 DEF Outcome
    <2> QED
      BY <1>1, <1>2, <2>2 DEF Writes
  <1>3. CASE ~o.failed /\ o.buffer_used = 0
    <2>1. r = Outcome(o, file, TRUE)
      BY <1>3 DEF WriteBuffer
    <2>2. r.out = o /\ r.file = file /\ r.ok = TRUE /\ r.crash = FALSE
      BY <2>1 DEF Outcome
    <2>3. Grown(file, o.buffer, 0, file)
      <3>1. Len(file.data) \in Nat
        BY DEF Files
      <3> QED
        BY <3>1 DEF Grown
    <2>4. o.position + o.buffer_used = o.position
      BY <1>1, <1>3, Constants
    <2> QED
      BY <1>3, <2>2, <2>3, <2>4 DEF Writes
  <1>4. CASE ~o.failed /\ o.buffer_used # 0
    <2> DEFINE n == o.buffer_used
               Took(k) == [file EXCEPT !.data = @ \o SubSeq(SubSeq(o.buffer, 1, n), 1, k)]
    <2>1. o.buffer \in [1 .. BlockSize -> 0 .. MaxBytes] /\ n \in Nat
      BY <1>1, <1>4 DEF Buffers
    <2>2. Len(SubSeq(o.buffer, 1, n)) = n
      BY <1>1, <2>1, Allocated, SubSeqProperties, Constants
    <2>3. \A k \in 0 .. n : Grown(file, o.buffer, k, Took(k))
      BY <1>1, <2>1, FileTook
    <2>4. r \in Write(o)
      BY <1>4 DEF WriteBuffer
    <2>5. \/ r = Outcome([o EXCEPT !.position = @ + n, !.buffer_used = 0], Took(n), TRUE)
          \/ \E k \in 0 .. (n - 1) :
                r = Outcome(FreeBuffer([o EXCEPT !.failed = TRUE]), Took(k), FALSE)
      BY <2>2, <2>4 DEF Write
    <2> HIDE DEF Took
    <2>6. CASE r = Outcome([o EXCEPT !.position = @ + n, !.buffer_used = 0], Took(n), TRUE)
      <3>1. /\ r.out = [o EXCEPT !.position = o.position + n, !.buffer_used = 0]
            /\ r.file = Took(n) /\ r.ok = TRUE /\ r.crash = FALSE
        BY <2>6 DEF Outcome
      <3>2. o.position + n \in 0 .. MaxBytes
        BY <1>1, <1>4, Constants
      <3>3. /\ r.out \in Outputs /\ r.out.failed = o.failed
            /\ r.out.buffer_used = 0 /\ r.out.position = o.position + n
        <4> DEFINE end == o.position + n
        <4> HIDE DEF end
        <4>1. end \in 0 .. MaxBytes
          BY <3>2 DEF end
        <4>2. r.out = [o EXCEPT !.position = end, !.buffer_used = 0]
          BY <3>1 DEF end
        <4>3. /\ r.out \in Outputs /\ r.out.failed = o.failed
              /\ r.out.buffer_used = 0 /\ r.out.position = end
          BY <1>0, <4>1, <4>2 DEF Outputs
        <4> QED
          BY <4>3 DEF end
      <3>4. Grown(file, o.buffer, n, r.file)
        BY <1>1, <2>1, <2>3, <3>1
      <3> QED
        BY <1>4, <3>1, <3>3, <3>4 DEF Writes, Grown
    <2>7. ASSUME NEW k \in 0 .. (n - 1),
                 r = Outcome(FreeBuffer([o EXCEPT !.failed = TRUE]), Took(k), FALSE)
          PROVE  Writes(o, r)
      <3>1. /\ r.out = FreeBuffer([o EXCEPT !.failed = TRUE])
            /\ r.file = Took(k) /\ r.ok = FALSE /\ r.crash = FALSE
        BY <2>7 DEF Outcome
      <3>2. /\ r.out \in Outputs /\ r.out.failed = TRUE
            /\ r.out.buffer_used = 0 /\ r.out.position = o.position
        BY <3>1, ErrorSet
      <3>3. k \in 0 .. n
        BY <2>1
      <3>4. Grown(file, o.buffer, k, r.file)
        BY <2>3, <3>1, <3>3
      <3> QED
        BY <1>4, <3>1, <3>2, <3>3, <3>4 DEF Writes, Grown
    <2> QED
      BY <2>5, <2>6, <2>7
  <1> QED
    BY <1>1, <1>2, <1>3, <1>4

(* A file that grows by the bytes in the buffer, or by the first of them. *)
LEMMA GrownHolds ==
    ASSUME file \in Files, NEW o \in Outputs, NEW n \in 0 .. MaxBytes,
           Carries(o, file, n, o.buffer_used), ~o.failed,
           NEW g, NEW k \in 0 .. o.buffer_used, Grown(file, o.buffer, k, g)
    PROVE  Holds(g.data) /\ Len(g.data) = o.position + k /\ o.position + k <= n
  <1>1. /\ o.buffer_used \in 0 .. BlockSize /\ o.position \in 0 .. MaxBytes
        /\ Len(file.data) \in Nat /\ k \in Nat
    BY Constants DEF Outputs, Files
  <1>2. /\ Len(file.data) = o.position /\ o.position + o.buffer_used = n /\ Holds(file.data)
        /\ \A j \in 1 .. o.buffer_used :
              o.position + j \in holes \/ o.buffer[j] = o.position + j
    BY DEF Carries
  <1>3. Len(g.data) = o.position + k /\ o.position + k <= n
    BY <1>1, <1>2, Constants DEF Grown
  <1>4. ASSUME NEW i \in 1 .. Len(g.data)
        PROVE  i \in holes \/ g.data[i] = i
    <2>1. CASE i <= Len(file.data)
      <3>1. i \in 1 .. Len(file.data)
        BY <1>1, <2>1
      <3> QED
        BY <1>2, <3>1 DEF Holds, Grown
    <2>2. CASE i > Len(file.data)
      <3> DEFINE j == i - Len(file.data)
      <3>1. j \in 1 .. k /\ j \in 1 .. o.buffer_used /\ i = Len(file.data) + j
        <4>1. Len(file.data) = o.position /\ Len(g.data) = o.position + k /\ i \in Nat
          BY <1>1, <1>2, <1>3
        <4>2. k <= o.buffer_used /\ o.position \in Nat /\ o.buffer_used \in Nat
          BY <1>1, Constants
        <4> QED
          BY <1>1, <2>2, <4>1, <4>2, SMTT(30)
      <3> HIDE DEF j
      <3>2. g.data[Len(file.data) + j] = o.buffer[j]
        BY <3>1 DEF Grown
      <3> QED
        BY <1>2, <3>1, <3>2
    <2> QED
      BY <1>1, <1>3, <2>1, <2>2, Constants
  <1> QED
    BY <1>3, <1>4 DEF Holds

LEMMA WrittenCarries ==
    ASSUME file \in Files, NEW o \in Outputs, NEW n \in 0 .. MaxBytes,
           Carries(o, file, n, o.buffer_used), NEW r, Writes(o, r)
    PROVE  /\ Carries(r.out, r.file, n, 0)
           /\ r.ok => Len(r.file.data) = n
  <1>1. /\ o.buffer_used \in 0 .. BlockSize /\ o.position \in 0 .. MaxBytes
        /\ Len(file.data) \in Nat /\ n \in Nat
    BY Constants DEF Outputs, Files
  <1>2. CASE r.ok
    <2>1. /\ ~o.failed /\ ~r.out.failed /\ r.out.position = o.position + o.buffer_used
          /\ Grown(file, o.buffer, o.buffer_used, r.file) /\ r.out.buffer_used = 0
      BY <1>2 DEF Writes
    <2>2. o.buffer_used \in 0 .. o.buffer_used /\ o.position + o.buffer_used = n
      BY <1>1, <2>1 DEF Carries
    <2>3. Holds(r.file.data) /\ Len(r.file.data) = o.position + o.buffer_used
      BY <2>1, <2>2, GrownHolds
    <2> QED
      BY <1>1, <2>1, <2>2, <2>3 DEF Carries
  <1>3. CASE ~r.ok /\ o.failed
    <2>1. r.out.failed /\ r.out.position = o.position /\ r.file = file
          /\ (r.out.buffer = NULL => r.out.buffer_used = 0)
      BY <1>3 DEF Writes
    <2> QED
      BY <1>3, <2>1 DEF Carries
  <1>4. CASE ~r.ok /\ ~o.failed
    <2>1. r.out.failed /\ r.out.position = o.position
          /\ (r.out.buffer = NULL => r.out.buffer_used = 0)
      BY <1>4 DEF Writes
    <2>2. PICK k \in 0 .. o.buffer_used : Grown(file, o.buffer, k, r.file)
      BY <1>4 DEF Writes
    <2>3. Holds(r.file.data) /\ Len(r.file.data) = o.position + k /\ o.position + k <= n
      BY <1>4, <2>2, GrownHolds
    <2>4. o.position <= Len(r.file.data) /\ Len(r.file.data) <= n
      BY <1>1, <2>3
    <2> QED
      BY <1>4, <2>1, <2>3, <2>4 DEF Carries
  <1> QED
    BY <1>2, <1>3, <1>4

(* The adaptor lends the rest of its buffer, or reports an error. *)
Lends(o, r, n) ==
    /\ ~r.crash /\ r.out \in Outputs /\ r.file \in Files /\ r.ok \in BOOLEAN
    /\ r.file.closed = file.closed
    /\ r.ok => /\ r.out.failed = o.failed /\ r.out.buffer_used = BlockSize
               /\ Carries(r.out, r.file, n, Lent(o))
    /\ ~r.ok => r.out.failed /\ Carries(r.out, r.file, n, 0)

LEMMA LendFacts ==
    ASSUME NEW o \in Outputs, NEW f \in Files, NEW n, NEW m \in 0 .. o.buffer_used,
           Carries(o, f, n, m)
    PROVE  /\ Lend(o) \in Outputs /\ Lend(o).failed = o.failed
           /\ Lend(o).buffer_used = BlockSize
           /\ Carries(Lend(o), f, n, m)
  <1> DEFINE buffer == IF o.buffer = NULL THEN Fresh ELSE o.buffer
  <1>1. /\ o.buffer \in Buffers /\ o.buffer_used \in 0 .. BlockSize
        /\ o.position \in 0 .. MaxBytes /\ o.failed \in BOOLEAN
    BY DEF Outputs
  <1>2. buffer \in [1 .. BlockSize -> 0 .. MaxBytes]
    BY <1>1, FreshBuffer DEF Buffers
  <1>3. buffer # NULL /\ (o.buffer # NULL => buffer = o.buffer)
    BY <1>2, Allocated
  <1>4. Lend(o) = [o EXCEPT !.buffer = buffer, !.buffer_used = BlockSize]
    BY DEF Lend
  <1> HIDE DEF buffer
  <1>5. /\ Lend(o) \in Outputs /\ Lend(o).failed = o.failed /\ Lend(o).position = o.position
        /\ Lend(o).buffer_used = BlockSize /\ Lend(o).buffer = buffer
    <2>1. buffer \in Buffers /\ BlockSize \in 0 .. BlockSize
      BY <1>2, Constants DEF Buffers
    <2> QED
      BY <1>4, <2>1 DEF Outputs
  <1>6. o.buffer = NULL => m = 0
    BY DEF Carries
  <1>7. \A j \in 1 .. m : buffer[j] = o.buffer[j]
    BY <1>3, <1>6
  <1> QED
    BY <1>3, <1>5, <1>7 DEF Carries

LEMMA NextFacts ==
    ASSUME file \in Files, ~file.closed, NEW o \in Outputs, NEW n \in 0 .. MaxBytes,
           Carries(o, file, n, o.buffer_used), NEW r \in AdaptorNext(o)
    PROVE  Lends(o, r, n)
  <1>1. /\ o.buffer_used \in 0 .. BlockSize /\ o.position \in 0 .. MaxBytes
        /\ o.failed \in BOOLEAN
    BY DEF Outputs
  <1>2. CASE o.buffer_used = BlockSize
    <2>1. PICK w \in WriteBuffer(o) : r = IF w.ok THEN [w EXCEPT !.out = Lend(w.out)] ELSE w
      BY <1>2 DEF AdaptorNext
    <2>2. Writes(o, w)
      <3>1. /\ o.buffer = NULL => o.buffer_used = 0
            /\ ~o.failed => o.position + o.buffer_used <= MaxBytes
        BY <1>1 DEF Carries
      <3> QED
        BY <3>1, WriteBufferFacts
    <2>3. Carries(w.out, w.file, n, 0)
      BY <2>2, WrittenCarries
    <2>4. /\ ~w.crash /\ w.out \in Outputs /\ w.file \in Files /\ w.ok \in BOOLEAN
          /\ w.file.closed = file.closed
          /\ w.ok => ~o.failed /\ ~w.out.failed
          /\ ~w.ok => w.out.failed
      BY <2>2 DEF Writes
    <2>5. CASE ~w.ok
      BY <2>1, <2>3, <2>4, <2>5 DEF Lends
    <2>6. CASE w.ok
      <3>1. 0 \in 0 .. w.out.buffer_used
        BY <2>4 DEF Outputs
      <3>2. /\ Lend(w.out) \in Outputs /\ Lend(w.out).failed = w.out.failed
            /\ Lend(w.out).buffer_used = BlockSize
            /\ Carries(Lend(w.out), w.file, n, 0)
        BY <2>3, <2>4, <3>1, LendFacts
      <3>3. /\ r.out = Lend(w.out) /\ r.file = w.file /\ r.ok = w.ok /\ r.crash = w.crash
        <4>1. \E f, g, ok : w = Outcome(f, g, ok) \/ w = [Outcome(f, g, ok) EXCEPT !.crash = TRUE]
          BY DEF WriteBuffer, Write
        <4> QED
          BY <2>1, <2>6, <4>1 DEF Outcome
      <3>4. Lent(o) = 0
        BY <1>2 DEF Lent
      <3> QED
        BY <1>1, <2>4, <2>6, <3>2, <3>3, <3>4 DEF Lends, Outputs
    <2> QED
      BY <2>4, <2>5, <2>6
  <1>3. CASE o.buffer_used # BlockSize
    <2>1. r = Outcome(Lend(o), file, TRUE)
      BY <1>3 DEF AdaptorNext
    <2>2. r.out = Lend(o) /\ r.file = file /\ r.ok = TRUE /\ r.crash = FALSE
      BY <2>1 DEF Outcome
    <2>3. o.buffer_used \in 0 .. o.buffer_used /\ Lent(o) = o.buffer_used
      BY <1>1, <1>3 DEF Lent
    <2>4. /\ Lend(o) \in Outputs /\ Lend(o).failed = o.failed
          /\ Lend(o).buffer_used = BlockSize
          /\ Carries(Lend(o), file, n, o.buffer_used)
      BY <2>3, LendFacts
    <2> QED
      BY <2>2, <2>3, <2>4 DEF Lends
  <1> QED
    BY <1>2, <1>3

-----------------------------------------------------------------------------
(* CodedOutputStream.                                                       *)

LEMMA Types ==
    ASSUME Typed
    PROVE  /\ cos.live \in BOOLEAN /\ cos.had_error \in BOOLEAN
           /\ cos.buffer \in 0 .. BlockSize /\ cos.buffer_size \in 0 .. BlockSize
           /\ cos.buffer \in Nat /\ cos.buffer_size \in Nat /\ cos.buffer_size <= BlockSize
           /\ cos.total_bytes \in 0 .. (MaxBytes + BlockSize) /\ cos.total_bytes \in Nat
           /\ out.buffer \in Buffers /\ out.failed \in BOOLEAN
           /\ out.buffer_used \in 0 .. BlockSize /\ out.buffer_used \in Nat
           /\ out.position \in 0 .. MaxBytes /\ out.position \in Nat
           /\ file.data \in Seq(0 .. MaxBytes) /\ file.closed \in BOOLEAN
           /\ Len(file.data) \in Nat
           /\ call.n \in Nat /\ asked \in Nat /\ asked <= MaxBytes
           /\ begun.asked \in Nat /\ begun.failed \in BOOLEAN
           /\ begun.asked + call.n <= asked
           /\ BlockSize \in Nat /\ MaxBytes \in Nat /\ BlockSize >= 1
  <1>1. BlockSize \in Nat /\ MaxBytes \in Nat /\ BlockSize >= 1
    BY Constants
  <1>2. call.n \in Nat
    BY DEF Typed, Calls, Idle
  <1>3. /\ cos.live \in BOOLEAN /\ cos.had_error \in BOOLEAN
        /\ cos.buffer \in 0 .. BlockSize /\ cos.buffer_size \in 0 .. BlockSize
        /\ cos.total_bytes \in 0 .. (MaxBytes + BlockSize)
    BY DEF Typed, Streams
  <1>4. /\ out.buffer \in Buffers /\ out.failed \in BOOLEAN
        /\ out.buffer_used \in 0 .. BlockSize /\ out.position \in 0 .. MaxBytes
    BY DEF Typed, Outputs
  <1>5. /\ file.data \in Seq(0 .. MaxBytes) /\ file.closed \in BOOLEAN /\ Len(file.data) \in Nat
    BY DEF Typed, Files
  <1>6. /\ asked \in 0 .. MaxBytes /\ begun.asked \in Nat /\ begun.failed \in BOOLEAN
        /\ begun.asked + call.n <= asked
    BY DEF Typed
  <1> QED
    BY <1>1, <1>2, <1>3, <1>4, <1>5, <1>6

(* An idle loop has nothing left. *)
LEMMA IdleFacts == Idle.n = 0 /\ Idle.op = "none" /\ Idle \in Calls
  BY DEF Idle, Calls

(* Bytes written into the window. *)
LEMMA CopiedFacts ==
    ASSUME Typed, Window, NEW n \in 0 .. cos.buffer_size, NEW w \in Nat, w + n <= MaxBytes,
           Carries(out, file, w, out.buffer_used - cos.buffer_size)
    PROVE  /\ Copied(w + 1, n) \in Outputs
           /\ Copied(w + 1, n).failed = out.failed
           /\ Copied(w + 1, n).buffer_used = out.buffer_used
           /\ Carries(Copied(w + 1, n), file, w + n, out.buffer_used - cos.buffer_size + n)
  <1> DEFINE m == out.buffer_used - cos.buffer_size
             Value(i) == IF i - cos.buffer \in 1 .. n THEN (w + 1) + (i - cos.buffer) - 1
                         ELSE out.buffer[i]
             buffer == [i \in DOMAIN out.buffer |-> Value(i)]
             new == [out EXCEPT !.buffer = buffer]
  <1>1. Copied(w + 1, n) = new
    BY DEF Copied
  <1>2. /\ n \in Nat /\ n <= cos.buffer_size /\ w \in Nat /\ w + n <= MaxBytes
        /\ cos.buffer \in Nat /\ cos.buffer_size \in Nat /\ out.position \in Nat
        /\ out.buffer_used \in Nat /\ out.buffer_used <= BlockSize
        /\ BlockSize \in Nat /\ MaxBytes \in Nat
    BY Types
  <1>w. /\ m \in Int /\ m >= 0 /\ m + n <= out.buffer_used
        /\ cos.buffer_size # 0 => cos.buffer = m
        /\ cos.buffer_size = 0 => n = 0
    <2>1. cos.buffer_size # 0 => /\ out.buffer_used = BlockSize
                                 /\ cos.buffer + cos.buffer_size = BlockSize
      BY <1>2 DEF Window
    <2> QED
      BY <1>2, <2>1
  <1>p. ~out.failed => Len(file.data) = out.position /\ out.position + m = w
    BY DEF Carries
  <1>3. ASSUME out.buffer = NULL
        PROVE  buffer = NULL /\ out.buffer_used = 0 /\ cos.buffer_size = 0 /\ n = 0
    <2>1. out.buffer_used = 0
      BY <1>3 DEF Carries
    <2>2. cos.buffer_size = 0 /\ n = 0
      BY <1>2, <2>1, Types DEF Window
    <2>3. DOMAIN out.buffer = 1 .. 0
      BY <1>3 DEF NULL
    <2>4. buffer \in Seq({}) /\ Len(buffer) = 0
      <3>1. buffer = [i \in 1 .. 0 |-> Value(i)]
        BY <2>3
      <3> HIDE DEF Value, buffer
      <3> QED
        BY <3>1
    <2>5. buffer = NULL
      <3> HIDE DEF buffer
      <3> QED
        BY <2>4, EmptySeq DEF NULL
    <2> QED
      BY <2>1, <2>2, <2>5
  <1>4. ASSUME out.buffer # NULL
        PROVE  buffer \in [1 .. BlockSize -> 0 .. MaxBytes] /\ buffer # NULL
    <2>1. out.buffer \in [1 .. BlockSize -> 0 .. MaxBytes]
      BY <1>4, Types DEF Buffers
    <2>2. ASSUME NEW i \in 1 .. BlockSize
          PROVE  Value(i) \in 0 .. MaxBytes
      <3>1. CASE i - cos.buffer \in 1 .. n
        <4>1. i - cos.buffer \in Int /\ i - cos.buffer >= 1 /\ i - cos.buffer <= n
          BY <1>2, <3>1
        <4>2. w + (i - cos.buffer) \in 0 .. MaxBytes
          BY <1>2, <4>1
        <4>3. Value(i) = w + (i - cos.buffer)
          <5>1. Value(i) = (w + 1) + (i - cos.buffer) - 1
            BY <3>1
          <5> HIDE DEF Value
          <5> QED
            BY <1>2, <4>1, <5>1
        <4> HIDE DEF Value
        <4> QED
          BY <4>2, <4>3
      <3>2. CASE ~(i - cos.buffer \in 1 .. n)
        BY <2>1, <3>2
      <3> QED
        BY <3>1, <3>2
    <2> HIDE DEF Value
    <2>3. buffer \in [1 .. BlockSize -> 0 .. MaxBytes]
      BY <2>1, <2>2
    <2> QED
      BY <2>3, Allocated
  <1>5. buffer \in Buffers
    BY <1>3, <1>4 DEF Buffers
  <1>6. ASSUME NEW j \in 1 .. (m + n), ~out.failed, out.buffer # NULL
        PROVE  out.position + j \in holes \/ buffer[j] = out.position + j
    <2>1. m \in Int /\ out.position + m = w /\ m >= 0 /\ m + n <= out.buffer_used
          /\ \A i \in 1 .. m : out.position + i \in holes \/ out.buffer[i] = out.position + i
      BY <1>2, <1>6, <1>p, <1>w DEF Carries
    <2>2. j \in 1 .. BlockSize /\ j \in Int
      BY <1>2, <2>1
    <2> HIDE DEF m, Value
    <2>3. DOMAIN out.buffer = 1 .. BlockSize
      BY <1>6, Types DEF Buffers
    <2>4. buffer[j] = Value(j)
      BY <2>2, <2>3
    <2>5. CASE j <= m
      <3>1. ~(j - cos.buffer \in 1 .. n)
        <4>1. cos.buffer_size # 0 => ~(j - cos.buffer >= 1)
          BY <1>2, <1>w, <2>2, <2>5
        <4> QED
          BY <1>2, <1>w, <2>2, <4>1
      <3>2. buffer[j] = out.buffer[j]
        BY <2>4, <3>1 DEF Value
      <3>3. j \in 1 .. m
        BY <2>1, <2>5
      <3> QED
        BY <2>1, <3>2, <3>3
    <2>6. CASE j > m
      <3>1. n > 0 /\ cos.buffer_size # 0 /\ cos.buffer = m
        BY <1>2, <1>w, <2>1, <2>2, <2>6
      <3>3. j - cos.buffer \in 1 .. n
        BY <1>2, <1>w, <2>1, <2>2, <2>6, <3>1
      <3>4. buffer[j] = (w + 1) + (j - cos.buffer) - 1
        BY <2>4, <3>3 DEF Value
      <3>5. (w + 1) + (j - cos.buffer) - 1 = out.position + j
        BY <1>2, <2>1, <2>2, <3>1
      <3> QED
        BY <3>4, <3>5
    <2> QED
      BY <2>1, <2>5, <2>6
  <1>7. out.buffer = NULL /\ ~out.failed => m + n = 0
    BY <1>3
  <1> HIDE DEF buffer
  <1>8. /\ new \in Outputs /\ new.failed = out.failed /\ new.buffer_used = out.buffer_used
        /\ new.position = out.position /\ new.buffer = buffer
    BY <1>5 DEF Typed, Outputs
  <1>9. Carries(new, file, w + n, m + n)
    <2>1. Len(file.data) <= w + n /\ Holds(file.data) /\ out.position <= Len(file.data)
      BY <1>2, Types DEF Carries
    <2>2. ~out.failed => Len(file.data) = out.position /\ out.position + (m + n) = w + n
      <3> HIDE DEF m
      <3>1. out.position + m = w => out.position + (m + n) = w + n
        BY <1>2, <1>w
      <3> QED
        BY <1>p, <3>1, Zenon
    <2>3. ~out.failed => \A j \in 1 .. (m + n) :
                            out.position + j \in holes \/ buffer[j] = out.position + j
      BY <1>6, <1>7
    <2>4. buffer = NULL => out.buffer_used = 0
      BY <1>3, <1>4
    <2> HIDE DEF new, m
    <2> QED
      BY <1>8, <2>1, <2>2, <2>3, <2>4 DEF Carries
  <1> QED
    BY <1>1, <1>8, <1>9

(* Bytes skipped in the window. *)
LEMMA SkippedFacts ==
    ASSUME Typed, Window, NEW n \in 0 .. cos.buffer_size, NEW w \in Nat,
           (w + 1) .. (w + n) \subseteq holes,
           Carries(out, file, w, out.buffer_used - cos.buffer_size)
    PROVE  Carries(out, file, w + n, out.buffer_used - cos.buffer_size + n)
  <1> DEFINE m == out.buffer_used - cos.buffer_size
  <1>1. n \in Nat /\ m \in Int /\ out.position \in Nat /\ w \in Nat
    BY Types
  <1>2. Len(file.data) <= w + n /\ Holds(file.data) /\ out.position <= Len(file.data)
    BY <1>1, Types DEF Carries
  <1>3. ~out.failed => Len(file.data) = out.position /\ out.position + m = w
    BY DEF Carries
  <1>4. ASSUME ~out.failed, NEW j \in 1 .. (m + n)
        PROVE  out.position + j \in holes \/ out.buffer[j] = out.position + j
    <2>1. CASE j <= m
      <3>1. j \in 1 .. m
        BY <1>1, <2>1
      <3> QED
        BY <1>4, <3>1 DEF Carries
    <2>2. CASE j > m
      <3>1. out.position + j \in (w + 1) .. (w + n)
        <4> HIDE DEF m
        <4>1. j \in Int /\ j <= m + n /\ out.position + m = w
          BY <1>1, <1>3, <1>4
        <4> QED
          BY <1>1, <2>2, <4>1
      <3> QED
        BY <3>1
    <2> QED
      BY <1>1, <2>1, <2>2
  <1>5. ~out.failed => out.position + (m + n) = w + n
    <2> HIDE DEF m
    <2> QED
      BY <1>1, <1>3
  <1>6. out.buffer = NULL => out.buffer_used = 0
    BY DEF Carries
  <1> HIDE DEF m
  <1>7. Carries(out, file, w + n, m + n)
    BY <1>2, <1>3, <1>4, <1>5, <1>6 DEF Carries
  <1> QED
    BY <1>7 DEF m

(* The window after n bytes of it. *)
LEMMA AdvanceFacts ==
    ASSUME Typed, Window, NEW n \in 0 .. cos.buffer_size
    PROVE  LET c == Advance(cos, n)
           IN  /\ c \in Streams /\ c.live = cos.live /\ c.had_error = cos.had_error
               /\ c.total_bytes = cos.total_bytes /\ c.buffer_size = cos.buffer_size - n
               /\ c.buffer + c.buffer_size = cos.buffer + cos.buffer_size
  <1> DEFINE b == cos.buffer + n
             s == cos.buffer_size - n
             c == [cos EXCEPT !.buffer = b, !.buffer_size = s]
  <1>1. /\ cos.buffer \in Nat /\ cos.buffer_size \in Nat /\ BlockSize \in Nat
        /\ cos.buffer <= BlockSize /\ cos.buffer_size <= BlockSize
        /\ n \in Nat /\ n <= cos.buffer_size
    <2>1. /\ cos.buffer \in 0 .. BlockSize /\ cos.buffer_size \in 0 .. BlockSize
          /\ cos.buffer \in Nat /\ cos.buffer_size \in Nat
      BY Types, Zenon
    <2>2. BlockSize \in Nat
      BY Constants
    <2> QED
      BY <2>1, <2>2
  <1>2. s \in 0 .. BlockSize
    BY <1>1
  <1>3. b \in 0 .. BlockSize
    <2>1. n # 0 => cos.buffer + cos.buffer_size = BlockSize
      <3>1. n # 0 => cos.buffer_size > 0
        BY <1>1
      <3> QED
        BY <3>1 DEF Window
    <2> QED
      BY <1>1, <2>1
  <1>4. b + s = cos.buffer + cos.buffer_size
    BY <1>1
  <1> HIDE DEF b, s
  <1>5. /\ c \in Streams /\ c.live = cos.live /\ c.had_error = cos.had_error
        /\ c.total_bytes = cos.total_bytes /\ c.buffer_size = s /\ c.buffer = b
    BY <1>2, <1>3 DEF Typed, Streams
  <1>6. Advance(cos, n) = c
    BY DEF Advance, b, s
  <1> HIDE DEF c
  <1> QED
    BY <1>4, <1>5, <1>6 DEF s

(* The window after Refresh(). *)
Refreshes(c, o, r, d, n) ==
    /\ d \in Streams /\ d.live = c.live
    /\ r.out \in Outputs /\ r.file \in Files /\ ~r.file.closed /\ r.ok \in BOOLEAN
    /\ Carries(r.out, r.file, n, r.out.buffer_used - d.buffer_size)
    /\ r.ok => /\ d.had_error = c.had_error /\ r.out.failed = o.failed
               /\ d.total_bytes - d.buffer_size = c.total_bytes
               /\ r.out.buffer_used = BlockSize /\ d.buffer + d.buffer_size = BlockSize
    /\ ~r.ok => /\ d.had_error /\ r.out.failed
                /\ d.total_bytes = c.total_bytes /\ d.buffer_size = 0

LEMMA RefreshedFacts ==
    ASSUME NEW c \in Streams, c.total_bytes <= MaxBytes, NEW o \in Outputs,
           NEW n \in 0 .. MaxBytes, file \in Files, ~file.closed,
           Carries(o, file, n, o.buffer_used), NEW r \in AdaptorNext(o)
    PROVE  Refreshes(c, o, r, Refreshed(c, o, r), n)
  <1>1. Lends(o, r, n)
    BY NextFacts
  <1>2. /\ c.live \in BOOLEAN /\ c.had_error \in BOOLEAN /\ c.total_bytes \in Nat
        /\ c.buffer \in 0 .. BlockSize /\ c.buffer_size \in 0 .. BlockSize
        /\ o.buffer_used \in 0 .. BlockSize /\ BlockSize \in Nat /\ MaxBytes \in Nat
    BY Constants DEF Streams, Outputs
  <1>3. CASE r.ok
    <2> DEFINE lent == Lent(o)
               rest == BlockSize - lent
               total == c.total_bytes + rest
    <2>1. lent \in 0 .. BlockSize
      BY <1>2, Constants DEF Lent
    <2>2. rest \in 0 .. BlockSize /\ BlockSize - rest = lent /\ lent + rest = BlockSize
          /\ total \in 0 .. (MaxBytes + BlockSize) /\ total - rest = c.total_bytes
      BY <1>2, <2>1
    <2>3. Refreshed(c, o, r) =
             [c EXCEPT !.buffer = lent, !.buffer_size = rest, !.total_bytes = total]
      BY <1>3 DEF Refreshed
    <2> HIDE DEF lent, rest, total
    <2> DEFINE d == [c EXCEPT !.buffer = lent, !.buffer_size = rest, !.total_bytes = total]
    <2>4. /\ d \in Streams /\ d.live = c.live /\ d.had_error = c.had_error
          /\ d.buffer = lent /\ d.buffer_size = rest /\ d.total_bytes = total
      BY <2>1, <2>2 DEF Streams
    <2> HIDE DEF d
    <2>5. /\ r.out \in Outputs /\ r.file \in Files /\ r.file.closed = file.closed
          /\ r.out.failed = o.failed /\ r.out.buffer_used = BlockSize
          /\ Carries(r.out, r.file, n, lent)
      BY <1>1, <1>3 DEF Lends, lent
    <2>6. Refreshes(c, o, r, d, n)
      BY <1>3, <2>2, <2>4, <2>5 DEF Refreshes
    <2> QED
      BY <2>3, <2>6 DEF d
  <1>4. CASE ~r.ok
    <2> DEFINE d == [c EXCEPT !.buffer = 0, !.buffer_size = 0, !.had_error = TRUE]
    <2>1. Refreshed(c, o, r) = d
      BY <1>4 DEF Refreshed
    <2>2. 0 \in 0 .. BlockSize
      BY <1>2
    <2>3. /\ d \in Streams /\ d.live = c.live /\ d.had_error = TRUE
          /\ d.buffer_size = 0 /\ d.total_bytes = c.total_bytes
      BY <2>2 DEF Streams
    <2> HIDE DEF d
    <2>4. /\ r.out \in Outputs /\ r.file \in Files /\ r.file.closed = file.closed
          /\ r.ok \in BOOLEAN /\ r.out.failed /\ Carries(r.out, r.file, n, 0)
      BY <1>1, <1>4 DEF Lends
    <2>5. Carries(r.out, r.file, n, r.out.buffer_used - d.buffer_size)
      BY <2>4 DEF Carries
    <2> QED
      BY <1>4, <2>1, <2>3, <2>4, <2>5 DEF Refreshes
  <1> QED
    BY <1>3, <1>4

-----------------------------------------------------------------------------
(* The steps keep the invariant.                                            *)

LEMMA InitInv == Init => IInv
  <1> SUFFICES ASSUME Init PROVE IInv
    OBVIOUS
  <1>1. /\ cos = NoStream /\ call = Idle /\ asked = 0 /\ holes = {}
        /\ out = [buffer |-> NULL, buffer_used |-> 0, position |-> 0, failed |-> FALSE]
        /\ file = [data |-> << >>, closed |-> FALSE]
        /\ begun = [asked |-> 0, failed |-> FALSE] /\ done = Result("new", TRUE)
    BY DEF Init
  <1>2. /\ NoStream \in Streams /\ NoStream.live = FALSE /\ NoStream.buffer_size = 0
    BY Constants DEF NoStream, Streams
  <1>3. << >> \in Seq(0 .. MaxBytes) /\ Len(<< >>) = 0
    OBVIOUS
  <1>4. Typed
    <2>1. out \in Outputs
      BY <1>1, Constants DEF Outputs, Buffers
    <2>2. file \in Files
      BY <1>1, <1>3 DEF Files
    <2> QED
      BY <1>1, <1>2, <2>1, <2>2, IdleFacts, Constants DEF Typed
  <1>5. Carried
    <2>1. asked - call.n = 0 /\ out.buffer_used - cos.buffer_size = 0
      BY <1>1, <1>2, IdleFacts
    <2>2. Holds(file.data)
      BY <1>1, <1>3 DEF Holds
    <2>3. Carries(out, file, 0, 0)
      BY <1>1, <1>3, <2>2 DEF Carries
    <2> QED
      BY <2>1, <2>3 DEF Carried
  <1>6. done.op = "new"
    BY <1>1 DEF Result
  <1> QED
    BY <1>1, <1>2, <1>4, <1>5, <1>6, IdleFacts
       DEF IInv, Skipping, Window, Counted, Reported, Released, Delivered

(* No coded stream, and no loop. *)
LEMMA FreeFacts ==
    ASSUME IInv, ~cos.live
    PROVE  /\ cos = NoStream /\ cos.buffer_size = 0 /\ call = Idle
           /\ Carries(out, file, asked, out.buffer_used)
  <1>1. cos = NoStream /\ call = Idle
    BY DEF IInv, Released
  <1>2. cos.buffer_size = 0
    BY <1>1 DEF NoStream
  <1>3. asked - call.n = asked /\ out.buffer_used - cos.buffer_size = out.buffer_used
    BY <1>1, <1>2, IdleFacts, Types DEF IInv
  <1> QED
    BY <1>1, <1>2, <1>3 DEF IInv, Carried

LEMMA ConstructInv ==
    ASSUME IInv, Construct
    PROVE  IInv'
  <1> DEFINE c == [NoStream EXCEPT !.live = TRUE]
  <1>1. PICK r \in AdaptorNext(out) :
            /\ cos' = [Refreshed(c, out, r) EXCEPT !.had_error = FALSE]
            /\ out' = r.out /\ file' = r.file
            /\ begun' = [asked |-> asked, failed |-> r.out.failed]
    BY DEF Construct
  <1>2. /\ ~cos.live /\ ~file.closed /\ done' = Result("construct", TRUE)
        /\ UNCHANGED <<call, asked, holes>>
    BY DEF Construct, FileFree
  <1>3. /\ call = Idle /\ call.n = 0 /\ call.op = "none"
        /\ Carries(out, file, asked, out.buffer_used)
    BY <1>2, FreeFacts, IdleFacts
  <1>4. c \in Streams /\ c.live = TRUE /\ c.total_bytes = 0
    <2>1. 0 \in 0 .. BlockSize /\ 0 \in 0 .. (MaxBytes + BlockSize)
      BY Constants
    <2>2. NoStream \in Streams /\ NoStream.total_bytes = 0
      BY <2>1 DEF NoStream, Streams
    <2> QED
      BY <2>2 DEF Streams
  <1>5. /\ out \in Outputs /\ file \in Files /\ asked \in 0 .. MaxBytes /\ asked \in Nat
        /\ MaxBytes \in Nat /\ out.failed \in BOOLEAN
    BY Types DEF IInv, Typed
  <1> HIDE DEF c
  <1> DEFINE d == Refreshed(c, out, r)
  <1>6. Refreshes(c, out, r, d, asked)
    <2>1. c.total_bytes <= MaxBytes
      BY <1>4, <1>5
    <2> QED
      BY <1>2, <1>3, <1>4, <1>5, <2>1, RefreshedFacts
  <1> HIDE DEF d
  <1>7. /\ d \in Streams /\ d.live = TRUE
        /\ r.out \in Outputs /\ r.file \in Files /\ ~r.file.closed /\ r.ok \in BOOLEAN
        /\ Carries(r.out, r.file, asked, r.out.buffer_used - d.buffer_size)
        /\ r.ok => /\ d.total_bytes - d.buffer_size = 0
                   /\ r.out.buffer_used = BlockSize /\ d.buffer + d.buffer_size = BlockSize
        /\ ~r.ok => r.out.failed /\ d.total_bytes = 0 /\ d.buffer_size = 0
    BY <1>4, <1>6 DEF Refreshes
  <1>8. cos' = [d EXCEPT !.had_error = FALSE]
    BY <1>1 DEF d
  <1>9. /\ cos' \in Streams /\ cos'.live = TRUE /\ cos'.buffer = d.buffer
        /\ cos'.buffer_size = d.buffer_size /\ cos'.total_bytes = d.total_bytes
    BY <1>7, <1>8 DEF Streams
  <1>10. r.out.failed \in BOOLEAN
    BY <1>7 DEF Outputs
  <1>11. begun'.asked = asked /\ begun'.failed = r.out.failed
    BY <1>1
  <1>12. Typed'
    <2>1. begun' \in [asked : Nat, failed : BOOLEAN]
      BY <1>1, <1>5, <1>10
    <2>2. begun'.asked + call'.n <= asked'
      BY <1>2, <1>3, <1>5, <1>11
    <2> QED
      BY <1>1, <1>2, <1>3, <1>5, <1>7, <1>9, <2>1, <2>2, IdleFacts DEF Typed
  <1>13. Carried'
    <2>1. asked' - call'.n = asked
      BY <1>2, <1>3, <1>5
    <2> QED
      BY <1>1, <1>2, <1>7, <1>9, <2>1 DEF Carried, Carries, Holds
  <1>14. Window'
    BY <1>1, <1>7, <1>9 DEF Window
  <1>15. Counted'
    <2>1. d.total_bytes - d.buffer_size = 0
      BY <1>7
    <2>2. asked' - call'.n - begun'.asked = 0
      BY <1>2, <1>3, <1>5, <1>11
    <2> QED
      BY <1>9, <2>1, <2>2 DEF Counted
  <1>16. Reported' /\ Released' /\ Skipping'
    BY <1>1, <1>2, <1>3, <1>7, <1>9, <1>11 DEF Reported, Released, Skipping
  <1>17. Delivered'
    BY <1>2 DEF Delivered, Result
  <1> QED
    BY <1>12, <1>13, <1>14, <1>15, <1>16, <1>17 DEF IInv

LEMMA DestroyInv ==
    ASSUME IInv, Destroy
    PROVE  IInv'
  <1>1. /\ call = Idle /\ cos.live /\ cos' = NoStream /\ done' = Result("release", TRUE)
        /\ IF cos.buffer_size > 0 THEN BackUp(cos.buffer_size) ELSE UNCHANGED <<out, call>>
        /\ UNCHANGED <<file, asked, holes, begun>>
    BY DEF Destroy
  <1>2. call.n = 0 /\ call.op = "none"
    BY <1>1, IdleFacts
  <1> DEFINE used == out.buffer_used - cos.buffer_size
  <1>3. /\ call' = call /\ out' \in Outputs /\ out'.buffer = out.buffer
        /\ out'.buffer_used = used /\ out'.position = out.position /\ out'.failed = out.failed
        /\ used <= out.buffer_used /\ used \in Nat
    <2>0. /\ cos.buffer_size \in Nat /\ out.buffer_used \in Nat /\ BlockSize \in Nat
          /\ cos.buffer_size <= BlockSize /\ out.buffer_used <= BlockSize
      BY Types DEF IInv
    <2>1. CASE cos.buffer_size > 0
      <3>1. out.buffer_used = BlockSize
        BY <2>1 DEF IInv, Window
      <3>2. used \in 0 .. BlockSize /\ used \in Nat /\ used <= out.buffer_used
        BY <2>0, <2>1, <3>1
      <3>3. BackUp(cos.buffer_size)
        BY <1>1, <2>1
      <3>4. out' = [out EXCEPT !.buffer_used = used] /\ UNCHANGED call
        BY <2>0, <2>1, <3>1, <3>3 DEF BackUp
      <3> HIDE DEF used
      <3> QED
        BY <3>2, <3>4 DEF IInv, Typed, Outputs
    <2>2. CASE ~(cos.buffer_size > 0)
      <3>1. cos.buffer_size = 0 /\ used = out.buffer_used
        BY <2>0, <2>2
      <3>2. UNCHANGED <<out, call>>
        BY <1>1, <2>2
      <3> QED
        BY <2>0, <3>1, <3>2 DEF IInv, Typed
    <2> QED
      BY <2>1, <2>2
  <1>4. NoStream \in Streams /\ NoStream.live = FALSE /\ NoStream.buffer_size = 0
    BY Constants DEF NoStream, Streams
  <1>5. Typed'
    BY <1>1, <1>3, <1>4 DEF IInv, Typed
  <1>6. Carried'
    <2>1. out'.buffer_used - cos'.buffer_size = used
      BY <1>1, <1>3, <1>4
    <2>2. out.buffer = NULL => used = 0
      <3>1. out.buffer = NULL => out.buffer_used = 0
        BY DEF IInv, Carried, Carries
      <3> HIDE DEF used
      <3> QED
        BY <1>3, <3>1
    <2>3. Carries(out, file, asked - call.n, used)
      BY DEF IInv, Carried
    <2> HIDE DEF used
    <2> QED
      BY <1>1, <1>3, <2>1, <2>2, <2>3 DEF Carried, Carries, Holds
  <1>7. ~file.closed
    BY <1>1 DEF IInv, Released
  <1> QED
    BY <1>1, <1>2, <1>3, <1>4, <1>5, <1>6, <1>7
       DEF IInv, Skipping, Window, Counted, Reported, Released, Delivered, Result

LEMMA WriteRawInv ==
    ASSUME IInv, NEW n \in Int, WriteRaw(n)
    PROVE  IInv'
  <1>1. /\ call = Idle /\ cos.live /\ asked + n <= MaxBytes /\ n >= 0
        /\ call' = [op |-> "write", n |-> n] /\ done' = Result("write", FALSE)
        /\ asked' = asked + n
        /\ UNCHANGED <<cos, out, file, holes, begun>>
    BY DEF WriteRaw, CanWrite
  <1>2. call.n = 0 /\ n \in Nat /\ asked \in Nat /\ MaxBytes \in Nat /\ begun.asked \in Nat
        /\ begun.asked <= asked
    BY <1>1, IdleFacts, Types DEF IInv
  <1>3. asked' - call'.n = asked - call.n /\ call'.n = n /\ call'.op = "write"
    BY <1>1, <1>2
  <1>4. Typed'
    <2>1. call' \in Calls
      BY <1>1, <1>2 DEF Calls
    <2>2. asked' \in 0 .. MaxBytes /\ begun'.asked + call'.n <= asked'
      BY <1>1, <1>2, <1>3
    <2> QED
      BY <1>1, <2>1, <2>2 DEF IInv, Typed
  <1>5. Carried'
    BY <1>1, <1>3 DEF IInv, Carried, Carries, Holds
  <1>6. Counted'
    BY <1>1, <1>3 DEF IInv, Counted
  <1>7. Delivered'
    BY <1>1 DEF Delivered, Result
  <1> QED
    BY <1>1, <1>3, <1>4, <1>5, <1>6, <1>7 DEF IInv, Skipping, Window, Reported, Released

LEMMA SkipInv ==
    ASSUME IInv, NEW n \in Int, Skip(n)
    PROVE  IInv'
  <1>1. /\ call = Idle /\ cos.live /\ asked + n <= MaxBytes
        /\ done' = Result("skip", FALSE)
        /\ IF n < 0 THEN UNCHANGED <<call, asked, holes>>
           ELSE /\ call' = [op |-> "skip", n |-> n] /\ asked' = asked + n
                /\ holes' = holes \cup (asked + 1 .. asked + n)
        /\ UNCHANGED <<cos, out, file, begun>>
    BY DEF Skip, CanWrite
  <1>2. Delivered'
    BY <1>1 DEF Delivered, Result
  <1>3. CASE n < 0
    BY <1>1, <1>2, <1>3
       DEF IInv, Typed, Carried, Carries, Holds, Skipping, Window, Counted, Reported, Released
  <1>4. CASE ~(n < 0)
    <2>0. /\ call' = [op |-> "skip", n |-> n] /\ asked' = asked + n
          /\ holes' = holes \cup (asked + 1 .. asked + n)
      BY <1>1, <1>4
    <2>1. call.n = 0 /\ n \in Nat /\ asked \in Nat /\ MaxBytes \in Nat /\ begun.asked \in Nat
          /\ begun.asked <= asked
      BY <1>1, <1>4, IdleFacts, Types DEF IInv
    <2>2. asked' - call'.n = asked - call.n /\ call'.n = n /\ asked' - call'.n = asked
      BY <2>0, <2>1
    <2>3. Typed'
      <3>1. call' \in Calls
        BY <2>0, <2>1 DEF Calls
      <3>2. asked' \in 0 .. MaxBytes /\ begun'.asked + call'.n <= asked'
        BY <1>1, <2>0, <2>1, <2>2
      <3> QED
        BY <1>1, <3>1, <3>2 DEF IInv, Typed
    <2>4. Carried'
      <3>1. \A i \in holes : i \in holes'
        BY <2>0
      <3> QED
        BY <1>1, <2>2, <3>1 DEF IInv, Carried, Carries, Holds
    <2>5. Counted'
      BY <1>1, <2>2 DEF IInv, Counted
    <2>6. Skipping'
      BY <2>0, <2>2 DEF Skipping
    <2> QED
      BY <1>1, <1>2, <2>3, <2>4, <2>5, <2>6 DEF IInv, Window, Reported, Released
  <1> QED
    BY <1>3, <1>4

(* The loop's next n bytes, in what is left of the window. *)
LEMMA FillFacts ==
    ASSUME IInv, call.op \in {"write", "skip"}, NEW n \in 0 .. cos.buffer_size, n <= call.n,
           NEW o, o = IF call.op = "write" THEN Copied(asked - call.n + 1, n) ELSE out
    PROVE  /\ o \in Outputs /\ o.failed = out.failed /\ o.buffer_used = out.buffer_used
           /\ Carries(o, file, asked - call.n + n, out.buffer_used - cos.buffer_size + n)
  <1> DEFINE w == asked - call.n
  <1>1. /\ call.n \in Nat /\ asked \in Nat /\ MaxBytes \in Nat /\ asked <= MaxBytes
        /\ call.n <= asked /\ n \in Nat
    BY Types DEF IInv
  <1>2. w \in Nat /\ w + n <= MaxBytes /\ w + n <= asked
    BY <1>1
  <1>3. Typed /\ Window /\ Carries(out, file, w, out.buffer_used - cos.buffer_size)
    BY DEF IInv, Carried
  <1>4. CASE call.op = "write"
    <2>1. o = Copied(w + 1, n)
      BY <1>4
    <2> HIDE DEF w
    <2>2. /\ Copied(w + 1, n) \in Outputs
          /\ Copied(w + 1, n).failed = out.failed
          /\ Copied(w + 1, n).buffer_used = out.buffer_used
          /\ Carries(Copied(w + 1, n), file, w + n, out.buffer_used - cos.buffer_size + n)
      BY <1>2, <1>3, CopiedFacts
    <2> QED
      BY <2>1, <2>2 DEF w
  <1>5. CASE call.op = "skip"
    <2>1. o = out
      BY <1>5
    <2>2. (w + 1) .. (w + n) \subseteq holes
      <3>1. (asked - call.n + 1) .. asked \subseteq holes
        BY <1>5 DEF IInv, Skipping
      <3> QED
        BY <1>1, <1>2, <3>1
    <2> HIDE DEF w
    <2>3. Carries(out, file, w + n, out.buffer_used - cos.buffer_size + n)
      BY <1>2, <1>3, <2>2, SkippedFacts
    <2> QED
      BY <1>3, <2>1, <2>3 DEF w, Typed
  <1> QED
    BY <1>4, <1>5

(* A call that ends with n more bytes in the window. *)
LEMMA AdvancedInv ==
    ASSUME IInv, cos.live, NEW n \in 0 .. cos.buffer_size, cos' = Advance(cos, n),
           out' \in Outputs, out'.failed = out.failed, out'.buffer_used = out.buffer_used,
           Carries(out', file, asked - call.n + n, out.buffer_used - cos.buffer_size + n),
           call' = Idle, asked' = asked - call.n + n, asked' <= MaxBytes,
           done'.op \notin {"flush", "close"}, UNCHANGED <<file, holes, begun>>
    PROVE  IInv'
  <1>1. /\ cos.buffer_size \in Nat /\ out.buffer_used \in Nat /\ asked \in Nat /\ call.n \in Nat
        /\ n \in Nat /\ cos.total_bytes \in Nat /\ begun.asked \in Nat /\ cos.buffer \in Nat
        /\ begun.asked + call.n <= asked /\ MaxBytes \in Nat /\ n <= cos.buffer_size
        /\ Typed /\ Window
    BY Types DEF IInv
  <1>2. /\ cos' \in Streams /\ cos'.live = cos.live /\ cos'.had_error = cos.had_error
        /\ cos'.total_bytes = cos.total_bytes /\ cos'.buffer_size = cos.buffer_size - n
        /\ cos'.buffer + cos'.buffer_size = cos.buffer + cos.buffer_size
    BY <1>1, AdvanceFacts
  <1>3. call'.n = 0 /\ call'.op = "none" /\ call' \in Calls
    BY IdleFacts
  <1>4. asked' - call'.n = asked - call.n + n
    BY <1>1, <1>3
  <1>5. Typed'
    <2>1. asked' \in 0 .. MaxBytes /\ begun.asked + call'.n <= asked'
      BY <1>1, <1>3
    <2> QED
      BY <1>1, <1>2, <1>3, <2>1 DEF Typed
  <1>6. Carried'
    <2>1. out'.buffer_used - cos'.buffer_size = out.buffer_used - cos.buffer_size + n
      BY <1>1, <1>2
    <2> QED
      BY <1>4, <2>1 DEF Carried, Carries, Holds
  <1>7. Window'
    <2>1. cos'.buffer_size > 0 => cos.buffer_size > 0
      BY <1>1, <1>2
    <2>2. (cos'.buffer_size > 0 \/ (cos'.live /\ ~out'.failed))
              => out.buffer_used = BlockSize /\ cos.buffer + cos.buffer_size = BlockSize
      BY <1>1, <1>2, <2>1 DEF Window
    <2> QED
      BY <1>2, <2>2 DEF Window
  <1>8. Counted'
    <2>1. cos'.total_bytes - cos'.buffer_size = (cos.total_bytes - cos.buffer_size) + n
      BY <1>1, <1>2
    <2>2. asked' - call'.n - begun.asked = (asked - call.n - begun.asked) + n
      BY <1>1, <1>4
    <2> DEFINE count == cos.total_bytes - cos.buffer_size
               all   == asked - call.n - begun.asked
    <2>3. count >= 0 /\ count <= all /\ (~out.failed => count = all)
          /\ count \in Int /\ all \in Int
      BY <1>1 DEF IInv, Counted
    <2> HIDE DEF count, all
    <2>4. count + n >= 0 /\ count + n <= all + n /\ (~out.failed => count + n = all + n)
      BY <1>1, <2>3
    <2> QED
      BY <2>1, <2>2, <2>4 DEF Counted, count, all
  <1> QED
    BY <1>2, <1>3, <1>5, <1>6, <1>7, <1>8 DEF IInv, Skipping, Reported, Released, Delivered

LEMMA FillRestInv ==
    ASSUME IInv, FillRest
    PROVE  IInv'
  <1>1. /\ call.op \in {"write", "skip"} /\ call.n <= cos.buffer_size
        /\ out' = IF call.op = "write" THEN Copied(asked - call.n + 1, call.n) ELSE out
        /\ cos' = Advance(cos, call.n)
        /\ call' = Idle /\ done' = Result(call.op, TRUE)
        /\ UNCHANGED <<file, asked, holes, begun>>
    BY DEF FillRest
  <1>2. /\ call.n \in 0 .. cos.buffer_size /\ call.n <= call.n /\ asked - call.n + call.n = asked
        /\ asked <= MaxBytes
    <2>1. call.n \in Nat /\ asked \in Nat /\ asked <= MaxBytes /\ cos.buffer_size \in Nat
      BY Types DEF IInv
    <2>2. call.n <= cos.buffer_size
      BY <1>1
    <2> QED
      BY <2>1, <2>2
  <1>3. /\ out' \in Outputs /\ out'.failed = out.failed /\ out'.buffer_used = out.buffer_used
        /\ Carries(out', file, asked - call.n + call.n,
                   out.buffer_used - cos.buffer_size + call.n)
    BY <1>1, <1>2, FillFacts
  <1>4. cos.live
    BY <1>1, IdleFacts DEF IInv, Released
  <1>5. done'.op \notin {"flush", "close"}
    BY <1>1 DEF Result
  <1> QED
    BY <1>1, <1>2, <1>3, <1>4, <1>5, AdvancedInv

LEMMA InPlaceInv ==
    ASSUME IInv, NEW n \in Int, CanWrite(n), n >= 0, Room(n), InPlace(n)
    PROVE  IInv'
  <1>1. /\ call = Idle /\ cos.live /\ asked + n <= MaxBytes /\ cos.buffer_size >= n
        /\ cos' = Advance(cos, n) /\ out' = Copied(asked + 1, n)
        /\ asked' = asked + n /\ done' = Result("write", TRUE)
        /\ UNCHANGED <<file, call, holes, begun>>
    BY DEF CanWrite, Room, InPlace
  <1>2. /\ n \in 0 .. cos.buffer_size /\ call.n = 0 /\ asked \in Nat /\ MaxBytes \in Nat
        /\ asked - call.n = asked /\ Typed /\ Window
    BY <1>1, IdleFacts, Types DEF IInv
  <1>3. Carries(out, file, asked, out.buffer_used - cos.buffer_size)
    BY <1>2 DEF IInv, Carried
  <1>4. /\ Copied(asked + 1, n) \in Outputs
        /\ Copied(asked + 1, n).failed = out.failed
        /\ Copied(asked + 1, n).buffer_used = out.buffer_used
        /\ Carries(Copied(asked + 1, n), file, asked + n, out.buffer_used - cos.buffer_size + n)
    BY <1>1, <1>2, <1>3, CopiedFacts
  <1>5. done'.op \notin {"flush", "close"}
    BY <1>1 DEF Result
  <1> QED
    BY <1>1, <1>2, <1>4, <1>5, AdvancedInv

(* A call that refreshes the window, and what the loop then has left. *)
LEMMA RefreshInv ==
    ASSUME IInv, cos.live, NEW o \in Outputs, o.failed = out.failed, NEW r,
           NEW n \in Nat, n = asked - call.n + cos.buffer_size,
           Refreshes(cos, o, r, cos', n), out' = r.out, file' = r.file,
           call' \in Calls, call'.n <= call.n, call'.op = "skip" => call.op = "skip",
           r.ok => n = asked - call'.n, n <= asked - call'.n,
           done'.op \notin {"flush", "close"}, UNCHANGED <<asked, holes, begun>>
    PROVE  IInv'
  <1>1. /\ cos.buffer_size \in Nat /\ asked \in Nat /\ call.n \in Nat /\ cos.total_bytes \in Nat
        /\ begun.asked \in Nat /\ begun.asked + call.n <= asked /\ Typed
    BY Types DEF IInv
  <1>2. /\ cos' \in Streams /\ cos'.live = cos.live
        /\ out' \in Outputs /\ file' \in Files /\ ~file'.closed /\ r.ok \in BOOLEAN
        /\ Carries(out', file', n, out'.buffer_used - cos'.buffer_size)
    BY DEF Refreshes
  <1>3. r.ok => /\ cos'.had_error = cos.had_error /\ out'.failed = out.failed
                /\ cos'.total_bytes - cos'.buffer_size = cos.total_bytes
                /\ out'.buffer_used = BlockSize /\ cos'.buffer + cos'.buffer_size = BlockSize
    BY DEF Refreshes
  <1>4. ~r.ok => /\ cos'.had_error /\ out'.failed
                 /\ cos'.total_bytes = cos.total_bytes /\ cos'.buffer_size = 0
    BY DEF Refreshes
  <1>5. call'.n \in Nat
    BY DEF Calls, Idle
  <1>6. Typed'
    <2>1. begun.asked + call'.n <= asked
      BY <1>1, <1>5
    <2> QED
      BY <1>1, <1>2, <2>1 DEF Typed
  <1>7. Carried'
    <2>1. CASE r.ok
      BY <1>2, <2>1 DEF Carried, Carries, Holds
    <2>2. CASE ~r.ok
      <3>1. out'.failed
        BY <1>4, <2>2
      <3>2. Len(file'.data) <= asked - call'.n
        <4>1. Len(file'.data) <= n /\ Len(file'.data) \in Nat
          BY <1>2 DEF Carries, Files
        <4> QED
          BY <1>1, <1>5, <4>1
      <3> QED
        BY <1>2, <3>1, <3>2 DEF Carried, Carries, Holds
    <2> QED
      BY <1>2, <2>1, <2>2
  <1>8. Skipping'
    <2> SUFFICES ASSUME call'.op = "skip"
                 PROVE  (asked - call'.n + 1) .. asked \subseteq holes
      BY DEF Skipping
    <2>1. (asked - call.n + 1) .. asked \subseteq holes
      BY DEF IInv, Skipping
    <2> QED
      BY <1>1, <1>5, <2>1
  <1>9. Window'
    <2>1. CASE r.ok
      BY <1>2, <1>3, <2>1 DEF Window
    <2>2. CASE ~r.ok
      BY <1>4, <2>2 DEF Window
    <2> QED
      BY <1>2, <2>1, <2>2
  <1>10. Counted'
    <2>1. cos'.total_bytes - cos'.buffer_size = cos.total_bytes
      <3>1. CASE r.ok
        BY <1>3, <3>1
      <3>2. CASE ~r.ok
        BY <1>1, <1>4, <3>2
      <3> QED
        BY <1>2, <3>1, <3>2
    <2>2. /\ cos.total_bytes - cos.buffer_size <= asked - call.n - begun.asked
          /\ ~out.failed => cos.total_bytes - cos.buffer_size = asked - call.n - begun.asked
      BY DEF IInv, Counted
    <2>3. cos.total_bytes >= 0 /\ cos.total_bytes <= asked - call'.n - begun.asked
      BY <1>1, <1>5, <2>2
    <2>4. ~out'.failed => cos.total_bytes = asked - call'.n - begun.asked
      <3>1. r.ok /\ ~out.failed => cos.total_bytes = asked - call'.n - begun.asked
        <4>1. SUFFICES ASSUME r.ok, ~out.failed
                       PROVE  cos.total_bytes = asked - call'.n - begun.asked
          OBVIOUS
        <4>2. cos.total_bytes - cos.buffer_size = asked - call.n - begun.asked
              /\ asked - call.n + cos.buffer_size = asked - call'.n
          BY <2>2, <4>1
        <4> QED
          BY <1>1, <1>5, <4>2
      <3> QED
        BY <1>2, <1>3, <1>4, <3>1
    <2> QED
      BY <2>1, <2>3, <2>4 DEF Counted
  <1>11. Reported'
    BY <1>2, <1>3, <1>4 DEF IInv, Reported
  <1>12. Released' /\ Delivered'
    BY <1>2 DEF Released, Delivered
  <1> QED
    BY <1>6, <1>7, <1>8, <1>9, <1>10, <1>11, <1>12 DEF IInv

LEMMA FillBufferInv ==
    ASSUME IInv, FillBuffer
    PROVE  IInv'
  <1> DEFINE s == cos.buffer_size
             full == IF call.op = "write" THEN Copied(asked - call.n + 1, s) ELSE out
             n == asked - call.n + s
  <1>1. PICK r \in AdaptorNext(full) :
            /\ cos' = Refreshed(cos, full, r) /\ out' = r.out /\ file' = r.file
            /\ call' = IF r.ok THEN [call EXCEPT !.n = @ - s] ELSE Idle
    BY DEF FillBuffer
  <1>2. /\ call.op \in {"write", "skip"} /\ call.n > s /\ UNCHANGED <<asked, holes, begun, done>>
    BY DEF FillBuffer
  <1>3. /\ s \in Nat /\ asked \in Nat /\ call.n \in Nat /\ out.buffer_used \in Nat
        /\ asked <= MaxBytes /\ MaxBytes \in Nat /\ begun.asked + call.n <= asked
        /\ begun.asked \in Nat /\ cos.total_bytes \in Nat
        /\ cos \in Streams /\ call \in Calls /\ file \in Files /\ Typed
    BY Types DEF IInv, Typed
  <1>4. s \in 0 .. cos.buffer_size /\ s <= call.n
    BY <1>2, <1>3
  <1>5. /\ full \in Outputs /\ full.failed = out.failed /\ full.buffer_used = out.buffer_used
        /\ Carries(full, file, asked - call.n + s, out.buffer_used - cos.buffer_size + s)
    BY <1>2, <1>4, FillFacts
  <1>6. cos.live /\ ~file.closed
    BY <1>2, IdleFacts DEF IInv, Released
  <1> HIDE DEF full
  <1>7. /\ n \in 0 .. MaxBytes /\ n \in Nat /\ n <= asked
        /\ out.buffer_used - cos.buffer_size + s = out.buffer_used
    BY <1>2, <1>3
  <1>8. Carries(full, file, n, full.buffer_used)
    BY <1>5, <1>7
  <1>9. cos.total_bytes <= MaxBytes
    <2>1. cos.total_bytes - s <= asked - call.n - begun.asked
      BY <1>6 DEF IInv, Counted
    <2> QED
      BY <1>2, <1>3, <2>1
  <1>10. Refreshes(cos, full, r, cos', n)
    <2> HIDE DEF n
    <2> QED
      BY <1>1, <1>3, <1>5, <1>6, <1>7, <1>8, <1>9, RefreshedFacts
  <1>11. call # Idle
    BY <1>2, IdleFacts
  <1>12. done'.op \notin {"flush", "close"}
    BY <1>2, <1>11 DEF IInv, Delivered
  <1>13. /\ call' \in Calls /\ call'.n <= call.n /\ (call'.op = "skip" => call.op = "skip")
         /\ (r.ok => n = asked - call'.n) /\ n <= asked - call'.n
    <2>1. CASE r.ok
      <3> DEFINE rest == call.n - s
      <3>1. rest \in Nat /\ rest <= call.n /\ asked - rest = n
        BY <1>2, <1>3
      <3>2. call \in [op : {"write", "skip"}, n : Nat]
        BY <1>3, <1>11 DEF Calls
      <3>3. call' = [call EXCEPT !.n = rest]
        BY <1>1, <2>1
      <3> HIDE DEF rest
      <3>4. call'.n = rest /\ call'.op = call.op /\ call' \in Calls
        BY <3>1, <3>2, <3>3 DEF Calls
      <3> HIDE DEF n
      <3> QED
        BY <1>7, <3>1, <3>4
    <2>2. CASE ~r.ok
      <3>1. call' = Idle
        BY <1>1, <2>2
      <3>2. call'.n = 0 /\ call'.op = "none" /\ call' \in Calls
        BY <3>1, IdleFacts
      <3> HIDE DEF n
      <3> QED
        BY <1>3, <1>7, <2>2, <3>2
    <2> QED
      BY <2>1, <2>2
  <1> QED
    <2>1. n = asked - call.n + cos.buffer_size
      OBVIOUS
    <2> HIDE DEF n
    <2> QED
      BY <1>1, <1>2, <1>5, <1>6, <1>7, <1>10, <1>12, <1>13, <2>1, RefreshInv

LEMMA GetDirectBufferPointerInv ==
    ASSUME IInv, GetDirectBufferPointer
    PROVE  IInv'
  <1>1. PICK r \in AdaptorNext(out) :
            /\ cos' = Refreshed(cos, out, r) /\ out' = r.out /\ file' = r.file
            /\ done' = Result("direct", r.ok)
    BY DEF GetDirectBufferPointer
  <1>2. call = Idle /\ cos.live /\ cos.buffer_size = 0 /\ UNCHANGED <<call, asked, holes, begun>>
    BY DEF GetDirectBufferPointer
  <1>3. /\ asked \in Nat /\ call.n = 0 /\ out.buffer_used \in Nat
        /\ asked <= MaxBytes /\ MaxBytes \in Nat
        /\ begun.asked \in Nat /\ cos.total_bytes \in Nat
        /\ cos \in Streams /\ out \in Outputs /\ call \in Calls /\ file \in Files
    BY <1>2, IdleFacts, Types DEF IInv, Typed
  <1>4. /\ asked \in 0 .. MaxBytes /\ asked - call.n = asked /\ asked - call.n + cos.buffer_size = asked
        /\ out.buffer_used - cos.buffer_size = out.buffer_used
    BY <1>2, <1>3
  <1>5. Carries(out, file, asked, out.buffer_used)
    BY <1>4 DEF IInv, Carried
  <1>6. ~file.closed
    BY <1>2 DEF IInv, Released
  <1>7. cos.total_bytes <= MaxBytes
    <2>1. cos.total_bytes - cos.buffer_size <= asked - call.n - begun.asked
      BY <1>2 DEF IInv, Counted
    <2> QED
      BY <1>2, <1>3, <2>1
  <1>8. Refreshes(cos, out, r, cos', asked)
    BY <1>1, <1>3, <1>4, <1>5, <1>6, <1>7, RefreshedFacts
  <1>9. done'.op \notin {"flush", "close"}
    BY <1>1 DEF Result
  <1>10. call'.n <= call.n /\ asked <= asked - call'.n /\ asked = asked - call'.n
    BY <1>2, <1>3
  <1> QED
    BY <1>1, <1>2, <1>3, <1>4, <1>8, <1>9, <1>10, RefreshInv

(* What the client does to the file itself, once the buffer is written. *)
LEMMA OutcomeForm ==
    ASSUME NEW o, NEW r \in WriteBuffer(o)
    PROVE  r = [out |-> r.out, file |-> r.file, ok |-> r.ok, crash |-> r.crash]
  <1>1. \E p, f, ok : r = Outcome(p, f, ok) \/ r = [Outcome(p, f, ok) EXCEPT !.crash = TRUE]
    BY DEF WriteBuffer, Write
  <1> QED
    BY <1>1 DEF Outcome

LEMMA FreeWrites ==
    ASSUME IInv, FileFree, NEW r \in WriteBuffer(out)
    PROVE  /\ Writes(out, r) /\ Carries(r.out, r.file, asked, 0)
           /\ r.ok => Len(r.file.data) = asked
           /\ ~r.out.failed => r.out.buffer_used = 0
  <1>1. /\ file \in Files /\ out \in Outputs /\ asked \in 0 .. MaxBytes
        /\ out.position \in Nat /\ out.buffer_used \in Nat /\ MaxBytes \in Nat
    BY Types DEF IInv, Typed
  <1>2. Carries(out, file, asked, out.buffer_used)
    BY FreeFacts DEF FileFree
  <1>3. /\ out.buffer = NULL => out.buffer_used = 0
        /\ ~out.failed => out.position + out.buffer_used <= MaxBytes
    BY <1>1, <1>2 DEF Carries
  <1>4. file.closed => out.failed \/ out.buffer_used = 0
    BY DEF IInv, Released
  <1>5. Writes(out, r)
    BY <1>1, <1>3, <1>4, WriteBufferFacts
  <1>6. Carries(r.out, r.file, asked, 0) /\ (r.ok => Len(r.file.data) = asked)
    BY <1>1, <1>2, <1>5, WrittenCarries
  <1>7. ~r.out.failed => r.out.buffer_used = 0
    BY <1>5 DEF Writes
  <1> QED
    BY <1>5, <1>6, <1>7

LEMMA FinishInv ==
    ASSUME IInv, FileFree, NEW r \in WriteBuffer(out),
           out' = r.out, file'.data = r.file.data, file' \in Files,
           call' = IF r.crash THEN Crash ELSE Idle,
           done'.op \in {"flush", "close"} /\ done'.ok => r.ok,
           UNCHANGED <<cos, asked, holes, begun>>
    PROVE  IInv'
  <1>1. /\ Writes(out, r) /\ Carries(r.out, r.file, asked, 0)
        /\ r.ok => Len(r.file.data) = asked
        /\ ~r.out.failed => r.out.buffer_used = 0
    BY FreeWrites
  <1>2. cos = NoStream /\ cos.buffer_size = 0 /\ call = Idle /\ ~cos.live
    BY FreeFacts DEF FileFree
  <1>3. call' = Idle /\ call'.n = 0 /\ call'.op = "none" /\ call' \in Calls
    BY <1>1, IdleFacts DEF Writes
  <1>4. out' \in Outputs /\ asked \in Nat /\ asked' - call'.n = asked
    <2>1. asked \in Nat /\ asked' = asked
      BY Types DEF IInv
    <2>2. out' \in Outputs
      BY <1>1 DEF Writes
    <2> QED
      BY <1>3, <2>1, <2>2
  <1>5. Typed'
    BY <1>2, <1>3, <1>4 DEF IInv, Typed
  <1>6. Carried'
    <2>1. /\ Len(file'.data) <= asked' - call'.n /\ Holds(file.data)'
          /\ out'.position <= Len(file'.data)
          /\ out'.buffer = NULL => out'.buffer_used = 0
      BY <1>1, <1>4 DEF Carries, Holds
    <2>2. CASE out'.failed
      BY <2>1, <2>2 DEF Carried, Carries
    <2>3. CASE ~out'.failed
      <3>1. out'.buffer_used - cos'.buffer_size = 0
        BY <1>1, <1>2, <2>3
      <3> QED
        BY <1>1, <1>4, <2>1, <2>3, <3>1, Zenon DEF Carried, Carries
    <2> QED
      BY <2>2, <2>3
  <1>7. Skipping' /\ Window' /\ Counted' /\ Reported'
    BY <1>2, <1>3 DEF Skipping, Window, Counted, Reported
  <1>8. Released'
    BY <1>1, <1>2, <1>3 DEF Released
  <1>9. Delivered'
    BY <1>1, <1>3 DEF Delivered
  <1> QED
    BY <1>5, <1>6, <1>7, <1>8, <1>9 DEF IInv

LEMMA FlushInv ==
    ASSUME IInv, Flush
    PROVE  IInv'
  <1>1. PICK r \in WriteBuffer(out) : Finish(r, "flush", r.ok)
    BY DEF Flush
  <1>2. FileFree
    BY DEF Flush
  <1>3. r.file \in Files
    BY <1>2, FreeWrites DEF Writes
  <1> QED
    BY <1>1, <1>2, <1>3, FinishInv DEF Finish, Result

LEMMA DestroyFileInv ==
    ASSUME IInv, DestroyFile
    PROVE  IInv'
  <1>1. PICK r \in WriteBuffer(out) : Finish(r, "destroy", r.ok)
    BY DEF DestroyFile
  <1>2. FileFree
    BY DEF DestroyFile
  <1>3. r.file \in Files
    BY <1>2, FreeWrites DEF Writes
  <1> QED
    BY <1>1, <1>2, <1>3, FinishInv DEF Finish, Result

LEMMA CloseInv ==
    ASSUME IInv, Close
    PROVE  IInv'
  <1>1. FileFree
    BY DEF Close
  <1>2. PICK r \in WriteBuffer(out), closed \in BOOLEAN :
            Finish([r EXCEPT !.file.closed = TRUE], "close", closed /\ r.ok)
    BY DEF Close
  <1> DEFINE f == [r.file EXCEPT !.closed = TRUE]
  <1>3. r.file \in Files
    BY <1>1, FreeWrites DEF Writes
  <1>4. f \in Files /\ f.data = r.file.data
    BY <1>3 DEF Files
  <1>5. r = [out |-> r.out, file |-> r.file, ok |-> r.ok, crash |-> r.crash]
    BY OutcomeForm
  <1>6. [r EXCEPT !.file.closed = TRUE] = [r EXCEPT !.file = f]
    OBVIOUS
  <1> HIDE DEF f
  <1> DEFINE closing == [r EXCEPT !.file = f]
  <1>7. closing.out = r.out /\ closing.file = f /\ closing.crash = r.crash
    BY <1>5
  <1>8. Finish(closing, "close", closed /\ r.ok)
    BY <1>2, <1>6
  <1> HIDE DEF closing
  <1>9. done'.ok => r.ok
    BY <1>8 DEF Finish, Result
  <1> QED
    BY <1>1, <1>4, <1>7, <1>8, <1>9, FinishInv DEF Finish

LEMMA NextInv ==
    ASSUME IInv, [Next]_vars
    PROVE  IInv'
  <1>1. ASSUME NEW n \in 1 .. MaxVarint, WriteVarint(n)
        PROVE  IInv'
    <2>1. n \in Int /\ n >= 0 /\ n <= MaxVarint /\ MaxVarint \in Nat
      BY Constants
    <2>2. CASE Room(MaxVarint)
      <3>1. Room(n)
        BY <2>1, <2>2, Types DEF IInv, Room
      <3> QED
        BY <1>1, <2>1, <2>2, <3>1, InPlaceInv DEF WriteVarint
    <2>3. CASE ~Room(MaxVarint)
      BY <1>1, <2>1, <2>3, WriteRawInv DEF WriteVarint
    <2> QED
      BY <2>2, <2>3
  <1>2. ASSUME NEW n \in Sizes, WriteToArray(n)
        PROVE  IInv'
    <2>1. n \in Int
      BY Constants
    <2> QED
      BY <1>2, <2>1, InPlaceInv DEF WriteToArray
  <1>3. ASSUME NEW n \in Sizes, WriteRaw(n) \/ Skip(n)
        PROVE  IInv'
    <2>1. n \in Int
      BY Constants
    <2> QED
      BY <1>3, <2>1, WriteRawInv, SkipInv
  <1>4. CASE UNCHANGED vars
    BY <1>4 DEF vars, IInv, Typed, Carried, Carries, Holds, Skipping, Window, Counted,
                Reported, Released, Delivered
  <1> QED
    BY <1>1, <1>2, <1>3, <1>4, ConstructInv, DestroyInv, FillRestInv, FillBufferInv,
       GetDirectBufferPointerInv, FlushInv, CloseInv, DestroyFileInv DEF Next

LEMMA Invariant == Spec => []IInv
  <1>1. Init => IInv
    BY InitInv
  <1>2. IInv /\ [Next]_vars => IInv'
    BY NextInv
  <1> QED
    BY <1>1, <1>2, PTL DEF Spec

-----------------------------------------------------------------------------
(* What the runs check, for every block, every size and every number of     *)
(* bytes.                                                                   *)

(* No CHECK of the output streams fails: the destructor of a coded stream   *)
(* backs up over a buffer that it was lent and that no other call has       *)
(* touched, no write meets a closed descriptor, and the window stays in the *)
(* adaptor's buffer.                                                        *)
THEOREM ChecksNeverFail == Spec => []NoCheckFails
  <1>1. IInv => NoCheckFails
    <2> SUFFICES ASSUME IInv PROVE NoCheckFails
      OBVIOUS
    <2>1. call \in Calls
      BY DEF IInv, Typed
    <2>2. call.op \in {"none", "write", "skip"}
      BY <2>1 DEF Calls, Idle
    <2>3. {cos.live, cos.had_error, out.failed, file.closed} \subseteq BOOLEAN
      BY Types DEF IInv
    <2>4. TypeOK
      BY <2>2, <2>3, Types DEF IInv, TypeOK, Buffers
    <2> QED
      BY <2>2, <2>4 DEF NoCheckFails
  <1> QED
    BY <1>1, Invariant, PTL

(* Every write to the descriptor continues the bytes the client wrote, from *)
(* the first one on, after any sequence of coded streams, skips, back-ups   *)
(* and failed writes; Flush() and Close() return true only when nothing is  *)
(* missing.                                                                 *)
THEOREM FileAlwaysPrefix == Spec => []FileIsPrefix
  <1>1. IInv => FileIsPrefix
    <2> SUFFICES ASSUME IInv PROVE FileIsPrefix
      OBVIOUS
    <2>1. Len(file.data) <= asked - call.n /\ Holds(file.data)
      BY DEF IInv, Carried, Carries
    <2>2. Len(file.data) <= asked
      <3>1. Len(file.data) \in Nat /\ asked \in Nat /\ call.n \in Nat
        BY Types DEF IInv
      <3> QED
        BY <2>1, <3>1
    <2>3. done.op \in {"flush", "close"} /\ done.ok => Len(file.data) = asked
      BY DEF IInv, Delivered
    <2> QED
      BY <2>1, <2>2, <2>3 DEF FileIsPrefix
  <1> QED
    BY <1>1, Invariant, PTL

(* The bytes in the file and in the buffer. *)
LEMMA PendingFacts ==
    ASSUME IInv, call = Idle, cos.live, ~out.failed
    PROVE  Len(Pending) = asked /\ Holds(Pending)
  <1> DEFINE m == out.buffer_used - cos.buffer_size
             part == SubSeq(out.buffer, 1, m)
  <1>1. /\ file.data \in Seq(0 .. MaxBytes) /\ Len(file.data) \in Nat /\ out.position \in Nat
        /\ out.buffer_used \in Nat /\ cos.buffer_size \in Nat /\ BlockSize \in Nat
        /\ cos.buffer_size <= BlockSize /\ BlockSize >= 1 /\ asked \in Nat
    BY Types DEF IInv
  <1>2. out.buffer_used = BlockSize
    BY DEF IInv, Window
  <1>3. m \in 0 .. BlockSize /\ m \in Nat
    BY <1>1, <1>2
  <1>4. asked - call.n = asked
    BY <1>1, IdleFacts
  <1>5. Carries(out, file, asked, m)
    BY <1>4 DEF IInv, Carried
  <1> HIDE DEF m
  <1>6. /\ Holds(file.data) /\ Len(file.data) = out.position /\ out.position + m = asked
        /\ \A j \in 1 .. m : out.position + j \in holes \/ out.buffer[j] = out.position + j
    BY <1>5 DEF Carries
  <1>7. out.buffer # NULL
    BY <1>1, <1>2, <1>5 DEF Carries
  <1>8. out.buffer \in Seq(0 .. MaxBytes) /\ Len(out.buffer) = BlockSize
    BY <1>7, Types, Allocated DEF IInv, Buffers
  <1>9. part \in Seq(0 .. MaxBytes) /\ Len(part) = m /\ \A j \in 1 .. m : part[j] = out.buffer[j]
    <2> DEFINE b == out.buffer
    <2>1. b \in Seq(0 .. MaxBytes) /\ Len(b) = BlockSize
      BY <1>8
    <2> HIDE DEF b
    <2>2. ASSUME NEW i \in 1 .. m
          PROVE  b[i] \in 0 .. MaxBytes
      <3>1. i \in 1 .. Len(b)
        BY <1>1, <1>3, <2>1
      <3> QED
        BY <2>1, <3>1, ElementOfSeq
    <2>3. /\ SubSeq(b, 1, m) \in Seq(0 .. MaxBytes) /\ Len(SubSeq(b, 1, m)) = m
          /\ \A i \in 1 .. m : SubSeq(b, 1, m)[i] = b[i]
      BY <1>1, <1>3, <2>1, <2>2, SubSeqProperties
    <2> QED
      BY <2>3 DEF b
  <1>10. Pending = file.data \o part
    BY DEF Pending, m
  <1> HIDE DEF part
  <1>11. /\ Len(Pending) = Len(file.data) + Len(part)
         /\ \A i \in 1 .. (Len(file.data) + Len(part)) :
               Pending[i] = IF i <= Len(file.data) THEN file.data[i]
                            ELSE part[i - Len(file.data)]
    BY <1>1, <1>9, <1>10, ConcatProperties
  <1>12. ASSUME NEW i \in 1 .. Len(Pending)
         PROVE  i \in holes \/ Pending[i] = i
    <2>1. CASE i <= Len(file.data)
      <3>1. i \in 1 .. Len(file.data)
        BY <1>1, <2>1
      <3> QED
        BY <1>6, <1>11, <2>1, <3>1 DEF Holds
    <2>2. CASE ~(i <= Len(file.data))
      <3> DEFINE j == i - Len(file.data)
      <3>1. j \in 1 .. m /\ out.position + j = i
        BY <1>1, <1>3, <1>6, <1>9, <1>11, <2>2
      <3>2. Pending[i] = part[j]
        BY <1>11, <2>2
      <3> HIDE DEF j
      <3> QED
        BY <1>6, <1>9, <3>1, <3>2
    <2> QED
      BY <2>1, <2>2
  <1>13. Len(Pending) = asked
    BY <1>1, <1>3, <1>6, <1>9, <1>11
  <1> QED
    BY <1>12, <1>13 DEF Holds

(* When no call is in progress, a coded stream without HadError() over a    *)
(* file that was sound when it began has every byte in the file or in the   *)
(* buffer, and the two byte counts are those of the bytes written.          *)
THEOREM LossAlwaysReported == Spec => []LossReported
  <1>1. IInv => LossReported
    <2> SUFFICES ASSUME IInv, call = Idle
                 PROVE  /\ cos.live /\ ~cos.had_error /\ ~begun.failed
                               => Len(Pending) = asked /\ Holds(Pending)
                        /\ ~out.failed => /\ cos.live => ByteCount = asked - begun.asked
                                          /\ ByteCountOfAdaptor - cos.buffer_size = asked
      BY DEF LossReported
    <2>1. cos.live /\ ~cos.had_error /\ ~begun.failed => Len(Pending) = asked /\ Holds(Pending)
      BY PendingFacts DEF IInv, Reported
    <2>2. /\ asked \in Nat /\ out.position \in Nat /\ out.buffer_used \in Nat
          /\ cos.buffer_size \in Nat /\ begun.asked \in Nat
      BY Types DEF IInv
    <2>3. asked - call.n = asked
      BY <2>2, IdleFacts
    <2>4. ~out.failed /\ cos.live => ByteCount = asked - begun.asked
      BY <2>3 DEF IInv, Counted, ByteCount
    <2>5. ~out.failed => ByteCountOfAdaptor - cos.buffer_size = asked
      <3> SUFFICES ASSUME ~out.failed PROVE ByteCountOfAdaptor - cos.buffer_size = asked
        OBVIOUS
      <3>1. out.position + (out.buffer_used - cos.buffer_size) = asked
        BY <2>3 DEF IInv, Carried, Carries
      <3> QED
        BY <2>2, <3>1 DEF ByteCountOfAdaptor
    <2> QED
      BY <2>1, <2>4, <2>5
  <1> QED
    BY <1>1, Invariant, PTL
=============================================================================
