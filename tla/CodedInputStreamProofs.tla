----------------------- MODULE CodedInputStreamProofs -----------------------
(***************************************************************************)
(* Proofs about CodedInputStream for every stream, every way its input     *)
(* cuts it into chunks and every sequence of calls: the counters and the   *)
(* pointers agree, the destructor repositions the input, and the buffered  *)
(* stream implements the cursor with limits of LimitedReader.  Then about  *)
(* MessageParser, what generated code does with such a cursor, for inputs  *)
(* of any length, nested to any depth: it accepts exactly the sequences of *)
(* fields, and saves the unknown ones as it read them.                     *)
(***************************************************************************)
EXTENDS CodedInputStream, MessageParser, SequenceTheorems, WellFoundedInduction, TLAPS

Inputs == [pos : 0 .. Length, last : 0 .. MaxChunk]

(* The members agree with each other and with the input in: what is behind *)
(* the nearest limit is out of the buffer, the buffer starts at the        *)
(* current position, what the last Next() returned is still accounted for, *)
(* and a flat array is never read past its end.                            *)
Sound(c, in, fl) ==
    /\ c \in CodedInputStreams /\ in \in Inputs /\ fl \in BOOLEAN
    /\ BufferSize(c) >= 0
    /\ c.buffer_size_after_limit = Greater(0, c.total_bytes_read - ClosestLimit(c))
    /\ c.buffer # NULL => c.buffer = CurrentPosition(c)
    /\ c.buffer = NULL => c.buffer_end = NULL /\ c.buffer_size_after_limit = 0
    /\ c.overflow_bytes > 0 => c.total_bytes_read = IntMax
    /\ fl => /\ c.overflow_bytes = 0
             /\ c.current_limit <= c.total_bytes_read
             /\ c.total_bytes_read <= Length
    /\ ~fl => /\ c.total_bytes_read + c.overflow_bytes = in.pos
              /\ BufferSize(c) + c.buffer_size_after_limit + c.overflow_bytes <= in.last

(* The limits kept by the callers only narrow, the first is no limit. *)
Nested(c, lims, fl) ==
    /\ lims \in Seq(0 .. IntMax)
    /\ \A i \in 1 .. Len(lims) : c.current_limit <= lims[i]
    /\ \A i, j \in 1 .. Len(lims) : i <= j => lims[j] <= lims[i]
    /\ fl => \A i \in 1 .. Len(lims) : lims[i] <= c.total_bytes_read
    /\ ~fl => IF lims = << >> THEN c.current_limit = IntMax ELSE lims[1] = IntMax

(* The first unread byte, as far as the stream goes. *)
Pos(c) == Lesser(CurrentPosition(c), Length)

(* The progress of a method that has not returned. *)
Progress ==
    /\ call.op \in Working => call.from \in Nat /\ call.n \in Nat
    /\ Calls("read") => /\ call.from <= CurrentPosition(cis)
                        /\ call.n + CurrentPosition(cis) - call.from <= IntMax
    /\ Calls("varint") \/ Calls("tag") => call.from = CurrentPosition(cis) /\ call.n = 0
    /\ Calls("varintSlow") \/ Calls("tagSlow") =>
          /\ call.n <= MaxVarint
          /\ CurrentPosition(cis) = call.from + call.n
          /\ \A j \in 0 .. (call.n - 1) : call.from + j \in cont

(* A Skip() past the end of the input leaves nothing to back up. *)
Lost == /\ ~flat /\ inp.pos = Length
        /\ BufferSize(cis) = 0
        /\ cis.buffer_size_after_limit = 0 /\ cis.overflow_bytes = 0
        /\ CurrentPosition(cis) >= Length

Gone == /\ BufferSize(cis) >= 0
        /\ ~flat => inp.pos = call.from

(* The inductive invariant. *)
IInv ==
    /\ cis \in CodedInputStreams /\ inp \in Inputs /\ flat \in BOOLEAN
    /\ call \in [op : Working \cup {"none", "lost", "destroyed"}, from : Int, n : Int]
    /\ call.op \in Working \cup {"none"} => Sound(cis, inp, flat) /\ Nested(cis, limits, flat)
    /\ Progress
    /\ Calls("lost") => Lost
    /\ Calls("destroyed") => Gone

-----------------------------------------------------------------------------
(* What the helpers do to sound members. *)

(* What the proofs use of the constants. *)
LEMMA Constants ==
    /\ Length \in Nat /\ IntMax \in Nat /\ DefaultTotalBytesLimit \in Nat
    /\ MaxVarint \in Nat /\ MaxVarint > 0 /\ MaxChunk \in Nat /\ MaxChunk > 0
    /\ DefaultTotalBytesLimit <= IntMax
  BY StreamAssumption

(* The first n elements of a sequence. *)
LEMMA InitialSubSeq ==
    ASSUME NEW S, NEW s \in Seq(S), NEW n \in Nat, n <= Len(s)
    PROVE  /\ SubSeq(s, 1, n) \in Seq(S)
           /\ Len(SubSeq(s, 1, n)) = n
           /\ \A i \in 1 .. n : SubSeq(s, 1, n)[i] = s[i]
  <1>1. \A i \in 1 .. n : i \in 1 .. Len(s)
    BY LenProperties
  <1>2. \A i \in 1 .. n : s[i] \in S
    BY <1>1, ElementOfSeq
  <1>3. /\ SubSeq(s, 1, n) \in Seq(S)
        /\ Len(SubSeq(s, 1, n)) = IF 1 <= n THEN n - 1 + 1 ELSE 0
        /\ \A i \in 1 .. (n - 1 + 1) : SubSeq(s, 1, n)[i] = s[1 + i - 1]
    BY <1>2, SubSeqProperties
  <1>4. /\ (IF 1 <= n THEN n - 1 + 1 ELSE 0) = n /\ n - 1 + 1 = n
        /\ \A i \in 1 .. n : 1 + i - 1 = i
    OBVIOUS
  <1> QED
    BY <1>3, <1>4

(* The types of the members. *)
LEMMA MemberTypes ==
    ASSUME NEW c \in CodedInputStreams
    PROVE  /\ c.buffer \in -1 .. Length /\ c.buffer_end \in -1 .. Length
           /\ c.total_bytes_read \in 0 .. IntMax /\ c.overflow_bytes \in 0 .. MaxChunk
           /\ c.current_limit \in 0 .. IntMax /\ c.total_bytes_limit \in 0 .. IntMax
           /\ c.buffer_size_after_limit \in 0 .. Length
           /\ c.legitimate_message_end \in BOOLEAN /\ c.last_tag \in {0, 1}
           /\ ClosestLimit(c) \in 0 .. IntMax
           /\ ClosestLimit(c) <= c.current_limit /\ ClosestLimit(c) <= c.total_bytes_limit
           /\ BufferSize(c) = c.buffer_end - c.buffer
           /\ CurrentPosition(c) = c.total_bytes_read - BufferSize(c) - c.buffer_size_after_limit
  BY Constants DEF CodedInputStreams, ClosestLimit, Lesser, BufferSize, CurrentPosition

(* The buffer reaches up to the nearest limit or to what was read. *)
LEMMA BufferEnd ==
    ASSUME NEW c, NEW in, NEW fl, Sound(c, in, fl)
    PROVE  /\ CurrentPosition(c) \in Nat
           /\ BufferSize(c) \in Nat
           /\ CurrentPosition(c) + BufferSize(c) = Lesser(c.total_bytes_read, ClosestLimit(c))
           /\ c.total_bytes_read <= Length
           /\ Pos(c) = CurrentPosition(c)
  <1>1. /\ c.buffer \in -1 .. Length /\ c.buffer_end \in -1 .. Length
        /\ c.total_bytes_read \in 0 .. IntMax /\ c.overflow_bytes \in 0 .. MaxChunk
        /\ c.current_limit \in 0 .. IntMax /\ c.total_bytes_limit \in 0 .. IntMax
        /\ c.buffer_size_after_limit \in 0 .. Length
        /\ in.pos \in 0 .. Length
    BY DEF Sound, CodedInputStreams, Inputs
  <1>2. c.total_bytes_read <= Length
    BY <1>1, Constants DEF Sound
  <1>3. BufferSize(c) \in Nat /\ CurrentPosition(c) \in Nat
    BY <1>1, Constants DEF Sound, BufferSize, CurrentPosition, NULL
  <1>4. CurrentPosition(c) + BufferSize(c) = c.total_bytes_read - c.buffer_size_after_limit
    BY <1>1, Constants DEF BufferSize, CurrentPosition
  <1>5. c.total_bytes_read - c.buffer_size_after_limit
            = Lesser(c.total_bytes_read, ClosestLimit(c))
    BY <1>1, Constants DEF Sound, ClosestLimit, Lesser, Greater
  <1>6. CurrentPosition(c) <= Length
    BY <1>1, <1>2, <1>3, <1>4, Constants
  <1> QED
    BY <1>2, <1>3, <1>4, <1>5, <1>6, Constants DEF Pos, Lesser

(* Reading within the buffer moves the position by as much. *)
LEMMA AdvanceSound ==
    ASSUME NEW c, NEW in, NEW fl, Sound(c, in, fl), NEW k \in 0 .. BufferSize(c)
    PROVE  /\ Sound(Advance(c, k), in, fl)
           /\ CurrentPosition(Advance(c, k)) = CurrentPosition(c) + k
           /\ BufferSize(Advance(c, k)) = BufferSize(c) - k
           /\ Advance(c, k).current_limit = c.current_limit
           /\ Advance(c, k).total_bytes_limit = c.total_bytes_limit
           /\ Advance(c, k).total_bytes_read = c.total_bytes_read
  BY Constants DEF Sound, CodedInputStreams, Inputs, BufferSize, CurrentPosition,
     ClosestLimit, Lesser, Greater, NULL, Advance

(* Members that differ in the tag and the end flag only. *)
Alike(c, d) ==
    /\ c \in CodedInputStreams /\ d \in CodedInputStreams
    /\ d.buffer = c.buffer /\ d.buffer_end = c.buffer_end
    /\ d.total_bytes_read = c.total_bytes_read /\ d.overflow_bytes = c.overflow_bytes
    /\ d.current_limit = c.current_limit
    /\ d.buffer_size_after_limit = c.buffer_size_after_limit
    /\ d.total_bytes_limit = c.total_bytes_limit

LEMMA AlikeSound ==
    ASSUME NEW c, NEW d, NEW in, NEW fl, Sound(c, in, fl), Alike(c, d)
    PROVE  /\ Sound(d, in, fl)
           /\ CurrentPosition(d) = CurrentPosition(c)
           /\ BufferSize(d) = BufferSize(c)
  BY DEF Alike, Sound, CodedInputStreams, BufferSize, CurrentPosition, ClosestLimit,
     Lesser, Greater, NULL

LEMMA TagsAlike ==
    ASSUME NEW c \in CodedInputStreams, NEW name, NEW tag \in {0, 1}, NEW ok \in BOOLEAN
    PROVE  Alike(c, Tagged(c, name, tag)) /\ Alike(c, Ended(c, ok)) /\ Alike(c, c)
  BY DEF Alike, Tagged, Ended, CodedInputStreams

(* Another limit: the bytes behind it move out of the buffer, or back. *)
LEMMA RecomputeSound ==
    ASSUME NEW c, NEW in, NEW fl, Sound(c, in, fl), NEW d \in CodedInputStreams,
           d.buffer = c.buffer, d.buffer_end = c.buffer_end,
           d.total_bytes_read = c.total_bytes_read, d.overflow_bytes = c.overflow_bytes,
           d.buffer_size_after_limit = c.buffer_size_after_limit,
           ClosestLimit(d) >= CurrentPosition(c),
           fl => d.current_limit <= d.total_bytes_read
    PROVE  /\ Sound(RecomputeBufferLimits(d), in, fl)
           /\ CurrentPosition(RecomputeBufferLimits(d)) = CurrentPosition(c)
           /\ RecomputeBufferLimits(d).current_limit = d.current_limit
           /\ RecomputeBufferLimits(d).total_bytes_limit = d.total_bytes_limit
           /\ RecomputeBufferLimits(d).total_bytes_read = d.total_bytes_read
           /\ RecomputeBufferLimits(d) \in CodedInputStreams
  <1> DEFINE r == RecomputeBufferLimits(d)
             after == Greater(0, d.total_bytes_read - ClosestLimit(d))
  <1>1. c \in CodedInputStreams /\ in \in Inputs
    BY DEF Sound
  <1>2. /\ r.buffer = c.buffer
        /\ r.buffer_end = c.buffer_end + c.buffer_size_after_limit - after
        /\ r.total_bytes_read = c.total_bytes_read /\ r.overflow_bytes = c.overflow_bytes
        /\ r.current_limit = d.current_limit /\ r.total_bytes_limit = d.total_bytes_limit
        /\ r.buffer_size_after_limit = after
    BY DEF RecomputeBufferLimits, CodedInputStreams
  <1>3. ClosestLimit(r) = ClosestLimit(d)
    BY <1>2 DEF ClosestLimit
  <1>4. /\ after \in Nat
        /\ c.total_bytes_read - after = Lesser(c.total_bytes_read, ClosestLimit(d))
    BY <1>1, MemberTypes DEF Greater, Lesser
  <1>5. c.total_bytes_read - after >= CurrentPosition(c)
    BY <1>1, <1>4, MemberTypes, BufferEnd DEF Lesser
  <1>6. c.buffer = NULL => after = 0
    BY <1>1, <1>4, <1>5, MemberTypes DEF Sound, NULL
  <1> HIDE DEF r, after
  <1>7. /\ BufferSize(r) = c.total_bytes_read - after - CurrentPosition(c)
        /\ CurrentPosition(r) = CurrentPosition(c)
    BY <1>1, <1>2, <1>4, MemberTypes DEF BufferSize, CurrentPosition
  <1>8. BufferSize(r) >= 0
    BY <1>1, <1>4, <1>5, <1>7, MemberTypes, BufferEnd
  <1>9. r \in CodedInputStreams
    <2>1. r.buffer_end \in -1 .. Length /\ after \in 0 .. Length
      <3>1. c.total_bytes_read <= Length /\ CurrentPosition(c) \in Nat
        BY BufferEnd
      <3>2. after \in 0 .. Length
        BY <1>1, <1>4, <1>5, <3>1, MemberTypes, Constants
      <3>3. CASE c.buffer = NULL
        BY <1>1, <1>2, <1>6, <3>2, <3>3, MemberTypes, Constants DEF Sound, NULL
      <3>4. CASE c.buffer # NULL
        <4>1. r.buffer_end = c.total_bytes_read - after
          BY <1>1, <1>2, <1>4, <3>4, MemberTypes DEF Sound
        <4> QED
          BY <1>1, <1>4, <1>5, <3>1, <3>2, <4>1, MemberTypes, Constants
      <3> QED
        BY <3>3, <3>4
    <2>2. d.buffer_end + d.buffer_size_after_limit - after \in -1 .. Length
      BY <1>2, <2>1
    <2>3. r = [d EXCEPT !.buffer_end = d.buffer_end + d.buffer_size_after_limit - after,
                        !.buffer_size_after_limit = after]
      BY DEF r, after, RecomputeBufferLimits
    <2> QED
      BY <2>1, <2>2, <2>3 DEF CodedInputStreams
  <1>10. r.buffer = NULL => r.buffer_end = NULL /\ r.buffer_size_after_limit = 0
    BY <1>1, <1>2, <1>6, MemberTypes DEF Sound, NULL
  <1>11. /\ fl => r.current_limit <= r.total_bytes_read /\ r.total_bytes_read <= Length
         /\ ~fl => BufferSize(r) + r.buffer_size_after_limit + r.overflow_bytes <= in.last
    BY <1>1, <1>2, <1>4, <1>7, MemberTypes DEF Sound, Inputs
  <1>12. Sound(r, in, fl)
    BY <1>1, <1>2, <1>3, <1>7, <1>8, <1>9, <1>10, <1>11 DEF Sound, after
  <1> QED
    BY <1>2, <1>7, <1>9, <1>12 DEF r

(* What Next() returned becomes the buffer. *)
LEMMA RefreshedSound ==
    ASSUME NEW c, inp \in Inputs, Sound(c, inp, FALSE), BufferSize(c) = 0, ~HitLimit(c),
           NEW n \in 1 .. Lesser(MaxChunk, Length - inp.pos)
    PROVE  /\ Sound(Refreshed(c, n), [pos |-> inp.pos + n, last |-> n], FALSE)
           /\ CurrentPosition(Refreshed(c, n)) = CurrentPosition(c)
           /\ Refreshed(c, n).current_limit = c.current_limit
           /\ Refreshed(c, n).total_bytes_limit = c.total_bytes_limit
           /\ Refreshed(c, n).total_bytes_read > c.total_bytes_read
           /\ Refreshed(c, n) \in CodedInputStreams
  <1> DEFINE over == Greater(0, c.total_bytes_read - (IntMax - n))
             d == [c EXCEPT !.buffer = inp.pos, !.buffer_end = inp.pos + n - over,
                            !.total_bytes_read = @ + n - over, !.overflow_bytes = over]
             r == RecomputeBufferLimits(d)
             after == Greater(0, d.total_bytes_read - ClosestLimit(d))
  <1>1. /\ c \in CodedInputStreams
        /\ inp.pos \in 0 .. Length
        /\ n \in 1 .. MaxChunk /\ inp.pos + n <= Length
        /\ c.buffer_size_after_limit = 0 /\ c.overflow_bytes = 0
        /\ c.total_bytes_read = inp.pos
        /\ c.total_bytes_read < c.current_limit
        /\ c.total_bytes_read <= ClosestLimit(c)
    <2>1. c \in CodedInputStreams /\ inp.pos \in 0 .. Length
      BY DEF Sound, Inputs
    <2>2. c.buffer_size_after_limit = 0 /\ c.overflow_bytes = 0
      BY <2>1, MemberTypes DEF HitLimit
    <2>3. c.total_bytes_read = inp.pos /\ c.total_bytes_read <= ClosestLimit(c)
      BY <2>1, <2>2, MemberTypes DEF Sound, Greater
    <2>4. n \in 1 .. MaxChunk /\ inp.pos + n <= Length
      <3>1. MaxChunk \in Nat /\ Length \in Nat /\ inp.pos \in Nat
        BY <2>1, Constants
      <3> QED
        BY <3>1 DEF Lesser
    <2>5. c.total_bytes_read < c.current_limit
      <3>1. /\ c.total_bytes_read \in Nat /\ c.current_limit \in Nat
            /\ ClosestLimit(c) \in Nat /\ ClosestLimit(c) <= c.current_limit
        BY <2>1, MemberTypes, Constants
      <3> QED
        BY <2>2, <2>3, <3>1 DEF HitLimit
    <2> QED
      BY <2>1, <2>2, <2>3, <2>4, <2>5
  <1>2. /\ over \in 0 .. n
        /\ over < n
        /\ inp.pos + n - over <= IntMax
        /\ over > 0 => inp.pos + n - over = IntMax
    BY <1>1, MemberTypes, Constants DEF Greater
  <1>3. CurrentPosition(c) = inp.pos
    BY <1>1, MemberTypes
  <1> HIDE DEF over
  <1>4. /\ d \in CodedInputStreams
        /\ d.buffer = inp.pos /\ d.buffer_end = inp.pos + n - over
        /\ d.total_bytes_read = inp.pos + n - over /\ d.overflow_bytes = over
        /\ d.current_limit = c.current_limit /\ d.total_bytes_limit = c.total_bytes_limit
        /\ d.buffer_size_after_limit = 0
    <2>1. /\ inp.pos + n - over \in 0 .. Length
          /\ c.total_bytes_read + n - over \in 0 .. IntMax
          /\ over \in 0 .. MaxChunk
      BY <1>1, <1>2, Constants
    <2>2. inp.pos \in -1 .. Length /\ inp.pos + n - over \in -1 .. Length
      BY <1>1, <2>1, Constants
    <2> DEFINE p == inp.pos
               e == inp.pos + n - over
               t == c.total_bytes_read + n - over
    <2>3. e = t
      BY <1>1, <1>2
    <2>4. d = [c EXCEPT !.buffer = p, !.buffer_end = e, !.total_bytes_read = t, !.overflow_bytes = over]
      OBVIOUS
    <2> HIDE DEF p, e, t, d
    <2>5. p \in -1 .. Length /\ e \in -1 .. Length /\ t \in 0 .. IntMax /\ over \in 0 .. MaxChunk
      BY <2>1, <2>2 DEF p, e, t
    <2>6. /\ d \in CodedInputStreams
          /\ d.buffer = p /\ d.buffer_end = e
          /\ d.total_bytes_read = t /\ d.overflow_bytes = over
          /\ d.current_limit = c.current_limit /\ d.total_bytes_limit = c.total_bytes_limit
          /\ d.buffer_size_after_limit = c.buffer_size_after_limit
      BY <1>1, <2>4, <2>5 DEF CodedInputStreams
    <2> QED
      BY <1>1, <2>3, <2>6 DEF p, e
  <1> HIDE DEF d
  <1>5. /\ r.buffer = inp.pos
        /\ r.buffer_end = inp.pos + n - over - after
        /\ r.total_bytes_read = inp.pos + n - over /\ r.overflow_bytes = over
        /\ r.current_limit = c.current_limit /\ r.total_bytes_limit = c.total_bytes_limit
        /\ r.buffer_size_after_limit = after
    <2>1. /\ r.buffer = d.buffer
          /\ r.buffer_end = d.buffer_end + d.buffer_size_after_limit - after
          /\ r.total_bytes_read = d.total_bytes_read /\ r.overflow_bytes = d.overflow_bytes
          /\ r.current_limit = d.current_limit /\ r.total_bytes_limit = d.total_bytes_limit
          /\ r.buffer_size_after_limit = after
      BY <1>4 DEF RecomputeBufferLimits, CodedInputStreams
    <2>2. d.buffer_end \in Int /\ after \in Int
      BY <1>4, MemberTypes DEF Greater
    <2> HIDE DEF r, after
    <2>3. r.buffer_end = d.buffer_end - after
      BY <1>4, <2>1, <2>2
    <2> QED
      BY <1>1, <1>2, <1>4, <2>1, <2>2, <2>3
  <1>6. ClosestLimit(r) = ClosestLimit(d) /\ ClosestLimit(d) = ClosestLimit(c)
    BY <1>4, <1>5 DEF ClosestLimit
  <1>7. after \in 0 .. (n - over)
    BY <1>1, <1>2, <1>4, <1>6, MemberTypes DEF Greater
  <1>8. r \in CodedInputStreams
    <2>1. r = [d EXCEPT !.buffer_end = d.buffer_end + d.buffer_size_after_limit - after,
                        !.buffer_size_after_limit = after]
      BY DEF RecomputeBufferLimits
    <2>2. /\ d.buffer_end + d.buffer_size_after_limit - after \in -1 .. Length
          /\ after \in 0 .. Length
      BY <1>1, <1>2, <1>4, <1>7, Constants
    <2> HIDE DEF after, r
    <2> QED
      BY <1>4, <2>1, <2>2 DEF CodedInputStreams
  <1>9. after = Greater(0, r.total_bytes_read - ClosestLimit(r))
    BY <1>4, <1>5, <1>6
  <1> HIDE DEF r, after
  <1>10. BufferSize(r) = n - over - after /\ CurrentPosition(r) = inp.pos
    BY <1>1, <1>2, <1>5, <1>7, MemberTypes DEF BufferSize, CurrentPosition
  <1>11. [pos |-> inp.pos + n, last |-> n] \in Inputs
    BY <1>1, Constants DEF Inputs
  <1>12. Sound(r, [pos |-> inp.pos + n, last |-> n], FALSE)
    <2>1. BufferSize(r) >= 0 /\ r.buffer = CurrentPosition(r) /\ r.buffer # NULL
      BY <1>1, <1>2, <1>5, <1>7, <1>10 DEF NULL
    <2>2. /\ r.total_bytes_read + r.overflow_bytes = inp.pos + n
          /\ BufferSize(r) + r.buffer_size_after_limit + r.overflow_bytes <= n
      BY <1>1, <1>2, <1>5, <1>7, <1>10
    <2>3. r.overflow_bytes > 0 => r.total_bytes_read = IntMax
      BY <1>2, <1>5
    <2> QED
      BY <1>5, <1>8, <1>9, <1>11, <2>1, <2>2, <2>3 DEF Sound
  <1>13. Refreshed(c, n) = r
    BY DEF Refreshed, r, d, over
  <1>14. r.total_bytes_read > c.total_bytes_read
    BY <1>1, <1>2, <1>5
  <1> QED
    BY <1>3, <1>5, <1>8, <1>10, <1>12, <1>13, <1>14, Zenon

-----------------------------------------------------------------------------
(* Where reading must stop, and that it stops nowhere else. *)

(* The nearest of the limits and the end of the stream. *)
End(c) == Lesser(ClosestLimit(c), Length)

(* The buffer never reaches past the end. *)
LEMMA BufferWithinEnd ==
    ASSUME NEW c, NEW in, NEW fl, Sound(c, in, fl)
    PROVE  /\ End(c) \in Nat /\ End(c) <= IntMax /\ End(c) <= Length
           /\ CurrentPosition(c) + BufferSize(c) <= End(c)
  <1>1. c \in CodedInputStreams
    BY DEF Sound
  <1> QED
    BY <1>1, MemberTypes, BufferEnd, Constants DEF End, Lesser

(* Refresh() gives up without asking the input at the end only. *)
LEMMA HitLimitAtEnd ==
    ASSUME NEW c, NEW in, NEW fl, Sound(c, in, fl), BufferSize(c) = 0, HitLimit(c)
    PROVE  CurrentPosition(c) = End(c)
  <1>1. c \in CodedInputStreams
    BY DEF Sound
  <1>2. CurrentPosition(c) = Lesser(c.total_bytes_read, ClosestLimit(c))
    BY BufferEnd
  <1>3. ClosestLimit(c) <= c.total_bytes_read
    BY <1>1, MemberTypes DEF HitLimit, Sound, Greater
  <1> QED
    BY <1>1, <1>2, <1>3, MemberTypes, BufferEnd, Constants DEF End, Lesser

(* A flat array is always at a limit where its buffer is empty. *)
LEMMA FlatHitsLimit ==
    ASSUME NEW c, NEW in, Sound(c, in, TRUE), BufferSize(c) = 0
    PROVE  HitLimit(c)
  <1>1. c \in CodedInputStreams
    BY DEF Sound
  <1>2. /\ c.total_bytes_read \in Nat /\ c.current_limit \in Nat /\ ClosestLimit(c) \in Nat
        /\ ClosestLimit(c) <= c.current_limit
    BY <1>1, MemberTypes, Constants
  <1>3. /\ c.current_limit <= c.total_bytes_read
        /\ c.buffer_size_after_limit = Greater(0, c.total_bytes_read - ClosestLimit(c))
    BY DEF Sound
  <1> QED
    BY <1>2, <1>3 DEF HitLimit, Greater

(* What Refresh() leaves, whether it succeeds or not. *)
LEMMA RefreshSound ==
    ASSUME NEW c, NEW bad, NEW yes, NEW no, Sound(c, inp, flat), BufferSize(c) = 0,
           Alike(c, bad), Refresh(c, bad, yes, no)
    PROVE  /\ Sound(cis', inp', flat)
           /\ CurrentPosition(cis') = CurrentPosition(c)
           /\ cis'.current_limit = c.current_limit
           /\ cis'.total_bytes_limit = c.total_bytes_limit
           /\ cis'.total_bytes_read >= c.total_bytes_read
           /\ \/ /\ call' = yes /\ ~HitLimit(c) /\ inp.pos < Length
                 /\ cis'.total_bytes_read > c.total_bytes_read
              \/ /\ call' = no /\ (HitLimit(c) \/ inp.pos = Length)
                 /\ BufferSize(cis') = 0 /\ CurrentPosition(c) = End(c)
  <1>1. /\ c \in CodedInputStreams /\ bad \in CodedInputStreams
        /\ inp \in Inputs /\ flat \in BOOLEAN
        /\ inp.pos \in 0 .. Length /\ inp.last \in 0 .. MaxChunk
    BY DEF Sound, Alike, Inputs
  <1>2. c.total_bytes_read >= c.total_bytes_read
    BY <1>1, MemberTypes
  <1>3. CASE HitLimit(c) /\ cis' = bad /\ call' = no /\ UNCHANGED inp
    <2>1. Sound(bad, inp, flat) /\ CurrentPosition(bad) = CurrentPosition(c) /\ BufferSize(bad) = 0
      BY AlikeSound
    <2>2. CurrentPosition(c) = End(c)
      BY <1>3, HitLimitAtEnd
    <2>3. /\ bad.current_limit = c.current_limit /\ bad.total_bytes_limit = c.total_bytes_limit
          /\ bad.total_bytes_read = c.total_bytes_read
      BY DEF Alike
    <2> QED
      BY <1>2, <1>3, <2>1, <2>2, <2>3
  <1>4. CASE ~HitLimit(c) /\ flat
    BY <1>1, <1>4, FlatHitsLimit
  <1>5. CASE /\ ~HitLimit(c) /\ ~flat /\ inp.pos = Length
             /\ cis' = [bad EXCEPT !.buffer = NULL, !.buffer_end = NULL]
             /\ call' = no /\ inp' = [inp EXCEPT !.last = 0]
    <2>1. /\ c.buffer_size_after_limit = 0 /\ c.overflow_bytes = 0
          /\ c.total_bytes_read = Length /\ c.total_bytes_read <= ClosestLimit(c)
      BY <1>1, <1>5, MemberTypes DEF HitLimit, Sound, Greater
    <2>2. CurrentPosition(c) = Length /\ End(c) = Length
      BY <1>1, <2>1, MemberTypes, Constants DEF End, Lesser
    <2>3. /\ cis' \in CodedInputStreams
          /\ cis'.buffer = NULL /\ cis'.buffer_end = NULL
          /\ cis'.total_bytes_read = c.total_bytes_read /\ cis'.overflow_bytes = 0
          /\ cis'.current_limit = c.current_limit
          /\ cis'.buffer_size_after_limit = 0
          /\ cis'.total_bytes_limit = c.total_bytes_limit
      <3>1. NULL \in -1 .. Length
        BY Constants DEF NULL
      <3>2. cis' \in CodedInputStreams
        BY <1>1, <1>5, <3>1 DEF CodedInputStreams
      <3>3. /\ cis'.buffer = NULL /\ cis'.buffer_end = NULL
            /\ cis'.total_bytes_read = bad.total_bytes_read
            /\ cis'.overflow_bytes = bad.overflow_bytes
            /\ cis'.current_limit = bad.current_limit
            /\ cis'.buffer_size_after_limit = bad.buffer_size_after_limit
            /\ cis'.total_bytes_limit = bad.total_bytes_limit
        BY <1>1, <1>5 DEF CodedInputStreams
      <3> QED
        BY <2>1, <3>2, <3>3, Zenon DEF Alike
    <2>4. inp' \in Inputs /\ inp'.pos = inp.pos /\ inp'.last = 0
      BY <1>1, <1>5, Constants DEF Inputs
    <2>5. ClosestLimit(cis') = ClosestLimit(c)
      BY <2>3 DEF ClosestLimit
    <2>6. BufferSize(cis') = 0 /\ CurrentPosition(cis') = Length
      BY <2>1, <2>3, MemberTypes, Constants DEF NULL
    <2>7. Greater(0, c.total_bytes_read - ClosestLimit(c)) = 0
      BY <1>1, <2>1, MemberTypes DEF Greater
    <2>8. Sound(cis', inp', flat)
      BY <1>1, <1>5, <2>1, <2>3, <2>4, <2>5, <2>6, <2>7, Constants DEF Sound, NULL
    <2> QED
      BY <1>2, <1>5, <2>2, <2>3, <2>6, <2>8
  <1>6. CASE /\ ~HitLimit(c) /\ ~flat
             /\ \E n \in 1 .. Lesser(MaxChunk, Length - inp.pos) :
                    cis' = Refreshed(c, n) /\ inp' = [pos |-> inp.pos + n, last |-> n]
             /\ call' = yes
    <2>1. PICK n \in 1 .. Lesser(MaxChunk, Length - inp.pos) :
              cis' = Refreshed(c, n) /\ inp' = [pos |-> inp.pos + n, last |-> n]
      BY <1>6
    <2>2. flat = FALSE
      BY <1>1, <1>6
    <2>3. inp.pos < Length
      BY <1>1, <2>1, Constants DEF Lesser
    <2>4. /\ Sound(cis', inp', FALSE)
          /\ CurrentPosition(cis') = CurrentPosition(c)
          /\ cis'.current_limit = c.current_limit
          /\ cis'.total_bytes_limit = c.total_bytes_limit
          /\ cis'.total_bytes_read > c.total_bytes_read
          /\ cis' \in CodedInputStreams
      BY <1>1, <1>6, <2>1, <2>2, RefreshedSound
    <2>5. cis'.total_bytes_read >= c.total_bytes_read
      BY <1>1, <2>4, MemberTypes
    <2> QED
      BY <1>6, <2>2, <2>3, <2>4, <2>5
  <1> QED
    BY <1>3, <1>4, <1>5, <1>6 DEF Refresh

(* The limits kept are not affected by reading. *)
LEMMA NestedKept ==
    ASSUME NEW c \in CodedInputStreams, NEW d \in CodedInputStreams, NEW fl,
           Nested(c, limits, fl), d.current_limit = c.current_limit,
           d.total_bytes_read >= c.total_bytes_read
    PROVE  Nested(d, limits, fl)
  <1>1. c.total_bytes_read \in Int /\ d.total_bytes_read \in Int
    BY MemberTypes
  <1>2. \A i \in 1 .. Len(limits) : limits[i] \in Int
    <2>1. limits \in Seq(0 .. IntMax)
      BY Zenon DEF Nested
    <2> QED
      BY <2>1, Constants
  <1>3. fl => \A i \in 1 .. Len(limits) : limits[i] <= d.total_bytes_read
    <2> SUFFICES ASSUME fl, NEW i \in 1 .. Len(limits)
                 PROVE  limits[i] <= d.total_bytes_read
      OBVIOUS
    <2>1. limits[i] <= c.total_bytes_read
      BY Zenon DEF Nested
    <2> QED
      BY <1>1, <1>2, <2>1
  <1> QED
    BY <1>3, Zenon DEF Nested

-----------------------------------------------------------------------------
(* The inductive invariant. *)

(* The invariant of a call that returned. *)
LEMMA IdleInv ==
    ASSUME Sound(cis', inp', flat'), Nested(cis', limits', flat'), call' = Idle
    PROVE  IInv'
  <1>1. call'.op = "none" /\ call' \in [op : {"none"}, from : Int, n : Int]
    BY DEF Idle
  <1>2. cis' \in CodedInputStreams /\ inp' \in Inputs /\ flat' \in BOOLEAN
    BY DEF Sound
  <1> QED
    BY <1>1, <1>2 DEF IInv, Progress, Calls, Working

(* What a call within the step leaves of the invariant. *)
LEMMA ReturnInv ==
    ASSUME Sound(cis, inp, flat), Nested(cis, limits, flat),
           NEW c, NEW name, NEW n, NEW ok, Return(c, name, n, ok), UNCHANGED others,
           Sound(c, inp, flat), c.current_limit = cis.current_limit,
           c.total_bytes_read = cis.total_bytes_read
    PROVE  IInv'
  <1>1. c \in CodedInputStreams /\ cis \in CodedInputStreams
    BY DEF Sound
  <1>2. c.total_bytes_read >= cis.total_bytes_read
    BY <1>1, MemberTypes
  <1>3. Nested(c, limits, flat)
    BY <1>1, <1>2, NestedKept
  <1> QED
    BY <1>3, IdleInv DEF Return, others

(* What a started or continued call leaves of it. *)
LEMMA WorkingInv ==
    ASSUME Sound(cis', inp', flat'), Nested(cis', limits', flat'), call'.op \in Working,
           call' \in [op : Working, from : Int, n : Int], Progress'
    PROVE  IInv'
  <1>1. cis' \in CodedInputStreams /\ inp' \in Inputs /\ flat' \in BOOLEAN
    BY DEF Sound
  <1> QED
    BY <1>1 DEF IInv, Calls, Working

(* The buffer of a sound stream that has no bytes. *)
LEMMA ActiveInv ==
    ASSUME IInv, call.op \in Working \cup {"none"}
    PROVE  /\ Sound(cis, inp, flat) /\ Nested(cis, limits, flat)
           /\ cis \in CodedInputStreams /\ inp \in Inputs /\ flat \in BOOLEAN
           /\ BufferSize(cis) \in Nat /\ CurrentPosition(cis) \in Nat
           /\ CurrentPosition(cis) + BufferSize(cis) <= End(cis)
           /\ End(cis) <= IntMax /\ End(cis) <= Length /\ End(cis) \in Nat
           /\ BufferSize(cis) > 0 => cis.buffer = CurrentPosition(cis)
           /\ Alike(cis, cis)
  <1>1. /\ Sound(cis, inp, flat) /\ Nested(cis, limits, flat)
        /\ cis \in CodedInputStreams /\ inp \in Inputs /\ flat \in BOOLEAN
    BY DEF IInv
  <1>2. BufferSize(cis) > 0 => cis.buffer = CurrentPosition(cis)
    BY <1>1, MemberTypes DEF Sound, NULL
  <1>3. Alike(cis, cis)
    BY <1>1 DEF Alike
  <1> QED
    BY <1>1, <1>2, <1>3, BufferEnd, BufferWithinEnd

LEMMA ReadStringInv ==
    ASSUME IInv, NEW n \in Counts, ReadString(n)
    PROVE  IInv'
  <1>1. Calls("none") /\ n \in Int /\ n <= IntMax
    BY StreamAssumption, Constants DEF ReadString
  <1>2. CASE n < 0
    <2>1. Return(cis, "read", n, FALSE) /\ UNCHANGED others
      BY <1>2 DEF ReadString
    <2> QED
      BY <1>1, <2>1, ActiveInv, ReturnInv DEF Calls
  <1>3. CASE ~(n < 0)
    <2>1. /\ call' = [op |-> "read", from |-> CurrentPosition(cis), n |-> n]
          /\ UNCHANGED <<cis, inp, done, flat, cont, limits>>
      BY <1>3 DEF ReadString, others, Starts
    <2>2. n \in Nat /\ CurrentPosition(cis) \in Nat
      BY <1>1, <1>3, ActiveInv DEF Calls
    <2>3. Progress'
      BY <1>1, <2>1, <2>2, Constants DEF Progress, Calls, Working
    <2> QED
      BY <1>1, <2>1, <2>2, <2>3, ActiveInv, WorkingInv DEF Calls, Working
  <1> QED
    BY <1>2, <1>3

LEMMA ReadLoopInv ==
    ASSUME IInv, ReadLoop
    PROVE  IInv'
  <1>1. Calls("read") /\ call.op \in Working
    BY DEF ReadLoop, Calls, Working
  <1>2. /\ call.n \in Nat /\ call.from \in Nat /\ call.from <= CurrentPosition(cis)
        /\ call.n + CurrentPosition(cis) - call.from <= IntMax
        /\ call \in [op : Working \cup {"none", "lost", "destroyed"}, from : Int, n : Int]
    BY <1>1 DEF IInv, Progress
  <1>3. CASE BufferSize(cis) >= call.n /\ Return(Advance(cis, call.n), "read", Asked, TRUE)
    <2>1. call.n \in 0 .. BufferSize(cis)
      BY <1>1, <1>2, <1>3, ActiveInv
    <2> QED
      BY <1>1, <1>3, <2>1, ActiveInv, AdvanceSound, ReturnInv DEF ReadLoop
  <1>4. CASE /\ BufferSize(cis) < call.n
             /\ LET drained == Advance(cis, BufferSize(cis))
                IN  Refresh(drained, drained, [call EXCEPT !.n = @ - BufferSize(cis)], Idle)
    <2> DEFINE drained == Advance(cis, BufferSize(cis))
               more == [call EXCEPT !.n = @ - BufferSize(cis)]
    <2>1. BufferSize(cis) \in 0 .. BufferSize(cis)
      BY <1>1, ActiveInv
    <2>2. /\ Sound(drained, inp, flat) /\ BufferSize(drained) = 0
          /\ CurrentPosition(drained) = CurrentPosition(cis) + BufferSize(cis)
          /\ drained.current_limit = cis.current_limit
          /\ drained.total_bytes_read = cis.total_bytes_read
          /\ drained.total_bytes_limit = cis.total_bytes_limit
      BY <1>1, <2>1, ActiveInv, AdvanceSound
    <2>3. drained \in CodedInputStreams /\ Alike(drained, drained)
      BY <2>2 DEF Sound, Alike
    <2>4. Refresh(drained, drained, more, Idle)
      BY <1>4
    <2> HIDE DEF drained, more
    <2>5. /\ Sound(cis', inp', flat)
          /\ CurrentPosition(cis') = CurrentPosition(cis) + BufferSize(cis)
          /\ cis'.current_limit = cis.current_limit
          /\ cis'.total_bytes_read >= cis.total_bytes_read
          /\ call' = more \/ call' = Idle
      BY <2>2, <2>3, <2>4, RefreshSound
    <2>6. Nested(cis', limits', flat') /\ UNCHANGED <<flat, limits, cont>>
      <3>1. cis' \in CodedInputStreams /\ cis \in CodedInputStreams /\ Nested(cis, limits, flat)
        BY <1>1, <2>5, ActiveInv DEF Sound
      <3>2. Nested(cis', limits, flat)
        BY <2>5, <3>1, NestedKept
      <3> QED
        BY <3>2 DEF ReadLoop, others
    <2>7. CASE call' = Idle
      BY <2>5, <2>6, <2>7, IdleInv
    <2>8. CASE call' = more
      <3>1. /\ call'.op = "read" /\ call'.from = call.from /\ call'.n = call.n - BufferSize(cis)
            /\ call' \in [op : Working, from : Int, n : Int]
        BY <1>1, <1>2, <2>8, ActiveInv DEF more, Calls
      <3>2. Progress'
        BY <1>1, <1>2, <1>4, <2>5, <3>1, ActiveInv DEF Progress, Calls, Working
      <3> QED
        BY <2>5, <2>6, <3>1, <3>2, WorkingInv DEF Working
    <2> QED
      BY <2>5, <2>7, <2>8
  <1> QED
    BY <1>3, <1>4 DEF ReadLoop

(* A Skip() past the buffer: what is left to skip, how far the limits      *)
(* allow it, and how much of it the input is asked to skip.                *)
SkipCount(n) == n - BufferSize(cis)
SkipLeft     == ClosestLimit(cis) - cis.total_bytes_read
SkipTaken(n) == Lesser(SkipCount(n), SkipLeft)

(* What such a Skip(), of which SkipTaken bytes were taken, leaves. *)
SkipOutcome(n) ==
    /\ SkipCount(n) > 0
    /\ SkipLeft >= 0
    /\ SkipTaken(n) \in Nat /\ SkipTaken(n) <= SkipLeft /\ SkipTaken(n) <= SkipCount(n)
    /\ SkipTaken(n) = SkipLeft \/ SkipTaken(n) = SkipCount(n)
    /\ SkipCount(n) \in Int /\ SkipLeft \in Int
    /\ flat => SkipLeft = 0
    /\ cis.overflow_bytes > 0 => SkipLeft = 0
    /\ cis' \in CodedInputStreams /\ inp' \in Inputs
    /\ cis'.buffer = NULL /\ cis'.buffer_end = NULL
    /\ cis'.total_bytes_read = cis.total_bytes_read + SkipTaken(n)
    /\ cis'.overflow_bytes = cis.overflow_bytes
    /\ cis'.current_limit = cis.current_limit
    /\ cis'.buffer_size_after_limit = 0
    /\ cis'.total_bytes_limit = cis.total_bytes_limit
    /\ inp' = IF SkipLeft = 0 THEN inp
              ELSE [pos |-> Lesser(Length, inp.pos + SkipTaken(n)), last |-> 0]
    /\ BufferSize(cis') = 0
    /\ CurrentPosition(cis') = cis.total_bytes_read + SkipTaken(n)
    /\ CurrentPosition(cis) + BufferSize(cis) = cis.total_bytes_read
    /\ call' = IF inp.pos + SkipTaken(n) > Length THEN [Idle EXCEPT !.op = "lost"] ELSE Idle
    /\ Returned("read", n, SkipLeft >= SkipCount(n) /\ inp.pos + SkipTaken(n) <= Length)

(* A Skip() past the buffer never crashes and stays below the limits. *)
LEMMA SkipPastBufferFacts ==
    ASSUME IInv, Calls("none"), NEW n \in Int, n > BufferSize(cis),
           cis.buffer_size_after_limit = 0, SkipPastBuffer(n), UNCHANGED others
    PROVE  SkipOutcome(n)
  <1> DEFINE count == n - BufferSize(cis)
             left  == ClosestLimit(cis) - cis.total_bytes_read
             taken == IF left < count THEN Greater(0, left) ELSE count
  <1>1. /\ Sound(cis, inp, flat) /\ cis \in CodedInputStreams /\ inp \in Inputs
        /\ flat \in BOOLEAN /\ BufferSize(cis) \in Nat
    BY ActiveInv DEF Calls
  <1>2. inp.pos \in 0 .. Length /\ inp.last \in 0 .. MaxChunk
    BY <1>1 DEF Inputs
  <1>3. /\ count \in Int /\ count > 0 /\ left \in Int /\ left >= 0
        /\ flat => left = 0
        /\ cis.overflow_bytes > 0 => left = 0
    BY <1>1, MemberTypes DEF Sound, Greater
  <1>4. /\ taken = Lesser(count, left) /\ taken \in Nat /\ taken <= left
        /\ cis.total_bytes_read + taken <= ClosestLimit(cis)
    <2>1. taken = Lesser(count, left) /\ taken \in Nat /\ taken <= left
      BY <1>3 DEF Lesser, Greater
    <2> HIDE DEF taken
    <2> QED
      BY <1>1, <2>1, MemberTypes
  <1>5. left = 0 => taken = 0
    BY <1>3, <1>4
  <1>6. CurrentPosition(cis) + BufferSize(cis) = cis.total_bytes_read
    BY <1>1, MemberTypes
  <1>7. /\ cis' = [cis EXCEPT !.buffer = NULL, !.buffer_end = NULL, !.total_bytes_read = @ + taken]
        /\ inp' = IF left < count /\ left <= 0 THEN inp
                  ELSE [pos |-> Lesser(Length, inp.pos + taken), last |-> 0]
        /\ call' = IF flat /\ taken > 0 THEN Crash
                   ELSE IF inp.pos + taken > Length THEN [Idle EXCEPT !.op = "lost"] ELSE Idle
        /\ Returned("read", n, left >= count /\ ~(inp.pos + taken > Length))
    BY DEF SkipPastBuffer
  <1> HIDE DEF count, left, taken
  <1>8. /\ cis' \in CodedInputStreams
        /\ cis'.buffer = NULL /\ cis'.buffer_end = NULL
        /\ cis'.total_bytes_read = cis.total_bytes_read + taken
        /\ cis'.overflow_bytes = cis.overflow_bytes
        /\ cis'.current_limit = cis.current_limit
        /\ cis'.buffer_size_after_limit = 0
        /\ cis'.total_bytes_limit = cis.total_bytes_limit
    <2>1. cis.total_bytes_read + taken \in 0 .. IntMax
      BY <1>1, <1>4, MemberTypes, Constants
    <2>2. NULL \in -1 .. Length
      BY Constants DEF NULL
    <2> DEFINE t == cis.total_bytes_read + taken
    <2>3. cis' = [cis EXCEPT !.buffer = NULL, !.buffer_end = NULL, !.total_bytes_read = t]
      BY <1>7
    <2> HIDE DEF t
    <2>4. t \in 0 .. IntMax
      BY <2>1 DEF t
    <2>5. /\ cis' \in CodedInputStreams
          /\ cis'.buffer = NULL /\ cis'.buffer_end = NULL /\ cis'.total_bytes_read = t
          /\ cis'.overflow_bytes = cis.overflow_bytes
          /\ cis'.current_limit = cis.current_limit
          /\ cis'.buffer_size_after_limit = cis.buffer_size_after_limit
          /\ cis'.total_bytes_limit = cis.total_bytes_limit
      BY <1>1, <2>2, <2>3, <2>4 DEF CodedInputStreams
    <2> QED
      BY <2>5 DEF t
  <1>9. BufferSize(cis') = 0 /\ CurrentPosition(cis') = cis.total_bytes_read + taken
    BY <1>1, <1>4, <1>8, MemberTypes DEF NULL
  <1>10. /\ inp' = IF left = 0 THEN inp
                   ELSE [pos |-> Lesser(Length, inp.pos + taken), last |-> 0]
         /\ inp' \in Inputs
    <2>1. left < count /\ left <= 0 <=> left = 0
      BY <1>3
    <2>2. Lesser(Length, inp.pos + taken) \in 0 .. Length
      BY <1>2, <1>4, Constants DEF Lesser
    <2> QED
      BY <1>1, <1>7, <2>1, <2>2, Constants DEF Inputs
  <1>11. call' = IF inp.pos + taken > Length THEN [Idle EXCEPT !.op = "lost"] ELSE Idle
    BY <1>1, <1>3, <1>4, <1>5, <1>7
  <1>12. Returned("read", n, left >= count /\ inp.pos + taken <= Length)
    <2>1. ~(inp.pos + taken > Length) <=> inp.pos + taken <= Length
      BY <1>2, <1>4, Constants
    <2>2. (left >= count /\ ~(inp.pos + taken > Length)) = (left >= count /\ inp.pos + taken <= Length)
      BY <2>1
    <2> QED
      BY <1>7, <2>2, Zenon
  <1>13. count = SkipCount(n) /\ left = SkipLeft /\ taken = SkipTaken(n)
    BY <1>4 DEF count, left, SkipCount, SkipLeft, SkipTaken
  <1>14. taken <= count /\ (taken = left \/ taken = count)
    BY <1>3, <1>4 DEF Lesser
  <1> QED
    BY <1>3, <1>4, <1>6, <1>8, <1>9, <1>10, <1>11, <1>12, <1>13, <1>14, Zenon DEF SkipOutcome

LEMMA SkipInv ==
    ASSUME IInv, NEW n \in Counts, Skip(n)
    PROVE  IInv'
  <1>1. Calls("none") /\ n \in Int /\ UNCHANGED others
    BY StreamAssumption, Constants DEF Skip
  <1>2. /\ Sound(cis, inp, flat) /\ Nested(cis, limits, flat) /\ BufferSize(cis) \in Nat
        /\ cis \in CodedInputStreams /\ inp \in Inputs /\ flat \in BOOLEAN
    BY <1>1, ActiveInv DEF Calls
  <1>3. CASE n < 0 /\ Return(cis, "read", n, FALSE)
    BY <1>1, <1>2, <1>3, ReturnInv
  <1>4. CASE ~(n < 0) /\ n <= BufferSize(cis) /\ Return(Advance(cis, n), "read", n, TRUE)
    <2>1. n \in 0 .. BufferSize(cis)
      BY <1>1, <1>2, <1>4
    <2> QED
      BY <1>1, <1>2, <1>4, <2>1, AdvanceSound, ReturnInv
  <1>5. CASE Return(Advance(cis, BufferSize(cis)), "read", n, FALSE)
    <2>1. BufferSize(cis) \in 0 .. BufferSize(cis)
      BY <1>2
    <2> QED
      BY <1>1, <1>2, <1>5, <2>1, AdvanceSound, ReturnInv
  <1>6. CASE n > BufferSize(cis) /\ cis.buffer_size_after_limit = 0 /\ SkipPastBuffer(n)
    <2> DEFINE count == SkipCount(n)
               left  == SkipLeft
               taken == SkipTaken(n)
    <2>0. SkipOutcome(n)
      BY <1>1, <1>6, SkipPastBufferFacts
    <2>1. /\ count > 0
          /\ left >= 0
          /\ taken \in Nat /\ taken <= left /\ taken <= count
          /\ taken = left \/ taken = count
          /\ count \in Int /\ left \in Int
          /\ flat => left = 0
          /\ cis.overflow_bytes > 0 => left = 0
          /\ cis' \in CodedInputStreams /\ inp' \in Inputs
          /\ cis'.buffer = NULL /\ cis'.buffer_end = NULL
          /\ cis'.total_bytes_read = cis.total_bytes_read + taken
          /\ cis'.overflow_bytes = cis.overflow_bytes
          /\ cis'.current_limit = cis.current_limit
          /\ cis'.buffer_size_after_limit = 0
          /\ cis'.total_bytes_limit = cis.total_bytes_limit
          /\ inp' = IF left = 0 THEN inp
                    ELSE [pos |-> Lesser(Length, inp.pos + taken), last |-> 0]
          /\ BufferSize(cis') = 0
          /\ CurrentPosition(cis') = cis.total_bytes_read + taken
          /\ CurrentPosition(cis) + BufferSize(cis) = cis.total_bytes_read
          /\ call' = IF inp.pos + taken > Length THEN [Idle EXCEPT !.op = "lost"] ELSE Idle
          /\ Returned("read", n, left >= count /\ inp.pos + taken <= Length)
      BY <2>0, Zenon DEF SkipOutcome
    <2>9. left = ClosestLimit(cis) - cis.total_bytes_read
      BY DEF SkipLeft
    <2> HIDE DEF count, left, taken
    <2>2. inp.pos \in 0 .. Length /\ inp.last \in 0 .. MaxChunk
      BY <1>2 DEF Inputs
    <2>3. taken \in Nat /\ (left = 0 => taken = 0) /\ taken <= left
      BY <2>1
    <2>4. CASE inp.pos + taken > Length
      <3>1. left # 0 /\ flat = FALSE /\ cis.overflow_bytes = 0
        BY <1>2, <2>1, <2>2, <2>3, <2>4, MemberTypes, Constants
      <3>2. inp'.pos = Length
        BY <2>1, <2>2, <2>3, <2>4, <3>1, Constants DEF Lesser
      <3>3. cis.total_bytes_read = inp.pos
        BY <1>2, <2>2, <3>1, MemberTypes DEF Sound
      <3>4. CurrentPosition(cis') >= Length
        BY <2>1, <2>2, <2>3, <2>4, <3>3, Constants
      <3>5. Lost'
        BY <1>1, <2>1, <3>1, <3>2, <3>4 DEF Lost, others
      <3>6. call'.op = "lost" /\ call' \in [op : {"lost"}, from : Int, n : Int]
        BY <2>1, <2>4 DEF Idle
      <3>7. flat' \in BOOLEAN
        BY <1>1, <1>2 DEF others
      <3> QED
        BY <2>1, <3>5, <3>6, <3>7 DEF IInv, Progress, Calls, Working
    <2>5. CASE inp.pos + taken <= Length
      <3>1. ClosestLimit(cis') = ClosestLimit(cis)
        BY <2>1 DEF ClosestLimit
      <3>2. cis'.total_bytes_read <= ClosestLimit(cis')
        BY <1>2, <2>1, <2>3, <2>9, <3>1, MemberTypes
      <3>3. cis'.buffer_size_after_limit = Greater(0, cis'.total_bytes_read - ClosestLimit(cis'))
        BY <2>1, <3>2, MemberTypes DEF Greater
      <3>4. flat => /\ cis'.overflow_bytes = 0
                    /\ cis'.current_limit <= cis'.total_bytes_read
                    /\ cis'.total_bytes_read <= Length
        BY <1>2, <2>1, <2>3, MemberTypes, Constants DEF Sound
      <3>5. cis.overflow_bytes > 0 => cis'.total_bytes_read = IntMax
        BY <1>2, <2>1, <2>3, <2>9, MemberTypes DEF Sound
      <3>6. ~flat => /\ cis'.total_bytes_read + cis'.overflow_bytes = inp'.pos
                     /\ BufferSize(cis') + cis'.buffer_size_after_limit + cis'.overflow_bytes <= inp'.last
        <4> SUFFICES ASSUME ~flat
                     PROVE  /\ cis'.total_bytes_read + cis'.overflow_bytes = inp'.pos
                            /\ BufferSize(cis') + cis'.buffer_size_after_limit + cis'.overflow_bytes <= inp'.last
          OBVIOUS
        <4>1. /\ cis.total_bytes_read + cis.overflow_bytes = inp.pos
              /\ cis.overflow_bytes <= inp.last
          BY <1>2, <1>6, <2>2, MemberTypes DEF Sound
        <4>2. CASE left = 0
          BY <1>2, <2>1, <2>2, <2>3, <4>1, <4>2, MemberTypes
        <4>3. CASE left # 0
          <5>1. cis.overflow_bytes = 0
            BY <1>2, <2>1, <4>3, MemberTypes
          <5>2. inp'.pos = inp.pos + taken /\ inp'.last = 0
            BY <2>1, <2>2, <2>3, <2>5, <4>3, Constants DEF Lesser
          <5> QED
            BY <1>2, <2>1, <2>2, <2>3, <4>1, <5>1, <5>2, MemberTypes
        <4> QED
          BY <4>2, <4>3
      <3>7. Sound(cis', inp', flat)
        BY <1>2, <2>1, <3>3, <3>4, <3>5, <3>6 DEF Sound, NULL
      <3>8. cis'.total_bytes_read >= cis.total_bytes_read
        BY <1>2, <2>1, <2>3, MemberTypes
      <3>9. Nested(cis', limits, flat)
        BY <1>2, <2>1, <3>8, NestedKept
      <3>10. call' = Idle
        BY <2>1, <2>2, <2>3, <2>5, Constants
      <3> QED
        BY <1>1, <3>7, <3>9, <3>10, IdleInv DEF others
    <2> QED
      BY <2>2, <2>3, <2>4, <2>5, Constants
  <1>7. \/ n < 0 /\ Return(cis, "read", n, FALSE)
        \/ ~(n < 0) /\ n <= BufferSize(cis) /\ Return(Advance(cis, n), "read", n, TRUE)
        \/ Return(Advance(cis, BufferSize(cis)), "read", n, FALSE)
        \/ ~(n <= BufferSize(cis)) /\ ~(cis.buffer_size_after_limit > 0) /\ SkipPastBuffer(n)
    BY DEF Skip
  <1>8. /\ ~(n <= BufferSize(cis)) => n > BufferSize(cis)
        /\ ~(cis.buffer_size_after_limit > 0) => cis.buffer_size_after_limit = 0
    BY <1>1, <1>2, MemberTypes
  <1> QED
    BY <1>3, <1>4, <1>5, <1>6, <1>7, <1>8

LEMMA GetDirectBufferPointerInv ==
    ASSUME IInv, GetDirectBufferPointer
    PROVE  IInv'
  <1>1. Calls("none") /\ UNCHANGED others
    BY DEF GetDirectBufferPointer
  <1>2. /\ Sound(cis, inp, flat) /\ Nested(cis, limits, flat) /\ Alike(cis, cis)
        /\ cis \in CodedInputStreams
    BY <1>1, ActiveInv DEF Calls
  <1>3. CASE BufferSize(cis) # 0 /\ Return(cis, "peek", BufferSize(cis), TRUE)
    BY <1>1, <1>2, <1>3, ReturnInv
  <1>4. CASE BufferSize(cis) = 0 /\ Refresh(cis, cis, Idle, Idle)
    <2>1. /\ Sound(cis', inp', flat) /\ cis'.current_limit = cis.current_limit
          /\ cis'.total_bytes_read >= cis.total_bytes_read /\ call' = Idle
      BY <1>2, <1>4, RefreshSound
    <2>2. Nested(cis', limits, flat)
      BY <1>2, <2>1, NestedKept DEF Sound
    <2> QED
      BY <1>1, <2>1, <2>2, IdleInv DEF others
  <1> QED
    BY <1>3, <1>4 DEF GetDirectBufferPointer

LEMMA ReadVarintInv ==
    ASSUME IInv, ReadVarint
    PROVE  IInv'
  <1>1. /\ Calls("none") /\ call' = [op |-> "varint", from |-> CurrentPosition(cis), n |-> 0]
        /\ UNCHANGED <<cis, inp, flat, cont, limits>>
    BY DEF ReadVarint, Starts, others
  <1>2. /\ Sound(cis, inp, flat) /\ Nested(cis, limits, flat) /\ CurrentPosition(cis) \in Nat
    BY <1>1, ActiveInv DEF Calls
  <1>3. Progress'
    BY <1>1, <1>2 DEF Progress, Calls, Working
  <1> QED
    BY <1>1, <1>2, <1>3, WorkingInv DEF Working

(* A varint that InBuffer() finds ends within the buffer. *)
LEMMA LengthInBuffer ==
    ASSUME IInv, call.op \in Working \cup {"none"}, InBuffer(cis), NEW k \in Lengths(cis)
    PROVE  k \in 0 .. BufferSize(cis)
  <1>1. /\ cis \in CodedInputStreams /\ BufferSize(cis) \in Nat
        /\ k \in 1 .. MaxVarint
        /\ \A j \in 0 .. (k - 2) : cis.buffer + j \in cont
    BY ActiveInv DEF Lengths
  <1>2. CASE BufferSize(cis) >= MaxVarint
    BY <1>1, <1>2, Constants
  <1>3. CASE BufferSize(cis) > 0 /\ cis.buffer \notin cont
    <2>1. k >= 2 => cis.buffer + 0 \in cont
      BY <1>1, Constants
    <2> QED
      BY <1>1, <1>3, <2>1, MemberTypes, Constants
  <1>4. CASE BufferSize(cis) > 0 /\ cis.buffer_end - 1 \notin cont
    <2>1. cis.buffer_end - 1 = cis.buffer + (BufferSize(cis) - 1)
      BY <1>1, MemberTypes
    <2>2. BufferSize(cis) - 1 \notin 0 .. (k - 2)
      BY <1>1, <1>4, <2>1
    <2> QED
      BY <1>1, <1>4, <2>2, Constants
  <1> QED
    BY <1>2, <1>3, <1>4 DEF InBuffer

LEMMA DecodeFromArrayInv ==
    ASSUME IInv, NEW name \in {"varint", "tag"}, DecodeFromArray(name)
    PROVE  IInv'
  <1>1. /\ Calls(name) /\ call.op \in Working /\ UNCHANGED others
        /\ call.from = CurrentPosition(cis) /\ call.n = 0
        /\ call \in [op : Working \cup {"none", "lost", "destroyed"}, from : Int, n : Int]
    BY DEF DecodeFromArray, Calls, Working, IInv, Progress
  <1>2. /\ Sound(cis, inp, flat) /\ Nested(cis, limits, flat) /\ CurrentPosition(cis) \in Nat
        /\ cis \in CodedInputStreams
    BY <1>1, ActiveInv
  <1>3. CASE ~InBuffer(cis)
    <2>1. call' = [call EXCEPT !.op = Slow[name]] /\ UNCHANGED <<cis, inp, done>>
      BY <1>3 DEF DecodeFromArray
    <2>2. Slow[name] \in {"varintSlow", "tagSlow"}
      BY DEF Slow
    <2>3. /\ call'.op \in {"varintSlow", "tagSlow"} /\ call'.from = call.from /\ call'.n = 0
          /\ call' \in [op : Working, from : Int, n : Int]
      BY <1>1, <2>1, <2>2 DEF Working
    <2>4. Progress'
      BY <1>1, <1>2, <2>1, <2>3, Constants DEF Progress, Calls, Working
    <2> QED
      BY <1>1, <1>2, <2>1, <2>3, <2>4, WorkingInv DEF Working, others
  <1>4. CASE Return(Tagged(cis, name, 0), name, 0, FALSE)
    <2>1. Alike(cis, Tagged(cis, name, 0))
      BY <1>2, TagsAlike
    <2>2. Sound(Tagged(cis, name, 0), inp, flat)
      BY <1>2, <2>1, AlikeSound
    <2> QED
      BY <1>1, <1>2, <1>4, <2>1, <2>2, ReturnInv DEF Alike
  <1>5. CASE InBuffer(cis) /\ \E k \in Lengths(cis) : Return(Tagged(Advance(cis, k), name, 1), name, 0, TRUE)
    <2>1. PICK k \in Lengths(cis) : Return(Tagged(Advance(cis, k), name, 1), name, 0, TRUE)
      BY <1>5
    <2>2. k \in 0 .. BufferSize(cis)
      BY <1>1, <1>5, LengthInBuffer
    <2>3. /\ Sound(Advance(cis, k), inp, flat)
          /\ Advance(cis, k).current_limit = cis.current_limit
          /\ Advance(cis, k).total_bytes_read = cis.total_bytes_read
          /\ Advance(cis, k) \in CodedInputStreams
      BY <1>2, <2>2, AdvanceSound DEF Sound
    <2>4. Alike(Advance(cis, k), Tagged(Advance(cis, k), name, 1))
      BY <2>3, TagsAlike
    <2>5. Sound(Tagged(Advance(cis, k), name, 1), inp, flat)
      BY <2>3, <2>4, AlikeSound
    <2> QED
      BY <1>1, <1>2, <2>1, <2>3, <2>4, <2>5, ReturnInv DEF Alike
  <1> QED
    BY <1>3, <1>4, <1>5 DEF DecodeFromArray

LEMMA ReadVarint64SlowInv ==
    ASSUME IInv, NEW name \in {"varint", "tag"}, ReadVarint64Slow(name)
    PROVE  IInv'
  <1>1. /\ call.op \in {"varintSlow", "tagSlow"} /\ call.op \in Working /\ UNCHANGED others
    BY DEF ReadVarint64Slow, Calls, Working, Slow
  <1>2. /\ call.n \in Nat /\ call.from \in Nat /\ call.n <= MaxVarint
        /\ CurrentPosition(cis) = call.from + call.n
        /\ \A j \in 0 .. (call.n - 1) : call.from + j \in cont
        /\ call \in [op : Working, from : Int, n : Int]
    BY <1>1 DEF IInv, Progress, Calls, Working
  <1>3. /\ Sound(cis, inp, flat) /\ Nested(cis, limits, flat) /\ BufferSize(cis) \in Nat
        /\ cis \in CodedInputStreams /\ flat \in BOOLEAN
        /\ BufferSize(cis) > 0 => cis.buffer = CurrentPosition(cis)
    BY <1>1, ActiveInv
  <1>4. /\ Alike(cis, Tagged(cis, name, 0)) /\ Sound(Tagged(cis, name, 0), inp, flat)
    <2>1. Alike(cis, Tagged(cis, name, 0))
      BY <1>3, TagsAlike
    <2> QED
      BY <1>3, <2>1, AlikeSound
  <1>5. CASE Return(Tagged(cis, name, 0), name, 0, FALSE)
    BY <1>1, <1>3, <1>4, <1>5, ReturnInv DEF Alike
  <1>6. CASE /\ call.n < MaxVarint /\ BufferSize(cis) = 0
             /\ Refresh(cis, Tagged(cis, name, 0), call, Idle)
    <2>1. /\ Sound(cis', inp', flat) /\ cis'.current_limit = cis.current_limit
          /\ CurrentPosition(cis') = CurrentPosition(cis)
          /\ cis'.total_bytes_read >= cis.total_bytes_read
          /\ call' = call \/ call' = Idle
      BY <1>3, <1>4, <1>6, RefreshSound
    <2>2. Nested(cis', limits, flat)
      BY <1>3, <2>1, NestedKept DEF Sound
    <2>3. CASE call' = Idle
      BY <1>1, <2>1, <2>2, <2>3, IdleInv DEF others
    <2>4. CASE call' = call
      <3>1. Progress'
        BY <1>1, <1>2, <2>1, <2>4 DEF Progress, Calls, Working, others
      <3> QED
        BY <1>1, <1>2, <2>1, <2>2, <2>4, <3>1, WorkingInv DEF others
    <2> QED
      BY <2>1, <2>3, <2>4
  <1>7. CASE call.n < MaxVarint /\ BufferSize(cis) # 0
    <2>1. 1 \in 0 .. BufferSize(cis)
      BY <1>3, <1>7
    <2>2. /\ Sound(Advance(cis, 1), inp, flat)
          /\ CurrentPosition(Advance(cis, 1)) = CurrentPosition(cis) + 1
          /\ Advance(cis, 1).current_limit = cis.current_limit
          /\ Advance(cis, 1).total_bytes_read = cis.total_bytes_read
          /\ Advance(cis, 1) \in CodedInputStreams
      BY <1>3, <2>1, AdvanceSound DEF Sound
    <2>5. call.n # MaxVarint
      BY <1>2, <1>7, Constants
    <2>3. CASE cis.buffer \in cont
      <3>1. cis' = Advance(cis, 1) /\ call' = [call EXCEPT !.n = @ + 1] /\ UNCHANGED <<inp, done>>
        BY <1>7, <2>3, <2>5, Zenon DEF ReadVarint64Slow
      <3>2. /\ call'.op = call.op /\ call'.from = call.from /\ call'.n = call.n + 1
            /\ call' \in [op : Working, from : Int, n : Int]
        BY <1>2, <3>1
      <3>3. Nested(cis', limits, flat)
        BY <1>3, <2>2, <3>1, MemberTypes, NestedKept
      <3>4. \A j \in 0 .. (call'.n - 1) : call'.from + j \in cont
        <4> SUFFICES ASSUME NEW j \in 0 .. call.n PROVE call.from + j \in cont
          BY <1>2, <3>2
        <4>1. CASE j = call.n
          BY <1>2, <1>3, <1>7, <2>3, <4>1
        <4>2. CASE j # call.n
          BY <1>2, <4>2
        <4> QED
          BY <4>1, <4>2
      <3>5. Progress'
        BY <1>1, <1>2, <1>7, <2>2, <3>1, <3>2, <3>4, Constants DEF Progress, Calls, Working, others
      <3> QED
        BY <1>1, <2>2, <3>1, <3>2, <3>3, <3>5, WorkingInv DEF others
    <2>4. CASE cis.buffer \notin cont
      <3>1. Return(Tagged(Advance(cis, 1), name, 1), name, 0, TRUE)
        BY <1>7, <2>4, <2>5, Zenon DEF ReadVarint64Slow
      <3>2. Alike(Advance(cis, 1), Tagged(Advance(cis, 1), name, 1))
        BY <2>2, TagsAlike
      <3>3. Sound(Tagged(Advance(cis, 1), name, 1), inp, flat)
        BY <2>2, <3>2, AlikeSound
      <3> QED
        BY <1>1, <1>3, <2>2, <3>1, <3>2, <3>3, ReturnInv DEF Alike
    <2> QED
      BY <2>3, <2>4
  <1> QED
    BY <1>5, <1>6, <1>7 DEF ReadVarint64Slow

LEMMA ReadTagInv ==
    ASSUME IInv, ReadTag
    PROVE  IInv'
  <1>1. Calls("none") /\ UNCHANGED others
    BY DEF ReadTag
  <1>2. /\ Sound(cis, inp, flat) /\ Nested(cis, limits, flat) /\ CurrentPosition(cis) \in Nat
        /\ cis \in CodedInputStreams
    BY <1>1, ActiveInv DEF Calls
  <1>3. \A ok \in BOOLEAN : Alike(cis, Ended(cis, ok)) /\ Sound(Ended(cis, ok), inp, flat)
    BY <1>2, TagsAlike, AlikeSound
  <1> DEFINE first == [op |-> "tag", from |-> CurrentPosition(cis), n |-> 0]
  <1>4. Starts("tag", 0) = first
    BY DEF Starts
  <1>5. ASSUME Sound(cis', inp', flat), Nested(cis', limits, flat), call' = first,
               CurrentPosition(cis') = CurrentPosition(cis)
        PROVE  IInv'
    <2>1. Progress'
      BY <1>2, <1>5 DEF Progress, Calls, Working
    <2> QED
      BY <1>1, <1>2, <1>5, <2>1, WorkingInv DEF Working, others
  <1>6. CASE call' = Starts("tag", 0) /\ UNCHANGED <<cis, inp, done>>
    BY <1>2, <1>4, <1>5, <1>6
  <1>7. CASE Return(Ended(cis, TRUE), "end", 0, TRUE)
    BY <1>1, <1>2, <1>3, <1>7, ReturnInv DEF Alike
  <1>8. CASE BufferSize(cis) = 0 /\ Refresh(cis, Ended(cis, Legitimate(cis)), Starts("tag", 0), Idle)
    <2>1. Legitimate(cis) \in BOOLEAN
      BY DEF Legitimate
    <2>2. Alike(cis, Ended(cis, Legitimate(cis)))
      BY <1>3, <2>1
    <2>3. /\ Sound(cis', inp', flat) /\ cis'.current_limit = cis.current_limit
          /\ CurrentPosition(cis') = CurrentPosition(cis)
          /\ cis'.total_bytes_read >= cis.total_bytes_read
          /\ call' = first \/ call' = Idle
      BY <1>2, <1>4, <1>8, <2>2, RefreshSound
    <2>4. Nested(cis', limits, flat)
      BY <1>2, <2>3, NestedKept DEF Sound
    <2>5. CASE call' = Idle
      BY <1>1, <2>3, <2>4, <2>5, IdleInv DEF others
    <2> QED
      BY <1>5, <2>3, <2>4, <2>5
  <1> QED
    BY <1>6, <1>7, <1>8 DEF ReadTag

LEMMA ExpectAtEndInv ==
    ASSUME IInv, ExpectAtEnd
    PROVE  IInv'
  <1>1. Calls("none") /\ UNCHANGED others /\ Return(Ended(cis, TRUE), "atEnd", 0, TRUE)
    BY DEF ExpectAtEnd
  <1>2. Sound(cis, inp, flat) /\ Nested(cis, limits, flat) /\ cis \in CodedInputStreams
    BY <1>1, ActiveInv DEF Calls
  <1>3. Alike(cis, Ended(cis, TRUE)) /\ Sound(Ended(cis, TRUE), inp, flat)
    BY <1>2, TagsAlike, AlikeSound
  <1> QED
    BY <1>1, <1>2, <1>3, ReturnInv DEF Alike

(* The members with another current or total limit. *)
WithLimits(lim, total) == [cis EXCEPT !.current_limit = lim, !.total_bytes_limit = total]

(* What RecomputeBufferLimits() makes of them. *)
LEMMA LimitChanged ==
    ASSUME Sound(cis, inp, flat), NEW lim \in 0 .. IntMax, NEW total \in 0 .. IntMax,
           lim >= CurrentPosition(cis), total >= CurrentPosition(cis),
           flat => lim <= cis.total_bytes_read
    PROVE  /\ Sound(RecomputeBufferLimits(WithLimits(lim, total)), inp, flat)
           /\ CurrentPosition(RecomputeBufferLimits(WithLimits(lim, total))) = CurrentPosition(cis)
           /\ RecomputeBufferLimits(WithLimits(lim, total)).current_limit = lim
           /\ RecomputeBufferLimits(WithLimits(lim, total)).total_bytes_limit = total
           /\ RecomputeBufferLimits(WithLimits(lim, total)).total_bytes_read = cis.total_bytes_read
           /\ RecomputeBufferLimits(WithLimits(lim, total)) \in CodedInputStreams
  <1> DEFINE c == WithLimits(lim, total)
  <1>1. cis \in CodedInputStreams /\ CurrentPosition(cis) \in Nat
    BY BufferEnd DEF Sound
  <1>2. /\ c \in CodedInputStreams
        /\ c.buffer = cis.buffer /\ c.buffer_end = cis.buffer_end
        /\ c.total_bytes_read = cis.total_bytes_read /\ c.overflow_bytes = cis.overflow_bytes
        /\ c.buffer_size_after_limit = cis.buffer_size_after_limit
        /\ c.current_limit = lim /\ c.total_bytes_limit = total
    BY <1>1 DEF CodedInputStreams, WithLimits
  <1>3. ClosestLimit(c) >= CurrentPosition(cis)
    BY <1>1, <1>2, Constants DEF ClosestLimit, Lesser
  <1>4. flat => c.current_limit <= c.total_bytes_read
    BY <1>2
  <1> HIDE DEF c
  <1>5. /\ Sound(RecomputeBufferLimits(c), inp, flat)
        /\ CurrentPosition(RecomputeBufferLimits(c)) = CurrentPosition(cis)
        /\ RecomputeBufferLimits(c).current_limit = c.current_limit
        /\ RecomputeBufferLimits(c).total_bytes_limit = c.total_bytes_limit
        /\ RecomputeBufferLimits(c).total_bytes_read = c.total_bytes_read
        /\ RecomputeBufferLimits(c) \in CodedInputStreams
    BY <1>2, <1>3, <1>4, RecomputeSound
  <1> QED
    BY <1>2, <1>5, Zenon DEF c

(* The position is within the limits in force. *)
LEMMA PositionWithinLimits ==
    ASSUME Sound(cis, inp, flat)
    PROVE  /\ CurrentPosition(cis) \in Nat
           /\ CurrentPosition(cis) <= cis.current_limit
           /\ CurrentPosition(cis) <= cis.total_bytes_limit
           /\ cis.current_limit \in 0 .. IntMax /\ cis.total_bytes_limit \in 0 .. IntMax
           /\ cis.total_bytes_read \in 0 .. IntMax
           /\ cis \in CodedInputStreams /\ flat \in BOOLEAN
           /\ flat => cis.current_limit <= cis.total_bytes_read
  <1>1. cis \in CodedInputStreams
    BY DEF Sound
  <1>2. CurrentPosition(cis) <= ClosestLimit(cis)
    BY <1>1, MemberTypes, BufferEnd DEF Lesser
  <1> QED
    BY <1>1, <1>2, MemberTypes, BufferEnd DEF Sound

(* The limit PushLimit(n) is asked for. *)
AskedLimit(n) == IF n >= 0 /\ n <= IntMax - CurrentPosition(cis)
                 THEN CurrentPosition(cis) + n ELSE IntMax

LEMMA PushLimitFacts ==
    ASSUME IInv, NEW n \in Int, PushLimit(n)
    PROVE  /\ Sound(cis', inp', flat') /\ Nested(cis', limits', flat')
           /\ CurrentPosition(cis') = CurrentPosition(cis)
           /\ cis'.current_limit = Lesser(AskedLimit(n), cis.current_limit)
           /\ cis'.total_bytes_limit = cis.total_bytes_limit
           /\ limits' = Append(limits, cis.current_limit)
           /\ call' = call /\ Calls("none") /\ UNCHANGED <<inp, flat, cont, done>>
  <1> DEFINE lim == Lesser(AskedLimit(n), cis.current_limit)
             c == WithLimits(lim, cis.total_bytes_limit)
  <1>1. /\ Calls("none") /\ limits' = Append(limits, cis.current_limit)
        /\ cis' = RecomputeBufferLimits([cis EXCEPT !.current_limit = lim])
        /\ UNCHANGED <<inp, flat, cont, call, done>>
    BY DEF PushLimit, AskedLimit
  <1>2. Sound(cis, inp, flat) /\ Nested(cis, limits, flat)
    BY <1>1, ActiveInv DEF Calls
  <1>3. /\ CurrentPosition(cis) \in Nat
        /\ CurrentPosition(cis) <= cis.current_limit
        /\ CurrentPosition(cis) <= cis.total_bytes_limit
        /\ cis.current_limit \in 0 .. IntMax /\ cis.total_bytes_limit \in 0 .. IntMax
        /\ cis.total_bytes_read \in 0 .. IntMax
        /\ cis \in CodedInputStreams /\ flat \in BOOLEAN
        /\ flat => cis.current_limit <= cis.total_bytes_read
    BY <1>2, PositionWithinLimits
  <1>4. /\ lim \in 0 .. IntMax /\ lim >= CurrentPosition(cis) /\ lim <= cis.current_limit
    BY <1>3, Constants DEF Lesser, AskedLimit
  <1> HIDE DEF lim
  <1>5. [cis EXCEPT !.current_limit = lim] = c
    BY <1>3 DEF CodedInputStreams, WithLimits
  <1>6. flat => lim <= cis.total_bytes_read
    BY <1>3, <1>4
  <1>7. cis.total_bytes_limit >= CurrentPosition(cis)
    BY <1>3
  <1> HIDE DEF c
  <1>8. /\ Sound(cis', inp, flat) /\ CurrentPosition(cis') = CurrentPosition(cis)
        /\ cis'.current_limit = lim /\ cis'.total_bytes_limit = cis.total_bytes_limit
        /\ cis'.total_bytes_read = cis.total_bytes_read
    <2>1. cis' = RecomputeBufferLimits(WithLimits(lim, cis.total_bytes_limit))
      BY <1>1, <1>5 DEF c
    <2> QED
      BY <1>2, <1>3, <1>4, <1>6, <1>7, <2>1, LimitChanged
  <1>9. Nested(cis', limits', flat)
    <2>1. /\ limits \in Seq(0 .. IntMax)
          /\ \A i \in 1 .. Len(limits) : cis.current_limit <= limits[i]
          /\ \A i, j \in 1 .. Len(limits) : i <= j => limits[j] <= limits[i]
          /\ flat => \A i \in 1 .. Len(limits) : limits[i] <= cis.total_bytes_read
          /\ ~flat => IF limits = << >> THEN cis.current_limit = IntMax ELSE limits[1] = IntMax
      BY <1>2, Zenon DEF Nested
    <2>2. /\ limits' \in Seq(0 .. IntMax) /\ Len(limits') = Len(limits) + 1
          /\ \A i \in 1 .. Len(limits) : limits'[i] = limits[i]
          /\ limits'[Len(limits) + 1] = cis.current_limit
      BY <1>1, <1>3, <2>1
    <2>3. \A i \in 1 .. Len(limits') : /\ cis.current_limit <= limits'[i]
                                       /\ flat => limits'[i] <= cis.total_bytes_read
                                       /\ limits'[i] \in 0 .. IntMax
      <3> SUFFICES ASSUME NEW i \in 1 .. Len(limits')
                   PROVE  /\ cis.current_limit <= limits'[i]
                          /\ flat => limits'[i] <= cis.total_bytes_read
                          /\ limits'[i] \in 0 .. IntMax
        OBVIOUS
      <3>1. CASE i = Len(limits) + 1
        BY <1>3, <2>2, <3>1
      <3>2. CASE i # Len(limits) + 1
        <4>1. i \in 1 .. Len(limits) /\ limits'[i] = limits[i]
          BY <2>1, <2>2, <3>2
        <4>2. limits[i] \in 0 .. IntMax
          BY <2>1, <4>1, ElementOfSeq
        <4> QED
          BY <2>1, <4>1, <4>2, Zenon
      <3> QED
        BY <3>1, <3>2
    <2>4. \A i, j \in 1 .. Len(limits') : i <= j => limits'[j] <= limits'[i]
      BY <1>3, <2>1, <2>2
    <2>5. ~flat => limits' # << >> /\ limits'[1] = IntMax
      BY <1>3, <2>1, <2>2
    <2>6. \A i \in 1 .. Len(limits') : lim <= limits'[i]
      BY <1>3, <1>4, <2>3, Constants
    <2> QED
      BY <1>8, <2>2, <2>3, <2>4, <2>5, <2>6 DEF Nested
  <1> QED
    BY <1>1, <1>8, <1>9 DEF lim

LEMMA PopLimitFacts ==
    ASSUME IInv, PopLimit
    PROVE  /\ Sound(cis', inp', flat') /\ Nested(cis', limits', flat')
           /\ CurrentPosition(cis') = CurrentPosition(cis)
           /\ cis'.total_bytes_limit = cis.total_bytes_limit
           /\ limits \in Seq(0 .. IntMax) /\ limits # << >>
           /\ limits' = SubSeq(limits, 1, Len(limits) - 1)
           /\ cis'.current_limit = limits[Len(limits)]
           /\ call' = call /\ Calls("none") /\ UNCHANGED <<inp, flat, cont, done>>
  <1> DEFINE lim == limits[Len(limits)]
             c == WithLimits(lim, cis.total_bytes_limit)
             r == RecomputeBufferLimits(c)
  <1>1. /\ Calls("none") /\ limits # << >> /\ limits' = SubSeq(limits, 1, Len(limits) - 1)
        /\ cis' = [RecomputeBufferLimits([cis EXCEPT !.current_limit = lim])
                       EXCEPT !.legitimate_message_end = FALSE]
        /\ UNCHANGED <<inp, flat, cont, call, done>>
    BY DEF PopLimit, Front, Last
  <1>2. Sound(cis, inp, flat) /\ Nested(cis, limits, flat)
    BY <1>1, ActiveInv DEF Calls
  <1>3. /\ CurrentPosition(cis) \in Nat
        /\ CurrentPosition(cis) <= cis.current_limit
        /\ CurrentPosition(cis) <= cis.total_bytes_limit
        /\ cis.current_limit \in 0 .. IntMax /\ cis.total_bytes_limit \in 0 .. IntMax
        /\ cis.total_bytes_read \in 0 .. IntMax
        /\ cis \in CodedInputStreams /\ flat \in BOOLEAN
    BY <1>2, PositionWithinLimits
  <1>4. /\ limits \in Seq(0 .. IntMax)
        /\ \A i \in 1 .. Len(limits) : cis.current_limit <= limits[i]
        /\ \A i, j \in 1 .. Len(limits) : i <= j => limits[j] <= limits[i]
        /\ flat => \A i \in 1 .. Len(limits) : limits[i] <= cis.total_bytes_read
        /\ ~flat => limits[1] = IntMax
    BY <1>1, <1>2, Zenon DEF Nested
  <1>5. Len(limits) \in 1 .. Len(limits) /\ Len(limits) \in Nat
    BY <1>1, <1>4
  <1>6. /\ lim \in 0 .. IntMax /\ cis.current_limit <= lim
        /\ flat => lim <= cis.total_bytes_read
    <2>1. lim \in 0 .. IntMax
      BY <1>4, <1>5, ElementOfSeq
    <2> QED
      BY <1>4, <1>5, <2>1, Zenon
  <1> HIDE DEF lim
  <1>7. lim >= CurrentPosition(cis) /\ cis.total_bytes_limit >= CurrentPosition(cis)
    BY <1>3, <1>6
  <1>8. [cis EXCEPT !.current_limit = lim] = c
    BY <1>3 DEF CodedInputStreams, WithLimits
  <1>9. /\ Sound(r, inp, flat) /\ CurrentPosition(r) = CurrentPosition(cis)
        /\ r.current_limit = lim /\ r.total_bytes_limit = cis.total_bytes_limit
        /\ r.total_bytes_read = cis.total_bytes_read
        /\ r \in CodedInputStreams
    BY <1>2, <1>3, <1>6, <1>7, LimitChanged
  <1>10. cis' = [r EXCEPT !.legitimate_message_end = FALSE]
    BY <1>1, <1>8
  <1> HIDE DEF c, r
  <1>11. Alike(r, cis')
    BY <1>9, <1>10 DEF Alike, CodedInputStreams
  <1>12. /\ Sound(cis', inp, flat) /\ CurrentPosition(cis') = CurrentPosition(cis)
         /\ cis'.current_limit = lim /\ cis'.total_bytes_limit = cis.total_bytes_limit
         /\ cis'.total_bytes_read = cis.total_bytes_read
    BY <1>9, <1>11, AlikeSound DEF Alike
  <1>13. Nested(cis', limits', flat)
    <2>1. /\ limits' \in Seq(0 .. IntMax) /\ Len(limits') = Len(limits) - 1
          /\ \A i \in 1 .. Len(limits') : limits'[i] = limits[i]
      <3>1. Len(limits) - 1 \in Nat /\ Len(limits) - 1 <= Len(limits)
        BY <1>5
      <3>2. /\ SubSeq(limits, 1, Len(limits) - 1) \in Seq(0 .. IntMax)
            /\ Len(SubSeq(limits, 1, Len(limits) - 1)) = Len(limits) - 1
            /\ \A i \in 1 .. (Len(limits) - 1) : SubSeq(limits, 1, Len(limits) - 1)[i] = limits[i]
        BY <1>4, <3>1, InitialSubSeq
      <3> QED
        BY <1>1, <3>2
    <2>2. \A i \in 1 .. Len(limits') : i \in 1 .. Len(limits) /\ i <= Len(limits)
      BY <1>5, <2>1
    <2>3. \A i \in 1 .. Len(limits') : lim <= limits'[i]
      BY <1>4, <1>5, <2>1, <2>2 DEF lim
    <2>4. ~flat => IF limits' = << >> THEN lim = IntMax ELSE limits'[1] = IntMax
      <3>1. CASE Len(limits) = 1
        BY <1>4, <2>1, <3>1 DEF lim
      <3>2. CASE Len(limits) # 1
        BY <1>4, <1>5, <2>1, <3>2
      <3> QED
        BY <3>1, <3>2
    <2>5. /\ \A i, j \in 1 .. Len(limits') : i <= j => limits'[j] <= limits'[i]
          /\ flat => \A i \in 1 .. Len(limits') : limits'[i] <= cis.total_bytes_read
      BY <1>4, <2>1, <2>2
    <2> QED
      BY <1>12, <2>1, <2>3, <2>4, <2>5 DEF Nested
  <1> QED
    BY <1>1, <1>4, <1>12, <1>13 DEF lim

LEMMA SetTotalBytesLimitFacts ==
    ASSUME IInv, NEW n \in TotalLimits, SetTotalBytesLimit(n)
    PROVE  /\ Sound(cis', inp', flat') /\ Nested(cis', limits', flat')
           /\ CurrentPosition(cis') = CurrentPosition(cis)
           /\ cis'.current_limit = cis.current_limit
           /\ cis'.total_bytes_limit = Greater(CurrentPosition(cis), n)
           /\ call' = call /\ Calls("none") /\ UNCHANGED <<inp, flat, cont, limits, done>>
  <1> DEFINE total == Greater(CurrentPosition(cis), n)
  <1>1. /\ Calls("none") /\ cis' = RecomputeBufferLimits([cis EXCEPT !.total_bytes_limit = total])
        /\ UNCHANGED <<inp, flat, cont, call, limits, done>>
    BY DEF SetTotalBytesLimit
  <1>2. Sound(cis, inp, flat) /\ Nested(cis, limits, flat)
    BY <1>1, ActiveInv DEF Calls
  <1>3. /\ CurrentPosition(cis) \in Nat
        /\ CurrentPosition(cis) <= cis.current_limit
        /\ cis.current_limit \in 0 .. IntMax
        /\ cis \in CodedInputStreams
        /\ flat => cis.current_limit <= cis.total_bytes_read
    BY <1>2, PositionWithinLimits
  <1>4. n \in Int /\ n <= IntMax
    BY StreamAssumption, Constants
  <1>5. total \in 0 .. IntMax /\ total >= CurrentPosition(cis)
    BY <1>3, <1>4, Constants DEF Greater
  <1>6. cis.current_limit >= CurrentPosition(cis)
    BY <1>3
  <1> HIDE DEF total
  <1>7. [cis EXCEPT !.total_bytes_limit = total] = WithLimits(cis.current_limit, total)
    BY <1>3 DEF CodedInputStreams, WithLimits
  <1>8. /\ Sound(cis', inp, flat) /\ CurrentPosition(cis') = CurrentPosition(cis)
        /\ cis'.current_limit = cis.current_limit /\ cis'.total_bytes_limit = total
        /\ cis'.total_bytes_read = cis.total_bytes_read
        /\ cis' \in CodedInputStreams
    BY <1>1, <1>2, <1>3, <1>5, <1>6, <1>7, LimitChanged
  <1>9. Nested(cis', limits, flat)
    BY <1>2, <1>3, <1>8, MemberTypes, NestedKept
  <1> QED
    BY <1>1, <1>8, <1>9 DEF total

(* A change of the limits between two calls. *)
LEMMA LimitsInv ==
    ASSUME IInv, Calls("none"), Sound(cis', inp', flat'), Nested(cis', limits', flat'), call' = call
    PROVE  IInv'
  <1>1. cis' \in CodedInputStreams /\ inp' \in Inputs /\ flat' \in BOOLEAN
    BY DEF Sound
  <1> QED
    BY <1>1 DEF IInv, Progress, Calls, Working

LEMMA DestroyFacts ==
    ASSUME IInv, Destroy
    PROVE  /\ IInv' /\ call'.op = "destroyed"
           /\ CurrentPosition(cis') = CurrentPosition(cis)
           /\ cis'.current_limit = cis.current_limit
           /\ cis'.total_bytes_limit = cis.total_bytes_limit
           /\ UNCHANGED <<flat, cont, limits, done>>
  <1> DEFINE backup == IF flat THEN 0 ELSE BackUpBytes(cis)
             left   == [op |-> "destroyed", from |-> Pos(cis), n |-> 0]
  <1>1. /\ Calls("none") \/ Calls("lost")
        /\ UNCHANGED <<flat, cont, limits, done>>
        /\ IF backup = 0 THEN call' = left /\ UNCHANGED <<cis, inp>>
           ELSE /\ call' = IF backup <= inp.last THEN left ELSE Crash
                /\ inp' = [pos |-> inp.pos - backup, last |-> 0]
                /\ cis' = [cis EXCEPT !.total_bytes_read = @ - (BufferSize(cis) + cis.buffer_size_after_limit),
                                      !.buffer_end = cis.buffer,
                                      !.buffer_size_after_limit = 0, !.overflow_bytes = 0]
    BY DEF Destroy, Pos
  <1>2. cis \in CodedInputStreams /\ inp \in Inputs /\ flat \in BOOLEAN
    BY DEF IInv
  <1>3. inp.pos \in 0 .. Length /\ inp.last \in 0 .. MaxChunk /\ CurrentPosition(cis) \in Int
    BY <1>2, MemberTypes DEF Inputs
  <1>4. Pos(cis) \in Int
    BY <1>3, Constants DEF Pos, Lesser
  <1>5. ASSUME call' = left, cis' \in CodedInputStreams, inp' \in Inputs,
               BufferSize(cis') >= 0, ~flat => inp'.pos = Pos(cis)
        PROVE  IInv' /\ call'.op = "destroyed"
    <2>1. /\ call'.op = "destroyed" /\ call'.from = Pos(cis)
          /\ call' \in [op : {"destroyed"}, from : Int, n : Int]
      BY <1>4, <1>5
    <2>2. Gone'
      BY <1>1, <1>5, <2>1 DEF Gone
    <2> QED
      BY <1>1, <1>2, <1>5, <2>1, <2>2 DEF IInv, Progress, Calls, Working
  <1>7. CASE Calls("lost")
    <2>1. /\ ~flat /\ inp.pos = Length /\ BufferSize(cis) = 0
          /\ cis.buffer_size_after_limit = 0 /\ cis.overflow_bytes = 0
          /\ CurrentPosition(cis) >= Length
      BY <1>7 DEF IInv, Lost
    <2>2. backup = 0 /\ Pos(cis) = Length
      BY <1>3, <2>1, Constants DEF BackUpBytes, Pos, Lesser
    <2>3. call' = left /\ UNCHANGED <<cis, inp>>
      BY <1>1, <2>2
    <2>4. BufferSize(cis') >= 0
      BY <2>1, <2>3
    <2> QED
      BY <1>1, <1>2, <1>5, <2>1, <2>2, <2>3, <2>4
  <1>8. CASE Calls("none")
    <2>1. /\ Sound(cis, inp, flat) /\ BufferSize(cis) \in Nat /\ CurrentPosition(cis) \in Nat
          /\ Pos(cis) = CurrentPosition(cis)
      BY <1>8, ActiveInv, BufferEnd DEF Calls
    <2>2. ~flat => /\ inp.pos - BackUpBytes(cis) = CurrentPosition(cis)
                   /\ BackUpBytes(cis) <= inp.last /\ BackUpBytes(cis) \in Nat
      BY <1>2, <1>3, <2>1, MemberTypes DEF Sound, BackUpBytes
    <2>3. CASE backup = 0
      <3>1. call' = left /\ UNCHANGED <<cis, inp>>
        BY <1>1, <2>3
      <3>2. ~flat => inp'.pos = Pos(cis)
        BY <1>3, <2>1, <2>2, <2>3, <3>1
      <3>3. BufferSize(cis') >= 0
        BY <2>1, <3>1
      <3> QED
        BY <1>1, <1>2, <1>5, <3>1, <3>2, <3>3
    <2>4. CASE backup # 0
      <3>1. ~flat /\ backup = BackUpBytes(cis)
        BY <2>4
      <3> DEFINE t == cis.total_bytes_read - (BufferSize(cis) + cis.buffer_size_after_limit)
      <3>2. /\ call' = left /\ inp' = [pos |-> inp.pos - BackUpBytes(cis), last |-> 0]
            /\ cis' = [cis EXCEPT !.total_bytes_read = t, !.buffer_end = cis.buffer,
                                  !.buffer_size_after_limit = 0, !.overflow_bytes = 0]
        BY <1>1, <2>2, <2>4, <3>1
      <3>3. inp'.pos = Pos(cis) /\ inp' \in Inputs
        BY <1>3, <2>1, <2>2, <3>1, <3>2, Constants DEF Inputs
      <3>4. t = CurrentPosition(cis) /\ t \in 0 .. IntMax
        BY <1>2, <2>1, MemberTypes, Constants DEF CurrentPosition
      <3> HIDE DEF t
      <3>5. /\ cis' \in CodedInputStreams /\ cis'.total_bytes_read = t
            /\ cis'.buffer = cis.buffer /\ cis'.buffer_end = cis.buffer
            /\ cis'.buffer_size_after_limit = 0
            /\ cis'.current_limit = cis.current_limit
            /\ cis'.total_bytes_limit = cis.total_bytes_limit
        <4>1. cis.buffer \in -1 .. Length /\ 0 \in 0 .. Length /\ 0 \in 0 .. MaxChunk
          BY <1>2, MemberTypes, Constants
        <4> QED
          BY <1>2, <3>2, <3>4, <4>1 DEF CodedInputStreams
      <3>6. BufferSize(cis') = 0 /\ CurrentPosition(cis') = t
        BY <1>2, <3>4, <3>5, MemberTypes
      <3> QED
        BY <1>1, <1>5, <3>2, <3>3, <3>4, <3>5, <3>6
    <2> QED
      BY <2>3, <2>4
  <1> QED
    BY <1>1, <1>7, <1>8

LEMMA InitInv ==
    ASSUME Init
    PROVE  IInv /\ limits = << >> /\ Sound(cis, inp, flat) /\ CurrentPosition(cis) = 0
  <1>1. limits = << >> /\ call = Idle /\ flat \in BOOLEAN
    BY DEF Init
  <1>2. Sound(cis, inp, flat) /\ (~flat => cis.current_limit = IntMax) /\ CurrentPosition(cis) = 0
    <2>1. ASSUME NEW size \in FlatSizes, flat = TRUE, inp = [pos |-> 0, last |-> 0],
                 cis = Members(0, size, size)
          PROVE  Sound(cis, inp, flat) /\ CurrentPosition(cis) = 0
      <3>1. size \in Nat /\ size <= Length /\ size <= DefaultTotalBytesLimit
        BY StreamAssumption
      <3>2. inp \in Inputs
        BY <2>1, Constants DEF Inputs
      <3>3. /\ cis \in CodedInputStreams
            /\ cis.buffer = 0 /\ cis.buffer_end = size /\ cis.total_bytes_read = size
            /\ cis.overflow_bytes = 0 /\ cis.current_limit = size
            /\ cis.buffer_size_after_limit = 0
            /\ cis.total_bytes_limit = DefaultTotalBytesLimit
        BY <2>1, <3>1, Constants DEF Members, CodedInputStreams
      <3>4. ClosestLimit(cis) = size
        BY <3>1, <3>3, Constants DEF ClosestLimit, Lesser
      <3>5. BufferSize(cis) = size /\ CurrentPosition(cis) = 0
        BY <3>1, <3>3, MemberTypes
      <3>6. Greater(0, size - size) = 0
        BY <3>1 DEF Greater
      <3> QED
        BY <2>1, <3>1, <3>2, <3>3, <3>4, <3>5, <3>6 DEF Sound, NULL
    <2>2. ASSUME flat = FALSE, Length = 0, inp = [pos |-> 0, last |-> 0],
                 cis = Members(NULL, 0, IntMax)
          PROVE  Sound(cis, inp, flat) /\ cis.current_limit = IntMax /\ CurrentPosition(cis) = 0
      <3>2. inp \in Inputs /\ inp.pos = 0 /\ inp.last = 0
        BY <2>2, Constants DEF Inputs
      <3>3. /\ cis \in CodedInputStreams
            /\ cis.buffer = NULL /\ cis.buffer_end = NULL /\ cis.total_bytes_read = 0
            /\ cis.overflow_bytes = 0 /\ cis.current_limit = IntMax
            /\ cis.buffer_size_after_limit = 0
        BY <2>2, Constants DEF Members, CodedInputStreams, NULL
      <3>5. BufferSize(cis) = 0 /\ CurrentPosition(cis) = 0
        BY <3>3, MemberTypes DEF NULL
      <3>6. Greater(0, cis.total_bytes_read - ClosestLimit(cis)) = 0
        BY <3>3, MemberTypes DEF Greater
      <3>7. /\ cis.total_bytes_read + cis.overflow_bytes = inp.pos
            /\ BufferSize(cis) + cis.buffer_size_after_limit + cis.overflow_bytes <= inp.last
            /\ BufferSize(cis) >= 0 /\ ~(cis.overflow_bytes > 0)
        BY <3>2, <3>3, <3>5
      <3> QED
        BY <2>2, <3>2, <3>3, <3>5, <3>6, <3>7, Zenon DEF Sound
    <2>3. ASSUME flat = FALSE, NEW n \in 1 .. Lesser(MaxChunk, Length), inp = [pos |-> n, last |-> n],
                 cis = RecomputeBufferLimits([Members(0, n - Greater(0, n - IntMax), IntMax)
                                                 EXCEPT !.overflow_bytes = Greater(0, n - IntMax)])
          PROVE  Sound(cis, inp, flat) /\ cis.current_limit = IntMax /\ CurrentPosition(cis) = 0
      <3> DEFINE over == Greater(0, n - IntMax)
                 size == n - over
                 d == [Members(0, size, IntMax) EXCEPT !.overflow_bytes = over]
                 after == Greater(0, size - DefaultTotalBytesLimit)
      <3>1. n \in 1 .. MaxChunk /\ n <= Length
        BY Constants DEF Lesser
      <3>2. /\ over \in 0 .. n /\ size \in 0 .. n /\ size <= IntMax /\ size + over = n
            /\ over > 0 => size = IntMax
        BY <3>1, Constants DEF Greater
      <3>3. inp \in Inputs /\ inp.pos = n /\ inp.last = n
        BY <2>3, <3>1, Constants DEF Inputs
      <3> HIDE DEF over, size
      <3>4. /\ d.buffer = 0 /\ d.buffer_end = 0 + size /\ d.total_bytes_read = size
            /\ d.overflow_bytes = over /\ d.current_limit = IntMax
            /\ d.buffer_size_after_limit = 0 /\ d.total_bytes_limit = DefaultTotalBytesLimit
            /\ d.legitimate_message_end = FALSE /\ d.last_tag = 0
            /\ DOMAIN d = {"buffer", "buffer_end", "total_bytes_read", "overflow_bytes", "current_limit",
                           "buffer_size_after_limit", "total_bytes_limit",
                           "legitimate_message_end", "last_tag"}
        BY DEF Members
      <3>5. d \in CodedInputStreams
        <4>1. /\ 0 \in -1 .. Length /\ 0 + size \in -1 .. Length /\ size \in 0 .. IntMax
              /\ 0 \in 0 .. MaxChunk /\ over \in 0 .. MaxChunk /\ IntMax \in 0 .. IntMax
              /\ 0 \in 0 .. Length /\ DefaultTotalBytesLimit \in 0 .. IntMax
          BY <3>1, <3>2, Constants
        <4> QED
          BY <4>1 DEF Members, CodedInputStreams
      <3>6. ClosestLimit(d) = DefaultTotalBytesLimit
        BY <3>4, Constants DEF ClosestLimit, Lesser
      <3>7. after \in 0 .. size
        BY <3>2, Constants DEF Greater
      <3>8. cis = [d EXCEPT !.buffer_end = d.buffer_end + d.buffer_size_after_limit - after,
                            !.buffer_size_after_limit = after]
        <4>1. cis = RecomputeBufferLimits(d)
          BY <2>3 DEF over, size
        <4> HIDE DEF d
        <4> QED
          BY <3>4, <3>6, <4>1, Zenon DEF RecomputeBufferLimits
      <3> HIDE DEF d, after
      <3>9. d.buffer_end + d.buffer_size_after_limit - after = size - after
        BY <3>2, <3>4, <3>7
      <3>10. size - after \in -1 .. Length /\ after \in 0 .. Length
        BY <3>1, <3>2, <3>7, Constants
      <3>11. /\ cis \in CodedInputStreams
             /\ cis.buffer = d.buffer /\ cis.buffer_end = size - after
             /\ cis.total_bytes_read = d.total_bytes_read /\ cis.overflow_bytes = d.overflow_bytes
             /\ cis.current_limit = d.current_limit
             /\ cis.buffer_size_after_limit = after
             /\ cis.total_bytes_limit = d.total_bytes_limit
        BY <3>5, <3>8, <3>9, <3>10 DEF CodedInputStreams
      <3>12. ClosestLimit(cis) = DefaultTotalBytesLimit
        BY <3>4, <3>11, Constants DEF ClosestLimit, Lesser
      <3>13. BufferSize(cis) = size - after /\ CurrentPosition(cis) = 0
        BY <3>2, <3>4, <3>7, <3>11, MemberTypes
      <3>14. /\ BufferSize(cis) >= 0 /\ cis.buffer = 0 /\ 0 # NULL
             /\ cis.overflow_bytes > 0 => cis.total_bytes_read = IntMax
             /\ cis.total_bytes_read + cis.overflow_bytes = inp.pos
             /\ BufferSize(cis) + cis.buffer_size_after_limit + cis.overflow_bytes <= inp.last
        BY <3>2, <3>3, <3>4, <3>7, <3>11, <3>13 DEF NULL
      <3>15. after = Greater(0, cis.total_bytes_read - ClosestLimit(cis))
        BY <3>4, <3>11, <3>12 DEF after
      <3> QED
        BY <2>3, <3>3, <3>4, <3>11, <3>13, <3>14, <3>15 DEF Sound
    <2> QED
      BY <2>1, <2>2, <2>3 DEF Init
  <1>3. Nested(cis, limits, flat)
    BY <1>1, <1>2 DEF Nested
  <1> QED
    BY <1>1, <1>2, <1>3 DEF IInv, Progress, Calls, Working, Idle, Sound

(* IInv is inductive. *)
LEMMA NextInv ==
    ASSUME IInv, [Next]_vars
    PROVE  IInv'
  <1>1. ASSUME NEW n \in Counts, ReadString(n) PROVE IInv'
    BY <1>1, ReadStringInv
  <1>2. ASSUME NEW n \in Counts, Skip(n) PROVE IInv'
    BY <1>2, SkipInv
  <1>3. ASSUME NEW n \in Counts, PushLimit(n) PROVE IInv'
    <2>1. n \in Int
      BY StreamAssumption, Constants
    <2> QED
      BY <1>3, <2>1, PushLimitFacts, LimitsInv
  <1>4. CASE ReadLoop
    BY <1>4, ReadLoopInv
  <1>5. CASE ReadVarint
    BY <1>5, ReadVarintInv
  <1>6. CASE ReadTag
    BY <1>6, ReadTagInv
  <1>7. ASSUME NEW name \in {"varint", "tag"}, DecodeFromArray(name) PROVE IInv'
    BY <1>7, DecodeFromArrayInv
  <1>8. ASSUME NEW name \in {"varint", "tag"}, ReadVarint64Slow(name) PROVE IInv'
    BY <1>8, ReadVarint64SlowInv
  <1>9. CASE GetDirectBufferPointer
    BY <1>9, GetDirectBufferPointerInv
  <1>10. CASE ExpectAtEnd
    BY <1>10, ExpectAtEndInv
  <1>11. CASE PopLimit
    BY <1>11, PopLimitFacts, LimitsInv
  <1>12. ASSUME NEW n \in TotalLimits, SetTotalBytesLimit(n) PROVE IInv'
    BY <1>12, SetTotalBytesLimitFacts, LimitsInv
  <1>13. CASE Destroy
    BY <1>13, DestroyFacts
  <1>14. CASE UNCHANGED vars
    BY <1>14 DEF vars, IInv, Sound, Nested, Progress, Lost, Gone, Calls, BufferSize,
       CurrentPosition, ClosestLimit
  <1> QED
    BY <1>1, <1>2, <1>3, <1>4, <1>5, <1>6, <1>7, <1>8, <1>9, <1>10, <1>11, <1>12, <1>13, <1>14
    DEF Next

(* The invariant implies what the run checks. *)
LEMMA InvImplies ==
    ASSUME IInv
    PROVE  PositionExact /\ InputRepositioned
  <1>1. TypeOK /\ ~Calls("crash")
    BY DEF IInv, TypeOK, Inputs, Calls, Working
  <1>2. CASE call.op \in Working \cup {"none"}
    <2>1. BufferSize(cis) >= 0 /\ (BufferSize(cis) > 0 => cis.buffer = CurrentPosition(cis))
      BY <1>2, ActiveInv
    <2>2. ~flat => cis.total_bytes_read + cis.overflow_bytes = inp.pos
      BY <1>2 DEF IInv, Sound
    <2>3. ~Calls("destroyed")
      BY <1>2 DEF Calls, Working
    <2> QED
      BY <1>1, <2>1, <2>2, <2>3 DEF PositionExact, InputRepositioned
  <1>3. CASE call.op = "lost"
    BY <1>1, <1>3 DEF IInv, Lost, Calls, PositionExact, InputRepositioned, Working
  <1>4. CASE call.op = "destroyed"
    BY <1>1, <1>4 DEF IInv, Gone, Calls, PositionExact, InputRepositioned, Working
  <1> QED
    BY <1>2, <1>3, <1>4 DEF IInv

(* Whatever is read, skipped, limited or refused, over whatever chunks: no  *)
(* method of CodedInputStream reaches past its buffer, asks a NULL input or *)
(* backs up over bytes not returned last, and the members always account    *)
(* exactly for the bytes taken from the input.                              *)
THEOREM PositionAlwaysExact == Spec => []PositionExact
  <1>1. Init => IInv
    BY InitInv
  <1>2. IInv /\ [Next]_vars => IInv'
    BY NextInv
  <1>3. IInv => PositionExact
    BY InvImplies
  <1> QED
    BY <1>1, <1>2, <1>3, PTL DEF Spec

(* The destructor leaves the input at the first byte that was not read,     *)
(* unless a Skip() ran past the end of the input, which leaves it there.    *)
THEOREM InputAlwaysRepositioned == Spec => []InputRepositioned
  <1>1. Init => IInv
    BY InitInv
  <1>2. IInv /\ [Next]_vars => IInv'
    BY NextInv
  <1>3. IInv => InputRepositioned
    BY InvImplies
  <1> QED
    BY <1>1, <1>2, <1>3, PTL DEF Spec

-----------------------------------------------------------------------------
(* The refinement: the variables of LimitedReader, as Cursor maps them. *)

CPos   == IF call.op \in Working THEN call.from ELSE Lesser(CurrentPosition(cis), Length)
CStack == LET all == Append(limits, cis.current_limit) IN IF flat THEN all ELSE Tail(all)

(* The least element of a set of integers is its minimum. *)
LEMMA MinIs ==
    ASSUME NEW S, S \subseteq Int, NEW m \in S, \A y \in S : m <= y
    PROVE  Cursor!Min(S) = m
  <1>1. \E x \in S : \A y \in S : x <= y
    OBVIOUS
  <1>2. Cursor!Min(S) \in S /\ \A y \in S : Cursor!Min(S) <= y
    BY <1>1 DEF Cursor!Min
  <1>3. m \in Int /\ Cursor!Min(S) \in Int
    BY <1>2
  <1> QED
    BY <1>2, <1>3

(* The greatest element of a set of integers is its maximum. *)
LEMMA MaxIs ==
    ASSUME NEW S, S \subseteq Int, NEW m \in S, \A y \in S : m >= y
    PROVE  Cursor!Max(S) = m
  <1>1. \E x \in S : \A y \in S : x >= y
    OBVIOUS
  <1>2. Cursor!Max(S) \in S /\ \A y \in S : Cursor!Max(S) >= y
    BY <1>1 DEF Cursor!Max
  <1>3. m \in Int /\ Cursor!Max(S) \in Int
    BY <1>2
  <1> QED
    BY <1>2, <1>3

(* What the mapped stack holds: the limits, narrowing, without the first    *)
(* when that one is no limit.                                               *)
LEMMA StackFacts ==
    ASSUME cis \in CodedInputStreams, flat \in BOOLEAN, Nested(cis, limits, flat)
    PROVE  /\ CStack \in Seq(0 .. IntMax)
           /\ flat => CStack = Append(limits, cis.current_limit)
           /\ ~flat => CStack = IF limits = << >> THEN << >>
                                ELSE Append(Tail(limits), cis.current_limit)
           /\ \A i \in 1 .. Len(CStack) : cis.current_limit <= CStack[i]
           /\ CStack = << >> => cis.current_limit = IntMax
           /\ CStack # << >> => CStack[Len(CStack)] = cis.current_limit
  <1> DEFINE cur == cis.current_limit
             all == Append(limits, cur)
  <1>1. cur \in 0 .. IntMax
    BY MemberTypes
  <1>2. /\ limits \in Seq(0 .. IntMax)
        /\ \A i \in 1 .. Len(limits) : cur <= limits[i]
        /\ ~flat /\ limits = << >> => cur = IntMax
    BY Zenon DEF Nested
  <1> HIDE DEF cur
  <1>3. /\ all \in Seq(0 .. IntMax) /\ Len(all) = Len(limits) + 1 /\ all # << >>
        /\ \A i \in 1 .. Len(limits) : all[i] = limits[i]
        /\ all[Len(limits) + 1] = cur
    BY <1>1, <1>2, AppendProperties
  <1>4. CStack = IF flat THEN all ELSE Tail(all)
    BY DEF CStack, cur
  <1>5. Tail(all) = IF limits = << >> THEN << >> ELSE Append(Tail(limits), cur)
    BY <1>2, HeadTailAppend
  <1>6. Len(limits) \in Nat
    BY <1>2
  <1>7. \A i \in 1 .. Len(all) : cur <= all[i]
    <2> SUFFICES ASSUME NEW i \in 1 .. Len(all) PROVE cur <= all[i]
      OBVIOUS
    <2>1. CASE i = Len(limits) + 1
      BY <1>1, <1>3, <2>1, Constants
    <2>2. CASE i # Len(limits) + 1
      BY <1>2, <1>3, <1>6, <2>2
    <2> QED
      BY <2>1, <2>2
  <1> HIDE DEF all
  <1>8. CASE flat
    BY <1>1, <1>3, <1>4, <1>6, <1>7, <1>8 DEF all, cur
  <1>9. CASE ~flat
    <2>1. /\ CStack = Tail(all) /\ CStack \in Seq(0 .. IntMax) /\ Len(CStack) = Len(all) - 1
          /\ \A i \in 1 .. Len(CStack) : CStack[i] = all[i + 1]
      BY <1>3, <1>4, <1>9, HeadTailProperties
    <2>2. Len(CStack) = Len(limits)
      BY <1>3, <1>6, <2>1
    <2>3. \A i \in 1 .. Len(CStack) : i + 1 \in 1 .. Len(all)
      BY <1>3, <1>6, <2>2
    <2>4. \A i \in 1 .. Len(CStack) : cur <= CStack[i]
      BY <1>7, <2>1, <2>3
    <2>5. CStack = << >> => cur = IntMax
      BY <1>2, <1>5, <1>9, <2>1, <2>2 DEF all
    <2>6. CStack # << >> => CStack[Len(CStack)] = cur
      BY <1>3, <1>6, <2>1, <2>2
    <2> QED
      BY <1>5, <1>9, <2>1, <2>4, <2>5, <2>6, Zenon DEF all, cur
  <1> QED
    BY <1>8, <1>9

(* The limits and the bound of the cursor are those of the stream. *)
LEMMA BoundIs ==
    ASSUME cis \in CodedInputStreams, flat \in BOOLEAN, Nested(cis, limits, flat)
    PROVE  Cursor!Limit = cis.current_limit /\ Cursor!Bound = End(cis)
  <1> DEFINE S == {IntMax} \cup {CStack[i] : i \in 1 .. Len(CStack)}
             B == {cis.current_limit, cis.total_bytes_limit, Length}
  <1>1. /\ CStack \in Seq(0 .. IntMax)
        /\ \A i \in 1 .. Len(CStack) : cis.current_limit <= CStack[i]
        /\ CStack = << >> => cis.current_limit = IntMax
        /\ CStack # << >> => CStack[Len(CStack)] = cis.current_limit
        /\ cis.current_limit \in 0 .. IntMax /\ cis.total_bytes_limit \in 0 .. IntMax
    BY StackFacts, MemberTypes
  <1>2. S \subseteq Int /\ cis.current_limit \in S /\ \A y \in S : cis.current_limit <= y
    <2>1. \A i \in 1 .. Len(CStack) : CStack[i] \in 0 .. IntMax
      BY <1>1, ElementOfSeq
    <2>2. CStack # << >> => Len(CStack) \in 1 .. Len(CStack)
      BY <1>1
    <2> QED
      BY <1>1, <2>1, <2>2, Constants
  <1>3. Cursor!Limit = cis.current_limit
    <2>1. Cursor!Min(S) = cis.current_limit
      BY <1>2, MinIs
    <2>2. Cursor!Limit = Cursor!Min(S)
      BY DEF Cursor!Limit, CStack
    <2> QED
      BY <2>1, <2>2
  <1>4. B \subseteq Int /\ End(cis) \in B /\ \A y \in B : End(cis) <= y
    BY <1>1, Constants DEF End, ClosestLimit, Lesser
  <1>5. Cursor!Bound = Cursor!Min(B)
    BY <1>3 DEF Cursor!Bound
  <1>6. Cursor!Min(B) = End(cis)
    <2> HIDE DEF B
    <2> QED BY <1>4, MinIs
  <1> QED
    BY <1>3, <1>5, <1>6

(* A call that returns, in the terms of the cursor. *)
LEMMA ReturnsIntro ==
    ASSUME NEW op, NEW n, NEW ok \in BOOLEAN, done' = [op |-> op, ok |-> ok],
           ok => CPos' = CPos + n /\ CPos' <= Cursor!Bound,
           ~ok => CPos' \in CPos .. Cursor!Bound,
           CStack' = CStack, cis'.total_bytes_limit = cis.total_bytes_limit
    PROVE  Cursor!Returns(op, n, ok)
  BY Zenon DEF Cursor!Returns, CPos, CStack

LEMMA ReadIntro ==
    ASSUME NEW n \in 0 .. IntMax, NEW ok \in BOOLEAN, ok <=> CPos + n <= Cursor!Bound,
           Cursor!Returns([name |-> "read", n |-> n], n, ok), cont' = cont
    PROVE  Cursor!Next
  <1>1. (CPos + n <= Cursor!Bound) = ok
    OBVIOUS
  <1>2. Cursor!Returns([name |-> "read", n |-> n], n, CPos + n <= Cursor!Bound)
    BY <1>1, Zenon
  <1>3. \E k \in 0 .. IntMax : Cursor!Returns([name |-> "read", n |-> k], k, CPos + k <= Cursor!Bound)
    BY <1>2, Zenon
  <1>4. Cursor!Read
    BY <1>3, Zenon DEF Cursor!Read, CPos
  <1> QED
    BY <1>4, Zenon DEF Cursor!Next

LEMMA VarintIntro ==
    ASSUME NEW name \in {"varint", "tag"}, NEW k, NEW ok \in BOOLEAN,
           ok => /\ k \in 1 .. MaxVarint /\ CPos + k <= Cursor!Bound
                 /\ Cursor!VarintEnds(CPos, k),
           ~ok => /\ k = 0
                  /\ \A m \in 1 .. MaxVarint : ~(Cursor!VarintEnds(CPos, m) /\ CPos + m <= Cursor!Bound),
           Cursor!Returns([name |-> name, n |-> 0], k, ok), cont' = cont
    PROVE  Cursor!Next
  <1> DEFINE lengths == {m \in 1 .. MaxVarint : Cursor!VarintEnds(CPos, m) /\ CPos + m <= Cursor!Bound}
             op == [name |-> name, n |-> 0]
  <1>1. IF lengths # {} THEN \E m \in lengths : Cursor!Returns(op, m, TRUE)
                        ELSE Cursor!Returns(op, 0, FALSE)
    <2>1. CASE ok = TRUE
      <3>1. k \in lengths /\ Cursor!Returns(op, k, TRUE)
        BY <2>1, Zenon
      <3> QED
        BY <3>1, Zenon
    <2>2. CASE ok = FALSE
      <3>1. lengths = {} /\ Cursor!Returns(op, 0, FALSE)
        BY <2>2, Zenon
      <3> QED
        BY <3>1, Zenon
    <2> QED
      BY <2>1, <2>2
  <1>2. Cursor!ReadVarint(name)
    BY <1>1, Zenon DEF Cursor!ReadVarint, CPos
  <1> QED
    BY <1>2, Zenon DEF Cursor!Next

(* The mapped variables while calls can be made. *)
LEMMA ActiveMap ==
    ASSUME IInv, call.op \in Working \cup {"none"}
    PROVE  /\ Cursor!Bound = End(cis) /\ Cursor!Limit = cis.current_limit
           /\ call.op \in Working => CPos = call.from
           /\ call.op = "none" => CPos = CurrentPosition(cis)
           /\ CPos \in Nat /\ CPos <= CurrentPosition(cis)
  <1>1. /\ Sound(cis, inp, flat) /\ Nested(cis, limits, flat) /\ cis \in CodedInputStreams
        /\ flat \in BOOLEAN /\ CurrentPosition(cis) \in Nat /\ Pos(cis) = CurrentPosition(cis)
    BY ActiveInv, BufferEnd
  <1>2. call.op \in Working => /\ call.from \in Nat /\ call.n \in Nat
                               /\ call.from <= CurrentPosition(cis)
    BY <1>1 DEF IInv, Progress, Calls, Working
  <1>3. Cursor!Bound = End(cis) /\ Cursor!Limit = cis.current_limit
    BY <1>1, BoundIs
  <1>4. CPos = IF call.op \in Working THEN call.from ELSE CurrentPosition(cis)
    BY <1>1 DEF CPos, Pos
  <1>5. call.op = "none" => call.op \notin Working
    BY DEF Working
  <1> QED
    BY <1>1, <1>2, <1>3, <1>4, <1>5

(* The stack depends on the limits only. *)
LEMMA StackSame ==
    ASSUME limits' = limits, flat' = flat, cis'.current_limit = cis.current_limit
    PROVE  CStack' = CStack
  BY DEF CStack

(* A call that returned leaves the position where it is. *)
LEMMA IdlePos ==
    ASSUME Sound(cis', inp', flat'), call' = Idle
    PROVE  CPos' = CurrentPosition(cis')
  <1>1. Pos(cis') = CurrentPosition(cis')
    BY BufferEnd
  <1>2. call'.op \notin Working
    BY DEF Idle, Working
  <1> QED
    BY <1>1, <1>2 DEF CPos, Pos

(* A read that returns within the step, all of it or as far as the end. *)
LEMMA ReadReturns ==
    ASSUME IInv, call.op \in Working \cup {"none"}, NEW n \in 0 .. IntMax, NEW ok \in BOOLEAN,
           Returned("read", n, ok), UNCHANGED others,
           cis'.current_limit = cis.current_limit, cis'.total_bytes_limit = cis.total_bytes_limit,
           ok => CPos' = CPos + n /\ CPos' <= End(cis),
           ~ok => CPos' \in CPos .. End(cis) /\ CPos + n > End(cis)
    PROVE  Cursor!Next
  <1>1. Cursor!Bound = End(cis) /\ CPos \in Nat /\ End(cis) \in Nat
    BY ActiveMap, ActiveInv
  <1>2. CStack' = CStack /\ cont' = cont
    BY StackSame DEF others
  <1>3. done' = [op |-> [name |-> "read", n |-> n], ok |-> ok]
    BY DEF Returned
  <1>4. Cursor!Returns([name |-> "read", n |-> n], n, ok)
    BY <1>1, <1>2, <1>3, ReturnsIntro
  <1>5. ok <=> CPos + n <= Cursor!Bound
    BY <1>1
  <1> QED
    BY <1>2, <1>4, <1>5, ReadIntro

(* A refused negative count. *)
LEMMA NegativeReturns ==
    ASSUME IInv, Calls("none"), NEW n \in -(IntMax + 1) .. IntMax, n < 0,
           Return(cis, "read", n, FALSE), UNCHANGED others
    PROVE  Cursor!Next
  <1>1. /\ Sound(cis, inp, flat) /\ Cursor!Bound = End(cis) /\ CPos = CurrentPosition(cis)
        /\ CPos \in Nat /\ CPos <= End(cis) /\ End(cis) \in Nat
    <2>1. call.op = "none" /\ call.op \in Working \cup {"none"}
      BY DEF Calls
    <2> QED
      BY <2>1, ActiveMap, ActiveInv
  <1>2. cis' = cis /\ call' = Idle /\ UNCHANGED inp /\ done' = [op |-> [name |-> "read", n |-> n], ok |-> FALSE]
    BY DEF Return, Returned
  <1>3. CPos' = CPos
    BY <1>1, <1>2, IdlePos DEF others
  <1>4. CStack' = CStack /\ cont' = cont
    BY <1>2, StackSame DEF others
  <1>5. Cursor!Returns([name |-> "read", n |-> n], 0, FALSE)
    <2>1. CPos' \in CPos .. Cursor!Bound /\ cis'.total_bytes_limit = cis.total_bytes_limit
      BY <1>1, <1>2, <1>3
    <2> QED
      BY <1>2, <1>4, <2>1, ReturnsIntro
  <1>6. Cursor!RefuseNegative(n)
    BY <1>5, Zenon DEF Cursor!RefuseNegative
  <1> QED
    BY <1>4, <1>6, Zenon DEF Cursor!Next

(* A step the cursor does not see. *)
Stutter == UNCHANGED <<CPos, CStack, cis.total_bytes_limit, done, cont>>

(* A step of the stream is one of the cursor, or none. *)
Simulates == Cursor!Next \/ Stutter

LEMMA ReadStringSimulates ==
    ASSUME IInv, NEW n \in Counts, ReadString(n)
    PROVE  Simulates
  <1>1. Calls("none") /\ UNCHANGED others /\ n \in -(IntMax + 1) .. IntMax
    BY StreamAssumption DEF ReadString
  <1>2. CASE n < 0
    <2>1. Return(cis, "read", n, FALSE)
      BY <1>2 DEF ReadString
    <2> QED
      BY <1>1, <1>2, <2>1, NegativeReturns DEF Simulates
  <1>3. CASE ~(n < 0)
    <2>1. call' = Starts("read", n) /\ UNCHANGED <<cis, inp, done>>
      BY <1>3 DEF ReadString
    <2>2. call'.op \in Working /\ call'.from = CurrentPosition(cis)
      BY <2>1 DEF Starts, Working
    <2>3. CPos = CurrentPosition(cis) /\ CPos' = call'.from
      BY <1>1, <2>2, ActiveMap DEF Calls, CPos
    <2> QED
      BY <1>1, <2>1, <2>2, <2>3, StackSame DEF Simulates, Stutter, others
  <1> QED
    BY <1>2, <1>3

LEMMA ReadLoopSimulates ==
    ASSUME IInv, ReadLoop
    PROVE  Simulates
  <1>1. Calls("read") /\ call.op \in Working /\ UNCHANGED others
    BY DEF ReadLoop, Calls, Working
  <1>2. /\ call.n \in Nat /\ call.from \in Nat /\ call.from <= CurrentPosition(cis)
        /\ call.n + CurrentPosition(cis) - call.from <= IntMax
        /\ call \in [op : Working \cup {"none", "lost", "destroyed"}, from : Int, n : Int]
    BY <1>1 DEF IInv, Progress
  <1>3. /\ Sound(cis, inp, flat) /\ BufferSize(cis) \in Nat /\ CurrentPosition(cis) \in Nat
        /\ CurrentPosition(cis) + BufferSize(cis) <= End(cis) /\ End(cis) \in Nat
        /\ CPos = call.from
    BY <1>1, ActiveInv, ActiveMap
  <1>4. Asked \in 0 .. IntMax /\ CPos + Asked = CurrentPosition(cis) + call.n
    BY <1>2, <1>3 DEF Asked
  <1>5. CASE BufferSize(cis) >= call.n /\ Return(Advance(cis, call.n), "read", Asked, TRUE)
    <2>1. call.n \in 0 .. BufferSize(cis)
      BY <1>2, <1>3, <1>5
    <2>2. /\ cis' = Advance(cis, call.n) /\ call' = Idle /\ inp' = inp /\ flat' = flat
          /\ Returned("read", Asked, TRUE)
      BY <1>1, <1>5 DEF Return, others
    <2>3. /\ Sound(cis', inp', flat')
          /\ CurrentPosition(cis') = CurrentPosition(cis) + call.n
          /\ cis'.current_limit = cis.current_limit /\ cis'.total_bytes_limit = cis.total_bytes_limit
      BY <1>3, <2>1, <2>2, AdvanceSound
    <2>4. CPos' = CurrentPosition(cis')
      BY <2>2, <2>3, IdlePos
    <2>5. CPos' = CPos + Asked /\ CPos' <= End(cis)
      BY <1>2, <1>3, <1>4, <1>5, <2>3, <2>4
    <2> QED
      BY <1>1, <1>4, <2>2, <2>3, <2>5, ReadReturns DEF Simulates
  <1>6. CASE /\ BufferSize(cis) < call.n
             /\ LET drained == Advance(cis, BufferSize(cis))
                IN  Refresh(drained, drained, [call EXCEPT !.n = @ - BufferSize(cis)], Idle)
             /\ IF call' = Idle THEN Returned("read", Asked, FALSE) ELSE UNCHANGED done
    <2> DEFINE drained == Advance(cis, BufferSize(cis))
               more == [call EXCEPT !.n = @ - BufferSize(cis)]
    <2>1. BufferSize(cis) \in 0 .. BufferSize(cis)
      BY <1>3
    <2>2. /\ Sound(drained, inp, flat) /\ BufferSize(drained) = 0
          /\ CurrentPosition(drained) = CurrentPosition(cis) + BufferSize(cis)
          /\ drained.current_limit = cis.current_limit
          /\ drained.total_bytes_limit = cis.total_bytes_limit
      BY <1>3, <2>1, AdvanceSound
    <2>3. Alike(drained, drained)
      BY <2>2 DEF Sound, Alike
    <2>4. Refresh(drained, drained, more, Idle)
      BY <1>6
    <2>5. more.op = "read" /\ more.from = call.from /\ more # Idle
      BY <1>1, <1>2 DEF Calls, Idle
    <2> HIDE DEF drained, more
    <2>6. /\ Sound(cis', inp', flat)
          /\ CurrentPosition(cis') = CurrentPosition(cis) + BufferSize(cis)
          /\ cis'.current_limit = cis.current_limit
          /\ cis'.total_bytes_limit = cis.total_bytes_limit
          /\ call' = more \/ (call' = Idle /\ CurrentPosition(drained) = End(drained))
      BY <2>2, <2>3, <2>4, RefreshSound
    <2>7. End(drained) = End(cis)
      BY <2>2 DEF End, ClosestLimit
    <2>8. CStack' = CStack /\ cont' = cont /\ flat' = flat
      BY <1>1, <2>6, StackSame DEF others
    <2>9. CASE call' = Idle
      <3>1. Returned("read", Asked, FALSE)
        BY <1>6, <2>9
      <3>2. CPos' = CurrentPosition(cis')
        BY <2>6, <2>8, <2>9, IdlePos
      <3>3. CurrentPosition(cis) + BufferSize(cis) = End(cis)
        BY <2>2, <2>5, <2>6, <2>7, <2>9
      <3>4. CPos' \in CPos .. End(cis) /\ CPos + Asked > End(cis)
        BY <1>2, <1>3, <1>4, <1>6, <2>6, <3>2, <3>3
      <3> QED
        BY <1>1, <1>4, <2>6, <3>1, <3>4, ReadReturns DEF Simulates
    <2>10. CASE call' = more
      <3>1. CPos' = CPos /\ done' = done
        BY <1>3, <1>6, <2>5, <2>10 DEF CPos, Working
      <3> QED
        BY <2>6, <2>8, <3>1 DEF Simulates, Stutter
    <2> QED
      BY <2>6, <2>9, <2>10
  <1> QED
    BY <1>5, <1>6 DEF ReadLoop

LEMMA SkipSimulates ==
    ASSUME IInv, NEW n \in Counts, Skip(n)
    PROVE  Simulates
  <1>1. /\ Calls("none") /\ UNCHANGED others /\ n \in -(IntMax + 1) .. IntMax /\ n \in Int
        /\ call.op = "none" /\ call.op \in Working \cup {"none"}
    BY StreamAssumption, Constants DEF Skip, Calls
  <1>2. /\ Sound(cis, inp, flat) /\ BufferSize(cis) \in Nat /\ CurrentPosition(cis) \in Nat
        /\ CurrentPosition(cis) + BufferSize(cis) <= End(cis) /\ End(cis) \in Nat
        /\ CPos = CurrentPosition(cis) /\ cis \in CodedInputStreams /\ inp \in Inputs
        /\ flat \in BOOLEAN
    BY <1>1, ActiveInv, ActiveMap
  <1>3. CASE n < 0 /\ Return(cis, "read", n, FALSE)
    BY <1>1, <1>3, NegativeReturns DEF Simulates
  <1>4. ASSUME NEW k \in 0 .. BufferSize(cis), NEW ok \in BOOLEAN, n \in 0 .. IntMax,
               Return(Advance(cis, k), "read", n, ok),
               ok => k = n, ~ok => CPos + n > End(cis)
        PROVE  Simulates
    <2>1. /\ cis' = Advance(cis, k) /\ call' = Idle /\ inp' = inp /\ flat' = flat
          /\ Returned("read", n, ok)
      BY <1>1, <1>4 DEF Return, others
    <2>2. /\ Sound(cis', inp', flat')
          /\ CurrentPosition(cis') = CurrentPosition(cis) + k
          /\ cis'.current_limit = cis.current_limit /\ cis'.total_bytes_limit = cis.total_bytes_limit
      BY <1>2, <1>4, <2>1, AdvanceSound
    <2>3. CPos' = CurrentPosition(cis')
      BY <2>1, <2>2, IdlePos
    <2>4. CPos' \in CPos .. End(cis) /\ CPos' <= End(cis) /\ (ok => CPos' = CPos + n)
      BY <1>2, <1>4, <2>2, <2>3
    <2> QED
      BY <1>1, <1>4, <2>1, <2>2, <2>4, ReadReturns DEF Simulates
  <1>5. CASE ~(n < 0) /\ n <= BufferSize(cis) /\ Return(Advance(cis, n), "read", n, TRUE)
    <2>1. n \in 0 .. BufferSize(cis) /\ n \in 0 .. IntMax
      BY <1>1, <1>2, <1>5, Constants
    <2> QED
      BY <1>4, <1>5, <2>1
  <1>6. CASE /\ ~(n < 0) /\ ~(n <= BufferSize(cis)) /\ cis.buffer_size_after_limit > 0
             /\ Return(Advance(cis, BufferSize(cis)), "read", n, FALSE)
    <2>1. BufferSize(cis) \in 0 .. BufferSize(cis) /\ n \in 0 .. IntMax
      BY <1>1, <1>2, <1>6, Constants
    <2>2. CurrentPosition(cis) + BufferSize(cis) = ClosestLimit(cis)
      BY <1>2, <1>6, MemberTypes, BufferEnd DEF Sound, Greater, Lesser
    <2>3. CPos + n > End(cis)
      BY <1>1, <1>2, <1>6, <2>2, MemberTypes, Constants DEF End, Lesser
    <2> QED
      BY <1>4, <1>6, <2>1, <2>3
  <1>7. CASE /\ ~(n < 0) /\ ~(n <= BufferSize(cis)) /\ ~(cis.buffer_size_after_limit > 0)
             /\ SkipPastBuffer(n)
    <2> DEFINE count == SkipCount(n)
               left  == SkipLeft
               taken == SkipTaken(n)
               ok    == left >= count /\ inp.pos + taken <= Length
    <2>1. n > BufferSize(cis) /\ cis.buffer_size_after_limit = 0 /\ n \in 0 .. IntMax
      BY <1>1, <1>2, <1>7, MemberTypes, Constants
    <2>2. SkipOutcome(n)
      BY <1>1, <1>7, <2>1, SkipPastBufferFacts
    <2>3. /\ count = n - BufferSize(cis) /\ left = ClosestLimit(cis) - cis.total_bytes_read
          /\ inp.pos \in 0 .. Length
      BY <1>2 DEF SkipCount, SkipLeft, Inputs
    <2>4. /\ count > 0 /\ left >= 0 /\ count \in Int /\ left \in Int
          /\ taken \in Nat /\ taken <= left /\ taken <= count
          /\ taken = left \/ taken = count
          /\ flat => left = 0
          /\ cis.overflow_bytes > 0 => left = 0
          /\ cis'.current_limit = cis.current_limit
          /\ cis'.total_bytes_limit = cis.total_bytes_limit
          /\ CurrentPosition(cis') = cis.total_bytes_read + taken
          /\ CurrentPosition(cis) + BufferSize(cis) = cis.total_bytes_read
          /\ call' = IF inp.pos + taken > Length THEN [Idle EXCEPT !.op = "lost"] ELSE Idle
          /\ Returned("read", n, ok)
      BY <2>2, Zenon DEF SkipOutcome
    <2>5. CPos' = Lesser(CurrentPosition(cis'), Length)
      <3>1. call'.op \notin Working
        BY <2>4 DEF Idle, Working
      <3> QED
        BY <3>1 DEF CPos
    <2> HIDE DEF count, left, taken
    <2>6. /\ cis.total_bytes_read \in Nat /\ cis.total_bytes_read <= Length
          /\ ClosestLimit(cis) \in Nat
          /\ End(cis) = Lesser(ClosestLimit(cis), Length)
      BY <1>2, MemberTypes, BufferEnd, Constants DEF End
    <2>7. left > 0 => inp.pos = cis.total_bytes_read
      BY <1>2, <2>3, <2>4, MemberTypes DEF Sound
    <2>8. cis.total_bytes_read + taken <= ClosestLimit(cis)
      BY <2>3, <2>4, <2>6
    <2>9. CPos' \in CPos .. End(cis)
      BY <1>2, <2>4, <2>5, <2>6, <2>8, Constants DEF Lesser
    <2>10. CPos + n = cis.total_bytes_read + count
      BY <1>1, <1>2, <2>3, <2>4, <2>6
    <2>11. ok => CPos' = CPos + n
      BY <2>3, <2>4, <2>5, <2>6, <2>7, <2>10, Constants DEF Lesser
    <2>12. ~ok => CPos + n > End(cis)
      <3>1. CASE left < count
        BY <2>3, <2>4, <2>6, <2>10, <3>1, Constants DEF Lesser
      <3>2. CASE ~(left < count)
        <4>1. taken = count /\ left > 0
          BY <2>4, <3>2
        <4>2. ~ok => inp.pos + taken > Length
          BY <2>3, <2>4, <3>2, Constants
        <4> QED
          BY <2>3, <2>4, <2>6, <2>7, <2>10, <4>1, <4>2, Constants DEF Lesser
      <3> QED
        BY <3>1, <3>2
    <2>13. ok \in BOOLEAN
      OBVIOUS
    <2>14. CPos' <= End(cis)
      BY <1>2, <2>9
    <2> HIDE DEF ok
    <2> QED
      BY <1>1, <2>1, <2>4, <2>9, <2>11, <2>12, <2>13, <2>14, ReadReturns DEF Simulates
  <1> QED
    BY <1>3, <1>5, <1>6, <1>7 DEF Skip

LEMMA GetDirectBufferPointerSimulates ==
    ASSUME IInv, GetDirectBufferPointer
    PROVE  Simulates
  <1>1. /\ Calls("none") /\ UNCHANGED others
        /\ call.op = "none" /\ call.op \in Working \cup {"none"}
    BY DEF GetDirectBufferPointer, Calls
  <1>2. /\ Sound(cis, inp, flat) /\ BufferSize(cis) \in Nat /\ CurrentPosition(cis) \in Nat
        /\ CurrentPosition(cis) + BufferSize(cis) <= End(cis) /\ End(cis) \in Nat
        /\ CPos = CurrentPosition(cis) /\ cis \in CodedInputStreams /\ Alike(cis, cis)
        /\ Cursor!Bound = End(cis) /\ End(cis) <= IntMax /\ End(cis) <= Length
    BY <1>1, ActiveInv, ActiveMap
  <1>3. ASSUME NEW n \in Nat, NEW ok \in BOOLEAN, Sound(cis', inp', flat'), call' = Idle,
               Returned("peek", n, ok), CurrentPosition(cis') = CurrentPosition(cis),
               cis'.current_limit = cis.current_limit,
               cis'.total_bytes_limit = cis.total_bytes_limit,
               CPos + n <= End(cis), CPos < End(cis) => ok /\ n > 0
        PROVE  Simulates
    <2>1. CPos' = CPos
      BY <1>2, <1>3, IdlePos
    <2>2. CStack' = CStack /\ cont' = cont
      BY <1>1, <1>3, StackSame DEF others
    <2>3. /\ done' = [op |-> [name |-> "peek", n |-> n], ok |-> ok]
          /\ ok => CPos' = CPos + 0 /\ CPos' <= Cursor!Bound
          /\ ~ok => CPos' \in CPos .. Cursor!Bound
      BY <1>2, <1>3, <2>1 DEF Returned
    <2>4. Cursor!Returns([name |-> "peek", n |-> n], 0, ok)
      BY <1>3, <2>2, <2>3, ReturnsIntro
    <2>5. n \in 0 .. IntMax /\ CPos + n <= Cursor!Bound /\ (CPos < Cursor!Bound => ok /\ n > 0)
      BY <1>2, <1>3, Constants
    <2>6. \E b \in BOOLEAN, k \in 0 .. IntMax :
              /\ CPos < Cursor!Bound => b /\ k > 0
              /\ CPos + k <= Cursor!Bound
              /\ Cursor!Returns([name |-> "peek", n |-> k], 0, b)
              /\ CPos' = CPos
      BY <1>3, <2>1, <2>4, <2>5, Zenon
    <2>7. Cursor!Peek
      BY <2>6, Zenon DEF Cursor!Peek, CPos
    <2> QED
      BY <2>2, <2>7, Zenon DEF Cursor!Next, Simulates
  <1>4. CASE BufferSize(cis) # 0 /\ Return(cis, "peek", BufferSize(cis), TRUE)
    <2>1. /\ cis' = cis /\ call' = Idle /\ inp' = inp /\ flat' = flat
          /\ Returned("peek", BufferSize(cis), TRUE)
      BY <1>1, <1>4 DEF Return, others
    <2>2. /\ Sound(cis', inp', flat') /\ CurrentPosition(cis') = CurrentPosition(cis)
          /\ BufferSize(cis) > 0
      BY <1>2, <1>4, <2>1
    <2> QED
      BY <1>2, <1>3, <2>1, <2>2
  <1>5. CASE /\ BufferSize(cis) = 0 /\ Refresh(cis, cis, Idle, Idle)
             /\ Returned("peek", BufferSize(cis'), ~HitLimit(cis) /\ inp.pos < Length)
    <2> DEFINE ok == ~HitLimit(cis) /\ inp.pos < Length
    <2>1. /\ Sound(cis', inp', flat) /\ CurrentPosition(cis') = CurrentPosition(cis)
          /\ cis'.current_limit = cis.current_limit
          /\ cis'.total_bytes_limit = cis.total_bytes_limit
          /\ call' = Idle
          /\ \/ /\ ~HitLimit(cis) /\ inp.pos < Length
                /\ cis'.total_bytes_read > cis.total_bytes_read
             \/ (HitLimit(cis) \/ inp.pos = Length) /\ CurrentPosition(cis) = End(cis)
      BY <1>2, <1>5, RefreshSound
    <2>2. End(cis') = End(cis) /\ ClosestLimit(cis') = ClosestLimit(cis)
      BY <2>1 DEF End, ClosestLimit
    <2>3. /\ BufferSize(cis') \in Nat /\ cis' \in CodedInputStreams
          /\ CurrentPosition(cis) + BufferSize(cis') <= End(cis)
          /\ CurrentPosition(cis) + BufferSize(cis') = Lesser(cis'.total_bytes_read, ClosestLimit(cis))
      BY <2>1, <2>2, BufferEnd, BufferWithinEnd DEF Sound
    <2>4. CurrentPosition(cis) = Lesser(cis.total_bytes_read, ClosestLimit(cis))
      BY <1>2, <1>5, BufferEnd
    <2>5. CPos < End(cis) => ok /\ BufferSize(cis') > 0
      <3> SUFFICES ASSUME CPos < End(cis) PROVE ok /\ BufferSize(cis') > 0
        OBVIOUS
      <3>1. ok /\ cis'.total_bytes_read > cis.total_bytes_read
        BY <1>2, <2>1
      <3>2. CurrentPosition(cis) < ClosestLimit(cis)
        BY <1>2, MemberTypes, Constants DEF End, Lesser
      <3> QED
        BY <1>2, <2>3, <2>4, <3>1, <3>2, MemberTypes DEF Lesser
    <2>6. ok \in BOOLEAN /\ Returned("peek", BufferSize(cis'), ok) /\ flat' = flat
      BY <1>1, <1>5 DEF others
    <2> HIDE DEF ok
    <2>7. CPos + BufferSize(cis') <= End(cis)
      BY <1>2, <2>3
    <2> QED
      BY <1>3, <2>1, <2>3, <2>5, <2>6, <2>7
  <1> QED
    BY <1>4, <1>5 DEF GetDirectBufferPointer

LEMMA ReadVarintSimulates ==
    ASSUME IInv, ReadVarint
    PROVE  Simulates
  <1>1. /\ Calls("none") /\ call' = Starts("varint", 0) /\ UNCHANGED <<cis, inp, done, flat, cont, limits>>
    BY DEF ReadVarint, others
  <1>2. call'.op \in Working /\ call'.from = CurrentPosition(cis)
    BY <1>1 DEF Starts, Working
  <1>3. CPos = CurrentPosition(cis) /\ CPos' = call'.from
    BY <1>1, <1>2, ActiveMap DEF Calls, CPos
  <1> QED
    BY <1>1, <1>2, <1>3, StackSame DEF Simulates, Stutter

(* A varint or a tag that is read, or refused. *)
LEMMA VarintReturns ==
    ASSUME IInv, call.op \in Working, NEW name \in {"varint", "tag"}, NEW k \in Nat, NEW ok \in BOOLEAN,
           Returned(name, 0, ok), UNCHANGED others, call' = Idle, Sound(cis', inp', flat'),
           cis'.current_limit = cis.current_limit, cis'.total_bytes_limit = cis.total_bytes_limit,
           ok => /\ k \in 1 .. MaxVarint /\ CurrentPosition(cis') = call.from + k
                 /\ call.from + k <= End(cis)
                 /\ Cursor!VarintEnds(call.from, k),
           ~ok => /\ k = 0 /\ CurrentPosition(cis') \in call.from .. End(cis)
                  /\ \A m \in 1 .. MaxVarint : ~(Cursor!VarintEnds(call.from, m) /\ call.from + m <= End(cis))
    PROVE  Simulates
  <1>1. /\ Cursor!Bound = End(cis) /\ CPos = call.from /\ CPos \in Nat /\ End(cis) \in Nat
    BY ActiveMap, ActiveInv
  <1>2. CPos' = CurrentPosition(cis')
    BY IdlePos
  <1>3. CStack' = CStack /\ cont' = cont
    BY StackSame DEF others
  <1>4. done' = [op |-> [name |-> name, n |-> 0], ok |-> ok]
    BY DEF Returned
  <1>5. Cursor!Returns([name |-> name, n |-> 0], k, ok)
    BY <1>1, <1>2, <1>3, <1>4, ReturnsIntro
  <1>6. ok => /\ k \in 1 .. MaxVarint /\ CPos + k <= Cursor!Bound
              /\ Cursor!VarintEnds(CPos, k)
    BY <1>1
  <1>7. ~ok => /\ k = 0
               /\ \A m \in 1 .. MaxVarint : ~(Cursor!VarintEnds(CPos, m) /\ CPos + m <= Cursor!Bound)
    BY <1>1
  <1> QED
    BY <1>3, <1>5, <1>6, <1>7, VarintIntro DEF Simulates

LEMMA DecodeFromArraySimulates ==
    ASSUME IInv, NEW name \in {"varint", "tag"}, DecodeFromArray(name)
    PROVE  Simulates
  <1>1. /\ Calls(name) /\ call.op \in Working /\ UNCHANGED others
        /\ call.from = CurrentPosition(cis) /\ call.n = 0
        /\ call \in [op : Working \cup {"none", "lost", "destroyed"}, from : Int, n : Int]
    BY DEF DecodeFromArray, Calls, Working, IInv, Progress
  <1>2. /\ Sound(cis, inp, flat) /\ CurrentPosition(cis) \in Nat /\ BufferSize(cis) \in Nat
        /\ cis \in CodedInputStreams /\ End(cis) \in Nat
        /\ CurrentPosition(cis) + BufferSize(cis) <= End(cis)
        /\ BufferSize(cis) > 0 => cis.buffer = CurrentPosition(cis)
    BY <1>1, ActiveInv
  <1>3. CASE ~InBuffer(cis)
    <2>1. call' = [call EXCEPT !.op = Slow[name]] /\ UNCHANGED <<cis, inp, done>>
      BY <1>3 DEF DecodeFromArray
    <2>2. Slow[name] \in Working
      BY DEF Slow, Working
    <2>3. call'.op \in Working /\ call'.from = call.from
      BY <1>1, <2>1, <2>2
    <2>4. CPos' = CPos
      BY <1>1, <2>3 DEF CPos
    <2> QED
      BY <1>1, <2>1, <2>4, StackSame DEF Simulates, Stutter, others
  <1>4. InBuffer(cis) => BufferSize(cis) > 0 /\ cis.buffer = call.from
    BY <1>1, <1>2, Constants DEF InBuffer
  <1>5. InBuffer(cis) => Lengths(cis) = {m \in 1 .. MaxVarint : Cursor!VarintEnds(call.from, m)}
    BY <1>4 DEF Lengths, Cursor!VarintEnds
  <1>6. CASE InBuffer(cis) /\ Lengths(cis) = {} /\ Return(Tagged(cis, name, 0), name, 0, FALSE)
    <2>1. Alike(cis, Tagged(cis, name, 0))
      BY <1>2, TagsAlike
    <2>2. /\ cis' = Tagged(cis, name, 0) /\ call' = Idle /\ inp' = inp /\ flat' = flat
          /\ Returned(name, 0, FALSE)
      BY <1>1, <1>6 DEF Return, others
    <2>3. /\ Sound(cis', inp', flat') /\ CurrentPosition(cis') = CurrentPosition(cis)
          /\ cis'.current_limit = cis.current_limit /\ cis'.total_bytes_limit = cis.total_bytes_limit
      BY <1>2, <2>1, <2>2, AlikeSound DEF Alike
    <2>4. \A m \in 1 .. MaxVarint : ~Cursor!VarintEnds(call.from, m)
      BY <1>5, <1>6
    <2>5. CurrentPosition(cis') \in call.from .. End(cis)
      BY <1>1, <1>2, <2>3
    <2>6. \A m \in 1 .. MaxVarint : ~(Cursor!VarintEnds(call.from, m) /\ call.from + m <= End(cis))
      BY <2>4
    <2>7. call.op \in Working /\ UNCHANGED others
      BY <1>1
    <2> QED
      BY <2>2, <2>3, <2>5, <2>6, <2>7, VarintReturns
  <1>7. CASE InBuffer(cis) /\ \E k \in Lengths(cis) : Return(Tagged(Advance(cis, k), name, 1), name, 0, TRUE)
    <2>1. PICK k \in Lengths(cis) : Return(Tagged(Advance(cis, k), name, 1), name, 0, TRUE)
      BY <1>7
    <2>2. k \in 0 .. BufferSize(cis) /\ k \in 1 .. MaxVarint /\ Cursor!VarintEnds(call.from, k)
      BY <1>1, <1>5, <1>7, LengthInBuffer
    <2>3. /\ Sound(Advance(cis, k), inp, flat)
          /\ CurrentPosition(Advance(cis, k)) = CurrentPosition(cis) + k
          /\ Advance(cis, k).current_limit = cis.current_limit
          /\ Advance(cis, k).total_bytes_limit = cis.total_bytes_limit
          /\ Advance(cis, k) \in CodedInputStreams
      BY <1>2, <2>2, AdvanceSound DEF Sound
    <2>4. Alike(Advance(cis, k), Tagged(Advance(cis, k), name, 1))
      BY <2>3, TagsAlike
    <2>5. /\ cis' = Tagged(Advance(cis, k), name, 1) /\ call' = Idle /\ inp' = inp /\ flat' = flat
          /\ Returned(name, 0, TRUE)
      BY <1>1, <2>1 DEF Return, others
    <2>6. /\ Sound(cis', inp', flat') /\ CurrentPosition(cis') = CurrentPosition(cis) + k
          /\ cis'.current_limit = cis.current_limit /\ cis'.total_bytes_limit = cis.total_bytes_limit
      BY <2>3, <2>4, <2>5, AlikeSound DEF Alike
    <2>7. CurrentPosition(cis') = call.from + k /\ call.from + k <= End(cis) /\ k \in Nat
      BY <1>1, <1>2, <2>2, <2>6
    <2> QED
      BY <1>1, <2>2, <2>5, <2>6, <2>7, VarintReturns
  <1> QED
    BY <1>3, <1>6, <1>7 DEF DecodeFromArray

LEMMA ReadVarint64SlowSimulates ==
    ASSUME IInv, NEW name \in {"varint", "tag"}, ReadVarint64Slow(name)
    PROVE  Simulates
  <1>1. call.op \in {"varintSlow", "tagSlow"} /\ call.op \in Working /\ UNCHANGED others
    BY DEF ReadVarint64Slow, Calls, Working, Slow
  <1>2. /\ call.n \in Nat /\ call.from \in Nat /\ call.n <= MaxVarint
        /\ CurrentPosition(cis) = call.from + call.n
        /\ \A j \in 0 .. (call.n - 1) : call.from + j \in cont
        /\ call \in [op : Working, from : Int, n : Int]
    BY <1>1 DEF IInv, Progress, Calls, Working
  <1>3. /\ Sound(cis, inp, flat) /\ BufferSize(cis) \in Nat /\ CurrentPosition(cis) \in Nat
        /\ cis \in CodedInputStreams /\ End(cis) \in Nat
        /\ CurrentPosition(cis) + BufferSize(cis) <= End(cis)
        /\ BufferSize(cis) > 0 => cis.buffer = CurrentPosition(cis)
        /\ CPos = call.from
    BY <1>1, ActiveInv, ActiveMap
  <1>4. \A m \in 1 .. MaxVarint : m <= call.n => ~Cursor!VarintEnds(call.from, m)
    <2> SUFFICES ASSUME NEW m \in 1 .. MaxVarint, m <= call.n
                 PROVE  call.from + m - 1 \in cont
      BY DEF Cursor!VarintEnds
    <2>1. m - 1 \in 0 .. (call.n - 1) /\ call.from + (m - 1) = call.from + m - 1
      BY <1>2, Constants
    <2> QED
      BY <1>2, <2>1
  <1>5. /\ Alike(cis, Tagged(cis, name, 0)) /\ Sound(Tagged(cis, name, 0), inp, flat)
        /\ CurrentPosition(Tagged(cis, name, 0)) = CurrentPosition(cis)
    <2>1. Alike(cis, Tagged(cis, name, 0))
      BY <1>3, TagsAlike
    <2> QED
      BY <1>3, <2>1, AlikeSound
  <1>6. CASE call.n = MaxVarint /\ Return(Tagged(cis, name, 0), name, 0, FALSE)
    <2>1. /\ cis' = Tagged(cis, name, 0) /\ call' = Idle /\ inp' = inp /\ flat' = flat
          /\ Returned(name, 0, FALSE)
      BY <1>1, <1>6 DEF Return, others
    <2>2. /\ Sound(cis', inp', flat') /\ CurrentPosition(cis') = CurrentPosition(cis)
          /\ cis'.current_limit = cis.current_limit /\ cis'.total_bytes_limit = cis.total_bytes_limit
      BY <1>5, <2>1 DEF Alike
    <2>3. \A m \in 1 .. MaxVarint : ~Cursor!VarintEnds(call.from, m)
      BY <1>4, <1>6, Constants
    <2>4. CurrentPosition(cis') \in call.from .. End(cis)
      BY <1>2, <1>3, <2>2
    <2> QED
      BY <1>1, <2>1, <2>2, <2>3, <2>4, VarintReturns
  <1>7. CASE /\ call.n < MaxVarint /\ BufferSize(cis) = 0
             /\ Refresh(cis, Tagged(cis, name, 0), call, Idle)
             /\ IF call' = Idle THEN Returned(name, 0, FALSE) ELSE UNCHANGED done
    <2>1. /\ Sound(cis', inp', flat) /\ cis'.current_limit = cis.current_limit
          /\ CurrentPosition(cis') = CurrentPosition(cis)
          /\ cis'.total_bytes_limit = cis.total_bytes_limit
          /\ call' = call \/ (call' = Idle /\ CurrentPosition(cis) = End(cis))
      BY <1>3, <1>5, <1>7, RefreshSound
    <2>2. call # Idle /\ flat' = flat
      BY <1>1 DEF Idle, others
    <2>3. CASE call' = Idle
      <3>1. Returned(name, 0, FALSE) /\ CurrentPosition(cis) = End(cis)
        BY <1>7, <2>1, <2>2, <2>3
      <3>2. \A m \in 1 .. MaxVarint : ~(Cursor!VarintEnds(call.from, m) /\ call.from + m <= End(cis))
        <4> SUFFICES ASSUME NEW m \in 1 .. MaxVarint, m > call.n
                     PROVE  ~(call.from + m <= End(cis))
          BY <1>2, <1>4, Constants
        <4> QED
          BY <1>2, <1>3, <3>1, Constants
      <3>3. CurrentPosition(cis') \in call.from .. End(cis)
        BY <1>2, <1>3, <2>1, <3>1
      <3> QED
        BY <1>1, <2>1, <2>2, <2>3, <3>1, <3>2, <3>3, VarintReturns
    <2>4. CASE call' = call
      <3>1. CPos' = CPos /\ done' = done
        BY <1>1, <1>7, <2>2, <2>4 DEF CPos
      <3> QED
        BY <1>1, <2>1, <3>1, StackSame DEF Simulates, Stutter, others
    <2> QED
      BY <2>1, <2>3, <2>4
  <1>8. CASE /\ call.n < MaxVarint /\ BufferSize(cis) # 0 /\ cis.buffer \in cont
             /\ cis' = Advance(cis, 1) /\ call' = [call EXCEPT !.n = @ + 1] /\ UNCHANGED <<inp, done>>
    <2>1. 1 \in 0 .. BufferSize(cis)
      BY <1>3, <1>8
    <2>2. cis'.current_limit = cis.current_limit /\ cis'.total_bytes_limit = cis.total_bytes_limit
      BY <1>3, <1>8, <2>1, AdvanceSound
    <2>3. call'.op = call.op /\ call'.from = call.from
      BY <1>2, <1>8
    <2>4. CPos' = CPos
      BY <1>1, <2>3 DEF CPos
    <2> QED
      BY <1>1, <1>8, <2>2, <2>4, StackSame DEF Simulates, Stutter, others
  <1>9. CASE /\ call.n < MaxVarint /\ BufferSize(cis) # 0 /\ cis.buffer \notin cont
             /\ Return(Tagged(Advance(cis, 1), name, 1), name, 0, TRUE)
    <2>1. 1 \in 0 .. BufferSize(cis) /\ cis.buffer = call.from + call.n
      BY <1>2, <1>3, <1>9
    <2>2. /\ Sound(Advance(cis, 1), inp, flat)
          /\ CurrentPosition(Advance(cis, 1)) = CurrentPosition(cis) + 1
          /\ Advance(cis, 1).current_limit = cis.current_limit
          /\ Advance(cis, 1).total_bytes_limit = cis.total_bytes_limit
          /\ Advance(cis, 1) \in CodedInputStreams
      BY <1>3, <2>1, AdvanceSound DEF Sound
    <2>3. Alike(Advance(cis, 1), Tagged(Advance(cis, 1), name, 1))
      BY <2>2, TagsAlike
    <2>4. /\ cis' = Tagged(Advance(cis, 1), name, 1) /\ call' = Idle /\ inp' = inp /\ flat' = flat
          /\ Returned(name, 0, TRUE)
      BY <1>1, <1>9 DEF Return, others
    <2>5. /\ Sound(cis', inp', flat') /\ CurrentPosition(cis') = CurrentPosition(cis) + 1
          /\ cis'.current_limit = cis.current_limit /\ cis'.total_bytes_limit = cis.total_bytes_limit
      BY <2>2, <2>3, <2>4, AlikeSound DEF Alike
    <2> DEFINE k == call.n + 1
    <2>6. /\ k \in 1 .. MaxVarint /\ k \in Nat /\ CurrentPosition(cis') = call.from + k
          /\ call.from + k <= End(cis)
      BY <1>2, <1>3, <1>9, <2>1, <2>5, Constants
    <2>7. Cursor!VarintEnds(call.from, k)
      <3>1. k - 2 = call.n - 1 /\ call.from + k - 1 = call.from + call.n
        BY <1>2
      <3> HIDE DEF k
      <3> QED
        BY <1>2, <1>9, <2>1, <3>1, Zenon DEF Cursor!VarintEnds
    <2> HIDE DEF k
    <2> QED
      BY <1>1, <2>4, <2>5, <2>6, <2>7, VarintReturns
  <1> QED
    BY <1>6, <1>7, <1>8, <1>9, Zenon DEF ReadVarint64Slow

(* A tag where the message ends. *)
LEMMA EndReturns ==
    ASSUME IInv, Calls("none"), NEW op, NEW ok \in BOOLEAN, done' = [op |-> op, ok |-> ok],
           UNCHANGED others, call' = Idle, Sound(cis', inp', flat'),
           CurrentPosition(cis') = CurrentPosition(cis), CurrentPosition(cis) = End(cis),
           cis'.current_limit = cis.current_limit, cis'.total_bytes_limit = cis.total_bytes_limit
    PROVE  /\ Cursor!Returns(op, 0, ok) /\ CPos = Cursor!Bound /\ cont' = cont
           /\ CPos = CurrentPosition(cis) /\ Cursor!Limit = cis.current_limit
  <1>1. /\ CPos = CurrentPosition(cis) /\ Cursor!Bound = End(cis) /\ CPos \in Nat
        /\ Cursor!Limit = cis.current_limit
    BY ActiveMap DEF Calls
  <1>2. CPos' = CurrentPosition(cis')
    BY IdlePos
  <1>3. CStack' = CStack /\ cont' = cont
    BY StackSame DEF others
  <1>4. CPos' = CPos + 0 /\ CPos' <= Cursor!Bound /\ CPos' \in CPos .. Cursor!Bound
    BY <1>1, <1>2
  <1> QED
    BY <1>1, <1>3, <1>4, ReturnsIntro

(* The end of the message is reported where it is, and is legitimate unless *)
(* the total limit alone cuts the stream there.                             *)
LEMMA TagAtEndSimulates ==
    ASSUME IInv, Calls("none"), NEW ok \in BOOLEAN, Returned("end", 0, ok),
           UNCHANGED others, call' = Idle, Sound(cis', inp', flat'),
           CurrentPosition(cis') = CurrentPosition(cis), CurrentPosition(cis) = End(cis),
           cis'.current_limit = cis.current_limit, cis'.total_bytes_limit = cis.total_bytes_limit,
           ok <=> \/ CurrentPosition(cis) < cis.total_bytes_limit
                  \/ cis.current_limit = cis.total_bytes_limit
    PROVE  Simulates
  <1>1. done' = [op |-> [name |-> "end", n |-> 0], ok |-> ok]
    BY DEF Returned
  <1>2. /\ Cursor!Returns([name |-> "end", n |-> 0], 0, ok) /\ CPos = Cursor!Bound /\ cont' = cont
        /\ CPos = CurrentPosition(cis) /\ Cursor!Limit = cis.current_limit
    BY <1>1, EndReturns
  <1>3. (CPos < cis.total_bytes_limit \/ Cursor!Limit = cis.total_bytes_limit) = ok
    BY <1>2
  <1>4. Cursor!Returns([name |-> "end", n |-> 0], 0,
                       CPos < cis.total_bytes_limit \/ Cursor!Limit = cis.total_bytes_limit)
    BY <1>2, <1>3, Zenon
  <1>5. Cursor!TagAtEnd
    BY <1>2, <1>4, Zenon DEF Cursor!TagAtEnd, CPos
  <1> QED
    BY <1>2, <1>5, Zenon DEF Cursor!Next, Simulates

(* Where the buffer is empty, what was read less what is behind the limit   *)
(* is the position.                                                         *)
LEMMA EmptyBuffer ==
    ASSUME Sound(cis, inp, flat), BufferSize(cis) = 0
    PROVE  /\ cis.total_bytes_read - cis.buffer_size_after_limit = CurrentPosition(cis)
           /\ cis.buffer_size_after_limit > 0 \/ cis.total_bytes_read = cis.current_limit
                 => HitLimit(cis)
  <1>1. cis \in CodedInputStreams
    BY DEF Sound
  <1> QED
    BY <1>1, MemberTypes DEF HitLimit

LEMMA ReadTagSimulates ==
    ASSUME IInv, ReadTag
    PROVE  Simulates
  <1>1. Calls("none") /\ UNCHANGED others /\ call.op \in Working \cup {"none"} /\ call.op = "none"
    BY DEF ReadTag, Calls
  <1>2. /\ Sound(cis, inp, flat) /\ CurrentPosition(cis) \in Nat /\ cis \in CodedInputStreams
        /\ CPos = CurrentPosition(cis)
        /\ cis.current_limit \in Int /\ cis.total_bytes_limit \in Int
    BY <1>1, ActiveInv, ActiveMap, MemberTypes
  <1>3. \A ok \in BOOLEAN : /\ Alike(cis, Ended(cis, ok)) /\ Sound(Ended(cis, ok), inp, flat)
                            /\ CurrentPosition(Ended(cis, ok)) = CurrentPosition(cis)
    BY <1>2, TagsAlike, AlikeSound
  <1>4. Starts("tag", 0).op \in Working /\ Starts("tag", 0).from = CurrentPosition(cis)
        /\ Starts("tag", 0) # Idle
    BY DEF Starts, Working, Idle
  <1>5. CASE call' = Starts("tag", 0) /\ UNCHANGED <<cis, inp, done>>
    <2>1. CPos' = CPos
      BY <1>2, <1>4, <1>5 DEF CPos
    <2> QED
      BY <1>1, <1>5, <2>1, StackSame DEF Simulates, Stutter, others
  <1>6. CASE /\ BufferSize(cis) = 0
             /\ cis.buffer_size_after_limit > 0 \/ cis.total_bytes_read = cis.current_limit
             /\ cis.total_bytes_read - cis.buffer_size_after_limit < cis.total_bytes_limit
             /\ Return(Ended(cis, TRUE), "end", 0, TRUE)
    <2>1. HitLimit(cis) /\ CurrentPosition(cis) < cis.total_bytes_limit
      BY <1>2, <1>6, EmptyBuffer
    <2>2. CurrentPosition(cis) = End(cis)
      BY <1>2, <1>6, <2>1, HitLimitAtEnd
    <2>3. /\ cis' = Ended(cis, TRUE) /\ call' = Idle /\ inp' = inp /\ flat' = flat
          /\ Returned("end", 0, TRUE)
      BY <1>1, <1>6 DEF Return, others
    <2>4. /\ Sound(cis', inp', flat') /\ CurrentPosition(cis') = CurrentPosition(cis)
          /\ cis'.current_limit = cis.current_limit /\ cis'.total_bytes_limit = cis.total_bytes_limit
      BY <1>3, <2>3 DEF Alike
    <2> QED
      BY <1>1, <2>1, <2>2, <2>3, <2>4, TagAtEndSimulates
  <1>7. CASE /\ BufferSize(cis) = 0
             /\ Refresh(cis, Ended(cis, Legitimate(cis)), Starts("tag", 0), Idle)
             /\ IF call' = Idle THEN Returned("end", 0, Legitimate(cis)) ELSE UNCHANGED done
    <2>1. Legitimate(cis) \in BOOLEAN
      BY DEF Legitimate
    <2>2. Alike(cis, Ended(cis, Legitimate(cis)))
      BY <1>3, <2>1
    <2>3. /\ Sound(cis', inp', flat) /\ cis'.current_limit = cis.current_limit
          /\ CurrentPosition(cis') = CurrentPosition(cis)
          /\ cis'.total_bytes_limit = cis.total_bytes_limit
          /\ call' = Starts("tag", 0) \/ (call' = Idle /\ CurrentPosition(cis) = End(cis))
      BY <1>2, <1>7, <2>2, RefreshSound
    <2>4. CASE call' = Starts("tag", 0)
      <3>1. CPos' = CPos /\ done' = done
        BY <1>2, <1>4, <1>7, <2>4 DEF CPos
      <3> QED
        BY <1>1, <2>3, <3>1, StackSame DEF Simulates, Stutter, others
    <2>5. CASE call' = Idle /\ CurrentPosition(cis) = End(cis)
      <3>1. Returned("end", 0, Legitimate(cis)) /\ flat' = flat
        BY <1>1, <1>7, <2>5 DEF others
      <3>2. Legitimate(cis) <=> \/ CurrentPosition(cis) < cis.total_bytes_limit
                                \/ cis.current_limit = cis.total_bytes_limit
        BY <1>2, <1>7, EmptyBuffer DEF Legitimate
      <3> QED
        BY <1>1, <2>1, <2>3, <2>5, <3>1, <3>2, TagAtEndSimulates
    <2> QED
      BY <2>3, <2>4, <2>5
  <1> QED
    BY <1>5, <1>6, <1>7 DEF ReadTag

LEMMA ExpectAtEndSimulates ==
    ASSUME IInv, ExpectAtEnd
    PROVE  Simulates
  <1>1. /\ Calls("none") /\ UNCHANGED others /\ Return(Ended(cis, TRUE), "atEnd", 0, TRUE)
        /\ BufferSize(cis) = 0 /\ call.op \in Working \cup {"none"}
        /\ cis.buffer_size_after_limit # 0 \/ cis.total_bytes_read = cis.current_limit
    BY DEF ExpectAtEnd, Calls
  <1>2. Sound(cis, inp, flat) /\ cis \in CodedInputStreams
    BY <1>1, ActiveInv
  <1>3. HitLimit(cis)
    BY <1>1, <1>2, MemberTypes DEF HitLimit
  <1>4. CurrentPosition(cis) = End(cis)
    BY <1>1, <1>2, <1>3, HitLimitAtEnd
  <1>5. /\ Alike(cis, Ended(cis, TRUE)) /\ Sound(Ended(cis, TRUE), inp, flat)
        /\ CurrentPosition(Ended(cis, TRUE)) = CurrentPosition(cis)
    BY <1>2, TagsAlike, AlikeSound
  <1>6. /\ cis' = Ended(cis, TRUE) /\ call' = Idle /\ inp' = inp /\ flat' = flat
        /\ done' = [op |-> [name |-> "atEnd", n |-> 0], ok |-> TRUE]
    BY <1>1 DEF Return, Returned, others
  <1>7. /\ Sound(cis', inp', flat') /\ CurrentPosition(cis') = CurrentPosition(cis)
        /\ cis'.current_limit = cis.current_limit /\ cis'.total_bytes_limit = cis.total_bytes_limit
    BY <1>5, <1>6 DEF Alike
  <1>8. /\ Cursor!Returns([name |-> "atEnd", n |-> 0], 0, TRUE) /\ CPos = Cursor!Bound /\ cont' = cont
    BY <1>1, <1>4, <1>6, <1>7, EndReturns
  <1>9. Cursor!ExpectAtEnd
    BY <1>8, Zenon DEF Cursor!ExpectAtEnd, CPos
  <1> QED
    BY <1>8, <1>9, Zenon DEF Cursor!Next, Simulates

(* Between two calls the limits change and the position does not. *)
LEMMA LimitsPos ==
    ASSUME IInv, Calls("none"), call' = call, CurrentPosition(cis') = CurrentPosition(cis)
    PROVE  CPos' = CPos /\ CPos = CurrentPosition(cis) /\ CPos \in Nat
  <1>1. CPos' = CPos
    BY DEF CPos
  <1> QED
    BY <1>1, ActiveMap DEF Calls

LEMMA PushLimitSimulates ==
    ASSUME IInv, NEW n \in Counts, PushLimit(n)
    PROVE  Simulates
  <1>1. n \in Int /\ n \in -(IntMax + 1) .. IntMax
    BY StreamAssumption, Constants
  <1>2. /\ Sound(cis', inp', flat') /\ Nested(cis', limits', flat')
        /\ CurrentPosition(cis') = CurrentPosition(cis)
        /\ cis'.current_limit = Lesser(AskedLimit(n), cis.current_limit)
        /\ cis'.total_bytes_limit = cis.total_bytes_limit
        /\ limits' = Append(limits, cis.current_limit)
        /\ call' = call /\ Calls("none") /\ UNCHANGED <<inp, flat, cont, done>>
    BY <1>1, PushLimitFacts
  <1>3. CPos' = CPos /\ CPos = CurrentPosition(cis) /\ CPos \in Nat
    BY <1>2, LimitsPos
  <1>4. /\ cis \in CodedInputStreams /\ flat \in BOOLEAN /\ Nested(cis, limits, flat)
        /\ cis' \in CodedInputStreams /\ Cursor!Limit = cis.current_limit
    BY <1>2, ActiveInv, ActiveMap DEF Calls, Sound
  <1> DEFINE asked == IF n >= 0 /\ n <= IntMax - CPos THEN CPos + n ELSE IntMax
             cur == cis.current_limit
             new == cis'.current_limit
  <1>5. AskedLimit(n) = asked /\ asked \in Int /\ cur \in 0 .. IntMax /\ new \in 0 .. IntMax
    BY <1>1, <1>3, <1>4, MemberTypes, Constants DEF AskedLimit
  <1>6. new = Cursor!Min({Cursor!Limit, asked})
    <2>1. new = Lesser(asked, cur)
      BY <1>2, <1>5
    <2> HIDE DEF asked, cur, new
    <2>2. {cur, asked} \subseteq Int /\ new \in {cur, asked} /\ \A y \in {cur, asked} : new <= y
      BY <1>5, <2>1 DEF Lesser
    <2>3. Cursor!Min({cur, asked}) = new
      BY <2>2, MinIs
    <2> QED
      BY <1>4, <2>3 DEF cur
  <1>7. CStack' = Append(CStack, new)
    <2>1. /\ limits \in Seq(0 .. IntMax) /\ CStack' = IF flat THEN Append(limits', new) ELSE Tail(Append(limits', new))
          /\ CStack = IF flat THEN Append(limits, cur) ELSE Tail(Append(limits, cur))
      BY <1>2, <1>4 DEF CStack, Nested
    <2> HIDE DEF cur, new
    <2>2. /\ Append(limits, cur) \in Seq(0 .. IntMax) /\ Append(limits, cur) # << >>
          /\ limits' = Append(limits, cur)
      BY <1>2, <1>5, <2>1, AppendProperties DEF cur
    <2>3. Tail(Append(limits', new)) = Append(Tail(limits'), new)
      BY <1>5, <2>2, HeadTailAppend
    <2> QED
      BY <1>4, <2>1, <2>2, <2>3
  <1> HIDE DEF new
  <1>8. CStack' = Append(CStack, Cursor!Min({Cursor!Limit, asked}))
    BY <1>6, <1>7
  <1>9. Cursor!PushLimit(n)
    BY <1>2, <1>3, <1>8, Zenon DEF Cursor!PushLimit, CPos, CStack
  <1> QED
    BY <1>1, <1>2, <1>9, Zenon DEF Cursor!Next, Simulates

LEMMA PopLimitSimulates ==
    ASSUME IInv, PopLimit
    PROVE  Simulates
  <1>1. /\ CurrentPosition(cis') = CurrentPosition(cis) /\ Nested(cis', limits', flat')
        /\ Sound(cis', inp', flat')
        /\ cis'.total_bytes_limit = cis.total_bytes_limit
        /\ limits \in Seq(0 .. IntMax) /\ limits # << >>
        /\ limits' = SubSeq(limits, 1, Len(limits) - 1)
        /\ cis'.current_limit = limits[Len(limits)]
        /\ call' = call /\ Calls("none") /\ UNCHANGED <<inp, flat, cont, done>>
    BY PopLimitFacts
  <1>2. CPos' = CPos
    BY <1>1, LimitsPos
  <1>3. /\ cis \in CodedInputStreams /\ flat \in BOOLEAN /\ Nested(cis, limits, flat)
        /\ cis.current_limit \in 0 .. IntMax
    BY <1>1, ActiveInv, MemberTypes DEF Calls
  <1> DEFINE cur == cis.current_limit
             N == Len(limits)
             all == Append(limits, cur)
  <1>4. N \in Nat /\ N >= 1 /\ N \in 1 .. N /\ 1 \in 1 .. N
    <2>1. limits \in Seq(0 .. IntMax) /\ limits # << >>
      BY <1>1
    <2> QED
      BY <2>1
  <1>5. Append(limits', limits[N]) = limits
    <2>1. SubSeq(limits, 1, N) = SubSeq(limits, 1, N - 1) \o <<limits[N]>>
      BY <1>1, <1>4, SubSeqRecursiveSecond
    <2>2. SubSeq(limits, 1, N) = limits
      BY <1>1, SubSeqFull
    <2>3. limits' \in Seq(0 .. IntMax) /\ limits[N] \in 0 .. IntMax
      BY <1>1, <1>4, ElementOfSeq DEF Nested
    <2>4. Append(limits', limits[N]) = limits' \o <<limits[N]>>
      BY <2>3, AppendIsConcat
    <2> QED
      BY <1>1, <2>1, <2>2, <2>4
  <1> HIDE DEF cur
  <1>6. /\ all \in Seq(0 .. IntMax) /\ Len(all) = N + 1 /\ all # << >>
        /\ \A i \in 1 .. N : all[i] = limits[i]
    BY <1>1, <1>3, AppendProperties DEF cur
  <1>7. SubSeq(all, 1, N) = limits
    <2>1. N <= Len(all)
      BY <1>4, <1>6
    <2>2. /\ SubSeq(all, 1, N) \in Seq(0 .. IntMax) /\ Len(SubSeq(all, 1, N)) = N
          /\ \A i \in 1 .. N : SubSeq(all, 1, N)[i] = all[i]
      BY <1>4, <1>6, <2>1, InitialSubSeq
    <2>3. Len(SubSeq(all, 1, N)) = Len(limits)
          /\ \A i \in 1 .. Len(SubSeq(all, 1, N)) : SubSeq(all, 1, N)[i] = limits[i]
      BY <1>6, <2>2
    <2> QED
      BY <1>1, <2>2, <2>3, SeqEqual
  <1>8. /\ CStack = IF flat THEN all ELSE Tail(all)
        /\ CStack' = IF flat THEN limits ELSE Tail(limits)
    <2>1. CStack' = IF flat THEN Append(limits', cis'.current_limit) ELSE Tail(Append(limits', cis'.current_limit))
      BY <1>1 DEF CStack
    <2> QED
      BY <1>1, <1>5, <2>1 DEF CStack, cur
  <1>9. CStack # << >> /\ CStack' = SubSeq(CStack, 1, Len(CStack) - 1)
    <2>1. CASE flat
      <3>1. Len(all) - 1 = N
        BY <1>4, <1>6
      <3> QED
        BY <1>6, <1>7, <1>8, <2>1, <3>1
    <2>2. CASE ~flat
      <3> HIDE DEF all
      <3>1. /\ Tail(all) \in Seq(0 .. IntMax) /\ Len(Tail(all)) = N
            /\ \A i \in 1 .. N : Tail(all)[i] = all[i + 1]
        <4>1. /\ Tail(all) \in Seq(0 .. IntMax) /\ Len(Tail(all)) = Len(all) - 1
              /\ \A i \in 1 .. Len(Tail(all)) : Tail(all)[i] = all[i + 1]
          BY <1>6, HeadTailProperties
        <4>2. Len(Tail(all)) = N
          BY <1>4, <1>6, <4>1
        <4> QED
          BY <4>1, <4>2
      <3>2. /\ Tail(limits) \in Seq(0 .. IntMax) /\ Len(Tail(limits)) = N - 1
            /\ \A i \in 1 .. (N - 1) : Tail(limits)[i] = limits[i + 1]
        <4>1. /\ Tail(limits) \in Seq(0 .. IntMax) /\ Len(Tail(limits)) = N - 1
              /\ \A i \in 1 .. Len(Tail(limits)) : Tail(limits)[i] = limits[i + 1]
          BY <1>1, HeadTailProperties
        <4> QED
          BY <4>1
      <3>3. \A i \in 1 .. (N - 1) : Tail(all)[i] = Tail(limits)[i]
        <4> SUFFICES ASSUME NEW i \in 1 .. (N - 1)
                     PROVE  Tail(all)[i] = Tail(limits)[i]
          OBVIOUS
        <4>1. i \in 1 .. N /\ i + 1 \in 1 .. N
          BY <1>4
        <4> QED
          BY <1>6, <3>1, <3>2, <4>1
      <3>4. N - 1 \in Nat /\ N - 1 <= Len(Tail(all))
        BY <1>4, <3>1
      <3>5. /\ SubSeq(Tail(all), 1, N - 1) \in Seq(0 .. IntMax)
            /\ Len(SubSeq(Tail(all), 1, N - 1)) = N - 1
            /\ \A i \in 1 .. (N - 1) : SubSeq(Tail(all), 1, N - 1)[i] = Tail(all)[i]
        BY <3>1, <3>4, InitialSubSeq
      <3>6. SubSeq(Tail(all), 1, N - 1) = Tail(limits)
        <4>1. Len(SubSeq(Tail(all), 1, N - 1)) = Len(Tail(limits))
          BY <3>2, <3>5
        <4>2. \A i \in 1 .. Len(SubSeq(Tail(all), 1, N - 1)) : SubSeq(Tail(all), 1, N - 1)[i] = Tail(limits)[i]
          BY <3>3, <3>5
        <4> QED
          BY <3>2, <3>5, <4>1, <4>2, SeqEqual
      <3>7. Tail(all) # << >>
        BY <1>4, <3>1
      <3> QED
        BY <1>8, <2>2, <3>1, <3>6, <3>7
    <2> QED
      BY <1>3, <2>1, <2>2
  <1>10. Cursor!PopLimit
    BY <1>1, <1>2, <1>9, Zenon DEF Cursor!PopLimit, CPos, CStack
  <1> QED
    BY <1>1, <1>10, Zenon DEF Cursor!Next, Simulates

LEMMA SetTotalBytesLimitSimulates ==
    ASSUME IInv, NEW n \in TotalLimits, SetTotalBytesLimit(n)
    PROVE  Simulates
  <1>1. n \in Int /\ n \in -(IntMax + 1) .. IntMax
    BY StreamAssumption, Constants
  <1>2. /\ CurrentPosition(cis') = CurrentPosition(cis)
        /\ cis'.current_limit = cis.current_limit
        /\ cis'.total_bytes_limit = Greater(CurrentPosition(cis), n)
        /\ call' = call /\ Calls("none") /\ UNCHANGED <<inp, flat, cont, limits, done>>
    BY SetTotalBytesLimitFacts
  <1>3. CPos' = CPos /\ CPos = CurrentPosition(cis) /\ CPos \in Nat
    BY <1>2, LimitsPos
  <1>4. CStack' = CStack
    BY <1>2, StackSame
  <1>5. cis'.total_bytes_limit = Cursor!Max({CPos, n})
    <2> DEFINE t == cis'.total_bytes_limit
    <2>1. t = Greater(CPos, n)
      BY <1>2, <1>3
    <2> HIDE DEF t
    <2>2. {CPos, n} \subseteq Int /\ t \in {CPos, n} /\ \A y \in {CPos, n} : t >= y
      BY <1>1, <1>3, <2>1 DEF Greater
    <2>3. Cursor!Max({CPos, n}) = t
      BY <2>2, MaxIs
    <2> QED
      BY <2>3 DEF t
  <1>6. Cursor!SetTotalBytesLimit(n)
    BY <1>2, <1>3, <1>4, <1>5, Zenon DEF Cursor!SetTotalBytesLimit, CPos, CStack
  <1> QED
    BY <1>1, <1>2, <1>6, Zenon DEF Cursor!Next, Simulates

LEMMA DestroySimulates ==
    ASSUME IInv, Destroy
    PROVE  Simulates
  <1>1. /\ call'.op = "destroyed" /\ CurrentPosition(cis') = CurrentPosition(cis)
        /\ cis'.current_limit = cis.current_limit
        /\ cis'.total_bytes_limit = cis.total_bytes_limit
        /\ UNCHANGED <<flat, cont, limits, done>>
        /\ Calls("none") \/ Calls("lost")
    BY DestroyFacts DEF Destroy
  <1>2. call'.op \notin Working /\ call.op \notin Working
    BY <1>1 DEF Working, Calls
  <1>3. CPos' = CPos
    BY <1>1, <1>2 DEF CPos
  <1> QED
    BY <1>1, <1>3, StackSame DEF Simulates, Stutter

(* Every step of the stream is a step of the cursor, or none that it sees. *)
LEMMA NextSimulates ==
    ASSUME IInv, [Next]_vars
    PROVE  Simulates
  <1>1. ASSUME NEW n \in Counts, ReadString(n) PROVE Simulates
    BY <1>1, ReadStringSimulates
  <1>2. ASSUME NEW n \in Counts, Skip(n) PROVE Simulates
    BY <1>2, SkipSimulates
  <1>3. ASSUME NEW n \in Counts, PushLimit(n) PROVE Simulates
    BY <1>3, PushLimitSimulates
  <1>4. CASE ReadLoop
    BY <1>4, ReadLoopSimulates
  <1>5. CASE ReadVarint
    BY <1>5, ReadVarintSimulates
  <1>6. CASE ReadTag
    BY <1>6, ReadTagSimulates
  <1>7. ASSUME NEW name \in {"varint", "tag"}, DecodeFromArray(name) PROVE Simulates
    BY <1>7, DecodeFromArraySimulates
  <1>8. ASSUME NEW name \in {"varint", "tag"}, ReadVarint64Slow(name) PROVE Simulates
    BY <1>8, ReadVarint64SlowSimulates
  <1>9. CASE GetDirectBufferPointer
    BY <1>9, GetDirectBufferPointerSimulates
  <1>10. CASE ExpectAtEnd
    BY <1>10, ExpectAtEndSimulates
  <1>11. CASE PopLimit
    BY <1>11, PopLimitSimulates
  <1>12. ASSUME NEW n \in TotalLimits, SetTotalBytesLimit(n) PROVE Simulates
    BY <1>12, SetTotalBytesLimitSimulates
  <1>13. CASE Destroy
    BY <1>13, DestroySimulates
  <1>14. CASE UNCHANGED vars
    BY <1>14 DEF vars, Simulates, Stutter, CPos, CStack, CurrentPosition, BufferSize
  <1> QED
    BY <1>1, <1>2, <1>3, <1>4, <1>5, <1>6, <1>7, <1>8, <1>9, <1>10, <1>11, <1>12, <1>13, <1>14
    DEF Next

(* The stream starts where the cursor may start. *)
LEMMA InitSimulates ==
    ASSUME Init
    PROVE  Cursor!Init
  <1>1. /\ IInv /\ limits = << >> /\ Sound(cis, inp, flat) /\ CurrentPosition(cis) = 0
        /\ call = Idle /\ done = [op |-> [name |-> "new", n |-> 0], ok |-> TRUE]
    BY InitInv DEF Init
  <1>2. call.op = "none"
    BY <1>1 DEF Idle
  <1>3. CPos = 0
    BY <1>1, <1>2, ActiveMap
  <1>4. /\ cis \in CodedInputStreams /\ flat \in BOOLEAN
        /\ cis.current_limit \in 0 .. IntMax /\ cis.total_bytes_limit \in 0 .. IntMax
    BY <1>1, MemberTypes DEF Sound
  <1>5. CStack \in {<< >>} \cup {<<n>> : n \in 0 .. IntMax}
    <2> DEFINE cur == cis.current_limit
    <2>1. CStack = IF flat THEN Append(<< >>, cur) ELSE Tail(Append(<< >>, cur))
      BY <1>1 DEF CStack
    <2> HIDE DEF cur
    <2>2. cur \in 0 .. IntMax
      BY <1>4 DEF cur
    <2>3. Append(<< >>, cur) = <<cur>> /\ Tail(Append(<< >>, cur)) = << >>
      BY <2>2
    <2> QED
      BY <1>4, <2>1, <2>2, <2>3
  <1> QED
    BY <1>1, <1>3, <1>4, <1>5, Zenon DEF Cursor!Init, CPos, CStack

(* CodedInputStream implements the cursor with limits: over any chunks, any *)
(* flat array and any nesting of limits, each method returns what the       *)
(* cursor returns and leaves it where the cursor is.                        *)
THEOREM StreamImplementsReader == Spec => ImplementsLimitedReader
  <1>1. Init => IInv /\ Cursor!Init
    BY InitInv, InitSimulates
  <1>2. IInv /\ [Next]_vars => IInv'
    BY NextInv
  <1>3. IInv /\ [Next]_vars => [Cursor!Next]_<<CPos, CStack, cis.total_bytes_limit, done, cont>>
    BY NextSimulates DEF Simulates, Stutter
  <1>4. Spec => Cursor!Init /\ [][Cursor!Next]_<<CPos, CStack, cis.total_bytes_limit, done, cont>>
    BY <1>1, <1>2, <1>3, PTL DEF Spec
  <1> QED
    BY <1>4 DEF ImplementsLimitedReader, Cursor!Spec, CPos, CStack

-----------------------------------------------------------------------------
(* The parser of messages.                                                  *)

(* Induction over a set of naturals. *)
LEMMA SetInduction ==
    ASSUME NEW T, 0 \in T, \A n \in Nat : n \in T => n + 1 \in T
    PROVE  \A n \in Nat : n \in T
  <1> SUFFICES ASSUME Nat \ T # {} PROVE FALSE
    OBVIOUS
  <1>1. PICK x \in Nat \ T : \A y \in Nat \ T : ~(<<y, x>> \in OpToRel(<, Nat))
    <2>1. Nat \ T \subseteq Nat
      OBVIOUS
    <2> QED
      BY <2>1, NatLessThanWellFounded, WFMin
  <1>2. x # 0 /\ x - 1 \in Nat
    OBVIOUS
  <1>3. <<x - 1, x>> \in OpToRel(<, Nat)
    BY <1>2 DEF OpToRel
  <1>4. x - 1 \in T
    BY <1>1, <1>2, <1>3
  <1> QED
    BY <1>2, <1>4

-----------------------------------------------------------------------------
(* The sequences of fields: the recursive definition has a solution. *)

Encodings == Seq(Tokens)

Span(i, j, d, known, lim) == [from |-> i, to |-> j, d |-> d, known |-> known, lim |-> lim]

(* The tokens x.from .. k - 1 are one field, g telling what the spans are. *)
OneField(in, g, x, k) ==
    LET t == in[x.from]
        sub == x.known /\ t.f = IF t.k = "len" THEN Sub ELSE Grp
        Inner(to, known, lim) ==
            [from |-> x.from + 1, to |-> to, d |-> x.d + 1, known |-> known, lim |-> lim]
    IN  \/ t.k = "value" /\ k = x.from + 1
        \/ t.k = "len" /\ ~sub /\ k = x.from + 1 + t.n
        \/ /\ t.k = "len" /\ sub /\ x.d < RecursionLimit
           /\ k = x.from + 1 + t.n \/ (k = x.lim /\ k < x.from + 1 + t.n)
           /\ g[Inner(k, TRUE, k)]
        \/ /\ t.k = "start" /\ x.d < RecursionLimit /\ k > x.from + 1
           /\ in[k - 1] = EndTag(t.f)
           /\ g[Inner(k - 1, sub, x.lim)]

Turn(in, g, x) ==
    \/ x.from = x.to
    \/ \E k \in (x.from + 1) .. x.to : g[[x EXCEPT !.from = k]] /\ OneField(in, g, x, k)

All(in) == CHOOSE g : g = [x \in Spans(in) |-> Turn(in, g, x)]

LEMMA FieldsIsAll ==
    ASSUME NEW in
    PROVE  Fields(in) <=> All(in)[Span(1, Len(in) + 1, 0, TRUE, Len(in) + 1)]
  BY Zenon DEF Fields, All, Turn, OneField, Span

LEMMA TokenFacts ==
    ASSUME NEW in \in Encodings
    PROVE  /\ Len(in) \in Nat /\ RecursionLimit \in Nat
           /\ \A i \in 1 .. Len(in) : /\ in[i] \in Tokens /\ in[i].n \in Nat
                                      /\ in[i].k \in {"value", "len", "start", "end", "zero"}
  <1>1. Len(in) \in Nat /\ \A i \in 1 .. Len(in) : in[i] \in Tokens
    BY DEF Encodings
  <1> QED
    BY <1>1, ParserAssumption

LEMMA SpanFacts ==
    ASSUME NEW in \in Encodings, NEW x \in Spans(in)
    PROVE  /\ x.from \in Nat /\ x.to \in Nat /\ x.lim \in Nat /\ x.d \in Nat /\ x.known \in BOOLEAN
           /\ x.from \in 1 .. (Len(in) + 1) /\ x.to \in 1 .. (Len(in) + 1)
           /\ x.lim \in 1 .. (Len(in) + 1) /\ x.d \in 0 .. RecursionLimit
  <1>1. Len(in) \in Nat /\ RecursionLimit \in Nat
    BY TokenFacts
  <1> QED
    BY <1>1 DEF Spans, Ends

LEMMA LaterSpans ==
    ASSUME NEW in \in Encodings, NEW x \in Spans(in), NEW k \in (x.from + 1) .. x.to
    PROVE  /\ [x EXCEPT !.from = k] \in Spans(in)
           /\ [x EXCEPT !.from = k].from = k /\ k > x.from
           /\ \A known \in BOOLEAN, to \in x.from + 1 .. k, lim \in 1 .. (Len(in) + 1) :
                  x.d < RecursionLimit =>
                  LET y == [from |-> x.from + 1, to |-> to, d |-> x.d + 1, known |-> known, lim |-> lim]
                  IN  y \in Spans(in) /\ y.from > x.from
  <1>1. Len(in) \in Nat /\ RecursionLimit \in Nat
    BY TokenFacts
  <1>2. /\ x.from \in 1 .. (Len(in) + 1) /\ x.to \in 1 .. (Len(in) + 1) /\ x.d \in 0 .. RecursionLimit
        /\ k \in 1 .. (Len(in) + 1) /\ x.from + 1 \in 1 .. (Len(in) + 1)
    BY <1>1, SpanFacts
  <1>3. [x EXCEPT !.from = k] \in Spans(in)
    BY <1>2 DEF Spans, Ends
  <1>4. [x EXCEPT !.from = k].from = k /\ k > x.from
    BY <1>2 DEF Spans
  <1>5. ASSUME NEW known \in BOOLEAN, NEW to \in x.from + 1 .. k, NEW lim \in 1 .. (Len(in) + 1),
               x.d < RecursionLimit
        PROVE  LET y == [from |-> x.from + 1, to |-> to, d |-> x.d + 1, known |-> known, lim |-> lim]
               IN  y \in Spans(in) /\ y.from > x.from
    <2>1. to \in 1 .. (Len(in) + 1) /\ x.d + 1 \in 0 .. RecursionLimit /\ x.from + 1 > x.from
      BY <1>1, <1>2, <1>5
    <2>2. x.from + 1 \in Ends(in) /\ to \in Ends(in) /\ lim \in Ends(in)
      BY <1>2, <1>5, <2>1 DEF Ends
    <2> DEFINE i == x.from + 1
               e == x.d + 1
    <2>3. i \in Ends(in) /\ e \in 0 .. RecursionLimit /\ i > x.from
      BY <2>1, <2>2
    <2> HIDE DEF i, e
    <2>4. [from |-> i, to |-> to, d |-> e, known |-> known, lim |-> lim] \in Spans(in)
      BY <1>5, <2>2, <2>3 DEF Spans
    <2> QED
      BY <2>3, <2>4 DEF i, e
  <1> QED
    BY <1>3, <1>4, <1>5

(* A turn asks only about later spans. *)
LEMMA TurnAlike ==
    ASSUME NEW in \in Encodings, NEW f, NEW g, NEW x \in Spans(in),
           \A y \in Spans(in) : y.from > x.from => f[y] = g[y]
    PROVE  Turn(in, f, x) <=> Turn(in, g, x)
  <1>1. ASSUME NEW k \in (x.from + 1) .. x.to
        PROVE  /\ f[[x EXCEPT !.from = k]] = g[[x EXCEPT !.from = k]]
               /\ OneField(in, f, x, k) <=> OneField(in, g, x, k)
    <2>1. f[[x EXCEPT !.from = k]] = g[[x EXCEPT !.from = k]]
      <3>1. [x EXCEPT !.from = k] \in Spans(in) /\ [x EXCEPT !.from = k].from > x.from
        BY LaterSpans
      <3> QED
        BY <3>1
    <2> DEFINE Inner(to, known, lim) ==
                   [from |-> x.from + 1, to |-> to, d |-> x.d + 1, known |-> known, lim |-> lim]
               t == in[x.from]
               sub == x.known /\ t.f = IF t.k = "len" THEN Sub ELSE Grp
    <2>2. x.d < RecursionLimit => f[Inner(k, TRUE, k)] = g[Inner(k, TRUE, k)]
      <3>1. k \in x.from + 1 .. k /\ k \in 1 .. (Len(in) + 1) /\ TRUE \in BOOLEAN
        BY SpanFacts, TokenFacts
      <3>2. x.d < RecursionLimit => Inner(k, TRUE, k) \in Spans(in) /\ Inner(k, TRUE, k).from > x.from
        BY <3>1, LaterSpans
      <3> QED
        BY <3>2
    <2>3. x.d < RecursionLimit /\ k > x.from + 1 =>
              f[Inner(k - 1, sub, x.lim)] = g[Inner(k - 1, sub, x.lim)]
      <3> SUFFICES ASSUME x.d < RecursionLimit, k > x.from + 1
                   PROVE  f[Inner(k - 1, sub, x.lim)] = g[Inner(k - 1, sub, x.lim)]
        OBVIOUS
      <3>1. k - 1 \in x.from + 1 .. k /\ x.lim \in 1 .. (Len(in) + 1)
        BY SpanFacts, TokenFacts
      <3>2. sub \in BOOLEAN
        BY SpanFacts
      <3> HIDE DEF sub
      <3>3. Inner(k - 1, sub, x.lim) \in Spans(in) /\ Inner(k - 1, sub, x.lim).from > x.from
        BY <3>1, <3>2, LaterSpans
      <3> QED
        BY <3>3
    <2>4. \A h : OneField(in, h, x, k) <=>
              \/ t.k = "value" /\ k = x.from + 1
              \/ t.k = "len" /\ ~sub /\ k = x.from + 1 + t.n
              \/ /\ t.k = "len" /\ sub /\ x.d < RecursionLimit
                 /\ k = x.from + 1 + t.n \/ (k = x.lim /\ k < x.from + 1 + t.n)
                 /\ h[Inner(k, TRUE, k)]
              \/ /\ t.k = "start" /\ x.d < RecursionLimit /\ k > x.from + 1
                 /\ in[k - 1] = EndTag(t.f)
                 /\ h[Inner(k - 1, sub, x.lim)]
      BY Zenon DEF OneField
    <2> HIDE DEF Inner, t, sub
    <2> QED
      BY <2>1, <2>2, <2>3, <2>4, Zenon
  <1> QED
    BY <1>1, Zenon DEF Turn

LEMMA TurnsExist ==
    ASSUME NEW in \in Encodings
    PROVE  \E g : g = [x \in Spans(in) |-> Turn(in, g, x)]
  <1> DEFINE n == Len(in) + 1
             Upto(g, m) == \A x \in Spans(in) : x.from + m >= n => g[x] = Turn(in, g, x)
             T == {m \in Nat : \E g : g = [x \in Spans(in) |-> g[x]] /\ Upto(g, m)}
  <1>1. n \in Nat
    BY TokenFacts
  <1>2. 0 \in T
    <2> DEFINE f == [x \in Spans(in) |-> FALSE]
               g == [x \in Spans(in) |-> Turn(in, f, x)]
    <2>1. g = [x \in Spans(in) |-> g[x]]
      OBVIOUS
    <2>2. ASSUME NEW x \in Spans(in), x.from + 0 >= n PROVE g[x] = Turn(in, g, x)
      <3>1. \A y \in Spans(in) : ~(y.from > x.from)
        BY <1>1, <2>2, SpanFacts, TokenFacts
      <3> HIDE DEF g
      <3>2. Turn(in, f, x) <=> Turn(in, g, x)
        BY <3>1, TurnAlike
      <3>3. g[x] = Turn(in, f, x)
        BY DEF g
      <3> HIDE DEF f
      <3> QED
        BY <3>2, <3>3, Zenon DEF Turn
    <2> QED
      BY <2>1, <2>2
  <1>3. ASSUME NEW m \in Nat, m \in T PROVE m + 1 \in T
    <2>1. PICK f : f = [x \in Spans(in) |-> f[x]] /\ Upto(f, m)
      BY <1>3
    <2> DEFINE g == [x \in Spans(in) |-> Turn(in, f, x)]
    <2>2. g = [x \in Spans(in) |-> g[x]]
      OBVIOUS
    <2>3. ASSUME NEW x \in Spans(in), x.from + (m + 1) >= n PROVE g[x] = Turn(in, g, x)
      <3>1. ASSUME NEW y \in Spans(in), y.from > x.from PROVE f[y] = g[y]
        <4>1. y.from + m >= n
          BY <1>1, <2>3, <3>1, SpanFacts
        <4> QED
          BY <2>1, <4>1
      <3>2. g[x] = Turn(in, f, x)
        OBVIOUS
      <3> HIDE DEF g
      <3>3. Turn(in, f, x) <=> Turn(in, g, x)
        BY <3>1, TurnAlike
      <3> QED
        BY <3>2, <3>3, Zenon DEF Turn
    <2>4. Upto(g, m + 1)
      BY <2>3
    <2> HIDE DEF g, Upto
    <2> QED
      BY <2>2, <2>4
  <1> HIDE DEF T
  <1>4. n \in T
    BY <1>1, <1>2, <1>3, SetInduction
  <1>5. PICK g : g = [x \in Spans(in) |-> g[x]] /\ Upto(g, n)
    BY <1>4 DEF T
  <1>6. \A x \in Spans(in) : g[x] = Turn(in, g, x)
    BY <1>1, <1>5, SpanFacts
  <1>7. g = [x \in Spans(in) |-> Turn(in, g, x)]
    BY <1>5, <1>6, Zenon
  <1> QED
    BY <1>7, Zenon

(* The tokens i .. j - 1 are a sequence of fields. *)
Are(in, i, j, d, known, lim) == All(in)[Span(i, j, d, known, lim)]

(* The tokens i .. k - 1 are a field. *)
Is(in, i, k, d, known, lim) ==
    LET t == in[i]
        sub == known /\ t.f = IF t.k = "len" THEN Sub ELSE Grp
    IN  \/ t.k = "value" /\ k = i + 1
        \/ t.k = "len" /\ ~sub /\ k = i + 1 + t.n
        \/ /\ t.k = "len" /\ sub /\ d < RecursionLimit
           /\ k = i + 1 + t.n \/ (k = lim /\ k < i + 1 + t.n)
           /\ Are(in, i + 1, k, d + 1, TRUE, k)
        \/ /\ t.k = "start" /\ d < RecursionLimit /\ k > i + 1
           /\ in[k - 1] = EndTag(t.f)
           /\ Are(in, i + 1, k - 1, d + 1, sub, lim)

LEMMA FieldsAre ==
    ASSUME NEW in
    PROVE  Fields(in) <=> Are(in, 1, Len(in) + 1, 0, TRUE, Len(in) + 1)
  BY FieldsIsAll, Zenon DEF Are

LEMMA AreFacts ==
    ASSUME NEW in \in Encodings, NEW i \in 1 .. (Len(in) + 1), NEW j \in 1 .. (Len(in) + 1),
           NEW d \in 0 .. RecursionLimit, NEW known \in BOOLEAN, NEW lim \in 1 .. (Len(in) + 1)
    PROVE  /\ Are(in, i, j, d, known, lim) <=>
                  \/ i = j
                  \/ \E k \in (i + 1) .. j :
                        Are(in, k, j, d, known, lim) /\ Is(in, i, k, d, known, lim)
           /\ Are(in, i, j, d, known, lim) => i <= j
  <1> DEFINE g == All(in)
             x == Span(i, j, d, known, lim)
  <1>1. g = [y \in Spans(in) |-> Turn(in, g, y)]
    <2> DEFINE P(h) == h = [y \in Spans(in) |-> Turn(in, h, y)]
    <2>1. \E h : P(h)
      BY TurnsExist
    <2>2. P(CHOOSE h : P(h))
      BY <2>1, Zenon
    <2> QED
      BY <2>2, Zenon DEF All
  <1>2. x \in Spans(in) /\ x.from = i /\ x.to = j /\ x.d = d /\ x.known = known /\ x.lim = lim
    BY DEF Spans, Ends, Span
  <1> HIDE DEF g
  <1>3. g[x] <=> Turn(in, g, x)
    <2>1. g[x] = Turn(in, g, x)
      <3> DEFINE F(y) == Turn(in, g, y)
      <3> HIDE DEF F
      <3>1. g = [y \in Spans(in) |-> F(y)]
        BY <1>1, Zenon DEF F
      <3>2. g[x] = F(x)
        BY <1>2, <3>1
      <3> QED
        BY <3>2 DEF F
    <2> QED
      BY <2>1, Zenon DEF Turn
  <1>4. ASSUME NEW k
        PROVE  [x EXCEPT !.from = k] = Span(k, j, d, known, lim)
    BY DEF Span
  <1>5. ASSUME NEW k
        PROVE  OneField(in, g, x, k) <=> Is(in, i, k, d, known, lim)
    <2> HIDE DEF x
    <2> QED
      BY <1>2, Zenon DEF OneField, Is, Are, Span, g
  <1>6. Turn(in, g, x) <=>
            \/ i = j
            \/ \E k \in (i + 1) .. j : g[Span(k, j, d, known, lim)] /\ Is(in, i, k, d, known, lim)
    <2> HIDE DEF x
    <2> QED
      BY <1>2, <1>4, <1>5, Zenon DEF Turn
  <1>7. Are(in, i, j, d, known, lim) <=>
            \/ i = j
            \/ \E k \in (i + 1) .. j :
                  Are(in, k, j, d, known, lim) /\ Is(in, i, k, d, known, lim)
    BY <1>3, <1>6, Zenon DEF Are, g
  <1>8. Len(in) \in Nat
    BY TokenFacts
  <1> QED
    BY <1>7, <1>8

(* A level of the call stack: what is being read, and the limit in force.   *)
CallKinds == {"message", "group", "skip"}

Stacked(in, lv, m) ==
    /\ m \in Nat \ {0}
    /\ \A x \in 1 .. m : lv[x].call \in CallKinds /\ lv[x].end \in 1 .. (Len(in) + 1)
    /\ m <= RecursionLimit + 1
    /\ lv[1].call = "message" /\ lv[1].end = Len(in) + 1

(* The rest of a level from token i on are fields, up to j. *)
Level(in, lv, x, i, j) == Are(in, i, j, x - 1, lv[x].call # "skip", lv[x].end)

(* They are all of it, and the level below goes on at q. *)
Closes(in, lv, x, i, q) ==
    IF lv[x].call = "message" THEN q = lv[x].end /\ Level(in, lv, x, i, q)
    ELSE /\ i < q /\ q <= lv[x].end
         /\ in[q - 1] = EndTag(lv[x].f)
         /\ Level(in, lv, x, i, q - 1)

(* What is left of the input completes the levels 1 .. x, of which the last *)
(* goes on at q: they close at some tokens e[x - 1], ..., e[1], and the     *)
(* first goes on from there to the end.                                     *)
Rest(in, lv, x, q) ==
    \E e \in [1 .. x -> 1 .. (Len(in) + 1)] :
        /\ e[x] = q
        /\ Level(in, lv, 1, e[1], Len(in) + 1)
        /\ \A y \in 2 .. x : Closes(in, lv, y, e[y], e[y - 1])

LEMMA RestOfFirst ==
    ASSUME NEW in \in Encodings, NEW lv, NEW q \in 1 .. (Len(in) + 1)
    PROVE  Rest(in, lv, 1, q) <=> Level(in, lv, 1, q, Len(in) + 1)
  <1>1. ASSUME Rest(in, lv, 1, q) PROVE Level(in, lv, 1, q, Len(in) + 1)
    BY <1>1, Zenon DEF Rest
  <1>2. ASSUME Level(in, lv, 1, q, Len(in) + 1) PROVE Rest(in, lv, 1, q)
    <2> DEFINE e == [y \in 1 .. 1 |-> q]
    <2>1. e \in [1 .. 1 -> 1 .. (Len(in) + 1)] /\ e[1] = q
      OBVIOUS
    <2>2. \A y \in 2 .. 1 : FALSE
      OBVIOUS
    <2> HIDE DEF e
    <2> QED
      BY <1>2, <2>1, <2>2, Zenon DEF Rest
  <1> QED
    BY <1>1, <1>2

LEMMA RestOfNext ==
    ASSUME NEW in \in Encodings, NEW lv, NEW x \in Nat \ {0}, NEW q \in 1 .. (Len(in) + 1)
    PROVE  Rest(in, lv, x + 1, q) <=>
               \E r \in 1 .. (Len(in) + 1) : Closes(in, lv, x + 1, q, r) /\ Rest(in, lv, x, r)
  <1> DEFINE N == 1 .. (Len(in) + 1)
  <1>1. ASSUME Rest(in, lv, x + 1, q)
        PROVE  \E r \in N : Closes(in, lv, x + 1, q, r) /\ Rest(in, lv, x, r)
    <2>1. PICK e \in [1 .. (x + 1) -> N] :
              /\ e[x + 1] = q
              /\ Level(in, lv, 1, e[1], Len(in) + 1)
              /\ \A y \in 2 .. (x + 1) : Closes(in, lv, y, e[y], e[y - 1])
      BY <1>1, Zenon DEF Rest
    <2> DEFINE d == [y \in 1 .. x |-> e[y]]
    <2>2. /\ x + 1 \in 2 .. (x + 1) /\ x \in 1 .. (x + 1) /\ (x + 1) - 1 = x
          /\ 1 \in 1 .. x /\ x \in 1 .. x
          /\ \A y \in 2 .. x : y \in 2 .. (x + 1) /\ y \in 1 .. x /\ y - 1 \in 1 .. x
      OBVIOUS
    <2>3. d \in [1 .. x -> N] /\ \A y \in 1 .. x : d[y] = e[y]
      OBVIOUS
    <2>4. Closes(in, lv, x + 1, q, e[x]) /\ e[x] \in N
      BY <2>1, <2>2
    <2>5. d[x] = e[x] /\ d[1] = e[1] /\ \A y \in 2 .. x : d[y] = e[y] /\ d[y - 1] = e[y - 1]
      BY <2>2, <2>3
    <2> HIDE DEF d
    <2>6. Rest(in, lv, x, e[x])
      <3>1. Level(in, lv, 1, d[1], Len(in) + 1)
        BY <2>1, <2>5
      <3>2. \A y \in 2 .. x : Closes(in, lv, y, d[y], d[y - 1])
        BY <2>1, <2>2, <2>5
      <3> QED
        BY <2>3, <2>5, <3>1, <3>2, Zenon DEF Rest
    <2> QED
      BY <2>4, <2>6
  <1>2. ASSUME NEW r \in N, Closes(in, lv, x + 1, q, r), Rest(in, lv, x, r)
        PROVE  Rest(in, lv, x + 1, q)
    <2>1. PICK d \in [1 .. x -> N] :
              /\ d[x] = r
              /\ Level(in, lv, 1, d[1], Len(in) + 1)
              /\ \A y \in 2 .. x : Closes(in, lv, y, d[y], d[y - 1])
      BY <1>2, Zenon DEF Rest
    <2> DEFINE e == [y \in 1 .. (x + 1) |-> IF y = x + 1 THEN q ELSE d[y]]
    <2>2. e \in [1 .. (x + 1) -> N]
      OBVIOUS
    <2>3. e[x + 1] = q /\ \A y \in 1 .. x : e[y] = d[y]
      OBVIOUS
    <2> HIDE DEF e
    <2>4. Level(in, lv, 1, e[1], Len(in) + 1)
      BY <2>1, <2>3
    <2>5. ASSUME NEW y \in 2 .. (x + 1) PROVE Closes(in, lv, y, e[y], e[y - 1])
      <3>1. CASE y = x + 1
        <4>1. y - 1 = x /\ x \in 1 .. x
          BY <3>1
        <4>2. e[y] = q /\ e[y - 1] = r
          BY <2>1, <2>3, <3>1, <4>1
        <4> QED
          BY <1>2, <3>1, <4>2
      <3>2. CASE y # x + 1
        <4>1. y \in 2 .. x /\ y \in 1 .. x /\ y - 1 \in 1 .. x
          BY <3>2
        <4> QED
          BY <2>1, <2>3, <4>1
      <3> QED
        BY <3>1, <3>2
    <2> QED
      BY <2>2, <2>3, <2>4, <2>5, Zenon DEF Rest
  <1> QED
    BY <1>1, <1>2

(* The levels above do not matter. *)
LEMMA RestAlike ==
    ASSUME NEW in \in Encodings, NEW lv, NEW lw, NEW x \in Nat \ {0},
           \A y \in 1 .. x : lv[y] = lw[y], NEW q
    PROVE  Rest(in, lv, x, q) <=> Rest(in, lw, x, q)
  <1>1. 1 \in 1 .. x /\ \A y \in 2 .. x : y \in 1 .. x
    OBVIOUS
  <1>2. lv[1] = lw[1] /\ \A y \in 2 .. x : lv[y] = lw[y]
    BY <1>1
  <1>3. \A i : Level(in, lv, 1, i, Len(in) + 1) <=> Level(in, lw, 1, i, Len(in) + 1)
    BY <1>2, Zenon DEF Level
  <1>4. ASSUME NEW y \in 2 .. x, NEW i, NEW j
        PROVE  Closes(in, lv, y, i, j) <=> Closes(in, lw, y, i, j)
    <2>1. lv[y] = lw[y]
      BY <1>2
    <2>2. \A k : Level(in, lv, y, i, k) <=> Level(in, lw, y, i, k)
      BY <2>1, Zenon DEF Level
    <2> QED
      BY <2>1, <2>2, Zenon DEF Closes
  <1> QED
    BY <1>3, <1>4, Zenon DEF Rest

(* A level that has not ended goes on with a field or with its end tag.     *)
LEMMA ClosesNext ==
    ASSUME NEW in \in Encodings, NEW lv, NEW m \in Nat \ {0}, Stacked(in, lv, m),
           NEW q \in 1 .. (Len(in) + 1), q < lv[m].end, NEW r \in 1 .. (Len(in) + 1)
    PROVE  Closes(in, lv, m, q, r) <=>
               \/ \E k \in (q + 1) .. lv[m].end :
                     /\ Is(in, q, k, m - 1, lv[m].call # "skip", lv[m].end)
                     /\ Closes(in, lv, m, k, r)
               \/ lv[m].call # "message" /\ in[q] = EndTag(lv[m].f) /\ r = q + 1
  <1> DEFINE end == lv[m].end
             known == lv[m].call # "skip"
             d == m - 1
             E(k) == Is(in, q, k, d, known, end)
  <1>1. /\ Len(in) \in Nat /\ RecursionLimit \in Nat /\ end \in 1 .. (Len(in) + 1)
        /\ d \in 0 .. RecursionLimit /\ known \in BOOLEAN
    <2>1. m \in 1 .. m
      OBVIOUS
    <2> QED
      BY <2>1, TokenFacts DEF Stacked
  <1>2. ASSUME NEW i \in 1 .. (Len(in) + 1), NEW j \in 1 .. (Len(in) + 1)
        PROVE  /\ Level(in, lv, m, i, j) <=>
                      i = j \/ \E k \in (i + 1) .. j :
                                  Level(in, lv, m, k, j) /\ Is(in, i, k, d, known, end)
               /\ Level(in, lv, m, i, j) => i <= j
    <2> HIDE DEF end, known, d
    <2>1. \A k : Level(in, lv, m, k, j) <=> Are(in, k, j, d, known, end)
      BY DEF Level, end, known, d
    <2>2. /\ Are(in, i, j, d, known, end) <=>
                  i = j \/ \E k \in (i + 1) .. j :
                              Are(in, k, j, d, known, end) /\ Is(in, i, k, d, known, end)
          /\ Are(in, i, j, d, known, end) => i <= j
      <3>1. end \in 1 .. (Len(in) + 1) /\ d \in 0 .. RecursionLimit /\ known \in BOOLEAN
        BY <1>1
      <3> QED
        <4>1. \A c \in 0 .. RecursionLimit, b \in BOOLEAN, l \in 1 .. (Len(in) + 1) :
                  /\ Are(in, i, j, c, b, l) <=>
                         i = j \/ \E k \in (i + 1) .. j : Are(in, k, j, c, b, l) /\ Is(in, i, k, c, b, l)
                  /\ Are(in, i, j, c, b, l) => i <= j
          BY AreFacts
        <4> QED
          BY <3>1, <4>1
    <2> QED
      BY <2>1, <2>2, Zenon
  <1> HIDE DEF end, known, d
  <1>3. CASE lv[m].call = "message"
    <2>1. \A k : Closes(in, lv, m, k, r) <=> r = end /\ Level(in, lv, m, k, r)
      BY <1>3, Zenon DEF Closes, end
    <2>2. Level(in, lv, m, q, end) <=> \E k \in (q + 1) .. end : Level(in, lv, m, k, end) /\ E(k)
      <3>1. q # end
        BY <1>1 DEF end
      <3> QED
        BY <1>1, <1>2, <3>1, Zenon
    <2> HIDE DEF E
    <2>3. Closes(in, lv, m, q, r) <=> \E k \in (q + 1) .. end : E(k) /\ Closes(in, lv, m, k, r)
      BY <2>1, <2>2, Zenon
    <2> QED
      BY <1>3, <2>3, Zenon DEF E, end, known, d
  <1>4. CASE lv[m].call # "message"
    <2>1. \A k : Closes(in, lv, m, k, r) <=>
              /\ k < r /\ r <= end
              /\ in[r - 1] = EndTag(lv[m].f)
              /\ Level(in, lv, m, k, r - 1)
      BY <1>4, Zenon DEF Closes, end
    <2> HIDE DEF E
    <2>2. ASSUME Closes(in, lv, m, q, r)
          PROVE  \/ \E k \in (q + 1) .. end : E(k) /\ Closes(in, lv, m, k, r)
                 \/ in[q] = EndTag(lv[m].f) /\ r = q + 1
      <3>1. q < r /\ r <= end /\ in[r - 1] = EndTag(lv[m].f) /\ Level(in, lv, m, q, r - 1)
        BY <2>1, <2>2
      <3>2. r - 1 \in 1 .. (Len(in) + 1)
        BY <1>1, <3>1
      <3>3. q = r - 1 \/ \E k \in (q + 1) .. (r - 1) : Level(in, lv, m, k, r - 1) /\ E(k)
        BY <1>2, <3>1, <3>2, Zenon DEF E
      <3>4. CASE q = r - 1
        <4>1. r = q + 1
          BY <3>4
        <4> QED
          BY <3>1, <3>4, <4>1
      <3>5. ASSUME NEW k \in (q + 1) .. (r - 1), Level(in, lv, m, k, r - 1) /\ E(k)
            PROVE  \E j \in (q + 1) .. end : E(j) /\ Closes(in, lv, m, j, r)
        <4>1. k < r /\ k \in (q + 1) .. end
          BY <1>1, <3>1
        <4>2. Closes(in, lv, m, k, r)
          BY <2>1, <3>1, <3>5, <4>1, Zenon
        <4> QED
          BY <3>5, <4>1, <4>2, Zenon
      <3> QED
        BY <3>3, <3>4, <3>5, Zenon
    <2>3. ASSUME NEW k \in (q + 1) .. end, E(k), Closes(in, lv, m, k, r)
          PROVE  Closes(in, lv, m, q, r)
      <3>1. k < r /\ r <= end /\ in[r - 1] = EndTag(lv[m].f) /\ Level(in, lv, m, k, r - 1)
        BY <2>1, <2>3, Zenon
      <3>2. q < r /\ k \in (q + 1) .. (r - 1) /\ r - 1 \in 1 .. (Len(in) + 1)
        BY <1>1, <3>1
      <3>3. Level(in, lv, m, q, r - 1)
        BY <1>2, <2>3, <3>1, <3>2, Zenon DEF E
      <3> QED
        BY <2>1, <3>1, <3>2, <3>3, Zenon
    <2>4. ASSUME in[q] = EndTag(lv[m].f), r = q + 1
          PROVE  Closes(in, lv, m, q, r)
      <3>1. q < r /\ r <= end /\ r - 1 = q
        BY <1>1, <2>4 DEF end
      <3>2. Level(in, lv, m, q, q)
        BY <1>2
      <3>3. in[r - 1] = EndTag(lv[m].f) /\ Level(in, lv, m, q, r - 1)
        BY <2>4, <3>1, <3>2
      <3> QED
        BY <2>1, <3>1, <3>3, Zenon
    <2>5. Closes(in, lv, m, q, r) <=>
              \/ \E k \in (q + 1) .. end : E(k) /\ Closes(in, lv, m, k, r)
              \/ in[q] = EndTag(lv[m].f) /\ r = q + 1
      BY <2>2, <2>3, <2>4, Zenon
    <2> QED
      BY <1>4, <2>5, Zenon DEF E, end, known, d
  <1> QED
    BY <1>3, <1>4

(* What is left begins with a field of the last level, or with its end tag. *)
LEMMA RestStep ==
    ASSUME NEW in \in Encodings, NEW lv, NEW m \in Nat \ {0}, Stacked(in, lv, m),
           NEW q \in 1 .. (Len(in) + 1), q < lv[m].end
    PROVE  Rest(in, lv, m, q) <=>
               \/ \E k \in (q + 1) .. lv[m].end :
                     /\ Is(in, q, k, m - 1, lv[m].call # "skip", lv[m].end)
                     /\ Rest(in, lv, m, k)
               \/ /\ m > 1 /\ lv[m].call # "message" /\ in[q] = EndTag(lv[m].f)
                  /\ Rest(in, lv, m - 1, q + 1)
  <1> DEFINE end == lv[m].end
             N == 1 .. (Len(in) + 1)
             E(k) == Is(in, q, k, m - 1, lv[m].call # "skip", end)
             B(k) == Rest(in, lv, m - 1, k)
             M == lv[m].call # "message" /\ in[q] = EndTag(lv[m].f)
  <1>1. Len(in) \in Nat /\ RecursionLimit \in Nat /\ end \in N
    <2>1. m \in 1 .. m
      OBVIOUS
    <2> QED
      BY <2>1, TokenFacts DEF Stacked
  <1>2. \A k \in (q + 1) .. end : k \in N
    BY <1>1
  <1>3. CASE m = 1
    <2>1. lv[m].call = "message" /\ end = Len(in) + 1
      BY <1>3 DEF Stacked
    <2>2. \A k \in N : Rest(in, lv, m, k) <=> Are(in, k, end, 0, TRUE, end)
      <3>1. \A k \in N : Rest(in, lv, 1, k) <=> Level(in, lv, 1, k, Len(in) + 1)
        BY RestOfFirst
      <3>2. (lv[1].call # "skip") = TRUE /\ lv[1].end = end /\ 1 - 1 = 0
        BY <1>3, <2>1
      <3> HIDE DEF end
      <3>3. \A k : Level(in, lv, 1, k, Len(in) + 1) <=> Are(in, k, end, 0, TRUE, end)
        BY <2>1, <3>2, Zenon DEF Level
      <3> QED
        BY <1>3, <3>1, <3>3
    <2>3. 0 \in 0 .. RecursionLimit /\ q # end /\ m - 1 = 0 /\ (lv[m].call # "skip") = TRUE /\ ~(m > 1)
      BY <1>1, <1>3, <2>1
    <2> HIDE DEF end
    <2>4. Are(in, q, end, 0, TRUE, end) <=>
              \E k \in (q + 1) .. end : Are(in, k, end, 0, TRUE, end) /\ Is(in, q, k, 0, TRUE, end)
      <3>1. TRUE \in BOOLEAN
        OBVIOUS
      <3>2. Are(in, q, end, 0, TRUE, end) <=>
              \/ q = end
              \/ \E k \in (q + 1) .. end : Are(in, k, end, 0, TRUE, end) /\ Is(in, q, k, 0, TRUE, end)
        BY <1>1, <2>3, <3>1, AreFacts
      <3> QED
        BY <2>3, <3>2, Zenon
    <2>5. \A k : E(k) <=> Is(in, q, k, 0, TRUE, end)
      BY <2>3, Zenon
    <2> HIDE DEF E
    <2>6. Rest(in, lv, m, q) <=> \E k \in (q + 1) .. end : E(k) /\ Rest(in, lv, m, k)
      BY <1>2, <2>2, <2>4, <2>5, Zenon
    <2> QED
      BY <2>3, <2>6, Zenon DEF E, end
  <1>4. CASE m # 1
    <2>1. m - 1 \in Nat \ {0} /\ (m - 1) + 1 = m /\ m > 1
      BY <1>4
    <2> HIDE DEF end
    <2>2. \A k \in N : Rest(in, lv, m, k) <=> \E r \in N : Closes(in, lv, m, k, r) /\ B(r)
      <3>1. ASSUME NEW x \in Nat \ {0}, NEW y, y = x + 1
            PROVE  \A k \in N : Rest(in, lv, y, k) <=>
                       \E r \in N : Closes(in, lv, y, k, r) /\ Rest(in, lv, x, r)
        BY <3>1, RestOfNext
      <3> QED
        BY <2>1, <3>1
    <2>3. \A r \in N : Closes(in, lv, m, q, r) <=>
              \/ \E k \in (q + 1) .. end : E(k) /\ Closes(in, lv, m, k, r)
              \/ M /\ r = q + 1
      <3>1. q < end
        BY DEF end
      <3> QED
        BY <3>1, ClosesNext, Zenon DEF end
    <2>4. q + 1 \in N
      BY <1>1 DEF end
    <2> HIDE DEF E, B, M
    <2>5. ASSUME Rest(in, lv, m, q)
          PROVE  (\E k \in (q + 1) .. end : E(k) /\ Rest(in, lv, m, k)) \/ (M /\ B(q + 1))
      <3>1. PICK r \in N : Closes(in, lv, m, q, r) /\ B(r)
        BY <2>2, <2>5
      <3> QED
        BY <1>2, <2>2, <2>3, <3>1, Zenon
    <2>6. ASSUME NEW k \in (q + 1) .. end, E(k), Rest(in, lv, m, k)
          PROVE  Rest(in, lv, m, q)
      <3>1. PICK r \in N : Closes(in, lv, m, k, r) /\ B(r)
        BY <1>2, <2>2, <2>6, Zenon
      <3> QED
        BY <2>2, <2>3, <2>6, <3>1, Zenon
    <2>7. ASSUME M, B(q + 1)
          PROVE  Rest(in, lv, m, q)
      <3>1. Closes(in, lv, m, q, q + 1)
        BY <2>3, <2>4, <2>7, Zenon
      <3> QED
        BY <2>2, <2>4, <2>7, <3>1, Zenon
    <2> QED
      BY <2>1, <2>5, <2>6, <2>7, Zenon DEF E, B, M, end
  <1> QED
    BY <1>3, <1>4

(* At its limit a message is complete, and a group is not.                  *)
LEMMA RestAtLimit ==
    ASSUME NEW in \in Encodings, NEW lv, NEW m \in Nat \ {0}, Stacked(in, lv, m)
    PROVE  Rest(in, lv, m, lv[m].end) <=>
               m = 1 \/ (lv[m].call = "message" /\ Rest(in, lv, m - 1, lv[m].end))
  <1> DEFINE end == lv[m].end
             N == 1 .. (Len(in) + 1)
  <1>1. Len(in) \in Nat /\ RecursionLimit \in Nat /\ end \in N /\ m - 1 \in 0 .. RecursionLimit
    <2>1. m \in 1 .. m
      OBVIOUS
    <2> QED
      BY <2>1, TokenFacts DEF Stacked
  <1>2. Level(in, lv, m, end, end)
    <2>1. (lv[m].call # "skip") \in BOOLEAN
      OBVIOUS
    <2> HIDE DEF end
    <2>2. Are(in, end, end, m - 1, lv[m].call # "skip", end)
      BY <1>1, <2>1, AreFacts
    <2> QED
      BY <2>2, Zenon DEF Level, end
  <1>3. CASE m = 1
    <2>1. end = Len(in) + 1
      BY <1>3 DEF Stacked
    <2>2. Rest(in, lv, 1, end) <=> Level(in, lv, 1, end, Len(in) + 1)
      BY <1>1, RestOfFirst
    <2> QED
      BY <1>2, <1>3, <2>1, <2>2
  <1>4. CASE m # 1
    <2>1. m - 1 \in Nat \ {0} /\ (m - 1) + 1 = m
      BY <1>4
    <2> HIDE DEF end
    <2>2. Rest(in, lv, m, end) <=> \E r \in N : Closes(in, lv, m, end, r) /\ Rest(in, lv, m - 1, r)
      BY <1>1, <2>1, RestOfNext
    <2>3. ASSUME NEW r \in N
          PROVE  Closes(in, lv, m, end, r) <=> lv[m].call = "message" /\ r = end
      <3>1. ~(end < r /\ r <= end)
        BY <1>1
      <3> QED
        BY <1>2, <3>1, Zenon DEF Closes, end
    <2>4. Rest(in, lv, m, end) <=> lv[m].call = "message" /\ Rest(in, lv, m - 1, end)
      BY <1>1, <2>2, <2>3, Zenon
    <2> QED
      BY <1>4, <2>4, Zenon DEF end
  <1> QED
    BY <1>3, <1>4

(* What is left, by the token that is next. *)
Ahead(in, lv, m, q) ==
    /\ in \in Encodings /\ m \in Nat \ {0} /\ Stacked(in, lv, m)
    /\ q \in 1 .. (Len(in) + 1) /\ q < lv[m].end

Known(lv, m) == lv[m].call # "skip"

LEMMA AheadFacts ==
    ASSUME NEW in, NEW lv, NEW m, NEW q, Ahead(in, lv, m, q)
    PROVE  /\ Len(in) \in Nat /\ RecursionLimit \in Nat /\ m \in Nat /\ q \in Nat
           /\ lv[m].end \in 1 .. (Len(in) + 1) /\ q \in 1 .. Len(in) /\ q + 1 \in 1 .. (Len(in) + 1)
           /\ q + 1 \in (q + 1) .. lv[m].end
           /\ in[q] \in Tokens /\ in[q].n \in Nat
           /\ in[q].k \in {"value", "len", "start", "end", "zero"}
           /\ m - 1 \in 0 .. RecursionLimit /\ lv[m].call \in CallKinds
  <1>1. in \in Encodings /\ m \in Nat \ {0} /\ Stacked(in, lv, m)
        /\ q \in 1 .. (Len(in) + 1) /\ q < lv[m].end
    BY DEF Ahead
  <1>2. m \in 1 .. m
    BY <1>1
  <1>3. /\ lv[m].end \in 1 .. (Len(in) + 1) /\ lv[m].call \in CallKinds /\ m <= RecursionLimit + 1
    BY <1>1, <1>2 DEF Stacked
  <1>4. /\ Len(in) \in Nat /\ RecursionLimit \in Nat
        /\ \A i \in 1 .. Len(in) : /\ in[i] \in Tokens /\ in[i].n \in Nat
                                   /\ in[i].k \in {"value", "len", "start", "end", "zero"}
    BY <1>1, TokenFacts
  <1>5. q \in 1 .. Len(in)
    BY <1>1, <1>3, <1>4
  <1>6. /\ in[q] \in Tokens /\ in[q].n \in Nat
        /\ in[q].k \in {"value", "len", "start", "end", "zero"}
    BY <1>4, <1>5, Zenon
  <1> QED
    BY <1>1, <1>3, <1>4, <1>5, <1>6

LEMMA AheadStep ==
    ASSUME NEW in, NEW lv, NEW m, NEW q, Ahead(in, lv, m, q)
    PROVE  Rest(in, lv, m, q) <=>
               \/ \E k \in (q + 1) .. lv[m].end :
                     Is(in, q, k, m - 1, Known(lv, m), lv[m].end) /\ Rest(in, lv, m, k)
               \/ /\ m > 1 /\ lv[m].call # "message" /\ in[q] = EndTag(lv[m].f)
                  /\ Rest(in, lv, m - 1, q + 1)
  <1>1. in \in Encodings /\ m \in Nat \ {0} /\ Stacked(in, lv, m)
        /\ q \in 1 .. (Len(in) + 1) /\ q < lv[m].end
    BY DEF Ahead
  <1> QED
    BY <1>1, RestStep, Zenon DEF Known

LEMMA EndTagKind == \A f : EndTag(f).k = "end" /\ None.k = "none"
  BY DEF EndTag, None

LEMMA RestOfValue ==
    ASSUME NEW in, NEW lv, NEW m, NEW q, Ahead(in, lv, m, q), in[q].k = "value"
    PROVE  Rest(in, lv, m, q) <=> Rest(in, lv, m, q + 1)
  <1>1. in[q] # EndTag(lv[m].f)
    BY EndTagKind
  <1>2. \A k : Is(in, q, k, m - 1, Known(lv, m), lv[m].end) <=> k = q + 1
    <2>1. in[q].k # "len" /\ in[q].k # "start"
      OBVIOUS
    <2> QED
      BY <2>1, Zenon DEF Is
  <1>3. q + 1 \in (q + 1) .. lv[m].end
    BY AheadFacts
  <1>4. Rest(in, lv, m, q) <=>
            \E k \in (q + 1) .. lv[m].end :
               Is(in, q, k, m - 1, Known(lv, m), lv[m].end) /\ Rest(in, lv, m, k)
    BY <1>1, AheadStep, Zenon
  <1> QED
    BY <1>2, <1>3, <1>4, Zenon

LEMMA RestOfBytes ==
    ASSUME NEW in, NEW lv, NEW m, NEW q, Ahead(in, lv, m, q), in[q].k = "len",
           ~(Known(lv, m) /\ in[q].f = Sub)
    PROVE  Rest(in, lv, m, q) <=>
               q + 1 + in[q].n <= lv[m].end /\ Rest(in, lv, m, q + 1 + in[q].n)
  <1> DEFINE after == q + 1 + in[q].n
             end == lv[m].end
  <1>1. in[q] # EndTag(lv[m].f)
    BY EndTagKind
  <1>2. \A k : Is(in, q, k, m - 1, Known(lv, m), end) <=> k = after
    <2>1. in[q].k # "value" /\ in[q].k # "start"
      OBVIOUS
    <2> HIDE DEF end
    <2> QED
      BY <2>1, Zenon DEF Is
  <1>3. after \in (q + 1) .. end <=> after <= end
    <2> DEFINE n == in[q].n
    <2>1. q \in Nat /\ n \in Nat /\ end \in 1 .. (Len(in) + 1) /\ Len(in) \in Nat
      BY AheadFacts
    <2>2. after = q + 1 + n
      OBVIOUS
    <2> HIDE DEF end, after, n
    <2> QED
      BY <2>1, <2>2
  <1>4. Rest(in, lv, m, q) <=>
            \E k \in (q + 1) .. end :
               Is(in, q, k, m - 1, Known(lv, m), end) /\ Rest(in, lv, m, k)
    BY <1>1, AheadStep, Zenon
  <1> HIDE DEF after, end
  <1>5. Rest(in, lv, m, q) <=> after <= end /\ Rest(in, lv, m, after)
    BY <1>2, <1>3, <1>4, Zenon
  <1> QED
    BY <1>5 DEF after, end

(* Where a submessage of n tokens that begins after q ends. *)
Cut(n, q, end) == IF q + 1 + n <= end THEN q + 1 + n ELSE end

LEMMA RestOfMessage ==
    ASSUME NEW in, NEW lv, NEW m, NEW q, Ahead(in, lv, m, q), in[q].k = "len",
           Known(lv, m) /\ in[q].f = Sub
    PROVE  LET to == Cut(in[q].n, q, lv[m].end)
           IN  Rest(in, lv, m, q) <=>
                   m <= RecursionLimit /\ Are(in, q + 1, to, m, TRUE, to) /\ Rest(in, lv, m, to)
  <1> DEFINE end == lv[m].end
             n == in[q].n
             to == Cut(n, q, end)
             A(k) == Are(in, q + 1, k, m, TRUE, k)
  <1>1. in[q] # EndTag(lv[m].f)
    BY EndTagKind
  <1>2. m - 1 < RecursionLimit <=> m <= RecursionLimit
    BY AheadFacts
  <1>3. \A k : Is(in, q, k, m - 1, Known(lv, m), end) <=>
            /\ m <= RecursionLimit /\ (k = q + 1 + n \/ (k = end /\ k < q + 1 + n))
            /\ A(k)
    <2>1. in[q].k # "value" /\ in[q].k # "start"
      OBVIOUS
    <2>2. (m - 1) + 1 = m
      BY AheadFacts
    <2> DEFINE S == Known(lv, m) /\ in[q].f = IF in[q].k = "len" THEN Sub ELSE Grp
    <2>3. S
      OBVIOUS
    <2> HIDE DEF end, n, S
    <2>4. \A k : Is(in, q, k, m - 1, Known(lv, m), end) <=>
            /\ m - 1 < RecursionLimit /\ (k = q + 1 + n \/ (k = end /\ k < q + 1 + n))
            /\ Are(in, q + 1, k, (m - 1) + 1, TRUE, k)
      BY <2>1, <2>3, Zenon DEF Is, S, n
    <2>5. \A k : Are(in, q + 1, k, (m - 1) + 1, TRUE, k) <=> A(k)
      BY <2>2
    <2> HIDE DEF A
    <2> QED
      BY <1>2, <2>4, <2>5, Zenon
  <1>4. \A k \in (q + 1) .. end : (k = q + 1 + n \/ (k = end /\ k < q + 1 + n)) <=> k = to
    BY AheadFacts DEF Cut
  <1>5. to \in (q + 1) .. end
    <2>1. q \in Nat /\ n \in Nat /\ end \in 1 .. (Len(in) + 1) /\ Len(in) \in Nat
          /\ q + 1 \in (q + 1) .. end
      BY AheadFacts
    <2> HIDE DEF end, n
    <2> QED
      BY <2>1 DEF Cut
  <1>6. Rest(in, lv, m, q) <=>
            \E k \in (q + 1) .. end :
               Is(in, q, k, m - 1, Known(lv, m), end) /\ Rest(in, lv, m, k)
    BY <1>1, AheadStep, Zenon
  <1> HIDE DEF to, end, n, A
  <1>7. Rest(in, lv, m, q) <=> m <= RecursionLimit /\ A(to) /\ Rest(in, lv, m, to)
    BY <1>3, <1>4, <1>5, <1>6, Zenon
  <1> QED
    BY <1>7 DEF to, end, n, A

LEMMA RestOfGroup ==
    ASSUME NEW in, NEW lv, NEW m, NEW q, Ahead(in, lv, m, q), in[q].k = "start"
    PROVE  Rest(in, lv, m, q) <=>
               /\ m <= RecursionLimit
               /\ \E k \in 1 .. (Len(in) + 1) :
                     /\ q + 1 < k /\ k <= lv[m].end
                     /\ in[k - 1] = EndTag(in[q].f)
                     /\ Are(in, q + 1, k - 1, m, Known(lv, m) /\ in[q].f = Grp, lv[m].end)
                     /\ Rest(in, lv, m, k)
  <1> DEFINE end == lv[m].end
             S == Known(lv, m) /\ in[q].f = Grp
             A(k) == Are(in, q + 1, k - 1, m, S, end)
             E(k) == in[k - 1] = EndTag(in[q].f)
             R(k) == Rest(in, lv, m, k)
  <1>1. in[q] # EndTag(lv[m].f)
    BY EndTagKind
  <1>2. m - 1 < RecursionLimit <=> m <= RecursionLimit
    BY AheadFacts
  <1>3. \A k : Is(in, q, k, m - 1, Known(lv, m), end) <=>
            m <= RecursionLimit /\ k > q + 1 /\ E(k) /\ A(k)
    <2>1. in[q].k # "value" /\ in[q].k # "len"
      OBVIOUS
    <2>2. (m - 1) + 1 = m
      BY AheadFacts
    <2> DEFINE SS == Known(lv, m) /\ in[q].f = IF in[q].k = "len" THEN Sub ELSE Grp
    <2>3. SS = S
      BY <2>1, Zenon
    <2> HIDE DEF end, SS
    <2>4. \A k : Is(in, q, k, m - 1, Known(lv, m), end) <=>
            /\ m - 1 < RecursionLimit /\ k > q + 1 /\ E(k)
            /\ Are(in, q + 1, k - 1, (m - 1) + 1, SS, end)
      BY <2>1, Zenon DEF Is, SS
    <2> HIDE DEF S
    <2>5. \A k : Are(in, q + 1, k - 1, (m - 1) + 1, SS, end) <=> A(k)
      BY <2>2, <2>3
    <2> HIDE DEF A, E
    <2> QED
      BY <1>2, <2>4, <2>5, Zenon
  <1>4. \A k : k \in (q + 1) .. end /\ k > q + 1 <=>
                   k \in 1 .. (Len(in) + 1) /\ q + 1 < k /\ k <= end
    BY AheadFacts
  <1>5. Rest(in, lv, m, q) <=>
            \E k \in (q + 1) .. end : Is(in, q, k, m - 1, Known(lv, m), end) /\ R(k)
    BY <1>1, AheadStep, Zenon
  <1> HIDE DEF end, A, E, R
  <1>6. Rest(in, lv, m, q) <=>
            /\ m <= RecursionLimit
            /\ \E k \in 1 .. (Len(in) + 1) : q + 1 < k /\ k <= end /\ E(k) /\ A(k) /\ R(k)
    BY <1>3, <1>4, <1>5, Zenon
  <1> QED
    BY <1>6, Zenon DEF end, A, E, R

LEMMA RestOfEnd ==
    ASSUME NEW in, NEW lv, NEW m, NEW q, Ahead(in, lv, m, q), in[q].k \in {"end", "zero"}
    PROVE  Rest(in, lv, m, q) <=>
               /\ m > 1 /\ lv[m].call # "message" /\ in[q] = EndTag(lv[m].f)
               /\ Rest(in, lv, m - 1, q + 1)
  <1>1. \A k : ~Is(in, q, k, m - 1, Known(lv, m), lv[m].end)
    <2>1. in[q].k # "value" /\ in[q].k # "len" /\ in[q].k # "start"
      OBVIOUS
    <2> QED
      BY <2>1, Zenon DEF Is
  <1> QED
    BY <1>1, AheadStep, Zenon

-----------------------------------------------------------------------------
(* A level on top of the others. *)
LEMMA RestOnTop ==
    ASSUME NEW in, NEW lv, NEW m, NEW q, Ahead(in, lv, m, q), NEW lw,
           \A y \in 1 .. m : lw[y] = lv[y]
    PROVE  Rest(in, lw, m + 1, q + 1) <=>
               \E r \in 1 .. (Len(in) + 1) :
                  Closes(in, lw, m + 1, q + 1, r) /\ Rest(in, lv, m, r)
  <1>1. in \in Encodings /\ m \in Nat \ {0} /\ q + 1 \in 1 .. (Len(in) + 1)
    BY AheadFacts DEF Ahead
  <1>2. Rest(in, lw, m + 1, q + 1) <=>
            \E r \in 1 .. (Len(in) + 1) :
               Closes(in, lw, m + 1, q + 1, r) /\ Rest(in, lw, m, r)
    BY <1>1, RestOfNext
  <1>3. ASSUME NEW r PROVE Rest(in, lw, m, r) <=> Rest(in, lv, m, r)
    BY <1>1, RestAlike
  <1> QED
    BY <1>2, <1>3, Zenon

LEMMA RestInMessage ==
    ASSUME NEW in, NEW lv, NEW m, NEW q, Ahead(in, lv, m, q), NEW lw,
           \A y \in 1 .. m : lw[y] = lv[y],
           in[q].k = "len", Known(lv, m) /\ in[q].f = Sub, m <= RecursionLimit,
           lw[m + 1].call = "message", lw[m + 1].end = Cut(in[q].n, q, lv[m].end)
    PROVE  Rest(in, lw, m + 1, q + 1) <=> Rest(in, lv, m, q)
  <1> DEFINE to == Cut(in[q].n, q, lv[m].end)
  <1>1. to \in 1 .. (Len(in) + 1) /\ (m + 1) - 1 = m
    BY AheadFacts DEF Cut
  <1>2. Rest(in, lv, m, q) <=> Are(in, q + 1, to, m, TRUE, to) /\ Rest(in, lv, m, to)
    BY RestOfMessage
  <1> HIDE DEF to
  <1>3. \A r : Closes(in, lw, m + 1, q + 1, r) <=> r = to /\ Are(in, q + 1, r, m, TRUE, to)
    <2>1. lw[m + 1].end = to /\ (lw[m + 1].call # "skip") = TRUE
      BY DEF to
    <2>2. \A r : Level(in, lw, m + 1, q + 1, r) <=> Are(in, q + 1, r, m, TRUE, to)
      BY <1>1, <2>1 DEF Level
    <2> QED
      BY <2>1, <2>2, Zenon DEF Closes
  <1>4. Rest(in, lw, m + 1, q + 1) <=>
            \E r \in 1 .. (Len(in) + 1) :
               Closes(in, lw, m + 1, q + 1, r) /\ Rest(in, lv, m, r)
    BY RestOnTop, Zenon
  <1> QED
    BY <1>1, <1>2, <1>3, <1>4, Zenon

LEMMA RestInGroup ==
    ASSUME NEW in, NEW lv, NEW m, NEW q, Ahead(in, lv, m, q), NEW lw,
           \A y \in 1 .. m : lw[y] = lv[y],
           in[q].k = "start", m <= RecursionLimit,
           lw[m + 1].call = IF Known(lv, m) /\ in[q].f = Grp THEN "group" ELSE "skip",
           lw[m + 1].f = in[q].f, lw[m + 1].end = lv[m].end
    PROVE  Rest(in, lw, m + 1, q + 1) <=> Rest(in, lv, m, q)
  <1> DEFINE end == lv[m].end
             S == Known(lv, m) /\ in[q].f = Grp
             A(k) == Are(in, q + 1, k - 1, m, S, end)
             E(k) == in[k - 1] = EndTag(in[q].f)
             R(k) == Rest(in, lv, m, k)
  <1>1. (m + 1) - 1 = m
    BY AheadFacts
  <1>2. Rest(in, lv, m, q) <=>
            \E k \in 1 .. (Len(in) + 1) : q + 1 < k /\ k <= end /\ E(k) /\ A(k) /\ R(k)
    BY RestOfGroup, Zenon
  <1>3. \A r : Closes(in, lw, m + 1, q + 1, r) <=> q + 1 < r /\ r <= end /\ E(r) /\ A(r)
    <2>1. lw[m + 1].end = end /\ lw[m + 1].call # "message" /\ (lw[m + 1].call # "skip") = S
          /\ lw[m + 1].f = in[q].f
      OBVIOUS
    <2> HIDE DEF S, end
    <2>2. \A r : Level(in, lw, m + 1, q + 1, r - 1) <=> A(r)
      BY <1>1, <2>1 DEF Level
    <2> HIDE DEF A
    <2> QED
      BY <2>1, <2>2, Zenon DEF Closes
  <1> HIDE DEF end, A, E
  <1> QED
    BY <1>2, <1>3, RestOnTop, Zenon

(* The levels of a call stack, lim the limit in force. *)
LevelsOf(fr, lim) ==
    [x \in 1 .. Len(fr) |->
        [call |-> fr[x].call, f |-> fr[x].f,
         end |-> IF x = Len(fr) THEN lim ELSE fr[x + 1].limit]]

Frames == [call : CallKinds, f : {0} \cup {t.f : t \in Tokens}, limit : Nat]

ParserShape(in, p, lim, d, fr) ==
    /\ in \in Encodings
    /\ p \in 1 .. (Len(in) + 1) /\ lim \in p .. (Len(in) + 1)
    /\ fr \in Seq(Frames) /\ d = Len(fr) - 1 /\ d \in 0 .. RecursionLimit
    /\ fr[1].call = "message"
    /\ LevelsOf(fr, lim)[1].end = Len(in) + 1
    /\ \A x \in 1 .. Len(fr) : LevelsOf(fr, lim)[x].end \in 1 .. (Len(in) + 1)
    /\ \A x \in 2 .. Len(fr) : LevelsOf(fr, lim)[x].end <= fr[x].limit

LEMMA LevelFacts ==
    ASSUME NEW fr \in Seq(Frames), NEW lim
    PROVE  /\ Len(fr) \in Nat
           /\ \A x \in 1 .. Len(fr) :
                 /\ fr[x] \in Frames /\ fr[x].call \in CallKinds /\ fr[x].limit \in Nat
                 /\ LevelsOf(fr, lim)[x].call = fr[x].call
                 /\ LevelsOf(fr, lim)[x].f = fr[x].f
           /\ Len(fr) # 0 => LevelsOf(fr, lim)[Len(fr)].end = lim
           /\ \A x \in 2 .. Len(fr) : LevelsOf(fr, lim)[x - 1].end = fr[x].limit
  <1>1. Len(fr) \in Nat /\ \A x \in 1 .. Len(fr) : fr[x] \in Frames
    OBVIOUS
  <1>3. ASSUME NEW x \in 1 .. Len(fr)
        PROVE  fr[x].call \in CallKinds /\ fr[x].limit \in Nat
    BY <1>1 DEF Frames
  <1>4. ASSUME Len(fr) # 0 PROVE LevelsOf(fr, lim)[Len(fr)].end = lim
    <2>1. Len(fr) \in 1 .. Len(fr)
      BY <1>1, <1>4
    <2>2. LevelsOf(fr, lim)[Len(fr)] = [call |-> fr[Len(fr)].call, f |-> fr[Len(fr)].f, end |-> lim]
      BY <2>1 DEF LevelsOf
    <2> QED
      BY <2>2
  <1>5. ASSUME NEW x \in 2 .. Len(fr) PROVE LevelsOf(fr, lim)[x - 1].end = fr[x].limit
    <2>1. x - 1 \in 1 .. Len(fr) /\ x - 1 # Len(fr) /\ (x - 1) + 1 = x
      BY <1>1
    <2>2. LevelsOf(fr, lim)[x - 1] = [call |-> fr[x - 1].call, f |-> fr[x - 1].f, end |-> fr[x].limit]
      BY <2>1 DEF LevelsOf
    <2> QED
      BY <2>2
  <1>6. ASSUME NEW x \in 1 .. Len(fr)
        PROVE  LevelsOf(fr, lim)[x].call = fr[x].call /\ LevelsOf(fr, lim)[x].f = fr[x].f
    <2>1. LevelsOf(fr, lim)[x] =
              [call |-> fr[x].call, f |-> fr[x].f,
               end |-> IF x = Len(fr) THEN lim ELSE fr[x + 1].limit]
      BY DEF LevelsOf
    <2> QED
      BY <2>1
  <1> QED
    BY <1>1, <1>3, <1>4, <1>5, <1>6, Zenon

LEMMA ShapeFacts ==
    ASSUME NEW in, NEW p, NEW lim, NEW d, NEW fr, ParserShape(in, p, lim, d, fr)
    PROVE  /\ in \in Encodings /\ Len(in) \in Nat /\ RecursionLimit \in Nat
           /\ p \in 1 .. (Len(in) + 1) /\ lim \in 1 .. (Len(in) + 1) /\ p \in Nat /\ lim \in Nat /\ p <= lim
           /\ fr \in Seq(Frames) /\ Len(fr) \in Nat \ {0} /\ Len(fr) \in 1 .. Len(fr) /\ d = Len(fr) - 1
           /\ d \in 0 .. RecursionLimit
           /\ Stacked(in, LevelsOf(fr, lim), Len(fr))
           /\ Last(fr) = fr[Len(fr)] /\ Last(fr) \in Frames
           /\ LevelsOf(fr, lim)[Len(fr)].call = Last(fr).call
           /\ LevelsOf(fr, lim)[Len(fr)].f = Last(fr).f
           /\ LevelsOf(fr, lim)[Len(fr)].end = lim
           /\ p < lim => Ahead(in, LevelsOf(fr, lim), Len(fr), p)
           /\ Len(fr) > 1 => Last(fr).limit \in lim .. (Len(in) + 1)
           /\ Len(fr) = 1 => Last(fr).call = "message" /\ lim = Len(in) + 1
  <1> DEFINE lv == LevelsOf(fr, lim)
             m == Len(fr)
  <1>1. /\ in \in Encodings
        /\ p \in 1 .. (Len(in) + 1) /\ lim \in p .. (Len(in) + 1)
        /\ fr \in Seq(Frames) /\ d = m - 1 /\ d \in 0 .. RecursionLimit
        /\ fr[1].call = "message"
        /\ lv[1].end = Len(in) + 1
        /\ \A x \in 1 .. m : lv[x].end \in 1 .. (Len(in) + 1)
        /\ \A x \in 2 .. m : lv[x].end <= fr[x].limit
    BY Zenon DEF ParserShape
  <1>2. /\ m \in Nat
        /\ \A x \in 1 .. m : /\ fr[x] \in Frames /\ fr[x].call \in CallKinds /\ fr[x].limit \in Nat
                             /\ lv[x].call = fr[x].call /\ lv[x].f = fr[x].f
        /\ m # 0 => lv[m].end = lim
        /\ \A x \in 2 .. m : lv[x - 1].end = fr[x].limit
    BY <1>1, LevelFacts, Zenon
  <1> HIDE DEF lv, m
  <1>3. Len(in) \in Nat /\ RecursionLimit \in Nat
    BY <1>1, TokenFacts
  <1>4. /\ p \in Nat /\ lim \in Nat /\ p <= lim /\ lim \in 1 .. (Len(in) + 1)
        /\ m \in Nat \ {0} /\ m \in 1 .. m /\ m <= RecursionLimit + 1 /\ 1 \in 1 .. m
    BY <1>1, <1>2, <1>3
  <1>5. Stacked(in, lv, m)
    <2>1. \A x \in 1 .. m : lv[x].call \in CallKinds /\ lv[x].end \in 1 .. (Len(in) + 1)
      BY <1>1, <1>2
    <2>2. lv[1].call = "message"
      BY <1>1, <1>2, <1>4
    <2> QED
      BY <1>1, <1>4, <2>1, <2>2, Zenon DEF Stacked
  <1>6. Last(fr) = fr[m]
    BY DEF Last, m
  <1>7. /\ fr[m] \in Frames /\ lv[m].call = fr[m].call /\ lv[m].f = fr[m].f /\ lv[m].end = lim
        /\ fr[m].limit \in Nat
    BY <1>2, <1>4
  <1>8. p < lim => Ahead(in, lv, m, p)
    BY <1>1, <1>4, <1>5, <1>7, Zenon DEF Ahead
  <1>9. m > 1 => fr[m].limit \in lim .. (Len(in) + 1)
    <2> SUFFICES ASSUME m > 1 PROVE fr[m].limit \in lim .. (Len(in) + 1)
      OBVIOUS
    <2>1. m \in 2 .. m /\ m - 1 \in 1 .. m
      BY <1>4
    <2>2. lv[m].end <= fr[m].limit /\ lv[m - 1].end = fr[m].limit /\ lv[m - 1].end \in 1 .. (Len(in) + 1)
      BY <1>1, <1>2, <2>1
    <2> QED
      BY <1>4, <1>7, <2>2
  <1>10. m = 1 => fr[m].call = "message" /\ lim = Len(in) + 1
    BY <1>1, <1>7
  <1> QED
    BY <1>1, <1>3, <1>4, <1>5, <1>6, <1>7, <1>8, <1>9, <1>10 DEF lv, m

LEMMA PushLevels ==
    ASSUME NEW fr \in Seq(Frames), NEW b \in Frames, NEW lim, b.limit = lim, NEW end
    PROVE  LET gr == Append(fr, b)
               n == Len(fr) + 1
           IN  /\ gr \in Seq(Frames) /\ Len(gr) = n
               /\ \A x \in 1 .. Len(fr) :
                     gr[x] = fr[x] /\ LevelsOf(gr, end)[x] = LevelsOf(fr, lim)[x]
               /\ gr[n] = b
               /\ LevelsOf(gr, end)[n] = [call |-> b.call, f |-> b.f, end |-> end]
  <1> DEFINE gr == Append(fr, b)
             n == Len(fr) + 1
  <1>1. /\ gr \in Seq(Frames) /\ Len(gr) = n /\ gr[n] = b /\ Len(fr) \in Nat
        /\ \A x \in 1 .. Len(fr) : gr[x] = fr[x]
    OBVIOUS
  <1> HIDE DEF gr
  <1>2. ASSUME NEW x \in 1 .. Len(fr)
        PROVE  LevelsOf(gr, end)[x] = LevelsOf(fr, lim)[x]
    <2>1. x \in 1 .. n /\ x # n /\ (x = Len(fr) => x + 1 = n) /\ (x # Len(fr) => x + 1 \in 1 .. Len(fr))
      BY <1>1
    <2>2. LevelsOf(fr, lim)[x] =
              [call |-> fr[x].call, f |-> fr[x].f, end |-> IF x = Len(fr) THEN lim ELSE fr[x + 1].limit]
      BY DEF LevelsOf
    <2>3. LevelsOf(gr, end)[x] = [call |-> gr[x].call, f |-> gr[x].f, end |-> gr[x + 1].limit]
      BY <1>1, <2>1 DEF LevelsOf
    <2>4. gr[x + 1].limit = IF x = Len(fr) THEN lim ELSE fr[x + 1].limit
      BY <1>1, <2>1
    <2>5. gr[x] = fr[x]
      BY <1>1
    <2> QED
      BY <2>2, <2>3, <2>4, <2>5, Zenon
  <1>3. LevelsOf(gr, end)[n] = [call |-> b.call, f |-> b.f, end |-> end]
    BY <1>1 DEF LevelsOf
  <1> QED
    BY <1>1, <1>2, <1>3 DEF gr

LEMMA PopLevels ==
    ASSUME NEW fr \in Seq(Frames), Len(fr) > 1, NEW lim, NEW b, b = fr[Len(fr)].limit
    PROVE  LET gr == Front(fr)
               n == Len(fr) - 1
           IN  /\ gr \in Seq(Frames) /\ Len(gr) = n
               /\ \A x \in 1 .. n : gr[x] = fr[x] /\ LevelsOf(gr, b)[x] = LevelsOf(fr, lim)[x]
  <1> DEFINE gr == Front(fr)
             n == Len(fr) - 1
  <1>1. /\ gr \in Seq(Frames) /\ Len(gr) = n /\ Len(fr) \in Nat /\ n \in Nat
        /\ \A x \in 1 .. n : gr[x] = fr[x]
    BY DEF Front
  <1> HIDE DEF gr
  <1>2. ASSUME NEW x \in 1 .. n
        PROVE  LevelsOf(gr, b)[x] = LevelsOf(fr, lim)[x]
    <2>1. x \in 1 .. Len(fr) /\ x # Len(fr) /\ (x = n => x + 1 = Len(fr)) /\ (x # n => x + 1 \in 1 .. n)
      BY <1>1
    <2>2. LevelsOf(fr, lim)[x] = [call |-> fr[x].call, f |-> fr[x].f, end |-> fr[x + 1].limit]
      BY <2>1 DEF LevelsOf
    <2>3. LevelsOf(gr, b)[x] =
              [call |-> gr[x].call, f |-> gr[x].f, end |-> IF x = n THEN b ELSE gr[x + 1].limit]
      BY <1>1, <2>1 DEF LevelsOf
    <2>4. fr[x + 1].limit = IF x = n THEN b ELSE gr[x + 1].limit
      BY <1>1, <2>1
    <2>5. gr[x] = fr[x]
      BY <1>1
    <2> QED
      BY <2>2, <2>3, <2>4, <2>5, Zenon
  <1> QED
    BY <1>1, <1>2 DEF gr

LEMMA StayShape ==
    ASSUME NEW in, NEW p, NEW lim, NEW d, NEW fr, ParserShape(in, p, lim, d, fr), NEW q \in p .. lim
    PROVE  ParserShape(in, q, lim, d, fr)
  <1>1. q \in 1 .. (Len(in) + 1) /\ lim \in q .. (Len(in) + 1)
    BY ShapeFacts
  <1> QED
    BY <1>1, Zenon DEF ParserShape

LEMMA PushShape ==
    ASSUME NEW in, NEW p, NEW lim, NEW d, NEW fr, ParserShape(in, p, lim, d, fr),
           d + 1 <= RecursionLimit,
           NEW b \in Frames, b.limit = lim, NEW end \in (p + 1) .. lim
    PROVE  ParserShape(in, p + 1, end, d + 1, Append(fr, b))
  <1> DEFINE gr == Append(fr, b)
             n == Len(fr) + 1
             lv == LevelsOf(fr, lim)
             lw == LevelsOf(gr, end)
  <1>1. /\ in \in Encodings /\ Len(in) \in Nat /\ RecursionLimit \in Nat
        /\ p \in 1 .. (Len(in) + 1) /\ lim \in 1 .. (Len(in) + 1) /\ p \in Nat /\ lim \in Nat /\ p <= lim
        /\ fr \in Seq(Frames) /\ Len(fr) \in Nat \ {0} /\ d = Len(fr) - 1
        /\ d \in 0 .. RecursionLimit
    BY ShapeFacts
  <1>2. /\ gr \in Seq(Frames) /\ Len(gr) = n
        /\ \A x \in 1 .. Len(fr) : gr[x] = fr[x] /\ lw[x] = lv[x]
        /\ gr[n] = b
        /\ lw[n] = [call |-> b.call, f |-> b.f, end |-> end]
    BY <1>1, PushLevels
  <1>3. /\ fr[1].call = "message" /\ lv[1].end = Len(in) + 1
        /\ \A x \in 1 .. Len(fr) : lv[x].end \in 1 .. (Len(in) + 1)
        /\ \A x \in 2 .. Len(fr) : lv[x].end <= fr[x].limit
    BY Zenon DEF ParserShape
  <1> HIDE DEF gr, lv, lw
  <1>4. 1 \in 1 .. Len(fr) /\ end \in 1 .. (Len(in) + 1) /\ end <= lim
    BY <1>1
  <1>5. gr[1].call = "message" /\ lw[1].end = Len(in) + 1
    BY <1>2, <1>3, <1>4
  <1>6. Len(fr) \in Nat
    BY <1>1
  <1>7. \A x \in 1 .. n : lw[x].end \in 1 .. (Len(in) + 1)
    <2> TAKE x \in 1 .. n
    <2>1. x \in 1 .. Len(fr) \/ x = n
      BY <1>6
    <2> QED
      BY <1>2, <1>3, <1>4, <2>1
  <1>8. \A x \in 2 .. n : lw[x].end <= gr[x].limit
    <2> TAKE x \in 2 .. n
    <2>1. (x \in 1 .. Len(fr) /\ x \in 2 .. Len(fr)) \/ x = n
      BY <1>6
    <2> QED
      BY <1>2, <1>3, <1>4, <2>1
  <1>9. /\ p + 1 \in 1 .. (Len(in) + 1) /\ end \in (p + 1) .. (Len(in) + 1)
        /\ d + 1 = Len(gr) - 1 /\ d + 1 \in 0 .. RecursionLimit
    BY <1>1, <1>2
  <1> QED
    BY <1>1, <1>2, <1>5, <1>7, <1>8, <1>9, Zenon DEF ParserShape, gr, lw

LEMMA PopShape ==
    ASSUME NEW in, NEW p, NEW lim, NEW d, NEW fr, ParserShape(in, p, lim, d, fr), Len(fr) > 1,
           NEW b, b = Last(fr).limit
    PROVE  ParserShape(in, p, b, d - 1, Front(fr))
  <1> DEFINE gr == Front(fr)
             n == Len(fr) - 1
             lv == LevelsOf(fr, lim)
             lw == LevelsOf(gr, b)
  <1>1. /\ in \in Encodings /\ Len(in) \in Nat /\ RecursionLimit \in Nat
        /\ p \in 1 .. (Len(in) + 1) /\ lim \in 1 .. (Len(in) + 1) /\ p \in Nat /\ lim \in Nat /\ p <= lim
        /\ fr \in Seq(Frames) /\ Len(fr) \in Nat \ {0} /\ d = Len(fr) - 1
        /\ d \in 0 .. RecursionLimit /\ Last(fr) = fr[Len(fr)]
        /\ b \in lim .. (Len(in) + 1)
    BY ShapeFacts
  <1>2. /\ gr \in Seq(Frames) /\ Len(gr) = n
        /\ \A x \in 1 .. n : gr[x] = fr[x] /\ lw[x] = lv[x]
    <2>1. fr \in Seq(Frames) /\ b = fr[Len(fr)].limit
      BY <1>1
    <2> QED
      BY <2>1, PopLevels
  <1>3. /\ fr[1].call = "message" /\ lv[1].end = Len(in) + 1
        /\ \A x \in 1 .. Len(fr) : lv[x].end \in 1 .. (Len(in) + 1)
        /\ \A x \in 2 .. Len(fr) : lv[x].end <= fr[x].limit
    BY Zenon DEF ParserShape
  <1> HIDE DEF gr, lv, lw
  <1>4. /\ 1 \in 1 .. n /\ p \in 1 .. (Len(in) + 1) /\ b \in p .. (Len(in) + 1)
        /\ d - 1 = Len(gr) - 1 /\ d - 1 \in 0 .. RecursionLimit
        /\ \A x \in 1 .. n : x \in 1 .. Len(fr)
        /\ \A x \in 2 .. n : x \in 2 .. Len(fr) /\ x \in 1 .. n
    BY <1>1, <1>2
  <1>5. gr[1].call = "message" /\ lw[1].end = Len(in) + 1
    BY <1>2, <1>3, <1>4
  <1>6. \A x \in 1 .. n : lw[x].end \in 1 .. (Len(in) + 1)
    BY <1>2, <1>3, <1>4
  <1>7. \A x \in 2 .. n : lw[x].end <= gr[x].limit
    BY <1>2, <1>3, <1>4
  <1> QED
    BY <1>1, <1>2, <1>4, <1>5, <1>6, <1>7, Zenon DEF ParserShape, gr, lw

(* What the skipper saves of a token. *)
Same(sk, s, t) ==
    s = t \/ (sk = "coded" /\ t.k = "value" /\ t.f = Enum /\ s = [t EXCEPT !.k = "number"])

SaveSet == Tokens \cup {[t EXCEPT !.k = "number"] : t \in Tokens}

(* Before p, what set no field is what was saved. *)
Kept(sk, in, p, ps, sv) ==
    /\ sv \in Seq(SaveSet) /\ ps \subseteq 1 .. (p - 1)
    /\ \E at \in [1 .. Len(sv) -> 1 .. (p - 1)] :
          /\ \A i, j \in 1 .. Len(sv) : i < j => at[i] < at[j]
          /\ {at[i] : i \in 1 .. Len(sv)} = (1 .. (p - 1)) \ ps
          /\ \A i \in 1 .. Len(sv) : Same(sk, sv[i], in[at[i]])

LEMMA KeptFirst ==
    ASSUME NEW sk, NEW in
    PROVE  Kept(sk, in, 1, {}, << >>)
  <1> DEFINE at == [i \in 1 .. 0 |-> 1]
  <1>1. /\ << >> \in Seq(SaveSet) /\ Len(<< >>) = 0 /\ {} \subseteq 1 .. (1 - 1)
        /\ at \in [1 .. 0 -> 1 .. (1 - 1)] /\ 1 .. (1 - 1) = {}
        /\ \A i \in 1 .. 0 : FALSE
    OBVIOUS
  <1>2. {at[i] : i \in 1 .. 0} = {}
    OBVIOUS
  <1> HIDE DEF at
  <1>3. /\ at \in [1 .. Len(<< >>) -> 1 .. (1 - 1)]
        /\ {at[i] : i \in 1 .. Len(<< >>)} = (1 .. (1 - 1)) \ {}
        /\ \A i \in 1 .. Len(<< >>) : FALSE
    BY <1>1, <1>2
  <1> QED
    BY <1>1, <1>3, Zenon DEF Kept

(* A token that sets a field. *)
LEMMA KeptSet ==
    ASSUME NEW sk, NEW in, NEW p \in Nat \ {0}, NEW ps, NEW sv, Kept(sk, in, p, ps, sv)
    PROVE  Kept(sk, in, p + 1, ps \cup {p}, sv)
  <1>1. PICK at \in [1 .. Len(sv) -> 1 .. (p - 1)] :
            /\ \A i, j \in 1 .. Len(sv) : i < j => at[i] < at[j]
            /\ {at[i] : i \in 1 .. Len(sv)} = (1 .. (p - 1)) \ ps
            /\ \A i \in 1 .. Len(sv) : Same(sk, sv[i], in[at[i]])
    BY Zenon DEF Kept
  <1>2. sv \in Seq(SaveSet) /\ ps \subseteq 1 .. (p - 1)
    BY Zenon DEF Kept
  <1>3. (p + 1) - 1 = p /\ (1 .. (p - 1)) \ ps = (1 .. p) \ (ps \cup {p}) /\ ps \cup {p} \subseteq 1 .. p
    BY <1>2
  <1>4. at \in [1 .. Len(sv) -> 1 .. ((p + 1) - 1)]
    <2>1. 1 .. (p - 1) \subseteq 1 .. ((p + 1) - 1)
      OBVIOUS
    <2> QED
      BY <2>1
  <1>5. ps \cup {p} \subseteq 1 .. ((p + 1) - 1)
        /\ {at[i] : i \in 1 .. Len(sv)} = (1 .. ((p + 1) - 1)) \ (ps \cup {p})
    BY <1>1, <1>3
  <1> QED
    BY <1>1, <1>2, <1>4, <1>5, Zenon DEF Kept

(* Tokens that are saved. *)
LEMMA KeptMore ==
    ASSUME NEW sk, NEW in, NEW p \in Nat \ {0}, NEW ps, NEW sv, Kept(sk, in, p, ps, sv),
           NEW add \in Seq(SaveSet),
           \A i \in 1 .. Len(add) : Same(sk, add[i], in[p + i - 1]),
           NEW q, q = p + Len(add)
    PROVE  Kept(sk, in, q, ps, sv \o add)
  <1> DEFINE L == Len(sv)
             N == Len(add)
             new == sv \o add
  <1>1. PICK at \in [1 .. L -> 1 .. (p - 1)] :
            /\ \A i, j \in 1 .. L : i < j => at[i] < at[j]
            /\ {at[i] : i \in 1 .. L} = (1 .. (p - 1)) \ ps
            /\ \A i \in 1 .. L : Same(sk, sv[i], in[at[i]])
    BY Zenon DEF Kept
  <1>2. sv \in Seq(SaveSet) /\ ps \subseteq 1 .. (p - 1)
    BY Zenon DEF Kept
  <1>3. /\ L \in Nat /\ N \in Nat /\ new \in Seq(SaveSet) /\ Len(new) = L + N
        /\ \A i \in 1 .. L : new[i] = sv[i]
        /\ \A i \in 1 .. N : new[L + i] = add[i]
    BY <1>2
  <1> DEFINE to == [i \in 1 .. (L + N) |-> IF i <= L THEN at[i] ELSE p + (i - L) - 1]
  <1> HIDE DEF L, N, new
  <1>4. \A i \in 1 .. (L + N) : (i \in 1 .. L /\ i <= L) \/ (i - L \in 1 .. N /\ ~(i <= L) /\ L + (i - L) = i)
    BY <1>3
  <1>5. \A i \in 1 .. L : at[i] \in Nat /\ at[i] >= 1 /\ at[i] < p
    OBVIOUS
  <1>6. /\ \A i \in 1 .. L : to[i] = at[i] /\ i \in 1 .. (L + N)
        /\ \A i \in 1 .. N : to[L + i] = p + i - 1 /\ L + i \in 1 .. (L + N)
    BY <1>3
  <1>7. to = [i \in 1 .. (L + N) |-> to[i]]
    OBVIOUS
  <1> HIDE DEF to
  <1>8. q - 1 = p + N - 1 /\ q \in Nat
    BY <1>3 DEF N
  <1>9. ASSUME NEW i \in 1 .. (L + N)
        PROVE  to[i] \in 1 .. (q - 1)
    <2>1. CASE i \in 1 .. L
      BY <1>3, <1>5, <1>6, <1>8, <2>1
    <2>2. CASE i - L \in 1 .. N /\ L + (i - L) = i
      <3>1. to[i] = p + (i - L) - 1
        BY <1>6, <2>2
      <3> QED
        BY <1>3, <1>8, <2>2, <3>1
    <2> QED
      BY <1>4, <2>1, <2>2
  <1>10. to \in [1 .. (L + N) -> 1 .. (q - 1)]
    BY <1>7, <1>9
  <1>11. ASSUME NEW i \in 1 .. (L + N), NEW j \in 1 .. (L + N), i < j
         PROVE  to[i] < to[j]
    <2>1. CASE j \in 1 .. L
      <3>1. i \in 1 .. L
        BY <1>3, <1>11, <2>1
      <3> QED
        BY <1>1, <1>6, <1>11, <2>1, <3>1
    <2>2. CASE j - L \in 1 .. N /\ L + (j - L) = j
      <3>1. to[j] = p + (j - L) - 1
        BY <1>6, <2>2
      <3>2. CASE i \in 1 .. L
        <4>1. to[i] \in Nat /\ to[i] < p
          BY <1>5, <1>6, <3>2
        <4> QED
          BY <1>3, <2>2, <3>1, <4>1
      <3>3. CASE i - L \in 1 .. N /\ L + (i - L) = i
        <4>1. to[i] = p + (i - L) - 1
          BY <1>6, <3>3
        <4> QED
          BY <1>3, <1>11, <3>1, <4>1
      <3> QED
        BY <1>4, <3>2, <3>3
    <2> QED
      BY <1>4, <2>1, <2>2
  <1>12. {to[i] : i \in 1 .. (L + N)} = (1 .. (q - 1)) \ ps
    <2>1. ASSUME NEW i \in 1 .. (L + N) PROVE to[i] \notin ps
      <3>1. CASE i \in 1 .. L
        BY <1>1, <1>6, <3>1
      <3>2. CASE i - L \in 1 .. N /\ L + (i - L) = i
        <4>1. to[i] = p + (i - L) - 1
          BY <1>6, <3>2
        <4>2. to[i] \notin 1 .. (p - 1)
          BY <1>3, <3>2, <4>1
        <4> QED
          BY <1>2, <4>2
      <3> QED
        BY <1>4, <3>1, <3>2
    <2>2. ASSUME NEW x \in 1 .. (q - 1), x \notin ps
          PROVE  \E i \in 1 .. (L + N) : to[i] = x
      <3>1. CASE x < p
        <4>1. x \in (1 .. (p - 1)) \ ps
          BY <2>2, <3>1, <1>8
        <4>2. PICK i \in 1 .. L : at[i] = x
          BY <1>1, <4>1
        <4> QED
          BY <1>6, <4>2
      <3>2. CASE ~(x < p)
        <4>1. x - p + 1 \in 1 .. N /\ p + (x - p + 1) - 1 = x
          BY <1>3, <1>8, <3>2
        <4> QED
          BY <1>6, <4>1
      <3> QED
        BY <3>1, <3>2
    <2> QED
      BY <1>9, <2>1, <2>2
  <1>13. ASSUME NEW i \in 1 .. (L + N)
         PROVE  Same(sk, new[i], in[to[i]])
    <2>1. CASE i \in 1 .. L
      <3>1. new[i] = sv[i] /\ to[i] = at[i]
        BY <1>3, <1>6, <2>1
      <3> QED
        BY <1>1, <2>1, <3>1
    <2>2. CASE i - L \in 1 .. N /\ L + (i - L) = i
      <3>1. new[i] = add[i - L] /\ to[i] = p + (i - L) - 1
        BY <1>3, <1>6, <2>2
      <3>2. Same(sk, add[i - L], in[p + (i - L) - 1])
        BY <2>2 DEF N
      <3> QED
        BY <3>1, <3>2
    <2> QED
      BY <1>4, <2>1, <2>2
  <1>14. ps \subseteq 1 .. (q - 1)
    BY <1>2, <1>3, <1>8
  <1>15. Len(new) = L + N /\ new \in Seq(SaveSet)
    BY <1>3
  <1>16. Kept(sk, in, q, ps, new)
    <2>1. /\ to \in [1 .. Len(new) -> 1 .. (q - 1)]
          /\ \A i, j \in 1 .. Len(new) : i < j => to[i] < to[j]
          /\ {to[i] : i \in 1 .. Len(new)} = (1 .. (q - 1)) \ ps
          /\ \A i \in 1 .. Len(new) : Same(sk, new[i], in[to[i]])
      BY <1>10, <1>11, <1>12, <1>13, <1>15
    <2> QED
      BY <1>14, <1>15, <2>1, Zenon DEF Kept
  <1> QED
    BY <1>16 DEF new

(* The inductive invariant of the parser: while it runs, the input is a     *)
(* message if and only if what it has not read completes its call stack;    *)
(* and it has saved what it has read and set no field from.                 *)
Levels == LevelsOf(frames, limit)

Verdict ==
    /\ Running => ~legit /\ (Fields(input) <=> Rest(input, Levels, Len(frames), pos))
    /\ ~Running => (result = "true" <=> Fields(input))

Saves ==
    /\ result # "false" => Kept(skipper, input, pos, parsed, saved)
    /\ result = "true" => pos = Len(input) + 1

ParserInv ==
    /\ skipper \in {"set", "coded"} /\ legit \in BOOLEAN /\ result \in {"none", "true", "false"}
    /\ ParserShape(input, pos, limit, depth, frames)
    /\ Verdict /\ Saves

LEMMA ParserInitFacts ==
    ASSUME ParserInit
    PROVE  ParserInv
  <1>1. /\ skipper \in {"set", "coded"} /\ input \in BoundedSeq(Tokens, MaxTokens)
        /\ pos = 1 /\ limit = Len(input) + 1
        /\ depth = 0 /\ frames = <<Top>> /\ legit = FALSE
        /\ saved = << >> /\ parsed = {} /\ result = "none"
    BY DEF ParserInit
  <1>2. input \in Encodings /\ Len(input) \in Nat
    BY <1>1, ParserAssumption DEF BoundedSeq, SeqOf, Encodings
  <1>3. Top \in Frames /\ Top.call = "message"
    BY DEF Frames, Top, CallKinds
  <1> HIDE DEF Top
  <1>4. frames \in Seq(Frames) /\ Len(frames) = 1 /\ frames[1] = Top
    BY <1>1, <1>3
  <1>5. Levels[1].end = Len(input) + 1 /\ Levels[1].call # "skip"
    <2>1. Levels[1] = [call |-> frames[1].call, f |-> frames[1].f, end |-> limit]
      BY <1>4 DEF Levels, LevelsOf
    <2> QED
      BY <1>1, <1>3, <1>4, <2>1
  <1>6. ParserShape(input, pos, limit, depth, frames)
    <2>1. /\ pos \in 1 .. (Len(input) + 1) /\ limit \in pos .. (Len(input) + 1)
          /\ depth = Len(frames) - 1 /\ depth \in 0 .. RecursionLimit
          /\ frames[1].call = "message" /\ Levels[1].end = Len(input) + 1
      BY <1>1, <1>2, <1>3, <1>4, <1>5, ParserAssumption
    <2>2. \A x \in 1 .. Len(frames) : Levels[x].end \in 1 .. (Len(input) + 1)
      BY <1>2, <1>4, <1>5
    <2>3. \A x \in 2 .. Len(frames) : Levels[x].end <= frames[x].limit
      BY <1>4
    <2> QED
      BY <1>2, <1>4, <2>1, <2>2, <2>3, Zenon DEF ParserShape, Levels
  <1>7. Fields(input) <=> Rest(input, Levels, Len(frames), pos)
    <2>1. 1 \in 1 .. (Len(input) + 1) /\ 1 - 1 = 0 /\ (Levels[1].call # "skip") = TRUE
      BY <1>2, <1>5
    <2>2. Rest(input, Levels, 1, 1) <=> Level(input, Levels, 1, 1, Len(input) + 1)
      BY <1>2, <2>1, RestOfFirst
    <2>3. Level(input, Levels, 1, 1, Len(input) + 1) <=>
              Are(input, 1, Len(input) + 1, 0, TRUE, Len(input) + 1)
      BY <1>5, <2>1 DEF Level
    <2> QED
      BY <1>1, <1>4, <2>2, <2>3, FieldsAre
  <1>8. Kept(skipper, input, pos, parsed, saved)
    BY <1>1, KeptFirst
  <1>9. legit \in BOOLEAN /\ result \in {"none", "true", "false"} /\ result # "true" /\ ~legit /\ Running
    BY <1>1 DEF Running
  <1> QED
    BY <1>1, <1>6, <1>7, <1>8, <1>9, Zenon DEF ParserInv, Verdict, Saves

-----------------------------------------------------------------------------
(* The ways a step ends. *)
LEMMA Rejected ==
    ASSUME ParserInv, result' = "false", given' = given, legit' \in BOOLEAN, ~Fields(input),
           ParserShape(input, pos', limit', depth', frames')
    PROVE  ParserInv'
  <1>1. input' = input /\ skipper' = skipper /\ skipper \in {"set", "coded"}
    BY DEF given, ParserInv
  <1>2. ParserShape(input, pos, limit, depth, frames)'
    BY <1>1
  <1>3. Verdict' /\ Saves'
    <2>1. result' # "none" /\ result' # "true" /\ ~Fields(input')
      BY <1>1
    <2> QED
      BY <2>1 DEF Verdict, Saves, Running
  <1> QED
    BY <1>1, <1>2, <1>3 DEF ParserInv

LEMMA GoesOn ==
    ASSUME ParserInv, Running, given' = given, result' = result, legit' = FALSE,
           ParserShape(input, pos', limit', depth', frames'),
           Rest(input, LevelsOf(frames', limit'), Len(frames'), pos') <=>
               Rest(input, LevelsOf(frames, limit), Len(frames), pos),
           Kept(skipper, input, pos', parsed', saved')
    PROVE  ParserInv'
  <1>1. input' = input /\ skipper' = skipper /\ skipper \in {"set", "coded"} /\ result = "none"
    BY DEF given, ParserInv, Running
  <1>2. ParserShape(input, pos, limit, depth, frames)'
    BY <1>1
  <1>3. Verdict'
    <2>1. Fields(input) <=> Rest(input, LevelsOf(frames, limit), Len(frames), pos)
      BY DEF ParserInv, Verdict, Levels
    <2>2. Fields(input') <=> Rest(input', LevelsOf(frames', limit'), Len(frames'), pos')
      BY <1>1, <2>1
    <2> QED
      BY <1>1, <2>2 DEF Verdict, Running, Levels
  <1>4. Saves'
    <2>1. Kept(skipper', input', pos', parsed', saved') /\ result' = "none"
      BY <1>1
    <2> QED
      BY <2>1 DEF Saves
  <1> QED
    BY <1>1, <1>2, <1>3, <1>4 DEF ParserInv

(* What a step that reads a token starts from. *)
LEMMA ReadFacts ==
    ASSUME ParserInv, Running
    PROVE  /\ ParserShape(input, pos, limit, depth, frames)
           /\ ~legit /\ legit = FALSE
           /\ Kept(skipper, input, pos, parsed, saved)
           /\ Fields(input) <=> Rest(input, Levels, Len(frames), pos)
           /\ input \in Encodings /\ Len(input) \in Nat /\ RecursionLimit \in Nat
           /\ pos \in 1 .. (Len(input) + 1) /\ limit \in 1 .. (Len(input) + 1)
           /\ pos \in Nat \ {0} /\ limit \in Nat /\ pos <= limit
           /\ frames \in Seq(Frames) /\ Len(frames) \in Nat \ {0} /\ depth = Len(frames) - 1
           /\ Stacked(input, Levels, Len(frames))
           /\ Last(frames) = frames[Len(frames)] /\ Last(frames) \in Frames /\ Last(frames).call \in CallKinds
           /\ Levels[Len(frames)].call = Last(frames).call /\ Levels[Len(frames)].f = Last(frames).f
           /\ Levels[Len(frames)].end = limit
           /\ Known(Levels, Len(frames)) <=> Merging
           /\ pos < limit =>
                  /\ Ahead(input, Levels, Len(frames), pos)
                  /\ Token \in Tokens /\ Token.n \in Nat /\ Token = input[pos]
                  /\ Token.k \in {"value", "len", "start", "end", "zero"}
           /\ Len(frames) > 1 => Last(frames).limit \in limit .. (Len(input) + 1)
           /\ Len(frames) = 1 => Last(frames).call = "message" /\ limit = Len(input) + 1
  <1>1. /\ ParserShape(input, pos, limit, depth, frames) /\ legit \in BOOLEAN
        /\ Verdict /\ Saves
    BY DEF ParserInv
  <1>2. ~legit /\ (Fields(input) <=> Rest(input, Levels, Len(frames), pos))
    BY <1>1 DEF Verdict
  <1>3. Kept(skipper, input, pos, parsed, saved)
    BY <1>1 DEF Saves, Running
  <1>4. legit = FALSE
    BY <1>1, <1>2
  <1>5. /\ input \in Encodings /\ Len(input) \in Nat /\ RecursionLimit \in Nat
        /\ pos \in 1 .. (Len(input) + 1) /\ limit \in 1 .. (Len(input) + 1)
        /\ pos \in Nat /\ limit \in Nat /\ pos <= limit
        /\ frames \in Seq(Frames) /\ Len(frames) \in Nat \ {0} /\ depth = Len(frames) - 1
        /\ Stacked(input, Levels, Len(frames))
        /\ Last(frames) = frames[Len(frames)] /\ Last(frames) \in Frames
        /\ Levels[Len(frames)].call = Last(frames).call /\ Levels[Len(frames)].f = Last(frames).f
        /\ Levels[Len(frames)].end = limit
        /\ pos < limit => Ahead(input, Levels, Len(frames), pos)
        /\ Len(frames) > 1 => Last(frames).limit \in limit .. (Len(input) + 1)
        /\ Len(frames) = 1 => Last(frames).call = "message" /\ limit = Len(input) + 1
    BY <1>1, ShapeFacts DEF Levels
  <1>6. Known(Levels, Len(frames)) <=> Merging
    BY <1>5 DEF Known, Merging
  <1>7. ASSUME pos < limit
        PROVE  /\ Token \in Tokens /\ Token.n \in Nat /\ Token = input[pos]
               /\ Token.k \in {"value", "len", "start", "end", "zero"}
    <2>1. Ahead(input, Levels, Len(frames), pos)
      BY <1>5, <1>7
    <2> QED
      BY <2>1, AheadFacts DEF Token
  <1>8. Last(frames).call \in CallKinds
    BY <1>5 DEF Frames
  <1>9. pos \in Nat \ {0}
    BY <1>5
  <1> QED
    BY <1>1, <1>2, <1>3, <1>4, <1>5, <1>6, <1>7, <1>8, <1>9, Zenon

LEMMA RejectStep ==
    ASSUME ParserInv, Running, Reject, ~Rest(input, Levels, Len(frames), pos)
    PROVE  ParserInv'
  <1>1. /\ result' = "false" /\ given' = given /\ legit' = legit /\ legit \in BOOLEAN
        /\ pos' = pos /\ limit' = limit /\ depth' = depth /\ frames' = frames
    BY DEF Reject, ParserInv
  <1>2. ParserShape(input, pos', limit', depth', frames')
    BY <1>1, ReadFacts
  <1>3. ~Fields(input)
    BY ReadFacts, Zenon
  <1> QED
    BY <1>1, <1>2, <1>3, Rejected

(* A call, of which the rest of the proof has to be given.                  *)
LEMMA CallStep ==
    ASSUME ParserInv, Running, pos < limit, NEW kind \in CallKinds, NEW end \in (pos + 1) .. limit,
           NEW set, NEW save, Call(kind, end, set, save), depth + 1 <= RecursionLimit,
           NEW lw, lw = LevelsOf(Append(frames, [call |-> kind, f |-> Token.f, limit |-> limit]), end),
           Rest(input, lw, Len(frames) + 1, pos + 1) <=> Rest(input, Levels, Len(frames), pos),
           Kept(skipper, input, pos + 1, parsed', saved')
    PROVE  ParserInv'
  <1> DEFINE b == [call |-> kind, f |-> Token.f, limit |-> limit]
  <1>1. /\ frames \in Seq(Frames) /\ limit \in Nat /\ Token \in Tokens /\ legit = FALSE
        /\ depth \in Nat /\ RecursionLimit \in Nat /\ Len(frames) \in Nat
    BY ReadFacts
  <1>2. /\ depth' = depth + 1 /\ pos' = pos + 1 /\ frames' = Append(frames, b) /\ limit' = end
        /\ given' = given /\ legit' = legit /\ result' = result
    BY <1>1 DEF Call
  <1>3. b \in Frames /\ b.limit = limit
    BY <1>1 DEF Frames
  <1>4. ParserShape(input, pos', limit', depth', frames')
    <2>1. ParserShape(input, pos, limit, depth, frames)
      BY ReadFacts
    <2> HIDE DEF b
    <2>2. ParserShape(input, pos + 1, end, depth + 1, Append(frames, b))
      BY <1>3, <2>1, PushShape
    <2> QED
      BY <1>2, <2>2
  <1>5. Len(frames') = Len(frames) + 1
    BY <1>1, <1>2, <1>3
  <1>6. Rest(input, LevelsOf(frames', limit'), Len(frames'), pos') <=>
            Rest(input, LevelsOf(frames, limit), Len(frames), pos)
    BY <1>2, <1>5 DEF Levels
  <1>7. Kept(skipper, input, pos', parsed', saved')
    BY <1>2
  <1> QED
    BY <1>1, <1>2, <1>4, <1>6, <1>7, GoesOn

(* The levels of a call. *)
LEMMA CallLevels ==
    ASSUME ParserInv, Running, pos < limit, NEW kind \in CallKinds, NEW end,
           NEW lw, lw = LevelsOf(Append(frames, [call |-> kind, f |-> Token.f, limit |-> limit]), end)
    PROVE  /\ \A y \in 1 .. Len(frames) : lw[y] = Levels[y]
           /\ lw[Len(frames) + 1] = [call |-> kind, f |-> Token.f, end |-> end]
  <1> DEFINE b == [call |-> kind, f |-> Token.f, limit |-> limit]
  <1>1. frames \in Seq(Frames) /\ limit \in Nat /\ Token \in Tokens
    BY ReadFacts
  <1>2. b \in Frames /\ b.limit = limit /\ b.call = kind /\ b.f = Token.f
    BY <1>1 DEF Frames
  <1> HIDE DEF b
  <1>3. /\ \A x \in 1 .. Len(frames) :
              LevelsOf(Append(frames, b), end)[x] = LevelsOf(frames, limit)[x]
        /\ LevelsOf(Append(frames, b), end)[Len(frames) + 1] = [call |-> b.call, f |-> b.f, end |-> end]
    <2>1. frames \in Seq(Frames) /\ b \in Frames /\ b.limit = limit
      BY <1>1, <1>2
    <2>2. ASSUME NEW fr \in Seq(Frames), NEW c \in Frames, c.limit = limit
          PROVE  /\ \A x \in 1 .. Len(fr) : LevelsOf(Append(fr, c), end)[x] = LevelsOf(fr, limit)[x]
                 /\ LevelsOf(Append(fr, c), end)[Len(fr) + 1] = [call |-> c.call, f |-> c.f, end |-> end]
      BY <2>2, PushLevels
    <2> QED
      BY <2>1, <2>2
  <1> QED
    BY <1>2, <1>3 DEF b, Levels

(* Saving one token, or none. *)
LEMMA KeptOne ==
    ASSUME ParserInv, Running, pos < limit, NEW s \in SaveSet, Same(skipper, s, Token)
    PROVE  Kept(skipper, input, pos + 1, parsed, saved \o <<s>>)
  <1>1. /\ Kept(skipper, input, pos, parsed, saved) /\ pos \in Nat \ {0} /\ Token = input[pos]
    BY ReadFacts
  <1>2. <<s>> \in Seq(SaveSet) /\ Len(<<s>>) = 1 /\ <<s>>[1] = s /\ pos + 1 - 1 = pos
    BY <1>1
  <1>3. \A i \in 1 .. Len(<<s>>) : Same(skipper, <<s>>[i], input[pos + i - 1])
    <2> TAKE i \in 1 .. Len(<<s>>)
    <2>1. i = 1
      BY <1>2
    <2> QED
      BY <1>1, <1>2, <2>1
  <1>4. pos + 1 = pos + Len(<<s>>)
    BY <1>2
  <1> QED
    BY <1>1, <1>2, <1>3, <1>4, KeptMore, Zenon

LEMMA SavedNothing ==
    ASSUME ParserInv, Running
    PROVE  saved \o << >> = saved
  <1>1. Kept(skipper, input, pos, parsed, saved)
    BY ReadFacts
  <1>2. saved \in Seq(SaveSet)
    BY <1>1, Zenon DEF Kept
  <1> QED
    BY <1>2

LEMMA KeptField ==
    ASSUME ParserInv, Running
    PROVE  Kept(skipper, input, pos + 1, parsed \cup {pos}, saved)
  BY ReadFacts, KeptSet, Zenon

LEMMA TokenSame ==
    ASSUME ParserInv, Running, pos < limit
    PROVE  Token \in SaveSet /\ Same(skipper, Token, Token)
  BY ReadFacts DEF SaveSet, Same

-----------------------------------------------------------------------------
LEMMA ReadMessageStep ==
    ASSUME ParserInv, ReadMessage
    PROVE  ParserInv'
  <1> DEFINE end == PushedLimit(Token.n)
             m == Len(frames)
  <1>1. /\ Running /\ pos < limit /\ Token.k = "len" /\ Merging /\ Token.f = Sub
        /\ Call("message", end, TRUE, << >>)
    BY DEF ReadMessage, Reads
  <1>2. /\ Ahead(input, Levels, m, pos) /\ Token = input[pos] /\ Token.n \in Nat
        /\ pos \in Nat /\ limit \in Nat /\ depth = m - 1 /\ RecursionLimit \in Nat /\ m \in Nat
        /\ Known(Levels, m) /\ Levels[m].end = limit
        /\ Fields(input) <=> Rest(input, Levels, m, pos)
    BY <1>1, ReadFacts
  <1>3. end = Cut(input[pos].n, pos, Levels[m].end) /\ end \in (pos + 1) .. limit
    BY <1>1, <1>2 DEF PushedLimit, Cut
  <1>4. CASE depth + 1 > RecursionLimit
    <2>1. Reject
      BY <1>1, <1>4 DEF Call
    <2>2. ~(m <= RecursionLimit)
      BY <1>2, <1>4
    <2>3. ~Rest(input, Levels, m, pos)
      BY <1>1, <1>2, <2>2, RestOfMessage
    <2> QED
      BY <1>1, <2>1, <2>3, RejectStep
  <1>5. CASE ~(depth + 1 > RecursionLimit)
    <2> DEFINE lw == LevelsOf(Append(frames, [call |-> "message", f |-> Token.f, limit |-> limit]), end)
    <2>1. "message" \in CallKinds /\ m <= RecursionLimit /\ depth + 1 <= RecursionLimit
      BY <1>2, <1>5 DEF CallKinds
    <2> HIDE DEF end
    <2>2. /\ \A y \in 1 .. m : lw[y] = Levels[y]
          /\ lw[m + 1] = [call |-> "message", f |-> Token.f, end |-> end]
      BY <1>1, <2>1, CallLevels
    <2> HIDE DEF lw
    <2>3. Rest(input, lw, m + 1, pos + 1) <=> Rest(input, Levels, m, pos)
      <3>1. lw[m + 1].call = "message" /\ lw[m + 1].end = Cut(input[pos].n, pos, Levels[m].end)
        BY <1>3, <2>2
      <3>2. input[pos].k = "len" /\ Known(Levels, m) /\ input[pos].f = Sub
        BY <1>1, <1>2
      <3> QED
        BY <1>2, <2>1, <2>2, <3>1, <3>2, RestInMessage, Zenon
    <2>4. parsed' = parsed \cup {pos} /\ saved' = saved \o << >>
      BY <1>1, <1>5 DEF Call
    <2>5. Kept(skipper, input, pos + 1, parsed', saved')
      BY <1>1, <2>4, SavedNothing, KeptField
    <2> QED
      BY <1>1, <1>3, <2>1, <2>3, <2>5, CallStep DEF lw
  <1> QED
    BY <1>4, <1>5

(* A group, that is read or skipped. *)
LEMMA GroupStep ==
    ASSUME ParserInv, Reads("start"), NEW kind, NEW set, NEW save,
           kind = IF Merging /\ Token.f = Grp THEN "group" ELSE "skip",
           Call(kind, limit, set, save),
           (set /\ save = << >>) \/ (~set /\ save = <<Token>>)
    PROVE  ParserInv'
  <1> DEFINE m == Len(frames)
  <1>1. /\ Running /\ pos < limit /\ Token.k = "start"
    BY DEF Reads
  <1>2. /\ Ahead(input, Levels, m, pos) /\ Token = input[pos] /\ Token.n \in Nat
        /\ pos \in Nat /\ limit \in Nat /\ depth = m - 1 /\ RecursionLimit \in Nat /\ m \in Nat
        /\ Known(Levels, m) <=> Merging
        /\ Levels[m].end = limit
        /\ Fields(input) <=> Rest(input, Levels, m, pos)
    BY <1>1, ReadFacts
  <1>3. CASE depth + 1 > RecursionLimit
    <2>1. Reject
      BY <1>1, <1>3 DEF Call
    <2>2. ~(m <= RecursionLimit)
      BY <1>2, <1>3
    <2>3. ~Rest(input, Levels, m, pos)
      BY <1>1, <1>2, <2>2, RestOfGroup
    <2> QED
      BY <1>1, <2>1, <2>3, RejectStep
  <1>4. CASE ~(depth + 1 > RecursionLimit)
    <2> DEFINE lw == LevelsOf(Append(frames, [call |-> kind, f |-> Token.f, limit |-> limit]), limit)
    <2>1. kind \in CallKinds /\ m <= RecursionLimit /\ depth + 1 <= RecursionLimit
          /\ limit \in (pos + 1) .. limit
      BY <1>1, <1>2, <1>4 DEF CallKinds
    <2>2. /\ \A y \in 1 .. m : lw[y] = Levels[y]
          /\ lw[m + 1] = [call |-> kind, f |-> Token.f, end |-> limit]
      BY <1>1, <2>1, CallLevels
    <2> HIDE DEF lw
    <2>3. Rest(input, lw, m + 1, pos + 1) <=> Rest(input, Levels, m, pos)
      <3>1. /\ lw[m + 1].call = IF Known(Levels, m) /\ input[pos].f = Grp THEN "group" ELSE "skip"
            /\ lw[m + 1].f = input[pos].f /\ lw[m + 1].end = Levels[m].end
        <4>1. /\ lw[m + 1].call = kind /\ lw[m + 1].f = Token.f /\ lw[m + 1].end = limit
          BY <2>2
        <4> QED
          BY <1>2, <4>1
      <3>2. input[pos].k = "start"
        BY <1>1, <1>2
      <3> QED
        BY <1>2, <2>1, <2>2, <3>1, <3>2, RestInGroup, Zenon
    <2>4. parsed' = (IF set THEN parsed \cup {pos} ELSE parsed) /\ saved' = saved \o save
      BY <1>1, <1>4 DEF Call
    <2>5. Kept(skipper, input, pos + 1, parsed', saved')
      <3>1. CASE set /\ save = << >>
        BY <1>1, <2>4, <3>1, SavedNothing, KeptField
      <3>2. CASE ~set /\ save = <<Token>>
        BY <1>1, <2>4, <3>2, TokenSame, KeptOne
      <3> QED
        BY <3>1, <3>2
    <2> QED
      BY <1>1, <2>1, <2>3, <2>5, CallStep DEF lw
  <1> QED
    BY <1>3, <1>4

LEMMA ReadGroupStep ==
    ASSUME ParserInv, ReadGroup
    PROVE  ParserInv'
  <1>1. /\ Reads("start") /\ Merging /\ Token.f = Grp
        /\ Call("group", limit, TRUE, << >>)
    BY DEF ReadGroup
  <1>2. "group" = IF Merging /\ Token.f = Grp THEN "group" ELSE "skip"
    BY <1>1
  <1> QED
    BY <1>1, <1>2, GroupStep, Zenon

LEMMA SkipGroupStep ==
    ASSUME ParserInv, SkipGroup
    PROVE  ParserInv'
  <1>1. /\ Reads("start") /\ ~(Merging /\ Token.f = Grp)
        /\ Call("skip", limit, FALSE, <<Token>>)
    BY DEF SkipGroup
  <1>2. "skip" = IF Merging /\ Token.f = Grp THEN "group" ELSE "skip"
    BY <1>1
  <1> QED
    BY <1>1, <1>2, GroupStep, Zenon

-----------------------------------------------------------------------------
(* A field that is consumed at once. *)
LEMMA ConsumeStep ==
    ASSUME ParserInv, Running, NEW n \in Nat, pos + n <= limit, NEW set, NEW save, Consume(n, set, save),
           Rest(input, Levels, Len(frames), pos) <=> Rest(input, Levels, Len(frames), pos + n),
           Kept(skipper, input, pos + n, parsed', saved')
    PROVE  ParserInv'
  <1>1. /\ pos' = pos + n /\ given' = given /\ limit' = limit /\ depth' = depth /\ frames' = frames
        /\ legit' = legit /\ result' = result
    BY DEF Consume
  <1>2. legit = FALSE /\ ParserShape(input, pos, limit, depth, frames)
    BY ReadFacts
  <1>3. pos + n \in pos .. limit
    BY ReadFacts
  <1>4. ParserShape(input, pos', limit', depth', frames')
    BY <1>1, <1>2, <1>3, StayShape
  <1>5. Rest(input, LevelsOf(frames', limit'), Len(frames'), pos') <=>
            Rest(input, LevelsOf(frames, limit), Len(frames), pos)
    BY <1>1 DEF Levels
  <1>6. Kept(skipper, input, pos', parsed', saved')
    BY <1>1
  <1> QED
    BY <1>1, <1>2, <1>4, <1>5, <1>6, GoesOn

LEMMA ValueStep ==
    ASSUME ParserInv, ReadPrimitive \/ SkipUnknownEnum \/ SkipValue
    PROVE  ParserInv'
  <1>1. Running /\ pos < limit /\ Token.k = "value"
    BY DEF ReadPrimitive, SkipUnknownEnum, SkipValue, Reads
  <1>2. /\ Ahead(input, Levels, Len(frames), pos) /\ Token = input[pos] /\ Token \in Tokens
        /\ pos \in Nat /\ limit \in Nat
    BY <1>1, ReadFacts
  <1>3. Rest(input, Levels, Len(frames), pos) <=> Rest(input, Levels, Len(frames), pos + 1)
    BY <1>1, <1>2, RestOfValue
  <1>4. 1 \in Nat /\ pos + 1 <= limit /\ pos .. (pos + 1 - 1) = {pos}
    BY <1>1, <1>2
  <1>5. CASE ReadPrimitive
    <2>1. Consume(1, TRUE, << >>)
      BY <1>5 DEF ReadPrimitive
    <2>2. parsed' = parsed \cup {pos} /\ saved' = saved \o << >>
      BY <1>4, <2>1 DEF Consume
    <2>3. Kept(skipper, input, pos + 1, parsed', saved')
      BY <1>1, <2>2, SavedNothing, KeptField
    <2> QED
      BY <1>1, <1>3, <1>4, <2>1, <2>3, ConsumeStep, Zenon
  <1>6. ASSUME NEW s \in SaveSet, Same(skipper, s, Token), Consume(1, FALSE, <<s>>)
        PROVE  ParserInv'
    <2>1. parsed' = parsed /\ saved' = saved \o <<s>>
      BY <1>6 DEF Consume
    <2>2. Kept(skipper, input, pos + 1, parsed', saved')
      BY <1>1, <1>6, <2>1, KeptOne
    <2> QED
      BY <1>1, <1>3, <1>4, <1>6, <2>2, ConsumeStep, Zenon
  <1>7. CASE SkipUnknownEnum
    <2> DEFINE s == IF skipper = "set" THEN Token ELSE [Token EXCEPT !.k = "number"]
    <2>1. Consume(1, FALSE, <<s>>) /\ Token.f = Enum
      BY <1>7 DEF SkipUnknownEnum
    <2>2. s \in SaveSet
      BY <1>2 DEF SaveSet
    <2>3. skipper = "set" \/ skipper = "coded"
      BY DEF ParserInv
    <2>4. Same(skipper, s, Token)
      BY <1>1, <2>1, <2>3 DEF Same
    <2> QED
      BY <1>6, <2>1, <2>2, <2>4
  <1>8. CASE SkipValue
    <2>1. Consume(1, FALSE, <<Token>>)
      BY <1>8 DEF SkipValue
    <2> QED
      BY <1>1, <1>6, <2>1, TokenSame
  <1> QED
    BY <1>5, <1>7, <1>8

LEMMA SubSeqFacts ==
    ASSUME NEW S, NEW T, S \subseteq T, NEW s \in Seq(S),
           NEW i \in 1 .. Len(s), NEW j \in 1 .. Len(s), i <= j
    PROVE  /\ SubSeq(s, i, j) \in Seq(T) /\ Len(SubSeq(s, i, j)) = j - i + 1
           /\ \A x \in 1 .. Len(SubSeq(s, i, j)) : SubSeq(s, i, j)[x] = s[i + x - 1]
  OBVIOUS

LEMMA SkipBytesStep ==
    ASSUME ParserInv, SkipBytes
    PROVE  ParserInv'
  <1> DEFINE n == Token.n
             after == pos + 1 + n
             save == SubSeq(input, pos, after - 1)
  <1>1. /\ Running /\ pos < limit /\ Token.k = "len" /\ ~(Merging /\ Token.f = Sub)
        /\ IF after > limit THEN Reject ELSE Consume(1 + n, FALSE, save)
    BY DEF SkipBytes, Reads
  <1>2. /\ Ahead(input, Levels, Len(frames), pos) /\ Token = input[pos] /\ n \in Nat
        /\ pos \in Nat \ {0} /\ limit \in Nat /\ limit <= Len(input) + 1 /\ Len(input) \in Nat
        /\ Known(Levels, Len(frames)) <=> Merging
        /\ Levels[Len(frames)].end = limit /\ input \in Encodings
        /\ Kept(skipper, input, pos, parsed, saved)
    BY <1>1, ReadFacts
  <1>3. Rest(input, Levels, Len(frames), pos) <=>
            after <= limit /\ Rest(input, Levels, Len(frames), after)
    BY <1>1, <1>2, RestOfBytes
  <1>4. CASE after > limit
    <2>1. ~(after <= limit)
      BY <1>2, <1>4
    <2> QED
      BY <1>1, <1>3, <1>4, <2>1, RejectStep
  <1>5. CASE ~(after > limit)
    <2>1. /\ 1 + n \in Nat /\ pos + (1 + n) = after /\ after <= limit
          /\ pos \in 1 .. Len(input) /\ after - 1 \in 1 .. Len(input)
      BY <1>1, <1>2, <1>5
    <2> HIDE DEF after
    <2>2. /\ \A i \in 1 .. Len(input) : input[i] \in Tokens
          /\ input \in Seq(Tokens) /\ Tokens \subseteq SaveSet
      BY <1>2 DEF Encodings, SaveSet
    <2>3. /\ save \in Seq(SaveSet) /\ Len(save) = 1 + n
          /\ \A i \in 1 .. Len(save) : save[i] = input[pos + i - 1]
      <3> DEFINE last == after - 1
      <3>1. /\ pos \in 1 .. Len(input) /\ last \in 1 .. Len(input)
            /\ pos <= last /\ last - pos + 1 = 1 + n
        BY <1>2, <2>1
      <3> HIDE DEF last, n
      <3> QED
        BY <2>2, <3>1, SubSeqFacts DEF last
    <2> HIDE DEF save
    <2>4. \A i \in 1 .. Len(save) : Same(skipper, save[i], input[pos + i - 1])
      BY <2>3, Zenon DEF Same
    <2>5. parsed' = parsed /\ saved' = saved \o save /\ Consume(1 + n, FALSE, save)
      BY <1>1, <1>5 DEF Consume
    <2>6. Kept(skipper, input, after, parsed, saved \o save)
      BY <1>2, <2>1, <2>3, <2>4, KeptMore
    <2> HIDE DEF n
    <2>7. Kept(skipper, input, pos + (1 + n), parsed', saved')
      BY <2>1, <2>5, <2>6
    <2>8. Rest(input, Levels, Len(frames), pos) <=> Rest(input, Levels, Len(frames), pos + (1 + n))
      BY <1>3, <2>1
    <2> QED
      BY <1>1, <2>1, <2>5, <2>7, <2>8, ConsumeStep
  <1> QED
    BY <1>4, <1>5

-----------------------------------------------------------------------------
(* A call that returns. *)
LEMMA PopStep ==
    ASSUME ParserInv, Running, Len(frames) > 1, NEW save, Pop(Last(frames).limit, FALSE, save),
           pos' \in pos .. limit,
           Rest(input, Levels, Len(frames), pos) <=> Rest(input, Levels, Len(frames) - 1, pos'),
           Kept(skipper, input, pos', parsed', saved')
    PROVE  ParserInv'
  <1> DEFINE b == Last(frames).limit
             m == Len(frames) - 1
             lw == LevelsOf(Front(frames), b)
  <1>1. /\ frames' = Front(frames) /\ depth' = depth - 1 /\ limit' = b /\ legit' = FALSE
        /\ given' = given /\ result' = result
    BY DEF Pop
  <1>2. /\ ParserShape(input, pos, limit, depth, frames)
        /\ input \in Encodings /\ frames \in Seq(Frames) /\ Len(frames) \in Nat
        /\ b = frames[Len(frames)].limit
    BY ReadFacts
  <1>3. ParserShape(input, pos', limit, depth, frames)
    BY <1>2, StayShape
  <1> HIDE DEF b
  <1>4. ParserShape(input, pos', b, depth - 1, Front(frames))
    BY <1>3, PopShape DEF b
  <1>5. Len(Front(frames)) = m /\ \A x \in 1 .. m : lw[x] = Levels[x]
    BY <1>2, PopLevels DEF Levels
  <1>6. Rest(input, lw, m, pos') <=> Rest(input, Levels, m, pos')
    <2>1. m \in Nat \ {0}
      BY <1>2
    <2> HIDE DEF lw, m
    <2> QED
      BY <1>2, <1>5, <2>1, RestAlike
  <1>7. Rest(input, LevelsOf(frames', limit'), Len(frames'), pos') <=>
            Rest(input, LevelsOf(frames, limit), Len(frames), pos)
    BY <1>1, <1>5, <1>6 DEF Levels
  <1>8. ParserShape(input, pos', limit', depth', frames')
    BY <1>1, <1>4
  <1> QED
    BY <1>1, <1>7, <1>8, GoesOn

LEMMA EndOfMessageStep ==
    ASSUME ParserInv, EndOfMessage
    PROVE  ParserInv'
  <1> DEFINE frame == Last(frames)
             m == Len(frames)
  <1>1. /\ Running /\ pos = limit /\ Returns(None, TRUE) /\ pos' = pos /\ parsed' = parsed
    BY DEF EndOfMessage
  <1>2. /\ input \in Encodings /\ m \in Nat \ {0} /\ Stacked(input, Levels, m)
        /\ Levels[m].end = limit /\ Levels[m].call = frame.call
        /\ Fields(input) <=> Rest(input, Levels, m, pos)
        /\ Kept(skipper, input, pos, parsed, saved)
        /\ ParserShape(input, pos, limit, depth, frames)
        /\ pos \in pos .. limit
        /\ m = 1 => frame.call = "message" /\ limit = Len(input) + 1
    BY <1>1, ReadFacts
  <1>3. Rest(input, Levels, m, pos) <=>
            m = 1 \/ (frame.call = "message" /\ Rest(input, Levels, m - 1, pos))
    <2>1. Rest(input, Levels, m, Levels[m].end) <=>
              m = 1 \/ (Levels[m].call = "message" /\ Rest(input, Levels, m - 1, Levels[m].end))
      BY <1>2, RestAtLimit, Zenon
    <2> QED
      BY <1>1, <1>2, <2>1
  <1>4. CASE m = 1
    <2>1. /\ result' = "true" /\ legit' = TRUE
          /\ given' = given /\ limit' = limit /\ depth' = depth /\ frames' = frames /\ saved' = saved
      BY <1>1, <1>4 DEF Returns
    <2>2. input' = input /\ skipper' = skipper /\ skipper \in {"set", "coded"}
      BY <2>1 DEF given, ParserInv
    <2>3. Fields(input)
      BY <1>2, <1>3, <1>4
    <2>4. Verdict'
      BY <2>1, <2>2, <2>3 DEF Verdict, Running
    <2>5. Saves'
      <3>1. Kept(skipper', input', pos', parsed', saved') /\ pos' = Len(input') + 1
        BY <1>1, <1>2, <1>4, <2>1, <2>2
      <3> QED
        BY <3>1 DEF Saves
    <2>6. ParserShape(input, pos, limit, depth, frames)'
      BY <1>1, <1>2, <2>1, <2>2
    <2> QED
      BY <2>1, <2>2, <2>4, <2>5, <2>6 DEF ParserInv
  <1>5. CASE m # 1 /\ frame.call = "message"
    <2>1. Pop(frame.limit, FALSE, << >>)
      BY <1>1, <1>5 DEF Returns, EndedWell
    <2>2. saved' = saved
      BY <1>1, <2>1, SavedNothing DEF Pop
    <2>3. Kept(skipper, input, pos', parsed', saved')
      BY <1>1, <1>2, <2>2
    <2>4. m > 1
      <3>1. m \in Nat \ {0} /\ m # 1
        BY <1>2, <1>5
      <3> HIDE DEF m
      <3> QED
        BY <3>1
    <2> QED
      BY <1>1, <1>2, <1>3, <1>5, <2>1, <2>3, <2>4, PopStep
  <1>6. CASE m # 1 /\ frame.call # "message"
    <2>1. None # EndTag(frame.f)
      BY EndTagKind
    <2>2. /\ result' = "false" /\ legit' = TRUE
          /\ given' = given /\ limit' = limit /\ depth' = depth /\ frames' = frames
      BY <1>1, <1>6, <2>1 DEF Returns, EndedWell
    <2>3. ~Fields(input)
      BY <1>2, <1>3, <1>6
    <2>4. ParserShape(input, pos', limit', depth', frames') /\ legit' \in BOOLEAN
      BY <1>1, <1>2, <2>2
    <2> QED
      BY <2>2, <2>3, <2>4, Rejected
  <1> QED
    BY <1>4, <1>5, <1>6

LEMMA EndGroupStep ==
    ASSUME ParserInv, EndGroup
    PROVE  ParserInv'
  <1> DEFINE frame == Last(frames)
             m == Len(frames)
             tag == IF Token.k = "end" THEN Token ELSE None
  <1>1. /\ Running /\ pos < limit /\ Token.k \in {"end", "zero"} /\ Returns(tag, legit)
        /\ pos' = pos + 1 /\ parsed' = IF Merging THEN parsed \cup {pos} ELSE parsed
    BY DEF EndGroup, Reads
  <1>2. /\ Ahead(input, Levels, m, pos) /\ Token = input[pos]
        /\ input \in Encodings /\ m \in Nat \ {0}
        /\ Levels[m].f = frame.f /\ Levels[m].call = frame.call
        /\ Fields(input) <=> Rest(input, Levels, m, pos)
        /\ ParserShape(input, pos, limit, depth, frames)
        /\ legit = FALSE /\ pos \in Nat /\ limit \in Nat
        /\ m = 1 => frame.call = "message"
    BY <1>1, ReadFacts
  <1>3. Rest(input, Levels, m, pos) <=>
            /\ m > 1 /\ frame.call # "message" /\ Token = EndTag(frame.f)
            /\ Rest(input, Levels, m - 1, pos + 1)
    BY <1>1, <1>2, RestOfEnd
  <1>4. tag = EndTag(frame.f) <=> Token = EndTag(frame.f)
    BY EndTagKind
  <1>5. pos' \in pos .. limit /\ ParserShape(input, pos', limit, depth, frames)
    <2>1. pos' \in pos .. limit
      BY <1>1, <1>2
    <2> QED
      BY <1>2, <2>1, StayShape
  <1>6. CASE frame.call = "message" \/ Token # EndTag(frame.f)
    <2> HIDE DEF tag
    <2>1. m = 1 \/ ~EndedWell(frame, tag, legit)
      BY <1>2, <1>4, <1>6 DEF EndedWell
    <2>2. /\ result' = "false" /\ legit' = FALSE
          /\ given' = given /\ limit' = limit /\ depth' = depth /\ frames' = frames
      BY <1>1, <1>2, <2>1 DEF Returns
    <2>3. ~Fields(input)
      BY <1>2, <1>3, <1>6
    <2>4. ParserShape(input, pos', limit', depth', frames') /\ legit' \in BOOLEAN
      BY <1>5, <2>2
    <2> QED
      BY <2>2, <2>3, <2>4, Rejected
  <1>7. CASE frame.call # "message" /\ Token = EndTag(frame.f)
    <2> DEFINE save == IF frame.call = "skip" THEN <<Token>> ELSE << >>
    <2>1. m # 1 /\ m > 1
      <3>1. m \in Nat \ {0} /\ m # 1
        BY <1>2, <1>7
      <3> HIDE DEF m
      <3> QED
        BY <3>1
    <2>2. tag = Token
      BY <1>7, EndTagKind
    <2> HIDE DEF tag
    <2>3. EndedWell(frame, tag, legit)
      BY <1>4, <1>7 DEF EndedWell
    <2>4. Pop(frame.limit, FALSE, save)
      <3>1. Pop(frame.limit, frame.call # "message" /\ legit, save)
        BY <1>1, <2>1, <2>2, <2>3 DEF Returns
      <3>2. (frame.call # "message" /\ legit) = FALSE
        BY <1>2
      <3> QED
        BY <3>1, <3>2
    <2>5. saved' = saved \o save
      BY <2>4 DEF Pop
    <2>6. Kept(skipper, input, pos', parsed', saved')
      <3>1. CASE frame.call = "skip"
        <4>1. ~Merging /\ save = <<Token>>
          BY <3>1 DEF Merging
        <4> QED
          BY <1>1, <2>5, <4>1, TokenSame, KeptOne
      <3>2. CASE frame.call # "skip"
        <4>1. Merging /\ save = << >>
          BY <3>2 DEF Merging
        <4> QED
          BY <1>1, <2>5, <4>1, SavedNothing, KeptField
      <3> QED
        BY <3>1, <3>2
    <2>7. Rest(input, Levels, m, pos) <=> Rest(input, Levels, m - 1, pos')
      BY <1>1, <1>3, <1>7, <2>1, <2>2, <2>3
    <2> QED
      BY <1>1, <1>5, <2>1, <2>2, <2>3, <2>4, <2>6, <2>7, PopStep
  <1> QED
    BY <1>6, <1>7

-----------------------------------------------------------------------------
LEMMA ParserStepFacts ==
    ASSUME ParserInv, [ParserNext]_parserVars
    PROVE  ParserInv'
  <1>1. CASE ReadMessage \/ ReadGroup \/ SkipGroup
    BY <1>1, ReadMessageStep, ReadGroupStep, SkipGroupStep
  <1>2. CASE ReadPrimitive \/ SkipUnknownEnum \/ SkipValue
    BY <1>2, ValueStep
  <1>3. CASE SkipBytes
    BY <1>3, SkipBytesStep
  <1>4. CASE EndOfMessage
    BY <1>4, EndOfMessageStep
  <1>5. CASE EndGroup
    BY <1>5, EndGroupStep
  <1>6. CASE UNCHANGED parserVars
    <2>1. /\ skipper' = skipper /\ input' = input /\ pos' = pos /\ limit' = limit
          /\ depth' = depth /\ frames' = frames /\ legit' = legit /\ saved' = saved
          /\ parsed' = parsed /\ result' = result
      BY <1>6 DEF parserVars, given
    <2> QED
      BY <2>1 DEF ParserInv, Verdict, Saves, Levels, Running
  <1> QED
    BY <1>1, <1>2, <1>3, <1>4, <1>5, <1>6 DEF ParserNext

LEMMA ParserInvariance == ParserSpec => []ParserInv
  BY ParserInitFacts, ParserStepFacts, PTL DEF ParserSpec

LEMMA ParserInvTypes ==
    ASSUME ParserInv
    PROVE  ParserTypeOK
  <1>1. /\ skipper \in {"set", "coded"} /\ legit \in BOOLEAN /\ result \in {"none", "true", "false"}
        /\ ParserShape(input, pos, limit, depth, frames)
    BY DEF ParserInv
  <1>2. /\ pos \in 1 .. (Len(input) + 1) /\ limit \in pos .. (Len(input) + 1)
        /\ depth = Len(frames) - 1 /\ depth \in 0 .. RecursionLimit
    BY <1>1 DEF ParserShape
  <1> QED
    BY <1>1, <1>2 DEF ParserTypeOK

(* AcceptsExactly: ParseFromArray, MergePartialFromCodedStream and the calls it recurses      *)
(* through accept an input of any length, nested to any depth, exactly when it is a sequence  *)
(* of fields, with submessages cut by the message around them, and nothing nested too deep.   *)
THEOREM ParserAcceptsExactly == ParserSpec => []AcceptsExactly
  <1>1. ParserInv => AcceptsExactly
    BY ParserInvTypes DEF ParserInv, AcceptsExactly, Verdict
  <1> QED
    BY <1>1, ParserInvariance, PTL

(* SavedVerbatim: the unknown fields of an accepted message, as the skipper has saved them,   *)
(* are the tokens no field was set from, all of them, once each and in order.                 *)
THEOREM ParserSavesVerbatim == ParserSpec => []SavedVerbatim
  <1>1. ParserInv => SavedVerbatim
    <2> SUFFICES ASSUME ParserInv, result = "true"
                 PROVE  \E at \in [1 .. Len(saved) -> 1 .. Len(input)] :
                            /\ \A i, j \in 1 .. Len(saved) : i < j => at[i] < at[j]
                            /\ {at[i] : i \in 1 .. Len(saved)} = (1 .. Len(input)) \ parsed
                            /\ \A i \in 1 .. Len(saved) : Verbatim(saved[i], input[at[i]])
      BY Zenon DEF SavedVerbatim
    <2>1. Kept(skipper, input, pos, parsed, saved) /\ pos = Len(input) + 1
      BY DEF ParserInv, Saves
    <2>2. Len(input) \in Nat
      BY ShapeFacts DEF ParserInv
    <2>3. pos - 1 = Len(input)
      BY <2>1, <2>2
    <2>4. PICK at \in [1 .. Len(saved) -> 1 .. (pos - 1)] :
              /\ \A i, j \in 1 .. Len(saved) : i < j => at[i] < at[j]
              /\ {at[i] : i \in 1 .. Len(saved)} = (1 .. (pos - 1)) \ parsed
              /\ \A i \in 1 .. Len(saved) : Same(skipper, saved[i], input[at[i]])
      BY <2>1, Zenon DEF Kept
    <2>5. \A i \in 1 .. Len(saved) : Verbatim(saved[i], input[at[i]])
      BY <2>4, Zenon DEF Same, Verbatim
    <2>6. /\ at \in [1 .. Len(saved) -> 1 .. Len(input)]
          /\ {at[i] : i \in 1 .. Len(saved)} = (1 .. Len(input)) \ parsed
      BY <2>3, <2>4
    <2> QED
      BY <2>4, <2>5, <2>6, Zenon
  <1> QED
    BY <1>1, ParserInvariance, PTL
=============================================================================
