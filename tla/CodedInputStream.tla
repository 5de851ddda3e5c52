-------------------------- MODULE CodedInputStream --------------------------
(***************************************************************************)
(* CodedInputStream (io/coded_stream.cc), the decoder every protobuf parse *)
(* goes through, over a ZeroCopyInputStream that hands out its bytes in    *)
(* chunks of any size, or over a flat array.  Bytes are their positions in *)
(* the stream; of their values only the bit that continues a varint        *)
(* matters.  A read that crosses buffers is one step per buffer, or per    *)
(* byte of a varint.                                                       *)
(***************************************************************************)
EXTENDS Integers, Sequences, SequencesExt

CONSTANTS Length,        \* bytes in the underlying stream
          IntMax,        \* kint32max
          MaxVarint,     \* kMaxVarintBytes
          MaxChunk,      \* bound: bytes one Next() returns
          Counts,        \* the arguments of reads, skips and PushLimit
          TotalLimits,   \* the arguments of SetTotalBytesLimit
          DefaultTotalBytesLimit,
          FlatSizes,     \* the sizes of the flat arrays read
          Continued,     \* the choices of positions that continue a varint
          MaxPushed      \* bound: limits pushed at a time

ASSUME StreamAssumption ==
    /\ {Length, IntMax, DefaultTotalBytesLimit, MaxPushed} \subseteq Nat
    /\ {MaxVarint, MaxChunk} \subseteq Nat \ {0}
    /\ Counts \subseteq -(IntMax + 1) .. IntMax
    /\ TotalLimits \subseteq -(IntMax + 1) .. IntMax
    /\ DefaultTotalBytesLimit <= IntMax
    \* An array is the beginning of the stream.  The constructor does not apply
    \* the default limit to it; those of the two programs are far below it.
    /\ \A n \in FlatSizes : n \in Nat /\ n <= Length /\ n <= DefaultTotalBytesLimit

VARIABLES
    cis,      \* the members of the CodedInputStream
    inp,      \* the ZeroCopyInputStream: position, size of the last Next()
    flat,     \* whether input_ is NULL
    cont,     \* the positions of bytes that continue a varint
    call,     \* the method being executed
    limits,   \* the Limit values the callers of PushLimit keep, last on top
    done      \* history: the last method that returned, and its result

vars == <<cis, inp, flat, cont, call, limits, done>>

NULL == -1
Lesser(a, b)  == IF a < b THEN a ELSE b
Greater(a, b) == IF a > b THEN a ELSE b

BufferSize(c)      == c.buffer_end - c.buffer
CurrentPosition(c) == c.total_bytes_read - (BufferSize(c) + c.buffer_size_after_limit)
ClosestLimit(c)    == Lesser(c.current_limit, c.total_bytes_limit)
Advance(c, n)      == [c EXCEPT !.buffer = @ + n]

Members(buffer, size, limit) ==
    [buffer |-> buffer, buffer_end |-> buffer + size, total_bytes_read |-> size,
     overflow_bytes |-> 0, current_limit |-> limit, buffer_size_after_limit |-> 0,
     total_bytes_limit |-> DefaultTotalBytesLimit,
     legitimate_message_end |-> FALSE, last_tag |-> 0]

RecomputeBufferLimits(c) ==
    LET after == Greater(0, c.total_bytes_read - ClosestLimit(c))
    IN  [c EXCEPT !.buffer_end = @ + c.buffer_size_after_limit - after,
                  !.buffer_size_after_limit = after]

-----------------------------------------------------------------------------
(* Refresh().                                                              *)

HitLimit(c) == \/ c.buffer_size_after_limit > 0
               \/ c.overflow_bytes > 0
               \/ c.total_bytes_read = c.current_limit

(* Mutant: the count of bytes read is not kept below INT_MAX. *)
RefreshedUnclamped(c, n) ==
    RecomputeBufferLimits([c EXCEPT !.buffer = inp.pos, !.buffer_end = inp.pos + n,
                                    !.total_bytes_read = @ + n])

(* The members after Next() returned n bytes; those beyond INT_MAX are kept *)
(* out of the buffer and counted apart.                                     *)
Refreshed(c, n) ==
    LET over == Greater(0, c.total_bytes_read - (IntMax - n))
    IN  RecomputeBufferLimits([c EXCEPT !.buffer = inp.pos, !.buffer_end = inp.pos + n - over,
                                        !.total_bytes_read = @ + n - over,
                                        !.overflow_bytes = over])

Crash == [op |-> "crash", from |-> 0, n |-> 0]

(* A stream at a limit stops without asking its input; a flat one has none  *)
(* to ask.  bad are the members left by a failure, yes and no what is       *)
(* executed next.                                                           *)
Refresh(c, bad, yes, no) ==
    \/ /\ HitLimit(c)
       /\ cis' = bad /\ call' = no /\ UNCHANGED inp
    \/ /\ ~HitLimit(c) /\ flat
       /\ cis' = c /\ call' = Crash /\ UNCHANGED inp
    \/ /\ ~HitLimit(c) /\ ~flat /\ inp.pos = Length
       /\ cis' = [bad EXCEPT !.buffer = NULL, !.buffer_end = NULL]
       /\ call' = no /\ inp' = [inp EXCEPT !.last = 0]
    \/ /\ ~HitLimit(c) /\ ~flat
       /\ \E n \in 1 .. Lesser(MaxChunk, Length - inp.pos) :
              cis' = Refreshed(c, n) /\ inp' = [pos |-> inp.pos + n, last |-> n]
       /\ call' = yes

-----------------------------------------------------------------------------
(* Calling and returning.                                                  *)

Idle == [op |-> "none", from |-> 0, n |-> 0]
Calls(op) == call.op = op
Starts(op, n) == [op |-> op, from |-> CurrentPosition(cis), n |-> n]
Returned(name, n, ok) == done' = [op |-> [name |-> name, n |-> n], ok |-> ok]

(* A call that ends within the step.                                        *)
Return(c, name, n, ok) == cis' = c /\ call' = Idle /\ Returned(name, n, ok) /\ UNCHANGED inp

others == <<flat, cont, limits>>

(* CodedInputStream(input), which refreshes eagerly, or of a flat array.    *)
Init ==
    /\ cont \in Continued
    /\ limits = << >> /\ call = Idle
    /\ done = [op |-> [name |-> "new", n |-> 0], ok |-> TRUE]
    /\ \/ /\ flat = TRUE
          /\ inp = [pos |-> 0, last |-> 0]
          /\ \E size \in FlatSizes : cis = Members(0, size, size)
       \/ /\ flat = FALSE
          /\ \/ /\ Length = 0
                /\ inp = [pos |-> 0, last |-> 0] /\ cis = Members(NULL, 0, IntMax)
             \/ \E n \in 1 .. Lesser(MaxChunk, Length) :
                    LET over == Greater(0, n - IntMax)
                    IN  /\ inp = [pos |-> n, last |-> n]
                        /\ cis = RecomputeBufferLimits(
                                     [Members(0, n - over, IntMax) EXCEPT !.overflow_bytes = over])

(* ReadRaw, ReadString, ReadLittleEndian: a loop over the buffers.          *)
ReadString(n) ==
    /\ Calls("none")
    /\ IF n < 0 THEN Return(cis, "read", n, FALSE)
       ELSE call' = Starts("read", n) /\ UNCHANGED <<cis, inp, done>>
    /\ UNCHANGED others

(* What was asked for, and how much of it the loop has still to read.       *)
Asked == call.n + (CurrentPosition(cis) - call.from)

ReadLoop ==
    /\ Calls("read")
    /\ \/ /\ BufferSize(cis) >= call.n
          /\ Return(Advance(cis, call.n), "read", Asked, TRUE)
       \/ /\ BufferSize(cis) < call.n
          /\ LET drained == Advance(cis, BufferSize(cis))
             IN  Refresh(drained, drained, [call EXCEPT !.n = @ - BufferSize(cis)], Idle)
          /\ IF call' = Idle THEN Returned("read", Asked, FALSE) ELSE UNCHANGED done
    /\ UNCHANGED others

(* Skip: past the buffer the input skips, as far as the limits allow.  When *)
(* the input ends first, the count of bytes read is wrong: the stream is    *)
(* broken and is only destroyed.                                            *)
SkipPastBuffer(n) ==
    LET count == n - BufferSize(cis)
        left  == ClosestLimit(cis) - cis.total_bytes_read
        taken == IF left < count THEN Greater(0, left) ELSE count
        lost  == inp.pos + taken > Length
    IN  /\ cis' = [cis EXCEPT !.buffer = NULL, !.buffer_end = NULL, !.total_bytes_read = @ + taken]
        /\ inp' = IF left < count /\ left <= 0 THEN inp
                  ELSE [pos |-> Lesser(Length, inp.pos + taken), last |-> 0]
        /\ call' = IF flat /\ taken > 0 THEN Crash
                   ELSE IF lost THEN [Idle EXCEPT !.op = "lost"] ELSE Idle
        /\ Returned("read", n, left >= count /\ ~lost)

Skip(n) ==
    /\ Calls("none")
    /\ IF n < 0 THEN Return(cis, "read", n, FALSE)
       ELSE IF n <= BufferSize(cis) THEN Return(Advance(cis, n), "read", n, TRUE)
       ELSE IF cis.buffer_size_after_limit > 0
       THEN Return(Advance(cis, BufferSize(cis)), "read", n, FALSE)
       ELSE SkipPastBuffer(n)
    /\ UNCHANGED others

GetDirectBufferPointer ==
    /\ Calls("none")
    /\ IF BufferSize(cis) # 0 THEN Return(cis, "peek", BufferSize(cis), TRUE)
       ELSE /\ Refresh(cis, cis, Idle, Idle)
            /\ Returned("peek", BufferSize(cis'), ~HitLimit(cis) /\ inp.pos < Length)
    /\ UNCHANGED others

-----------------------------------------------------------------------------
(* Varints and tags.                                                       *)

(* The loop over single bytes has steps of its own.                         *)
Slow == [varint |-> "varintSlow", tag |-> "tagSlow"]

(* The whole varint is known to lie in the buffer.                          *)
InBuffer(c) == \/ BufferSize(c) >= MaxVarint
               \/ BufferSize(c) > 0 /\ (c.buffer \notin cont \/ c.buffer_end - 1 \notin cont)

(* The lengths a varint at the buffer's position may have: at most one.     *)
Lengths(c) == {k \in 1 .. MaxVarint : /\ \A j \in 0 .. (k - 2) : c.buffer + j \in cont
                                      /\ c.buffer + k - 1 \notin cont}

(* ReadTag() also leaves what it returned in last_tag_; 0 is no tag.        *)
Tagged(c, name, tag) == IF name = "tag" THEN [c EXCEPT !.last_tag = tag] ELSE c

ReadVarint ==
    /\ Calls("none")
    /\ call' = Starts("varint", 0)
    /\ UNCHANGED <<cis, inp, done, others>>

(* ReadVarint64Fallback: the fast path, or byte by byte.                    *)
DecodeFromArray(name) ==
    /\ Calls(name)
    /\ IF ~InBuffer(cis)
       THEN call' = [call EXCEPT !.op = Slow[name]] /\ UNCHANGED <<cis, inp, done>>
       ELSE IF Lengths(cis) = {} THEN Return(Tagged(cis, name, 0), name, 0, FALSE)
       ELSE \E k \in Lengths(cis) : Return(Tagged(Advance(cis, k), name, 1), name, 0, TRUE)
    /\ UNCHANGED others

ReadVarint64Slow(name) ==
    /\ Calls(Slow[name])
    /\ \/ call.n = MaxVarint /\ Return(Tagged(cis, name, 0), name, 0, FALSE)
       \/ /\ call.n < MaxVarint /\ BufferSize(cis) = 0
          /\ Refresh(cis, Tagged(cis, name, 0), call, Idle)
          /\ IF call' = Idle THEN Returned(name, 0, FALSE) ELSE UNCHANGED done
       \/ /\ call.n < MaxVarint /\ BufferSize(cis) # 0
          /\ IF cis.buffer \in cont
             THEN cis' = Advance(cis, 1) /\ call' = [call EXCEPT !.n = @ + 1] /\ UNCHANGED <<inp, done>>
             ELSE Return(Tagged(Advance(cis, 1), name, 1), name, 0, TRUE)
    /\ UNCHANGED others

Ended(c, legitimate) == [c EXCEPT !.legitimate_message_end = legitimate, !.last_tag = 0]

(* What ReadTagSlow makes of a Refresh() that failed.                       *)
Legitimate(c) ==
    c.total_bytes_read - c.buffer_size_after_limit >= c.total_bytes_limit
        => c.current_limit = c.total_bytes_limit

(* ReadTag, ReadTagFallback and ReadTagSlow, up to the decoding.            *)
ReadTag ==
    /\ Calls("none")
    /\ IF BufferSize(cis) # 0
       THEN call' = Starts("tag", 0) /\ UNCHANGED <<cis, inp, done>>
       ELSE IF /\ cis.buffer_size_after_limit > 0 \/ cis.total_bytes_read = cis.current_limit
               /\ cis.total_bytes_read - cis.buffer_size_after_limit < cis.total_bytes_limit
       THEN Return(Ended(cis, TRUE), "end", 0, TRUE)
       ELSE /\ Refresh(cis, Ended(cis, Legitimate(cis)), Starts("tag", 0), Idle)
            /\ IF call' = Idle THEN Returned("end", 0, Legitimate(cis)) ELSE UNCHANGED done
    /\ UNCHANGED others

(* ExpectAtEnd returning true; returning false changes nothing.             *)
ExpectAtEnd ==
    /\ Calls("none")
    /\ BufferSize(cis) = 0
    /\ cis.buffer_size_after_limit # 0 \/ cis.total_bytes_read = cis.current_limit
    /\ Return(Ended(cis, TRUE), "atEnd", 0, TRUE)
    /\ UNCHANGED others

-----------------------------------------------------------------------------
(* Limits.                                                                 *)

(* Mutant: a limit further out than the one in force replaces it. *)
PushLimitWidens(n) ==
    /\ Calls("none") /\ Len(limits) < MaxPushed
    /\ limits' = Append(limits, cis.current_limit)
    /\ LET asked == IF n >= 0 /\ n <= IntMax - CurrentPosition(cis)
                    THEN CurrentPosition(cis) + n ELSE IntMax
       IN  cis' = RecomputeBufferLimits([cis EXCEPT !.current_limit = asked])
    /\ UNCHANGED <<inp, flat, cont, call, done>>

PushLimit(n) ==
    /\ Calls("none") /\ Len(limits) < MaxPushed
    /\ limits' = Append(limits, cis.current_limit)
    /\ LET asked == IF n >= 0 /\ n <= IntMax - CurrentPosition(cis)
                    THEN CurrentPosition(cis) + n ELSE IntMax
       IN  cis' = RecomputeBufferLimits([cis EXCEPT !.current_limit = Lesser(asked, @)])
    /\ UNCHANGED <<inp, flat, cont, call, done>>

PopLimit ==
    /\ Calls("none") /\ limits # << >>
    /\ limits' = Front(limits)
    /\ cis' = [RecomputeBufferLimits([cis EXCEPT !.current_limit = Last(limits)])
                   EXCEPT !.legitimate_message_end = FALSE]
    /\ UNCHANGED <<inp, flat, cont, call, done>>

SetTotalBytesLimit(n) ==
    /\ Calls("none")
    /\ cis' = RecomputeBufferLimits(
                  [cis EXCEPT !.total_bytes_limit = Greater(CurrentPosition(cis), n)])
    /\ UNCHANGED <<inp, flat, cont, call, limits, done>>

(* Mutant: the bytes behind a limit are not given back. *)
BackUpBufferOnly(c) == BufferSize(c) + c.overflow_bytes

BackUpBytes(c) == BufferSize(c) + c.buffer_size_after_limit + c.overflow_bytes

(* The destructor, BackUpInputToCurrentPosition.  BackUp() takes back at    *)
(* most what the last Next() returned, and nothing after a Skip().          *)
Destroy ==
    /\ Calls("none") \/ Calls("lost")
    /\ LET backup == IF flat THEN 0 ELSE BackUpBytes(cis)
           left   == [op |-> "destroyed", from |-> Lesser(CurrentPosition(cis), Length), n |-> 0]
       IN  IF backup = 0 THEN call' = left /\ UNCHANGED <<cis, inp>>
           ELSE /\ call' = IF backup <= inp.last THEN left ELSE Crash
                /\ inp' = [pos |-> inp.pos - backup, last |-> 0]
                /\ cis' = [cis EXCEPT !.total_bytes_read = @ - (BufferSize(cis) + cis.buffer_size_after_limit),
                                      !.buffer_end = cis.buffer,
                                      !.buffer_size_after_limit = 0, !.overflow_bytes = 0]
    /\ UNCHANGED <<flat, cont, limits, done>>

Next ==
    \/ \E n \in Counts : ReadString(n) \/ Skip(n) \/ PushLimit(n)
    \/ ReadLoop
    \/ ReadVarint \/ ReadTag
    \/ \E name \in {"varint", "tag"} : DecodeFromArray(name) \/ ReadVarint64Slow(name)
    \/ GetDirectBufferPointer \/ ExpectAtEnd
    \/ PopLimit
    \/ \E n \in TotalLimits : SetTotalBytesLimit(n)
    \/ Destroy

Spec == Init /\ [][Next]_vars

-----------------------------------------------------------------------------
Working == {"read", "varint", "tag", "varintSlow", "tagSlow"}

CodedInputStreams ==
    [buffer : -1 .. Length, buffer_end : -1 .. Length,
     total_bytes_read : 0 .. IntMax, overflow_bytes : 0 .. MaxChunk,
     current_limit : 0 .. IntMax, buffer_size_after_limit : 0 .. Length,
     total_bytes_limit : 0 .. IntMax,
     legitimate_message_end : BOOLEAN, last_tag : {0, 1}]

(* Every counter stays an int: total_bytes_read_ does not pass INT_MAX,      *)
(* however much the input returns, and no size is negative.                 *)
TypeOK ==
    /\ cis \in CodedInputStreams
    /\ inp.pos \in 0 .. Length /\ inp.last \in 0 .. MaxChunk
    /\ call.op \in Working \cup {"none", "lost", "destroyed", "crash"}

(* No method reaches past the buffer, calls a NULL input, or backs up over  *)
(* bytes the last Next() did not return; the counters and the pointers      *)
(* agree: the byte the buffer offers is the one at CurrentPosition(), and   *)
(* what was taken from the input is what the buffer, the bytes behind the   *)
(* limit and the overflow account for.                                      *)
PositionExact ==
    /\ TypeOK
    /\ ~Calls("crash") /\ BufferSize(cis) >= 0
    /\ call.op \in Working \cup {"none"} =>
          /\ BufferSize(cis) > 0 => cis.buffer = CurrentPosition(cis)
          /\ ~flat => cis.total_bytes_read + cis.overflow_bytes = inp.pos

(* Whatever was read, skipped, pushed or cut, the destructor leaves the     *)
(* input at the first unread byte.                                          *)
InputRepositioned == Calls("destroyed") /\ ~flat => inp.pos = call.from

(* The buffered stream implements the cursor with limits.                   *)
Cursor == INSTANCE LimitedReader WITH
    pos   <- IF call.op \in Working THEN call.from ELSE Lesser(CurrentPosition(cis), Length),
    stack <- LET all == Append(limits, cis.current_limit) IN IF flat THEN all ELSE Tail(all),
    total <- cis.total_bytes_limit
ImplementsLimitedReader == Cursor!Spec
=============================================================================
