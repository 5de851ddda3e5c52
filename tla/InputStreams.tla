---------------------------- MODULE InputStreams ----------------------------
(***************************************************************************)
(* The ZeroCopyInputStreams of io/zero_copy_stream_impl{,_lite}.cc put     *)
(* together: a ConcatenatingInputStream over ArrayInputStreams and         *)
(* FileInputStreams (a CopyingInputStreamAdaptor over a descriptor), read  *)
(* directly or through a LimitingInputStream made and destroyed on the     *)
(* way.  Bytes are their positions.  A read() returns any number of the    *)
(* bytes asked for, and may fail; lseek() fails on a pipe.                 *)
(***************************************************************************)
EXTENDS Integers, Sequences, FiniteSetsExt

CONSTANTS Leaves,      \* the streams concatenated: [kind, size, block]
          MaxOffset,   \* bound: how far behind its beginning a file is sought
          Counts       \* the arguments of Skip() and the limits

ASSUME LeavesAssumption ==
    /\ Leaves \in Seq([kind : {"array", "file", "pipe"}, size : Nat, block : Nat \ {0}])
    /\ MaxOffset \in Nat /\ Counts \subseteq Nat

VARIABLES
    streams,   \* the members of each stream concatenated
    concat,    \* the first stream not finished, bytes_retired_
    limiting,  \* limit_ and prior_bytes_read_, or none
    crashed,   \* a CHECK has failed
    last,      \* history: bytes the last Next() returned, if BackUp() may follow
    passed,    \* history: the first byte never delivered
    done       \* history: the last call and its result

vars == <<streams, concat, limiting, crashed, last, passed, done>>

Positions == 1 .. Len(Leaves)
Start(i) ==
    LET upto[j \in 0 .. Len(Leaves)] == IF j = 0 THEN 0 ELSE upto[j - 1] + Leaves[j].size
    IN  upto[i - 1]
Length == Start(Len(Leaves) + 1)

NoLimit == [on |-> FALSE, limit |-> 0, prior |-> 0]

Init ==
    /\ streams = [i \in Positions |->
           IF Leaves[i].kind = "array" THEN [position |-> 0, last_returned_size |-> 0]
           ELSE [position |-> 0, buffer |-> FALSE, buffer_used |-> 0, backup_bytes |-> 0,
                 failed |-> FALSE, offset |-> 0, previous_seek_failed |-> FALSE, errors |-> 0]]
    /\ concat = [first |-> 1, bytes_retired |-> 0]
    /\ limiting = NoLimit
    /\ crashed = FALSE /\ last = 0 /\ passed = 0
    /\ done = [op |-> "new", ok |-> TRUE, first |-> 0, n |-> 0]

(* What a call to one stream leads to: its members, its result, the         *)
(* position of the first byte returned, and how many were.                  *)
Gives(s, ok, first, n) == [s |-> s, ok |-> ok, first |-> first, n |-> n, crash |-> FALSE]
Fails(s) == Gives(s, FALSE, 0, 0)
Crashes(s) == [Fails(s) EXCEPT !.crash = TRUE]

-----------------------------------------------------------------------------
(* ArrayInputStream.                                                       *)

ArrayNext(i, s) ==
    IF s.position < Leaves[i].size
    THEN LET n == Min({Leaves[i].block, Leaves[i].size - s.position})
         IN  {Gives([position |-> s.position + n, last_returned_size |-> n], TRUE, s.position, n)}
    ELSE {Fails([s EXCEPT !.last_returned_size = 0])}

ArrayBackUp(s, n) ==
    IF s.last_returned_size > 0 /\ n <= s.last_returned_size
    THEN Gives([position |-> s.position - n, last_returned_size |-> 0], TRUE, 0, n)
    ELSE Crashes(s)

ArraySkip(i, s, n) ==
    IF n > Leaves[i].size - s.position
    THEN {Fails([position |-> Leaves[i].size, last_returned_size |-> 0])}
    ELSE {Gives([position |-> s.position + n, last_returned_size |-> 0], TRUE, 0, n)}

-----------------------------------------------------------------------------
(* FileInputStream: a CopyingInputStreamAdaptor over a descriptor.         *)

Available(i, s) == Max({0, Leaves[i].size - s.offset})

FreeBuffer(s) == [s EXCEPT !.buffer = FALSE, !.buffer_used = 0]
Error(s) == [s EXCEPT !.errors = 1]

(* Mutant: the bytes backed up over are returned from the buffer's start. *)
LeftoverFromStart(s) == s.offset - s.buffer_used

(* Where in the descriptor the bytes backed up over come from.              *)
Leftover(s) == s.offset - s.backup_bytes

(* Read(): -1, 0 at the end of the file, or some bytes.                     *)
AdaptorRead(i, s) ==
    {Fails(FreeBuffer([Error(s) EXCEPT !.failed = TRUE]))}
    \cup (IF Available(i, s) = 0 THEN {Fails(FreeBuffer(s))} ELSE {})
    \cup {Gives([s EXCEPT !.buffer = TRUE, !.buffer_used = n, !.position = @ + n, !.offset = @ + n],
                TRUE, s.offset, n) : n \in 1 .. Min({Leaves[i].block, Available(i, s)})}

AdaptorNext(i, s) ==
    IF s.failed THEN {Fails(s)}
    ELSE IF s.backup_bytes > 0
    THEN {Gives([s EXCEPT !.backup_bytes = 0], TRUE, Leftover(s), s.backup_bytes)}
    ELSE AdaptorRead(i, s)

AdaptorBackUp(s, n) ==
    IF s.backup_bytes = 0 /\ s.buffer /\ n <= s.buffer_used
    THEN Gives([s EXCEPT !.backup_bytes = n], TRUE, 0, n)
    ELSE Crashes(s)

(* Skip(): first what was backed up over, then by lseek(), which does not   *)
(* mind the end of the file, or by reading.                                 *)
AdaptorSkip(i, s, n) ==
    IF s.failed THEN {Fails(s)}
    ELSE IF s.backup_bytes >= n THEN {Gives([s EXCEPT !.backup_bytes = @ - n], TRUE, 0, n)}
    ELSE LET rest     == n - s.backup_bytes
             t        == [s EXCEPT !.backup_bytes = 0, !.previous_seek_failed = Leaves[i].kind = "pipe"]
             avail    == Min({rest, Available(i, s)})
             By(u, k) == Gives([u EXCEPT !.offset = @ + k, !.position = @ + k], k = rest, 0, 0)
         IN  IF Leaves[i].kind = "file" THEN {By(t, rest)}
             ELSE {By(t, avail)} \cup {By(Error(t), k) : k \in 0 .. Min({avail, rest - 1})}

-----------------------------------------------------------------------------
(* ConcatenatingInputStream.                                               *)

IsArray(i) == Leaves[i].kind = "array"

StreamByteCount(ss, i) ==
    IF IsArray(i) THEN ss[i].position ELSE ss[i].position - ss[i].backup_bytes

(* The state of a Next(), or of a Skip() of n bytes, as it goes from one    *)
(* stream to the next.                                                     *)
Asking(skip, n) ==
    [ss |-> streams, c |-> concat, r |-> Fails(0), skip |-> skip, n |-> n, over |-> FALSE]

(* That stream is done.  Advance to the next one.                           *)
Retire(a, ss) ==
    [a EXCEPT !.ss = ss, !.c.first = @ + 1,
              !.c.bytes_retired = @ + StreamByteCount(ss, a.c.first)]

Answer(a, ss, r) ==
    [a EXCEPT !.ss = ss, !.over = TRUE, !.r = [r EXCEPT !.first = @ + Start(a.c.first)]]

AskNext(a) ==
    LET i == a.c.first
    IN  {LET ss == [a.ss EXCEPT ![i] = r.s]
         IN  IF r.ok THEN Answer(a, ss, r) ELSE Retire(a, ss) :
             r \in IF IsArray(i) THEN ArrayNext(i, a.ss[i]) ELSE AdaptorNext(i, a.ss[i])}

(* How much of it a stream that came to its end skipped is told by its      *)
(* ByteCount(), which must have stayed below the target.                    *)
AskSkip(a) ==
    LET i == a.c.first
        before == StreamByteCount(a.ss, i)
    IN  {LET ss == [a.ss EXCEPT ![i] = r.s]
             left == before + a.n - StreamByteCount(ss, i)
         IN  IF r.ok THEN Answer(a, ss, r)
             ELSE [Retire(a, ss) EXCEPT !.n = left, !.over = left <= 0, !.r.crash = left <= 0] :
             r \in IF IsArray(i) THEN ArraySkip(i, a.ss[i], a.n) ELSE AdaptorSkip(i, a.ss[i], a.n)}

(* A turn of the loop.                                                     *)
Ask(a) ==
    IF a.over \/ a.c.first > Len(Leaves) THEN {a}
    ELSE IF a.skip THEN AskSkip(a) ELSE AskNext(a)

(* As many turns as there are streams.                                     *)
Loop(skip, n) ==
    LET turns[k \in 0 .. Len(Leaves)] ==
            IF k = 0 THEN {Asking(skip, n)} ELSE UNION {Ask(a) : a \in turns[k - 1]}
    IN  turns[Len(Leaves)]

ConcatNext == Loop(FALSE, 0)
ConcatSkip(n) == Loop(TRUE, n)

(* BackUp() goes to the stream that answered last.                          *)
ConcatBackUp(n) ==
    LET i == concat.first
        r == IF i > Len(Leaves) THEN Crashes(0)
             ELSE IF IsArray(i) THEN ArrayBackUp(streams[i], n) ELSE AdaptorBackUp(streams[i], n)
    IN  /\ crashed' = r.crash
        /\ streams' = IF r.crash THEN streams ELSE [streams EXCEPT ![i] = r.s]
        /\ UNCHANGED concat

ByteCount(ss, c) ==
    c.bytes_retired + IF c.first > Len(Leaves) THEN 0 ELSE StreamByteCount(ss, c.first)

-----------------------------------------------------------------------------
(* LimitingInputStream, or the concatenation itself.                       *)

Apply(a) == streams' = a.ss /\ concat' = a.c /\ crashed' = a.r.crash
Returns(op, ok, first, n) == done' = [op |-> op, ok |-> ok, first |-> first, n |-> n]

NothingNext == last' = 0 /\ Returns("next", FALSE, 0, 0) /\ UNCHANGED passed

(* What of n bytes a limit lets through.                                    *)
Hidden(n) == IF limiting.on THEN Min({n, limiting.limit}) ELSE n

NextChunk ==
    \/ /\ ~crashed
       /\ limiting.on /\ limiting.limit <= 0
       /\ NothingNext
       /\ UNCHANGED <<streams, concat, limiting, crashed>>
    \/ /\ ~crashed
       /\ ~(limiting.on /\ limiting.limit <= 0)
       /\ \E a \in ConcatNext :
              /\ Apply(a)
              /\ IF ~a.r.ok THEN NothingNext /\ UNCHANGED limiting
                 ELSE /\ limiting' = IF limiting.on THEN [limiting EXCEPT !.limit = @ - a.r.n] ELSE limiting
                      /\ last' = Hidden(a.r.n) /\ passed' = a.r.first + Hidden(a.r.n)
                      /\ Returns("next", TRUE, a.r.first, Hidden(a.r.n))

(* The bytes taken from the input and hidden behind the limit.              *)
Overshoot == IF limiting.on /\ limiting.limit < 0 THEN -limiting.limit ELSE 0

(* Mutant: the overshoot is backed up over and kept. *)
BackUpKeepsOvershoot(n) ==
    /\ ~crashed /\ done.op = "next" /\ done.ok /\ n <= last
    /\ ConcatBackUp(n + Overshoot)
    /\ limiting' = IF ~limiting.on THEN limiting ELSE [limiting EXCEPT !.limit = @ + n]
    /\ last' = 0 /\ passed' = passed - n
    /\ Returns("backUp", TRUE, 0, n)

(* The caller has just had last bytes from Next().                          *)
BackUp(n) ==
    /\ ~crashed /\ done.op = "next" /\ done.ok /\ n <= last
    /\ ConcatBackUp(n + Overshoot)
    /\ limiting' = IF ~limiting.on THEN limiting
                   ELSE [limiting EXCEPT !.limit = IF @ < 0 THEN n ELSE @ + n]
    /\ last' = 0 /\ passed' = passed - n
    /\ Returns("backUp", TRUE, 0, n)

Skip(n) ==
    /\ ~crashed
    /\ \A i \in Positions : ~IsArray(i) => streams[i].offset <= MaxOffset
    /\ last' = 0
    /\ IF limiting.on /\ n > limiting.limit
       THEN /\ IF limiting.limit < 0 THEN UNCHANGED <<streams, concat, limiting, crashed>>
               ELSE /\ \E a \in ConcatSkip(limiting.limit) : Apply(a)
                    /\ limiting' = [limiting EXCEPT !.limit = 0]
            /\ Returns("skip", FALSE, 0, n)
       ELSE \E a \in ConcatSkip(n) :
                /\ Apply(a)
                /\ limiting' = IF limiting.on /\ a.r.ok THEN [limiting EXCEPT !.limit = @ - n] ELSE limiting
                /\ Returns("skip", a.r.ok, 0, n)
    /\ UNCHANGED passed

Limit(n) ==
    /\ ~crashed /\ ~limiting.on
    /\ limiting' = [on |-> TRUE, limit |-> n, prior |-> ByteCount(streams, concat)]
    /\ last' = 0 /\ Returns("limit", TRUE, 0, n)
    /\ UNCHANGED <<streams, concat, crashed, passed>>

(* The destructor of the LimitingInputStream.                               *)
Unlimit ==
    /\ ~crashed /\ limiting.on
    /\ IF Overshoot > 0 THEN ConcatBackUp(Overshoot) ELSE UNCHANGED <<streams, concat, crashed>>
    /\ limiting' = NoLimit /\ last' = 0 /\ Returns("unlimit", TRUE, 0, 0)
    /\ UNCHANGED passed

Steps ==
    \/ NextChunk
    \/ \E n \in 0 .. last : BackUp(n)
    \/ \E n \in Counts : Skip(n) \/ Limit(n)
    \/ Unlimit

Spec == Init /\ [][Steps]_vars

-----------------------------------------------------------------------------
(* A stream's counters keep the bounds their comments give.                 *)
StreamOK(i, s) ==
    IF IsArray(i) THEN s.position \in 0 .. Leaves[i].size /\ s.last_returned_size \in 0 .. s.position
    ELSE /\ s.position = s.offset /\ s.offset \in Nat
         /\ s.buffer_used \in 0 .. Leaves[i].block /\ s.backup_bytes \in 0 .. s.buffer_used
         /\ s.backup_bytes > 0 => s.buffer

(* The streams' members stay in those bounds; only limit_ may be negative.  *)
TypeOK ==
    /\ \A i \in Positions : StreamOK(i, streams[i])
    /\ concat.first \in 1 .. (Len(Leaves) + 1) /\ concat.bytes_retired \in Nat
    /\ limiting.limit \in Int /\ limiting.prior \in Nat /\ limiting.on \in BOOLEAN
    /\ last \in Nat /\ passed \in Nat

(* No CHECK fails in a stream inside another: each is backed up only after  *)
(* a Next() of its own that succeeded, and over no more than that returned. *)
NoCheckFails == TypeOK /\ ~crashed

(* No read() has failed and no lseek() has gone past the end of its file.   *)
Undisturbed(ss) ==
    \A i \in Positions : ~IsArray(i) => ss[i].errors = 0 /\ ss[i].offset <= Leaves[i].size

(* Until then the streams put together are one stream over all the bytes,   *)
(* whatever is backed up over, skipped, limited and cut.                    *)
Whole == INSTANCE ZeroCopyInput WITH
    pos <- ByteCount(streams, concat) - Overshoot,
    end <- IF limiting.on THEN Min({Length, ByteCount(streams, concat) + limiting.limit}) ELSE Length
ImplementsZeroCopyInput == Whole!Init /\ [][Undisturbed(streams') => Whole!Steps]_vars

(* Whatever fails, no byte is delivered a second time or out of order.      *)
NothingTwice == [][done'.op = "next" /\ done'.ok => done'.first >= passed]_vars
=============================================================================
