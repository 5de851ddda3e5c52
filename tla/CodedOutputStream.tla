-------------------------- MODULE CodedOutputStream -------------------------
(***************************************************************************)
(* A message on its way to a file: CodedOutputStream (io/coded_stream.cc)  *)
(* writes into the buffer that a FileOutputStream's                        *)
(* CopyingOutputStreamAdaptor lends it, and the adaptor writes full        *)
(* buffers to the file descriptor.  Several coded streams follow each      *)
(* other over one file, as when messages are appended to it.  A byte is    *)
(* its number in the order the client wrote it; 0 is one nobody wrote.     *)
(* write() may fail at any time, after any part of the buffer.             *)
(***************************************************************************)
EXTENDS Integers, Sequences, SequencesExt

CONSTANTS BlockSize,     \* buffer_size_ of the adaptor
          MaxVarint,     \* kMaxVarint32Bytes
          Sizes,         \* the sizes of what the client writes or skips
          MaxBytes       \* bound: bytes the client writes

ASSUME OutputAssumption ==
    /\ {BlockSize, MaxVarint} \subseteq Nat \ {0}
    /\ Sizes \subseteq Int /\ MaxBytes \in Nat

VARIABLES
    cos,      \* the members of the CodedOutputStream, and whether it exists
    out,      \* the members of the CopyingOutputStreamAdaptor
    file,     \* what the descriptor received, whether it was closed
    call,     \* the loop being executed, and the bytes it has left
    asked,    \* history: bytes the client wrote or skipped, over all streams
    holes,    \* history: the ones it skipped
    begun,    \* history: asked when the coded stream was made, and whether
              \* the file had failed by then
    done      \* history: the last operation that returned, and its result

vars == <<cos, out, file, call, asked, holes, begun, done>>

NULL == << >>
Fresh == [i \in 1 .. BlockSize |-> 0]
NoStream == [live |-> FALSE, buffer |-> 0, buffer_size |-> 0, total_bytes |-> 0, had_error |-> FALSE]
Idle == [op |-> "none", n |-> 0]
Result(op, ok) == [op |-> op, ok |-> ok]

Init ==
    /\ cos = NoStream
    /\ out = [buffer |-> NULL, buffer_used |-> 0, position |-> 0, failed |-> FALSE]
    /\ file = [data |-> << >>, closed |-> FALSE]
    /\ call = Idle
    /\ asked = 0 /\ holes = {} /\ begun = [asked |-> 0, failed |-> FALSE]
    /\ done = Result("new", TRUE)

-----------------------------------------------------------------------------
(* FileOutputStream: the adaptor over the file descriptor.                 *)

Outcome(o, f, ok) == [out |-> o, file |-> f, ok |-> ok, crash |-> FALSE]
Crash == [op |-> "crash", n |-> 0]

FreeBuffer(o) == [o EXCEPT !.buffer_used = 0, !.buffer = NULL]

(* write() in a loop takes all of the bytes, or fails after some of them.   *)
Write(o) ==
    LET bytes   == SubSeq(o.buffer, 1, o.buffer_used)
        Took(k) == [file EXCEPT !.data = @ \o SubSeq(bytes, 1, k)]
    IN  {Outcome([o EXCEPT !.position = @ + Len(bytes), !.buffer_used = 0], Took(Len(bytes)), TRUE)}
            \cup {Outcome(FreeBuffer([o EXCEPT !.failed = TRUE]), Took(k), FALSE) :
                      k \in 0 .. (Len(bytes) - 1)}

(* Mutant: an earlier error does not keep the buffer from being written. *)
WriteBufferRetries(o) ==
    IF o.buffer_used = 0 THEN {Outcome(o, file, ~o.failed)} ELSE Write(o)

(* WriteBuffer(): writing to a closed descriptor is a CHECK failure.        *)
WriteBuffer(o) ==
    IF o.failed THEN {Outcome(o, file, FALSE)}
    ELSE IF o.buffer_used = 0 THEN {Outcome(o, file, TRUE)}
    ELSE IF file.closed THEN {[Outcome(o, file, FALSE) EXCEPT !.crash = TRUE]}
    ELSE Write(o)

(* AllocateBufferIfNeeded(), and the rest of the buffer is lent.            *)
Lend(o) == [o EXCEPT !.buffer = IF @ = NULL THEN Fresh ELSE @, !.buffer_used = BlockSize]

(* The offset of the buffer that Next() lends.                              *)
Lent(o) == IF o.buffer_used = BlockSize THEN 0 ELSE o.buffer_used

AdaptorNext(o) ==
    IF o.buffer_used = BlockSize
    THEN {IF r.ok THEN [r EXCEPT !.out = Lend(@)] ELSE r : r \in WriteBuffer(o)}
    ELSE {Outcome(Lend(o), file, TRUE)}

(* BackUp(count), and its CHECKs.                                           *)
BackUp(count) ==
    IF count >= 0 /\ out.buffer_used = BlockSize /\ count <= out.buffer_used
    THEN out' = [out EXCEPT !.buffer_used = @ - count] /\ UNCHANGED call
    ELSE call' = Crash /\ UNCHANGED out

ByteCountOfAdaptor == out.position + out.buffer_used

(* The client uses the file itself only while no coded stream holds its     *)
(* buffer.                                                                  *)
FileFree == call = Idle /\ ~cos.live /\ done.op # "destroy"

Finish(r, op, ok) ==
    /\ out' = r.out /\ file' = r.file
    /\ call' = IF r.crash THEN Crash ELSE Idle
    /\ done' = Result(op, ok)
    /\ UNCHANGED <<cos, asked, holes, begun>>

Flush ==
    /\ FileFree /\ ~file.closed
    /\ \E r \in WriteBuffer(out) : Finish(r, "flush", r.ok)

(* Mutant: the descriptor is closed with bytes still in the buffer. *)
CloseWithoutFlush ==
    /\ FileFree /\ ~file.closed
    /\ Finish(Outcome(out, [file EXCEPT !.closed = TRUE], FALSE), "close", FALSE)

(* Close(): the descriptor counts as closed even when close() fails.        *)
Close ==
    /\ FileFree /\ ~file.closed
    /\ \E r \in WriteBuffer(out), closed \in BOOLEAN :
           Finish([r EXCEPT !.file.closed = TRUE], "close", closed /\ r.ok)

(* ~FileOutputStream() flushes; the adaptor's destructor that follows finds *)
(* an empty buffer or an error.                                             *)
DestroyFile ==
    /\ FileFree
    /\ \E r \in WriteBuffer(out) : Finish(r, "destroy", r.ok)

-----------------------------------------------------------------------------
(* CodedOutputStream.                                                      *)

(* Refresh() from an adaptor o, one of whose outcomes is r.                 *)
Refreshed(c, o, r) ==
    IF r.ok THEN [c EXCEPT !.buffer = Lent(o), !.buffer_size = BlockSize - Lent(o),
                           !.total_bytes = @ + (BlockSize - Lent(o))]
    ELSE [c EXCEPT !.buffer = 0, !.buffer_size = 0, !.had_error = TRUE]

(* The constructor refreshes eagerly and forgets an error it meets.         *)
Construct ==
    /\ FileFree /\ ~file.closed
    /\ \E r \in AdaptorNext(out) :
           /\ cos' = [Refreshed([NoStream EXCEPT !.live = TRUE], out, r) EXCEPT !.had_error = FALSE]
           /\ out' = r.out /\ file' = r.file
           /\ begun' = [asked |-> asked, failed |-> r.out.failed]
    /\ done' = Result("construct", TRUE)
    /\ UNCHANGED <<call, asked, holes>>

Destroy ==
    /\ call = Idle /\ cos.live
    /\ IF cos.buffer_size > 0 THEN BackUp(cos.buffer_size) ELSE UNCHANGED <<out, call>>
    /\ cos' = NoStream /\ done' = Result("release", TRUE)
    /\ UNCHANGED <<file, asked, holes, begun>>

Advance(c, n) == [c EXCEPT !.buffer = @ + n, !.buffer_size = @ - n]

(* n bytes, numbered from k on, are copied to the buffer.                   *)
Copied(k, n) == [out EXCEPT !.buffer = [i \in DOMAIN @ |->
                    IF i - cos.buffer \in 1 .. n THEN k + (i - cos.buffer) - 1 ELSE @[i]]]

CanWrite(n) == call = Idle /\ cos.live /\ asked + n <= MaxBytes

(* WriteRaw, WriteString, WriteLittleEndian.                                *)
WriteRaw(n) ==
    /\ CanWrite(n) /\ n >= 0
    /\ call' = [op |-> "write", n |-> n] /\ done' = Result("write", FALSE)
    /\ asked' = asked + n
    /\ UNCHANGED <<cos, out, file, holes, begun>>

(* Skip leaves the bytes of the buffer as they are.                         *)
Skip(n) ==
    /\ CanWrite(n)
    /\ done' = Result("skip", FALSE)
    /\ IF n < 0 THEN UNCHANGED <<call, asked, holes>>
       ELSE /\ call' = [op |-> "skip", n |-> n]
            /\ asked' = asked + n
            /\ holes' = holes \cup (asked + 1 .. asked + n)
    /\ UNCHANGED <<cos, out, file, begun>>

(* The rest fits in the buffer.                                             *)
FillRest ==
    /\ call.op \in {"write", "skip"} /\ call.n <= cos.buffer_size
    /\ out' = IF call.op = "write" THEN Copied(asked - call.n + 1, call.n) ELSE out
    /\ cos' = Advance(cos, call.n)
    /\ call' = Idle /\ done' = Result(call.op, TRUE)
    /\ UNCHANGED <<file, asked, holes, begun>>

(* Mutant: a refresh that fails in the loop is not recorded. *)
FillBufferNoError ==
    /\ call.op \in {"write", "skip"} /\ call.n > cos.buffer_size
    /\ LET full == IF call.op = "write" THEN Copied(asked - call.n + 1, cos.buffer_size) ELSE out
       IN  \E r \in AdaptorNext(full) :
               /\ cos' = [Refreshed(cos, full, r) EXCEPT !.had_error = cos.had_error]
               /\ out' = r.out /\ file' = r.file
               /\ call' = IF r.ok THEN [call EXCEPT !.n = @ - cos.buffer_size] ELSE Idle
    /\ UNCHANGED <<asked, holes, begun, done>>

(* It does not: what fits is copied and the buffer refreshed; the loop ends *)
(* when that fails.                                                         *)
FillBuffer ==
    /\ call.op \in {"write", "skip"} /\ call.n > cos.buffer_size
    /\ LET full == IF call.op = "write" THEN Copied(asked - call.n + 1, cos.buffer_size) ELSE out
       IN  \E r \in AdaptorNext(full) :
               /\ cos' = Refreshed(cos, full, r)
               /\ out' = r.out /\ file' = r.file
               /\ call' = IF r.ok THEN [call EXCEPT !.n = @ - cos.buffer_size] ELSE Idle
    /\ UNCHANGED <<asked, holes, begun, done>>

(* Room for the longest varint, or for n bytes.                             *)
Room(n) == cos.buffer_size >= n

(* n bytes written straight into the buffer.                                *)
InPlace(n) ==
    /\ cos' = Advance(cos, n) /\ out' = Copied(asked + 1, n)
    /\ asked' = asked + n /\ done' = Result("write", TRUE)
    /\ UNCHANGED <<file, call, holes, begun>>

(* WriteVarint32, WriteTag: n is the size of the value's encoding.          *)
WriteVarint(n) ==
    /\ CanWrite(n)
    /\ IF Room(MaxVarint) THEN InPlace(n) ELSE WriteRaw(n)

(* GetDirectBufferForNBytesAndAdvance, and the client fills the bytes.      *)
WriteToArray(n) == CanWrite(n) /\ n >= 0 /\ Room(n) /\ InPlace(n)

GetDirectBufferPointer ==
    /\ call = Idle /\ cos.live /\ cos.buffer_size = 0
    /\ \E r \in AdaptorNext(out) :
           /\ cos' = Refreshed(cos, out, r) /\ out' = r.out /\ file' = r.file
           /\ done' = Result("direct", r.ok)
    /\ UNCHANGED <<call, asked, holes, begun>>

ByteCount == cos.total_bytes - cos.buffer_size

Next ==
    \/ Construct \/ Destroy
    \/ \E n \in Sizes : WriteRaw(n) \/ Skip(n) \/ WriteToArray(n)
    \/ \E n \in 1 .. MaxVarint : WriteVarint(n)
    \/ FillRest \/ FillBuffer
    \/ GetDirectBufferPointer
    \/ Flush \/ Close \/ DestroyFile

Spec == Init /\ [][Next]_vars

-----------------------------------------------------------------------------
(* The coded stream's window stays inside the adaptor's buffer, and no byte *)
(* is counted that the client did not write.                                *)
TypeOK ==
    /\ cos.buffer \in 0 .. BlockSize /\ cos.buffer_size \in 0 .. BlockSize
    /\ cos.total_bytes \in 0 .. (MaxBytes + BlockSize)
    /\ {cos.live, cos.had_error, out.failed, file.closed} \subseteq BOOLEAN
    /\ out.buffer \in {NULL} \cup [1 .. BlockSize -> 0 .. MaxBytes]
    /\ out.buffer_used \in 0 .. BlockSize /\ out.position \in 0 .. MaxBytes
    /\ file.data \in Seq(0 .. MaxBytes)
    /\ call.op \in {"none", "write", "skip", "crash"}

(* No CHECK fails: the coded stream's destructor backs up only over a       *)
(* buffer it was lent, and nothing is written to a closed descriptor, by    *)
(* the destructors neither.                                                 *)
NoCheckFails == TypeOK /\ call.op # "crash"

(* Byte i of the file is the i-th the client wrote, unless it skipped that  *)
(* one.                                                                     *)
Holds(data) == \A i \in 1 .. Len(data) : i \in holes \/ data[i] = i

(* Whatever was written, skipped, backed up or failed, the file is a prefix *)
(* of what the client wrote: after an error nothing follows the gap.  A     *)
(* Flush() or Close() that returns true left everything in the file.        *)
FileIsPrefix ==
    /\ Len(file.data) <= asked /\ Holds(file.data)
    /\ done.op \in {"flush", "close"} /\ done.ok => Len(file.data) = asked

(* The bytes in the file and the part of the buffer that is in use.         *)
Pending == file.data \o SubSeq(out.buffer, 1, out.buffer_used - cos.buffer_size)

(* A coded stream over a file that was sound when it began has every byte   *)
(* in the file or in the buffer, or HadError(); without an error the two    *)
(* byte counts are those of the bytes written.                              *)
LossReported ==
    call = Idle =>
        /\ cos.live /\ ~cos.had_error /\ ~begun.failed => Len(Pending) = asked /\ Holds(Pending)
        /\ ~out.failed => /\ cos.live => ByteCount = asked - begun.asked
                          /\ ByteCountOfAdaptor - cos.buffer_size = asked
=============================================================================
