---------------------------- MODULE ZeroCopyInput ---------------------------
(***************************************************************************)
(* What the comments of io/zero_copy_stream.h promise of every             *)
(* ZeroCopyInputStream, with the limit a LimitingInputStream adds: one     *)
(* cursor over the bytes of the stream.  Buffers and the streams a stream  *)
(* is put together from do not appear.                                     *)
(***************************************************************************)
EXTENDS Integers, FiniteSetsExt

CONSTANTS Length,  \* the bytes of the stream
          Counts   \* what is asked of Skip(), and the limits

VARIABLES pos,     \* ByteCount()
          last,    \* the bytes BackUp() may take back
          end,     \* where the stream ends: a limit, or Length
          done     \* the last call and its result

Returns(op, ok, first, n) == done' = [op |-> op, ok |-> ok, first |-> first, n |-> n]

Init == pos = 0 /\ last = 0 /\ end = Length /\ done = [op |-> "new", ok |-> TRUE, first |-> 0, n |-> 0]

(* The next bytes, some of them at least, or false at the end.              *)
Next ==
    /\ \/ /\ pos < end
          /\ \E n \in 1 .. (end - pos) :
                 pos' = pos + n /\ last' = n /\ Returns("next", TRUE, pos, n)
       \/ pos = end /\ last' = 0 /\ Returns("next", FALSE, 0, 0) /\ UNCHANGED pos
    /\ UNCHANGED end

BackUp ==
    /\ \E n \in 0 .. last : pos' = pos - n /\ Returns("backUp", TRUE, 0, n)
    /\ last' = 0 /\ UNCHANGED end

(* As far as asked, or to the end and false; at the end even a skip of      *)
(* nothing may be refused.                                                  *)
Skip ==
    /\ \E n \in Counts, ok \in BOOLEAN :
           /\ ok => pos + n <= end
           /\ ~ok => pos + n > end \/ pos = end
           /\ pos' = Min({pos + n, end}) /\ Returns("skip", ok, 0, n)
    /\ last' = 0 /\ UNCHANGED end

Limit ==
    /\ \E n \in Counts : end' = Min({pos + n, Length}) /\ Returns("limit", TRUE, 0, n)
    /\ last' = 0 /\ UNCHANGED pos

Unlimit == end' = Length /\ last' = 0 /\ Returns("unlimit", TRUE, 0, 0) /\ UNCHANGED pos

Steps == Next \/ BackUp \/ Skip \/ Limit \/ Unlimit

Spec == Init /\ [][Steps]_<<pos, last, end, done>>
=============================================================================
