---------------------------- MODULE LimitedReader ---------------------------
(***************************************************************************)
(* What CodedInputStream promises its callers: a cursor over the bytes of  *)
(* a stream that never passes the nearest of the limits pushed, the total  *)
(* limit and the end of the stream, and that delivers a value exactly when *)
(* all of its bytes come before that point.  Buffers do not appear.        *)
(***************************************************************************)
EXTENDS Integers, Sequences, FiniteSetsExt

CONSTANTS Length,      \* the bytes of the stream
          IntMax,      \* kint32max: no limit
          MaxVarint    \* kMaxVarintBytes

VARIABLES cont,        \* the positions of bytes that continue a varint
          pos,         \* the first unread byte
          stack,       \* the limits in force, as positions
          total,       \* the total bytes limit
          done         \* the last operation that returned, and its result

Limit == Min({IntMax} \cup {stack[i] : i \in 1 .. Len(stack)})
Bound == Min({Limit, total, Length})

(* The bytes of the varint at a position: up to the first that ends one.    *)
VarintEnds(p, k) == /\ \A j \in 0 .. (k - 2) : p + j \in cont
                    /\ p + k - 1 \notin cont

(* A read of n bytes delivers them all, or stops anywhere up to the bound.  *)
Returns(op, n, ok) ==
    /\ done' = [op |-> op, ok |-> ok]
    /\ IF ok THEN pos' = pos + n /\ pos' <= Bound ELSE pos' \in pos .. Bound
    /\ UNCHANGED <<stack, total>>

Read == \E n \in 0 .. IntMax : Returns([name |-> "read", n |-> n], n, pos + n <= Bound)

RefuseNegative(n) == n < 0 /\ Returns([name |-> "read", n |-> n], 0, FALSE)

ReadVarint(name) ==
    LET op == [name |-> name, n |-> 0]
        lengths == {k \in 1 .. MaxVarint : VarintEnds(pos, k) /\ pos + k <= Bound}
    IN  IF lengths # {} THEN \E k \in lengths : Returns(op, k, TRUE) ELSE Returns(op, 0, FALSE)

(* A look at some of the bytes before the bound, which are never refused.   *)
Peek == \E ok \in BOOLEAN, n \in 0 .. IntMax :
            /\ pos < Bound => ok /\ n > 0
            /\ pos + n <= Bound
            /\ Returns([name |-> "peek", n |-> n], 0, ok)
            /\ pos' = pos

(* A message may end at the end of the stream or at a limit pushed, but not *)
(* where the total limit cuts it.                                           *)
TagAtEnd ==
    /\ pos = Bound
    /\ Returns([name |-> "end", n |-> 0], 0, pos < total \/ Limit = total)

ExpectAtEnd == pos = Bound /\ Returns([name |-> "atEnd", n |-> 0], 0, TRUE)

PushLimit(n) ==
    /\ stack' = Append(stack, Min({Limit, IF n >= 0 /\ n <= IntMax - pos THEN pos + n ELSE IntMax}))
    /\ UNCHANGED <<pos, total, done>>

PopLimit ==
    /\ stack # << >>
    /\ stack' = SubSeq(stack, 1, Len(stack) - 1)
    /\ UNCHANGED <<pos, total, done>>

SetTotalBytesLimit(n) == total' = Max({pos, n}) /\ UNCHANGED <<pos, stack, done>>

Init ==
    /\ pos = 0
    /\ stack \in {<< >>} \cup {<<n>> : n \in 0 .. IntMax}
    /\ total \in 0 .. IntMax
    /\ done = [op |-> [name |-> "new", n |-> 0], ok |-> TRUE]

Next ==
    /\ \/ Read \/ Peek \/ TagAtEnd \/ ExpectAtEnd
       \/ \E name \in {"varint", "tag"} : ReadVarint(name)
       \/ \E n \in -(IntMax + 1) .. IntMax :
              RefuseNegative(n) \/ PushLimit(n) \/ SetTotalBytesLimit(n)
       \/ PopLimit
    /\ UNCHANGED cont

Spec == Init /\ [][Next]_<<pos, stack, total, done, cont>>
=============================================================================
