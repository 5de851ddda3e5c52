----------------------------- MODULE ByteQueue ------------------------------
(***************************************************************************)
(* What PacketBuffer promises its users, without positions, compaction or  *)
(* stale bytes: a queue of at most Capacity bytes that takes a byte        *)
(* sequence whole or not at all, refuses one only when it is empty or does *)
(* not fit, and gives up the packet at its front when all of it is there.  *)
(* Of a packet whose payload can not be taken the header may be, and one   *)
(* whose header claims less than a header may break the queue: its bytes   *)
(* are lost, and it promises nothing before it is reset.                   *)
(***************************************************************************)
EXTENDS Integers, Sequences

CONSTANTS ByteBase,   \* the number of values of a byte
          Capacity,   \* the number of bytes the queue can hold
          Inputs,     \* the byte sequences that may be offered to it
          Headers     \* the headers of packets that are refused

VARIABLES q,          \* the bytes put and not yet consumed
          result,     \* what the last Put returned
          broken      \* the queue has lost its bytes

vars == <<q, result, broken>>

Init == q = << >> /\ result = TRUE /\ broken = FALSE

Free == Capacity - Len(q)

Accepts(bytes) == bytes # << >> /\ Len(bytes) <= Free

Put(bytes) ==
    /\ ~broken
    /\ result' = Accepts(bytes)
    /\ q' = IF Accepts(bytes) THEN q \o bytes ELSE q
    /\ UNCHANGED broken

(* The size field that leads a byte sequence, 0 when not there. *)
SizeField(bytes) == IF Len(bytes) < 2 THEN 0 ELSE bytes[1] + ByteBase * bytes[2]

(* The header is judged by the size it claims. *)
PutHeader(header) ==
    /\ ~broken
    /\ result' = FALSE
    /\ IF SizeField(header) <= Free
       THEN Len(header) <= Free /\ q' = q \o header
       ELSE UNCHANGED q
    /\ UNCHANGED broken

Break(header) ==
    /\ ~broken
    /\ SizeField(header) <= Free
    /\ SizeField(header) < Len(header)
    /\ broken' = TRUE
    /\ q' = << >>
    /\ result' \in BOOLEAN

Consume ==
    /\ q' = IF SizeField(q) <= Len(q) THEN SubSeq(q, SizeField(q) + 1, Len(q)) ELSE q
    /\ UNCHANGED <<result, broken>>

Reset ==
    /\ q' = << >>
    /\ broken' = FALSE
    /\ UNCHANGED result

(* A broken queue answers anything. *)
Broken ==
    /\ broken
    /\ result' \in BOOLEAN
    /\ UNCHANGED <<q, broken>>

Next ==
    \/ \E bytes \in Inputs : Put(bytes)
    \/ \E header \in Headers : PutHeader(header) \/ Break(header)
    \/ Consume
    \/ Reset
    \/ Broken

Spec == Init /\ [][Next]_vars
=============================================================================
