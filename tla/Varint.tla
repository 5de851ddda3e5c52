------------------------------- MODULE Varint -------------------------------
(***************************************************************************)
(* The varint encoding of io/coded_stream.cc and the ZigZag transform of   *)
(* wire_format_lite.h: each encoder and decoder has a fast path that       *)
(* splits the value into 32-bit parts and a slow one that loops over the   *)
(* bytes.  The arithmetic is that of the code, with its widths scaled: a   *)
(* byte has a continuation bit over Bits others (7 in the code), uint32    *)
(* has Width32 bits and uint64 has 9 * Bits + 1.                           *)
(***************************************************************************)
EXTENDS Integers, Sequences, Bitwise

CONSTANTS Bits, Width32,
          Values,      \* the uint64 values written
          Streams      \* bytes read that no encoder wrote

Width64 == 9 * Bits + 1

ASSUME WidthAssumption ==
    /\ Bits \in Nat \ {0}
    /\ Width32 \in (4 * Bits + 1) .. (5 * Bits)
    /\ Values \subseteq 0 .. (2^Width64 - 1)
    /\ \A s \in Streams : s \in Seq(0 .. (2^(Bits + 1) - 1)) /\ Len(s) = 10

VARIABLES value,    \* the value written
          wrote,    \* by which writer, or "nothing", or "noise"
          bytes,    \* the encoded bytes
          read      \* what a reader made of them

vars == <<value, wrote, bytes, read>>

Hi == 2^Bits                             \* 0x80
Shr(x, n) == x \div 2^n
Uint32(x) == x % 2^Width32
Uint64(x) == x % 2^Width64
Continued(x) == (x % Hi) + Hi            \* static_cast<uint8>(x | 0x80)
Negative32(x) == x >= 2^(Width32 - 1)    \* the int32 is below zero

-----------------------------------------------------------------------------
(* Writing.                                                                *)

VarintSize(x, max) == CHOOSE n \in 1 .. max : /\ n = max \/ x < 2^(Bits * n)
                                              /\ n = 1 \/ x >= 2^(Bits * (n - 1))
VarintSize32(x) == VarintSize(x, 5)
VarintSize64(x) == VarintSize(x, 10)
VarintSize32SignExtended(x) == IF Negative32(x) THEN 10 ELSE VarintSize32(x)

WriteVarint32FallbackToArray(x) ==
    [i \in 1 .. VarintSize32(x) |->
        IF i < VarintSize32(x) THEN Continued(Shr(x, Bits * (i - 1))) ELSE Shr(x, Bits * (i - 1)) % Hi]

(* The binary search in one of the parts.                                   *)
PartSize(p) == IF p < 2^(2 * Bits) THEN (IF p < Hi THEN 1 ELSE 2)
               ELSE (IF p < 2^(3 * Bits) THEN 3 ELSE 4)

(* Mutant: the last part is taken for one byte always. *)
Size64OneByteLast(p0, p1, p2) ==
    IF p2 # 0 THEN 9 ELSE IF p1 # 0 THEN 4 + PartSize(p1) ELSE PartSize(p0)

Size64(p0, p1, p2) ==
    IF p2 # 0 THEN (IF p2 < Hi THEN 9 ELSE 10)
    ELSE IF p1 # 0 THEN 4 + PartSize(p1) ELSE PartSize(p0)

WriteVarint64ToArray(x) ==
    LET part(k) == Uint32(Shr(x, 4 * Bits * k))
        size    == Size64(part(0), part(1), part(2))
        at(i)   == Continued(Shr(part((i - 1) \div 4), Bits * ((i - 1) % 4)))
    IN  [i \in 1 .. size |-> IF i < size THEN at(i) ELSE at(i) % Hi]

(* The loop of the slow paths, for both widths.                             *)
WriteVarintSlow(x) ==
    LET loop[n \in 0 .. 9] ==
            IF Shr(x, Bits * n) >= Hi /\ n < 9
            THEN <<Continued(Shr(x, Bits * n))>> \o loop[n + 1]
            ELSE <<Shr(x, Bits * n) % Hi>>
    IN  loop[0]

(* Negative int32 values are written as int64.                              *)
SignExtended(x) == IF Negative32(x) THEN 2^Width64 - 2^Width32 + x ELSE x

-----------------------------------------------------------------------------
(* Reading.  A reader returns -1 when no byte of the first ten ends the     *)
(* varint.                                                                  *)

(* The length of the varint, if it has one.                                 *)
Lengths(b) == {n \in 1 .. 10 : n <= Len(b) /\ b[n] < Hi /\ \A i \in 1 .. (n - 1) : b[i] >= Hi}

(* result += b << k, and the continuation bit subtracted when more follow,  *)
(* for the bytes from .. to of a varint of n bytes.                         *)
Sum(b, from, to, n) ==
    LET sum[i \in (from - 1) .. to] ==
            IF i < from THEN 0
            ELSE Uint32(sum[i - 1] + (b[i] - (IF i < n THEN Hi ELSE 0)) * 2^(Bits * (i - from)))
    IN  sum[to]

Upto(n, most) == IF n <= most THEN n ELSE most

ReadVarint32FromArray(b) ==
    IF Lengths(b) = {} THEN -1
    ELSE LET n == CHOOSE k \in Lengths(b) : TRUE IN Sum(b, 1, Upto(n, 5), n)

(* ReadVarint64Fallback: three 32-bit sums.                                 *)
ReadVarint64Fallback(b) ==
    IF Lengths(b) = {} THEN -1
    ELSE LET n == CHOOSE k \in Lengths(b) : TRUE
             part0 == Sum(b, 1, Upto(n, 4), n)
             part1 == IF n > 4 THEN Sum(b, 5, Upto(n, 8), n) ELSE 0
             part2 == IF n > 8 THEN Sum(b, 9, n, n) ELSE 0
         IN  Uint64(part0) | Uint64(part1 * 2^(4 * Bits)) | Uint64(part2 * 2^(8 * Bits))

ReadVarint64Slow(b) ==
    LET loop[i \in 0 .. 10] ==
            IF i = 0 THEN 0 ELSE loop[i - 1] | Uint64((b[i] % Hi) * 2^(Bits * (i - 1)))
    IN  IF Lengths(b) = {} THEN -1 ELSE loop[CHOOSE k \in Lengths(b) : TRUE]

-----------------------------------------------------------------------------
(* ZigZag, on the two's complement of a signed number of w bits.            *)

Ones(w) == 2^w - 1

(* Mutant: the shift to the right is not arithmetic. *)
ZigZagEncodeLogical(x, w) == ((2 * x) % 2^w) ^^ Shr(x, w - 1)

ZigZagEncode(x, w) == ((2 * x) % 2^w) ^^ (IF x >= 2^(w - 1) THEN Ones(w) ELSE 0)
ZigZagDecode(x, w) == Shr(x, 1) ^^ (IF x % 2 = 1 THEN Ones(w) ELSE 0)

-----------------------------------------------------------------------------
(* A value is written by one of the writers and read by one of the readers. *)

Init == \/ value \in Values /\ wrote = "nothing" /\ bytes = << >> /\ read = [by |-> "none", v |-> 0]
        \/ value = 0 /\ wrote = "noise" /\ bytes \in Streams /\ read = [by |-> "none", v |-> 0]

Write(by, written) ==
    /\ wrote = "nothing"
    /\ wrote' = by /\ bytes' = written
    /\ UNCHANGED <<value, read>>

WriteVarint32 ==
    /\ value < 2^Width32
    /\ \/ Write("uint32", WriteVarint32FallbackToArray(value))
       \/ Write("uint32", WriteVarintSlow(value))

WriteVarint64 == \/ Write("uint64", WriteVarint64ToArray(value))
                 \/ Write("uint64", WriteVarintSlow(value))

WriteVarint32SignExtended ==
    /\ value < 2^Width32
    /\ Write("int32", IF Negative32(value) THEN WriteVarint64ToArray(SignExtended(value))
                      ELSE WriteVarint32FallbackToArray(value))

WriteSInt32 ==
    /\ value < 2^Width32
    /\ Write("sint32", WriteVarint32FallbackToArray(ZigZagEncode(value, Width32)))

WriteSInt64 == Write("sint64", WriteVarint64ToArray(ZigZagEncode(value, Width64)))

Read(by, v) ==
    /\ wrote # "nothing" /\ read.by = "none"
    /\ read' = [by |-> by, v |-> v]
    /\ UNCHANGED <<value, wrote, bytes>>

ReadVarint32 == \/ Read("uint32", ReadVarint32FromArray(bytes))
                \/ Read("uint32", LET v == ReadVarint64Slow(bytes) IN IF v < 0 THEN v ELSE Uint32(v))
ReadVarint64 == Read("uint64", ReadVarint64Fallback(bytes)) \/ Read("uint64", ReadVarint64Slow(bytes))

Next ==
    \/ WriteVarint32 \/ WriteVarint64 \/ WriteVarint32SignExtended
    \/ WriteSInt32 \/ WriteSInt64
    \/ ReadVarint32 \/ ReadVarint64

Spec == Init /\ [][Next]_vars

-----------------------------------------------------------------------------
(* The value a sequence of bytes stands for: its digits, low ones first.    *)
Meaning(b) ==
    LET sum[i \in 0 .. Len(b)] == IF i = 0 THEN 0 ELSE sum[i - 1] + (b[i] % Hi) * 2^(Bits * (i - 1))
    IN  sum[Len(b)]

(* What was written, as the number that goes through the varint.            *)
Number == CASE wrote = "int32"  -> SignExtended(value)
            [] wrote = "sint32" -> ZigZagEncode(value, Width32)
            [] wrote = "sint64" -> ZigZagEncode(value, Width64)
            [] OTHER -> value

Written == wrote \notin {"nothing", "noise"}

(* Every writer, fast and slow, writes the one shortest sequence of digits  *)
(* with a continuation bit on all but the last, and it has the size the     *)
(* size functions promise (a buffer was made for it by them).               *)
EncodingExact ==
    Written => /\ Meaning(bytes) = Number
               /\ \A i \in 1 .. Len(bytes) : bytes[i] >= Hi <=> i < Len(bytes)
               /\ Len(bytes) > 1 => bytes[Len(bytes)] # 0
               /\ Len(bytes) = CASE wrote = "uint32" -> VarintSize32(value)
                                 [] wrote = "int32"  -> VarintSize32SignExtended(value)
                                 [] OTHER -> VarintSize64(Number)

(* Every reader, fast and slow, makes of the bytes of a varint the number   *)
(* they stand for, a 32-bit one its low bits, also of bytes no encoder      *)
(* wrote, longer than needed or with bits beyond the width; without an end  *)
(* in ten bytes it fails.  So a negative int32 comes back, and a ZigZag     *)
(* number as it was.                                                        *)
ReadersExact ==
    read.by # "none" =>
        LET ends == {n \in 1 .. Len(bytes) : bytes[n] < Hi}
            n    == CHOOSE k \in ends : \A j \in ends : k <= j
            v    == Uint64(Meaning(SubSeq(bytes, 1, n)))
        IN  /\ read.v = CASE ends = {} -> -1
                          [] ends # {} /\ read.by = "uint32" -> Uint32(v)
                          [] OTHER -> v
            /\ wrote = "int32" /\ read.by = "uint32" => read.v = value
            /\ wrote = "sint32" /\ read.by = "uint32" => ZigZagDecode(read.v, Width32) = value
            /\ wrote = "sint64" /\ read.by = "uint64" => ZigZagDecode(read.v, Width64) = value
=============================================================================
