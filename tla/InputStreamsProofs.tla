------------------------- MODULE InputStreamsProofs -------------------------
(***************************************************************************)
(* Proofs about the input streams, for any number of streams of any sizes  *)
(* and blocks, any limits and any way the reads and seeks come out: no     *)
(* CHECK fails, no byte is delivered twice, and until a read fails or a    *)
(* seek goes past the end the streams are one stream over all the bytes.   *)
(***************************************************************************)
EXTENDS InputStreams, WellFoundedInduction, TLAPS

(* Induction over a set of naturals. *)
LEMMA SetInduction ==
    ASSUME NEW T, 0 \in T, \A n \in Nat : n \in T => n + 1 \in T
    PROVE  \A n \in Nat : n \in T
  <1> SUFFICES ASSUME Nat \ T # {} PROVE FALSE
    OBVIOUS
  <1>1. PICK x \in Nat \ T : \A y \in Nat \ T : ~(<<y, x>> \in OpToRel(<, Nat))
    <2>1. Nat \ T \subseteq Nat
      OBVIOUS
    <2> QED
      BY <2>1, NatLessThanWellFounded, WFMin
  <1>2. x # 0 /\ x - 1 \in Nat
    OBVIOUS
  <1>3. <<x - 1, x>> \in OpToRel(<, Nat)
    BY <1>2 DEF OpToRel
  <1>4. x - 1 \in T
    BY <1>1, <1>2, <1>3, Zenon
  <1>5. (x - 1) + 1 \in T
    BY <1>2, <1>4, Zenon
  <1> QED
    BY <1>5

(* The smaller and the greater of two numbers. *)
LEMMA MinFacts ==
    ASSUME NEW x \in Int, NEW y \in Int
    PROVE  Min({x, y}) = IF x <= y THEN x ELSE y
  <1> DEFINE m == IF x <= y THEN x ELSE y
  <1>1. m \in {x, y} /\ \A z \in {x, y} : m <= z
    OBVIOUS
  <1>2. Min({x, y}) \in {x, y} /\ \A z \in {x, y} : Min({x, y}) <= z
    BY <1>1, Zenon DEF Min
  <1> QED
    BY <1>2

LEMMA MaxFacts ==
    ASSUME NEW x \in Int, NEW y \in Int
    PROVE  Max({x, y}) = IF x <= y THEN y ELSE x
  <1> DEFINE m == IF x <= y THEN y ELSE x
  <1>1. m \in {x, y} /\ \A z \in {x, y} : m >= z
    OBVIOUS
  <1>2. Max({x, y}) \in {x, y} /\ \A z \in {x, y} : Max({x, y}) >= z
    BY <1>1, Zenon DEF Max
  <1> QED
    BY <1>2

(* The streams concatenated. *)
LEMMA LeafFacts ==
    /\ Len(Leaves) \in Nat
    /\ Positions = 1 .. Len(Leaves)
    /\ \A i \in Positions : /\ Leaves[i].size \in Nat
                            /\ Leaves[i].block \in Nat \ {0}
                            /\ Leaves[i].kind \in {"array", "file", "pipe"}
  <1> DEFINE S == [kind : {"array", "file", "pipe"}, size : Nat, block : Nat \ {0}]
  <1>1. Leaves \in Seq(S)
    BY LeavesAssumption
  <1>2. Len(Leaves) \in Nat /\ \A i \in 1 .. Len(Leaves) : Leaves[i] \in S
    <2> HIDE DEF S
    <2> QED
      BY <1>1
  <1> QED
    BY <1>2 DEF Positions

-----------------------------------------------------------------------------
(* Where a stream's bytes begin: the sums exist, and are the only ones. *)
Sums(f, n) == \A j \in 0 .. n : f[j] = IF j = 0 THEN 0 ELSE f[j - 1] + Leaves[j].size

LEMMA SumsExist == \E f \in [0 .. Len(Leaves) -> Nat] : Sums(f, Len(Leaves))
  <1> DEFINE T == {n \in Nat : n <= Len(Leaves) => \E f \in [0 .. n -> Nat] : Sums(f, n)}
  <1>1. 0 \in T
    <2>1. [j \in 0 .. 0 |-> 0] \in [0 .. 0 -> Nat] /\ Sums([j \in 0 .. 0 |-> 0], 0)
      BY DEF Sums
    <2> QED
      BY <2>1
  <1>2. ASSUME NEW n \in Nat, n \in T PROVE n + 1 \in T
    <2> SUFFICES ASSUME n + 1 <= Len(Leaves)
                 PROVE  \E f \in [0 .. (n + 1) -> Nat] : Sums(f, n + 1)
      OBVIOUS
    <2>1. PICK f \in [0 .. n -> Nat] : Sums(f, n)
      BY <1>2, LeafFacts
    <2> DEFINE g == [j \in 0 .. (n + 1) |-> IF j = n + 1 THEN f[n] + Leaves[n + 1].size ELSE f[j]]
    <2>2. Leaves[n + 1].size \in Nat /\ f[n] \in Nat
      BY LeafFacts
    <2>3. g \in [0 .. (n + 1) -> Nat]
      BY <2>2
    <2>4. ASSUME NEW j \in 0 .. (n + 1)
          PROVE  g[j] = IF j = 0 THEN 0 ELSE g[j - 1] + Leaves[j].size
      <3>1. CASE j = n + 1
        BY <3>1
      <3>2. CASE j \in 0 .. n
        <4>1. f[j] = IF j = 0 THEN 0 ELSE f[j - 1] + Leaves[j].size
          BY <2>1, <3>2, Zenon DEF Sums
        <4>2. g[j] = f[j] /\ (j # 0 => g[j - 1] = f[j - 1])
          BY <3>2
        <4> QED
          BY <4>1, <4>2
      <3> QED
        BY <3>1, <3>2
    <2> HIDE DEF g
    <2>5. Sums(g, n + 1)
      BY <2>4 DEF Sums
    <2> QED
      BY <2>3, <2>5
  <1> HIDE DEF T
  <1>3. Len(Leaves) \in T
    BY <1>1, <1>2, LeafFacts, SetInduction
  <1> QED
    BY <1>3, LeafFacts DEF T

(* The first stream begins at 0, each where the one before it ends. *)
LEMMA StartFacts ==
    /\ Start(1) = 0
    /\ \A i \in 1 .. (Len(Leaves) + 1) : Start(i) \in Nat
    /\ \A i \in Positions : Start(i + 1) = Start(i) + Leaves[i].size
    /\ Length = Start(Len(Leaves) + 1)
  <1> DEFINE Is(f) == f = [j \in 0 .. Len(Leaves) |-> IF j = 0 THEN 0 ELSE f[j - 1] + Leaves[j].size]
             upto == CHOOSE f : Is(f)
  <1>1. PICK f \in [0 .. Len(Leaves) -> Nat] : Sums(f, Len(Leaves))
    BY SumsExist
  <1>2. Is(f)
    BY <1>1 DEF Sums
  <1>3. Is(upto)
    BY <1>2, Zenon
  <1>4. \A i : Start(i) = upto[i - 1]
    BY Zenon DEF Start
  <1>5. \A j \in 0 .. Len(Leaves) : upto[j] = IF j = 0 THEN 0 ELSE upto[j - 1] + Leaves[j].size
    <2>1. upto = [j \in 0 .. Len(Leaves) |-> IF j = 0 THEN 0 ELSE upto[j - 1] + Leaves[j].size]
      BY <1>3
    <2> HIDE DEF upto
    <2> QED
      BY <2>1
  <1> HIDE DEF upto, Is
  <1> DEFINE T == {n \in Nat : n \in 0 .. Len(Leaves) => upto[n] \in Nat}
  <1>6. 0 \in T
    BY <1>5, LeafFacts
  <1>7. ASSUME NEW n \in Nat, n \in T PROVE n + 1 \in T
    <2> SUFFICES ASSUME n + 1 \in 0 .. Len(Leaves) PROVE upto[n + 1] \in Nat
      OBVIOUS
    <2>1. upto[n] \in Nat /\ Leaves[n + 1].size \in Nat
      BY <1>7, LeafFacts
    <2>2. upto[n + 1] = upto[(n + 1) - 1] + Leaves[n + 1].size
      BY <1>5
    <2> QED
      BY <2>1, <2>2
  <1> HIDE DEF T
  <1>8. \A n \in Nat : n \in T
    BY <1>6, <1>7, SetInduction
  <1>9. Start(1) = 0
    <2>1. Start(1) = upto[1 - 1]
      BY <1>4, Zenon
    <2> QED
      BY <2>1, <1>5, LeafFacts
  <1>10. ASSUME NEW i \in 1 .. (Len(Leaves) + 1) PROVE Start(i) \in Nat
    <2>1. i - 1 \in 0 .. Len(Leaves) /\ i - 1 \in Nat
      BY LeafFacts
    <2>2. upto[i - 1] \in Nat
      BY <1>8, <2>1 DEF T
    <2> QED
      BY <2>2, <1>4
  <1>11. ASSUME NEW i \in Positions PROVE Start(i + 1) = Start(i) + Leaves[i].size
    <2>1. i \in 0 .. Len(Leaves) /\ i # 0 /\ (i + 1) - 1 = i
      BY LeafFacts
    <2>2. Start(i + 1) = upto[(i + 1) - 1] /\ Start(i) = upto[i - 1]
      BY <1>4
    <2> QED
      BY <2>1, <2>2, <1>5
  <1> QED
    BY <1>9, <1>10, <1>11 DEF Length

-----------------------------------------------------------------------------
(* The loop of a call to the concatenation: what the turns lead to. *)
Turns(f, n, skip, m) ==
    \A k \in 0 .. n : f[k] = IF k = 0 THEN {Asking(skip, m)} ELSE UNION {Ask(a) : a \in f[k - 1]}

LEMMA TurnsExist ==
    ASSUME NEW skip, NEW m, NEW n \in Nat
    PROVE  \E f : f = [k \in 0 .. n |-> f[k]] /\ Turns(f, n, skip, m)
  <1> DEFINE T == {k \in Nat : \E f : f = [j \in 0 .. k |-> f[j]] /\ Turns(f, k, skip, m)}
  <1>1. 0 \in T
    <2> DEFINE f == [j \in 0 .. 0 |-> {Asking(skip, m)}]
    <2>1. f = [j \in 0 .. 0 |-> f[j]]
      OBVIOUS
    <2>2. Turns(f, 0, skip, m)
      BY DEF Turns
    <2> QED
      BY <2>1, <2>2
  <1>2. ASSUME NEW k \in Nat, k \in T PROVE k + 1 \in T
    <2>1. PICK f : f = [j \in 0 .. k |-> f[j]] /\ Turns(f, k, skip, m)
      BY <1>2
    <2> DEFINE g == [j \in 0 .. (k + 1) |-> IF j = k + 1 THEN UNION {Ask(a) : a \in f[k]} ELSE f[j]]
    <2>2. g = [j \in 0 .. (k + 1) |-> g[j]]
      OBVIOUS
    <2>3. ASSUME NEW j \in 0 .. (k + 1)
          PROVE  g[j] = IF j = 0 THEN {Asking(skip, m)} ELSE UNION {Ask(a) : a \in g[j - 1]}
      <3>1. CASE j = k + 1
        <4>1. j # 0 /\ j - 1 = k /\ g[k] = f[k]
          BY <3>1
        <4>2. g[j] = UNION {Ask(a) : a \in f[k]}
          BY <3>1
        <4> HIDE DEF g
        <4> QED
          BY <4>1, <4>2
      <3>2. CASE j \in 0 .. k
        <4>1. f[j] = IF j = 0 THEN {Asking(skip, m)} ELSE UNION {Ask(a) : a \in f[j - 1]}
          BY <2>1, <3>2, Zenon DEF Turns
        <4>2. g[j] = f[j] /\ (j # 0 => g[j - 1] = f[j - 1])
          BY <3>2
        <4> HIDE DEF g
        <4> QED
          BY <4>1, <4>2
      <3> QED
        BY <3>1, <3>2
    <2> HIDE DEF g
    <2>4. Turns(g, k + 1, skip, m)
      BY <2>3 DEF Turns
    <2> QED
      BY <2>2, <2>4
  <1> HIDE DEF T
  <1>3. n \in T
    BY <1>1, <1>2, SetInduction
  <1> QED
    BY <1>3 DEF T

LEMMA LoopIsTurns ==
    ASSUME NEW skip, NEW m
    PROVE  \E f : Turns(f, Len(Leaves), skip, m) /\ Loop(skip, m) = f[Len(Leaves)]
  <1> DEFINE n == Len(Leaves)
             Is(f) == f = [k \in 0 .. n |->
                          IF k = 0 THEN {Asking(skip, m)} ELSE UNION {Ask(a) : a \in f[k - 1]}]
             turns == CHOOSE f : Is(f)
  <1>1. n \in Nat
    BY LeafFacts
  <1>2. PICK f : f = [k \in 0 .. n |-> f[k]] /\ Turns(f, n, skip, m)
    BY <1>1, TurnsExist
  <1>3. Is(f)
    <2>1. \A k \in 0 .. n : f[k] = IF k = 0 THEN {Asking(skip, m)} ELSE UNION {Ask(a) : a \in f[k - 1]}
      BY <1>2, Zenon DEF Turns
    <2>2. [k \in 0 .. n |-> f[k]] = [k \in 0 .. n |->
              IF k = 0 THEN {Asking(skip, m)} ELSE UNION {Ask(a) : a \in f[k - 1]}]
      BY <2>1, Zenon
    <2> QED
      BY <1>2, <2>2, Zenon
  <1>4. Is(turns)
    BY <1>3, Zenon
  <1>5. Loop(skip, m) = turns[n]
    BY Zenon DEF Loop
  <1>6. Turns(turns, n, skip, m)
    <2>1. turns = [k \in 0 .. n |->
              IF k = 0 THEN {Asking(skip, m)} ELSE UNION {Ask(a) : a \in turns[k - 1]}]
      BY <1>4, Zenon
    <2> HIDE DEF turns
    <2>2. \A k \in 0 .. n : turns[k] = IF k = 0 THEN {Asking(skip, m)} ELSE UNION {Ask(a) : a \in turns[k - 1]}
      BY <2>1, Zenon
    <2> QED
      BY <2>2 DEF Turns
  <1> QED
    BY <1>5, <1>6, Zenon

-----------------------------------------------------------------------------
(* One stream. *)
ArrayStreams == [position : Nat, last_returned_size : Nat]
AdaptorStreams ==
    [position : Nat, buffer : BOOLEAN, buffer_used : Nat, backup_bytes : Nat,
     failed : BOOLEAN, offset : Nat, previous_seek_failed : BOOLEAN, errors : {0, 1}]

(* What StreamOK leaves out: a stream has read the bytes its buffer holds,  *)
(* and what is backed up over came from the file.                           *)
Good(i, s) ==
    IF IsArray(i)
    THEN s \in ArrayStreams /\ s.position <= Leaves[i].size /\ s.last_returned_size <= s.position
    ELSE /\ s \in AdaptorStreams
         /\ s.position = s.offset /\ s.buffer_used <= Leaves[i].block /\ s.buffer_used <= s.offset
         /\ s.backup_bytes <= s.buffer_used
         /\ s.backup_bytes > 0 => s.buffer /\ s.offset <= Leaves[i].size

Live(i, s) == ~IsArray(i) => ~s.failed

Calm(i, s) == ~IsArray(i) => s.errors = 0 /\ s.offset <= Leaves[i].size

Count(i, s) == IF IsArray(i) THEN s.position ELSE s.position - s.backup_bytes

(* The last n bytes may be backed up over: the last Next() returned them.   *)
Fresh(i, s, n) ==
    IF IsArray(i) THEN s.last_returned_size > 0 /\ n <= s.last_returned_size
    ELSE s.backup_bytes = 0 /\ s.buffer /\ n <= s.buffer_used /\ s.offset <= Leaves[i].size

StreamNext(i, s) == IF IsArray(i) THEN ArrayNext(i, s) ELSE AdaptorNext(i, s)
StreamSkip(i, s, n) == IF IsArray(i) THEN ArraySkip(i, s, n) ELSE AdaptorSkip(i, s, n)
StreamBackUp(i, s, n) == IF IsArray(i) THEN ArrayBackUp(s, n) ELSE AdaptorBackUp(s, n)

LEMMA CountFacts ==
    ASSUME NEW i \in Positions, NEW s, Good(i, s)
    PROVE  /\ Count(i, s) \in Nat
           /\ Calm(i, s) => Count(i, s) <= Leaves[i].size
           /\ \A n \in Nat : Fresh(i, s, n) => Count(i, s) <= Leaves[i].size /\ n <= Count(i, s)
  BY LeafFacts DEF Good, Count, Calm, Fresh, ArrayStreams, AdaptorStreams

(* What a Next() of a stream returns starts where the stream is. *)
NextOutcome(i, s, r) ==
    /\ Good(i, r.s) /\ (Calm(i, r.s) => Calm(i, s))
    /\ r.ok \in BOOLEAN /\ r.crash = FALSE
    /\ r.ok => /\ r.n \in Nat \ {0} /\ r.first = Count(i, s)
               /\ r.first + r.n <= Leaves[i].size
               /\ Count(i, r.s) = r.first + r.n
               /\ Live(i, r.s) /\ Fresh(i, r.s, r.n)
    /\ ~r.ok => /\ Count(i, r.s) = Count(i, s)
                /\ Calm(i, r.s) => Count(i, r.s) = Leaves[i].size

LEMMA ArrayNextFacts ==
    ASSUME NEW i \in Positions, IsArray(i), NEW s, Good(i, s), NEW r \in ArrayNext(i, s)
    PROVE  NextOutcome(i, s, r)
  <1>1. /\ s \in ArrayStreams /\ s.position \in Nat /\ s.last_returned_size \in Nat
        /\ s.position <= Leaves[i].size /\ s.last_returned_size <= s.position
        /\ Leaves[i].size \in Nat /\ Leaves[i].block \in Nat \ {0}
    BY LeafFacts DEF Good, ArrayStreams
  <1>2. CASE s.position < Leaves[i].size
    <2> DEFINE n == Min({Leaves[i].block, Leaves[i].size - s.position})
    <2>1. n \in Nat \ {0} /\ n <= Leaves[i].size - s.position
      BY <1>1, <1>2, MinFacts
    <2> HIDE DEF n
    <2>2. r = Gives([position |-> s.position + n, last_returned_size |-> n], TRUE, s.position, n)
      BY <1>2 DEF ArrayNext, n
    <2>3. /\ r.s = [position |-> s.position + n, last_returned_size |-> n]
          /\ r.ok = TRUE /\ r.crash = FALSE /\ r.first = s.position /\ r.n = n
      BY <2>2 DEF Gives
    <2>4. Good(i, r.s) /\ Calm(i, s) /\ Live(i, r.s) /\ Fresh(i, r.s, r.n)
      BY <1>1, <2>1, <2>3 DEF Good, Calm, Live, Fresh, ArrayStreams
    <2>5. /\ r.n \in Nat \ {0} /\ r.first = Count(i, s)
          /\ r.first + r.n <= Leaves[i].size /\ Count(i, r.s) = r.first + r.n
      BY <1>1, <2>1, <2>3 DEF Count
    <2>6. r.ok \in BOOLEAN
      BY <2>3
    <2> QED
      BY <2>3, <2>4, <2>5, <2>6, Zenon DEF NextOutcome
  <1>3. CASE ~(s.position < Leaves[i].size)
    <2>1. r = Fails([s EXCEPT !.last_returned_size = 0])
      BY <1>3 DEF ArrayNext
    <2>2. r.s = [s EXCEPT !.last_returned_size = 0] /\ r.ok = FALSE /\ r.crash = FALSE
      BY <2>1 DEF Fails, Gives
    <2>3. /\ Good(i, r.s) /\ Calm(i, s)
          /\ Count(i, r.s) = Count(i, s) /\ Count(i, r.s) = Leaves[i].size
      BY <1>1, <1>3, <2>2 DEF Good, Calm, Count, ArrayStreams
    <2>4. r.ok \in BOOLEAN
      BY <2>2
    <2> QED
      BY <2>2, <2>3, <2>4, Zenon DEF NextOutcome
  <1> QED
    BY <1>2, <1>3

(* The bytes a stream may still read. *)
LEMMA AvailableFacts ==
    ASSUME NEW i \in Positions, NEW s, s.offset \in Nat
    PROVE  Available(i, s) = IF s.offset <= Leaves[i].size THEN Leaves[i].size - s.offset ELSE 0
  <1>1. Leaves[i].size \in Nat
    BY LeafFacts
  <1> QED
    BY <1>1, MaxFacts DEF Available

(* The members of a stream over a descriptor. *)
LEMMA AdaptorFacts ==
    ASSUME NEW i \in Positions, ~IsArray(i), NEW s, Good(i, s)
    PROVE  /\ s \in AdaptorStreams
           /\ s.position \in Nat /\ s.buffer \in BOOLEAN /\ s.buffer_used \in Nat
           /\ s.backup_bytes \in Nat /\ s.failed \in BOOLEAN /\ s.offset \in Nat
           /\ s.errors \in {0, 1}
           /\ s.position = s.offset /\ s.buffer_used <= Leaves[i].block /\ s.buffer_used <= s.offset
           /\ s.backup_bytes <= s.buffer_used
           /\ s.backup_bytes > 0 => s.buffer /\ s.offset <= Leaves[i].size
           /\ Leaves[i].size \in Nat /\ Leaves[i].block \in Nat \ {0}
  BY LeafFacts DEF Good, AdaptorStreams

(* A stream over a descriptor that moves. *)
Moved(u, p, o, t) ==
    /\ t \in AdaptorStreams /\ t.position = p /\ t.offset = o
    /\ t.backup_bytes = u.backup_bytes /\ t.buffer = u.buffer /\ t.buffer_used = u.buffer_used
    /\ t.errors = u.errors /\ t.failed = u.failed

LEMMA MoveFacts ==
    ASSUME NEW u \in AdaptorStreams, NEW p \in Nat, NEW o \in Nat
    PROVE  /\ Moved(u, p, o, [u EXCEPT !.position = p, !.offset = o])
           /\ Moved(u, p, o, [u EXCEPT !.offset = o, !.position = p])
  <1>1. ASSUME NEW w \in AdaptorStreams PROVE [w EXCEPT !.position = p] \in AdaptorStreams
    BY <1>1 DEF AdaptorStreams
  <1>2. ASSUME NEW w \in AdaptorStreams PROVE [w EXCEPT !.offset = o] \in AdaptorStreams
    BY <1>2 DEF AdaptorStreams
  <1>3. /\ [u EXCEPT !.position = p, !.offset = o] \in AdaptorStreams
        /\ [u EXCEPT !.offset = o, !.position = p] \in AdaptorStreams
    BY <1>1, <1>2
  <1> QED
    BY <1>3 DEF AdaptorStreams, Moved

LEMMA AdaptorNextFacts ==
    ASSUME NEW i \in Positions, ~IsArray(i), NEW s, Good(i, s), Live(i, s),
           NEW r \in AdaptorNext(i, s)
    PROVE  NextOutcome(i, s, r)
  <1> DEFINE size == Leaves[i].size
  <1>1. /\ s \in AdaptorStreams
        /\ s.position \in Nat /\ s.buffer \in BOOLEAN /\ s.buffer_used \in Nat
        /\ s.backup_bytes \in Nat /\ s.failed \in BOOLEAN /\ s.offset \in Nat
        /\ s.errors \in {0, 1}
        /\ s.position = s.offset /\ s.buffer_used <= Leaves[i].block /\ s.buffer_used <= s.offset
        /\ s.backup_bytes <= s.buffer_used
        /\ s.backup_bytes > 0 => s.buffer /\ s.offset <= size
        /\ size \in Nat /\ Leaves[i].block \in Nat \ {0}
    BY AdaptorFacts
  <1>2. ~s.failed /\ Count(i, s) = s.offset - s.backup_bytes
    BY <1>1 DEF Live, Count
  <1>3. CASE s.backup_bytes > 0
    <2>1. r = Gives([s EXCEPT !.backup_bytes = 0], TRUE, Leftover(s), s.backup_bytes)
      BY <1>2, <1>3 DEF AdaptorNext
    <2>2. /\ r.s = [s EXCEPT !.backup_bytes = 0] /\ r.ok = TRUE /\ r.crash = FALSE
          /\ r.first = s.offset - s.backup_bytes /\ r.n = s.backup_bytes
      BY <2>1 DEF Gives, Leftover
    <2>3. Good(i, r.s) /\ (Calm(i, r.s) => Calm(i, s)) /\ Live(i, r.s) /\ Fresh(i, r.s, r.n)
      BY <1>1, <1>2, <1>3, <2>2 DEF Good, Calm, Live, Fresh, AdaptorStreams
    <2>4. /\ r.n \in Nat \ {0} /\ r.first = Count(i, s)
          /\ r.first + r.n <= size /\ Count(i, r.s) = r.first + r.n
      BY <1>1, <1>2, <1>3, <2>2 DEF Count, AdaptorStreams
    <2>5. r.ok \in BOOLEAN
      BY <2>2
    <2> QED
      BY <2>2, <2>3, <2>4, <2>5, Zenon DEF NextOutcome
  <1>4. CASE s.backup_bytes = 0
    <2>1. r \in AdaptorRead(i, s)
      BY <1>2, <1>4 DEF AdaptorNext
    <2>2. Available(i, s) = IF s.offset <= size THEN size - s.offset ELSE 0
      BY <1>1, AvailableFacts
    <2>3. ASSUME r = Fails(FreeBuffer([Error(s) EXCEPT !.failed = TRUE]))
          PROVE  NextOutcome(i, s, r)
      <3>1. /\ r.s = FreeBuffer([Error(s) EXCEPT !.failed = TRUE])
            /\ r.ok = FALSE /\ r.crash = FALSE
        BY <2>3 DEF Fails, Gives
      <3>2. /\ r.s \in AdaptorStreams /\ r.s.position = s.position /\ r.s.offset = s.offset
            /\ r.s.backup_bytes = 0 /\ r.s.buffer_used = 0 /\ r.s.errors = 1
        BY <1>1, <1>4, <3>1 DEF FreeBuffer, Error, AdaptorStreams
      <3>3. Good(i, r.s) /\ ~Calm(i, r.s) /\ Count(i, r.s) = Count(i, s)
        BY <1>1, <1>2, <1>4, <3>2 DEF Good, Calm, Count
      <3>4. r.ok \in BOOLEAN
        BY <3>1
      <3> QED
        BY <3>1, <3>3, <3>4, Zenon DEF NextOutcome
    <2>4. ASSUME Available(i, s) = 0, r = Fails(FreeBuffer(s))
          PROVE  NextOutcome(i, s, r)
      <3>1. r.s = FreeBuffer(s) /\ r.ok = FALSE /\ r.crash = FALSE
        BY <2>4 DEF Fails, Gives
      <3>2. /\ r.s \in AdaptorStreams /\ r.s.position = s.position /\ r.s.offset = s.offset
            /\ r.s.backup_bytes = 0 /\ r.s.buffer_used = 0 /\ r.s.errors = s.errors
        BY <1>1, <1>4, <3>1 DEF FreeBuffer, AdaptorStreams
      <3>3. s.offset >= size
        BY <1>1, <2>2, <2>4
      <3>4. /\ Good(i, r.s) /\ (Calm(i, r.s) => Calm(i, s)) /\ Count(i, r.s) = Count(i, s)
            /\ Calm(i, r.s) => Count(i, r.s) = size
        BY <1>1, <1>2, <1>4, <3>2, <3>3 DEF Good, Calm, Count
      <3>5. r.ok \in BOOLEAN
        BY <3>1
      <3> QED
        BY <3>1, <3>4, <3>5, Zenon DEF NextOutcome
    <2>5. ASSUME NEW n \in 1 .. Min({Leaves[i].block, Available(i, s)}),
                 r = Gives([s EXCEPT !.buffer = TRUE, !.buffer_used = n, !.position = @ + n, !.offset = @ + n],
                           TRUE, s.offset, n)
          PROVE  NextOutcome(i, s, r)
      <3>1. n \in Nat \ {0} /\ n <= Leaves[i].block /\ s.offset + n <= size
        BY <1>1, <2>2, MinFacts
      <3>2. /\ r.s = [s EXCEPT !.buffer = TRUE, !.buffer_used = n, !.position = @ + n, !.offset = @ + n]
            /\ r.ok = TRUE /\ r.crash = FALSE /\ r.first = s.offset /\ r.n = n
        BY <2>5 DEF Gives
      <3>3. /\ r.s \in AdaptorStreams /\ r.s.position = s.position + n /\ r.s.offset = s.offset + n
            /\ r.s.backup_bytes = 0 /\ r.s.buffer = TRUE /\ r.s.buffer_used = n
            /\ r.s.errors = s.errors /\ r.s.failed = s.failed
        <4> DEFINE u == [s EXCEPT !.buffer = TRUE, !.buffer_used = n]
        <4>1. /\ u \in AdaptorStreams /\ u.position = s.position /\ u.offset = s.offset
              /\ u.backup_bytes = 0 /\ u.buffer = TRUE /\ u.buffer_used = n
              /\ u.errors = s.errors /\ u.failed = s.failed
          BY <1>1, <1>4, <3>1 DEF AdaptorStreams
        <4>2. r.s = [u EXCEPT !.position = s.position + n, !.offset = s.offset + n]
          BY <3>2
        <4> HIDE DEF u
        <4>3. u \in AdaptorStreams /\ s.position + n \in Nat /\ s.offset + n \in Nat
          BY <1>1, <3>1, <4>1
        <4>4. Moved(u, s.position + n, s.offset + n,
                    [u EXCEPT !.position = s.position + n, !.offset = s.offset + n])
          BY <4>3, MoveFacts
        <4>5. Moved(u, s.position + n, s.offset + n, r.s)
          BY <4>2, <4>4
        <4> QED
          BY <4>1, <4>5 DEF Moved
      <3>4. Good(i, r.s) /\ Live(i, r.s) /\ Fresh(i, r.s, r.n)
        BY <1>1, <1>2, <3>1, <3>2, <3>3 DEF Good, Live, Fresh
      <3>5. Calm(i, r.s) => Calm(i, s)
        BY <1>1, <3>1, <3>3 DEF Calm
      <3>6. /\ r.n \in Nat \ {0} /\ r.first = Count(i, s)
            /\ r.first + r.n <= size /\ Count(i, r.s) = r.first + r.n
        BY <1>1, <1>2, <1>4, <3>1, <3>2, <3>3 DEF Count
      <3>7. r.ok \in BOOLEAN
        BY <3>2
      <3> QED
        BY <3>2, <3>4, <3>5, <3>6, <3>7, Zenon DEF NextOutcome
    <2>6. \/ r = Fails(FreeBuffer([Error(s) EXCEPT !.failed = TRUE]))
          \/ Available(i, s) = 0 /\ r = Fails(FreeBuffer(s))
          \/ \E n \in 1 .. Min({Leaves[i].block, Available(i, s)}) :
                 r = Gives([s EXCEPT !.buffer = TRUE, !.buffer_used = n, !.position = @ + n, !.offset = @ + n],
                           TRUE, s.offset, n)
      <3> DEFINE Got(n) == Gives([s EXCEPT !.buffer = TRUE, !.buffer_used = n, !.position = @ + n,
                                           !.offset = @ + n], TRUE, s.offset, n)
      <3>1. AdaptorRead(i, s) =
                {Fails(FreeBuffer([Error(s) EXCEPT !.failed = TRUE]))}
                \cup (IF Available(i, s) = 0 THEN {Fails(FreeBuffer(s))} ELSE {})
                \cup {Got(n) : n \in 1 .. Min({Leaves[i].block, Available(i, s)})}
        BY Zenon DEF AdaptorRead
      <3> HIDE DEF Got
      <3>2. \/ r = Fails(FreeBuffer([Error(s) EXCEPT !.failed = TRUE]))
            \/ Available(i, s) = 0 /\ r = Fails(FreeBuffer(s))
            \/ \E n \in 1 .. Min({Leaves[i].block, Available(i, s)}) : r = Got(n)
        BY <2>1, <3>1
      <3> QED
        BY <3>2, Zenon DEF Got
    <2> QED
      BY <2>3, <2>4, <2>5, <2>6, Zenon
  <1> QED
    BY <1>1, <1>3, <1>4

LEMMA StreamNextFacts ==
    ASSUME NEW i \in Positions, NEW s, Good(i, s), Live(i, s), NEW r \in StreamNext(i, s)
    PROVE  NextOutcome(i, s, r)
  BY ArrayNextFacts, AdaptorNextFacts, Zenon DEF StreamNext

(* A Skip() of a stream that fails came to its end, as its ByteCount tells. *)
SkipOutcome(i, s, n, r) ==
    /\ Good(i, r.s) /\ (Calm(i, r.s) => Calm(i, s))
    /\ r.ok \in BOOLEAN /\ r.crash = FALSE
    /\ Count(i, s) <= Count(i, r.s)
    /\ r.ok => Live(i, r.s) /\ Count(i, r.s) = Count(i, s) + n
    /\ ~r.ok => /\ Count(i, r.s) < Count(i, s) + n
                /\ Calm(i, r.s) => Count(i, r.s) = Leaves[i].size

LEMMA ArraySkipFacts ==
    ASSUME NEW i \in Positions, IsArray(i), NEW s, Good(i, s), NEW n \in Nat,
           NEW r \in ArraySkip(i, s, n)
    PROVE  SkipOutcome(i, s, n, r)
  <1>1. /\ s \in ArrayStreams /\ s.position \in Nat /\ s.last_returned_size \in Nat
        /\ s.position <= Leaves[i].size /\ s.last_returned_size <= s.position
        /\ Leaves[i].size \in Nat
    BY LeafFacts DEF Good, ArrayStreams
  <1>2. CASE n > Leaves[i].size - s.position
    <2>1. r = Fails([position |-> Leaves[i].size, last_returned_size |-> 0])
      BY <1>2 DEF ArraySkip
    <2>2. /\ r.s = [position |-> Leaves[i].size, last_returned_size |-> 0]
          /\ r.ok = FALSE /\ r.crash = FALSE
      BY <2>1 DEF Fails, Gives
    <2>3. /\ Good(i, r.s) /\ Calm(i, s) /\ Count(i, s) <= Count(i, r.s)
          /\ Count(i, r.s) = Leaves[i].size /\ Count(i, r.s) < Count(i, s) + n
      BY <1>1, <1>2, <2>2 DEF Good, Calm, Count, ArrayStreams
    <2>4. r.ok \in BOOLEAN
      BY <2>2
    <2> QED
      BY <2>2, <2>3, <2>4, Zenon DEF SkipOutcome
  <1>3. CASE ~(n > Leaves[i].size - s.position)
    <2>1. r = Gives([position |-> s.position + n, last_returned_size |-> 0], TRUE, 0, n)
      BY <1>3 DEF ArraySkip
    <2>2. /\ r.s = [position |-> s.position + n, last_returned_size |-> 0]
          /\ r.ok = TRUE /\ r.crash = FALSE
      BY <2>1 DEF Gives
    <2>3. /\ Good(i, r.s) /\ Calm(i, s) /\ Live(i, r.s) /\ Count(i, s) <= Count(i, r.s)
          /\ Count(i, r.s) = Count(i, s) + n
      BY <1>1, <1>3, <2>2 DEF Good, Calm, Live, Count, ArrayStreams
    <2>4. r.ok \in BOOLEAN
      BY <2>2
    <2> QED
      BY <2>2, <2>3, <2>4, Zenon DEF SkipOutcome
  <1> QED
    BY <1>2, <1>3

(* What skipping k bytes of the descriptor, of the rest asked for, gives; v  *)
(* is the stream with nothing backed up over any more.                       *)
LEMMA SkippedFacts ==
    ASSUME NEW i \in Positions, ~IsArray(i), NEW s, Good(i, s), Live(i, s),
           NEW n \in Nat, s.backup_bytes < n, NEW v \in AdaptorStreams,
           v.position = s.position, v.offset = s.offset, v.backup_bytes = 0,
           v.buffer_used = s.buffer_used, v.failed = s.failed, s.errors <= v.errors,
           NEW k \in Nat, k <= n - s.backup_bytes,
           NEW r, r.crash = FALSE, r.ok <=> k = n - s.backup_bytes, r.ok \in BOOLEAN,
           r.s = [v EXCEPT !.offset = v.offset + k, !.position = v.position + k],
           k < n - s.backup_bytes /\ v.errors = 0 =>
               (s.offset <= Leaves[i].size => s.offset + k = Leaves[i].size)
    PROVE  SkipOutcome(i, s, n, r)
  <1> DEFINE size == Leaves[i].size
  <1>1. /\ s \in AdaptorStreams
        /\ s.position \in Nat /\ s.buffer \in BOOLEAN /\ s.buffer_used \in Nat
        /\ s.backup_bytes \in Nat /\ s.failed \in BOOLEAN /\ s.offset \in Nat
        /\ s.errors \in {0, 1}
        /\ s.position = s.offset /\ s.buffer_used <= Leaves[i].block /\ s.buffer_used <= s.offset
        /\ s.backup_bytes <= s.buffer_used
        /\ s.backup_bytes > 0 => s.buffer /\ s.offset <= size
        /\ size \in Nat /\ Leaves[i].block \in Nat \ {0}
    BY AdaptorFacts
  <1>2. ~s.failed /\ Count(i, s) = s.offset - s.backup_bytes
    BY <1>1 DEF Live, Count
  <1>3. /\ r.s.position = s.position + k /\ r.s.offset = s.offset + k /\ r.s.backup_bytes = 0
        /\ r.s.errors = v.errors /\ r.s.failed = s.failed
        /\ r.s.buffer_used = s.buffer_used
        /\ r.s \in AdaptorStreams
    <2>1. v \in AdaptorStreams /\ v.position + k \in Nat /\ v.offset + k \in Nat
      BY <1>1
    <2>2. Moved(v, v.position + k, v.offset + k,
                [v EXCEPT !.offset = v.offset + k, !.position = v.position + k])
      BY <2>1, MoveFacts
    <2>3. Moved(v, v.position + k, v.offset + k, r.s)
      BY <2>2
    <2> QED
      BY <2>3 DEF Moved
  <1>4. Good(i, r.s) /\ Live(i, r.s) /\ Count(i, r.s) = s.offset + k
    BY <1>1, <1>2, <1>3 DEF Good, Live, Count
  <1>5. Calm(i, r.s) <=> v.errors = 0 /\ s.offset + k <= size
    BY <1>3 DEF Calm
  <1>6. Calm(i, s) <=> s.errors = 0 /\ s.offset <= size
    BY DEF Calm
  <1>7. v.errors \in {0, 1}
    BY DEF AdaptorStreams
  <1>8. Calm(i, r.s) => Calm(i, s)
    BY <1>1, <1>5, <1>6, <1>7
  <1>9. /\ Count(i, s) <= Count(i, r.s)
        /\ k = n - s.backup_bytes => Count(i, r.s) = Count(i, s) + n
        /\ ~(k = n - s.backup_bytes) => Count(i, r.s) < Count(i, s) + n
    BY <1>1, <1>2, <1>4
  <1>10. ~(k = n - s.backup_bytes) /\ Calm(i, r.s) => Count(i, r.s) = size
    BY <1>1, <1>4, <1>5, <1>6, <1>8
  <1> QED
    BY <1>4, <1>8, <1>9, <1>10, Zenon DEF SkipOutcome

LEMMA AdaptorSkipFacts ==
    ASSUME NEW i \in Positions, ~IsArray(i), NEW s, Good(i, s), Live(i, s), NEW n \in Nat,
           NEW r \in AdaptorSkip(i, s, n)
    PROVE  SkipOutcome(i, s, n, r)
  <1> DEFINE size == Leaves[i].size
  <1>1. /\ s \in AdaptorStreams
        /\ s.position \in Nat /\ s.buffer \in BOOLEAN /\ s.buffer_used \in Nat
        /\ s.backup_bytes \in Nat /\ s.failed \in BOOLEAN /\ s.offset \in Nat
        /\ s.errors \in {0, 1}
        /\ s.position = s.offset /\ s.buffer_used <= Leaves[i].block /\ s.buffer_used <= s.offset
        /\ s.backup_bytes <= s.buffer_used
        /\ s.backup_bytes > 0 => s.buffer /\ s.offset <= size
        /\ size \in Nat /\ Leaves[i].block \in Nat \ {0}
    BY AdaptorFacts
  <1>2. ~s.failed /\ Count(i, s) = s.offset - s.backup_bytes
    BY <1>1 DEF Live, Count
  <1>3. CASE s.backup_bytes >= n
    <2>1. r = Gives([s EXCEPT !.backup_bytes = @ - n], TRUE, 0, n)
      BY <1>2, <1>3, Zenon DEF AdaptorSkip
    <2>2. r.s = [s EXCEPT !.backup_bytes = @ - n] /\ r.ok = TRUE /\ r.crash = FALSE
      BY <2>1 DEF Gives
    <2>3. Good(i, r.s) /\ (Calm(i, r.s) => Calm(i, s)) /\ Live(i, r.s)
      BY <1>1, <1>2, <1>3, <2>2 DEF Good, Calm, Live, AdaptorStreams
    <2>4. Count(i, r.s) = Count(i, s) + n /\ Count(i, s) <= Count(i, r.s)
      BY <1>1, <1>2, <1>3, <2>2 DEF Count, AdaptorStreams
    <2>5. r.ok \in BOOLEAN
      BY <2>2
    <2> QED
      BY <2>2, <2>3, <2>4, <2>5, Zenon DEF SkipOutcome
  <1>4. CASE ~(s.backup_bytes >= n)
    <2> DEFINE rest     == n - s.backup_bytes
               t        == [s EXCEPT !.backup_bytes = 0, !.previous_seek_failed = Leaves[i].kind = "pipe"]
               avail    == Min({rest, Available(i, s)})
               By(u, k) == Gives([u EXCEPT !.offset = @ + k, !.position = @ + k], k = rest, 0, 0)
    <2>1. r \in IF Leaves[i].kind = "file" THEN {By(t, rest)}
                ELSE {By(t, avail)} \cup {By(Error(t), k) : k \in 0 .. Min({avail, rest - 1})}
      BY <1>2, <1>4, Zenon DEF AdaptorSkip
    <2>2. rest \in Nat \ {0}
      BY <1>1, <1>4
    <2>3. Available(i, s) = IF s.offset <= size THEN size - s.offset ELSE 0
      BY <1>1, AvailableFacts
    <2>4. avail \in Nat /\ avail <= rest /\ (avail < rest /\ s.offset <= size => s.offset + avail = size)
      BY <1>1, <2>2, <2>3, MinFacts
    <2>5. \A k \in 0 .. Min({avail, rest - 1}) : k \in Nat /\ k < rest
      <3> HIDE DEF rest, avail
      <3> QED
        BY <2>2, <2>4, MinFacts
    <2>6. /\ t \in AdaptorStreams /\ t.position = s.position /\ t.offset = s.offset
          /\ t.backup_bytes = 0 /\ t.buffer_used = s.buffer_used /\ t.failed = s.failed
          /\ t.errors = s.errors
      BY <1>1 DEF AdaptorStreams
    <2>7. /\ Error(t) \in AdaptorStreams /\ Error(t).position = s.position /\ Error(t).offset = s.offset
          /\ Error(t).backup_bytes = 0 /\ Error(t).buffer_used = s.buffer_used
          /\ Error(t).failed = s.failed /\ Error(t).errors = 1
      <3> HIDE DEF t
      <3> QED
        BY <2>6 DEF AdaptorStreams, Error
    <2> HIDE DEF t, avail
    <2>8. ASSUME NEW u \in AdaptorStreams, NEW k \in Nat, k <= rest,
                 u.position = s.position, u.offset = s.offset, u.backup_bytes = 0,
                 u.buffer_used = s.buffer_used, u.failed = s.failed, s.errors <= u.errors,
                 k < rest /\ u.errors = 0 => (s.offset <= size => s.offset + k = size),
                 r = By(u, k)
          PROVE  SkipOutcome(i, s, n, r)
      <3>1. /\ r.s = [u EXCEPT !.offset = u.offset + k, !.position = u.position + k]
            /\ r.crash = FALSE /\ r.ok = (k = rest)
        BY <2>8 DEF Gives
      <3>2. r.ok \in BOOLEAN /\ (r.ok <=> k = n - s.backup_bytes)
        BY <3>1
      <3>3. s.backup_bytes < n
        BY <1>1, <1>4
      <3>4. k <= n - s.backup_bytes
        BY <2>8
      <3>5. k < n - s.backup_bytes /\ u.errors = 0 =>
                (s.offset <= Leaves[i].size => s.offset + k = Leaves[i].size)
        BY <2>8
      <3> HIDE DEF By, rest
      <3> QED
        BY <2>8, <3>1, <3>2, <3>3, <3>4, <3>5, SkippedFacts, Zenon
    <2>9. \/ r = By(t, rest)
          \/ r = By(t, avail)
          \/ \E k \in 0 .. Min({avail, rest - 1}) : r = By(Error(t), k)
      <3> HIDE DEF By, rest
      <3> QED
        BY <2>1
    <2>10. CASE r = By(t, rest)
      <3>1. rest \in Nat /\ rest <= rest /\ ~(rest < rest) /\ s.errors <= t.errors
        BY <1>1, <2>2, <2>6
      <3> HIDE DEF By, rest
      <3> QED
        BY <2>6, <2>8, <2>10, <3>1, Zenon
    <2>11. CASE r = By(t, avail)
      <3>1. s.errors <= t.errors
        BY <1>1, <2>6
      <3> HIDE DEF By, rest
      <3> QED
        BY <2>4, <2>6, <2>8, <2>11, <3>1, Zenon
    <2>12. ASSUME NEW k \in 0 .. Min({avail, rest - 1}), r = By(Error(t), k)
           PROVE  SkipOutcome(i, s, n, r)
      <3> HIDE DEF By, rest
      <3>1. k \in Nat /\ k < rest
        BY <2>5
      <3>2. k <= rest /\ s.errors <= Error(t).errors /\ ~(Error(t).errors = 0)
        BY <1>1, <2>2, <2>7, <3>1
      <3> QED
        BY <2>7, <2>8, <2>12, <3>1, <3>2, Zenon
    <2> HIDE DEF By, rest
    <2> QED
      BY <2>9, <2>10, <2>11, <2>12, Zenon
  <1> QED
    BY <1>3, <1>4

LEMMA StreamSkipFacts ==
    ASSUME NEW i \in Positions, NEW s, Good(i, s), Live(i, s), NEW n \in Nat,
           NEW r \in StreamSkip(i, s, n)
    PROVE  SkipOutcome(i, s, n, r)
  BY ArraySkipFacts, AdaptorSkipFacts, Zenon DEF StreamSkip

(* A stream just asked for bytes takes them back. *)
BackUpOutcome(i, s, n, r) ==
    /\ r.crash = FALSE /\ Good(i, r.s) /\ (Live(i, s) => Live(i, r.s))
    /\ (Calm(i, r.s) => Calm(i, s)) /\ Count(i, r.s) = Count(i, s) - n

LEMMA StreamBackUpFacts ==
    ASSUME NEW i \in Positions, NEW s, Good(i, s), NEW n \in Nat, Fresh(i, s, n)
    PROVE  BackUpOutcome(i, s, n, StreamBackUp(i, s, n))
  <1> DEFINE r == StreamBackUp(i, s, n)
  <1>1. CASE IsArray(i)
    <2>1. /\ s \in ArrayStreams /\ s.position \in Nat /\ s.last_returned_size \in Nat
          /\ s.position <= Leaves[i].size /\ s.last_returned_size <= s.position
          /\ Leaves[i].size \in Nat /\ s.last_returned_size > 0 /\ n <= s.last_returned_size
      BY <1>1, LeafFacts DEF Good, Fresh, ArrayStreams
    <2>2. r = Gives([position |-> s.position - n, last_returned_size |-> 0], TRUE, 0, n)
      BY <1>1, <2>1 DEF StreamBackUp, ArrayBackUp
    <2> HIDE DEF r
    <2>3. r.s = [position |-> s.position - n, last_returned_size |-> 0] /\ r.crash = FALSE
      BY <2>2 DEF Gives
    <2>4. Good(i, r.s) /\ Live(i, r.s) /\ Calm(i, s) /\ Count(i, r.s) = Count(i, s) - n
      BY <1>1, <2>1, <2>3 DEF Good, Live, Calm, Count, ArrayStreams
    <2>5. BackUpOutcome(i, s, n, r)
      BY <2>3, <2>4, Zenon DEF BackUpOutcome
    <2> QED
      BY <2>5 DEF r
  <1>2. CASE ~IsArray(i)
    <2>1. /\ s \in AdaptorStreams
          /\ s.position \in Nat /\ s.buffer \in BOOLEAN /\ s.buffer_used \in Nat
          /\ s.backup_bytes \in Nat /\ s.failed \in BOOLEAN /\ s.offset \in Nat
          /\ s.errors \in {0, 1}
          /\ s.position = s.offset /\ s.buffer_used <= Leaves[i].block /\ s.buffer_used <= s.offset
          /\ s.backup_bytes <= s.buffer_used
          /\ s.backup_bytes > 0 => s.buffer /\ s.offset <= Leaves[i].size
          /\ Leaves[i].size \in Nat /\ Leaves[i].block \in Nat \ {0}
      BY <1>2, AdaptorFacts
    <2>2. s.backup_bytes = 0 /\ s.buffer /\ n <= s.buffer_used /\ s.offset <= Leaves[i].size
      BY <1>2 DEF Fresh
    <2>3. r = Gives([s EXCEPT !.backup_bytes = n], TRUE, 0, n)
      BY <1>2, <2>2 DEF StreamBackUp, AdaptorBackUp
    <2> HIDE DEF r
    <2>4. r.s = [s EXCEPT !.backup_bytes = n] /\ r.crash = FALSE
      BY <2>3 DEF Gives
    <2>5. /\ Good(i, r.s) /\ (Live(i, s) => Live(i, r.s)) /\ (Calm(i, r.s) => Calm(i, s))
          /\ Count(i, r.s) = Count(i, s) - n
      BY <1>2, <2>1, <2>2, <2>4 DEF Good, Live, Calm, Count, AdaptorStreams
    <2>6. BackUpOutcome(i, s, n, r)
      BY <2>4, <2>5, Zenon DEF BackUpOutcome
    <2> QED
      BY <2>6 DEF r
  <1> QED
    BY <1>1, <1>2

(* What a call to one stream gives is a record of five fields. *)
Result(r) == r = [s |-> r.s, ok |-> r.ok, first |-> r.first, n |-> r.n, crash |-> r.crash]

LEMMA GivesIsResult ==
    ASSUME NEW s, NEW ok, NEW first, NEW n
    PROVE  Result(Gives(s, ok, first, n)) /\ Result(Fails(s))
  BY DEF Gives, Fails, Result

LEMMA StreamResults ==
    ASSUME NEW i, NEW s, NEW n
    PROVE  /\ \A r \in StreamNext(i, s) : Result(r)
           /\ \A r \in StreamSkip(i, s, n) : Result(r)
  <1>1. \A r \in ArrayNext(i, s) : Result(r)
    BY GivesIsResult, Zenon DEF ArrayNext
  <1>2. \A r \in AdaptorRead(i, s) : Result(r)
    <2> DEFINE Got(k) == Gives([s EXCEPT !.buffer = TRUE, !.buffer_used = k, !.position = @ + k,
                                         !.offset = @ + k], TRUE, s.offset, k)
    <2>1. AdaptorRead(i, s) =
              {Fails(FreeBuffer([Error(s) EXCEPT !.failed = TRUE]))}
              \cup (IF Available(i, s) = 0 THEN {Fails(FreeBuffer(s))} ELSE {})
              \cup {Got(k) : k \in 1 .. Min({Leaves[i].block, Available(i, s)})}
      BY Zenon DEF AdaptorRead
    <2>2. \A k : Result(Got(k))
      BY GivesIsResult, Zenon
    <2>3. Result(Fails(FreeBuffer([Error(s) EXCEPT !.failed = TRUE]))) /\ Result(Fails(FreeBuffer(s)))
      BY GivesIsResult, Zenon
    <2> HIDE DEF Got
    <2> QED
      BY <2>1, <2>2, <2>3
  <1>3. \A r \in AdaptorNext(i, s) : Result(r)
    BY <1>2, GivesIsResult, Zenon DEF AdaptorNext
  <1>4. \A r \in ArraySkip(i, s, n) : Result(r)
    BY GivesIsResult, Zenon DEF ArraySkip
  <1>5. \A r \in AdaptorSkip(i, s, n) : Result(r)
    <2> DEFINE rest     == n - s.backup_bytes
               t        == [s EXCEPT !.backup_bytes = 0, !.previous_seek_failed = Leaves[i].kind = "pipe"]
               avail    == Min({rest, Available(i, s)})
               By(u, k) == Gives([u EXCEPT !.offset = @ + k, !.position = @ + k], k = rest, 0, 0)
               back     == Gives([s EXCEPT !.backup_bytes = @ - n], TRUE, 0, n)
    <2>1. AdaptorSkip(i, s, n) =
              IF s.failed THEN {Fails(s)} ELSE IF s.backup_bytes >= n THEN {back}
              ELSE IF Leaves[i].kind = "file" THEN {By(t, rest)}
              ELSE {By(t, avail)} \cup {By(Error(t), k) : k \in 0 .. Min({avail, rest - 1})}
      BY Zenon DEF AdaptorSkip
    <2>2. \A u, k : Result(By(u, k))
      BY GivesIsResult, Zenon
    <2>3. Result(Fails(s)) /\ Result(back)
      BY GivesIsResult, Zenon
    <2> HIDE DEF By, back, t, avail, rest
    <2> QED
      BY <2>1, <2>2, <2>3
  <1> QED
    BY <1>1, <1>3, <1>4, <1>5, Zenon DEF StreamNext, StreamSkip

-----------------------------------------------------------------------------
(* The streams put together. *)

(* The streams not reached yet are untouched, and none of those that are    *)
(* not done has failed.                                                     *)
Sound(ss, c) ==
    /\ ss = [i \in Positions |-> ss[i]]
    /\ c \in [first : 1 .. (Len(Leaves) + 1), bytes_retired : Nat]
    /\ \A i \in Positions : /\ Good(i, ss[i])
                            /\ i >= c.first => Live(i, ss[i])
                            /\ i > c.first => Count(i, ss[i]) = 0

(* A stream is done when all of it has been read. *)
Exact(ss, c) == Undisturbed(ss) => c.bytes_retired = Start(c.first)

(* The first byte that can still be returned. *)
Reach(ss, c) ==
    IF c.first > Len(Leaves) THEN Length
    ELSE Start(c.first) + Min({Leaves[c.first].size, Count(c.first, ss[c.first])})

LEMMA UndisturbedIsCalm ==
    ASSUME NEW ss
    PROVE  Undisturbed(ss) <=> \A i \in Positions : Calm(i, ss[i])
  BY DEF Undisturbed, Calm

LEMMA StreamByteCountIsCount ==
    ASSUME NEW ss, NEW i
    PROVE  StreamByteCount(ss, i) = Count(i, ss[i])
  BY DEF StreamByteCount, Count

LEMMA ReachFacts ==
    ASSUME NEW ss, NEW c, Sound(ss, c)
    PROVE  /\ Reach(ss, c) \in Nat /\ ByteCount(ss, c) \in Nat
           /\ c.first \in Positions =>
                  Reach(ss, c) <= Start(c.first) + Count(c.first, ss[c.first])
           /\ c.first \in Positions /\ Count(c.first, ss[c.first]) <= Leaves[c.first].size =>
                  Reach(ss, c) = Start(c.first) + Count(c.first, ss[c.first])
           /\ Undisturbed(ss) /\ Exact(ss, c) =>
                  Reach(ss, c) = ByteCount(ss, c) /\ ByteCount(ss, c) <= Length
  <1> DEFINE i == c.first
             n == Count(i, ss[i])
  <1>1. i \in 1 .. (Len(Leaves) + 1) /\ c.bytes_retired \in Nat /\ Len(Leaves) \in Nat
    BY LeafFacts DEF Sound
  <1>2. CASE i > Len(Leaves)
    <2>1. i = Len(Leaves) + 1 /\ i \notin Positions /\ Start(i) = Length /\ Start(i) \in Nat
      BY <1>1, <1>2, LeafFacts, StartFacts
    <2>2. Reach(ss, c) = Length /\ ByteCount(ss, c) = c.bytes_retired
      BY <1>1, <1>2 DEF Reach, ByteCount
    <2> QED
      BY <1>1, <2>1, <2>2 DEF Exact
  <1>3. CASE ~(i > Len(Leaves))
    <2>1. i \in Positions
      BY <1>1, <1>3, LeafFacts
    <2>2. /\ Start(i) \in Nat /\ Leaves[i].size \in Nat /\ n \in Nat
          /\ Calm(i, ss[i]) => n <= Leaves[i].size
      BY <1>1, <2>1, LeafFacts, StartFacts, CountFacts DEF Sound
    <2>3. Start(i + 1) = Start(i) + Leaves[i].size
      BY <2>1, StartFacts
    <2>4. Start(i + 1) <= Length
      <3> DEFINE T == {k \in Nat : k \in 1 .. (Len(Leaves) + 1) => \A j \in 1 .. k : Start(j) <= Start(k)}
      <3>1. 0 \in T
        OBVIOUS
      <3>2. ASSUME NEW k \in Nat, k \in T PROVE k + 1 \in T
        <4> SUFFICES ASSUME k + 1 \in 1 .. (Len(Leaves) + 1), NEW j \in 1 .. (k + 1)
                     PROVE  Start(j) <= Start(k + 1)
          OBVIOUS
        <4>1. CASE j = k + 1
          BY <4>1, StartFacts
        <4>2. CASE j \in 1 .. k
          <5>1. k \in Positions /\ k \in 1 .. (Len(Leaves) + 1)
            BY <1>1, <4>2, LeafFacts
          <5>2. Start(j) <= Start(k)
            BY <3>2, <4>2, <5>1
          <5>3. Start(k + 1) = Start(k) + Leaves[k].size /\ Leaves[k].size \in Nat
            BY <5>1, StartFacts, LeafFacts
          <5>4. Start(j) \in Nat /\ Start(k) \in Nat
            BY <1>1, <4>2, <5>1, StartFacts
          <5> QED
            BY <5>2, <5>3, <5>4
        <4> QED
          BY <4>1, <4>2
      <3> HIDE DEF T
      <3>3. Len(Leaves) + 1 \in T
        BY <3>1, <3>2, <1>1, SetInduction
      <3>4. i + 1 \in 1 .. (Len(Leaves) + 1)
        BY <1>1, <1>3
      <3> QED
        BY <1>1, <3>3, <3>4, StartFacts DEF T
    <2>5. Reach(ss, c) = Start(i) + Min({Leaves[i].size, n})
      BY <1>3 DEF Reach
    <2>6. ByteCount(ss, c) = c.bytes_retired + n
      BY <1>3, StreamByteCountIsCount DEF ByteCount
    <2>7. Undisturbed(ss) => n <= Leaves[i].size
      BY <2>1, <2>2, UndisturbedIsCalm
    <2>8. Min({Leaves[i].size, n}) = IF Leaves[i].size <= n THEN Leaves[i].size ELSE n
      BY <2>2, MinFacts
    <2>9. Length \in Nat /\ c.bytes_retired \in Nat
      BY <1>1, StartFacts
    <2> HIDE DEF i, n
    <2>10. Undisturbed(ss) /\ Exact(ss, c) => c.bytes_retired = Start(i)
      BY DEF Exact, i
    <2>11. /\ Reach(ss, c) \in Nat /\ ByteCount(ss, c) \in Nat
           /\ Reach(ss, c) <= Start(i) + n
           /\ n <= Leaves[i].size => Reach(ss, c) = Start(i) + n
      BY <2>2, <2>5, <2>6, <2>8, <2>9
    <2>12. Undisturbed(ss) /\ Exact(ss, c) => Reach(ss, c) = ByteCount(ss, c) /\ ByteCount(ss, c) <= Length
      BY <2>2, <2>3, <2>4, <2>6, <2>7, <2>9, <2>10, <2>11
    <2> QED
      BY <2>11, <2>12 DEF i, n
  <1> QED
    BY <1>2, <1>3

(* A stream answers, and stays the first. *)
LEMMA AnswerFacts ==
    ASSUME NEW ss, NEW c, Sound(ss, c), Exact(ss, c), c.first \in Positions, NEW t,
           Good(c.first, t), Live(c.first, t), Calm(c.first, t) => Calm(c.first, ss[c.first])
    PROVE  LET new == [ss EXCEPT ![c.first] = t]
           IN  /\ Sound(new, c) /\ Exact(new, c) /\ new[c.first] = t
               /\ Undisturbed(new) => Undisturbed(ss)
  <1> DEFINE i == c.first
             new == [ss EXCEPT ![i] = t]
  <1>1. /\ new = [j \in Positions |-> IF j = i THEN t ELSE ss[j]]
        /\ c \in [first : 1 .. (Len(Leaves) + 1), bytes_retired : Nat]
    BY DEF Sound
  <1>2. i \in Nat /\ \A j \in Positions : j \in Nat
    BY LeafFacts
  <1> HIDE DEF new
  <1>3. /\ new = [j \in Positions |-> new[j]] /\ new[i] = t
        /\ \A j \in Positions : j # i => new[j] = ss[j]
    BY <1>1
  <1>4. ASSUME NEW j \in Positions
        PROVE  Good(j, new[j]) /\ (j >= i => Live(j, new[j])) /\ (j > i => Count(j, new[j]) = 0)
    <2>1. CASE j = i
      BY <1>2, <1>3, <2>1
    <2>2. CASE j # i
      BY <1>3, <2>2 DEF Sound
    <2> QED
      BY <2>1, <2>2
  <1>5. Sound(new, c)
    BY <1>1, <1>3, <1>4 DEF Sound
  <1>6. Undisturbed(new) => Undisturbed(ss)
    <2> SUFFICES ASSUME \A j \in Positions : Calm(j, new[j]), NEW j \in Positions PROVE Calm(j, ss[j])
      BY UndisturbedIsCalm, Zenon
    <2> QED
      BY <1>3
  <1> QED
    BY <1>3, <1>5, <1>6 DEF Exact, new

(* A stream is done: the next one is the first, at its beginning. *)
LEMMA RetireFacts ==
    ASSUME NEW ss, NEW c, Sound(ss, c), Exact(ss, c), c.first \in Positions, NEW t,
           Good(c.first, t), Calm(c.first, t) => Calm(c.first, ss[c.first]),
           Calm(c.first, t) => Count(c.first, t) = Leaves[c.first].size
    PROVE  LET new == [ss EXCEPT ![c.first] = t]
               next == [first |-> c.first + 1, bytes_retired |-> c.bytes_retired + Count(c.first, t)]
           IN  /\ Sound(new, next) /\ Exact(new, next)
               /\ Undisturbed(new) => Undisturbed(ss)
               /\ Count(c.first, new[c.first]) = Count(c.first, t)
               /\ ByteCount(new, next) = c.bytes_retired + Count(c.first, t)
               /\ Reach(new, next) = Start(c.first) + Leaves[c.first].size
  <1> DEFINE i == c.first
             new == [ss EXCEPT ![i] = t]
             next == [first |-> i + 1, bytes_retired |-> c.bytes_retired + Count(i, t)]
  <1>1. /\ new = [j \in Positions |-> IF j = i THEN t ELSE ss[j]]
        /\ c.bytes_retired \in Nat
    BY DEF Sound
  <1>2. i \in Nat /\ i \in Positions /\ \A j \in Positions : j \in Nat
    BY LeafFacts
  <1>3. Count(i, t) \in Nat
    BY CountFacts
  <1> HIDE DEF new
  <1>4. /\ new = [j \in Positions |-> new[j]] /\ new[i] = t
        /\ \A j \in Positions : j # i => new[j] = ss[j]
    BY <1>1
  <1>5. /\ next \in [first : 1 .. (Len(Leaves) + 1), bytes_retired : Nat]
        /\ next.first = i + 1 /\ next.bytes_retired = c.bytes_retired + Count(i, t)
    BY <1>1, <1>2, <1>3, LeafFacts
  <1> HIDE DEF next
  <1>6. ASSUME NEW j \in Positions
        PROVE  /\ Good(j, new[j]) /\ (j >= next.first => Live(j, new[j]))
               /\ j >= next.first => Count(j, new[j]) = 0
    <2>1. CASE j = i
      <3>1. ~(j >= next.first)
        BY <1>2, <1>5, <2>1
      <3> QED
        BY <1>4, <2>1, <3>1
    <2>2. CASE j # i
      <3>1. j >= next.first => j >= i /\ j > i
        BY <1>2, <1>5
      <3>2. new[j] = ss[j]
        BY <1>4, <2>2
      <3> QED
        BY <3>1, <3>2 DEF Sound
    <2> QED
      BY <2>1, <2>2
  <1>7. Sound(new, next)
    <2>1. \A j \in Positions : j > next.first => j >= next.first
      BY <1>2, <1>5
    <2> QED
      BY <1>4, <1>5, <1>6, <2>1 DEF Sound
  <1>8. ASSUME Undisturbed(new) PROVE Undisturbed(ss) /\ next.bytes_retired = Start(next.first)
    <2>1. \A j \in Positions : Calm(j, new[j])
      BY <1>8, UndisturbedIsCalm
    <2>2. Calm(i, t)
      BY <1>2, <1>4, <2>1
    <2>3. \A j \in Positions : Calm(j, ss[j])
      BY <1>4, <2>1, <2>2
    <2>4. Undisturbed(ss)
      BY <2>3, UndisturbedIsCalm
    <2>5. c.bytes_retired = Start(i) /\ Count(i, t) = Leaves[i].size
      BY <2>2, <2>4 DEF Exact
    <2> QED
      BY <1>2, <1>5, <2>4, <2>5, StartFacts
  <1>9. /\ ByteCount(new, next) = next.bytes_retired
        /\ Reach(new, next) = Start(next.first)
    <2>1. CASE next.first > Len(Leaves)
      <3>1. next.first = Len(Leaves) + 1
        BY <1>2, <1>5, <2>1, LeafFacts
      <3> QED
        BY <1>1, <1>3, <1>5, <2>1, <3>1, StartFacts DEF ByteCount, Reach
    <2>2. CASE ~(next.first > Len(Leaves))
      <3> DEFINE k == next.first
      <3>1. k \in Positions
        BY <1>2, <1>5, <2>2, LeafFacts
      <3>2. k >= next.first
        BY <1>2, <3>1
      <3> HIDE DEF k
      <3>3. Count(k, new[k]) = 0
        BY <1>6, <3>1, <3>2
      <3>4. /\ ByteCount(new, next) = next.bytes_retired + Count(k, new[k])
            /\ Reach(new, next) = Start(k) + Min({Leaves[k].size, Count(k, new[k])})
        BY <2>2, StreamByteCountIsCount DEF ByteCount, Reach, k
      <3>5. Min({Leaves[k].size, 0}) = 0 /\ Start(k) \in Nat
        <4>1. Leaves[k].size \in Nat /\ Start(k) \in Nat
          BY <3>1, LeafFacts, StartFacts
        <4>2. Min({Leaves[k].size, 0}) = IF Leaves[k].size <= 0 THEN Leaves[k].size ELSE 0
          BY <4>1, MinFacts
        <4> QED
          BY <4>1, <4>2
      <3>6. next.bytes_retired \in Nat
        BY <1>1, <1>3, <1>5
      <3> QED
        BY <3>3, <3>4, <3>5, <3>6 DEF k
    <2> QED
      BY <2>1, <2>2
  <1>10. Start(next.first) = Start(i) + Leaves[i].size
    BY <1>2, <1>5, StartFacts
  <1> QED
    BY <1>4, <1>5, <1>7, <1>8, <1>9, <1>10 DEF Exact, new, next

-----------------------------------------------------------------------------
(* A call on its way through the streams: what holds of its state. *)
Shaped(a) ==
    /\ a = [ss |-> a.ss, c |-> a.c, r |-> a.r, skip |-> a.skip, n |-> a.n, over |-> a.over]
    /\ Result(a.r) /\ a.over \in BOOLEAN /\ a.r.ok \in BOOLEAN /\ (a.r.ok <=> a.over)
    /\ a.r.crash = FALSE

OnTheWay(a) ==
    /\ Sound(a.ss, a.c) /\ Exact(a.ss, a.c)
    /\ Undisturbed(a.ss) => Undisturbed(streams)

(* A Next() that no stream has answered has moved nothing; one that was     *)
(* answered was given what follows.                                         *)
AskedNext(a) ==
    /\ ~a.over => /\ Reach(streams, concat) <= Reach(a.ss, a.c)
                  /\ Undisturbed(a.ss) => ByteCount(a.ss, a.c) = ByteCount(streams, concat)
    /\ a.over => /\ a.c.first \in Positions /\ a.r.n \in Nat \ {0} /\ a.r.first \in Nat
                 /\ Fresh(a.c.first, a.ss[a.c.first], a.r.n)
                 /\ Reach(streams, concat) <= a.r.first
                 /\ a.r.first + a.r.n = Start(a.c.first) + Count(a.c.first, a.ss[a.c.first])
                 /\ Undisturbed(a.ss) => a.r.first = ByteCount(streams, concat)

(* A Skip() of n bytes still has to skip what it has not. *)
AskedSkip(n, a) ==
    /\ Reach(streams, concat) <= Reach(a.ss, a.c)
    /\ ~a.over => /\ a.n \in Nat /\ (a.n = 0 => n = 0)
                  /\ Undisturbed(a.ss) => ByteCount(a.ss, a.c) + a.n = ByteCount(streams, concat) + n
    /\ a.over => /\ a.c.first \in Positions
                 /\ Undisturbed(a.ss) => ByteCount(a.ss, a.c) = ByteCount(streams, concat) + n

Asked(skip, n, a) ==
    /\ Shaped(a) /\ OnTheWay(a)
    /\ a.skip \in BOOLEAN /\ (a.skip <=> skip)
    /\ skip => AskedSkip(n, a)
    /\ ~skip => AskedNext(a)

LEMMA AskingFacts ==
    ASSUME Sound(streams, concat), Exact(streams, concat), NEW skip \in BOOLEAN, NEW n \in Nat
    PROVE  Asked(skip, n, Asking(skip, n)) /\ Asking(skip, n).c = concat
  <1> DEFINE a == Asking(skip, n)
  <1>1. /\ a.ss = streams /\ a.c = concat /\ a.skip = skip /\ a.n = n /\ a.over = FALSE
        /\ a.r = Fails(0)
    BY DEF Asking
  <1>2. a.r.ok = FALSE /\ a.r.crash = FALSE /\ Result(a.r)
    BY <1>1, GivesIsResult DEF Fails, Gives
  <1>3. a = [ss |-> a.ss, c |-> a.c, r |-> a.r, skip |-> a.skip, n |-> a.n, over |-> a.over]
    BY DEF Asking
  <1> HIDE DEF a
  <1>4. Shaped(a)
    BY <1>1, <1>2, <1>3 DEF Shaped
  <1>5. OnTheWay(a)
    BY <1>1, Zenon DEF OnTheWay
  <1>6. Reach(streams, concat) <= Reach(a.ss, a.c)
    BY <1>1, ReachFacts
  <1>7. AskedNext(a) /\ AskedSkip(n, a)
    BY <1>1, <1>6 DEF AskedNext, AskedSkip
  <1> QED
    BY <1>1, <1>4, <1>5, <1>7 DEF Asked, a

LEMMA AskNextFacts ==
    ASSUME Sound(streams, concat), NEW a, Asked(FALSE, 0, a), ~a.over, a.c.first \in Positions,
           NEW b \in AskNext(a)
    PROVE  Asked(FALSE, 0, b) /\ (b.over \/ b.c.first = a.c.first + 1)
  <1> DEFINE i == a.c.first
             s == a.ss[i]
  <1>1. /\ Shaped(a) /\ Sound(a.ss, a.c) /\ Exact(a.ss, a.c)
        /\ Undisturbed(a.ss) => Undisturbed(streams)
        /\ Reach(streams, concat) <= Reach(a.ss, a.c)
        /\ Undisturbed(a.ss) => ByteCount(a.ss, a.c) = ByteCount(streams, concat)
        /\ a.skip = FALSE
    BY DEF Asked, OnTheWay, AskedNext
  <1>2. i \in Nat /\ Good(i, s) /\ Live(i, s)
    BY <1>1, LeafFacts DEF Sound
  <1>3. PICK r \in StreamNext(i, s) :
            b = IF r.ok THEN Answer(a, [a.ss EXCEPT ![i] = r.s], r) ELSE Retire(a, [a.ss EXCEPT ![i] = r.s])
    BY Zenon DEF AskNext, StreamNext
  <1>4. NextOutcome(i, s, r) /\ Result(r)
    BY <1>2, StreamNextFacts, StreamResults, Zenon
  <1>5. /\ Good(i, r.s) /\ (Calm(i, r.s) => Calm(i, s))
        /\ r.ok \in BOOLEAN /\ r.crash = FALSE
        /\ r.ok => /\ r.n \in Nat \ {0} /\ r.first = Count(i, s)
                   /\ r.first + r.n <= Leaves[i].size
                   /\ Count(i, r.s) = r.first + r.n
                   /\ Live(i, r.s) /\ Fresh(i, r.s, r.n)
        /\ ~r.ok => /\ Count(i, r.s) = Count(i, s)
                    /\ Calm(i, r.s) => Count(i, r.s) = Leaves[i].size
    BY <1>4, Zenon DEF NextOutcome
  <1>6. /\ Count(i, s) \in Nat /\ Start(i) \in Nat /\ Leaves[i].size \in Nat
        /\ Reach(a.ss, a.c) <= Start(i) + Count(i, s)
        /\ Count(i, s) <= Leaves[i].size => Reach(a.ss, a.c) = Start(i) + Count(i, s)
        /\ Undisturbed(a.ss) => Reach(a.ss, a.c) = ByteCount(a.ss, a.c)
        /\ Reach(a.ss, a.c) \in Nat /\ Reach(streams, concat) \in Nat
        /\ ByteCount(a.ss, a.c) = a.c.bytes_retired + Count(i, s)
        /\ Start(i) + Leaves[i].size >= Reach(a.ss, a.c)
    <2>1. Count(i, s) \in Nat /\ Leaves[i].size \in Nat /\ Start(i) \in Nat
      BY <1>2, CountFacts, LeafFacts, StartFacts
    <2>2. ~(i > Len(Leaves))
      BY LeafFacts
    <2>3. ByteCount(a.ss, a.c) = a.c.bytes_retired + Count(i, s)
      BY <2>2, StreamByteCountIsCount DEF ByteCount
    <2>4. Reach(a.ss, a.c) = Start(i) + Min({Leaves[i].size, Count(i, s)})
      BY <2>2 DEF Reach
    <2>5. Reach(a.ss, a.c) \in Nat /\ Reach(streams, concat) \in Nat
      BY <1>1, ReachFacts
    <2>6. Undisturbed(a.ss) => Reach(a.ss, a.c) = ByteCount(a.ss, a.c)
      BY <1>1, ReachFacts
    <2>7. Min({Leaves[i].size, Count(i, s)}) = IF Leaves[i].size <= Count(i, s) THEN Leaves[i].size ELSE Count(i, s)
      BY <2>1, MinFacts
    <2> HIDE DEF i, s
    <2> QED
      BY <2>1, <2>3, <2>4, <2>5, <2>6, <2>7
  <1> DEFINE new == [a.ss EXCEPT ![i] = r.s]
  <1>7. CASE r.ok
    <2>1. /\ Sound(new, a.c) /\ Exact(new, a.c) /\ new[i] = r.s
          /\ Undisturbed(new) => Undisturbed(a.ss)
      <3>1. /\ Sound(a.ss, a.c) /\ Exact(a.ss, a.c) /\ i \in Positions
            /\ Good(i, r.s) /\ Live(i, r.s) /\ (Calm(i, r.s) => Calm(i, a.ss[i]))
        BY <1>1, <1>5, <1>7
      <3> QED
        BY <3>1, AnswerFacts, Zenon
    <2> HIDE DEF new
    <2>2. b = Answer(a, new, r)
      BY <1>3, <1>7 DEF new
    <2>3. /\ b.ss = new /\ b.c = a.c /\ b.skip = FALSE /\ b.over = TRUE
          /\ b.r = [r EXCEPT !.first = @ + Start(i)]
          /\ b = [ss |-> b.ss, c |-> b.c, r |-> b.r, skip |-> b.skip, n |-> b.n, over |-> b.over]
      BY <1>1, <2>2 DEF Answer, Shaped
    <2>4. /\ b.r.ok = TRUE /\ b.r.crash = FALSE /\ b.r.n = r.n /\ b.r.first = r.first + Start(i)
          /\ Result(b.r)
      BY <1>4, <1>5, <1>7, <2>3 DEF Result
    <2>5. Shaped(b)
      BY <2>3, <2>4 DEF Shaped
    <2>6. OnTheWay(b)
      BY <1>1, <2>1, <2>3, Zenon DEF OnTheWay
    <2>7. Undisturbed(new) => b.r.first = ByteCount(streams, concat)
      BY <1>1, <1>5, <1>6, <1>7, <2>1, <2>4
    <2>8. /\ b.r.n \in Nat \ {0} /\ b.r.first \in Nat /\ Reach(streams, concat) <= b.r.first
          /\ b.r.first + b.r.n = Start(i) + Count(i, new[i])
      BY <1>1, <1>5, <1>6, <1>7, <2>1, <2>4
    <2>9. Fresh(i, new[i], b.r.n)
      BY <1>5, <1>7, <2>1, <2>4
    <2>10. AskedNext(b)
      BY <2>3, <2>7, <2>8, <2>9 DEF AskedNext
    <2> QED
      BY <2>3, <2>5, <2>6, <2>10 DEF Asked
  <1>8. CASE ~r.ok
    <2> DEFINE next == [first |-> i + 1, bytes_retired |-> a.c.bytes_retired + Count(i, r.s)]
    <2>1. /\ Sound(new, next) /\ Exact(new, next)
          /\ Undisturbed(new) => Undisturbed(a.ss)
          /\ Count(i, new[i]) = Count(i, r.s)
          /\ ByteCount(new, next) = a.c.bytes_retired + Count(i, r.s)
          /\ Reach(new, next) = Start(i) + Leaves[i].size
      <3>1. /\ Sound(a.ss, a.c) /\ Exact(a.ss, a.c) /\ i \in Positions
            /\ Good(i, r.s) /\ (Calm(i, r.s) => Calm(i, a.ss[i]))
            /\ Calm(i, r.s) => Count(i, r.s) = Leaves[i].size
        BY <1>1, <1>5, <1>8
      <3> QED
        BY <3>1, RetireFacts, Zenon
    <2> HIDE DEF new
    <2>2. b = Retire(a, new)
      BY <1>3, <1>8 DEF new
    <2>3. a.c = [first |-> a.c.first, bytes_retired |-> a.c.bytes_retired]
      BY <1>1 DEF Sound
    <2>4. /\ b.ss = new /\ b.skip = FALSE /\ b.over = a.over /\ b.r = a.r
          /\ b.c = next
          /\ b = [ss |-> b.ss, c |-> b.c, r |-> b.r, skip |-> b.skip, n |-> b.n, over |-> b.over]
      BY <1>1, <2>1, <2>2, <2>3, StreamByteCountIsCount DEF Retire, Shaped
    <2>5. next.first = i + 1
      OBVIOUS
    <2> HIDE DEF next
    <2>6. Shaped(b)
      BY <1>1, <2>4 DEF Shaped
    <2>7. OnTheWay(b)
      BY <1>1, <2>1, <2>4, Zenon DEF OnTheWay
    <2>8. Reach(streams, concat) <= Reach(new, next)
      BY <1>1, <1>6, <2>1
    <2>9. Undisturbed(new) => ByteCount(new, next) = ByteCount(streams, concat)
      BY <1>1, <1>5, <1>6, <1>8, <2>1
    <2>10. AskedNext(b)
      BY <2>4, <2>8, <2>9 DEF AskedNext
    <2> QED
      BY <2>4, <2>5, <2>6, <2>7, <2>10 DEF Asked
  <1> QED
    BY <1>5, <1>7, <1>8

(* What is known of the stream asked. *)
LEMMA FirstFacts ==
    ASSUME NEW ss, NEW c, Sound(ss, c), Exact(ss, c), c.first \in Positions
    PROVE  LET i == c.first
               s == ss[i]
           IN  /\ i \in Nat /\ Good(i, s) /\ Live(i, s)
               /\ Count(i, s) \in Nat /\ Start(i) \in Nat /\ Leaves[i].size \in Nat
               /\ Reach(ss, c) = Start(i) + IF Leaves[i].size <= Count(i, s) THEN Leaves[i].size
                                            ELSE Count(i, s)
               /\ Undisturbed(ss) => Reach(ss, c) = ByteCount(ss, c)
               /\ ByteCount(ss, c) = c.bytes_retired + Count(i, s)
               /\ c.bytes_retired \in Nat
  <1> DEFINE i == c.first
             s == ss[i]
  <1>1. i \in Nat /\ i \in Positions /\ Good(i, s) /\ Live(i, s) /\ c.bytes_retired \in Nat
    BY LeafFacts DEF Sound
  <1>2. Count(i, s) \in Nat /\ Leaves[i].size \in Nat /\ Start(i) \in Nat
    BY <1>1, CountFacts, LeafFacts, StartFacts
  <1>3. ~(i > Len(Leaves))
    BY LeafFacts
  <1>4. ByteCount(ss, c) = c.bytes_retired + Count(i, s)
    BY <1>3, StreamByteCountIsCount DEF ByteCount
  <1>5. Reach(ss, c) = Start(i) + Min({Leaves[i].size, Count(i, s)})
    BY <1>3 DEF Reach
  <1>6. Undisturbed(ss) => Reach(ss, c) = ByteCount(ss, c)
    BY ReachFacts
  <1>7. Min({Leaves[i].size, Count(i, s)}) = IF Leaves[i].size <= Count(i, s) THEN Leaves[i].size ELSE Count(i, s)
    BY <1>2, MinFacts
  <1> QED
    BY <1>1, <1>2, <1>4, <1>5, <1>6, <1>7

(* A Skip() goes on to the next stream with what is left. *)
LEMMA LeftFacts ==
    ASSUME NEW d, d = [ss |-> d.ss, c |-> d.c, r |-> d.r, skip |-> d.skip, n |-> d.n, over |-> d.over],
           Result(d.r), NEW l, NEW over, NEW crash,
           NEW b, b = [d EXCEPT !.n = l, !.over = over, !.r.crash = crash]
    PROVE  /\ b.ss = d.ss /\ b.c = d.c /\ b.skip = d.skip /\ b.n = l /\ b.over = over
           /\ b.r = [d.r EXCEPT !.crash = crash]
           /\ b = [ss |-> b.ss, c |-> b.c, r |-> b.r, skip |-> b.skip, n |-> b.n, over |-> b.over]
  <1> DEFINE e == [d EXCEPT !.n = l]
             f == [e EXCEPT !.over = over]
  <1>1. e = [ss |-> d.ss, c |-> d.c, r |-> d.r, skip |-> d.skip, n |-> l, over |-> d.over]
    OBVIOUS
  <1>2. b = [f EXCEPT !.r = [f.r EXCEPT !.crash = crash]]
    OBVIOUS
  <1> HIDE DEF e
  <1>3. f = [ss |-> d.ss, c |-> d.c, r |-> d.r, skip |-> d.skip, n |-> l, over |-> over]
    BY <1>1
  <1> HIDE DEF f
  <1>4. b = [ss |-> d.ss, c |-> d.c, r |-> [d.r EXCEPT !.crash = crash], skip |-> d.skip,
             n |-> l, over |-> over]
    BY <1>2, <1>3
  <1> QED
    BY <1>4

LEMMA AskSkipFacts ==
    ASSUME Sound(streams, concat), NEW n \in Nat, NEW a, Asked(TRUE, n, a), ~a.over,
           a.c.first \in Positions, NEW b \in AskSkip(a)
    PROVE  Asked(TRUE, n, b) /\ (b.over \/ b.c.first = a.c.first + 1)
  <1> DEFINE i == a.c.first
             s == a.ss[i]
  <1>1. /\ Shaped(a) /\ Sound(a.ss, a.c) /\ Exact(a.ss, a.c)
        /\ Undisturbed(a.ss) => Undisturbed(streams)
        /\ Reach(streams, concat) <= Reach(a.ss, a.c)
        /\ a.n \in Nat /\ (a.n = 0 => n = 0)
        /\ Undisturbed(a.ss) => ByteCount(a.ss, a.c) + a.n = ByteCount(streams, concat) + n
        /\ a.skip = TRUE
    BY DEF Asked, OnTheWay, AskedSkip
  <1>2. /\ i \in Nat /\ Good(i, s) /\ Live(i, s)
        /\ Count(i, s) \in Nat /\ Start(i) \in Nat /\ Leaves[i].size \in Nat
        /\ Reach(a.ss, a.c) = Start(i) + IF Leaves[i].size <= Count(i, s) THEN Leaves[i].size ELSE Count(i, s)
        /\ ByteCount(a.ss, a.c) = a.c.bytes_retired + Count(i, s)
        /\ a.c.bytes_retired \in Nat
    BY <1>1, FirstFacts
  <1>3. /\ Reach(streams, concat) \in Nat /\ ByteCount(streams, concat) \in Nat
    BY ReachFacts
  <1> DEFINE After(r) == [a.ss EXCEPT ![i] = r.s]
             left(r) == StreamByteCount(a.ss, i) + a.n - StreamByteCount(After(r), i)
  <1>4. PICK r \in StreamSkip(i, s, a.n) :
            b = IF r.ok THEN Answer(a, After(r), r)
                ELSE [Retire(a, After(r)) EXCEPT !.n = left(r), !.over = left(r) <= 0, !.r.crash = left(r) <= 0]
    BY Zenon DEF AskSkip, StreamSkip
  <1>5. SkipOutcome(i, s, a.n, r) /\ Result(r)
    BY <1>1, <1>2, StreamSkipFacts, StreamResults, Zenon
  <1>6. /\ Good(i, r.s) /\ (Calm(i, r.s) => Calm(i, s))
        /\ r.ok \in BOOLEAN /\ r.crash = FALSE
        /\ Count(i, s) <= Count(i, r.s)
        /\ r.ok => Live(i, r.s) /\ Count(i, r.s) = Count(i, s) + a.n
        /\ ~r.ok => /\ Count(i, r.s) < Count(i, s) + a.n
                    /\ Calm(i, r.s) => Count(i, r.s) = Leaves[i].size
    BY <1>5, Zenon DEF SkipOutcome
  <1>7. Count(i, r.s) \in Nat
    BY <1>2, <1>6, CountFacts
  <1> DEFINE new == After(r)
  <1>8. CASE r.ok
    <2>1. /\ Sound(new, a.c) /\ Exact(new, a.c) /\ new[i] = r.s
          /\ Undisturbed(new) => Undisturbed(a.ss)
      BY <1>1, <1>6, <1>8, AnswerFacts, Zenon
    <2>2. b = Answer(a, new, r)
      BY <1>4, <1>8, Zenon
    <2> HIDE DEF new
    <2>3. /\ b.ss = new /\ b.c = a.c /\ b.skip = TRUE /\ b.over = TRUE
          /\ b.r = [r EXCEPT !.first = @ + Start(i)]
          /\ b = [ss |-> b.ss, c |-> b.c, r |-> b.r, skip |-> b.skip, n |-> b.n, over |-> b.over]
      BY <1>1, <2>2 DEF Answer, Shaped
    <2>4. b.r.ok = TRUE /\ b.r.crash = FALSE /\ Result(b.r)
      BY <1>5, <1>6, <1>8, <2>3 DEF Result
    <2>5. Shaped(b)
      BY <2>3, <2>4 DEF Shaped
    <2>6. OnTheWay(b)
      BY <1>1, <2>1, <2>3, Zenon DEF OnTheWay
    <2>7. /\ Reach(new, a.c) = Start(i) + IF Leaves[i].size <= Count(i, r.s) THEN Leaves[i].size
                                          ELSE Count(i, r.s)
          /\ ByteCount(new, a.c) = a.c.bytes_retired + Count(i, r.s)
      BY <2>1, FirstFacts
    <2>8. Reach(a.ss, a.c) \in Nat /\ Reach(new, a.c) \in Nat /\ Reach(a.ss, a.c) <= Reach(new, a.c)
      BY <1>2, <1>6, <1>7, <2>7
    <2>9. Undisturbed(new) => ByteCount(new, a.c) = ByteCount(streams, concat) + n
      BY <1>1, <1>2, <1>3, <1>6, <1>8, <2>1, <2>7
    <2>10. Reach(streams, concat) <= Reach(new, a.c)
      BY <1>1, <1>3, <2>8
    <2>11. AskedSkip(n, b)
      BY <2>3, <2>9, <2>10 DEF AskedSkip
    <2> QED
      BY <2>3, <2>5, <2>6, <2>11 DEF Asked
  <1>9. CASE ~r.ok
    <2> DEFINE next == [first |-> i + 1, bytes_retired |-> a.c.bytes_retired + Count(i, r.s)]
    <2>1. /\ Sound(new, next) /\ Exact(new, next)
          /\ Undisturbed(new) => Undisturbed(a.ss)
          /\ Count(i, new[i]) = Count(i, r.s)
          /\ ByteCount(new, next) = a.c.bytes_retired + Count(i, r.s)
          /\ Reach(new, next) = Start(i) + Leaves[i].size
      BY <1>1, <1>6, <1>9, RetireFacts, Zenon
    <2>2. b = [Retire(a, new) EXCEPT !.n = left(r), !.over = left(r) <= 0, !.r.crash = left(r) <= 0]
      BY <1>4, <1>9, Zenon
    <2>3. left(r) = Count(i, s) + a.n - Count(i, r.s)
      BY <2>1, StreamByteCountIsCount
    <2> DEFINE l == left(r)
    <2>4. l \in Nat \ {0} /\ l = Count(i, s) + a.n - Count(i, r.s)
      BY <1>1, <1>2, <1>6, <1>7, <1>9, <2>3
    <2>5. (l <= 0) = FALSE
      BY <2>4
    <2>6. b = [Retire(a, new) EXCEPT !.n = l, !.over = FALSE, !.r.crash = FALSE]
      BY <2>2, <2>5
    <2> HIDE DEF l, left, After, new
    <2>7. a.c = [first |-> a.c.first, bytes_retired |-> a.c.bytes_retired]
      BY <1>1 DEF Sound
    <2> PICK d : d = Retire(a, new)
      OBVIOUS
    <2>8. /\ d.ss = new /\ d.skip = TRUE /\ d.r = a.r /\ d.c = next
          /\ d = [ss |-> d.ss, c |-> d.c, r |-> d.r, skip |-> d.skip, n |-> d.n, over |-> d.over]
      BY <1>1, <2>1, <2>7, StreamByteCountIsCount DEF Retire, Shaped
    <2>9. /\ b.ss = new /\ b.skip = TRUE /\ b.over = FALSE /\ b.c = next /\ b.n = l
          /\ b.r = [a.r EXCEPT !.crash = FALSE]
          /\ b = [ss |-> b.ss, c |-> b.c, r |-> b.r, skip |-> b.skip, n |-> b.n, over |-> b.over]
      <3>1. Result(d.r)
        BY <1>1, <2>8 DEF Shaped
      <3>2. b = [d EXCEPT !.n = l, !.over = FALSE, !.r.crash = FALSE]
        BY <2>6
      <3> QED
        BY <2>8, <3>1, <3>2, LeftFacts
    <2>10. next.first = i + 1
      OBVIOUS
    <2> HIDE DEF next
    <2>11. b.r.ok = FALSE /\ b.r.crash = FALSE /\ Result(b.r)
      BY <1>1, <2>9 DEF Shaped, Result
    <2>12. Shaped(b)
      BY <2>9, <2>11 DEF Shaped
    <2>13. OnTheWay(b)
      BY <1>1, <2>1, <2>9, Zenon DEF OnTheWay
    <2>14. Reach(streams, concat) <= Reach(new, next)
      BY <1>1, <1>2, <1>3, <2>1
    <2>15. Undisturbed(new) => ByteCount(new, next) + l = ByteCount(streams, concat) + n
      BY <1>1, <1>2, <1>3, <1>7, <2>1, <2>4
    <2>16. AskedSkip(n, b)
      BY <2>4, <2>9, <2>14, <2>15 DEF AskedSkip
    <2> QED
      BY <2>9, <2>10, <2>12, <2>13, <2>16 DEF Asked
  <1> QED
    BY <1>6, <1>8, <1>9

(* After as many turns as there are streams one has answered, or none is    *)
(* left.                                                                    *)
LEMMA LoopFacts ==
    ASSUME Sound(streams, concat), Exact(streams, concat), NEW skip \in BOOLEAN, NEW n \in Nat,
           skip \/ n = 0, NEW a \in Loop(skip, n)
    PROVE  Asked(skip, n, a) /\ (a.over \/ a.c.first > Len(Leaves))
  <1> DEFINE m == Len(Leaves)
  <1>1. m \in Nat
    BY LeafFacts
  <1>2. PICK f : Turns(f, m, skip, n) /\ Loop(skip, n) = f[m]
    BY LoopIsTurns
  <1>3. \A k \in 0 .. m : f[k] = IF k = 0 THEN {Asking(skip, n)} ELSE UNION {Ask(b) : b \in f[k - 1]}
    BY <1>2, Zenon DEF Turns
  <1> DEFINE T == {k \in Nat : k <= m => \A b \in f[k] : Asked(skip, n, b) /\ (b.over \/ b.c.first > k)}
  <1>4. 0 \in T
    <2>1. f[0] = {Asking(skip, n)}
      <3>1. 0 \in 0 .. m
        BY <1>1
      <3> QED
        BY <1>3, <3>1, Zenon
    <2>2. Asked(skip, n, Asking(skip, n)) /\ Asking(skip, n).c.first > 0
      BY AskingFacts DEF Sound
    <2> QED
      BY <2>1, <2>2
  <1>5. ASSUME NEW k \in Nat, k \in T PROVE k + 1 \in T
    <2> SUFFICES ASSUME k + 1 <= m, NEW b \in f[k + 1]
                 PROVE  Asked(skip, n, b) /\ (b.over \/ b.c.first > k + 1)
      OBVIOUS
    <2>1. f[k + 1] = UNION {Ask(d) : d \in f[k]}
      <3>1. k + 1 \in 0 .. m /\ k + 1 # 0 /\ (k + 1) - 1 = k
        BY <1>1
      <3> QED
        BY <1>3, <3>1
    <2>2. PICK d \in f[k] : b \in Ask(d)
      BY <2>1
    <2>3. Asked(skip, n, d) /\ (d.over \/ d.c.first > k)
      BY <1>1, <1>5
    <2>4. /\ d.skip \in BOOLEAN /\ (d.skip <=> skip) /\ d.over \in BOOLEAN
          /\ d.c.first \in 1 .. (m + 1)
      BY <2>3 DEF Asked, Shaped, OnTheWay, Sound
    <2>5. CASE d.over \/ d.c.first > m
      <3>1. b = d
        BY <2>2, <2>5 DEF Ask
      <3> QED
        BY <1>1, <2>3, <2>4, <2>5, <3>1
    <2>6. CASE ~(d.over \/ d.c.first > m)
      <3>1. d.c.first \in Positions /\ ~d.over
        BY <1>1, <2>4, <2>6, LeafFacts
      <3>2. b \in IF d.skip THEN AskSkip(d) ELSE AskNext(d)
        BY <2>2, <2>6 DEF Ask
      <3>3. Asked(skip, n, b) /\ (b.over \/ b.c.first = d.c.first + 1)
        <4>1. CASE skip
          <5>1. skip = TRUE /\ b \in AskSkip(d)
            BY <2>4, <3>2, <4>1
          <5> QED
            BY <2>3, <3>1, <5>1, AskSkipFacts
        <4>2. CASE ~skip
          <5>1. skip = FALSE /\ n = 0 /\ b \in AskNext(d)
            BY <2>4, <3>2, <4>2
          <5> QED
            BY <2>3, <3>1, <5>1, AskNextFacts
        <4> QED
          BY <4>1, <4>2
      <3> QED
        BY <2>3, <2>4, <3>1, <3>3
    <2> QED
      BY <2>5, <2>6
  <1> HIDE DEF T
  <1>6. m \in T
    BY <1>1, <1>4, <1>5, SetInduction
  <1> QED
    BY <1>1, <1>2, <1>6 DEF T

-----------------------------------------------------------------------------
(* The inductive invariant, and the cursor the streams put together show.   *)

(* The bytes a limit has taken too many. *)
Over(lim) == IF lim.on /\ lim.limit < 0 THEN -lim.limit ELSE 0

Limits == [on : BOOLEAN, limit : Int, prior : Nat]

(* What was just returned and what lies beyond the limit can be backed up   *)
(* over, and nothing at or after the next byte has been delivered.          *)
Ready(ss, c, lim, l, p, d) ==
    /\ lim \in Limits
    /\ l \in Nat /\ p \in Nat /\ l <= p
    /\ p <= Reach(ss, c) - Over(lim)
    /\ (d.op = "next" /\ d.ok) \/ Over(lim) > 0 =>
           c.first \in Positions /\ Fresh(c.first, ss[c.first], l + Over(lim))

IInv ==
    /\ Sound(streams, concat) /\ Exact(streams, concat)
    /\ Ready(streams, concat, limiting, last, passed, done)
    /\ crashed = FALSE

(* The cursor. *)
Pos == ByteCount(streams, concat) - Overshoot
End == IF limiting.on THEN Min({Length, ByteCount(streams, concat) + limiting.limit}) ELSE Length

EndOf(b, lim) == IF lim.on /\ b + lim.limit < Length THEN b + lim.limit ELSE Length

LEMMA WholeMinFacts ==
    ASSUME NEW x \in Int, NEW y \in Int
    PROVE  Whole!Min({x, y}) = IF x <= y THEN x ELSE y
  <1> DEFINE m == IF x <= y THEN x ELSE y
  <1>1. m \in {x, y} /\ \A z \in {x, y} : m <= z
    OBVIOUS
  <1>2. Whole!Min({x, y}) \in {x, y} /\ \A z \in {x, y} : Whole!Min({x, y}) <= z
    BY <1>1, Zenon DEF Whole!Min
  <1> QED
    BY <1>2

LEMMA LimitFacts ==
    ASSUME NEW lim \in Limits, NEW b \in Nat
    PROVE  /\ lim.on \in BOOLEAN /\ lim.limit \in Int /\ Over(lim) \in Nat
           /\ EndOf(b, lim) \in Int
           /\ EndOf(b, lim) = IF lim.on THEN Min({Length, b + lim.limit}) ELSE Length
           /\ lim.on => Over(lim) = IF lim.limit < 0 THEN -lim.limit ELSE 0
           /\ ~lim.on => Over(lim) = 0
  <1>1. lim.on \in BOOLEAN /\ lim.limit \in Int /\ Length \in Nat /\ b + lim.limit \in Int
    BY StartFacts, LeafFacts DEF Limits
  <1>2. Min({Length, b + lim.limit}) = IF Length <= b + lim.limit THEN Length ELSE b + lim.limit
    BY <1>1, MinFacts
  <1> QED
    BY <1>1, <1>2 DEF Over, EndOf

LEMMA CursorFacts ==
    ASSUME Sound(streams, concat), Exact(streams, concat), limiting \in Limits
    PROVE  /\ ByteCount(streams, concat) \in Nat /\ Overshoot = Over(limiting) /\ Over(limiting) \in Nat
           /\ Length \in Nat
           /\ Pos = ByteCount(streams, concat) - Over(limiting) /\ Pos \in Int
           /\ End = EndOf(ByteCount(streams, concat), limiting) /\ End \in Int
           /\ Undisturbed(streams) => /\ ByteCount(streams, concat) <= Length
                                      /\ Reach(streams, concat) = ByteCount(streams, concat)
  <1>1. ByteCount(streams, concat) \in Nat
    BY ReachFacts
  <1>2. Overshoot = Over(limiting)
    BY DEF Overshoot, Over
  <1>3. Over(limiting) \in Nat /\ EndOf(ByteCount(streams, concat), limiting) \in Int
    BY <1>1, LimitFacts
  <1>4. End = EndOf(ByteCount(streams, concat), limiting)
    BY <1>1, LimitFacts DEF End
  <1>5. Length \in Nat
    BY StartFacts, LeafFacts
  <1>6. Undisturbed(streams) => /\ ByteCount(streams, concat) <= Length
                                /\ Reach(streams, concat) = ByteCount(streams, concat)
    BY ReachFacts
  <1> QED
    BY <1>1, <1>2, <1>3, <1>4, <1>5, <1>6 DEF Pos

(* The same of the state after a step. *)
LEMMA CursorFactsAfter ==
    ASSUME Sound(streams', concat'), Exact(streams', concat'), limiting' \in Limits
    PROVE  /\ ByteCount(streams', concat') \in Nat /\ Over(limiting') \in Nat
           /\ Pos' = ByteCount(streams', concat') - Over(limiting') /\ Pos' \in Int
           /\ End' = EndOf(ByteCount(streams', concat'), limiting') /\ End' \in Int
           /\ Undisturbed(streams') => /\ ByteCount(streams', concat') <= Length
                                       /\ Reach(streams', concat') = ByteCount(streams', concat')
  <1>1. ByteCount(streams', concat') \in Nat
    BY ReachFacts
  <1>2. Overshoot' = Over(limiting')
    BY DEF Overshoot, Over
  <1>3. Over(limiting') \in Nat /\ EndOf(ByteCount(streams', concat'), limiting') \in Int
    BY <1>1, LimitFacts
  <1>4. End' = EndOf(ByteCount(streams', concat'), limiting')
    BY <1>1, LimitFacts DEF End
  <1>6. Undisturbed(streams') => /\ ByteCount(streams', concat') <= Length
                                 /\ Reach(streams', concat') = ByteCount(streams', concat')
    BY ReachFacts
  <1> QED
    BY <1>1, <1>2, <1>3, <1>4, <1>6 DEF Pos

(* What a step establishes. *)
Kept ==
    /\ IInv'
    /\ done'.op = "next" /\ done'.ok => done'.first >= passed
    /\ Undisturbed(streams') => Whole!Steps

LEMMA FreshFacts ==
    ASSUME NEW i, NEW s, NEW n \in Nat, NEW m \in Nat, m <= n, Good(i, s), Fresh(i, s, n)
    PROVE  Fresh(i, s, m)
  BY DEF Fresh, Good, ArrayStreams, AdaptorStreams

(* A step that moves nothing and returns nothing. *)
LEMMA UnmovedFacts ==
    ASSUME IInv, UNCHANGED <<streams, concat, limiting, crashed, passed>>, last' = 0,
           ~(done'.op = "next" /\ done'.ok)
    PROVE  IInv'
  <1>1. /\ Sound(streams, concat) /\ Exact(streams, concat) /\ limiting \in Limits
        /\ last \in Nat /\ passed \in Nat /\ passed <= Reach(streams, concat) - Over(limiting)
        /\ Over(limiting) > 0 =>
               /\ concat.first \in Positions
               /\ Fresh(concat.first, streams[concat.first], last + Over(limiting))
        /\ crashed = FALSE
    BY DEF IInv, Ready
  <1>2. Over(limiting) \in Nat
    BY <1>1, CursorFacts
  <1>3. Over(limiting) > 0 =>
            /\ concat.first \in Positions
            /\ Fresh(concat.first, streams[concat.first], 0 + Over(limiting))
    <2>1. last + Over(limiting) \in Nat /\ 0 + Over(limiting) \in Nat
          /\ 0 + Over(limiting) <= last + Over(limiting)
      BY <1>1, <1>2
    <2>2. ASSUME concat.first \in Positions PROVE Good(concat.first, streams[concat.first])
      BY <1>1, <2>2 DEF Sound
    <2> QED
      BY <1>1, <2>1, <2>2, FreshFacts
  <1>4. Ready(streams, concat, limiting, 0, passed, done')
    BY <1>1, <1>3 DEF Ready
  <1>5. /\ streams' = streams /\ concat' = concat /\ limiting' = limiting /\ last' = 0
        /\ passed' = passed /\ crashed' = FALSE
    BY <1>1
  <1>6. Sound(streams', concat') /\ Exact(streams', concat')
    BY <1>1, <1>5
  <1>7. Ready(streams', concat', limiting', last', passed', done')
    BY <1>4, <1>5
  <1> QED
    BY <1>5, <1>6, <1>7 DEF IInv

-----------------------------------------------------------------------------
(* Next(): at the limit, at the end, or with some bytes. *)

LEMMA NextAtLimit ==
    ASSUME IInv, limiting.on, limiting.limit <= 0, NothingNext,
           UNCHANGED <<streams, concat, limiting, crashed>>
    PROVE  Kept
  <1>1. /\ Sound(streams, concat) /\ Exact(streams, concat) /\ limiting \in Limits
    BY DEF IInv, Ready
  <1>2. /\ last' = 0 /\ passed' = passed /\ done' = [op |-> "next", ok |-> FALSE, first |-> 0, n |-> 0]
        /\ done'.ok = FALSE
    BY DEF NothingNext, Returns
  <1>3. IInv'
    BY <1>2, UnmovedFacts
  <1>4. ASSUME Undisturbed(streams') PROVE Whole!Steps
    <2>1. Undisturbed(streams)
      BY <1>4
    <2> DEFINE b == ByteCount(streams, concat)
    <2>2. /\ b \in Nat /\ Length \in Nat /\ Pos = b - Over(limiting) /\ End = EndOf(b, limiting)
          /\ b <= Length
      BY <1>1, <2>1, CursorFacts
    <2>3. Over(limiting) = IF limiting.limit < 0 THEN -limiting.limit ELSE 0
      BY <1>1, <2>2, LimitFacts
    <2>4. limiting.limit \in Int
      BY <1>1, <2>2, LimitFacts
    <2> HIDE DEF b
    <2>5. Pos = End
      BY <2>2, <2>3, <2>4 DEF EndOf
    <2>6. Pos' = Pos /\ End' = End
      BY DEF Pos, End, Overshoot
    <2>7. Whole!Next
      BY <1>2, <2>5, <2>6 DEF Whole!Next, Whole!Returns, Pos, End
    <2> QED
      BY <2>7 DEF Whole!Steps
  <1> QED
    BY <1>2, <1>3, <1>4 DEF Kept

(* What a call to the concatenation that was answered, or not, leads to. *)
LEMMA AskedFacts ==
    ASSUME IInv, NEW skip \in BOOLEAN, NEW n \in Nat, skip \/ n = 0, NEW a \in Loop(skip, n), Apply(a)
    PROVE  /\ Asked(skip, n, a) /\ (a.over \/ a.c.first > Len(Leaves))
           /\ a.over \in BOOLEAN /\ a.r.ok \in BOOLEAN /\ (a.r.ok <=> a.over)
           /\ Sound(streams', concat') /\ Exact(streams', concat') /\ crashed' = FALSE
           /\ Undisturbed(streams') => Undisturbed(streams)
           /\ streams' = a.ss /\ concat' = a.c
  <1>1. Sound(streams, concat) /\ Exact(streams, concat)
    BY DEF IInv
  <1>2. Asked(skip, n, a) /\ (a.over \/ a.c.first > Len(Leaves))
    BY <1>1, LoopFacts
  <1>3. streams' = a.ss /\ concat' = a.c /\ crashed' = a.r.crash
    BY DEF Apply
  <1>4. /\ a.over \in BOOLEAN /\ a.r.ok \in BOOLEAN /\ (a.r.ok <=> a.over) /\ a.r.crash = FALSE
        /\ Sound(a.ss, a.c) /\ Exact(a.ss, a.c)
        /\ Undisturbed(a.ss) => Undisturbed(streams)
    BY <1>2 DEF Asked, Shaped, OnTheWay
  <1> QED
    BY <1>2, <1>3, <1>4

(* At the end of all the streams the cursor is at the end. *)
LEMMA EndedFacts ==
    ASSUME NEW ss, NEW c, Sound(ss, c), c.first > Len(Leaves)
    PROVE  Reach(ss, c) = Length /\ (Exact(ss, c) /\ Undisturbed(ss) => ByteCount(ss, c) = Length)
  <1>1. Reach(ss, c) = Length
    BY DEF Reach
  <1> QED
    BY <1>1, ReachFacts

LEMMA NextEnded ==
    ASSUME IInv, ~(limiting.on /\ limiting.limit <= 0), NEW a \in ConcatNext, Apply(a), ~a.r.ok,
           NothingNext, UNCHANGED limiting
    PROVE  Kept
  <1>1. /\ Sound(streams, concat) /\ Exact(streams, concat) /\ limiting \in Limits
        /\ last \in Nat /\ passed \in Nat /\ passed <= Reach(streams, concat) - Over(limiting)
    BY DEF IInv, Ready
  <1>2. a \in Loop(FALSE, 0)
    BY DEF ConcatNext
  <1>3. /\ Asked(FALSE, 0, a) /\ a.c.first > Len(Leaves) /\ a.over = FALSE
        /\ Sound(streams', concat') /\ Exact(streams', concat') /\ crashed' = FALSE
        /\ Undisturbed(streams') => Undisturbed(streams)
        /\ streams' = a.ss /\ concat' = a.c
    BY <1>2, AskedFacts
  <1>4. /\ Reach(streams, concat) <= Reach(streams', concat')
        /\ Undisturbed(streams') => ByteCount(streams', concat') = ByteCount(streams, concat)
    BY <1>3 DEF Asked, AskedNext
  <1>5. /\ last' = 0 /\ passed' = passed /\ done' = [op |-> "next", ok |-> FALSE, first |-> 0, n |-> 0]
        /\ done'.ok = FALSE /\ limiting' = limiting
    BY DEF NothingNext, Returns
  <1>6. /\ Reach(streams, concat) \in Nat /\ Reach(streams', concat') \in Nat
        /\ Over(limiting) \in Nat /\ limiting.limit \in Int /\ limiting.on \in BOOLEAN
        /\ Length \in Nat
    BY <1>1, <1>3, ReachFacts, CursorFacts, LimitFacts
  <1>7. Over(limiting) = 0
    BY <1>6 DEF Over
  <1>8. Ready(streams', concat', limiting', last', passed', done')
    <2>1. passed' <= Reach(streams', concat') - Over(limiting')
      BY <1>1, <1>4, <1>5, <1>6
    <2>2. ~((done'.op = "next" /\ done'.ok) \/ Over(limiting') > 0)
      BY <1>5, <1>7
    <2> QED
      BY <1>1, <1>5, <2>1, <2>2 DEF Ready
  <1>9. IInv'
    BY <1>3, <1>8 DEF IInv
  <1>10. ASSUME Undisturbed(streams') PROVE Whole!Steps
    <2> DEFINE b == ByteCount(streams, concat)
    <2>1. b = Length /\ ByteCount(streams', concat') = b
      BY <1>3, <1>4, <1>10, EndedFacts
    <2>2. Pos = b - Over(limiting) /\ End = EndOf(b, limiting)
      BY <1>1, CursorFacts
    <2>3. Pos' = b - Over(limiting) /\ End' = EndOf(b, limiting)
      BY <1>1, <1>3, <1>5, <2>1, CursorFactsAfter
    <2> HIDE DEF b
    <2>4. Pos = End /\ Pos' = Pos /\ End' = End
      BY <1>6, <1>7, <2>1, <2>2, <2>3 DEF EndOf
    <2>5. Whole!Next
      BY <1>5, <2>4 DEF Whole!Next, Whole!Returns, Pos, End
    <2> QED
      BY <2>5 DEF Whole!Steps
  <1> QED
    BY <1>5, <1>9, <1>10 DEF Kept

LEMMA HiddenFacts ==
    ASSUME limiting \in Limits, ~(limiting.on /\ limiting.limit <= 0), NEW n \in Nat \ {0},
           NEW lim, lim = IF limiting.on THEN [limiting EXCEPT !.limit = @ - n] ELSE limiting
    PROVE  /\ Hidden(n) \in Nat \ {0} /\ Hidden(n) <= n /\ lim \in Limits
           /\ Over(lim) = n - Hidden(n) /\ Over(limiting) = 0
           /\ lim.on <=> limiting.on
           /\ limiting.on => lim.limit = limiting.limit - n /\ Hidden(n) <= limiting.limit
  <1>1. limiting.on \in BOOLEAN /\ limiting.limit \in Int /\ limiting.prior \in Nat
    BY DEF Limits
  <1>2. CASE limiting.on
    <2>1. limiting.limit > 0
      BY <1>1, <1>2
    <2>2. Hidden(n) = IF n <= limiting.limit THEN n ELSE limiting.limit
      BY <1>1, <1>2, MinFacts DEF Hidden
    <2>3. lim = [limiting EXCEPT !.limit = @ - n]
      BY <1>2
    <2>4. lim.on = limiting.on /\ lim.limit = limiting.limit - n /\ lim \in Limits
      BY <1>1, <2>3 DEF Limits
    <2> QED
      BY <1>1, <1>2, <2>1, <2>2, <2>4 DEF Over
  <1>3. CASE ~limiting.on
    BY <1>3 DEF Hidden, Over
  <1> QED
    BY <1>2, <1>3

LEMMA NextAnswered ==
    ASSUME IInv, ~(limiting.on /\ limiting.limit <= 0), NEW a \in ConcatNext, Apply(a), a.r.ok,
           limiting' = IF limiting.on THEN [limiting EXCEPT !.limit = @ - a.r.n] ELSE limiting,
           last' = Hidden(a.r.n), passed' = a.r.first + Hidden(a.r.n),
           Returns("next", TRUE, a.r.first, Hidden(a.r.n))
    PROVE  Kept
  <1>1. /\ Sound(streams, concat) /\ Exact(streams, concat) /\ limiting \in Limits
        /\ last \in Nat /\ passed \in Nat /\ passed <= Reach(streams, concat) - Over(limiting)
    BY DEF IInv, Ready
  <1>2. a \in Loop(FALSE, 0)
    BY DEF ConcatNext
  <1>3. /\ Asked(FALSE, 0, a) /\ a.over
        /\ Sound(streams', concat') /\ Exact(streams', concat') /\ crashed' = FALSE
        /\ Undisturbed(streams') => Undisturbed(streams)
        /\ streams' = a.ss /\ concat' = a.c
    BY <1>2, AskedFacts
  <1> DEFINE n == a.r.n
             first == a.r.first
             i == concat'.first
             m == Hidden(n)
  <1>4. /\ i \in Positions /\ n \in Nat \ {0} /\ first \in Nat
        /\ Fresh(i, streams'[i], n)
        /\ Reach(streams, concat) <= first
        /\ first + n = Start(i) + Count(i, streams'[i])
        /\ Undisturbed(streams') => first = ByteCount(streams, concat)
    BY <1>3 DEF Asked, AskedNext
  <1>5. /\ m \in Nat \ {0} /\ m <= n /\ limiting' \in Limits
        /\ Over(limiting') = n - m /\ Over(limiting) = 0
        /\ limiting'.on <=> limiting.on
        /\ limiting.on => limiting'.limit = limiting.limit - n /\ m <= limiting.limit
    BY <1>1, <1>4, HiddenFacts
  <1>6. /\ last' = m /\ passed' = first + m
        /\ done' = [op |-> "next", ok |-> TRUE, first |-> first, n |-> m]
        /\ done'.first = first
    BY DEF Returns
  <1>7. Reach(streams', concat') = first + n
    <2>1. Good(i, streams'[i])
      BY <1>3, <1>4 DEF Sound
    <2>2. Count(i, streams'[i]) <= Leaves[i].size
      BY <1>4, <2>1, CountFacts
    <2> QED
      BY <1>3, <1>4, <2>2, ReachFacts
  <1>8. Reach(streams, concat) \in Nat
    BY <1>1, ReachFacts
  <1> HIDE DEF n, first, i, m
  <1>9. Ready(streams', concat', limiting', last', passed', done')
    <2>1. last' \in Nat /\ passed' \in Nat /\ last' <= passed'
      BY <1>4, <1>5, <1>6
    <2>2. passed' <= Reach(streams', concat') - Over(limiting')
      BY <1>4, <1>5, <1>6, <1>7
    <2>3. last' + Over(limiting') = n
      BY <1>4, <1>5, <1>6
    <2>4. concat'.first \in Positions /\ Fresh(concat'.first, streams'[concat'.first], last' + Over(limiting'))
      BY <1>4, <2>3 DEF i
    <2> QED
      BY <1>5, <2>1, <2>2, <2>4, Zenon DEF Ready
  <1>10. IInv'
    BY <1>3, <1>9 DEF IInv
  <1>11. done'.first >= passed
    BY <1>1, <1>4, <1>5, <1>6, <1>8
  <1>12. ASSUME Undisturbed(streams') PROVE Whole!Steps
    <2> DEFINE b == ByteCount(streams, concat)
               d == ByteCount(streams', concat')
    <2>1. /\ Pos = b /\ End = EndOf(b, limiting) /\ b \in Nat /\ Length \in Nat /\ b <= Length
          /\ b + limiting.limit \in Int /\ limiting.on \in BOOLEAN
      <3>1. Undisturbed(streams)
        BY <1>3, <1>12
      <3>2. /\ Pos = b - Over(limiting) /\ End = EndOf(b, limiting) /\ b \in Nat /\ Length \in Nat
            /\ b <= Length
        BY <1>1, <3>1, CursorFacts
      <3>3. limiting.limit \in Int /\ limiting.on \in BOOLEAN
        BY <1>1 DEF Limits
      <3> HIDE DEF b
      <3> QED
        BY <1>5, <3>2, <3>3
    <2>2. Pos' = d - Over(limiting') /\ End' = EndOf(d, limiting') /\ d <= Length /\ d \in Nat
          /\ Reach(streams', concat') = d
      BY <1>3, <1>5, <1>12, CursorFactsAfter
    <2>3. first = b
      BY <1>4, <1>12
    <2> HIDE DEF b, d
    <2>4. d = b + n
      BY <1>7, <2>2, <2>3
    <2>5. Pos' = Pos + m /\ first = Pos
      BY <1>4, <1>5, <2>1, <2>2, <2>3, <2>4
    <2>6. End' = End
      <3>1. limiting.limit \in Int
        BY <1>1 DEF Limits
      <3>2. limiting.on => d + limiting'.limit = b + limiting.limit
        BY <1>4, <1>5, <2>1, <2>4, <3>1
      <3> QED
        BY <1>5, <2>1, <2>2, <3>2 DEF EndOf
    <2>7. Pos < End /\ m \in 1 .. (End - Pos)
      <3>1. limiting.limit \in Int
        BY <1>1 DEF Limits
      <3>2. b + m <= Length
        BY <1>4, <1>5, <2>1, <2>2, <2>4
      <3>3. End \in Int /\ b + m <= End
        BY <1>5, <2>1, <3>1, <3>2 DEF EndOf
      <3> QED
        BY <1>5, <2>1, <3>3
    <2>8. /\ Pos < End
          /\ \E k \in 1 .. (End - Pos) :
                 /\ Pos' = Pos + k /\ last' = k
                 /\ done' = [op |-> "next", ok |-> TRUE, first |-> Pos, n |-> k]
      BY <1>6, <2>5, <2>7
    <2>9. Whole!Next
      BY <2>6, <2>8, Zenon DEF Whole!Next, Whole!Returns, Pos, End
    <2> QED
      BY <2>9 DEF Whole!Steps
  <1> QED
    BY <1>10, <1>11, <1>12 DEF Kept

LEMMA NextKept ==
    ASSUME IInv, NextChunk
    PROVE  Kept
  <1>1. CASE limiting.on /\ limiting.limit <= 0
    BY <1>1, NextAtLimit DEF NextChunk
  <1>2. CASE ~(limiting.on /\ limiting.limit <= 0)
    <2>1. PICK a \in ConcatNext :
              /\ Apply(a)
              /\ IF ~a.r.ok THEN NothingNext /\ UNCHANGED limiting
                 ELSE /\ limiting' = IF limiting.on THEN [limiting EXCEPT !.limit = @ - a.r.n] ELSE limiting
                      /\ last' = Hidden(a.r.n) /\ passed' = a.r.first + Hidden(a.r.n)
                      /\ Returns("next", TRUE, a.r.first, Hidden(a.r.n))
      BY <1>2, Zenon DEF NextChunk
    <2>2. CASE ~a.r.ok
      BY <1>2, <2>1, <2>2, NextEnded, Zenon
    <2>3. CASE a.r.ok
      BY <1>2, <2>1, <2>3, NextAnswered, Zenon
    <2> QED
      BY <2>2, <2>3
  <1> QED
    BY <1>1, <1>2

-----------------------------------------------------------------------------
(* BackUp(), and the limit set and taken away. *)

(* What BackUp() of the concatenation leads to. *)
LEMMA ConcatBackUpFacts ==
    ASSUME Sound(streams, concat), Exact(streams, concat), NEW n \in Nat, concat.first \in Positions,
           Fresh(concat.first, streams[concat.first], n), ConcatBackUp(n)
    PROVE  /\ Sound(streams', concat') /\ Exact(streams', concat') /\ crashed' = FALSE
           /\ concat' = concat
           /\ Undisturbed(streams') => Undisturbed(streams)
           /\ ByteCount(streams', concat') = ByteCount(streams, concat) - n
           /\ Reach(streams', concat') = Reach(streams, concat) - n
  <1> DEFINE i == concat.first
             s == streams[i]
             r == StreamBackUp(i, s, n)
             ss == [streams EXCEPT ![i] = r.s]
  <1>1. /\ i \in Nat /\ i \in Positions /\ Good(i, s) /\ Live(i, s) /\ ~(i > Len(Leaves))
        /\ Fresh(i, s, n)
    <2>1. i \in Nat /\ i <= Len(Leaves) /\ Len(Leaves) \in Nat /\ i >= concat.first
      BY LeafFacts
    <2> QED
      BY <2>1 DEF Sound
  <1>2. BackUpOutcome(i, s, n, r)
    BY <1>1, StreamBackUpFacts
  <1>3. /\ r.crash = FALSE /\ Good(i, r.s) /\ Live(i, r.s)
        /\ Calm(i, r.s) => Calm(i, s)
        /\ Count(i, r.s) = Count(i, s) - n
    BY <1>1, <1>2, Zenon DEF BackUpOutcome
  <1>4. crashed' = FALSE /\ streams' = ss /\ concat' = concat
    <2>1. /\ crashed' = r.crash /\ streams' = (IF r.crash THEN streams ELSE ss) /\ concat' = concat
      BY <1>1, Zenon DEF ConcatBackUp, StreamBackUp
    <2> QED
      BY <1>3, <2>1, Zenon
  <1>5. Sound(ss, concat) /\ Exact(ss, concat) /\ ss[i] = r.s /\ (Undisturbed(ss) => Undisturbed(streams))
    BY <1>1, <1>3, AnswerFacts, Zenon
  <1>6. /\ Count(i, s) \in Nat /\ Count(i, s) <= Leaves[i].size /\ n <= Count(i, s)
        /\ Leaves[i].size \in Nat /\ Start(i) \in Nat
    BY <1>1, CountFacts, LeafFacts, StartFacts
  <1>7. /\ Reach(streams, concat) = Start(i) + Count(i, s)
        /\ ByteCount(streams, concat) = concat.bytes_retired + Count(i, s) /\ concat.bytes_retired \in Nat
    <2>1. ByteCount(streams, concat) = concat.bytes_retired + Count(i, s)
      BY <1>1, StreamByteCountIsCount DEF ByteCount
    <2> QED
      BY <1>1, <1>6, <2>1, ReachFacts DEF Sound
  <1> HIDE DEF r, ss
  <1>8. /\ Reach(ss, concat) = Start(i) + Count(i, r.s)
        /\ ByteCount(ss, concat) = concat.bytes_retired + Count(i, r.s)
    <2>1. ByteCount(ss, concat) = concat.bytes_retired + Count(i, r.s)
      BY <1>1, <1>5, StreamByteCountIsCount DEF ByteCount
    <2>2. Count(i, r.s) <= Leaves[i].size
      BY <1>3, <1>6
    <2> QED
      BY <1>1, <1>5, <2>1, <2>2, ReachFacts
  <1>9. /\ ByteCount(ss, concat) = ByteCount(streams, concat) - n
        /\ Reach(ss, concat) = Reach(streams, concat) - n
    BY <1>3, <1>6, <1>7, <1>8
  <1> QED
    BY <1>4, <1>5, <1>9

LEMMA BackUpKept ==
    ASSUME IInv, NEW n \in 0 .. last, BackUp(n)
    PROVE  Kept
  <1>1. /\ Sound(streams, concat) /\ Exact(streams, concat) /\ limiting \in Limits
        /\ last \in Nat /\ passed \in Nat /\ last <= passed
        /\ passed <= Reach(streams, concat) - Over(limiting)
        /\ (done.op = "next" /\ done.ok) \/ Over(limiting) > 0 =>
               /\ concat.first \in Positions
               /\ Fresh(concat.first, streams[concat.first], last + Over(limiting))
    BY DEF IInv, Ready
  <1>2. /\ done.op = "next" /\ done.ok /\ n \in Nat /\ n <= last
        /\ ConcatBackUp(n + Overshoot)
        /\ limiting' = (IF ~limiting.on THEN limiting
                        ELSE [limiting EXCEPT !.limit = IF @ < 0 THEN n ELSE @ + n])
        /\ last' = 0 /\ passed' = passed - n
        /\ done' = [op |-> "backUp", ok |-> TRUE, first |-> 0, n |-> n]
    BY <1>1 DEF BackUp, Returns
  <1>3. done'.op = "backUp"
    BY <1>2
  <1> DEFINE o == Over(limiting)
             b == ByteCount(streams, concat)
             k == n + o
  <1>4. /\ o \in Nat /\ b \in Nat /\ Overshoot = o /\ limiting.limit \in Int /\ limiting.on \in BOOLEAN
        /\ Reach(streams, concat) \in Nat /\ limiting.prior \in Nat /\ Length \in Nat
        /\ k \in Nat
    <2>1. o \in Nat /\ b \in Nat /\ Overshoot = o /\ Length \in Nat
      BY <1>1, CursorFacts
    <2>2. limiting.limit \in Int /\ limiting.on \in BOOLEAN /\ limiting.prior \in Nat
      BY <1>1 DEF Limits
    <2> QED
      BY <1>1, <1>2, <2>1, <2>2, ReachFacts
  <1>5. concat.first \in Positions /\ Fresh(concat.first, streams[concat.first], k)
    <2>1. last + o \in Nat /\ k <= last + o
      BY <1>1, <1>2, <1>4
    <2>2. concat.first \in Positions /\ Good(concat.first, streams[concat.first])
      BY <1>1, <1>2 DEF Sound
    <2> HIDE DEF k
    <2>3. Fresh(concat.first, streams[concat.first], last + o)
      BY <1>1, <1>2
    <2> QED
      BY <1>4, <2>1, <2>2, <2>3, FreshFacts
  <1>6. /\ Sound(streams', concat') /\ Exact(streams', concat') /\ crashed' = FALSE
        /\ concat' = concat
        /\ Undisturbed(streams') => Undisturbed(streams)
        /\ ByteCount(streams', concat') = b - k
        /\ Reach(streams', concat') = Reach(streams, concat) - k
    <2>1. ConcatBackUp(k)
      BY <1>2, <1>4
    <2> HIDE DEF k
    <2> QED
      BY <1>1, <1>4, <1>5, <2>1, ConcatBackUpFacts
  <1>7. /\ limiting' \in Limits /\ Over(limiting') = 0
        /\ limiting'.on <=> limiting.on
        /\ limiting.on => limiting'.limit = limiting.limit + k
    <2>1. CASE limiting.on
      <3> DEFINE l == IF limiting.limit < 0 THEN n ELSE limiting.limit + n
      <3>1. limiting' = [limiting EXCEPT !.limit = l]
        BY <1>2, <2>1
      <3>2. l \in Nat /\ l = limiting.limit + k
        BY <1>2, <1>4, <2>1 DEF Over
      <3> HIDE DEF l, k
      <3>3. limiting'.on = limiting.on /\ limiting'.limit = l /\ limiting' \in Limits
        BY <1>1, <3>1, <3>2 DEF Limits
      <3> QED
        BY <2>1, <3>2, <3>3 DEF Over
    <2>2. CASE ~limiting.on
      BY <1>1, <1>2, <2>2 DEF Over
    <2> QED
      BY <2>1, <2>2
  <1> HIDE DEF o, b, k
  <1>8. Ready(streams', concat', limiting', last', passed', done')
    <2>1. passed' \in Nat /\ last' \in Nat /\ last' <= passed'
      BY <1>1, <1>2
    <2>2. passed' <= Reach(streams', concat') - Over(limiting')
      BY <1>1, <1>2, <1>4, <1>6, <1>7 DEF o, k
    <2>3. ~((done'.op = "next" /\ done'.ok) \/ Over(limiting') > 0)
      BY <1>3, <1>7
    <2> QED
      BY <1>7, <2>1, <2>2, <2>3 DEF Ready
  <1>9. IInv'
    BY <1>6, <1>8 DEF IInv
  <1>10. ASSUME Undisturbed(streams') PROVE Whole!Steps
    <2>1. Pos = b - o /\ End = EndOf(b, limiting)
      BY <1>1, CursorFacts DEF b, o
    <2> DEFINE d == ByteCount(streams', concat')
    <2>2. Pos' = d - 0 /\ End' = EndOf(d, limiting') /\ d = b - k
      BY <1>6, <1>7, CursorFactsAfter
    <2>3. Pos' = Pos - n
      BY <1>2, <1>4, <2>1, <2>2 DEF k
    <2>4. End' = End
      <3>1. limiting.on => d + limiting'.limit = b + limiting.limit
        BY <1>4, <1>7, <2>2
      <3> HIDE DEF d
      <3> QED
        BY <1>4, <1>7, <2>1, <2>2, <3>1 DEF EndOf
    <2>5. Whole!BackUp
      BY <1>2, <2>3, <2>4, Zenon DEF Whole!BackUp, Whole!Returns, Pos, End
    <2> QED
      BY <2>5 DEF Whole!Steps
  <1> QED
    BY <1>3, <1>9, <1>10 DEF Kept

LEMMA UnlimitKept ==
    ASSUME IInv, Unlimit
    PROVE  Kept
  <1>1. /\ Sound(streams, concat) /\ Exact(streams, concat) /\ limiting \in Limits
        /\ last \in Nat /\ passed \in Nat
        /\ passed <= Reach(streams, concat) - Over(limiting)
        /\ Over(limiting) > 0 =>
               /\ concat.first \in Positions
               /\ Fresh(concat.first, streams[concat.first], last + Over(limiting))
        /\ crashed = FALSE
    BY DEF IInv, Ready
  <1>2. /\ IF Overshoot > 0 THEN ConcatBackUp(Overshoot) ELSE UNCHANGED <<streams, concat, crashed>>
        /\ limiting' = NoLimit /\ last' = 0 /\ passed' = passed
        /\ done' = [op |-> "unlimit", ok |-> TRUE, first |-> 0, n |-> 0]
    BY DEF Unlimit, Returns
  <1> DEFINE o == Over(limiting)
             b == ByteCount(streams, concat)
  <1>3. o \in Nat /\ b \in Nat /\ Overshoot = o /\ Reach(streams, concat) \in Nat /\ Length \in Nat
    BY <1>1, CursorFacts, ReachFacts
  <1>4. limiting' \in Limits /\ limiting'.on = FALSE /\ Over(limiting') = 0
    BY <1>2 DEF NoLimit, Over, Limits
  <1>5. /\ Sound(streams', concat') /\ Exact(streams', concat') /\ crashed' = FALSE
        /\ Undisturbed(streams') => Undisturbed(streams)
        /\ ByteCount(streams', concat') = b - o
        /\ Reach(streams', concat') = Reach(streams, concat) - o
    <2>1. CASE o > 0
      <3>1. concat.first \in Positions /\ Good(concat.first, streams[concat.first])
            /\ Fresh(concat.first, streams[concat.first], last + o)
        BY <1>1, <2>1 DEF Sound
      <3>2. last + o \in Nat /\ o <= last + o
        BY <1>1, <1>3
      <3>3. ConcatBackUp(o)
        BY <1>2, <1>3, <2>1
      <3> HIDE DEF o
      <3>4. Fresh(concat.first, streams[concat.first], o)
        BY <1>3, <3>1, <3>2, FreshFacts
      <3> QED
        BY <1>1, <1>3, <3>1, <3>3, <3>4, ConcatBackUpFacts
    <2>2. CASE ~(o > 0)
      <3>1. o = 0 /\ streams' = streams /\ concat' = concat /\ crashed' = FALSE
        BY <1>1, <1>2, <1>3, <2>2
      <3> HIDE DEF o, b
      <3>2. b - o = b /\ Reach(streams, concat) - o = Reach(streams, concat)
        BY <1>3, <3>1
      <3>3. ByteCount(streams', concat') = b /\ Reach(streams', concat') = Reach(streams, concat)
        BY <3>1 DEF b
      <3> QED
        BY <1>1, <3>1, <3>2, <3>3
    <2> QED
      BY <2>1, <2>2
  <1>6. done'.op = "unlimit"
    BY <1>2
  <1>7. Ready(streams', concat', limiting', last', passed', done')
    <2>1. passed' \in Nat /\ last' \in Nat /\ last' <= passed'
      BY <1>1, <1>2
    <2>2. passed' <= Reach(streams', concat') - Over(limiting')
      BY <1>1, <1>2, <1>3, <1>4, <1>5
    <2>3. ~((done'.op = "next" /\ done'.ok) \/ Over(limiting') > 0)
      BY <1>4, <1>6
    <2> QED
      BY <1>4, <2>1, <2>2, <2>3 DEF Ready
  <1>8. IInv'
    BY <1>5, <1>7 DEF IInv
  <1>9. ASSUME Undisturbed(streams') PROVE Whole!Steps
    <2>1. Pos = b - o
      BY <1>1, CursorFacts
    <2> DEFINE d == ByteCount(streams', concat')
    <2>2. Pos' = d - 0 /\ End' = EndOf(d, limiting') /\ d = b - o
      BY <1>4, <1>5, CursorFactsAfter
    <2>3. Pos' = Pos
      BY <1>3, <2>1, <2>2
    <2>4. End' = Length
      BY <1>4, <2>2 DEF EndOf
    <2>5. Whole!Unlimit
      BY <1>2, <2>3, <2>4, Zenon DEF Whole!Unlimit, Whole!Returns, Pos, End
    <2> QED
      BY <2>5 DEF Whole!Steps
  <1> QED
    BY <1>6, <1>8, <1>9 DEF Kept

LEMMA LimitKept ==
    ASSUME IInv, NEW n \in Counts, Limit(n)
    PROVE  Kept
  <1>1. /\ Sound(streams, concat) /\ Exact(streams, concat) /\ limiting \in Limits
        /\ last \in Nat /\ passed \in Nat
        /\ passed <= Reach(streams, concat) - Over(limiting)
        /\ crashed = FALSE /\ n \in Nat
    BY LeavesAssumption DEF IInv, Ready
  <1> DEFINE b == ByteCount(streams, concat)
  <1>2. /\ limiting.on = FALSE /\ limiting' = [on |-> TRUE, limit |-> n, prior |-> b]
        /\ last' = 0 /\ passed' = passed /\ crashed' = FALSE
        /\ streams' = streams /\ concat' = concat
        /\ done' = [op |-> "limit", ok |-> TRUE, first |-> 0, n |-> n]
    <2>1. limiting.on \in BOOLEAN
      BY <1>1 DEF Limits
    <2> QED
      BY <1>1, <2>1 DEF Limit, Returns
  <1>3. b \in Nat /\ Length \in Nat /\ Over(limiting) = 0
    BY <1>1, <1>2, CursorFacts, LimitFacts
  <1>4. limiting' \in Limits /\ limiting'.on /\ limiting'.limit = n /\ Over(limiting') = 0
    BY <1>1, <1>2, <1>3 DEF Over, Limits
  <1>5. done'.op = "limit"
    BY <1>2
  <1>6. Ready(streams', concat', limiting', last', passed', done')
    <2>1. passed' <= Reach(streams', concat') - Over(limiting')
      BY <1>1, <1>2, <1>3, <1>4
    <2>2. ~((done'.op = "next" /\ done'.ok) \/ Over(limiting') > 0)
      BY <1>4, <1>5
    <2> QED
      BY <1>1, <1>2, <1>4, <2>1, <2>2 DEF Ready
  <1>7. Sound(streams', concat') /\ Exact(streams', concat')
    BY <1>1, <1>2
  <1>8. IInv'
    BY <1>2, <1>6, <1>7 DEF IInv
  <1>9. Whole!Steps
    <2>1. Pos = b - 0
      BY <1>1, <1>3, CursorFacts
    <2>2. Pos' = b - 0 /\ End' = EndOf(b, limiting')
      BY <1>2, <1>4, <1>7, CursorFactsAfter
    <2>3. Pos' = Pos
      BY <2>1, <2>2
    <2>4. b + n \in Int /\ Pos + n = b + n
      BY <1>1, <1>3, <2>1
    <2>5. Whole!Min({Pos + n, Length}) = IF b + n <= Length THEN b + n ELSE Length
      BY <1>3, <2>4, WholeMinFacts
    <2> HIDE DEF b
    <2>6. End' = Whole!Min({Pos + n, Length})
      BY <1>1, <1>3, <1>4, <2>2, <2>5 DEF EndOf
    <2>7. Whole!Limit
      BY <1>2, <2>3, <2>6, Zenon DEF Whole!Limit, Whole!Returns, Pos, End
    <2> QED
      BY <2>7 DEF Whole!Steps
  <1> QED
    BY <1>5, <1>8, <1>9 DEF Kept

-----------------------------------------------------------------------------
(* Skip(). *)

(* Skip() of the concatenation: as far as asked, or to the end. *)
LEMMA ConcatSkipFacts ==
    ASSUME IInv, NEW n \in Nat, NEW a \in ConcatSkip(n), Apply(a)
    PROVE  /\ Sound(streams', concat') /\ Exact(streams', concat') /\ crashed' = FALSE
           /\ a.r.ok \in BOOLEAN
           /\ Reach(streams, concat) <= Reach(streams', concat')
           /\ Undisturbed(streams') =>
                  /\ Undisturbed(streams)
                  /\ a.r.ok => ByteCount(streams', concat') = ByteCount(streams, concat) + n
                  /\ ~a.r.ok => /\ ByteCount(streams', concat') = Length
                                /\ ByteCount(streams, concat) + n >= Length
                                /\ ByteCount(streams, concat) + n > Length \/ n = 0
  <1>1. a \in Loop(TRUE, n)
    BY DEF ConcatSkip
  <1>2. /\ Asked(TRUE, n, a) /\ (a.over \/ a.c.first > Len(Leaves))
        /\ a.over \in BOOLEAN /\ a.r.ok \in BOOLEAN /\ (a.r.ok <=> a.over)
        /\ Sound(streams', concat') /\ Exact(streams', concat') /\ crashed' = FALSE
        /\ Undisturbed(streams') => Undisturbed(streams)
        /\ streams' = a.ss /\ concat' = a.c
    BY <1>1, AskedFacts
  <1>3. AskedSkip(n, a)
    BY <1>2 DEF Asked
  <1>4. Reach(streams, concat) <= Reach(streams', concat')
    BY <1>2, <1>3 DEF AskedSkip
  <1>5. ASSUME Undisturbed(streams'), a.r.ok
        PROVE  ByteCount(streams', concat') = ByteCount(streams, concat) + n
    BY <1>2, <1>3, <1>5 DEF AskedSkip
  <1>6. ASSUME Undisturbed(streams'), ~a.r.ok
        PROVE  /\ ByteCount(streams', concat') = Length
               /\ ByteCount(streams, concat) + n >= Length
               /\ ByteCount(streams, concat) + n > Length \/ n = 0
    <2>1. /\ a.n \in Nat /\ (a.n = 0 => n = 0)
          /\ ByteCount(streams', concat') + a.n = ByteCount(streams, concat) + n
      BY <1>2, <1>3, <1>6 DEF AskedSkip
    <2>2. ByteCount(streams', concat') = Length
      BY <1>2, <1>6, EndedFacts
    <2>3. ByteCount(streams, concat) \in Nat /\ Length \in Nat
      BY StartFacts, LeafFacts, ReachFacts DEF IInv
    <2> QED
      BY <2>1, <2>2, <2>3
  <1> QED
    BY <1>2, <1>4, <1>5, <1>6

(* What Whole!Skip asks of a Skip(). *)
LEMMA WholeSkipFacts ==
    ASSUME NEW n \in Counts, NEW ok \in BOOLEAN, n \in Nat, Pos \in Int, End \in Int, End' = End,
           last' = 0, done' = [op |-> "skip", ok |-> ok, first |-> 0, n |-> n],
           ok => Pos + n <= End, ~ok => Pos + n > End \/ Pos = End,
           Pos' = IF Pos + n <= End THEN Pos + n ELSE End
    PROVE  Whole!Steps
  <1>1. Pos + n \in Int
    OBVIOUS
  <1>2. Pos' = Whole!Min({Pos + n, End})
    BY <1>1, WholeMinFacts
  <1>3. Whole!Skip
    BY <1>2, Zenon DEF Whole!Skip, Whole!Returns, Pos, End
  <1> QED
    BY <1>3 DEF Whole!Steps

LEMMA SkipKept ==
    ASSUME IInv, NEW n \in Counts, Skip(n)
    PROVE  Kept
  <1>1. /\ Sound(streams, concat) /\ Exact(streams, concat) /\ limiting \in Limits
        /\ last \in Nat /\ passed \in Nat
        /\ passed <= Reach(streams, concat) - Over(limiting)
        /\ crashed = FALSE /\ n \in Nat
    BY LeavesAssumption DEF IInv, Ready
  <1> DEFINE o == Over(limiting)
             b == ByteCount(streams, concat)
             d == ByteCount(streams', concat')
             l == limiting.limit
  <1>2. /\ o \in Nat /\ b \in Nat /\ Reach(streams, concat) \in Nat /\ Length \in Nat
        /\ l \in Int /\ limiting.on \in BOOLEAN /\ limiting.prior \in Nat
        /\ Pos = b - o /\ Pos \in Int /\ End = EndOf(b, limiting) /\ End \in Int
    <2>1. limiting.limit \in Int /\ limiting.on \in BOOLEAN /\ limiting.prior \in Nat
      BY <1>1 DEF Limits
    <2> QED
      BY <1>1, <2>1, CursorFacts, ReachFacts
  <1>3. last' = 0 /\ passed' = passed
    BY DEF Skip
  <1>4. CASE limiting.on /\ n > l /\ l < 0
    <2>1. /\ streams' = streams /\ concat' = concat /\ limiting' = limiting /\ crashed' = crashed
          /\ done' = [op |-> "skip", ok |-> FALSE, first |-> 0, n |-> n]
      BY <1>4 DEF Skip, Returns
    <2>2. done'.op = "skip"
      BY <2>1
    <2>3. IInv'
      BY <1>3, <2>1, <2>2, UnmovedFacts
    <2>4. ASSUME Undisturbed(streams') PROVE Whole!Steps
      <3>1. Undisturbed(streams)
        BY <2>1, <2>4
      <3>2. b <= Length
        BY <1>1, <3>1, CursorFacts
      <3>3. o = -l
        BY <1>2, <1>4 DEF Over
      <3>4. Pos' = Pos /\ End' = End
        BY <2>1 DEF Pos, End, Overshoot
      <3> HIDE DEF o, b, d, l
      <3>5. Pos = b + l /\ End = b + l
        BY <1>2, <1>4, <3>2, <3>3 DEF EndOf, l
      <3>6. Pos' = IF Pos + n <= End THEN Pos + n ELSE End
        BY <1>1, <1>2, <3>4, <3>5
      <3> QED
        BY <1>1, <1>2, <1>3, <2>1, <3>4, <3>5, <3>6, WholeSkipFacts
    <2> QED
      BY <2>2, <2>3, <2>4 DEF Kept
  <1>5. CASE ~(limiting.on /\ n > l /\ l < 0)
    <2> DEFINE m == IF limiting.on /\ n > l THEN l ELSE n
    <2>1. o = 0 /\ m \in Nat /\ m <= n /\ (limiting.on => m <= l /\ l \in Nat)
      BY <1>1, <1>2, <1>5 DEF Over
    <2>2. PICK a \in ConcatSkip(m) :
              /\ Apply(a)
              /\ limiting' = IF limiting.on /\ n > l THEN [limiting EXCEPT !.limit = 0]
                             ELSE IF limiting.on /\ a.r.ok THEN [limiting EXCEPT !.limit = @ - n]
                             ELSE limiting
              /\ done' = [op |-> "skip", ok |-> (IF limiting.on /\ n > l THEN FALSE ELSE a.r.ok),
                          first |-> 0, n |-> n]
      <3>1. CASE limiting.on /\ n > l
        <4>1. ~(l < 0)
          BY <1>5, <3>1
        <4>2. /\ \E a \in ConcatSkip(l) : Apply(a)
              /\ limiting' = [limiting EXCEPT !.limit = 0]
              /\ done' = [op |-> "skip", ok |-> FALSE, first |-> 0, n |-> n]
          BY <3>1, <4>1, Zenon DEF Skip, Returns
        <4> QED
          BY <3>1, <4>2, Zenon
      <3>2. CASE ~(limiting.on /\ n > l)
        <4>1. \E a \in ConcatSkip(n) :
                  /\ Apply(a)
                  /\ limiting' = IF limiting.on /\ a.r.ok THEN [limiting EXCEPT !.limit = @ - n]
                                 ELSE limiting
                  /\ done' = [op |-> "skip", ok |-> a.r.ok, first |-> 0, n |-> n]
          BY <3>2, Zenon DEF Skip, Returns
        <4> QED
          BY <3>2, <4>1, Zenon
      <3> QED
        BY <3>1, <3>2
    <2> HIDE DEF m
    <2>3. /\ Sound(streams', concat') /\ Exact(streams', concat') /\ crashed' = FALSE
          /\ a.r.ok \in BOOLEAN
          /\ Reach(streams, concat) <= Reach(streams', concat')
          /\ Undisturbed(streams') =>
                 /\ Undisturbed(streams)
                 /\ a.r.ok => d = b + m
                 /\ ~a.r.ok => /\ d = Length /\ b + m >= Length
                               /\ b + m > Length \/ m = 0
      BY <2>1, <2>2, ConcatSkipFacts
    <2>4. limiting' \in Limits /\ limiting'.on = limiting.on
          /\ (limiting.on /\ n > l => limiting'.limit = 0)
          /\ (limiting.on /\ ~(n > l) => limiting'.limit = IF a.r.ok THEN l - n ELSE l)
      <3>1. CASE limiting.on /\ n > l
        <4>1. limiting' = [limiting EXCEPT !.limit = 0]
          BY <2>2, <3>1
        <4>2. limiting' \in Limits /\ limiting'.on = limiting.on /\ limiting'.limit = 0
          BY <1>1, <4>1 DEF Limits
        <4> QED
          BY <3>1, <4>2
      <3>2. CASE limiting.on /\ ~(n > l) /\ a.r.ok
        <4>1. limiting' = [limiting EXCEPT !.limit = l - n]
          BY <2>2, <3>2
        <4>2. l - n \in Int
          BY <1>1, <1>2
        <4>3. /\ limiting' \in Limits /\ limiting'.on = limiting.on
              /\ limiting'.limit = l - n
          <5> DEFINE k == l - n
          <5> HIDE DEF k
          <5>1. limiting' = [limiting EXCEPT !.limit = k] /\ k \in Int
            BY <4>1, <4>2 DEF k
          <5>2. limiting' \in Limits /\ limiting'.on = limiting.on /\ limiting'.limit = k
            BY <1>1, <5>1 DEF Limits
          <5> QED
            BY <5>2 DEF k
        <4> QED
          BY <3>2, <4>3
      <3>3. CASE ~(limiting.on /\ n > l) /\ ~(limiting.on /\ a.r.ok)
        <4>1. limiting' = limiting
          BY <2>2, <3>3
        <4> QED
          BY <1>1, <3>3, <4>1
      <3> QED
        BY <3>1, <3>2, <3>3
    <2>5. Over(limiting') = 0
      <3>1. limiting'.on => limiting'.limit \in Nat
        BY <1>1, <1>2, <2>1, <2>4 DEF m
      <3> QED
        BY <3>1 DEF Over
    <2>6. done'.op = "skip"
      BY <2>2
    <2>7. Ready(streams', concat', limiting', last', passed', done')
      <3>1. Reach(streams', concat') \in Nat
        BY <2>3, ReachFacts
      <3>2. passed' <= Reach(streams', concat') - Over(limiting')
        BY <1>1, <1>2, <1>3, <2>1, <2>3, <2>5, <3>1
      <3>3. ~((done'.op = "next" /\ done'.ok) \/ Over(limiting') > 0)
        BY <2>5, <2>6
      <3> QED
        BY <1>1, <1>3, <2>4, <3>2, <3>3 DEF Ready
    <2>8. IInv'
      BY <2>3, <2>7 DEF IInv
    <2>9. ASSUME Undisturbed(streams') PROVE Whole!Steps
      <3>1. b <= Length
        <4>1. Undisturbed(streams)
          BY <2>3, <2>9
        <4> QED
          BY <1>1, <4>1, CursorFacts
      <3>2. Pos' = d - 0 /\ End' = EndOf(d, limiting') /\ d \in Nat /\ d <= Length
        BY <2>3, <2>4, <2>5, <2>9, CursorFactsAfter
      <3>3. Pos = b
        BY <1>2, <2>1
      <3>4. /\ a.r.ok => d = b + m
            /\ ~a.r.ok => d = Length /\ b + m >= Length /\ (b + m > Length \/ m = 0)
        BY <2>3, <2>9
      <3> HIDE DEF b, d
      <3>5. CASE limiting.on /\ n > l
        <4>1. m = l
          BY <3>5 DEF m
        <4> DEFINE e == limiting'.limit
        <4>2. limiting'.on /\ e = 0
          BY <2>4, <3>5
        <4> HIDE DEF l, e
        <4>3. End = IF b + l < Length THEN b + l ELSE Length
          BY <1>2, <3>5 DEF EndOf, l
        <4>4. End' = IF d + e < Length THEN d + e ELSE Length
          BY <3>2, <4>2 DEF EndOf, e
        <4>5. d = End /\ End' = End /\ Pos + n > End
          BY <1>1, <1>2, <2>3, <3>1, <3>2, <3>3, <3>4, <3>5, <4>1, <4>2, <4>3, <4>4
        <4>6. Pos' = IF Pos + n <= End THEN Pos + n ELSE End
          BY <1>1, <1>2, <3>2, <3>3, <4>5
        <4>7. done' = [op |-> "skip", ok |-> FALSE, first |-> 0, n |-> n]
          BY <2>2, <3>5 DEF l
        <4> QED
          BY <1>1, <1>2, <1>3, <4>5, <4>6, <4>7, WholeSkipFacts
      <3>6. CASE ~(limiting.on /\ n > l)
        <4>1. m = n
          BY <3>6 DEF m
        <4> DEFINE e == limiting'.limit
        <4>2. limiting.on => n <= l /\ e = IF a.r.ok THEN l - n ELSE l
          BY <1>1, <1>2, <2>4, <3>6
        <4> HIDE DEF l, e
        <4>3. End = IF limiting.on /\ b + l < Length THEN b + l ELSE Length
          BY <1>2 DEF EndOf, l
        <4>4. End' = IF limiting.on /\ d + e < Length THEN d + e ELSE Length
          BY <2>4, <3>2 DEF EndOf, e
        <4>5. done' = [op |-> "skip", ok |-> a.r.ok, first |-> 0, n |-> n]
          BY <2>2, <3>6, Zenon DEF l
        <4>6. CASE a.r.ok
          <5>1. d = b + n /\ (limiting.on => d + e = b + l)
            BY <1>1, <1>2, <3>2, <3>4, <4>1, <4>2, <4>6
          <5>2. End' = End /\ b + n <= End
            BY <1>1, <1>2, <3>2, <4>2, <4>3, <4>4, <5>1
          <5>3. Pos' = IF Pos + n <= End THEN Pos + n ELSE End
            BY <1>1, <1>2, <3>2, <3>3, <5>1, <5>2
          <5>4. Pos + n <= End
            BY <3>3, <5>2
          <5> QED
            BY <1>1, <1>2, <1>3, <2>3, <4>5, <4>6, <5>2, <5>3, <5>4, WholeSkipFacts
        <4>7. CASE ~a.r.ok
          <5>1. d = Length /\ b + n >= Length /\ (b + n > Length \/ n = 0)
            BY <3>4, <4>1, <4>7
          <5>2. End = Length
            BY <1>1, <1>2, <3>1, <4>2, <4>3, <5>1
          <5>3. End' = Length
            BY <1>1, <1>2, <4>2, <4>4, <4>7, <5>1
          <5>4. Pos' = (IF Pos + n <= End THEN Pos + n ELSE End) /\ (Pos + n > End \/ Pos = End)
            BY <1>1, <1>2, <3>1, <3>2, <3>3, <5>1, <5>2
          <5> QED
            BY <1>1, <1>2, <1>3, <2>3, <4>5, <4>7, <5>2, <5>3, <5>4, WholeSkipFacts
        <4> QED
          BY <4>6, <4>7
      <3> QED
        BY <3>5, <3>6
    <2> QED
      BY <2>6, <2>8, <2>9 DEF Kept
  <1> QED
    BY <1>4, <1>5

-----------------------------------------------------------------------------
(* The specification. *)

LEMMA InitFacts ==
    ASSUME Init
    PROVE  IInv /\ Whole!Init
  <1>1. concat = [first |-> 1, bytes_retired |-> 0] /\ concat.first = 1 /\ concat.bytes_retired = 0
    BY DEF Init
  <1>2. /\ limiting = NoLimit /\ crashed = FALSE /\ last = 0 /\ passed = 0
        /\ done = [op |-> "new", ok |-> TRUE, first |-> 0, n |-> 0] /\ done.op = "new"
    BY DEF Init
  <1>3. limiting \in Limits /\ Over(limiting) = 0 /\ limiting.on = FALSE
    BY <1>2 DEF NoLimit, Limits, Over
  <1>4. ASSUME NEW i \in Positions
        PROVE  Good(i, streams[i]) /\ Live(i, streams[i]) /\ Count(i, streams[i]) = 0
    <2> DEFINE s == streams[i]
    <2>1. s = IF Leaves[i].kind = "array" THEN [position |-> 0, last_returned_size |-> 0]
              ELSE [position |-> 0, buffer |-> FALSE, buffer_used |-> 0, backup_bytes |-> 0,
                    failed |-> FALSE, offset |-> 0, previous_seek_failed |-> FALSE, errors |-> 0]
      BY <1>4 DEF Init
    <2>2. Leaves[i].size \in Nat /\ Leaves[i].block \in Nat
      BY <1>4, LeafFacts
    <2> HIDE DEF s
    <2>3. Good(i, s) /\ Live(i, s) /\ Count(i, s) = 0
      BY <2>1, <2>2 DEF Good, Live, Count, IsArray, ArrayStreams, AdaptorStreams
    <2> QED
      BY <2>3 DEF s
  <1>5. Sound(streams, concat)
    <2>1. streams = [i \in Positions |-> streams[i]]
      BY DEF Init
    <2>2. concat \in [first : 1 .. (Len(Leaves) + 1), bytes_retired : Nat]
      BY <1>1, LeafFacts
    <2> QED
      BY <1>4, <2>1, <2>2 DEF Sound
  <1>6. Exact(streams, concat)
    BY <1>1, StartFacts DEF Exact
  <1>7. Reach(streams, concat) \in Nat
    BY <1>5, ReachFacts
  <1>8. Ready(streams, concat, limiting, last, passed, done)
    BY <1>2, <1>3, <1>7 DEF Ready
  <1>9. ByteCount(streams, concat) = 0
    <2>1. CASE concat.first > Len(Leaves)
      BY <1>1, <2>1 DEF ByteCount
    <2>2. CASE ~(concat.first > Len(Leaves))
      <3>1. concat.first \in Positions
        BY <1>1, <2>2, LeafFacts
      <3> QED
        BY <1>1, <1>4, <2>2, <3>1, StreamByteCountIsCount DEF ByteCount
    <2> QED
      BY <2>1, <2>2
  <1>10. Pos = 0 /\ End = Length
    BY <1>3, <1>5, <1>6, <1>9, CursorFacts DEF End
  <1>11. Whole!Init
    BY <1>2, <1>10, Zenon DEF Whole!Init, Pos, End
  <1> QED
    BY <1>2, <1>5, <1>6, <1>8, <1>11 DEF IInv

LEMMA StepsKept ==
    ASSUME IInv, Steps
    PROVE  Kept
  <1>1. CASE NextChunk
    BY <1>1, NextKept
  <1>2. CASE \E n \in 0 .. last : BackUp(n)
    BY <1>2, BackUpKept, Zenon
  <1>3. CASE \E n \in Counts : Skip(n) \/ Limit(n)
    BY <1>3, SkipKept, LimitKept, Zenon
  <1>4. CASE Unlimit
    BY <1>4, UnlimitKept
  <1> QED
    BY <1>1, <1>2, <1>3, <1>4, Zenon DEF Steps

(* The invariant holds in every state. *)
THEOREM StreamsInvariant == Spec => []IInv
  <1>1. Init => IInv
    BY InitFacts
  <1>2. IInv /\ [Steps]_vars => IInv'
    <2> SUFFICES ASSUME IInv, [Steps]_vars PROVE IInv'
      OBVIOUS
    <2>1. CASE Steps
      BY <2>1, StepsKept DEF Kept
    <2>2. CASE UNCHANGED vars
      <3>1. /\ streams' = streams /\ concat' = concat /\ limiting' = limiting /\ crashed' = crashed
            /\ last' = last /\ passed' = passed /\ done' = done
        BY <2>2 DEF vars
      <3> QED
        BY <3>1 DEF IInv
    <2> QED
      BY <2>1, <2>2
  <1> QED
    BY <1>1, <1>2, PTL DEF Spec

LEMMA SoundIsTyped ==
    ASSUME IInv
    PROVE  NoCheckFails
  <1>1. /\ Sound(streams, concat) /\ limiting \in Limits /\ last \in Nat /\ passed \in Nat
        /\ crashed = FALSE
    BY DEF IInv, Ready
  <1>2. ASSUME NEW i \in Positions PROVE StreamOK(i, streams[i])
    <2>1. Good(i, streams[i])
      BY <1>1 DEF Sound
    <2>2. Leaves[i].size \in Nat /\ Leaves[i].block \in Nat
      BY LeafFacts
    <2> QED
      BY <2>1, <2>2 DEF Good, StreamOK, ArrayStreams, AdaptorStreams
  <1>3. concat.first \in 1 .. (Len(Leaves) + 1) /\ concat.bytes_retired \in Nat
    BY <1>1 DEF Sound
  <1>4. limiting.limit \in Int /\ limiting.prior \in Nat /\ limiting.on \in BOOLEAN
    BY <1>1 DEF Limits
  <1> QED
    BY <1>1, <1>2, <1>3, <1>4 DEF NoCheckFails, TypeOK

(* The streams' members keep the bounds their comments give, and no CHECK   *)
(* of BackUp() fails: whatever a limit or a caller backs up over is what    *)
(* the stream it goes to returned last.                                     *)
THEOREM StreamsNeverCrash == Spec => []NoCheckFails
  <1>1. IInv => NoCheckFails
    BY SoundIsTyped
  <1> QED
    BY <1>1, StreamsInvariant, PTL

(* Whatever fails, no Next() returns a byte at or before the last byte      *)
(* delivered and not backed up over.                                        *)
THEOREM StreamsDeliverOnce == Spec => NothingTwice
  <1>1. IInv /\ [Steps]_vars => [done'.op = "next" /\ done'.ok => done'.first >= passed]_vars
    BY StepsKept DEF Kept
  <1> QED
    BY <1>1, StreamsInvariant, PTL DEF Spec, NothingTwice

(* Until a read() fails or an lseek() goes past the end of its file, the    *)
(* concatenation, limited or not, is one stream over all the bytes: every   *)
(* call moves the one cursor as zero_copy_stream.h says.                    *)
THEOREM StreamsAreOneStream == Spec => ImplementsZeroCopyInput
  <1>1. Init => Whole!Init
    BY InitFacts
  <1>2. IInv /\ [Steps]_vars => [Undisturbed(streams') => Whole!Steps]_vars
    BY StepsKept DEF Kept
  <1> QED
    BY <1>1, <1>2, StreamsInvariant, PTL DEF Spec, ImplementsZeroCopyInput
=============================================================================
