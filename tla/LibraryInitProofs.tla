-------------------------- MODULE LibraryInitProofs -------------------------
(***************************************************************************)
(* Proofs about the lazy initialization, for any number of threads and of  *)
(* calls: nothing is used before it is made, the mutexes keep the threads  *)
(* apart, the types are registered once and everything is deleted once.    *)
(***************************************************************************)
EXTENDS LibraryInit, FiniteSetTheorems, SequenceTheorems, TLAPS

-----------------------------------------------------------------------------
(* What the instructions mean to those around them.                        *)

factory        == "generated_message_factory_"
pool           == "generated_pool_"
shutdownMutex  == "shutdown_functions_mutex"
silencerMutex  == "log_silencer_count_mutex_"

(* The stages of a GoogleOnceInit. *)
Loads == {"once", "impl", "cas", "spin"}

Instructions ==
    [op : Loads \cup {"store"}, obj : Onces]
    \cup [op : {"lock", "unlock"}, obj : Mutexes]
    \cup [op : {"new", "push", "use"}, obj : Objects]
    \cup {I("build", pool), I("find", factory), I("register", factory),
          I("log_handler", "stderr")}
    \cup [op : {"++", "--", "test"}, obj : {"log_silencer_count_"}]

(* The objects a caller of GoogleOnceInit counts on. *)
Promised ==
    [shutdown_functions_init              |-> {"shutdown_functions", shutdownMutex},
     log_silencer_count_init_             |-> {silencerMutex},
     generated_pool_init_                 |-> {pool},
     generated_message_factory_once_init_ |-> {factory},
     empty_string_once_init_              |-> {"empty_string_"},
     protobuf_AssignDescriptors_once_     |-> {"reflection_"}]

(* The objects that exist once an instruction is executed, and those that   *)
(* it takes to execute it.                                                  *)
Adds(i) == IF i.op \in Loads THEN Promised[i.obj]
           ELSE IF i.op = "new" THEN {i.obj} ELSE {}

Needs(i) == IF i.op = "store" THEN Promised[i.obj]
            ELSE IF i.op = "push" THEN {"shutdown_functions"}
            ELSE IF i.op \in {"lock", "unlock", "use", "build", "find", "register"} THEN {i.obj}
            ELSE {}

Provided(s, objects) ==
    \A k \in 1 .. Len(s) : \A x \in Needs(s[k]) :
        x \in objects \/ \E j \in 1 .. (k - 1) : x \in Adds(s[j])

(* The mutex that guards what an instruction accesses.  A hold of a mutex   *)
(* lasts to its unlock, and only that of the factory over a GoogleOnceInit. *)
Guards(i) == IF i.op = "unlock" THEN {i.obj}
             ELSE IF i.op = "push" THEN {shutdownMutex}
             ELSE IF i.op \in {"find", "register"} THEN {factory}
             ELSE IF i.op = "build" THEN {pool}
             ELSE IF i.op \in {"++", "--", "test"} THEN {silencerMutex}
             ELSE {}

Keeps(i, m) == i # I("unlock", m) /\ (i.op \in Loads => m = factory)

HeldAt(s, k, m, holds) ==
    \/ m \in holds /\ \A j \in 1 .. (k - 1) : Keeps(s[j], m)
    \/ \E j \in 1 .. (k - 1) : s[j] = I("lock", m) /\ \A i \in (j + 1) .. (k - 1) : Keeps(s[i], m)

Guarded(s, holds) ==
    \A k \in 1 .. Len(s) : \A m \in Guards(s[k]) : HeldAt(s, k, m, holds)

(* A type is registered only after a look at the map under the same lock.   *)
Stays(i) == i # I("unlock", factory) /\ i.op # "register"

Looked(s, missing) ==
    \A k \in 1 .. Len(s) : s[k].op = "register" =>
        \/ missing /\ \A j \in 1 .. (k - 1) : Stays(s[j])
        \/ \E j \in 1 .. (k - 1) : s[j].op = "find" /\ \A i \in (j + 1) .. (k - 1) : Stays(s[i])

(* The instructions that a jump must not leave out. *)
Once == {"new", "push", "++", "--"}

Jumps(s) ==
    \A k \in 1 .. Len(s) :
        /\ s[k].op \in {"find", "test"} => \A j \in (k + 1) .. Len(s) : s[j].op \notin Once
        /\ s[k].op = "find" => s[Len(s)] = I("unlock", factory)
        /\ s[k].op = "test" => k < Len(s) /\ s[k + 1] = I("unlock", silencerMutex)

(* Whoever makes an object registers its deleter; those of the vector and   *)
(* of its mutex are the shutdown itself's, the reflection is deleted with   *)
(* the default instance.                                                    *)
Unregistered == {"shutdown_functions", shutdownMutex, "reflection_"}

Registered(s) ==
    \A k \in 1 .. Len(s) : s[k].op = "new" /\ s[k].obj \notin Unregistered =>
        \E j \in (k + 1) .. Len(s) : s[j] = I("push", s[k].obj)

ContainsOp(s, op) == \E k \in 1 .. Len(s) : s[k].op = op

PushesOnce(s) ==
    \A j, k \in 1 .. Len(s) : s[j].op = "push" /\ s[j] = s[k] => j = k

(* A silencer is counted, and then uncounted. *)
Paired(s) ==
    \A k, l \in 1 .. Len(s) :
        /\ s[k].op \in {"++", "--"} /\ s[l].op = s[k].op => k = l
        /\ s[k].op = "++" => \E j \in (k + 1) .. Len(s) : s[j].op = "--"

-----------------------------------------------------------------------------
(* The inductive invariant.                                                 *)

Has(t, i) == Contains(code[t], i)

HasOp(t, op) == ContainsOp(code[t], op)

Holds(t) == {m \in Mutexes : held[m] = t}

(* What the winner of the race for o executes: its closure, and the store.  *)
Body(o) == Closures[o] \o <<I("store", o)>>

(* The closure of o registers the deleter f. *)
Registers(o, f) == Contains(Body(o), I("push", f))

(* A program that needs the objects, holds the mutexes, and found the types *)
(* missing or has yet to look.                                              *)
Sound(s, objects, holds, missing) ==
    /\ s \in Seq(Instructions)
    /\ Provided(s, objects) /\ Guarded(s, holds) /\ Looked(s, missing)
    /\ Jumps(s) /\ Registered(s) /\ Paired(s) /\ PushesOnce(s)

Missing(t) == type_map_ = 0 /\ factory \in Holds(t)

Typed ==
    /\ TypeOK
    /\ shutdown_functions \in Seq(Objects)
    /\ code \in [Threads -> Seq(Instructions)]

Programs == \A t \in Threads : Sound(code[t], made, Holds(t), Missing(t))

Stages ==
    /\ stage = "static" => \A t \in Threads : t # Main => code[t] = << >>
    /\ stage = "static" => \A x \in {"shutdown_functions", "default_instance_"} :
           x \in made \/ \E k \in 1 .. Len(code[Main]) : x \in Adds(code[Main][k])
    /\ stage = "static" => ~HasOp(Main, "find") /\ ~HasOp(Main, "test")
    /\ stage = "main" => {"shutdown_functions", "default_instance_"} \subseteq made
    /\ stage = "shutdown" => made = {} /\ \A t \in Threads : code[t] = << >>

Ready ==
    /\ stage # "shutdown" => \A o \in Onces : once[o] = "DONE" => Promised[o] \subseteq made
    /\ \A t \in Threads, o \in Onces :
           Has(t, I("spin", o)) \/ Has(t, I("store", o)) => once[o] # "UNINITIALIZED"

Deleters ==
    /\ IsInjective(shutdown_functions)
    /\ \A f \in Objects, t \in Threads :
           Has(t, I("push", f)) => f \notin ToSet(shutdown_functions)
    /\ \A f \in Objects, o \in Onces : Registers(o, f) /\ once[o] = "UNINITIALIZED" =>
           /\ f \notin ToSet(shutdown_functions)
           /\ \A t \in Threads : ~Has(t, I("push", f))
    /\ \A t, u \in Threads, f \in Objects :
           Has(t, I("push", f)) /\ Has(u, I("push", f)) => t = u
    /\ \A x \in made \ Unregistered :
           x \in ToSet(shutdown_functions) \/ \E t \in Threads : Has(t, I("push", x))

Silencing == {t \in Threads : HasOp(t, "--") /\ ~HasOp(t, "++")}

Silencers == log_silencer_count_ = Cardinality(Silencing)

IInv == /\ Typed /\ Programs /\ Stages /\ Ready /\ RegisteredOnce /\ Deleters /\ Silencers

-----------------------------------------------------------------------------
(* A program is executed from its head on, and what an instruction stands   *)
(* for is put in front of the rest.                                         *)

(* The positions of the rest of a program. *)
LEMMA TailFacts ==
    ASSUME NEW S, NEW s \in Seq(S), s # << >>
    PROVE  /\ Tail(s) \in Seq(S) /\ Head(s) \in S
           /\ Head(s) = s[1] /\ Len(s) \in Nat /\ Len(s) >= 1
           /\ Len(Tail(s)) = Len(s) - 1
           /\ \A k \in 1 .. (Len(s) - 1) : Tail(s)[k] = s[k + 1]
  BY EmptySeq, LenProperties, HeadTailProperties, ElementOfSeq

(* The positions of one program followed by another. *)
LEMMA ConcatFacts ==
    ASSUME NEW S, NEW a \in Seq(S), NEW b \in Seq(S)
    PROVE  /\ a \o b \in Seq(S)
           /\ Len(a) \in Nat /\ Len(b) \in Nat /\ Len(a \o b) = Len(a) + Len(b)
           /\ \A k \in 1 .. Len(a) : (a \o b)[k] = a[k]
           /\ \A k \in 1 .. Len(b) : (a \o b)[Len(a) + k] = b[k]
           /\ \A k \in 1 .. (Len(a) + Len(b)) : k > Len(a) => (a \o b)[k] = b[k - Len(a)]
  BY ConcatProperties, LenProperties

(* What a program needs exists when its first instruction is executed.      *)
LEMMA ProvidedTail ==
    ASSUME NEW S, NEW s \in Seq(S), s # << >>, NEW X, Provided(s, X)
    PROVE  /\ Needs(Head(s)) \subseteq X
           /\ Provided(Tail(s), X \cup Adds(Head(s)))
<1> USE TailFacts
<1>1. Needs(Head(s)) \subseteq X
  BY DEF Provided
<1>2. ASSUME NEW k \in 1 .. Len(Tail(s)), NEW x \in Needs(Tail(s)[k])
      PROVE  \/ x \in X \cup Adds(Head(s))
             \/ \E j \in 1 .. (k - 1) : x \in Adds(Tail(s)[j])
  <2>1. k + 1 \in 1 .. Len(s) /\ Tail(s)[k] = s[k + 1]
    OBVIOUS
  <2>2. x \in X \/ \E j \in 1 .. k : x \in Adds(s[j])
    BY <2>1 DEF Provided
  <2>3. CASE x \in X
    BY <2>3
  <2>4. ASSUME NEW j \in 1 .. k, x \in Adds(s[j])  
             PROVE  \/ x \in X \cup Adds(Head(s))
                    \/ \E i \in 1 .. (k - 1) : x \in Adds(Tail(s)[i])
    <3>1. CASE j = 1
      BY <2>4, <3>1
    <3>2. CASE j # 1
      <4>1. j - 1 \in 1 .. (k - 1) /\ Tail(s)[j - 1] = s[j]
        BY <3>2
      <4> QED  BY <4>1, <2>4
    <3> QED  BY <3>1, <3>2
  <2> QED  BY <2>2, <2>3, <2>4
<1> QED  BY <1>1, <1>2 DEF Provided

(* Two programs in a row, the second counting on what the first adds. *)
LEMMA ProvidedConcat ==
    ASSUME NEW S, NEW a \in Seq(S), NEW b \in Seq(S), NEW X, NEW Y,
           Provided(a, X), Provided(b, Y),
           \A y \in Y : y \in X \/ \E j \in 1 .. Len(a) : y \in Adds(a[j])
    PROVE  Provided(a \o b, X)
<1> DEFINE r == a \o b
<1>1. /\ Len(a) \in Nat /\ Len(b) \in Nat /\ Len(r) = Len(a) + Len(b)
      /\ \A k \in 1 .. Len(a) : r[k] = a[k]
      /\ \A k \in 1 .. Len(b) : r[Len(a) + k] = b[k]
      /\ \A k \in 1 .. (Len(a) + Len(b)) : k > Len(a) => r[k] = b[k - Len(a)]
  BY ConcatFacts
<1> HIDE DEF r
<1>2. ASSUME NEW k \in 1 .. Len(r), NEW x \in Needs(r[k])
      PROVE  x \in X \/ \E j \in 1 .. (k - 1) : x \in Adds(r[j])
  <2>1. CASE k <= Len(a)
    BY <1>1, <2>1 DEF Provided
  <2>2. CASE k > Len(a)
    <3>1. /\ k - Len(a) \in 1 .. Len(b) /\ r[k] = b[k - Len(a)]
          /\ \A j \in 1 .. Len(a) : j \in 1 .. (k - 1) /\ r[j] = a[j]
      BY <1>1, <2>2
    <3>2. x \in Y \/ \E j \in 1 .. (k - Len(a) - 1) : x \in Adds(b[j])
      BY <3>1 DEF Provided
    <3>3. CASE x \in Y
      BY <3>1, <3>3
    <3>4. ASSUME NEW j \in 1 .. (k - Len(a) - 1), x \in Adds(b[j])  
               PROVE  \E i \in 1 .. (k - 1) : x \in Adds(r[i])
      <4>1. Len(a) + j \in 1 .. (k - 1) /\ r[Len(a) + j] = b[j]
        BY <1>1, <2>2, <3>1
      <4> QED  BY <4>1, <3>4
    <3> QED  BY <3>2, <3>3, <3>4
  <2> QED  BY <2>1, <2>2, <1>1
<1>3. Provided(r, X)
  BY <1>2 DEF Provided
<1> QED  BY <1>3 DEF r

(* More objects do no harm. *)
LEMMA ProvidedMore ==
    ASSUME NEW s, NEW X, NEW Y, Provided(s, X), X \subseteq Y
    PROVE  Provided(s, Y)
  BY DEF Provided

(* A thread holds what guards its next instruction, and keeps it to its     *)
(* unlock.                                                                  *)
LEMMA GuardedTail ==
    ASSUME NEW S, NEW s \in Seq(S), s # << >>, NEW H, NEW G, Guarded(s, H),
           \A m \in H : Keeps(Head(s), m) => m \in G,
           \A m : Head(s) = I("lock", m) => m \in G
    PROVE  Guards(Head(s)) \subseteq H /\ Guarded(Tail(s), G)
<1> USE TailFacts
<1>1. Guards(Head(s)) \subseteq H
  BY DEF Guarded, HeldAt
<1>2. ASSUME NEW k \in 1 .. Len(Tail(s)), NEW m \in Guards(Tail(s)[k])
      PROVE  HeldAt(Tail(s), k, m, G)
  <2>1. /\ k + 1 \in 1 .. Len(s) /\ Tail(s)[k] = s[k + 1]
        /\ \A j \in 1 .. (k - 1) : j + 1 \in 1 .. k /\ Tail(s)[j] = s[j + 1]
    OBVIOUS
  <2>2. HeldAt(s, k + 1, m, H)
    BY <2>1 DEF Guarded
  <2>3. CASE m \in H /\ \A j \in 1 .. k : Keeps(s[j], m)
    <3>1. 1 \in 1 .. k
      OBVIOUS
    <3>2. m \in G
      BY <2>3, <3>1
    <3> QED  BY <2>1, <2>3, <3>2 DEF HeldAt
  <2>4. ASSUME NEW j \in 1 .. k, s[j] = I("lock", m), \A i \in (j + 1) .. k : Keeps(s[i], m)
        PROVE  HeldAt(Tail(s), k, m, G)
    <3>1. CASE j = 1
      <4>1. m \in G
        BY <2>4, <3>1
      <4>2. \A i \in 1 .. (k - 1) : Keeps(Tail(s)[i], m)
        BY <2>1, <2>4, <3>1
      <4> QED  BY <4>1, <4>2 DEF HeldAt
    <3>2. CASE j # 1
      <4>1. j - 1 \in 1 .. (k - 1) /\ Tail(s)[j - 1] = s[j]
        BY <3>2
      <4>2. \A i \in ((j - 1) + 1) .. (k - 1) : Keeps(Tail(s)[i], m)
        <5> TAKE i \in ((j - 1) + 1) .. (k - 1)
        <5>1. i + 1 \in (j + 1) .. k /\ i \in 1 .. (k - 1)
          BY <3>2
        <5> QED  BY <5>1, <2>1, <2>4
      <4> QED  BY <4>1, <4>2, <2>4 DEF HeldAt
    <3> QED  BY <3>1, <3>2
  <2> QED  BY <2>2, <2>3, <2>4 DEF HeldAt
<1> QED  BY <1>1, <1>2 DEF Guarded

(* Two programs in a row, where what the second holds survives the first. *)
LEMMA GuardedConcat ==
    ASSUME NEW S, NEW a \in Seq(S), NEW b \in Seq(S), NEW H, NEW G,
           Guarded(a, H), Guarded(b, G),
           \A m \in G : m \in H /\ \A j \in 1 .. Len(a) : Keeps(a[j], m)
    PROVE  Guarded(a \o b, H)
<1> DEFINE r == a \o b
<1>1. /\ Len(a) \in Nat /\ Len(b) \in Nat /\ Len(r) = Len(a) + Len(b)
      /\ \A k \in 1 .. Len(a) : r[k] = a[k]
      /\ \A k \in 1 .. Len(b) : r[Len(a) + k] = b[k]
      /\ \A k \in 1 .. (Len(a) + Len(b)) : k > Len(a) => r[k] = b[k - Len(a)]
  BY ConcatFacts
<1> HIDE DEF r
<1>2. ASSUME NEW k \in 1 .. Len(r), NEW m \in Guards(r[k])
      PROVE  HeldAt(r, k, m, H)
  <2>1. CASE k <= Len(a)
    <3>1. r[k] = a[k] /\ k \in 1 .. Len(a) /\ \A j \in 1 .. (k - 1) : r[j] = a[j]
      BY <1>1, <2>1
    <3>2. HeldAt(a, k, m, H)
      BY <3>1 DEF Guarded
    <3>3. CASE m \in H /\ \A j \in 1 .. (k - 1) : Keeps(a[j], m)
      BY <3>1, <3>3 DEF HeldAt
    <3>4. ASSUME NEW j \in 1 .. (k - 1), a[j] = I("lock", m),
                 \A i \in (j + 1) .. (k - 1) : Keeps(a[i], m)
          PROVE  HeldAt(r, k, m, H)
      <4>1. \A i \in (j + 1) .. (k - 1) : i \in 1 .. (k - 1)
        OBVIOUS
      <4> QED  BY <3>1, <3>4, <4>1 DEF HeldAt
    <3> QED  BY <3>2, <3>3, <3>4 DEF HeldAt
  <2>2. CASE k > Len(a)
    <3> DEFINE n == Len(a)
               l == k - Len(a)
    <3>1. /\ l \in 1 .. Len(b) /\ r[k] = b[l] /\ k = n + l /\ n \in Nat
          /\ \A j \in 1 .. n : r[j] = a[j]
          /\ \A j \in 1 .. (l - 1) : n + j \in 1 .. (k - 1) /\ r[n + j] = b[j]
      BY <1>1, <2>2
    <3> HIDE DEF n, l
    <3>2. HeldAt(b, l, m, G)
      BY <3>1 DEF Guarded
    <3>3. CASE m \in G /\ \A j \in 1 .. (l - 1) : Keeps(b[j], m)
      <4>1. m \in H /\ \A j \in 1 .. n : Keeps(r[j], m)
        BY <3>1, <3>3 DEF n
      <4>2. \A j \in 1 .. (k - 1) : Keeps(r[j], m)
        <5> TAKE j \in 1 .. (k - 1)
        <5>1. CASE j <= n
          BY <4>1, <5>1, <3>1
        <5>2. CASE j > n
          <6>1. j - n \in 1 .. (l - 1) /\ n + (j - n) = j
            BY <5>2, <3>1
          <6> QED  BY <6>1, <3>1, <3>3
        <5> QED  BY <5>1, <5>2, <3>1
      <4> QED  BY <4>1, <4>2 DEF HeldAt
    <3>4. ASSUME NEW j \in 1 .. (l - 1), b[j] = I("lock", m),
                 \A i \in (j + 1) .. (l - 1) : Keeps(b[i], m)
          PROVE  HeldAt(r, k, m, H)
      <4>1. n + j \in 1 .. (k - 1) /\ r[n + j] = I("lock", m)
        BY <3>1, <3>4
      <4>2. \A i \in ((n + j) + 1) .. (k - 1) : Keeps(r[i], m)
        <5> TAKE i \in ((n + j) + 1) .. (k - 1)
        <5>1. i - n \in (j + 1) .. (l - 1) /\ i - n \in 1 .. (l - 1) /\ n + (i - n) = i
          BY <3>1
        <5>2. r[i] = b[i - n]
          BY <3>1, <5>1
        <5> QED  BY <5>1, <5>2, <3>4
      <4> QED  BY <4>1, <4>2 DEF HeldAt
    <3> QED  BY <3>2, <3>3, <3>4 DEF HeldAt
  <2> QED  BY <2>1, <2>2, <1>1
<1>3. Guarded(r, H)
  BY <1>2 DEF Guarded
<1> QED  BY <1>3 DEF r

(* More mutexes held do no harm. *)
LEMMA GuardedMore ==
    ASSUME NEW s, NEW H, NEW G, Guarded(s, H), H \subseteq G
    PROVE  Guarded(s, G)
  BY DEF Guarded, HeldAt

(* A look at the type map counts until the lock is given up or a type is    *)
(* registered.                                                              *)
LEMMA LookedTail ==
    ASSUME NEW S, NEW s \in Seq(S), s # << >>, NEW p \in BOOLEAN, NEW q \in BOOLEAN,
           Looked(s, p), p /\ Stays(Head(s)) => q, Head(s).op = "find" => q
    PROVE  (Head(s).op = "register" => p) /\ Looked(Tail(s), q)
<1> USE TailFacts
<1>1. Head(s).op = "register" => p
  BY DEF Looked
<1>2. ASSUME NEW k \in 1 .. Len(Tail(s)), Tail(s)[k].op = "register"
      PROVE  \/ q /\ \A j \in 1 .. (k - 1) : Stays(Tail(s)[j])
             \/ \E j \in 1 .. (k - 1) : /\ Tail(s)[j].op = "find"
                                        /\ \A i \in (j + 1) .. (k - 1) : Stays(Tail(s)[i])
  <2>1. /\ k + 1 \in 1 .. Len(s) /\ Tail(s)[k] = s[k + 1]
        /\ \A j \in 1 .. (k - 1) : j + 1 \in 2 .. k /\ Tail(s)[j] = s[j + 1]
    OBVIOUS
  <2>2. \/ p /\ \A j \in 1 .. k : Stays(s[j])
        \/ \E j \in 1 .. k : s[j].op = "find" /\ \A i \in (j + 1) .. k : Stays(s[i])
    BY <1>2, <2>1 DEF Looked
  <2>3. CASE p /\ \A j \in 1 .. k : Stays(s[j])
    <3>1. 1 \in 1 .. k
      OBVIOUS
    <3> QED  BY <2>1, <2>3, <3>1
  <2>4. ASSUME NEW j \in 1 .. k, s[j].op = "find", \A i \in (j + 1) .. k : Stays(s[i])
        PROVE  \/ q /\ \A i \in 1 .. (k - 1) : Stays(Tail(s)[i])
               \/ \E i \in 1 .. (k - 1) : /\ Tail(s)[i].op = "find"
                                          /\ \A h \in (i + 1) .. (k - 1) : Stays(Tail(s)[h])
    <3>1. CASE j = 1
      BY <2>1, <2>4, <3>1
    <3>2. CASE j # 1
      <4>1. j - 1 \in 1 .. (k - 1) /\ Tail(s)[j - 1] = s[j]
        BY <3>2
      <4>2. \A h \in ((j - 1) + 1) .. (k - 1) : Stays(Tail(s)[h])
        <5> TAKE h \in ((j - 1) + 1) .. (k - 1)
        <5>1. h + 1 \in (j + 1) .. k /\ h \in 1 .. (k - 1)
          BY <3>2
        <5> QED  BY <5>1, <2>1, <2>4
      <4> QED  BY <4>1, <4>2, <2>4
    <3> QED  BY <3>1, <3>2
  <2> QED  BY <2>2, <2>3, <2>4
<1> QED  BY <1>1, <1>2 DEF Looked

(* Two programs in a row, where the first leaves what the second saw as it was. *)
LEMMA LookedConcat ==
    ASSUME NEW S, NEW a \in Seq(S), NEW b \in Seq(S), NEW p \in BOOLEAN,
           \A j \in 1 .. Len(a) : Stays(a[j]), Looked(b, p)
    PROVE  Looked(a \o b, p)
<1> DEFINE r == a \o b
           n == Len(a)
<1>1. /\ n \in Nat /\ Len(b) \in Nat /\ Len(r) = n + Len(b)
      /\ \A k \in 1 .. n : r[k] = a[k] /\ Stays(r[k])
      /\ \A k \in 1 .. Len(b) : r[n + k] = b[k]
  BY ConcatFacts
<1> HIDE DEF r, n
<1>2. ASSUME NEW k \in 1 .. Len(r), r[k].op = "register"
      PROVE  \/ p /\ \A j \in 1 .. (k - 1) : Stays(r[j])
             \/ \E j \in 1 .. (k - 1) :
                   r[j].op = "find" /\ \A i \in (j + 1) .. (k - 1) : Stays(r[i])
  <2>1. k > n
    BY <1>1, <1>2 DEF Stays
  <2>2. /\ k - n \in 1 .. Len(b) /\ b[k - n].op = "register"
        /\ \A j \in 1 .. (k - 1) : j > n => j - n \in 1 .. (k - n - 1) /\ r[j] = b[j - n]
        /\ \A j \in 1 .. (k - n - 1) : n + j \in 1 .. (k - 1) /\ r[n + j] = b[j]
    <3>1. /\ k - n \in 1 .. Len(b) /\ n + (k - n) = k
          /\ \A j \in 1 .. (k - 1) : j > n =>
                 j - n \in 1 .. (k - n - 1) /\ n + (j - n) = j /\ j - n \in 1 .. Len(b)
          /\ \A j \in 1 .. (k - n - 1) : n + j \in 1 .. (k - 1) /\ j \in 1 .. Len(b)
      BY <2>1, <1>1
    <3> QED  BY <3>1, <1>1, <1>2
  <2>3. \/ p /\ \A j \in 1 .. (k - n - 1) : Stays(b[j])
        \/ \E j \in 1 .. (k - n - 1) :
               b[j].op = "find" /\ \A i \in (j + 1) .. (k - n - 1) : Stays(b[i])
    BY <2>2 DEF Looked
  <2>4. CASE p /\ \A j \in 1 .. (k - n - 1) : Stays(b[j])
    <3>1. \A j \in 1 .. (k - 1) : Stays(r[j])
      <4> TAKE j \in 1 .. (k - 1)
      <4>1. CASE j > n
        BY <4>1, <2>2, <2>4
      <4>2. CASE ~(j > n)
        <5>1. j \in 1 .. n
          BY <4>2, <1>1
        <5> QED  BY <5>1, <1>1
      <4> QED  BY <4>1, <4>2
    <3> QED  BY <3>1, <2>4
  <2>5. ASSUME NEW j \in 1 .. (k - n - 1), b[j].op = "find",
               \A i \in (j + 1) .. (k - n - 1) : Stays(b[i])
        PROVE  \E h \in 1 .. (k - 1) :
                   r[h].op = "find" /\ \A i \in (h + 1) .. (k - 1) : Stays(r[i])
    <3>1. n + j \in 1 .. (k - 1) /\ r[n + j].op = "find"
      BY <2>2, <2>5
    <3>2. \A i \in ((n + j) + 1) .. (k - 1) : Stays(r[i])
      <4> TAKE i \in ((n + j) + 1) .. (k - 1)
      <4>1. i \in 1 .. (k - 1) /\ i > n /\ i - n \in (j + 1) .. (k - n - 1)
        BY <1>1
      <4> QED  BY <4>1, <2>2, <2>5
    <3> QED  BY <3>1, <3>2
  <2> QED  BY <2>3, <2>4, <2>5
<1>3. Looked(r, p)
  BY <1>2 DEF Looked
<1> QED  BY <1>3 DEF r

(* Having seen that the types are missing does no harm. *)
LEMMA LookedMore ==
    ASSUME NEW s, NEW p \in BOOLEAN, NEW q \in BOOLEAN, Looked(s, p), p => q
    PROVE  Looked(s, q)
  BY DEF Looked

(* What a program contains is its head or in the rest of it, and what a     *)
(* program followed by another contains is in one of them.                  *)
LEMMA ContainsTail ==
    ASSUME NEW S, NEW s \in Seq(S), s # << >>
    PROVE  /\ \A i : Contains(s, i) <=> i = Head(s) \/ Contains(Tail(s), i)
           /\ \A op : ContainsOp(s, op) <=> Head(s).op = op \/ ContainsOp(Tail(s), op)
<1> DEFINE r == Tail(s)
<1>1. /\ Len(s) \in Nat /\ Len(s) >= 1 /\ Head(s) = s[1] /\ Len(r) = Len(s) - 1
      /\ \A k \in 1 .. (Len(s) - 1) : r[k] = s[k + 1]
  BY TailFacts
<1> HIDE DEF r
<1>2. \A k \in 1 .. Len(s) : s[k] = s[1] \/ \E j \in 1 .. Len(r) : s[k] = r[j]
  <2>1. \A k \in 1 .. Len(s) : k = 1 \/ (k - 1 \in 1 .. Len(r) /\ r[k - 1] = s[k])
    BY <1>1
  <2> QED  BY <2>1
<1>3. /\ 1 \in 1 .. Len(s)
      /\ \A k \in 1 .. Len(r) : k + 1 \in 1 .. Len(s) /\ r[k] = s[k + 1]
  BY <1>1
<1>4. \A i : Contains(s, i) <=> i = s[1] \/ Contains(r, i)
  BY <1>2, <1>3, Zenon DEF Contains
<1>5. \A op : ContainsOp(s, op) <=> s[1].op = op \/ ContainsOp(r, op)
  BY <1>2, <1>3, Zenon DEF ContainsOp
<1> QED  BY <1>1, <1>4, <1>5 DEF r

(* What two programs in a row contain. *)
LEMMA ContainsConcat ==
    ASSUME NEW S, NEW a \in Seq(S), NEW b \in Seq(S)
    PROVE  /\ \A i : Contains(a \o b, i) <=> Contains(a, i) \/ Contains(b, i)
           /\ \A op : ContainsOp(a \o b, op) <=> ContainsOp(a, op) \/ ContainsOp(b, op)
<1> DEFINE r == a \o b
           n == Len(a)
<1>1. /\ n \in Nat /\ Len(b) \in Nat /\ Len(r) = n + Len(b)
      /\ \A k \in 1 .. n : r[k] = a[k]
      /\ \A k \in 1 .. Len(b) : r[n + k] = b[k]
      /\ \A k \in 1 .. (n + Len(b)) : k > n => r[k] = b[k - n]
  BY ConcatFacts
<1> HIDE DEF r, n
<1>2. \A k \in 1 .. n : k \in 1 .. Len(r) /\ r[k] = a[k]
  BY <1>1
<1>3. \A k \in 1 .. Len(b) : n + k \in 1 .. Len(r) /\ r[n + k] = b[k]
  BY <1>1
<1>4. \A k \in 1 .. Len(r) : \/ k \in 1 .. n /\ r[k] = a[k]
                             \/ k - n \in 1 .. Len(b) /\ r[k] = b[k - n]
  BY <1>1
<1>5. \A i : Contains(r, i) <=> Contains(a, i) \/ Contains(b, i)
  BY <1>2, <1>3, <1>4 DEF Contains, n
<1>6. \A op : ContainsOp(r, op) <=> ContainsOp(a, op) \/ ContainsOp(b, op)
  BY <1>2, <1>3, <1>4, ZenonT(40) DEF ContainsOp, n
<1> QED  BY <1>5, <1>6 DEF r

(* A jump leaves no instruction out that must not be.                       *)
LEMMA JumpsTail ==
    ASSUME NEW S, NEW s \in Seq(S), s # << >>, Jumps(s)
    PROVE  /\ Jumps(Tail(s))
           /\ Head(s).op \in {"find", "test"} => \A op \in Once : ~ContainsOp(Tail(s), op)
           /\ Head(s).op = "find" => s[Len(s)] = I("unlock", factory)
           /\ Head(s).op = "test" => Len(s) >= 2 /\ s[2] = I("unlock", silencerMutex)
<1> DEFINE r == Tail(s)
<1>1. /\ Len(s) \in Nat /\ Len(s) >= 1 /\ Head(s) = s[1] /\ Len(r) = Len(s) - 1
      /\ \A k \in 1 .. (Len(s) - 1) : r[k] = s[k + 1]
  BY TailFacts
<1> HIDE DEF r
<1>2. ASSUME NEW k \in 1 .. Len(r)
      PROVE  /\ r[k].op \in {"find", "test"} => \A j \in (k + 1) .. Len(r) : r[j].op \notin Once
             /\ r[k].op = "find" => r[Len(r)] = I("unlock", factory)
             /\ r[k].op = "test" => k < Len(r) /\ r[k + 1] = I("unlock", silencerMutex)
  <2>1. /\ k + 1 \in 1 .. Len(s) /\ r[k] = s[k + 1] /\ r[Len(r)] = s[Len(s)]
        /\ k + 1 < Len(s) => k < Len(r) /\ r[k + 1] = s[(k + 1) + 1]
        /\ \A j \in (k + 1) .. Len(r) : j + 1 \in ((k + 1) + 1) .. Len(s) /\ r[j] = s[j + 1]
    BY <1>1
  <2> QED  BY <2>1 DEF Jumps
<1>3. Jumps(r)
  BY <1>2 DEF Jumps
<1>4. 1 \in 1 .. Len(s) /\ \A j \in 1 .. Len(r) : j + 1 \in (1 + 1) .. Len(s) /\ r[j] = s[j + 1]
  BY <1>1
<1>5. s[1].op \in {"find", "test"} => \A op \in Once : ~ContainsOp(r, op)
  BY <1>4 DEF Jumps, ContainsOp
<1>6. /\ s[1].op = "find" => s[Len(s)] = I("unlock", factory)
      /\ s[1].op = "test" => 1 < Len(s) /\ s[1 + 1] = I("unlock", silencerMutex)
  BY <1>4 DEF Jumps
<1> QED  BY <1>1, <1>3, <1>5, <1>6 DEF r

(* Two programs in a row, where no jump of the first can leave out the second's. *)
LEMMA JumpsConcat ==
    ASSUME NEW S, NEW a \in Seq(S), NEW b \in Seq(S), Jumps(b),
           ~ContainsOp(a, "find"), ~ContainsOp(a, "test")
    PROVE  Jumps(a \o b)
<1> DEFINE r == a \o b
           n == Len(a)
<1>1. /\ n \in Nat /\ Len(b) \in Nat /\ Len(r) = n + Len(b)
      /\ \A k \in 1 .. n : r[k] = a[k]
      /\ \A k \in 1 .. Len(b) : r[n + k] = b[k]
  BY ConcatFacts
<1> HIDE DEF r
<1>2. ASSUME NEW k \in 1 .. Len(r)
      PROVE  /\ r[k].op \in {"find", "test"} => \A j \in (k + 1) .. Len(r) : r[j].op \notin Once
             /\ r[k].op = "find" => r[Len(r)] = I("unlock", factory)
             /\ r[k].op = "test" => k < Len(r) /\ r[k + 1] = I("unlock", silencerMutex)
  <2>1. CASE k <= n
    <3>1. k \in 1 .. n /\ r[k] = a[k]
      BY <1>1, <2>1
    <3>2. a[k].op # "find" /\ a[k].op # "test"
      BY <3>1 DEF ContainsOp
    <3> QED  BY <3>1, <3>2
  <2>2. CASE k > n
    <3> DEFINE l == k - n
    <3>1. /\ l \in 1 .. Len(b) /\ n + l = k /\ n + Len(b) = Len(r) /\ n + (l + 1) = k + 1
          /\ Len(b) \in 1 .. Len(b) /\ (l < Len(b) => k < Len(r) /\ l + 1 \in 1 .. Len(b))
          /\ \A j \in (k + 1) .. Len(r) : /\ j - n \in (l + 1) .. Len(b)
                                          /\ j - n \in 1 .. Len(b) /\ n + (j - n) = j
      BY <1>1, <2>2
    <3> HIDE DEF l
    <3>2. /\ r[k] = b[l] /\ r[Len(r)] = b[Len(b)]
          /\ l < Len(b) => r[k + 1] = b[l + 1]
          /\ \A j \in (k + 1) .. Len(r) : r[j] = b[j - n]
      BY <3>1, <1>1
    <3>3. /\ b[l].op \in {"find", "test"} => \A j \in (l + 1) .. Len(b) : b[j].op \notin Once
          /\ b[l].op = "find" => b[Len(b)] = I("unlock", factory)
          /\ b[l].op = "test" => l < Len(b) /\ b[l + 1] = I("unlock", silencerMutex)
      BY <3>1 DEF Jumps
    <3> QED  BY <3>1, <3>2, <3>3
  <2> QED  BY <2>1, <2>2, <1>1
<1>3. Jumps(r)
  BY <1>2 DEF Jumps
<1> QED  BY <1>3 DEF r

(* Whoever makes an object goes on to register its deleter.                 *)
LEMMA RegisteredTail ==
    ASSUME NEW S, NEW s \in Seq(S), s # << >>, Registered(s)
    PROVE  /\ Registered(Tail(s))
           /\ Head(s).op = "new" /\ Head(s).obj \notin Unregistered =>
                  Contains(Tail(s), I("push", Head(s).obj))
<1> DEFINE r == Tail(s)
<1>1. /\ Len(s) \in Nat /\ Len(s) >= 1 /\ Head(s) = s[1] /\ Len(r) = Len(s) - 1
      /\ \A k \in 1 .. (Len(s) - 1) : r[k] = s[k + 1]
  BY TailFacts
<1> HIDE DEF r
<1>2. ASSUME NEW k \in 1 .. Len(s), s[k].op = "new", s[k].obj \notin Unregistered
      PROVE  \E j \in k .. Len(r) : r[j] = I("push", s[k].obj)
  <2>1. PICK j \in (k + 1) .. Len(s) : s[j] = I("push", s[k].obj)
    BY <1>2 DEF Registered
  <2>2. j - 1 \in k .. Len(r) /\ r[j - 1] = s[j]
    BY <1>1
  <2> QED  BY <2>1, <2>2
<1>3. \A k \in 1 .. Len(r) : k + 1 \in 1 .. Len(s) /\ r[k] = s[k + 1]
  BY <1>1
<1>4. Registered(r)
  BY <1>2, <1>3 DEF Registered
<1>5. 1 \in 1 .. Len(s)
  BY <1>1
<1> QED  BY <1>1, <1>2, <1>4, <1>5 DEF Contains, r

(* Two programs in a row register what each makes. *)
LEMMA RegisteredConcat ==
    ASSUME NEW S, NEW a \in Seq(S), NEW b \in Seq(S), Registered(a), Registered(b)
    PROVE  Registered(a \o b)
<1> DEFINE r == a \o b
           n == Len(a)
<1>1. /\ n \in Nat /\ Len(b) \in Nat /\ Len(r) = n + Len(b)
      /\ \A k \in 1 .. n : r[k] = a[k]
      /\ \A k \in 1 .. Len(b) : r[n + k] = b[k]
      /\ \A k \in 1 .. (n + Len(b)) : k > n => r[k] = b[k - n]
  BY ConcatFacts
<1> HIDE DEF r
<1>2. ASSUME NEW k \in 1 .. Len(r), r[k].op = "new", r[k].obj \notin Unregistered
      PROVE  \E j \in (k + 1) .. Len(r) : r[j] = I("push", r[k].obj)
  <2>1. CASE k <= n
    <3>1. PICK j \in (k + 1) .. n : a[j] = I("push", a[k].obj)
      BY <1>1, <1>2, <2>1 DEF Registered
    <3>2. j \in (k + 1) .. Len(r) /\ r[j] = a[j] /\ r[k] = a[k]
      BY <1>1, <2>1
    <3> QED  BY <3>1, <3>2
  <2>2. CASE k > n
    <3>1. k - n \in 1 .. Len(b) /\ r[k] = b[k - n]
      BY <1>1, <2>2
    <3>2. PICK j \in (k - n + 1) .. Len(b) : b[j] = I("push", b[k - n].obj)
      BY <3>1, <1>2 DEF Registered
    <3>3. n + j \in (k + 1) .. Len(r) /\ r[n + j] = b[j]
      BY <1>1, <3>1
    <3> QED  BY <3>1, <3>2, <3>3
  <2> QED  BY <2>1, <2>2, <1>1
<1>3. Registered(r)
  BY <1>2 DEF Registered
<1> QED  BY <1>3 DEF r

(* A program registers an object once.                                      *)
LEMMA PushesOnceTail ==
    ASSUME NEW S, NEW s \in Seq(S), s # << >>, PushesOnce(s)
    PROVE  /\ PushesOnce(Tail(s))
           /\ Head(s).op = "push" => ~Contains(Tail(s), Head(s))
<1> DEFINE r == Tail(s)
<1>1. /\ Len(s) \in Nat /\ Len(s) >= 1 /\ Head(s) = s[1] /\ Len(r) = Len(s) - 1
      /\ \A k \in 1 .. (Len(s) - 1) : r[k] = s[k + 1]
  BY TailFacts
<1> HIDE DEF r
<1>2. 1 \in 1 .. Len(s) /\ \A k \in 1 .. Len(r) : /\ k \in Nat /\ k + 1 \in 1 .. Len(s)
                                                /\ r[k] = s[k + 1] /\ 1 # k + 1
  BY <1>1
<1>3. \A j, k \in 1 .. Len(r) : j + 1 = k + 1 => j = k
  OBVIOUS
<1>4. PushesOnce(r)
  BY <1>2, <1>3 DEF PushesOnce
<1>5. Head(s).op = "push" => ~Contains(r, Head(s))
  BY <1>1, <1>2 DEF PushesOnce, Contains
<1> QED  BY <1>4, <1>5 DEF r

(* Two programs in a row, which register different objects. *)
LEMMA PushesOnceConcat ==
    ASSUME NEW S, NEW a \in Seq(S), NEW b \in Seq(S), PushesOnce(a), PushesOnce(b),
           \A i : i.op = "push" => ~(Contains(a, i) /\ Contains(b, i))
    PROVE  PushesOnce(a \o b)
<1> DEFINE r == a \o b
           n == Len(a)
<1>1. /\ n \in Nat /\ Len(b) \in Nat /\ Len(r) = n + Len(b)
      /\ \A k \in 1 .. n : r[k] = a[k]
      /\ \A k \in 1 .. Len(b) : r[n + k] = b[k]
      /\ \A k \in 1 .. (n + Len(b)) : k > n => r[k] = b[k - n]
  BY ConcatFacts
<1> HIDE DEF r
<1>2. \A k \in 1 .. Len(r) : \/ k \in 1 .. n /\ r[k] = a[k] /\ Contains(a, r[k])
                             \/ k - n \in 1 .. Len(b) /\ r[k] = b[k - n] /\ Contains(b, r[k])
  <2>1. \A k \in 1 .. Len(r) : \/ k \in 1 .. n /\ r[k] = a[k]
                               \/ k - n \in 1 .. Len(b) /\ r[k] = b[k - n]
    BY <1>1
  <2> QED  BY <2>1 DEF Contains
<1>3. ASSUME NEW j \in 1 .. Len(r), NEW k \in 1 .. Len(r), r[j].op = "push", r[j] = r[k]
      PROVE  j = k
  <2>1. CASE j \in 1 .. n /\ r[j] = a[j] /\ k \in 1 .. n /\ r[k] = a[k]
    BY <2>1, <1>3 DEF PushesOnce
  <2>2. CASE /\ j - n \in 1 .. Len(b) /\ r[j] = b[j - n]
             /\ k - n \in 1 .. Len(b) /\ r[k] = b[k - n]
    <3>1. j - n = k - n
      BY <2>2, <1>3 DEF PushesOnce
    <3> QED  BY <3>1, <1>1
  <2>3. ~(Contains(a, r[j]) /\ Contains(b, r[j]))
    BY <1>3
  <2> QED  BY <1>2, <1>3, <2>1, <2>2, <2>3
<1>4. PushesOnce(r)
  BY <1>3 DEF PushesOnce
<1> QED  BY <1>4 DEF r

(* A program counts a silencer, and uncounts it, once.                      *)
LEMMA PairedTail ==
    ASSUME NEW S, NEW s \in Seq(S), s # << >>, Paired(s)
    PROVE  /\ Paired(Tail(s))
           /\ Head(s).op \in {"++", "--"} => ~ContainsOp(Tail(s), Head(s).op)
           /\ ContainsOp(s, "++") => ContainsOp(Tail(s), "--")
<1> DEFINE r == Tail(s)
<1>1. /\ Len(s) \in Nat /\ Len(s) >= 1 /\ Head(s) = s[1] /\ Len(r) = Len(s) - 1
      /\ \A k \in 1 .. (Len(s) - 1) : r[k] = s[k + 1]
  BY TailFacts
<1> HIDE DEF r
<1>2. 1 \in 1 .. Len(s) /\ \A k \in 1 .. Len(r) : k + 1 \in 1 .. Len(s) /\ r[k] = s[k + 1]
  BY <1>1
<1>3. ASSUME NEW k \in 1 .. Len(s), s[k].op = "++"
      PROVE  \E j \in k .. Len(r) : r[j].op = "--"
  <2>1. PICK j \in (k + 1) .. Len(s) : s[j].op = "--"
    BY <1>3 DEF Paired
  <2>2. j - 1 \in k .. Len(r) /\ r[j - 1] = s[j]
    BY <1>1
  <2> QED  BY <2>1, <2>2
<1>4. ASSUME NEW k \in 1 .. Len(r), NEW l \in 1 .. Len(r)
      PROVE  /\ r[k].op \in {"++", "--"} /\ r[l].op = r[k].op => k = l
             /\ r[k].op = "++" => \E j \in (k + 1) .. Len(r) : r[j].op = "--"
  <2>1. r[k].op \in {"++", "--"} /\ r[l].op = r[k].op => k + 1 = l + 1
    BY <1>2 DEF Paired
  <2> QED  BY <2>1, <1>2, <1>3
<1>5. Paired(r)
  BY <1>4 DEF Paired
<1>6. ASSUME NEW k \in 1 .. Len(r), s[1].op \in {"++", "--"}, r[k].op = s[1].op
      PROVE  FALSE
  <2>1. 1 = k + 1
    BY <1>2, <1>6 DEF Paired
  <2> QED  BY <2>1
<1>7. ContainsOp(s, "++") => ContainsOp(r, "--")
  <2>1. \A k \in 1 .. Len(s) : \A j \in k .. Len(r) : j \in 1 .. Len(r)
    OBVIOUS
  <2> QED  BY <1>3, <2>1 DEF ContainsOp
<1> QED  BY <1>1, <1>5, <1>6, <1>7 DEF ContainsOp, r

(* Two programs in a row, the first of which counts no silencers. *)
LEMMA PairedConcat ==
    ASSUME NEW S, NEW a \in Seq(S), NEW b \in Seq(S), Paired(b),
           ~ContainsOp(a, "++"), ~ContainsOp(a, "--")
    PROVE  Paired(a \o b)
<1> DEFINE r == a \o b
           n == Len(a)
<1>1. /\ n \in Nat /\ Len(b) \in Nat /\ Len(r) = n + Len(b)
      /\ \A k \in 1 .. n : r[k] = a[k] /\ a[k].op # "++" /\ a[k].op # "--"
      /\ \A k \in 1 .. Len(b) : r[n + k] = b[k]
      /\ \A k \in 1 .. (n + Len(b)) : k > n => r[k] = b[k - n]
  BY ConcatFacts DEF ContainsOp
<1> HIDE DEF r, n
<1>2. ASSUME NEW k \in 1 .. Len(r), r[k].op \in {"++", "--"}
      PROVE  k - n \in 1 .. Len(b) /\ r[k] = b[k - n]
  <2>1. k > n
    BY <1>1, <1>2
  <2> QED  BY <2>1, <1>1
<1>3. ASSUME NEW k \in 1 .. Len(r), NEW l \in 1 .. Len(r)
      PROVE  /\ r[k].op \in {"++", "--"} /\ r[l].op = r[k].op => k = l
             /\ r[k].op = "++" => \E j \in (k + 1) .. Len(r) : r[j].op = "--"
  <2>1. ASSUME r[k].op \in {"++", "--"}, r[l].op = r[k].op  PROVE k = l
    <3>1. k - n = l - n
      BY <1>2, <2>1 DEF Paired
    <3> QED  BY <3>1, <1>1
  <2>2. ASSUME r[k].op = "++"  PROVE \E j \in (k + 1) .. Len(r) : r[j].op = "--"
    <3>1. PICK j \in (k - n + 1) .. Len(b) : b[j].op = "--"
      BY <1>2, <2>2 DEF Paired
    <3>2. k - n \in 1 .. Len(b)
      BY <1>2, <2>2
    <3>3. n + j \in (k + 1) .. Len(r) /\ r[n + j] = b[j]
      BY <1>1, <3>2
    <3> QED  BY <3>1, <3>3
  <2> QED  BY <2>1, <2>2
<1>4. Paired(r)
  BY <1>3 DEF Paired
<1> QED  BY <1>4 DEF r

-----------------------------------------------------------------------------
(* The library's functions, instruction by instruction.                     *)

(* A closure makes what its callers count on, leaves the factory's lock     *)
(* alone and neither looks at the type map nor at the silencers.            *)
BodyFacts(o) ==
    /\ Sound(Body(o), {}, {}, FALSE)
    /\ \A k \in 1 .. Len(Body(o)) :
           /\ Body(o)[k].op \notin {"find", "test", "register", "++", "--", "spin"}
           /\ Body(o)[k] # I("unlock", factory)
           /\ Body(o)[k].op = "store" => Body(o)[k] = I("store", o)
    /\ \A x \in Promised[o] : \E k \in 1 .. Len(Body(o)) : x \in Adds(Body(o)[k])

(* The instructions that the library's functions are made of. *)
LEMMA InstructionTypes ==
    /\ \A op \in Loads \cup {"store"}, o \in Onces : I(op, o) \in Instructions
    /\ \A op \in {"lock", "unlock"}, m \in Mutexes : I(op, m) \in Instructions
    /\ \A op \in {"new", "push", "use"}, x \in Objects : I(op, x) \in Instructions
    /\ {I("build", pool), I("find", factory), I("register", factory), I("log_handler", "stderr"),
        I("++", "log_silencer_count_"), I("--", "log_silencer_count_"),
        I("test", "log_silencer_count_")} \subseteq Instructions
    /\ factory \in Mutexes /\ pool \in Mutexes /\ shutdownMutex \in Mutexes
    /\ silencerMutex \in Mutexes /\ Mutexes \subseteq Objects
    /\ {"shutdown_functions", "empty_string_", "default_instance_", "reflection_"} \subseteq Objects
  BY DEF Instructions, I, factory, pool, shutdownMutex, silencerMutex, Mutexes, Objects

(* The once words there are. *)
LEMMA OncesAre ==
    Onces = {"shutdown_functions_init", "log_silencer_count_init_", "generated_pool_init_",
             "generated_message_factory_once_init_", "empty_string_once_init_",
             "protobuf_AssignDescriptors_once_"}
  BY DEF Onces, Closures

(* The objects that stand behind each once word. *)
LEMMA PromisedAre ==
    /\ Promised["shutdown_functions_init"] = {"shutdown_functions", shutdownMutex}
    /\ Promised["log_silencer_count_init_"] = {silencerMutex}
    /\ Promised["generated_pool_init_"] = {pool}
    /\ Promised["generated_message_factory_once_init_"] = {factory}
    /\ Promised["empty_string_once_init_"] = {"empty_string_"}
    /\ Promised["protobuf_AssignDescriptors_once_"] = {"reflection_"}
  BY DEF Promised

(* The closures that make one object and register its deleter.              *)
LEMMA MakerFacts ==
    ASSUME NEW o \in Onces, NEW x \in Objects, Promised[o] = {x},
           Closures[o] = <<I("new", x)>> \o OnShutdown(x)
    PROVE  BodyFacts(o) /\ \A f : Registers(o, f) => f = x
<1> DEFINE s == Body(o)
<1>1. /\ Len(s) = 6
      /\ s[1] = I("new", x) /\ s[2] = I("once", "shutdown_functions_init")
      /\ s[3] = I("lock", shutdownMutex) /\ s[4] = I("push", x)
      /\ s[5] = I("unlock", shutdownMutex) /\ s[6] = I("store", o)
  BY SMTT(60) DEF Body, OnShutdown, GoogleOnceInit, shutdownMutex
<1>2. s \in Seq(Instructions)
  BY InstructionTypes, OncesAre, SMTT(60) DEF Body, OnShutdown, GoogleOnceInit, shutdownMutex, Loads
<1> HIDE DEF s
<1>3. Provided(s, {})
  <2>1. /\ Needs(s[1]) = {} /\ Needs(s[2]) = {} /\ Needs(s[3]) = {shutdownMutex}
        /\ Needs(s[4]) = {"shutdown_functions"} /\ Needs(s[5]) = {shutdownMutex}
        /\ Needs(s[6]) = {x}
    BY <1>1 DEF Needs, I
  <2>2. Adds(s[1]) = {x} /\ Adds(s[2]) = {"shutdown_functions", shutdownMutex}
    BY <1>1, PromisedAre DEF Adds, I, Loads
  <2> QED  BY <1>1, <2>1, <2>2, SMTT(60) DEF Provided
<1>4. Guarded(s, {})
  BY <1>1, SMTT(60) DEF Guarded, HeldAt, Guards, Keeps, I, Loads, factory, shutdownMutex
<1>5. Looked(s, FALSE) /\ Jumps(s) /\ Paired(s)
  BY <1>1, SMTT(60) DEF Looked, Jumps, Paired, I
<1>6. Registered(s) /\ PushesOnce(s)
  BY <1>1, SMTT(60) DEF Registered, PushesOnce, I
<1>7. \A k \in 1 .. Len(s) :
          /\ s[k].op \notin {"find", "test", "register", "++", "--", "spin"}
          /\ s[k] # I("unlock", factory)
          /\ s[k].op = "store" => s[k] = I("store", o)
  BY <1>1, SMTT(60) DEF I, factory, shutdownMutex
<1>8. \E k \in 1 .. Len(s) : x \in Adds(s[k])
  BY <1>1, SMTT(60) DEF Adds, I, Loads
<1>9. \A f : Contains(s, I("push", f)) => f = x
  BY <1>1, SMTT(60) DEF Contains, I
<1> QED  BY <1>9, <1>2, <1>3, <1>4, <1>5, <1>6, <1>7, <1>8 DEF s, BodyFacts, Sound, Registers

(* InitShutdownFunctions makes the vector and its mutex, and needs nothing. *)
LEMMA InitShutdownFunctionsFacts ==
    /\ BodyFacts("shutdown_functions_init")
    /\ \A f : ~Registers("shutdown_functions_init", f)
<1> DEFINE o == "shutdown_functions_init"
           s == Body(o)
<1>1. /\ Len(s) = 3
      /\ s[1] = I("new", "shutdown_functions") /\ s[2] = I("new", shutdownMutex)
      /\ s[3] = I("store", o)
  BY SMTT(60) DEF Body, Closures, InitShutdownFunctions, shutdownMutex
<1>2. s \in Seq(Instructions)
  BY InstructionTypes, OncesAre, SMTT(60)
     DEF Body, Closures, InitShutdownFunctions, shutdownMutex, Loads
<1> HIDE DEF s
<1>3. Provided(s, {})
  BY <1>1, PromisedAre, SMTT(60) DEF Provided, Needs, Adds, I, Loads
<1>4. Guarded(s, {})
  BY <1>1, SMTT(60) DEF Guarded, Guards, I
<1>5. Looked(s, FALSE) /\ Jumps(s) /\ Paired(s)
  BY <1>1, SMTT(60) DEF Looked, Jumps, Paired, I
<1>6. Registered(s) /\ PushesOnce(s)
  BY <1>1, SMTT(60) DEF Registered, PushesOnce, I, Unregistered
<1>7. \A k \in 1 .. Len(s) :
          /\ s[k].op \notin {"find", "test", "register", "++", "--", "spin"}
          /\ s[k] # I("unlock", factory)
          /\ s[k].op = "store" => s[k] = I("store", o)
  BY <1>1, SMTT(60) DEF I
<1>8. \A x \in Promised[o] : \E k \in 1 .. Len(s) : x \in Adds(s[k])
  BY <1>1, PromisedAre, SMTT(60) DEF Adds, I, Loads
<1>9. \A f : ~Contains(s, I("push", f))
  BY <1>1, SMTT(60) DEF Contains, I
<1> QED  BY <1>2, <1>3, <1>4, <1>5, <1>6, <1>7, <1>8, <1>9 DEF s, BodyFacts, Sound, Registers

(* protobuf_AssignDesc builds the file under the pool's mutex and makes the reflection. *)
LEMMA protobuf_AssignDescFacts ==
    /\ BodyFacts("protobuf_AssignDescriptors_once_")
    /\ \A f : ~Registers("protobuf_AssignDescriptors_once_", f)
<1> DEFINE o == "protobuf_AssignDescriptors_once_"
           s == Body(o)
<1>1. /\ Len(s) = 8
      /\ s[1] = I("once", "generated_pool_init_") /\ s[2] = I("lock", pool)
      /\ s[3] = I("build", pool) /\ s[4] = I("unlock", pool)
      /\ s[5] = I("once", "generated_pool_init_")
      /\ s[6] = I("once", "generated_message_factory_once_init_")
      /\ s[7] = I("new", "reflection_") /\ s[8] = I("store", o)
  BY SMTT(60) DEF Body, Closures, protobuf_AssignDesc, generated_pool, singleton, FindFileByName,
             GoogleOnceInit, pool
<1>2. s \in Seq(Instructions)
  BY InstructionTypes, OncesAre, SMTT(60)
     DEF Body, Closures, protobuf_AssignDesc, generated_pool, singleton, FindFileByName,
         GoogleOnceInit, pool, Loads
<1> HIDE DEF s
<1>3. Provided(s, {})
  BY <1>1, PromisedAre, SMTT(60) DEF Provided, Needs, Adds, I, Loads
<1>4. Guarded(s, {})
  BY <1>1, SMTT(60) DEF Guarded, HeldAt, Guards, Keeps, I, Loads, factory, pool
<1>5. Looked(s, FALSE) /\ Jumps(s) /\ Paired(s)
  BY <1>1, SMTT(60) DEF Looked, Jumps, Paired, I
<1>6. Registered(s) /\ PushesOnce(s)
  BY <1>1, SMTT(60) DEF Registered, PushesOnce, I, Unregistered
<1>7. \A k \in 1 .. Len(s) :
          /\ s[k].op \notin {"find", "test", "register", "++", "--", "spin"}
          /\ s[k] # I("unlock", factory)
          /\ s[k].op = "store" => s[k] = I("store", o)
  BY <1>1, SMTT(60) DEF I, factory, pool
<1>8. \A x \in Promised[o] : \E k \in 1 .. Len(s) : x \in Adds(s[k])
  BY <1>1, PromisedAre, SMTT(60) DEF Adds, I, Loads
<1>9. \A f : ~Contains(s, I("push", f))
  BY <1>1, SMTT(60) DEF Contains, I
<1> QED  BY <1>2, <1>3, <1>4, <1>5, <1>6, <1>7, <1>8, <1>9 DEF s, BodyFacts, Sound, Registers

(* Every closure is sound, and no two closures register the same deleter. *)
LEMMA ClosuresSound ==
    /\ \A o \in Onces : BodyFacts(o)
    /\ \A o, p \in Onces : \A f : Registers(o, f) /\ Registers(p, f) => o = p
    /\ \A o \in Onces : ~Registers(o, "default_instance_")
<1> USE InstructionTypes, OncesAre, PromisedAre
<1>1. /\ BodyFacts("log_silencer_count_init_")
      /\ \A f : Registers("log_silencer_count_init_", f) => f = silencerMutex
  BY MakerFacts DEF Closures, InitLogSilencerCount, silencerMutex
<1>2. /\ BodyFacts("generated_pool_init_")
      /\ \A f : Registers("generated_pool_init_", f) => f = pool
  BY MakerFacts DEF Closures, InitGeneratedPool, pool
<1>3. /\ BodyFacts("generated_message_factory_once_init_")
      /\ \A f : Registers("generated_message_factory_once_init_", f) => f = factory
  BY MakerFacts DEF Closures, InitGeneratedMessageFactory, factory
<1>4. /\ BodyFacts("empty_string_once_init_")
      /\ \A f : Registers("empty_string_once_init_", f) => f = "empty_string_"
  BY MakerFacts DEF Closures, InitEmptyString
<1> QED
  BY <1>1, <1>2, <1>3, <1>4, InitShutdownFunctionsFacts, protobuf_AssignDescFacts
     DEF factory, pool, silencerMutex

(* A call into the library relies on the default instance, which the static *)
(* initializers made.                                                       *)
EntryFacts(f) ==
    /\ Sound(f, {"default_instance_"}, {}, FALSE)
    /\ \A k \in 1 .. Len(f) : f[k].op \notin {"spin", "store", "push"}
    /\ ContainsOp(f, "--") => ContainsOp(f, "++")

(* GetPrototype looks, registers and gives up the factory's mutex on every way out. *)
LEMMA GetPrototypeFacts == EntryFacts(GetPrototype)
<1> DEFINE s == GetPrototype
<1>1. /\ Len(s) = 12
      /\ s[1] = I("once", "generated_message_factory_once_init_")
      /\ s[2] = I("lock", factory) /\ s[3] = I("find", factory) /\ s[4] = I("unlock", factory)
      /\ s[5] = I("once", "generated_pool_init_")
      /\ s[6] = I("lock", factory) /\ s[7] = I("find", factory)
      /\ s[8] = I("once", "protobuf_AssignDescriptors_once_")
      /\ s[9] = I("use", "default_instance_")
      /\ s[10] = I("once", "generated_message_factory_once_init_")
      /\ s[11] = I("register", factory) /\ s[12] = I("unlock", factory)
  BY SMTT(60) DEF GetPrototype, singleton, generated_pool, protobuf_RegisterTypes,
             protobuf_AssignDescriptorsOnce, GoogleOnceInit, factory
<1>2. s \in Seq(Instructions)
  BY InstructionTypes, OncesAre, SMTT(60)
     DEF GetPrototype, singleton, generated_pool, protobuf_RegisterTypes,
         protobuf_AssignDescriptorsOnce, GoogleOnceInit, factory, Loads
<1> HIDE DEF s
<1>3. Provided(s, {"default_instance_"})
  BY <1>1, PromisedAre, SMTT(60) DEF Provided, Needs, Adds, I, Loads, factory
<1>4. Guarded(s, {})
  BY <1>1, SMTT(60) DEF Guarded, HeldAt, Guards, Keeps, I, Loads, factory
<1>5. Looked(s, FALSE) /\ Jumps(s)
  BY <1>1, SMTT(60) DEF Looked, Stays, Jumps, Once, I, factory
<1>6. Registered(s) /\ PushesOnce(s) /\ Paired(s)
  BY <1>1, SMTT(60) DEF Registered, PushesOnce, Paired, I
<1>7. \A k \in 1 .. Len(s) : s[k].op \notin {"spin", "store", "push", "--"}
  BY <1>1, SMTT(60) DEF I
<1> QED  BY <1>2, <1>3, <1>4, <1>5, <1>6, <1>7 DEF s, EntryFacts, Sound, ContainsOp

(* LogSilencer counts and uncounts, and LogMessageFinish tests, under the silencer's mutex. *)
LEMMA SilencerCallFacts ==
    EntryFacts(LogMessageFinish) /\ EntryFacts(LogSilencerConstruct \o LogSilencerDestroy)
<1>1. EntryFacts(LogMessageFinish)
  <2> DEFINE s == LogMessageFinish
  <2>1. /\ Len(s) = 5 /\ s[1] = I("once", "log_silencer_count_init_")
        /\ s[2] = I("lock", silencerMutex) /\ s[3] = I("test", "log_silencer_count_")
        /\ s[4] = I("unlock", silencerMutex) /\ s[5] = I("log_handler", "stderr")
    BY SMTT(60) DEF LogMessageFinish, UnderSilencerLock, GoogleOnceInit, silencerMutex
  <2>2. s \in Seq(Instructions)
    BY InstructionTypes, OncesAre, SMTT(60)
    DEF LogMessageFinish, UnderSilencerLock, GoogleOnceInit, silencerMutex, Loads
  <2> HIDE DEF s
  <2>3. Provided(s, {"default_instance_"})
    BY <2>1, PromisedAre, SMTT(60) DEF Provided, Needs, Adds, I, Loads
  <2>4. Guarded(s, {})
    BY <2>1, SMTT(60) DEF Guarded, HeldAt, Guards, Keeps, I, Loads
  <2>5. Looked(s, FALSE) /\ Jumps(s)
    BY <2>1, SMTT(60) DEF Looked, Jumps, Once, I
  <2>6. Registered(s) /\ PushesOnce(s) /\ Paired(s)
    BY <2>1, SMTT(60) DEF Registered, PushesOnce, Paired, I
  <2>7. \A k \in 1 .. Len(s) : s[k].op \notin {"spin", "store", "push", "--"}
    BY <2>1, SMTT(60) DEF I
  <2> QED  BY <2>2, <2>3, <2>4, <2>5, <2>6, <2>7 DEF s, EntryFacts, Sound, ContainsOp
<1>2. EntryFacts(LogSilencerConstruct \o LogSilencerDestroy)
  <2> DEFINE s == LogSilencerConstruct \o LogSilencerDestroy
  <2>1. /\ Len(s) = 8 /\ s[1] = I("once", "log_silencer_count_init_")
        /\ s[2] = I("lock", silencerMutex) /\ s[3] = I("++", "log_silencer_count_")
        /\ s[4] = I("unlock", silencerMutex) /\ s[5] = I("once", "log_silencer_count_init_")
        /\ s[6] = I("lock", silencerMutex) /\ s[7] = I("--", "log_silencer_count_")
        /\ s[8] = I("unlock", silencerMutex)
    BY SMTT(60) DEF LogSilencerConstruct, LogSilencerDestroy, UnderSilencerLock, GoogleOnceInit,
                    silencerMutex
  <2>2. s \in Seq(Instructions)
    BY InstructionTypes, OncesAre, SMTT(60)
    DEF LogSilencerConstruct, LogSilencerDestroy, UnderSilencerLock, GoogleOnceInit,
        silencerMutex, Loads
  <2> HIDE DEF s
  <2>3. Provided(s, {"default_instance_"})
    BY <2>1, PromisedAre, SMTT(60) DEF Provided, Needs, Adds, I, Loads
  <2>4. Guarded(s, {})
    BY <2>1, SMTT(60) DEF Guarded, HeldAt, Guards, Keeps, I, Loads
  <2>5. Looked(s, FALSE) /\ Jumps(s)
    BY <2>1, SMTT(60) DEF Looked, Jumps, Once, I
  <2>6. Registered(s) /\ PushesOnce(s) /\ Paired(s)
    BY <2>1, SMTT(60) DEF Registered, PushesOnce, Paired, I
  <2>7. \A k \in 1 .. Len(s) : s[k].op \notin {"spin", "store", "push"}
    BY <2>1, SMTT(60) DEF I
  <2>8. ContainsOp(s, "++")
    BY <2>1, SMTT(60) DEF ContainsOp, I
  <2> QED  BY <2>2, <2>3, <2>4, <2>5, <2>6, <2>7, <2>8 DEF s, EntryFacts, Sound
<1> QED  BY <1>1, <1>2

(* Every function of the library a thread may call is sound, whatever exists by then. *)
LEMMA EntriesSound == \A f \in Entries : EntryFacts(f)
<1>1. ASSUME NEW o \in Onces, NEW x \in {"reflection_", "empty_string_"}, Promised[o] = {x}
      PROVE  EntryFacts(GoogleOnceInit(o) \o <<I("use", x)>>)
  <2> DEFINE s == GoogleOnceInit(o) \o <<I("use", x)>>
  <2>1. Len(s) = 2 /\ s[1] = I("once", o) /\ s[2] = I("use", x)
    BY DEF GoogleOnceInit
  <2>2. s \in Seq(Instructions)
    BY InstructionTypes, OncesAre, SMTT(60) DEF GoogleOnceInit, Loads
  <2> HIDE DEF s
  <2>3. Provided(s, {"default_instance_"})
    BY <2>1, <1>1, PromisedAre, SMTT(60) DEF Provided, Needs, Adds, I, Loads
  <2>4. Guarded(s, {})
    BY <2>1, SMTT(60) DEF Guarded, Guards, I
  <2>5. Looked(s, FALSE) /\ Jumps(s)
    BY <2>1, SMTT(60) DEF Looked, Jumps, I
  <2>6. Registered(s) /\ PushesOnce(s) /\ Paired(s)
    BY <2>1, SMTT(60) DEF Registered, PushesOnce, Paired, I
  <2>7. \A k \in 1 .. Len(s) : s[k].op \notin {"spin", "store", "push", "--"}
    BY <2>1, SMTT(60) DEF I
  <2> QED  BY <2>2, <2>3, <2>4, <2>5, <2>6, <2>7 DEF s, EntryFacts, Sound, ContainsOp
<1>2. EntryFacts(descriptor)
  BY <1>1, OncesAre, PromisedAre DEF descriptor, protobuf_AssignDescriptorsOnce
<1>3. EntryFacts(GetEmptyString)
  BY <1>1, OncesAre, PromisedAre DEF GetEmptyString
<1> QED  BY <1>2, <1>3, GetPrototypeFacts, SilencerCallFacts DEF Entries

(* The static initializer makes the default instance, and whatever it needs *)
(* first.                                                                   *)
LEMMA protobuf_AddDescFacts ==
    LET s == protobuf_AddDesc IN
    /\ Sound(s, {}, {}, FALSE)
    /\ \A k \in 1 .. Len(s) : s[k].op \notin {"spin", "store", "find", "test", "++", "--"}
    /\ \A f : Contains(s, I("push", f)) => f = "default_instance_"
    /\ \A x \in {"shutdown_functions", "default_instance_"} :
           \E k \in 1 .. Len(s) : x \in Adds(s[k])
<1> DEFINE s == protobuf_AddDesc
<1>1. /\ Len(s) = 9
      /\ s[1] = I("once", "generated_pool_init_") /\ s[2] = I("use", pool)
      /\ s[3] = I("once", "generated_message_factory_once_init_") /\ s[4] = I("use", factory)
      /\ s[5] = I("new", "default_instance_") /\ s[6] = I("once", "shutdown_functions_init")
      /\ s[7] = I("lock", shutdownMutex) /\ s[8] = I("push", "default_instance_")
      /\ s[9] = I("unlock", shutdownMutex)
  BY SMTT(60) DEF protobuf_AddDesc, generated_pool, singleton, OnShutdown, GoogleOnceInit,
             pool, factory, shutdownMutex
<1>2. s \in Seq(Instructions)
  BY InstructionTypes, OncesAre, SMTT(60)
  DEF protobuf_AddDesc, generated_pool, singleton, OnShutdown, GoogleOnceInit,
      pool, factory, shutdownMutex, Loads
<1> HIDE DEF s
<1>3. Provided(s, {})
  BY <1>1, PromisedAre, SMTT(60) DEF Provided, Needs, Adds, I, Loads
<1>4. Guarded(s, {})
  BY <1>1, SMTT(60) DEF Guarded, HeldAt, Guards, Keeps, I, Loads, factory, shutdownMutex
<1>5. Looked(s, FALSE) /\ Jumps(s) /\ Paired(s)
  BY <1>1, SMTT(60) DEF Looked, Jumps, Paired, I
<1>6. Registered(s) /\ PushesOnce(s)
  BY <1>1, SMTT(60) DEF Registered, PushesOnce, I
<1>7. \A k \in 1 .. Len(s) : s[k].op \notin {"spin", "store", "find", "test", "++", "--"}
  BY <1>1, SMTT(60) DEF I
<1>8. \A f : Contains(s, I("push", f)) => f = "default_instance_"
  BY <1>1, SMTT(60) DEF Contains, I
<1>9. \A x \in {"shutdown_functions", "default_instance_"} :
          \E k \in 1 .. Len(s) : x \in Adds(s[k])
  BY <1>1, PromisedAre, SMTT(60) DEF Adds, I, Loads
<1> QED  BY <1>2, <1>3, <1>4, <1>5, <1>6, <1>7, <1>8, <1>9 DEF s, Sound

-----------------------------------------------------------------------------
(* What a step makes of a sound program.                                    *)

(* A sound program stays so when objects and holds are added. *)
LEMMA SoundMore ==
    ASSUME NEW s, NEW X, NEW Y, NEW H, NEW G, NEW p \in BOOLEAN, NEW q \in BOOLEAN,
           Sound(s, X, H, p), X \subseteq Y, H \subseteq G, p => q
    PROVE  Sound(s, Y, G, q)
  BY ProvidedMore, GuardedMore, LookedMore DEF Sound

(* A sound program that holds nothing is so whatever its thread holds. *)
LEMMA SoundFresh ==
    ASSUME NEW s, NEW X, NEW Y, NEW H, NEW q \in BOOLEAN, Sound(s, X, {}, FALSE), X \subseteq Y
    PROVE  Sound(s, Y, H, q)
<1>1. {} \subseteq H
  OBVIOUS
<1>2. Provided(s, Y) /\ Guarded(s, H)
  BY <1>1, ProvidedMore, GuardedMore DEF Sound
<1>3. Looked(s, q)
  BY DEF Sound, Looked
<1> QED  BY <1>2, <1>3 DEF Sound

(* What a thread needs and holds when it executes an instruction.           *)
HeadFacts(s, X, H, p) ==
    /\ Needs(Head(s)) \subseteq X /\ Guards(Head(s)) \subseteq H
    /\ Head(s).op = "register" => p
    /\ Head(s).op \in {"find", "test"} => \A op \in Once : ~ContainsOp(Tail(s), op)
    /\ Head(s).op = "find" => s[Len(s)] = I("unlock", factory)
    /\ Head(s).op = "test" => Len(s) >= 2 /\ s[2] = I("unlock", silencerMutex)
    /\ Head(s).op = "new" /\ Head(s).obj \notin Unregistered =>
           Contains(Tail(s), I("push", Head(s).obj))
    /\ Head(s).op = "push" => ~Contains(Tail(s), Head(s))
    /\ Head(s).op \in {"++", "--"} => ~ContainsOp(Tail(s), Head(s).op)
    /\ ContainsOp(s, "++") => ContainsOp(Tail(s), "--")

(* What the next instruction of a sound program may count on. *)
LEMMA SoundHead ==
    ASSUME NEW s, NEW X, NEW H, NEW p \in BOOLEAN, Sound(s, X, H, p), s # << >>
    PROVE  HeadFacts(s, X, H, p)
<1>1. /\ s \in Seq(Instructions) /\ Provided(s, X) /\ Guarded(s, H) /\ Looked(s, p)
      /\ Jumps(s) /\ Registered(s) /\ Paired(s) /\ PushesOnce(s)
  BY DEF Sound
<1>2. Needs(Head(s)) \subseteq X
  BY <1>1, ProvidedTail
<1>3. Guards(Head(s)) \subseteq H
  <2> DEFINE G == H \cup {Head(s).obj}
  <2>1. \A m : Head(s) = I("lock", m) => m \in G
    BY DEF I
  <2> QED  BY <1>1, <2>1, GuardedTail
<1>4. Head(s).op = "register" => p
  BY <1>1, LookedTail
<1>5. /\ Head(s).op \in {"find", "test"} => \A op \in Once : ~ContainsOp(Tail(s), op)
      /\ Head(s).op = "find" => s[Len(s)] = I("unlock", factory)
      /\ Head(s).op = "test" => Len(s) >= 2 /\ s[2] = I("unlock", silencerMutex)
  BY <1>1, JumpsTail
<1>6. /\ Head(s).op = "new" /\ Head(s).obj \notin Unregistered =>
             Contains(Tail(s), I("push", Head(s).obj))
      /\ Head(s).op = "push" => ~Contains(Tail(s), Head(s))
  BY <1>1, RegisteredTail, PushesOnceTail
<1>7. /\ Head(s).op \in {"++", "--"} => ~ContainsOp(Tail(s), Head(s).op)
      /\ ContainsOp(s, "++") => ContainsOp(Tail(s), "--")
  BY <1>1, PairedTail
<1> QED  BY <1>2, <1>3, <1>4, <1>5, <1>6, <1>7 DEF HeadFacts

(* The instruction is done. *)
LEMMA SoundTail ==
    ASSUME NEW s, NEW X, NEW Y, NEW H, NEW G, NEW p \in BOOLEAN, NEW q \in BOOLEAN,
           Sound(s, X, H, p), s # << >>,
           X \cup Adds(Head(s)) \subseteq Y,
           \A m \in H : Keeps(Head(s), m) => m \in G,
           \A m : Head(s) = I("lock", m) => m \in G,
           p /\ Stays(Head(s)) => q, Head(s).op = "find" => q
    PROVE  Sound(Tail(s), Y, G, q)
<1>1. /\ s \in Seq(Instructions) /\ Provided(s, X) /\ Guarded(s, H) /\ Looked(s, p)
      /\ Jumps(s) /\ Registered(s) /\ Paired(s) /\ PushesOnce(s)
  BY DEF Sound
<1>2. Tail(s) \in Seq(Instructions)
  BY <1>1, TailFacts
<1>3. Provided(Tail(s), Y)
  <2>1. Provided(Tail(s), X \cup Adds(Head(s)))
    BY <1>1, ProvidedTail
  <2> QED  BY <2>1, ProvidedMore
<1>4. Guarded(Tail(s), G)
  BY <1>1, GuardedTail
<1>5. Looked(Tail(s), q)
  BY <1>1, LookedTail
<1>6. Jumps(Tail(s)) /\ Registered(Tail(s)) /\ Paired(Tail(s)) /\ PushesOnce(Tail(s))
  BY <1>1, JumpsTail, RegisteredTail, PairedTail, PushesOnceTail
<1> QED  BY <1>2, <1>3, <1>4, <1>5, <1>6 DEF Sound

(* A load of a once word is replaced by what it still takes to have the     *)
(* objects made.                                                            *)
LEMMA SoundInFront ==
    ASSUME NEW s, NEW X, NEW H, NEW p \in BOOLEAN, Sound(s, X, H, p), s # << >>,
           Head(s).op \in Loads, NEW a, Sound(a, {}, {}, FALSE),
           \A k \in 1 .. Len(a) :
               /\ a[k].op \notin {"find", "test", "register", "++", "--"}
               /\ a[k] # I("unlock", factory),
           \A x \in Adds(Head(s)) : \E k \in 1 .. Len(a) : x \in Adds(a[k]),
           \A i : i.op = "push" => ~(Contains(a, i) /\ Contains(Tail(s), i))
    PROVE  Sound(a \o Tail(s), X, H, p)
<1> DEFINE b == Tail(s)
           G == H \cap {factory}
<1>1. a \in Seq(Instructions) /\ s \in Seq(Instructions)
  BY DEF Sound
<1>2. Sound(b, X \cup Adds(Head(s)), G, p)
  <2>1. \A m \in H : Keeps(Head(s), m) => m \in G
    BY DEF Keeps
  <2>2. /\ \A m : Head(s) # I("lock", m)
        /\ Head(s).op # "find"
    BY DEF I, Loads
  <2> HIDE DEF G
  <2> QED  BY <2>1, <2>2, SoundTail
<1>3. /\ b \in Seq(Instructions)
      /\ Provided(b, X \cup Adds(Head(s))) /\ Guarded(b, G) /\ Looked(b, p)
      /\ Jumps(b) /\ Registered(b) /\ Paired(b) /\ PushesOnce(b)
  BY <1>2 DEF Sound
<1>4. /\ Provided(a, X) /\ Guarded(a, H) /\ Registered(a) /\ PushesOnce(a)
  <2>1. Provided(a, {}) /\ Guarded(a, {}) /\ Registered(a) /\ PushesOnce(a)
    BY DEF Sound
  <2>2. {} \subseteq X /\ {} \subseteq H
    OBVIOUS
  <2> QED  BY <2>1, <2>2, ProvidedMore, GuardedMore
<1> HIDE DEF b
<1>5. a \o b \in Seq(Instructions)
  BY <1>1, <1>3, ConcatFacts
<1>6. Provided(a \o b, X)
  <2>1. \A y \in X \cup Adds(Head(s)) : y \in X \/ \E k \in 1 .. Len(a) : y \in Adds(a[k])
    OBVIOUS
  <2> QED  BY <1>1, <1>3, <1>4, <2>1, ProvidedConcat
<1>7. Guarded(a \o b, H)
  <2>1. \A m \in G : m \in H /\ \A k \in 1 .. Len(a) : Keeps(a[k], m)
    BY DEF Keeps
  <2> HIDE DEF G
  <2> QED  BY <1>1, <1>3, <1>4, <2>1, GuardedConcat
<1>8. Looked(a \o b, p)
  <2>1. \A k \in 1 .. Len(a) : Stays(a[k])
    BY DEF Stays
  <2> QED  BY <1>1, <1>3, <2>1, LookedConcat
<1>9. Jumps(a \o b) /\ Paired(a \o b)
  <2>1. /\ ~ContainsOp(a, "find") /\ ~ContainsOp(a, "test")
        /\ ~ContainsOp(a, "++") /\ ~ContainsOp(a, "--")
    BY DEF ContainsOp
  <2> QED  BY <1>1, <1>3, <2>1, JumpsConcat, PairedConcat
<1>10. Registered(a \o b) /\ PushesOnce(a \o b)
  BY <1>1, <1>3, <1>4, RegisteredConcat, PushesOnceConcat DEF b
<1> QED  BY <1>5, <1>6, <1>7, <1>8, <1>9, <1>10 DEF Sound, b

(* The rest of a jump is the unlock that it ends with.                      *)
LEMMA SoundJump ==
    ASSUME NEW m \in Mutexes, NEW X, NEW H, NEW p \in BOOLEAN, m \in X, m \in H
    PROVE  Sound(<<I("unlock", m)>>, X, H, p)
<1> DEFINE s == <<I("unlock", m)>>
<1>1. Len(s) = 1 /\ s[1] = I("unlock", m)
  OBVIOUS
<1>2. s \in Seq(Instructions)
  BY InstructionTypes
<1> HIDE DEF s
<1>3. Provided(s, X)
  BY <1>1 DEF Provided, Needs, I
<1>4. Guarded(s, H)
  BY <1>1 DEF Guarded, HeldAt, Guards, I
<1>5. Looked(s, p) /\ Jumps(s)
  BY <1>1 DEF Looked, Jumps, I
<1>6. Registered(s) /\ Paired(s) /\ PushesOnce(s)
  BY <1>1 DEF Registered, Paired, PushesOnce, I
<1> QED  BY <1>2, <1>3, <1>4, <1>5, <1>6 DEF Sound, s

(* A thread that has returned has nothing to be sound about. *)
LEMMA SoundNothing ==
    ASSUME NEW X, NEW H, NEW p \in BOOLEAN
    PROVE  Sound(<< >>, X, H, p)
<1>1. << >> \in Seq(Instructions) /\ Len(<< >>) = 0
  OBVIOUS
<1> QED
  BY <1>1 DEF Sound, Provided, Guarded, Looked, Jumps, Registered, Paired, PushesOnce

(* One load of a once word in the place of another.                         *)
IsLoad(s, op, o) ==
    /\ Sound(s, {}, {}, FALSE) /\ Len(s) = 1 /\ s[1] = I(op, o)
    /\ \A i : Contains(s, i) <=> i = I(op, o)
    /\ \A x : ContainsOp(s, x) <=> x = op

(* The load of a once word, alone. *)
LEMMA SoundLoad ==
    ASSUME NEW op \in Loads, NEW o \in Onces
    PROVE  IsLoad(<<I(op, o)>>, op, o)
<1> DEFINE s == <<I(op, o)>>
<1>1. Len(s) = 1 /\ s[1] = I(op, o)
  OBVIOUS
<1>2. s \in Seq(Instructions)
  BY InstructionTypes
<1> HIDE DEF s
<1>3. Provided(s, {}) /\ Guarded(s, {})
  BY <1>1 DEF Provided, Needs, Guarded, Guards, I, Loads
<1>4. Looked(s, FALSE) /\ Jumps(s) /\ Registered(s) /\ Paired(s) /\ PushesOnce(s)
  BY <1>1 DEF Looked, Jumps, Registered, Paired, PushesOnce, I, Loads
<1>5. /\ \A i : Contains(s, i) <=> i = I(op, o)
      /\ \A x : ContainsOp(s, x) <=> x = op
  BY <1>1 DEF Contains, ContainsOp, I
<1>6. IsLoad(s, op, o)
  BY <1>1, <1>2, <1>3, <1>4, <1>5 DEF Sound, IsLoad
<1> QED  BY <1>6 DEF s

-----------------------------------------------------------------------------
(* The steps of a thread.                                                   *)

Busy(t) == code[t] # << >>
Now(t)   == Head(code[t])
Rest(t) == Tail(code[t])

(* What the instruction a thread is about to execute can be.                *)
LEMMA AtFacts ==
    ASSUME Typed, NEW t \in Threads, Busy(t)
    PROVE  /\ code[t] \in Seq(Instructions) /\ Rest(t) \in Seq(Instructions)
           /\ Now(t) = I(Now(t).op, Now(t).obj) /\ Obj(t) = Now(t).obj
           /\ Now(t).op \in Loads \cup {"store"} => Now(t).obj \in Onces
           /\ Now(t).op \in {"lock", "unlock"} => Now(t).obj \in Mutexes
           /\ Now(t).op \in {"new", "push", "use"} => Now(t).obj \in Objects
           /\ Now(t).op \in {"find", "register"} => Now(t).obj = factory
<1>1. code[t] \in Seq(Instructions)
  BY DEF Typed
<1>2. Now(t) \in Instructions /\ Rest(t) \in Seq(Instructions)
  BY <1>1, TailFacts DEF Busy, Now, Rest
<1>3. /\ Now(t) = I(Now(t).op, Now(t).obj)
      /\ Now(t).op \in Loads \cup {"store"} => Now(t).obj \in Onces
      /\ Now(t).op \in {"lock", "unlock"} => Now(t).obj \in Mutexes
      /\ Now(t).op \in {"new", "push", "use"} => Now(t).obj \in Objects
      /\ Now(t).op \in {"find", "register"} => Now(t).obj = factory
  BY <1>2 DEF Instructions, I, Loads
<1> QED  BY <1>1, <1>2, <1>3 DEF Obj, Now

(* A step does away with the instruction, puts one load of the once word in *)
(* the place of another, or the closure, or jumps to the unlock.            *)
Drops(t)   == code' = [code EXCEPT ![t] = Rest(t)]

Reloads(t) == \E op \in {"impl", "cas", "spin"} :
    /\ Now(t).op \in {"once", "impl", "cas"} /\ Now(t).obj \in Onces
    /\ op = "spin" => once[Now(t).obj] # "UNINITIALIZED"
    /\ code' = [code EXCEPT ![t] = <<I(op, Now(t).obj)>> \o Rest(t)]

Wins(t)    ==
    /\ Now(t).op = "cas" /\ Now(t).obj \in Onces
    /\ once[Now(t).obj] = "UNINITIALIZED"
    /\ once' = [once EXCEPT ![Now(t).obj] = "EXECUTING_CLOSURE"]
    /\ code' = [code EXCEPT ![t] = Body(Now(t).obj) \o Rest(t)]

Leaves(t)  == \E m \in Mutexes :
    /\ Now(t).op \in {"find", "test"} /\ Now(t).obj \notin Onces
    /\ m \in made /\ m \in Holds(t)
    /\ code' = [code EXCEPT ![t] = <<I("unlock", m)>>]

(* What the steps do to the shared memory. *)
Same == UNCHANGED <<once, held, made, shutdown_functions, type_map_, log_silencer_count_>>

Effect(t) ==
    \/ Same /\ Now(t).op \in Loads /\ Promised[Now(t).obj] \subseteq made /\ Drops(t)
    \/ Same /\ Now(t).op \in {"use", "build", "log_handler"} /\ Drops(t)
    \/ Same /\ Now(t).op = "find" /\ type_map_ = 0 /\ Drops(t)
    \/ Same /\ Now(t).op = "test" /\ Drops(t)
    \/ Same /\ Reloads(t)
    \/ Same /\ Leaves(t)
    \/ /\ Wins(t)
       /\ UNCHANGED <<held, made, shutdown_functions, type_map_, log_silencer_count_>>
    \/ /\ Now(t).op = "store" /\ once' = [once EXCEPT ![Now(t).obj] = "DONE"] /\ Drops(t)
       /\ UNCHANGED <<held, made, shutdown_functions, type_map_, log_silencer_count_>>
    \/ /\ Now(t).op = "lock" /\ held[Now(t).obj] = NoThread
       /\ held' = [held EXCEPT ![Now(t).obj] = t] /\ Drops(t)
       /\ UNCHANGED <<once, made, shutdown_functions, type_map_, log_silencer_count_>>
    \/ /\ Now(t).op = "unlock" /\ held' = [held EXCEPT ![Now(t).obj] = NoThread] /\ Drops(t)
       /\ UNCHANGED <<once, made, shutdown_functions, type_map_, log_silencer_count_>>
    \/ /\ Now(t).op = "new" /\ made' = made \cup {Now(t).obj} /\ Drops(t)
       /\ UNCHANGED <<once, held, shutdown_functions, type_map_, log_silencer_count_>>
    \/ /\ Now(t).op = "push" /\ Drops(t)
       /\ shutdown_functions' = Append(shutdown_functions, Now(t).obj)
       /\ UNCHANGED <<once, held, made, type_map_, log_silencer_count_>>
    \/ /\ Now(t).op = "register" /\ type_map_' = type_map_ + 1 /\ Drops(t)
       /\ UNCHANGED <<once, held, made, shutdown_functions, log_silencer_count_>>
    \/ /\ Now(t).op = "++" /\ log_silencer_count_' = log_silencer_count_ + 1 /\ Drops(t)
       /\ UNCHANGED <<once, held, made, shutdown_functions, type_map_>>
    \/ /\ Now(t).op = "--" /\ log_silencer_count_' = log_silencer_count_ - 1 /\ Drops(t)
       /\ UNCHANGED <<once, held, made, shutdown_functions, type_map_>>

(* What an instruction does to the shared words and to the program of its thread. *)
LEMMA Effects ==
    ASSUME IInv, NEW t \in Threads, Execute(t)
    PROVE  Busy(t) /\ Effect(t) /\ UNCHANGED <<stage, calls>>
<1>1. Busy(t)
  BY SMTT(30)
     DEF Execute, AcquireLoad, Acquire_CompareAndSwap, SpinEnds, Release_Store, Lock, Unlock,
         New, Use, Push, Find, RegisterType, CountSilencer, TestSilencer, Runs, Busy
<1>2. Typed /\ Programs /\ Stages /\ Ready
  BY DEF IInv
<1>3. stage # "shutdown"
  BY <1>1, <1>2 DEF Stages, Busy
<1> DEFINE h == Now(t)
<1>4. /\ h = I(h.op, h.obj) /\ Obj(t) = h.obj /\ Rest(t) \in Seq(Instructions)
      /\ code[t] \in Seq(Instructions)
      /\ h.op \in Loads \cup {"store"} => h.obj \in Onces
  BY <1>1, <1>2, AtFacts
<1>5. HeadFacts(code[t], made, Holds(t), Missing(t))
  BY <1>1, <1>2, SoundHead DEF Programs, Busy, Missing
<1>6. << >> \o Rest(t) = Rest(t)
  BY <1>4, ConcatEmptySeq
<1>7. once \in [Onces -> {"UNINITIALIZED", "EXECUTING_CLOSURE", "DONE"}]
  BY <1>2 DEF Typed, TypeOK
<1>8. \A op : Runs(t, op) <=> h.op = op
  BY <1>1 DEF Runs, Busy, Now
<1>9. \A next : Continue(t, next) <=> code' = [code EXCEPT ![t] = next \o Rest(t)]
  BY DEF Continue, Rest
<1>10. Continue(t, << >>) <=> Drops(t)
  BY <1>6, <1>9 DEF Drops
<1>11. UNCHANGED <<stage, calls>>
  BY DEF Execute
<1> SUFFICES Effect(t)
  BY <1>1, <1>11
<1> HIDE DEF h
<1> USE <1>4, <1>8
<1>12. CASE AcquireLoad(t)
  <2>1. /\ h.op \in {"once", "impl"} /\ h.obj \in Onces /\ UNCHANGED shared
        /\ Continue(t, IF once[h.obj] = "DONE" THEN << >>
                       ELSE IF h.op = "once" THEN <<I("impl", h.obj)>> ELSE <<I("cas", h.obj)>>)
    BY <1>12 DEF AcquireLoad, Loads
  <2>2. CASE once[h.obj] = "DONE"
    <3>1. Promised[h.obj] \subseteq made /\ Drops(t) /\ h.op \in Loads
      BY <2>1, <2>2, <1>2, <1>3, <1>10 DEF Ready, Loads
    <3> QED  BY <2>1, <3>1 DEF Effect, Same, shared, h
  <2>3. CASE once[h.obj] # "DONE"
    <3>1. Reloads(t)
      BY <2>1, <2>3, <1>9 DEF Reloads, h
    <3> QED  BY <2>1, <3>1 DEF Effect, Same, shared
  <2> QED  BY <2>2, <2>3
<1>13. CASE Acquire_CompareAndSwap(t)
  <2>1. h.op = "cas" /\ h.obj \in Onces
    BY <1>13 DEF Acquire_CompareAndSwap, Loads
  <2>2. CASE once[h.obj] = "UNINITIALIZED"
    <3>1. Wins(t)
      BY <2>1, <2>2, <1>13, <1>9 DEF Acquire_CompareAndSwap, RunClosure, Wins, h, Body
    <3> QED  BY <3>1, <1>13 DEF Effect, Acquire_CompareAndSwap, h
  <2>3. CASE once[h.obj] # "UNINITIALIZED"
    <3>1. Reloads(t) /\ UNCHANGED once
      BY <2>1, <2>3, <1>13, <1>9 DEF Acquire_CompareAndSwap, Reloads, h
    <3> QED  BY <3>1, <1>13 DEF Effect, Acquire_CompareAndSwap, Same
  <2> QED  BY <2>2, <2>3
<1>14. CASE SpinEnds(t)
  <2>1. h.op = "spin" /\ h.obj \in Onces /\ once[h.obj] # "EXECUTING_CLOSURE" /\ Drops(t)
    BY <1>14, <1>10 DEF SpinEnds, Loads
  <2>2. Has(t, I("spin", h.obj))
    BY <2>1, <1>1, ContainsTail DEF Has, Busy, Now, h
  <2>3. once[h.obj] = "DONE"
    BY <2>1, <2>2, <1>2, <1>7 DEF Ready
  <2>4. Promised[h.obj] \subseteq made
    BY <2>1, <2>3, <1>2, <1>3 DEF Ready
  <2> QED  BY <2>1, <2>4, <1>14 DEF SpinEnds, Effect, Same, shared, Loads, h
<1>15. CASE Release_Store(t)
  BY <1>15, <1>10 DEF Release_Store, Effect, h
<1>16. CASE Lock(t) \/ Unlock(t)
  BY <1>16, <1>10 DEF Lock, Unlock, Effect, h
<1>17. CASE New(t) \/ Use(t) \/ Push(t)
  BY <1>17, <1>10 DEF New, Use, Push, Effect, Same, shared, h
<1>18. CASE Find(t)
  <2>1. h.op = "find" /\ UNCHANGED shared
    BY <1>18 DEF Find
  <2>2. CASE type_map_ > 0
    <3>1. code[t][Len(code[t])] = I("unlock", factory) /\ factory \in made /\ factory \in Holds(t)
      BY <2>1, <1>1, <1>2, <1>5, AtFacts DEF HeadFacts, Needs, Guards, h, Now
    <3>2. Leaves(t)
      BY <2>1, <2>2, <3>1, <1>18, InstructionTypes, OncesAre, <1>1, <1>2, AtFacts
         DEF Find, Leaves, Last, h, factory
    <3> QED  BY <2>1, <3>2 DEF Effect, Same, shared
  <2>3. CASE ~(type_map_ > 0)
    <3>1. type_map_ = 0
      BY <2>3, <1>2 DEF Typed, TypeOK
    <3> QED  BY <2>1, <2>3, <3>1, <1>18, <1>10 DEF Find, Effect, Same, shared, h
  <2> QED  BY <2>2, <2>3
<1>19. CASE RegisterType(t)
  BY <1>19, <1>10 DEF RegisterType, Effect, h
<1>20. CASE CountSilencer(t)
  BY <1>20, <1>10 DEF CountSilencer, Effect, h
<1>21. CASE TestSilencer(t)
  <2>1. h.op = "test" /\ UNCHANGED shared
    BY <1>21 DEF TestSilencer
  <2>2. CASE log_silencer_count_ > 0
    <3>1. Len(code[t]) >= 2 /\ code[t][2] = I("unlock", silencerMutex)
      BY <2>1, <1>5 DEF HeadFacts, h, Now
    <3>2. Sound(Rest(t), made, Holds(t), Missing(t))
      <4>1. made \cup Adds(h) \subseteq made /\ h.op # "find" /\ \A m : h # I("lock", m)
        BY <2>1 DEF Adds, Loads, I
      <4>2. Sound(code[t], made, Holds(t), Missing(t)) /\ code[t] # << >>
        BY <1>1, <1>2 DEF Programs, Busy
      <4>3. Missing(t) \in BOOLEAN
        BY DEF Missing
      <4> QED  BY <4>1, <4>2, <4>3, SoundTail DEF Rest, h, Now
    <3>3. Rest(t) # << >> /\ Head(Rest(t)) = I("unlock", silencerMutex)
      <4>1. /\ code[t] # << >> /\ Len(Rest(t)) = Len(code[t]) - 1 /\ Len(code[t]) \in Nat
            /\ \A k \in 1 .. (Len(code[t]) - 1) : Rest(t)[k] = code[t][k + 1]
        BY <1>1, TailFacts DEF Rest, Busy
      <4>2. Len(Rest(t)) # 0 /\ Rest(t)[1] = code[t][2]
        BY <4>1, <3>1
      <4>3. Rest(t) # << >>
        BY <4>2, EmptySeq
      <4> QED  BY <4>2, <4>3, <3>1, HeadTailProperties
    <3>4. HeadFacts(Rest(t), made, Holds(t), Missing(t))
      BY <3>2, <3>3, SoundHead DEF Missing
    <3>5. silencerMutex \in made /\ silencerMutex \in Holds(t)
      BY <3>3, <3>4 DEF HeadFacts, Needs, Guards, I
    <3>6. h.obj \notin Onces
      BY <2>1, <1>1, <1>2, TailFacts, OncesAre DEF Typed, Busy, Now, h, Instructions, I, Loads
    <3>7. Leaves(t)
      BY <2>1, <2>2, <3>1, <3>5, <3>6, <1>21, InstructionTypes DEF TestSilencer, Leaves, h
    <3> QED  BY <2>1, <3>7 DEF Effect, Same, shared
  <2>3. CASE ~(log_silencer_count_ > 0)
    BY <2>1, <2>3, <1>21, <1>10 DEF TestSilencer, Effect, Same, shared, h
  <2> QED  BY <2>2, <2>3
<1> QED
  BY <1>12, <1>13, <1>14, <1>15, <1>16, <1>17, <1>18, <1>19, <1>20, <1>21 DEF Execute

(* The facts that the proofs of every part start from.                      *)
LEMMA StepFacts ==
    ASSUME IInv, NEW t \in Threads, Busy(t), Effect(t)
    PROVE  /\ HeadFacts(code[t], made, Holds(t), Missing(t))
           /\ Sound(code[t], made, Holds(t), Missing(t))
           /\ made \subseteq made'
           /\ held \in [Mutexes -> Threads \cup {NoThread}]
           /\ once \in [Onces -> {"UNINITIALIZED", "EXECUTING_CLOSURE", "DONE"}]
           /\ type_map_ \in Nat
           /\ Drops(t) \/ Reloads(t) \/ Wins(t) \/ Leaves(t)
           /\ \A u \in Threads : u # t => code'[u] = code[u]
           /\ \A o \in Onces : once[o] # "UNINITIALIZED" => once'[o] # "UNINITIALIZED"
<1>1. Typed /\ Programs
  BY DEF IInv
<1>2. Sound(code[t], made, Holds(t), Missing(t))
  BY <1>1 DEF Programs
<1>3. HeadFacts(code[t], made, Holds(t), Missing(t))
  BY <1>2, SoundHead DEF Busy, Missing
<1>4. made \subseteq made'
  BY DEF Effect, Same
<1>5. /\ held \in [Mutexes -> Threads \cup {NoThread}]
      /\ once \in [Onces -> {"UNINITIALIZED", "EXECUTING_CLOSURE", "DONE"}]
      /\ type_map_ \in Nat
  BY <1>1 DEF Typed, TypeOK
<1>6. Drops(t) \/ Reloads(t) \/ Wins(t) \/ Leaves(t)
  BY DEF Effect
<1>7. \A u \in Threads : u # t => code'[u] = code[u]
  BY <1>1, <1>6 DEF Drops, Reloads, Wins, Leaves, Typed
<1>8. \A o \in Onces : once[o] # "UNINITIALIZED" => once'[o] # "UNINITIALIZED"
  BY <1>5 DEF Effect, Same, Wins
<1> QED  BY <1>2, <1>3, <1>4, <1>5, <1>6, <1>7, <1>8

(* No step of a thread touches what another holds.                          *)
LEMMA OthersKept ==
    ASSUME IInv, NEW t \in Threads, Busy(t), Effect(t), NEW u \in Threads, u # t
    PROVE  Holds(u)' = Holds(u) /\ (Missing(u) => Missing(u)')
<1>1. /\ HeadFacts(code[t], made, Holds(t), Missing(t)) /\ type_map_ \in Nat
      /\ held \in [Mutexes -> Threads \cup {NoThread}]
  BY StepFacts
<1>2. /\ Now(t).op \in {"lock", "unlock"} => Now(t).obj \in Mutexes
      /\ Now(t).op = "register" => Now(t).obj = factory
  BY AtFacts DEF IInv
<1>3. Guards(Now(t)) \subseteq Holds(t)
  BY <1>1 DEF HeadFacts, Now
<1>4. Holds(u)' = Holds(u)
  <2>1. CASE held' = held
    BY <2>1 DEF Holds
  <2>2. CASE /\ Now(t).op = "lock" /\ held[Now(t).obj] = NoThread
             /\ held' = [held EXCEPT ![Now(t).obj] = t]
    <3>1. \A m \in Mutexes : held'[m] = u <=> held[m] = u
      BY <1>1, <2>2, LibraryAssumption
    <3> QED  BY <3>1 DEF Holds
  <2>3. CASE Now(t).op = "unlock" /\ held' = [held EXCEPT ![Now(t).obj] = NoThread]
    <3>1. held[Now(t).obj] = t
      BY <1>3, <2>3 DEF Guards, Holds
    <3>2. \A m \in Mutexes : held'[m] = u <=> held[m] = u
      BY <1>1, <2>3, <3>1, LibraryAssumption
    <3> QED  BY <3>2 DEF Holds
  <2> QED  BY <2>1, <2>2, <2>3 DEF Effect, Same
<1>5. Missing(u) => Missing(u)'
  <2>1. CASE type_map_' = type_map_
    BY <2>1, <1>4 DEF Missing
  <2>2. CASE Now(t).op = "register"
    <3>1. factory \in Holds(t)
      BY <2>2, <1>3 DEF Guards
    <3>2. factory \notin Holds(u)
      BY <3>1 DEF Holds
    <3> QED  BY <3>2 DEF Missing
  <2> QED  BY <2>1, <2>2 DEF Effect, Same
<1> QED  BY <1>4, <1>5

(* The program of the thread itself stays sound.                            *)
LEMMA OwnProgram ==
    ASSUME IInv, NEW t \in Threads, Busy(t), Effect(t)
    PROVE  Sound(code'[t], made', Holds(t)', Missing(t)')
<1> DEFINE s == code[t]
           h == Now(t)
<1>1. /\ HeadFacts(s, made, Holds(t), Missing(t)) /\ Sound(s, made, Holds(t), Missing(t))
      /\ type_map_ \in Nat /\ held \in [Mutexes -> Threads \cup {NoThread}]
      /\ s # << >> /\ h = Head(s) /\ Rest(t) = Tail(s) /\ made \subseteq made'
  BY StepFacts DEF Busy, Now, Rest
<1>2. /\ h = I(h.op, h.obj) /\ s \in Seq(Instructions) /\ Rest(t) \in Seq(Instructions)
      /\ h.op \in {"lock", "unlock"} => h.obj \in Mutexes
      /\ h.op \in Loads => h.obj \in Onces
      /\ code \in [Threads -> Seq(Instructions)]
  BY AtFacts DEF IInv, Typed
<1>3. Guards(h) \subseteq Holds(t) /\ (h.op = "register" => Missing(t))
  BY <1>1 DEF HeadFacts
<1> HIDE DEF h, s
<1>4. Missing(t) \in BOOLEAN /\ Missing(t)' \in BOOLEAN
  BY DEF Missing
<1>5. Drops(t) => code'[t] = Tail(s)
  BY <1>1, <1>2 DEF Drops
<1>6. CASE Same /\ Drops(t) /\ (\/ h.op \in Loads /\ Promised[h.obj] \subseteq made
                                \/ h.op \in {"use", "build", "log_handler", "test"}
                                \/ h.op = "find" /\ type_map_ = 0)
  <2>1. Holds(t)' = Holds(t) /\ Missing(t)' = Missing(t) /\ made' = made
    BY <1>6 DEF Same, Holds, Missing
  <2>2. made \cup Adds(h) \subseteq made /\ \A m : h # I("lock", m)
    BY <1>6 DEF Adds, Loads, I
  <2>3. h.op = "find" => Missing(t)
    BY <1>6, <1>3 DEF Guards, Missing, Loads
  <2>4. Sound(Tail(s), made, Holds(t), Missing(t))
    BY <1>1, <1>4, <2>2, <2>3, SoundTail
  <2> QED  BY <1>5, <1>6, <2>1, <2>4
<1>7. CASE Same /\ Reloads(t)
  <2>1. Holds(t)' = Holds(t) /\ Missing(t)' = Missing(t) /\ made' = made
    BY <1>7 DEF Same, Holds, Missing
  <2>2. PICK op \in {"impl", "cas", "spin"} :
            /\ h.op \in {"once", "impl", "cas"} /\ h.obj \in Onces
            /\ code' = [code EXCEPT ![t] = <<I(op, h.obj)>> \o Rest(t)]
    BY <1>7 DEF Reloads, h
  <2> DEFINE a == <<I(op, h.obj)>>
  <2>3. /\ Sound(a, {}, {}, FALSE) /\ Len(a) = 1 /\ a[1] = I(op, h.obj)
        /\ \A i : Contains(a, i) <=> i = I(op, h.obj)
    <3>1. op \in Loads /\ h.obj \in Onces
      BY <2>2 DEF Loads
    <3>2. IsLoad(a, op, h.obj)
      BY <3>1, SoundLoad
    <3> QED  BY <3>2 DEF IsLoad
  <2>4. code'[t] = a \o Tail(s)
    BY <1>1, <1>2, <2>2
  <2> HIDE DEF a
  <2>5. /\ \A k \in 1 .. Len(a) :
               /\ a[k].op \notin {"find", "test", "register", "++", "--"}
               /\ a[k] # I("unlock", factory)
        /\ \A i : i.op = "push" => ~(Contains(a, i) /\ Contains(Tail(s), i))
    BY <2>3 DEF I
  <2>6. \A x \in Adds(h) : \E k \in 1 .. Len(a) : x \in Adds(a[k])
    BY <2>2, <2>3 DEF Adds, I, Loads
  <2>7. h.op \in Loads
    BY <2>2 DEF Loads
  <2>8. Sound(a \o Tail(s), made, Holds(t), Missing(t))
    BY <1>1, <1>4, <2>3, <2>5, <2>6, <2>7, SoundInFront
  <2> QED  BY <2>1, <2>4, <2>8
<1>8. CASE Same /\ Leaves(t)
  <2>1. Holds(t)' = Holds(t) /\ Missing(t)' = Missing(t) /\ made' = made
    BY <1>8 DEF Same, Holds, Missing
  <2>2. PICK m \in Mutexes : /\ m \in made /\ m \in Holds(t)
                             /\ code' = [code EXCEPT ![t] = <<I("unlock", m)>>]
    BY <1>8 DEF Leaves
  <2>3. Sound(<<I("unlock", m)>>, made, Holds(t), Missing(t))
    BY <2>2, <1>4, SoundJump
  <2> QED  BY <1>2, <2>1, <2>2, <2>3
<1>9. CASE Wins(t) /\ UNCHANGED <<held, made, type_map_>>
  <2>1. Holds(t)' = Holds(t) /\ Missing(t)' = Missing(t) /\ made' = made
    BY <1>9 DEF Holds, Missing
  <2>2. /\ h.op = "cas" /\ h.obj \in Onces /\ once[h.obj] = "UNINITIALIZED"
        /\ code'[t] = Body(h.obj) \o Tail(s)
    BY <1>1, <1>2, <1>9 DEF Wins, h
  <2> DEFINE a == Body(h.obj)
  <2>3. BodyFacts(h.obj)
    BY <2>2, ClosuresSound
  <2>4. /\ Sound(a, {}, {}, FALSE)
        /\ \A k \in 1 .. Len(a) :
               /\ a[k].op \notin {"find", "test", "register", "++", "--"}
               /\ a[k] # I("unlock", factory)
    BY <2>3 DEF BodyFacts
  <2>5. h.op \in Loads /\ \A x \in Adds(h) : \E k \in 1 .. Len(a) : x \in Adds(a[k])
    BY <2>2, <2>3 DEF BodyFacts, Adds, Loads
  <2>6. \A i : i.op = "push" => ~(Contains(a, i) /\ Contains(Tail(s), i))
    <3> SUFFICES ASSUME NEW i, i.op = "push", Contains(a, i), Contains(Tail(s), i)
                 PROVE  FALSE
      OBVIOUS
    <3>1. i \in Instructions
      BY <1>1, <1>2, ElementOfSeq DEF Contains
    <3>2. i = I("push", i.obj) /\ i.obj \in Objects
      BY <3>1 DEF Instructions, I, Loads
    <3>3. Has(t, i)
      BY <1>1, <1>2, ContainsTail DEF Has, s
    <3>4. Registers(h.obj, i.obj)
      BY <3>2 DEF Registers
    <3> QED  BY <2>2, <3>2, <3>3, <3>4 DEF IInv, Deleters
  <2> HIDE DEF a
  <2>7. Sound(a \o Tail(s), made, Holds(t), Missing(t))
    BY <1>1, <1>4, <2>4, <2>5, <2>6, SoundInFront
  <2> QED  BY <2>1, <2>2, <2>7 DEF a
<1>10. CASE /\ Drops(t) /\ UNCHANGED <<held, made, type_map_>>
            /\ h.op \in {"store", "push", "++", "--"}
  <2>1. Holds(t)' = Holds(t) /\ Missing(t)' = Missing(t) /\ made' = made
    BY <1>10 DEF Holds, Missing
  <2>2. made \cup Adds(h) \subseteq made /\ h.op # "find" /\ \A m : h # I("lock", m)
    BY <1>10 DEF Adds, Loads, I
  <2>3. Sound(Tail(s), made, Holds(t), Missing(t))
    BY <1>1, <1>4, <2>2, SoundTail
  <2> QED  BY <1>5, <1>10, <2>1, <2>3
<1>11. CASE /\ Drops(t) /\ UNCHANGED <<made, type_map_>>
            /\ h.op = "lock" /\ held' = [held EXCEPT ![h.obj] = t]
  <2>1. Holds(t)' = Holds(t) \cup {h.obj} /\ made' = made
    BY <1>1, <1>2, <1>11 DEF Holds
  <2>2. /\ made \cup Adds(h) \subseteq made /\ h.op # "find"
        /\ \A m : h = I("lock", m) => m \in Holds(t)'
    BY <1>11, <2>1 DEF Adds, Loads, I
  <2>3. Missing(t) => Missing(t)'
    BY <1>11, <2>1 DEF Missing
  <2>4. Sound(Tail(s), made, Holds(t)', Missing(t)')
    BY <1>1, <1>4, <2>1, <2>2, <2>3, SoundTail
  <2> QED  BY <1>5, <1>11, <2>1, <2>4
<1>12. CASE /\ Drops(t) /\ UNCHANGED <<made, type_map_>>
            /\ h.op = "unlock" /\ held' = [held EXCEPT ![h.obj] = NoThread]
  <2>1. Holds(t)' = Holds(t) \ {h.obj} /\ made' = made
    BY <1>1, <1>2, <1>12, LibraryAssumption DEF Holds
  <2>2. made \cup Adds(h) \subseteq made /\ h.op # "find" /\ \A m : h # I("lock", m)
    BY <1>12 DEF Adds, Loads, I
  <2>3. \A m \in Holds(t) : Keeps(h, m) => m \in Holds(t)'
    BY <1>2, <1>12, <2>1 DEF Keeps
  <2>4. Missing(t) /\ Stays(h) => Missing(t)'
    BY <1>2, <1>12, <2>1 DEF Missing, Stays
  <2>5. Sound(Tail(s), made, Holds(t)', Missing(t)')
    BY <1>1, <1>4, <2>2, <2>3, <2>4, SoundTail
  <2> QED  BY <1>5, <1>12, <2>1, <2>5
<1>13. CASE /\ Drops(t) /\ UNCHANGED <<held, type_map_>>
            /\ h.op = "new" /\ made' = made \cup {h.obj}
  <2>1. Holds(t)' = Holds(t) /\ Missing(t)' = Missing(t)
    BY <1>13 DEF Holds, Missing
  <2>2. made \cup Adds(h) \subseteq made' /\ h.op # "find" /\ \A m : h # I("lock", m)
    BY <1>13 DEF Adds, Loads, I
  <2>3. Sound(Tail(s), made', Holds(t), Missing(t))
    BY <1>1, <1>4, <2>2, SoundTail
  <2> QED  BY <1>5, <1>13, <2>1, <2>3
<1>14. CASE /\ Drops(t) /\ UNCHANGED <<held, made>>
            /\ h.op = "register" /\ type_map_' = type_map_ + 1
  <2>1. Holds(t)' = Holds(t) /\ made' = made
    BY <1>14 DEF Holds
  <2>2. /\ made \cup Adds(h) \subseteq made /\ h.op # "find" /\ \A m : h # I("lock", m)
        /\ ~Stays(h)
    BY <1>14 DEF Adds, Loads, I, Stays
  <2>3. Sound(Tail(s), made, Holds(t), Missing(t)')
    BY <1>1, <1>4, <2>2, SoundTail
  <2> QED  BY <1>5, <1>14, <2>1, <2>3
<1> QED
  BY <1>6, <1>7, <1>8, <1>9, <1>10, <1>11, <1>12, <1>13, <1>14 DEF Effect, Same, h

(* The programs of all threads stay sound. *)
LEMMA ProgramsKept ==
    ASSUME IInv, NEW t \in Threads, Busy(t), Effect(t)
    PROVE  Programs'
<1>1. ASSUME NEW u \in Threads, u # t
      PROVE  Sound(code'[u], made', Holds(u)', Missing(u)')
  <2>1. code'[u] = code[u] /\ made \subseteq made'
    BY <1>1, StepFacts
  <2>2. Sound(code[u], made, Holds(u), Missing(u))
    BY DEF IInv, Programs
  <2>3. Holds(u)' = Holds(u) /\ (Missing(u) => Missing(u)')
    BY <1>1, OthersKept
  <2>4. Missing(u) \in BOOLEAN /\ Missing(u)' \in BOOLEAN
    BY DEF Missing
  <2>5. Sound(code[u], made', Holds(u)', Missing(u)')
    BY <2>1, <2>2, <2>3, <2>4, SoundMore
  <2> QED  BY <2>1, <2>5
<1> QED  BY <1>1, OwnProgram DEF Programs

(* What a thread has still to execute, before and after a step.             *)
LEMMA Contents ==
    ASSUME IInv, NEW t \in Threads, Busy(t), Effect(t)
    PROVE  /\ \A i : Has(t, i) <=> i = Now(t) \/ Contains(Rest(t), i)
           /\ \A x : HasOp(t, x) <=> x = Now(t).op \/ ContainsOp(Rest(t), x)
           /\ Drops(t) =>
                  /\ \A i : Has(t, i)' <=> Contains(Rest(t), i)
                  /\ \A x : HasOp(t, x)' <=> ContainsOp(Rest(t), x)
           /\ Reloads(t) => \E op \in {"impl", "cas", "spin"} :
                  /\ Now(t).op \in {"once", "impl", "cas"} /\ Now(t).obj \in Onces
                  /\ op = "spin" => once[Now(t).obj] # "UNINITIALIZED"
                  /\ \A i : Has(t, i)' <=> i = I(op, Now(t).obj) \/ Contains(Rest(t), i)
                  /\ \A x : HasOp(t, x)' <=> x = op \/ ContainsOp(Rest(t), x)
           /\ Wins(t) =>
                  /\ \A i : Has(t, i)' <=> Contains(Body(Now(t).obj), i) \/ Contains(Rest(t), i)
                  /\ \A x : HasOp(t, x)' <=>
                               ContainsOp(Body(Now(t).obj), x) \/ ContainsOp(Rest(t), x)
           /\ Leaves(t) =>
                  /\ Now(t).op \in {"find", "test"}
                  /\ \A i : Has(t, i)' => i.op = "unlock"
                  /\ \A x : HasOp(t, x)' => x = "unlock"
<1>1. /\ code \in [Threads -> Seq(Instructions)] /\ Rest(t) \in Seq(Instructions)
  BY AtFacts DEF IInv, Typed
<1>2. /\ \A i : Has(t, i) <=> i = Now(t) \/ Contains(Rest(t), i)
      /\ \A x : HasOp(t, x) <=> x = Now(t).op \/ ContainsOp(Rest(t), x)
  BY <1>1, ContainsTail DEF Has, HasOp, Now, Rest, Busy
<1>3. ASSUME Drops(t)
      PROVE  /\ \A i : Has(t, i)' <=> Contains(Rest(t), i)
             /\ \A x : HasOp(t, x)' <=> ContainsOp(Rest(t), x)
  <2>1. code'[t] = Rest(t)
    BY <1>1, <1>3 DEF Drops
  <2> QED  BY <2>1 DEF Has, HasOp
<1>4. ASSUME Reloads(t)
      PROVE  \E op \in {"impl", "cas", "spin"} :
                 /\ Now(t).op \in {"once", "impl", "cas"} /\ Now(t).obj \in Onces
                 /\ op = "spin" => once[Now(t).obj] # "UNINITIALIZED"
                 /\ \A i : Has(t, i)' <=> i = I(op, Now(t).obj) \/ Contains(Rest(t), i)
                 /\ \A x : HasOp(t, x)' <=> x = op \/ ContainsOp(Rest(t), x)
  <2>1. PICK op \in {"impl", "cas", "spin"} :
            /\ Now(t).op \in {"once", "impl", "cas"} /\ Now(t).obj \in Onces
            /\ op = "spin" => once[Now(t).obj] # "UNINITIALIZED"
            /\ code' = [code EXCEPT ![t] = <<I(op, Now(t).obj)>> \o Rest(t)]
    BY <1>4 DEF Reloads
  <2> DEFINE a == <<I(op, Now(t).obj)>>
  <2>2. code'[t] = a \o Rest(t)
    BY <1>1, <2>1
  <2>3. IsLoad(a, op, Now(t).obj)
    <3>1. op \in Loads /\ Now(t).obj \in Onces
      BY <2>1 DEF Loads
    <3> QED  BY <3>1, SoundLoad
  <2> HIDE DEF a
  <2>4. /\ \A i : Contains(a \o Rest(t), i) <=> i = I(op, Now(t).obj) \/ Contains(Rest(t), i)
        /\ \A x : ContainsOp(a \o Rest(t), x) <=> x = op \/ ContainsOp(Rest(t), x)
    <3>1. a \in Seq(Instructions)
      BY <2>3 DEF IsLoad, Sound
    <3> QED  BY <1>1, <2>3, <3>1, ContainsConcat DEF IsLoad
  <2>5. /\ \A i : Has(t, i)' <=> i = I(op, Now(t).obj) \/ Contains(Rest(t), i)
        /\ \A x : HasOp(t, x)' <=> x = op \/ ContainsOp(Rest(t), x)
    BY <2>2, <2>4 DEF Has, HasOp
  <2> QED  BY <2>1, <2>5
<1>5. ASSUME Wins(t)
      PROVE  /\ \A i : Has(t, i)' <=> Contains(Body(Now(t).obj), i) \/ Contains(Rest(t), i)
             /\ \A x : HasOp(t, x)' <=> ContainsOp(Body(Now(t).obj), x) \/ ContainsOp(Rest(t), x)
  <2> DEFINE a == Body(Now(t).obj)
  <2>1. code'[t] = a \o Rest(t)
    BY <1>1, <1>5 DEF Wins
  <2>2. a \in Seq(Instructions)
    BY <1>5, ClosuresSound DEF Wins, BodyFacts, Sound
  <2> HIDE DEF a
  <2>3. /\ \A i : Contains(a \o Rest(t), i) <=> Contains(a, i) \/ Contains(Rest(t), i)
        /\ \A x : ContainsOp(a \o Rest(t), x) <=> ContainsOp(a, x) \/ ContainsOp(Rest(t), x)
    BY <1>1, <2>2, ContainsConcat
  <2> QED  BY <2>1, <2>3 DEF Has, HasOp, a
<1>6. ASSUME Leaves(t)
      PROVE  /\ Now(t).op \in {"find", "test"}
             /\ \A i : Has(t, i)' => i.op = "unlock"
             /\ \A x : HasOp(t, x)' => x = "unlock"
  <2>1. PICK m \in Mutexes : /\ Now(t).op \in {"find", "test"}
                             /\ code' = [code EXCEPT ![t] = <<I("unlock", m)>>]
    BY <1>6 DEF Leaves
  <2>2. code'[t] = <<I("unlock", m)>>
    BY <1>1, <2>1
  <2>3. /\ \A i : Contains(<<I("unlock", m)>>, i) => i.op = "unlock"
        /\ \A x : ContainsOp(<<I("unlock", m)>>, x) => x = "unlock"
    BY DEF Contains, ContainsOp, I
  <2> QED  BY <2>1, <2>2, <2>3 DEF Has, HasOp
<1> QED  BY <1>2, <1>3, <1>4, <1>5, <1>6

(* What the other threads have still to execute does not change. *)
LEMMA OthersContents ==
    ASSUME IInv, NEW t \in Threads, Busy(t), Effect(t), NEW u \in Threads, u # t
    PROVE  /\ \A i : Has(u, i)' <=> Has(u, i)
           /\ \A x : HasOp(u, x)' <=> HasOp(u, x)
<1>1. code'[u] = code[u]
  BY StepFacts
<1> QED  BY <1>1 DEF Has, HasOp

(* Which deleters a thread has still to register.                           *)
LEMMA PushesKept ==
    ASSUME IInv, NEW t \in Threads, Busy(t), Effect(t), NEW f
    PROVE  /\ Now(t).op = "push" =>
                  (Has(t, I("push", f))' <=> Has(t, I("push", f)) /\ f # Now(t).obj)
           /\ Wins(t) =>
                  (Has(t, I("push", f))' <=> Has(t, I("push", f)) \/ Registers(Now(t).obj, f))
           /\ Now(t).op # "push" /\ ~Wins(t) => (Has(t, I("push", f))' <=> Has(t, I("push", f)))
<1> DEFINE i == I("push", f)
<1>1. HeadFacts(code[t], made, Holds(t), Missing(t)) /\ i.op = "push" /\ i.obj = f
  BY StepFacts DEF I
<1>2. Now(t) = I(Now(t).op, Now(t).obj) /\ (Now(t).op = "push" => Drops(t))
  <2>1. Now(t).op = "push" => ~Reloads(t) /\ ~Wins(t) /\ ~Leaves(t)
    BY DEF Reloads, Wins, Leaves
  <2> QED  BY <2>1, AtFacts, StepFacts DEF IInv
<1>3. Has(t, i) <=> i = Now(t) \/ Contains(Rest(t), i)
  BY Contents
<1> HIDE DEF i
<1>4. ASSUME Now(t).op = "push"  PROVE Has(t, i)' <=> Has(t, i) /\ f # Now(t).obj
  <2>1. Has(t, i)' <=> Contains(Rest(t), i)
    BY <1>2, <1>4, Contents
  <2>2. i = Now(t) <=> f = Now(t).obj
    BY <1>1, <1>2, <1>4 DEF i
  <2>3. ~Contains(Rest(t), Now(t))
    BY <1>1, <1>4 DEF HeadFacts, Now, Rest
  <2> QED  BY <1>3, <2>1, <2>2, <2>3
<1>5. ASSUME Wins(t)  PROVE Has(t, i)' <=> Has(t, i) \/ Registers(Now(t).obj, f)
  <2>1. Has(t, i)' <=> Contains(Body(Now(t).obj), i) \/ Contains(Rest(t), i)
    BY <1>5, Contents
  <2>2. i # Now(t)
    BY <1>1, <1>5 DEF Wins
  <2> QED  BY <1>3, <2>1, <2>2 DEF Registers, i
<1>6. ASSUME Now(t).op # "push", ~Wins(t)  PROVE Has(t, i)' <=> Has(t, i)
  <2>1. i # Now(t)
    BY <1>1, <1>6
  <2>2. CASE Drops(t)
    BY <1>3, <2>1, <2>2, Contents
  <2>3. CASE Reloads(t)
    <3>1. PICK op \in {"impl", "cas", "spin"} :
              \A j : Has(t, j)' <=> j = I(op, Now(t).obj) \/ Contains(Rest(t), j)
      BY <2>3, Contents
    <3>2. i # I(op, Now(t).obj)
      BY <1>1 DEF I
    <3> QED  BY <1>3, <2>1, <3>1, <3>2
  <2>4. CASE Leaves(t)
    <3>1. Now(t).op \in {"find", "test"} /\ (Has(t, i)' => i.op = "unlock")
      BY <2>4, Contents
    <3>2. ~ContainsOp(Rest(t), "push")
      BY <1>1, <3>1 DEF HeadFacts, Now, Rest, Once
    <3>3. ~Contains(Rest(t), i)
      BY <1>1, <3>2 DEF Contains, ContainsOp
    <3> QED  BY <1>1, <1>3, <2>1, <3>1, <3>3
  <2> QED  BY <1>6, <2>2, <2>3, <2>4, StepFacts
<1> QED  BY <1>4, <1>5, <1>6 DEF i

(* Which counts of a silencer it has still to make.                         *)
LEMMA CountsKept ==
    ASSUME IInv, NEW t \in Threads, Busy(t), Effect(t), NEW x \in {"++", "--"}
    PROVE  /\ Now(t).op \in {"++", "--"} => (HasOp(t, x)' <=> ContainsOp(Rest(t), x))
           /\ Now(t).op \notin {"++", "--"} => (HasOp(t, x)' <=> HasOp(t, x))
<1>1. HeadFacts(code[t], made, Holds(t), Missing(t))
  BY StepFacts
<1>2. HasOp(t, x) <=> x = Now(t).op \/ ContainsOp(Rest(t), x)
  BY Contents
<1>3. CASE Drops(t)
  BY <1>2, <1>3, Contents
<1>4. CASE Reloads(t)
  <2>1. PICK op \in {"impl", "cas", "spin"} :
            /\ Now(t).op \in {"once", "impl", "cas"}
            /\ \A y : HasOp(t, y)' <=> y = op \/ ContainsOp(Rest(t), y)
    BY <1>4, Contents
  <2> QED  BY <1>2, <2>1
<1>5. CASE Wins(t)
  <2>1. HasOp(t, x)' <=> ContainsOp(Body(Now(t).obj), x) \/ ContainsOp(Rest(t), x)
    BY <1>5, Contents
  <2>2. ~ContainsOp(Body(Now(t).obj), x)
    BY <1>5, ClosuresSound DEF Wins, BodyFacts, ContainsOp
  <2> QED  BY <1>2, <1>5, <2>1, <2>2 DEF Wins
<1>6. CASE Leaves(t)
  <2>1. Now(t).op \in {"find", "test"} /\ (HasOp(t, x)' => x = "unlock")
    BY <1>6, Contents
  <2>2. ~ContainsOp(Rest(t), x)
    BY <1>1, <2>1 DEF HeadFacts, Now, Rest, Once
  <2> QED  BY <1>2, <2>1, <2>2
<1> QED  BY <1>3, <1>4, <1>5, <1>6, StepFacts

-----------------------------------------------------------------------------
(* The parts of the invariant, one by one.                                  *)

(* Only a thread that saw the map empty, under the lock it still holds, registers. *)
LEMMA RegisteredOnceKept ==
    ASSUME IInv, NEW t \in Threads, Busy(t), Effect(t)
    PROVE  RegisteredOnce'
<1>1. HeadFacts(code[t], made, Holds(t), Missing(t)) /\ RegisteredOnce
  BY StepFacts DEF IInv
<1>2. Now(t).op = "register" => type_map_ = 0
  BY <1>1 DEF HeadFacts, Now, Missing
<1> QED  BY <1>1, <1>2 DEF Effect, Same, RegisteredOnce

(* A once word is DONE only when the objects behind it exist. *)
LEMMA ReadyKept ==
    ASSUME IInv, NEW t \in Threads, Busy(t), Effect(t), stage' = stage
    PROVE  Ready'
<1>1. /\ HeadFacts(code[t], made, Holds(t), Missing(t)) /\ made \subseteq made'
      /\ once \in [Onces -> {"UNINITIALIZED", "EXECUTING_CLOSURE", "DONE"}]
      /\ \A o \in Onces : once[o] # "UNINITIALIZED" => once'[o] # "UNINITIALIZED"
      /\ Ready
  BY StepFacts DEF IInv
<1>2. ASSUME stage' # "shutdown", NEW o \in Onces, once'[o] = "DONE"
      PROVE  Promised[o] \subseteq made'
  <2>1. CASE once[o] = "DONE"
    BY <1>1, <1>2, <2>1 DEF Ready
  <2>2. CASE once[o] # "DONE"
    <3>1. Now(t).op = "store" /\ Now(t).obj = o
      BY <1>1, <1>2, <2>2 DEF Effect, Same, Wins
    <3> QED  BY <1>1, <3>1 DEF HeadFacts, Needs, Now
  <2> QED  BY <2>1, <2>2
<1>3. ASSUME NEW u \in Threads, NEW o \in Onces,
             Has(u, I("spin", o))' \/ Has(u, I("store", o))'
      PROVE  once'[o] # "UNINITIALIZED"
  <2>1. CASE Has(u, I("spin", o)) \/ Has(u, I("store", o))
    BY <1>1, <2>1 DEF Ready
  <2>2. CASE ~(Has(u, I("spin", o)) \/ Has(u, I("store", o)))
    <3>1. u = t
      BY <1>3, <2>2, OthersContents
    <3>2. ~Contains(Rest(t), I("spin", o)) /\ ~Contains(Rest(t), I("store", o))
      BY <2>2, <3>1, Contents
    <3>3. ~Drops(t)
      BY <1>3, <3>1, <3>2, Contents
    <3>4. CASE Reloads(t)
      <4>1. PICK op \in {"impl", "cas", "spin"} :
                /\ Now(t).obj \in Onces
                /\ op = "spin" => once[Now(t).obj] # "UNINITIALIZED"
                /\ \A i : Has(t, i)' <=> i = I(op, Now(t).obj) \/ Contains(Rest(t), i)
        BY <3>4, Contents
      <4>2. I("spin", o) = I(op, Now(t).obj) \/ I("store", o) = I(op, Now(t).obj)
        BY <1>3, <3>1, <3>2, <4>1
      <4>3. op = "spin" /\ o = Now(t).obj
        BY <4>2 DEF I
      <4> QED  BY <1>1, <4>1, <4>3
    <3>5. CASE Wins(t)
      <4>1. Now(t).obj \in Onces /\ once' = [once EXCEPT ![Now(t).obj] = "EXECUTING_CLOSURE"]
        BY <3>5 DEF Wins
      <4>2. \/ Contains(Body(Now(t).obj), I("spin", o))
            \/ Contains(Body(Now(t).obj), I("store", o))
        BY <1>3, <3>1, <3>2, <3>5, Contents
      <4>3. o = Now(t).obj
        <5> DEFINE b == Body(Now(t).obj)
        <5>1. \A k \in 1 .. Len(b) : /\ b[k].op # "spin"
                                     /\ b[k].op = "store" => b[k] = I("store", Now(t).obj)
          BY <4>1, ClosuresSound DEF BodyFacts
        <5> HIDE DEF b
        <5>2. PICK k \in 1 .. Len(b) : b[k] = I("spin", o) \/ b[k] = I("store", o)
          BY <4>2 DEF Contains, b
        <5> QED  BY <5>1, <5>2 DEF I
      <4> QED  BY <1>1, <4>1, <4>3
    <3>6. CASE Leaves(t)
      BY <1>3, <3>1, <3>6, Contents DEF I
    <3> QED  BY <3>3, <3>4, <3>5, <3>6, StepFacts
  <2> QED  BY <2>1, <2>2
<1> QED  BY <1>2, <1>3 DEF Ready

(* A deleter is registered, or some one thread has still to register it. *)
LEMMA DeletersKept ==
    ASSUME IInv, NEW t \in Threads, Busy(t), Effect(t)
    PROVE  Deleters'
<1>1. /\ Deleters /\ shutdown_functions \in Seq(Objects) /\ made \subseteq Objects
      /\ HeadFacts(code[t], made, Holds(t), Missing(t))
      /\ once \in [Onces -> {"UNINITIALIZED", "EXECUTING_CLOSURE", "DONE"}]
      /\ \A o \in Onces : once[o] # "UNINITIALIZED" => once'[o] # "UNINITIALIZED"
  BY StepFacts DEF IInv, Typed, TypeOK
<1> DEFINE L == ToSet(shutdown_functions)
           P(u, f) == Has(u, I("push", f))
<1>2. /\ IsInjective(shutdown_functions)
      /\ \A f \in Objects, u \in Threads : P(u, f) => f \notin L
      /\ \A f \in Objects, o \in Onces : Registers(o, f) /\ once[o] = "UNINITIALIZED" =>
             f \notin L /\ \A u \in Threads : ~P(u, f)
      /\ \A u, v \in Threads, f \in Objects : P(u, f) /\ P(v, f) => u = v
      /\ \A x \in made \ Unregistered : x \in L \/ \E u \in Threads : P(u, x)
  BY <1>1 DEF Deleters
<1>3. \A u \in Threads, f \in Objects : u # t => (P(u, f)' <=> P(u, f))
  BY OthersContents
<1>4. SUFFICES /\ IsInjective(shutdown_functions')
               /\ \A f \in Objects, u \in Threads : P(u, f)' => f \notin L'
               /\ \A f \in Objects, o \in Onces : Registers(o, f) /\ once'[o] = "UNINITIALIZED" =>
                      f \notin L' /\ \A u \in Threads : ~P(u, f)'
               /\ \A u, v \in Threads, f \in Objects : P(u, f)' /\ P(v, f)' => u = v
               /\ \A x \in made' \ Unregistered : x \in L' \/ \E u \in Threads : P(u, x)'
  BY DEF Deleters
<1>5. CASE Now(t).op = "push"
  <2> DEFINE g == Now(t).obj
  <2>1. /\ shutdown_functions' = Append(shutdown_functions, g) /\ UNCHANGED <<once, made>>
        /\ g \in Objects /\ P(t, g)
    <3>1. shutdown_functions' = Append(shutdown_functions, g) /\ UNCHANGED <<once, made>>
      BY <1>5 DEF Effect, Loads, Reloads, Wins, Leaves
    <3>2. g \in Objects /\ Now(t) = I("push", g)
      BY <1>5, AtFacts DEF IInv
    <3> QED  BY <3>1, <3>2, Contents
  <2>2. \A u \in Threads, f \in Objects : P(u, f)' <=> P(u, f) /\ f # g
    <3> TAKE u \in Threads, f \in Objects
    <3>1. CASE u = t
      BY <1>5, <3>1, PushesKept
    <3>2. CASE u # t
      BY <1>2, <1>3, <2>1, <3>2
    <3> QED  BY <3>1, <3>2
  <2> HIDE DEF P, g
  <2>3. /\ Len(shutdown_functions) \in Nat
        /\ Len(shutdown_functions') = Len(shutdown_functions) + 1
        /\ \A k \in 1 .. Len(shutdown_functions) : shutdown_functions'[k] = shutdown_functions[k]
        /\ shutdown_functions'[Len(shutdown_functions) + 1] = g
        /\ DOMAIN shutdown_functions = 1 .. Len(shutdown_functions)
        /\ DOMAIN shutdown_functions' = 1 .. Len(shutdown_functions')
    BY <1>1, <2>1, AppendProperties, LenProperties
  <2>4. g \notin L /\ \A f \in Objects : f \in L' <=> f \in L \/ f = g
    <3>1. g \notin L
      BY <1>2, <2>1
    <3>2. \A k \in 1 .. Len(shutdown_functions') :
              \/ k \in 1 .. Len(shutdown_functions)
              \/ k = Len(shutdown_functions) + 1
      BY <2>3
    <3>3. 1 .. Len(shutdown_functions) \subseteq 1 .. Len(shutdown_functions')
          /\ Len(shutdown_functions) + 1 \in 1 .. Len(shutdown_functions')
      BY <2>3
    <3> QED  BY <2>3, <3>1, <3>2, <3>3, Zenon DEF ToSet
  <2>5. IsInjective(shutdown_functions')
    <3>1. \A k \in 1 .. Len(shutdown_functions) : shutdown_functions[k] # g
      BY <2>3, <2>4 DEF ToSet
    <3>2. \A j, k \in 1 .. Len(shutdown_functions) :
              shutdown_functions[j] = shutdown_functions[k] => j = k
      BY <1>2, <2>3 DEF IsInjective
    <3>3. \A j, k \in 1 .. (Len(shutdown_functions) + 1) :
              shutdown_functions'[j] = shutdown_functions'[k] => j = k
      BY <2>3, <3>1, <3>2
    <3> QED  BY <2>3, <3>3 DEF IsInjective
  <2> HIDE DEF L
  <2> QED  BY <1>1, <1>2, <2>1, <2>2, <2>4, <2>5
<1>6. CASE Wins(t)
  <2> DEFINE o == Now(t).obj
  <2>1. /\ o \in Onces /\ once[o] = "UNINITIALIZED" /\ once'[o] = "EXECUTING_CLOSURE"
        /\ UNCHANGED <<made, shutdown_functions>>
    <3>1. /\ Now(t).op = "cas" /\ o \in Onces /\ once[o] = "UNINITIALIZED"
          /\ once' = [once EXCEPT ![o] = "EXECUTING_CLOSURE"]
      BY <1>6 DEF Wins
    <3>2. UNCHANGED <<made, shutdown_functions>>
      BY <3>1 DEF Effect, Same
    <3> QED  BY <1>1, <3>1, <3>2
  <2>2. \A u \in Threads, f \in Objects :
            P(u, f)' <=> P(u, f) \/ (u = t /\ Registers(o, f))
    BY <1>3, <1>6, PushesKept
  <2>3. \A p \in Onces, f \in Objects : Registers(p, f) /\ Registers(o, f) => p = o
    BY <2>1, ClosuresSound
  <2> HIDE DEF P, o, L
  <2>4. L' = L
    BY <2>1 DEF L
  <2> QED  BY <1>1, <1>2, <2>1, <2>2, <2>3, <2>4
<1>7. CASE Now(t).op # "push" /\ ~Wins(t)
  <2>1. shutdown_functions' = shutdown_functions
    BY <1>7 DEF Effect, Same
  <2>2. \A u \in Threads, f \in Objects : P(u, f)' <=> P(u, f)
    BY <1>3, <1>7, PushesKept
  <2>3. \A x \in made' \ Unregistered : x \in Objects /\ (x \in made \/ P(t, x))
    <3>1. CASE made' = made
      BY <1>1, <3>1
    <3>2. CASE Now(t).op = "new" /\ made' = made \cup {Now(t).obj}
      <4>1. Now(t).obj \notin Unregistered => P(t, Now(t).obj)
        BY <1>1, <3>2, Contents DEF HeadFacts, Now, Rest
      <4>2. Now(t).obj \in Objects
        BY <3>2, AtFacts DEF IInv
      <4> QED  BY <1>1, <3>2, <4>1, <4>2
    <3> QED  BY <1>7, <3>1, <3>2 DEF Effect, Same
  <2> HIDE DEF P, L
  <2>4. L' = L
    BY <2>1 DEF L
  <2> QED  BY <1>1, <1>2, <2>1, <2>2, <2>3, <2>4
<1> QED  BY <1>5, <1>6, <1>7

(* The count is the number of silencers that live. *)
LEMMA SilencersKept ==
    ASSUME IInv, NEW t \in Threads, Busy(t), Effect(t)
    PROVE  Silencers' /\ log_silencer_count_' \in Nat
<1>1. Silencers /\ HeadFacts(code[t], made, Holds(t), Missing(t))
  BY StepFacts DEF IInv
<1>2. IsFiniteSet(Silencing) /\ Cardinality(Silencing) \in Nat
  <2>1. Silencing \subseteq Threads
    BY DEF Silencing
  <2> QED  BY <2>1, LibraryAssumption, FS_Subset, FS_CardinalityType
<1>3. \A u \in Threads : u # t => (u \in Silencing' <=> u \in Silencing)
  BY OthersContents DEF Silencing
<1>4. Silencing \subseteq Threads /\ Silencing' \subseteq Threads
  BY DEF Silencing
<1>5. CASE Now(t).op = "++"
  <2>1. log_silencer_count_' = log_silencer_count_ + 1
    BY <1>5 DEF Effect, Loads, Reloads, Wins, Leaves
  <2>2. HasOp(t, "++") /\ ContainsOp(Rest(t), "--") /\ ~ContainsOp(Rest(t), "++")
    BY <1>1, <1>5, Contents DEF HeadFacts, Now, Rest, HasOp
  <2>3. HasOp(t, "--")' /\ ~HasOp(t, "++")'
    BY <1>5, <2>2, CountsKept
  <2>4. t \notin Silencing /\ t \in Silencing'
    BY <2>2, <2>3 DEF Silencing
  <2>5. Silencing' = Silencing \cup {t}
    BY <1>3, <1>4, <2>4
  <2>6. Cardinality(Silencing') = Cardinality(Silencing) + 1
    BY <1>2, <2>4, <2>5, FS_AddElement
  <2> QED  BY <1>1, <1>2, <2>1, <2>6 DEF Silencers
<1>6. CASE Now(t).op = "--"
  <2>1. log_silencer_count_' = log_silencer_count_ - 1
    BY <1>6 DEF Effect, Loads, Reloads, Wins, Leaves
  <2>2. HasOp(t, "--") /\ ~HasOp(t, "++") /\ ~ContainsOp(Rest(t), "--")
    BY <1>1, <1>6, Contents DEF HeadFacts, Now, Rest, HasOp
  <2>3. ~HasOp(t, "--")'
    BY <1>6, <2>2, CountsKept
  <2>4. t \in Silencing /\ t \notin Silencing'
    BY <2>2, <2>3 DEF Silencing
  <2>5. Silencing' = Silencing \ {t}
    BY <1>3, <1>4, <2>4
  <2>6. /\ IsFiniteSet(Silencing') /\ Cardinality(Silencing') = Cardinality(Silencing) - 1
    BY <1>2, <2>4, <2>5, FS_RemoveElement
  <2>7. Cardinality(Silencing') \in Nat
    BY <2>6, FS_CardinalityType
  <2> QED  BY <1>1, <1>2, <2>1, <2>6, <2>7 DEF Silencers
<1>7. CASE Now(t).op \notin {"++", "--"}
  <2>1. log_silencer_count_' = log_silencer_count_
    BY <1>7 DEF Effect, Same
  <2>2. t \in Silencing' <=> t \in Silencing
    BY <1>7, CountsKept DEF Silencing
  <2>3. Silencing' = Silencing
    BY <1>3, <1>4, <2>2
  <2> QED  BY <1>1, <1>2, <2>1, <2>3 DEF Silencers
<1> QED  BY <1>5, <1>6, <1>7

(* The stage of the program goes with what has been made by it. *)
LEMMA StagesKept ==
    ASSUME IInv, NEW t \in Threads, Busy(t), Effect(t), stage' = stage
    PROVE  Stages'
<1>1. /\ Stages /\ made \subseteq made' /\ HeadFacts(code[t], made, Holds(t), Missing(t))
      /\ \A u \in Threads : u # t => code'[u] = code[u]
      /\ code \in [Threads -> Seq(Instructions)] /\ Rest(t) \in Seq(Instructions)
      /\ code[t] \in Seq(Instructions)
  BY StepFacts, AtFacts DEF IInv, Typed
<1>2. stage # "shutdown"
  BY <1>1 DEF Stages, Busy
<1>3. CASE stage = "main"
  BY <1>1, <1>3 DEF Stages
<1>4. CASE stage = "static"
  <2>1. t = Main
    BY <1>1, <1>4 DEF Stages, Busy
  <2>2. \A u \in Threads : u # Main => code'[u] = << >>
    BY <1>1, <1>4, <2>1 DEF Stages
  <2>3. ~HasOp(t, "find") /\ ~HasOp(t, "test")
    BY <1>1, <1>4, <2>1 DEF Stages
  <2>4. ~HasOp(t, "find")' /\ ~HasOp(t, "test")'
    <3>1. CASE Drops(t)
      BY <2>3, <3>1, Contents
    <3>2. CASE Reloads(t)
      BY <2>3, <3>2, Contents
    <3>3. CASE Wins(t)
      <4>1. ~ContainsOp(Body(Now(t).obj), "find") /\ ~ContainsOp(Body(Now(t).obj), "test")
        BY <3>3, ClosuresSound DEF Wins, BodyFacts, ContainsOp
      <4> QED  BY <2>3, <3>3, <4>1, Contents
    <3>4. CASE Leaves(t)
      BY <3>4, Contents
    <3> QED  BY <3>1, <3>2, <3>3, <3>4, StepFacts
  <2> DEFINE Provides(s, x) == \E k \in 1 .. Len(s) : x \in Adds(s[k])
  <2>5. ASSUME NEW x \in {"shutdown_functions", "default_instance_"}
        PROVE  x \in made' \/ Provides(code'[t], x)
    <3>1. \A s : Provides(s, x) <=> \E i : Contains(s, i) /\ x \in Adds(i)
      BY DEF Contains
    <3> HIDE DEF Provides
    <3>2. x \in made \/ Provides(code[t], x)
      BY <1>1, <1>4, <2>1 DEF Stages, Provides
    <3>3. x \in made \/ x \in Adds(Now(t)) \/ Provides(Rest(t), x)
      BY <3>1, <3>2, Contents DEF Has
    <3>4. Drops(t) \/ Reloads(t) \/ Wins(t)
      BY <2>3, StepFacts, Contents
    <3>5. Provides(Rest(t), x) => Provides(code'[t], x)
      BY <3>1, <3>4, Contents DEF Has
    <3>6. ASSUME x \in Adds(Now(t))  PROVE x \in made' \/ Provides(code'[t], x)
      <4>1. CASE ~Reloads(t) /\ ~Wins(t)
        <5>1. ~Leaves(t) /\ Now(t).op \in Loads \cup {"new"}
          BY <3>6 DEF Leaves, Adds, Loads
        <5>2. \/ made' = made /\ Now(t).op \in Loads /\ Promised[Now(t).obj] \subseteq made
              \/ Now(t).op = "new" /\ made' = made \cup {Now(t).obj}
          BY <4>1, <5>1 DEF Effect, Loads, Same
        <5>3. x \in made'
          BY <3>6, <5>2 DEF Adds, Loads
        <5> QED  BY <5>3
      <4>2. CASE Reloads(t)
        <5>1. PICK op \in {"impl", "cas", "spin"} :
                  /\ Now(t).op \in {"once", "impl", "cas"}
                  /\ \A i : Has(t, i)' <=> i = I(op, Now(t).obj) \/ Contains(Rest(t), i)
          BY <4>2, Contents
        <5>2. Contains(code'[t], I(op, Now(t).obj))
          BY <5>1 DEF Has
        <5>3. x \in Adds(I(op, Now(t).obj))
          BY <3>6, <5>1 DEF Adds, I, Loads
        <5> QED  BY <3>1, <5>2, <5>3
      <4>3. CASE Wins(t)
        <5>1. Now(t).op = "cas" /\ BodyFacts(Now(t).obj)
          BY <4>3, ClosuresSound DEF Wins
        <5>2. x \in Promised[Now(t).obj]
          BY <3>6, <5>1 DEF Adds, Loads
        <5>3. Provides(Body(Now(t).obj), x)
          BY <5>1, <5>2 DEF BodyFacts, Provides
        <5> QED  BY <3>1, <4>3, <5>3, Contents DEF Has
      <4> QED  BY <3>4, <4>1, <4>2, <4>3
    <3> QED  BY <1>1, <3>3, <3>5, <3>6
  <2> QED  BY <1>4, <2>1, <2>2, <2>4, <2>5 DEF Stages
<1> QED  BY <1>2, <1>3, <1>4 DEF IInv, Typed, TypeOK

(* The types of the state. *)
LEMMA TypedKept ==
    ASSUME IInv, NEW t \in Threads, Busy(t), Effect(t), UNCHANGED <<stage, calls>>
    PROVE  Typed'
<1>1. /\ Typed /\ Programs' /\ log_silencer_count_' \in Nat
  BY ProgramsKept, SilencersKept DEF IInv
<1>2. /\ Now(t).op \in {"lock", "unlock"} => Now(t).obj \in Mutexes
      /\ Now(t).op \in {"new", "push"} => Now(t).obj \in Objects
  BY <1>1, AtFacts
<1>3. once' \in [Onces -> {"UNINITIALIZED", "EXECUTING_CLOSURE", "DONE"}]
  BY <1>1 DEF Typed, TypeOK, Effect, Same, Wins
<1>4. held' \in [Mutexes -> Threads \cup {NoThread}]
  BY <1>1, <1>2 DEF Typed, TypeOK, Effect, Same
<1>5. made' \subseteq Objects
  BY <1>1, <1>2 DEF Typed, TypeOK, Effect, Same
<1>6. shutdown_functions' \in Seq(Objects)
  <2>1. CASE shutdown_functions' = shutdown_functions
    BY <1>1, <2>1 DEF Typed
  <2>2. CASE Now(t).op = "push" /\ shutdown_functions' = Append(shutdown_functions, Now(t).obj)
    BY <1>1, <1>2, <2>2, AppendProperties DEF Typed
  <2> QED  BY <2>1, <2>2 DEF Effect, Same
<1>7. ToSet(shutdown_functions') \subseteq Objects
  BY <1>6, ElementOfSeq DEF ToSet
<1>8. type_map_' \in Nat
  BY <1>1 DEF Typed, TypeOK, Effect, Same
<1>9. code' \in [Threads -> Seq(Instructions)]
  <2>1. \A u \in Threads : code'[u] \in Seq(Instructions)
    BY <1>1 DEF Programs, Sound
  <2>2. code' = [u \in Threads |-> code'[u]]
    BY <1>1, StepFacts DEF Typed, Drops, Reloads, Wins, Leaves
  <2> QED  BY <2>1, <2>2
<1> QED
  BY <1>1, <1>3, <1>4, <1>5, <1>6, <1>7, <1>8, <1>9 DEF Typed, TypeOK

-----------------------------------------------------------------------------
(* The invariant holds.                                                     *)

(* A thread that has returned has nothing left to execute. *)
LEMMA NothingLeft ==
    ASSUME NEW t \in Threads, code[t] = << >>
    PROVE  (\A i : ~Has(t, i)) /\ (\A x : ~HasOp(t, x))
<1>1. Len(<< >>) = 0
  OBVIOUS
<1> QED  BY <1>1 DEF Has, HasOp, Contains, ContainsOp

(* The same of the next state. *)
LEMMA NothingLeftPrime ==
    ASSUME NEW t \in Threads, code'[t] = << >>
    PROVE  (\A i : ~Has(t, i)') /\ (\A x : ~HasOp(t, x)')
<1>1. Len(<< >>) = 0
  OBVIOUS
<1> QED  BY <1>1 DEF Has, HasOp, Contains, ContainsOp

(* The static initializers are a sound program, run by one thread. *)
LEMMA InitIInv == Init => IInv
<1> SUFFICES ASSUME Init  PROVE IInv
  OBVIOUS
<1>1. /\ code = [t \in Threads |-> IF t = Main THEN protobuf_AddDesc ELSE << >>]
      /\ made = {} /\ shutdown_functions = << >> /\ stage = "static" /\ type_map_ = 0
      /\ log_silencer_count_ = 0 /\ held = [m \in Mutexes |-> NoThread]
      /\ once = [o \in Onces |-> "UNINITIALIZED"] /\ calls = [t \in Threads |-> 0]
      /\ Main \in Threads /\ NoThread \notin Threads
  BY LibraryAssumption DEF Init
<1>2. code[Main] = protobuf_AddDesc /\ \A t \in Threads : t # Main => code[t] = << >>
  BY <1>1
<1>3. /\ Sound(protobuf_AddDesc, {}, {}, FALSE)
      /\ \A k \in 1 .. Len(protobuf_AddDesc) :
             protobuf_AddDesc[k].op \notin {"spin", "store", "find", "test", "++", "--"}
      /\ \A f : Contains(protobuf_AddDesc, I("push", f)) => f = "default_instance_"
      /\ \A x \in {"shutdown_functions", "default_instance_"} :
             \E k \in 1 .. Len(protobuf_AddDesc) : x \in Adds(protobuf_AddDesc[k])
  BY protobuf_AddDescFacts
<1>4. \A t \in Threads : t # Main => (\A i : ~Has(t, i)) /\ (\A x : ~HasOp(t, x))
  BY <1>2, NothingLeft
<1>5. \A t \in Threads, x \in {"find", "test", "++", "--"} : ~HasOp(t, x)
  BY <1>2, <1>3, <1>4 DEF HasOp, ContainsOp
<1>6. \A t \in Threads : \A f : Has(t, I("push", f)) => t = Main /\ f = "default_instance_"
  BY <1>2, <1>3, <1>4 DEF Has
<1>7. \A t \in Threads : \A o : ~Has(t, I("spin", o)) /\ ~Has(t, I("store", o))
  BY <1>2, <1>3, <1>4 DEF Has, Contains, I
<1>8. ToSet(shutdown_functions) = {} /\ IsInjective(shutdown_functions)
  BY <1>1 DEF ToSet, IsInjective
<1>9. Typed
  <2>1. TypeOK
    BY <1>1, <1>8, LibraryAssumption DEF TypeOK
  <2>2. code \in [Threads -> Seq(Instructions)]
    BY <1>1, <1>3 DEF Sound
  <2> QED  BY <1>1, <2>1, <2>2 DEF Typed
<1>10. Programs
  <2> SUFFICES ASSUME NEW t \in Threads  PROVE Sound(code[t], made, Holds(t), Missing(t))
    BY DEF Programs
  <2>1. Missing(t) \in BOOLEAN /\ {} \subseteq made /\ {} \subseteq Holds(t)
    BY DEF Missing
  <2>2. CASE t = Main
    BY <1>2, <1>3, <2>1, <2>2, SoundFresh
  <2>3. CASE t # Main
    BY <1>2, <2>1, <2>3, SoundNothing
  <2> QED  BY <2>2, <2>3
<1>11. Stages
  BY <1>1, <1>2, <1>3, <1>5 DEF Stages
<1>12. Ready
  BY <1>1, <1>7 DEF Ready
<1>13. RegisteredOnce
  BY <1>1 DEF RegisteredOnce
<1>14. Deleters
  BY <1>1, <1>6, <1>8, ClosuresSound DEF Deleters
<1>15. Silencers
  <2>1. Silencing = {}
    BY <1>5 DEF Silencing
  <2> QED  BY <1>1, <2>1, FS_EmptySet DEF Silencers
<1> QED  BY <1>9, <1>10, <1>11, <1>12, <1>13, <1>14, <1>15 DEF IInv

(* An instruction of any thread keeps the invariant. *)
LEMMA ExecuteIInv ==
    ASSUME IInv, NEW t \in Threads, Execute(t)
    PROVE  IInv'
<1>1. Busy(t) /\ Effect(t) /\ UNCHANGED <<stage, calls>>
  BY Effects
<1> QED
  BY <1>1, TypedKept, ProgramsKept, StagesKept, ReadyKept, RegisteredOnceKept, DeletersKept,
     SilencersKept DEF IInv

(* A call of the library keeps it: the function called is sound. *)
LEMMA CallIInv ==
    ASSUME IInv, NEW t \in Threads, Call(t)
    PROVE  IInv'
<1>1. PICK f \in Entries : code' = [code EXCEPT ![t] = f]
  BY DEF Call
<1>2. /\ stage = "main" /\ stage' = "main" /\ code[t] = << >> /\ calls[t] < MaxCalls
      /\ calls' = [calls EXCEPT ![t] = calls[t] + 1]
      /\ UNCHANGED <<once, held, made, shutdown_functions, type_map_, log_silencer_count_>>
  BY DEF Call, shared
<1>3. /\ Sound(f, {"default_instance_"}, {}, FALSE)
      /\ \A k \in 1 .. Len(f) : f[k].op \notin {"spin", "store", "push"}
      /\ ContainsOp(f, "--") => ContainsOp(f, "++")
  BY EntriesSound DEF EntryFacts
<1>4. Typed /\ Programs /\ Stages /\ Ready /\ RegisteredOnce /\ Deleters /\ Silencers
  BY DEF IInv
<1>5. code'[t] = f /\ \A u \in Threads : u # t => code'[u] = code[u]
  BY <1>1, <1>4 DEF Typed
<1>6. \A u \in Threads : u # t =>
          (\A i : Has(u, i)' <=> Has(u, i)) /\ (\A x : HasOp(u, x)' <=> HasOp(u, x))
  BY <1>5 DEF Has, HasOp
<1>7. \A i : i.op \in {"spin", "store", "push"} => ~Has(t, i)' /\ ~Has(t, i)
  BY <1>2, <1>3, <1>5, NothingLeft DEF Has, Contains
<1>8. \A u \in Threads : \A g : (Has(u, I("push", g))' <=> Has(u, I("push", g)))
  BY <1>6, <1>7 DEF I
<1>9. Typed'
  <2>1. code' \in [Threads -> Seq(Instructions)]
    BY <1>1, <1>3, <1>4 DEF Typed, Sound
  <2>2. calls' \in [Threads -> 0 .. MaxCalls]
    BY <1>2, <1>4, LibraryAssumption DEF Typed, TypeOK
  <2> QED  BY <1>2, <1>4, <2>1, <2>2 DEF Typed, TypeOK
<1>10. Programs'
  <2> SUFFICES ASSUME NEW u \in Threads  PROVE Sound(code[u], made, Holds(u), Missing(u))'
    BY DEF Programs
  <2>1. Holds(u)' = Holds(u) /\ Missing(u)' = Missing(u) /\ made' = made
    BY <1>2 DEF Holds, Missing
  <2>2. CASE u = t
    <3>1. {"default_instance_"} \subseteq made /\ {} \subseteq Holds(u) /\ Missing(u) \in BOOLEAN
      BY <1>2, <1>4 DEF Stages, Missing
    <3>2. Sound(f, made, Holds(u), Missing(u))
      BY <1>3, <3>1, SoundFresh
    <3> QED  BY <1>5, <2>1, <2>2, <3>2
  <2>3. CASE u # t
    BY <1>4, <1>5, <2>1, <2>3 DEF Programs
  <2> QED  BY <2>2, <2>3
<1>11. Stages'
  BY <1>2, <1>4 DEF Stages
<1>12. Ready'
  <2>1. \A u \in Threads, o \in Onces : Has(u, I("spin", o))' \/ Has(u, I("store", o))' =>
            Has(u, I("spin", o)) \/ Has(u, I("store", o))
    BY <1>6, <1>7 DEF I
  <2> QED  BY <1>2, <1>4, <2>1 DEF Ready
<1>13. RegisteredOnce'
  BY <1>2, <1>4 DEF RegisteredOnce
<1>14. Deleters'
  BY <1>2, <1>4, <1>8 DEF Deleters
<1>15. Silencers'
  <2>1. t \notin Silencing /\ t \notin Silencing'
    BY <1>2, <1>3, <1>5, NothingLeft DEF Silencing, HasOp
  <2>2. Silencing' = Silencing
    BY <1>6, <2>1 DEF Silencing
  <2> QED  BY <1>2, <1>4, <2>2 DEF Silencers
<1> QED  BY <1>9, <1>10, <1>11, <1>12, <1>13, <1>14, <1>15 DEF IInv

(* The return of the static initializers keeps it. *)
LEMMA EnterMainIInv ==
    ASSUME IInv, EnterMain
    PROVE  IInv'
<1>1. /\ stage = "static" /\ code[Main] = << >> /\ stage' = "main"
      /\ UNCHANGED <<once, held, made, shutdown_functions, type_map_, log_silencer_count_,
                     code, calls>>
  BY DEF EnterMain, shared
<1>2. Typed /\ Programs /\ Stages /\ Ready /\ RegisteredOnce /\ Deleters /\ Silencers
  BY DEF IInv
<1>3. {"shutdown_functions", "default_instance_"} \subseteq made
  <2>1. Len(<< >>) = 0
    OBVIOUS
  <2> QED  BY <1>1, <1>2, <2>1 DEF Stages
<1>4. Typed' /\ Programs'
  BY <1>1, <1>2 DEF Typed, TypeOK, Programs, Holds, Missing
<1>5. Stages'
  BY <1>1, <1>3 DEF Stages
<1>6. Ready' /\ RegisteredOnce'
  BY <1>1, <1>2 DEF Ready, RegisteredOnce, Has
<1>7. Deleters' /\ Silencers'
  BY <1>1, <1>2 DEF Deleters, Silencers, Silencing, Has, HasOp
<1> QED  BY <1>4, <1>5, <1>6, <1>7 DEF IInv

(* Every object that exists is deleted: its deleter is registered, for      *)
(* nobody has one left to register.                                         *)
LEMMA ShutdownDeletesAll ==
    ASSUME IInv, ShutdownProtobufLibrary
    PROVE  made' = {} /\ (shutdown_functions' = << >> \/ shutdown_functions' = shutdown_functions)
<1>1. /\ Typed /\ Stages /\ Deleters /\ stage # "static"
      /\ \A t \in Threads : code[t] = << >>
  BY DEF IInv, ShutdownProtobufLibrary
<1>2. CASE "shutdown_functions" \notin made
  <2>1. stage = "shutdown"
    BY <1>1, <1>2 DEF Stages, Typed, TypeOK
  <2> QED  BY <1>1, <1>2, <2>1 DEF Stages, ShutdownProtobufLibrary
<1>3. CASE "shutdown_functions" \in made
  <2> DEFINE L == ToSet(shutdown_functions)
             D == UNION {Deletes(f) : f \in L}
  <2>1. /\ made' = made \ (D \cup {"shutdown_functions", "shutdown_functions_mutex"})
        /\ shutdown_functions' = << >>
    BY <1>3 DEF ShutdownProtobufLibrary
  <2>2. stage = "main" /\ "default_instance_" \in made
    BY <1>1, <1>3 DEF Stages, Typed, TypeOK
  <2>3. \A x \in made \ Unregistered : x \in L
    BY <1>1, NothingLeft DEF Deleters
  <2>4. \A x \in L : x \in D
    BY DEF Deletes
  <2>5. "default_instance_" \in L /\ "reflection_" \in D
    <3>1. "default_instance_" \in L
      BY <2>2, <2>3 DEF Unregistered, shutdownMutex
    <3> QED  BY <3>1 DEF Deletes
  <2>6. \A x \in made : x \in D \cup {"shutdown_functions", "shutdown_functions_mutex"}
    BY <2>3, <2>4, <2>5 DEF Unregistered, shutdownMutex
  <2> QED  BY <2>1, <2>6
<1> QED  BY <1>2, <1>3

(* The shutdown keeps it. *)
LEMMA ShutdownIInv ==
    ASSUME IInv, ShutdownProtobufLibrary
    PROVE  IInv'
<1>1. /\ stage' = "shutdown" /\ \A t \in Threads : code'[t] = << >>
      /\ UNCHANGED <<once, held, type_map_, log_silencer_count_, code, calls>>
  BY DEF ShutdownProtobufLibrary
<1>2. Typed /\ Programs /\ Stages /\ Ready /\ RegisteredOnce /\ Deleters /\ Silencers
  BY DEF IInv
<1>3. /\ made' = {}
      /\ shutdown_functions' = << >> \/ shutdown_functions' = shutdown_functions
  BY ShutdownDeletesAll
<1>4. \A t \in Threads : (\A i : ~Has(t, i)') /\ (\A x : ~HasOp(t, x)')
  BY <1>1, NothingLeftPrime
<1>5. ToSet(<< >>) = {} /\ IsInjective(<< >>)
  BY DEF ToSet, IsInjective
<1>6. /\ shutdown_functions' \in Seq(Objects) /\ ToSet(shutdown_functions') \subseteq Objects
      /\ IsInjective(shutdown_functions')
      /\ ToSet(shutdown_functions') \subseteq ToSet(shutdown_functions)
  <2>1. CASE shutdown_functions' = << >>
    <3>1. << >> \in Seq(Objects)
      OBVIOUS
    <3> QED  BY <1>5, <2>1, <3>1
  <2>2. CASE shutdown_functions' = shutdown_functions
    BY <1>2, <2>2 DEF Typed, TypeOK, Deleters
  <2> QED  BY <1>3, <2>1, <2>2
<1>7. Typed'
  BY <1>1, <1>2, <1>3, <1>6 DEF Typed, TypeOK
<1>8. Programs'
  <2> SUFFICES ASSUME NEW t \in Threads  PROVE Sound(code'[t], made', Holds(t)', Missing(t)')
    BY DEF Programs
  <2>1. Missing(t)' \in BOOLEAN
    BY DEF Missing
  <2> QED  BY <1>1, <2>1, SoundNothing
<1>9. Stages' /\ RegisteredOnce'
  BY <1>1, <1>2, <1>3 DEF Stages, RegisteredOnce
<1>10. Ready'
  BY <1>1, <1>4 DEF Ready
<1>11. Deleters'
  BY <1>1, <1>2, <1>3, <1>4, <1>6 DEF Deleters
<1>12. Silencers'
  <2>1. \A t \in Threads : \A x : ~HasOp(t, x)
    BY <1>1, NothingLeft
  <2>2. Silencing' = {} /\ Silencing = {}
    BY <1>4, <2>1 DEF Silencing
  <2> QED  BY <1>1, <1>2, <2>2 DEF Silencers
<1> QED  BY <1>7, <1>8, <1>9, <1>10, <1>11, <1>12 DEF IInv

(* Every step keeps the invariant. *)
LEMMA NextIInv == IInv /\ [Next]_vars => IInv'
<1> SUFFICES ASSUME IInv, [Next]_vars  PROVE IInv'
  OBVIOUS
<1>1. CASE Next
  BY <1>1, ExecuteIInv, CallIInv, EnterMainIInv, ShutdownIInv DEF Next
<1>2. CASE UNCHANGED vars
  <2>1. UNCHANGED <<once, held, made, shutdown_functions, type_map_, log_silencer_count_,
                    stage, code, calls>>
    BY <1>2 DEF vars, shared
  <2>2. Typed' /\ Programs'
    BY <2>1 DEF IInv, Typed, TypeOK, Programs, Holds, Missing
  <2>3. Stages' /\ Ready' /\ RegisteredOnce'
    BY <2>1 DEF IInv, Stages, Ready, RegisteredOnce, Has, HasOp
  <2>4. Deleters' /\ Silencers'
    BY <2>1 DEF IInv, Deleters, Silencers, Silencing, Has, HasOp
  <2> QED  BY <2>2, <2>3, <2>4 DEF IInv
<1> QED  BY <1>1, <1>2

(* The invariant holds in every state. *)
LEMMA Invariance == Spec => []IInv
  BY InitIInv, NextIInv, PTL DEF Spec

-----------------------------------------------------------------------------
(* No thread accesses a singleton, a mutex or the vector of shutdown        *)
(* functions before the closure that makes it is done, whoever runs it: the *)
(* guarantee of GoogleOnceInit, for the whole chain of closures that need   *)
(* each other's objects, and up to the shutdown.                            *)
THEOREM ReturnedMeansMade == Spec => []NothingUsedBeforeMade
<1>1. IInv => NothingUsedBeforeMade
  <2> SUFFICES ASSUME IInv, NEW t \in Threads, Accesses(t)  PROVE Accessed(t) \in made
    BY DEF NothingUsedBeforeMade, IInv, Typed
  <2>1. Busy(t)
    BY DEF Accesses, Busy
  <2>2. HeadFacts(code[t], made, Holds(t), Missing(t))
    BY <2>1, SoundHead DEF IInv, Programs, Busy, Missing
  <2>3. Accessed(t) \in Needs(Head(code[t]))
    BY <2>1 DEF Accesses, Accessed, Runs, Obj, Needs, Busy
  <2> QED  BY <2>2, <2>3 DEF HeadFacts
<1> QED  BY <1>1, Invariance, PTL

(* The vector of shutdown functions, the type map, the pool's tables and    *)
(* the silencer count are never accessed by two threads at once: whoever    *)
(* accesses one holds its mutex, which a call of GoogleOnceInit on the way  *)
(* does not give up.                                                        *)
THEOREM AccessesExcluded == Spec => []RaceFree
<1>1. IInv => RaceFree
  <2> SUFFICES ASSUME IInv  PROVE RaceFree
    OBVIOUS
  <2>1. ASSUME NEW t \in Threads, NEW op, Runs(t, op)
        PROVE  Guards(Head(code[t])) \subseteq Holds(t) /\ Head(code[t]).op = op
    <3>1. HeadFacts(code[t], made, Holds(t), Missing(t))
      BY <2>1, SoundHead DEF IInv, Programs, Runs, Missing
    <3> QED  BY <2>1, <3>1 DEF HeadFacts, Runs
  <2>2. ASSUME NEW t \in Threads, NEW u \in Threads, NEW m, m \in Holds(t), m \in Holds(u)
        PROVE  t = u
    BY <2>2 DEF Holds
  <2>3. ASSUME NEW t \in Threads, NEW u \in Threads,
               NEW ops \in {{"push"}, {"find", "register"}, {"build"}, {"++", "--", "test"}},
               NEW op1 \in ops, NEW op2 \in ops, Runs(t, op1), Runs(u, op2)
        PROVE  t = u
    <3>1. PICK m : m \in Guards(Head(code[t])) /\ m \in Guards(Head(code[u]))
      BY <2>1, <2>3 DEF Guards
    <3> QED  BY <2>1, <2>2, <2>3, <3>1
  <2> QED  BY <2>3 DEF RaceFree
<1> QED  BY <1>1, Invariance, PTL

(* GetPrototype registers the types of the file once, though any number of  *)
(* threads may have missed them: the map is looked at again under the lock  *)
(* that the registration holds.                                             *)
THEOREM TypesRegisteredOnce == Spec => []RegisteredOnce
<1>1. IInv => RegisteredOnce
  BY DEF IInv
<1> QED  BY <1>1, Invariance, PTL

(* ShutdownProtobufLibrary deletes all that the closures made, and nothing  *)
(* twice.                                                                   *)
THEOREM AllDeletedOnce == Spec => []DeletedOnce
<1>1. IInv => DeletedOnce
  BY DEF IInv, DeletedOnce, Deleters, Stages
<1> QED  BY <1>1, Invariance, PTL
=============================================================================
