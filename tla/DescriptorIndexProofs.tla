----------------------- MODULE DescriptorIndexProofs ------------------------
(***************************************************************************)
(* The argument that descriptor_database.h gives in a comment for the      *)
(* prefix lookup, as theorems about DescriptorIndex, and what the index    *)
(* and the merged databases keep true while files are added.  The maps may *)
(* be of any size and the names of any length.                             *)
(***************************************************************************)
EXTENDS DescriptorIndex, SequenceTheorems, FiniteSets, FiniteSetTheorems,
        WellFoundedInduction, TLAPS

(* Two different names are not each less than the other.                    *)
LEMMA LessAntisymmetric ==
    ASSUME NEW a \in Seq(Int), NEW b \in Seq(Int), Less(a, b), Less(b, a)
    PROVE  FALSE
<1>1. PICK i \in 1 .. Len(b) :
          /\ \A j \in 1 .. (i - 1) : j <= Len(a) /\ a[j] = b[j]
          /\ i = Len(a) + 1 \/ (i <= Len(a) /\ a[i] < b[i])
    BY DEF Less
<1>2. PICK k \in 1 .. Len(a) :
          /\ \A j \in 1 .. (k - 1) : j <= Len(b) /\ b[j] = a[j]
          /\ k = Len(b) + 1 \/ (k <= Len(b) /\ b[k] < a[k])
    BY DEF Less
<1>3. i \in Int /\ k \in Int /\ Len(a) \in Nat /\ Len(b) \in Nat
    OBVIOUS
<1>4. /\ i \in 1 .. Len(a) => a[i] \in Int
      /\ k \in 1 .. Len(b) => b[k] \in Int
      /\ b[i] \in Int /\ a[k] \in Int
    OBVIOUS
<1>5. CASE i < k
    BY <1>1, <1>2, <1>3, <1>4, <1>5
<1>6. CASE k < i
    BY <1>1, <1>2, <1>3, <1>4, <1>6
<1>7. CASE i = k
    BY <1>1, <1>2, <1>3, <1>4, <1>7
<1> QED BY <1>3, <1>5, <1>6, <1>7

(* The greatest key that is not greater than the name is what               *)
(* FindLastLessOrEqual returns.                                             *)
LEMMA LastLessOrEqual ==
    ASSUME NEW map, DOMAIN map \subseteq Seq(Int), NEW name, NEW m \in DOMAIN map,
           LessOrEqual(m, name),
           \A j \in DOMAIN map : LessOrEqual(j, name) => LessOrEqual(j, m)
    PROVE  FindLastLessOrEqual(map, name) = m
<1> DEFINE upTo == {k \in DOMAIN map : LessOrEqual(k, name)}
           last == CHOOSE k \in upTo : \A j \in upTo : LessOrEqual(j, k)
<1>1. m \in upTo /\ \A j \in upTo : LessOrEqual(j, m)
    OBVIOUS
<1>2. last \in upTo /\ \A j \in upTo : LessOrEqual(j, last)
    BY <1>1
<1>3. LessOrEqual(last, m) /\ LessOrEqual(m, last)
    BY <1>1, <1>2
<1>4. last = m
    BY <1>2, <1>3, LessAntisymmetric DEF LessOrEqual
<1>5. FindLastLessOrEqual(map, name) = last
    BY <1>1 DEF FindLastLessOrEqual
<1> QED BY <1>4, <1>5

(* A key is found by its own name.                                          *)
LEMMA KeyFound ==
    ASSUME NEW map, DOMAIN map \subseteq Seq(Int), NEW m \in DOMAIN map
    PROVE  FindLastLessOrEqual(map, m) = m
BY LastLessOrEqual DEF LessOrEqual

(* The names the index holds consist of letters and dots.                   *)
ValidNames == {n \in Seq(Int) : ValidateSymbolName(n)}

(* Steps 5 to 8 of the comment: a key between a symbol and a name below it  *)
(* is below the symbol too.                                                 *)
LEMMA BetweenIsBelow ==
    ASSUME NEW m \in ValidNames, NEW q \in Seq(Int), IsSubSymbol(m, q), NEW j \in ValidNames,
           LessOrEqual(j, q)
    PROVE  LessOrEqual(j, m) \/ IsSubSymbol(m, j)
<1>1. CASE j = q
    BY <1>1
<1>2. CASE m = q
    BY <1>2
<1>3. CASE Less(j, q) /\ m # q
  <2>1. /\ Len(m) < Len(q) /\ q[Len(m) + 1] = Dot
        /\ \A i \in 1 .. Len(m) : m[i] = q[i]
      BY <1>3 DEF IsSubSymbol
  <2>2. PICK i \in 1 .. Len(q) :
            /\ \A l \in 1 .. (i - 1) : l <= Len(j) /\ j[l] = q[l]
            /\ i = Len(j) + 1 \/ (i <= Len(j) /\ j[i] < q[i])
      BY <1>3 DEF Less
  <2>3. /\ m \in Seq(Int) /\ j \in Seq(Int) /\ Len(m) \in Nat /\ Len(j) \in Nat /\ i \in Int
        /\ Len(q) \in Nat /\ Dot \in Int
        /\ \A l \in 1 .. Len(j) : j[l] \in Int /\ j[l] >= Dot
    <3>1. Dot \in Int /\ Letters \subseteq Int /\ \A c \in Letters : c > Dot
        BY NamesAssumption
    <3>2. m \in Seq(Int) /\ j \in Seq(Int) /\ \A l \in 1 .. Len(j) : j[l] \in Letters \cup {Dot}
        BY DEF ValidNames, ValidateSymbolName
    <3> QED BY <3>1, <3>2
  <2>4. CASE i <= Len(m)
    <3>1. ASSUME NEW l \in 1 .. (i - 1)
          PROVE  l <= Len(j) /\ j[l] = m[l]
      <4>1. l \in 1 .. Len(m)
          BY <2>3, <2>4
      <4>2. m[l] = q[l]
          BY <2>1, <4>1
      <4> QED BY <2>2, <4>2
    <3>2. i = Len(j) + 1 \/ (i <= Len(j) /\ j[i] < m[i])
        BY <2>1, <2>2, <2>3, <2>4
    <3>3. i \in 1 .. Len(m)
        BY <2>2, <2>3, <2>4
    <3> QED BY <3>1, <3>2, <3>3 DEF LessOrEqual, Less
  <2>5. CASE i = Len(m) + 1
    <3>1. i = Len(j) + 1
        BY <2>1, <2>2, <2>3, <2>5
    <3>2. Len(j) = Len(m) /\ \A l \in 1 .. Len(m) : j[l] = m[l]
        BY <2>1, <2>2, <2>3, <2>5, <3>1
    <3>3. j = m
        BY <2>3, <3>2, SeqEqual
    <3> QED BY <3>3 DEF LessOrEqual
  <2>6. CASE i > Len(m) + 1
    <3>1. Len(m) + 1 \in 1 .. (i - 1)
        BY <2>3, <2>6
    <3>2. Len(m) < Len(j) /\ j[Len(m) + 1] = Dot
      <4>1. q[Len(m) + 1] = Dot /\ Len(m) + 1 \in 1 .. Len(q)
          BY <2>1
      <4>2. Len(m) + 1 <= Len(j) /\ j[Len(m) + 1] = q[Len(m) + 1]
          BY <2>2, <3>1
      <4> QED BY <2>3, <4>1, <4>2
    <3>3. \A l \in 1 .. Len(m) : m[l] = j[l]
        BY <2>1, <2>2, <2>3, <2>6
    <3> QED BY <3>2, <3>3 DEF IsSubSymbol
  <2> QED BY <2>3, <2>4, <2>5, <2>6
<1> QED BY <1>1, <1>2, <1>3 DEF LessOrEqual

(* A name below a symbol is not less than the symbol (step 3).              *)
LEMMA BelowNotLess ==
    ASSUME NEW m \in Seq(Int), NEW q \in Seq(Int), IsSubSymbol(m, q)
    PROVE  LessOrEqual(m, q)
<1>1. CASE m = q
    BY <1>1 DEF LessOrEqual
<1>2. CASE m # q
  <2>1. /\ Len(m) < Len(q) /\ Len(m) + 1 \in 1 .. Len(q) /\ Len(m) \in Nat
        /\ \A i \in 1 .. Len(m) : m[i] = q[i]
      BY <1>2 DEF IsSubSymbol
  <2>2. \A l \in 1 .. ((Len(m) + 1) - 1) : l <= Len(m) /\ m[l] = q[l]
      BY <2>1
  <2> QED BY <2>1, <2>2 DEF LessOrEqual, Less
<1> QED BY <1>1, <1>2

(* Step 9: in a map without prefixes the lookup finds the key the name is   *)
(* below.                                                                   *)
LEMMA PrefixLookup ==
    ASSUME NEW map, DOMAIN map \subseteq ValidNames, Prefixless(map),
           NEW q \in Seq(Int), NEW m \in DOMAIN map, IsSubSymbol(m, q)
    PROVE  FindSymbol(map, q) = map[m]
<1>1. DOMAIN map \subseteq Seq(Int)
    BY DEF ValidNames
<1>2. LessOrEqual(m, q)
    BY <1>1, BelowNotLess
<1>3. ASSUME NEW j \in DOMAIN map, LessOrEqual(j, q)
      PROVE  LessOrEqual(j, m)
  <2>1. LessOrEqual(j, m) \/ IsSubSymbol(m, j)
      BY <1>3, BetweenIsBelow
  <2>2. IsSubSymbol(m, j) => m = j
      BY DEF Prefixless
  <2> QED BY <2>1, <2>2 DEF LessOrEqual
<1>4. FindLastLessOrEqual(map, q) = m
    BY <1>1, <1>2, <1>3, LastLessOrEqual
<1> QED BY <1>4 DEF FindSymbol

-----------------------------------------------------------------------------
(* What an index holds while files are added to it.                        *)

(* The first entries of the file have been indexed for it.                  *)
Stored(i, p, next) ==
    \A n \in 1 .. Len(p.entries) :
        n < next /\ p.entries[n].kind = "symbol"
            => /\ p.entries[n].key \in DOMAIN by_symbol_[i]
               /\ by_symbol_[i][p.entries[n].key] = p

AddingOK ==
    /\ adding \in [source : Sources, file : Protos, next : Nat \ {0}] \cup {NotAdding}
    /\ adding # NotAdding => Stored(adding.source, adding.file, adding.next)

SymbolsOK ==
    /\ DOMAIN by_symbol_ = Sources
    /\ \A i \in Sources : DOMAIN by_symbol_[i] \subseteq ValidNames

AcceptedOK ==
    /\ DOMAIN accepted = Sources
    /\ \A i \in Sources : \A p \in accepted[i] :
           p \in Protos /\ Stored(i, p, Len(p.entries) + 1)

IndexInv == SymbolsOK /\ AddingOK /\ AcceptedOK

(* InsertIfNotPresent keeps what is there.                                  *)
LEMMA InsertKeeps ==
    ASSUME NEW map, NEW key, NEW value
    PROVE  /\ DOMAIN InsertIfNotPresent(map, key, value) = DOMAIN map \cup {key}
           /\ \A k \in DOMAIN map : InsertIfNotPresent(map, key, value)[k] = map[k]
           /\ key \notin DOMAIN map => InsertIfNotPresent(map, key, value)[key] = value
BY DEF InsertIfNotPresent

(* A symbol that the index has already is a conflict.                       *)
LEMMA PresentConflicts ==
    ASSUME NEW map, DOMAIN map \subseteq Seq(Int), NEW name \in DOMAIN map
    PROVE  Conflict(map, name)
<1>1. FindLastLessOrEqual(map, name) = name
    BY KeyFound
<1> QED BY <1>1 DEF Conflict, IsSubSymbol

(* The key of a symbol entry is a string.                                   *)
LEMMA SymbolKey ==
    ASSUME NEW p \in Protos, NEW n \in 1 .. Len(p.entries), p.entries[n].kind = "symbol"
    PROVE  p.entries[n].key \in Seq(Int)
<1>1. p.entries \in Seq(Entries)
    BY NamesAssumption
<1>2. p.entries[n] \in Entries
    BY <1>1
<1> QED BY <1>2 DEF Entries

LEMMA IndexInit == Init => IndexInv
BY DEF Init, IndexInv, SymbolsOK, AddingOK, AcceptedOK, Empty

LEMMA IndexNext == IndexInv /\ [Next]_vars => IndexInv'
<1> SUFFICES ASSUME IndexInv, [Next]_vars
             PROVE  IndexInv'
    OBVIOUS
<1> USE DEF IndexInv
<1>1. ASSUME NEW i \in Sources, NEW p \in Protos, AddFile(i, p)
      PROVE  IndexInv'
  <2>1. /\ UNCHANGED <<by_symbol_, accepted>>
        /\ adding' = [source |-> i, file |-> p, next |-> 1]
      BY <1>1 DEF AddFile
  <2>2. SymbolsOK' /\ AcceptedOK'
      BY <2>1 DEF SymbolsOK, AcceptedOK, Stored
  <2>3. AddingOK'
      BY <2>1 DEF AddingOK, Stored
  <2> QED BY <2>2, <2>3
<1>2. CASE Refuse
  <2>1. UNCHANGED <<by_symbol_, accepted>> /\ adding' = NotAdding
      BY <1>2 DEF Refuse
  <2> QED BY <2>1 DEF SymbolsOK, AddingOK, AcceptedOK, Stored
<1>3. CASE AddSymbol /\ ~Refuse
  <2>1. PICK i \in Sources, p \in Protos, x \in Nat :
            adding = [source |-> i, file |-> p, next |-> x]
      BY <1>3 DEF AddSymbol, Adds, AddingOK
  <2>2. /\ adding # NotAdding /\ x <= Len(p.entries) /\ p.entries[x].kind = "symbol"
        /\ adding.source = i /\ adding.file = p /\ adding.next = x /\ Entry = p.entries[x]
      BY <1>3, <2>1 DEF AddSymbol, Adds, Entry
  <2>3. PICK key : key = p.entries[x].key
      OBVIOUS
  <2>4. /\ ValidateSymbolName(key) /\ ~Conflict(by_symbol_[i], key)
        /\ by_symbol_' = [by_symbol_ EXCEPT ![i] = InsertIfNotPresent(by_symbol_[i], key, p)]
        /\ adding' = [source |-> i, file |-> p, next |-> x + 1] /\ UNCHANGED accepted
      BY <1>3, <2>1, <2>2, <2>3 DEF AddSymbol, Advance
  <2>5. \A n \in 1 .. Len(p.entries) : n < x + 1 => n < x \/ n = x
      BY <2>1
  <2>6. key \in Seq(Int)
    <3>1. p.entries \in Seq(Entries)
        BY NamesAssumption
    <3>2. x # 0
        BY <2>1, <2>2 DEF AddingOK
    <3>3. x \in 1 .. Len(p.entries)
        BY <2>2, <3>1, <3>2
    <3> QED BY <2>2, <2>3, <3>3, SymbolKey
  <2>7. key \in ValidNames
      BY <2>4, <2>6 DEF ValidNames
  <2>8. key \notin DOMAIN by_symbol_[i]
    <3>1. DOMAIN by_symbol_[i] \subseteq Seq(Int)
        BY DEF SymbolsOK, ValidNames
    <3> QED BY <2>4, <3>1, PresentConflicts
  <2>9. /\ DOMAIN by_symbol_' = Sources
        /\ \A j \in Sources : j # i => by_symbol_'[j] = by_symbol_[j]
        /\ by_symbol_'[i] = InsertIfNotPresent(by_symbol_[i], key, p)
      BY <2>4 DEF SymbolsOK
  <2>10. /\ DOMAIN by_symbol_'[i] = DOMAIN by_symbol_[i] \cup {key} /\ by_symbol_'[i][key] = p
         /\ \A k \in DOMAIN by_symbol_[i] : by_symbol_'[i][k] = by_symbol_[i][k]
    <3> DEFINE new == InsertIfNotPresent(by_symbol_[i], key, p)
    <3>1. /\ DOMAIN new = DOMAIN by_symbol_[i] \cup {key}
          /\ \A k \in DOMAIN by_symbol_[i] : new[k] = by_symbol_[i][k]
          /\ key \notin DOMAIN by_symbol_[i] => new[key] = p
        BY InsertKeeps
    <3> HIDE DEF new
    <3> QED BY <2>8, <2>9, <3>1 DEF new
  <2>11. \A j \in Sources : \A k \in DOMAIN by_symbol_[j] :
             k \in DOMAIN by_symbol_'[j] /\ by_symbol_'[j][k] = by_symbol_[j][k]
      BY <2>9, <2>10
  <2>12. SymbolsOK'
      BY <2>7, <2>9, <2>10 DEF SymbolsOK
  <2>13. AcceptedOK'
      BY <2>4, <2>11 DEF AcceptedOK, Stored
  <2>14. AddingOK'
    <3>1. Stored(i, p, x)
        BY <2>2 DEF AddingOK
    <3>2. \A n \in 1 .. Len(p.entries) :
              n < x + 1 /\ p.entries[n].kind = "symbol"
                  => /\ p.entries[n].key \in DOMAIN by_symbol_'[i]
                     /\ by_symbol_'[i][p.entries[n].key] = p
        BY <2>3, <2>5, <2>10, <2>11, <3>1 DEF Stored
    <3>3. adding'.source = i /\ adding'.file = p /\ adding'.next = x + 1
        BY <2>4
    <3>4. adding' \in [source : Sources, file : Protos, next : Nat \ {0}]
        BY <2>4
    <3> QED BY <3>2, <3>3, <3>4 DEF AddingOK, Stored
  <2> QED BY <2>12, <2>13, <2>14
<1>4. CASE AddExtension /\ ~Refuse
  <2>1. /\ Adds("extension") /\ Advance
        /\ UNCHANGED <<by_symbol_, accepted>>
      BY <1>4 DEF AddExtension
  <2>2. SymbolsOK' /\ AcceptedOK'
      BY <2>1 DEF SymbolsOK, AcceptedOK, Stored
  <2>3. AddingOK'
      BY <2>1 DEF AddingOK, Stored, Adds, Advance, Entry
  <2> QED BY <2>2, <2>3
<1>5. CASE AddReturns
  <2>1. /\ adding # NotAdding /\ adding.next > Len(adding.file.entries)
        /\ accepted' = [accepted EXCEPT ![adding.source] = @ \cup {adding.file}]
        /\ adding' = NotAdding /\ UNCHANGED by_symbol_
      BY <1>5 DEF AddReturns
  <2>2. SymbolsOK' /\ AddingOK'
      BY <2>1 DEF SymbolsOK, AddingOK
  <2>3. AcceptedOK'
      BY <2>1 DEF AcceptedOK, AddingOK, Stored
  <2> QED BY <2>2, <2>3
<1>6. CASE UNCHANGED vars
    BY <1>6 DEF vars, SymbolsOK, AddingOK, AcceptedOK, Stored
<1> QED BY <1>1, <1>2, <1>3, <1>4, <1>5, <1>6 DEF Next

LEMMA IndexInvariant == Spec => []IndexInv
<1> QED BY IndexInit, IndexNext, PTL DEF Spec

(* The comment above by_symbol_ in descriptor_database.h, for every set of  *)
(* files: as long as no symbol is a prefix of another, the last key not     *)
(* greater than a name is the one that FindSymbol has to find.              *)
THEOREM LookupIsComplete == Spec => []LookupComplete
<1>1. IndexInv => LookupComplete
  <2> SUFFICES ASSUME IndexInv,
                      NEW i \in Sources, Prefixless(by_symbol_[i]), NEW q \in Queries,
                      NEW k \in DOMAIN by_symbol_[i], IsSubSymbol(k, q)
               PROVE  FindSymbol(by_symbol_[i], q) = by_symbol_[i][k]
      BY DEF LookupComplete
  <2>1. q \in Seq(Int)
      BY NamesAssumption
  <2> QED BY <2>1, PrefixLookup DEF IndexInv, SymbolsOK
<1> QED BY <1>1, IndexInvariant, PTL

(* A symbol of a file that Add() accepted leads to that file, whatever was  *)
(* added or refused since, also where the map does have prefixes.           *)
THEOREM DeclaredSymbolsAreFound == Spec => []DeclaredSymbolsFound
<1>1. IndexInv => DeclaredSymbolsFound
  <2> SUFFICES ASSUME IndexInv,
                      NEW i \in Sources, NEW p \in accepted[i], NEW n \in 1 .. Len(p.entries),
                      p.entries[n].kind = "symbol"
               PROVE  FindSymbol(by_symbol_[i], p.entries[n].key) = p
      BY DEF DeclaredSymbolsFound
  <2> DEFINE key == p.entries[n].key
  <2>1. p \in Protos /\ Stored(i, p, Len(p.entries) + 1)
      BY DEF IndexInv, AcceptedOK
  <2>2. p.entries \in Seq(Entries)
      BY <2>1, NamesAssumption
  <2>3. key \in DOMAIN by_symbol_[i] /\ by_symbol_[i][key] = p
      BY <2>1, <2>2 DEF Stored
  <2>4. DOMAIN by_symbol_[i] \subseteq Seq(Int)
      BY DEF IndexInv, SymbolsOK, ValidNames
  <2>5. FindLastLessOrEqual(by_symbol_[i], key) = key
      BY <2>3, <2>4, KeyFound
  <2> QED BY <2>3, <2>5 DEF FindSymbol, IsSubSymbol
<1> QED BY <1>1, IndexInvariant, PTL

-----------------------------------------------------------------------------
(* The order of names is total, so a map that is not empty has a first and  *)
(* a last key.                                                              *)

(* A set of numbers has a least one.                                        *)
LEMMA LeastNumber ==
    ASSUME NEW S, S \subseteq Nat, S # {}
    PROVE  \E x \in S : \A y \in S : x <= y
<1>1. PICK x \in S : \A y \in S : ~(<<y, x>> \in OpToRel(<, Nat))
    BY NatLessThanWellFounded, WFMin
<1>2. ASSUME NEW y \in S PROVE x <= y
  <2>1. x \in Nat /\ y \in Nat
      OBVIOUS
  <2>2. ~(y < x)
      BY <1>1, <2>1 DEF OpToRel
  <2> QED BY <2>1, <2>2
<1> QED BY <1>2

(* Induction over the naturals, with a set in the place of the predicate.   *)
LEMMA NumberInduction ==
    ASSUME NEW T, 0 \in T, \A n \in Nat : n \in T => n + 1 \in T
    PROVE  \A n \in Nat : n \in T
<1> SUFFICES ASSUME Nat \ T # {} PROVE FALSE
    OBVIOUS
<1>1. PICK x \in Nat \ T : \A y \in Nat \ T : x <= y
    BY LeastNumber
<1>2. x # 0 /\ x - 1 \in Nat /\ ~(x <= x - 1)
    OBVIOUS
<1>3. x - 1 \in T
    BY <1>1, <1>2
<1>4. (x - 1) + 1 \in T /\ (x - 1) + 1 = x
    BY <1>2, <1>3
<1> QED BY <1>4

LEMMA LessTransitive ==
    ASSUME NEW a \in Seq(Int), NEW b \in Seq(Int), NEW c \in Seq(Int), Less(a, b), Less(b, c)
    PROVE  Less(a, c)
<1>1. PICK i \in 1 .. Len(b) :
          /\ \A j \in 1 .. (i - 1) : j <= Len(a) /\ a[j] = b[j]
          /\ i = Len(a) + 1 \/ (i <= Len(a) /\ a[i] < b[i])
    BY DEF Less
<1>2. PICK k \in 1 .. Len(c) :
          /\ \A j \in 1 .. (k - 1) : j <= Len(b) /\ b[j] = c[j]
          /\ k = Len(b) + 1 \/ (k <= Len(b) /\ b[k] < c[k])
    BY DEF Less
<1>3. i \in Int /\ k \in Int /\ Len(a) \in Nat /\ Len(b) \in Nat /\ Len(c) \in Nat
    OBVIOUS
<1>4. CASE i < k
  <2>1. i \in 1 .. (k - 1) /\ i \in 1 .. Len(c) /\ b[i] = c[i]
      BY <1>1, <1>2, <1>3, <1>4
  <2>2. \A j \in 1 .. (i - 1) : j <= Len(a) /\ a[j] = c[j]
    <3>1. \A j \in 1 .. (i - 1) : j \in 1 .. (k - 1)
        BY <1>3, <1>4
    <3> QED BY <1>1, <1>2, <3>1
  <2>3. i = Len(a) + 1 \/ (i <= Len(a) /\ a[i] < c[i])
      BY <1>1, <2>1
  <2> QED BY <2>1, <2>2, <2>3 DEF Less
<1>5. CASE k < i
  <2>1. k \in 1 .. (i - 1) /\ k <= Len(a) /\ a[k] = b[k] /\ k <= Len(b)
      BY <1>1, <1>2, <1>3, <1>5
  <2>2. \A j \in 1 .. (k - 1) : j <= Len(a) /\ a[j] = c[j]
    <3>1. \A j \in 1 .. (k - 1) : j \in 1 .. (i - 1)
        BY <1>3, <1>5
    <3> QED BY <1>1, <1>2, <3>1
  <2>3. k <= Len(a) /\ a[k] < c[k]
      BY <1>2, <1>3, <2>1
  <2> QED BY <2>2, <2>3 DEF Less
<1>6. CASE i = k
  <2>1. \A j \in 1 .. (k - 1) : j <= Len(a) /\ a[j] = c[j]
      BY <1>1, <1>2, <1>3, <1>6
  <2>2. b[k] < c[k]
      BY <1>1, <1>2, <1>3, <1>6
  <2>3. k = Len(a) + 1 \/ (k <= Len(a) /\ a[k] < c[k])
    <3>1. k <= Len(a) => a[k] \in Int /\ b[k] \in Int /\ c[k] \in Int
      <4>1. k \in 1 .. Len(b) /\ k \in 1 .. Len(c) /\ (k <= Len(a) => k \in 1 .. Len(a))
          BY <1>3, <1>6
      <4> QED BY <4>1
    <3> QED BY <1>1, <1>6, <2>2, <3>1
  <2> QED BY <2>1, <2>3 DEF Less
<1> QED BY <1>3, <1>4, <1>5, <1>6

LEMMA LessTotal ==
    ASSUME NEW a \in Seq(Int), NEW b \in Seq(Int)
    PROVE  LessOrEqual(a, b) \/ Less(b, a)
<1> DEFINE differ == {i \in Nat \ {0} : i > Len(a) \/ i > Len(b) \/ a[i] # b[i]}
<1>1. Len(a) \in Nat /\ Len(b) \in Nat
    OBVIOUS
<1>2. Len(a) + 1 \in differ /\ differ \subseteq Nat
    BY <1>1
<1>3. PICK i \in differ : \A j \in differ : i <= j
    BY <1>2, LeastNumber
<1>4. ASSUME NEW j \in 1 .. (i - 1)
      PROVE  j <= Len(a) /\ j <= Len(b) /\ a[j] = b[j]
  <2>1. j \in Nat \ {0} /\ ~(i <= j)
      BY <1>3
  <2>2. j \notin differ
      BY <1>3, <2>1
  <2>3. ~(j > Len(a) \/ j > Len(b) \/ a[j] # b[j])
      BY <2>1, <2>2, Zenon
  <2> QED BY <1>1, <2>1, <2>3
<1>5. i \in Nat /\ i >= 1
    OBVIOUS
<1>6. CASE i > Len(a) /\ i > Len(b)
  <2>1. Len(a) = i - 1 /\ Len(b) = i - 1
    <3>1. i - 1 = 0 \/ i - 1 \in 1 .. (i - 1)
        BY <1>5
    <3> QED BY <1>1, <1>4, <1>5, <1>6, <3>1
  <2>2. a = b
      BY <1>4, <2>1, SeqEqual
  <2> QED BY <2>2 DEF LessOrEqual
<1>7. CASE i > Len(a) /\ i <= Len(b)
  <2>1. i = Len(a) + 1 /\ i \in 1 .. Len(b)
    <3>1. i - 1 = 0 \/ i - 1 \in 1 .. (i - 1)
        BY <1>5
    <3> QED BY <1>1, <1>4, <1>5, <1>7, <3>1
  <2> QED BY <1>4, <2>1 DEF LessOrEqual, Less
<1>8. CASE i <= Len(a) /\ i > Len(b)
  <2>1. i = Len(b) + 1 /\ i \in 1 .. Len(a)
    <3>1. i - 1 = 0 \/ i - 1 \in 1 .. (i - 1)
        BY <1>5
    <3> QED BY <1>1, <1>4, <1>5, <1>8, <3>1
  <2> QED BY <1>4, <2>1 DEF Less
<1>9. CASE i <= Len(a) /\ i <= Len(b)
  <2>1. /\ i \in 1 .. Len(a) /\ i \in 1 .. Len(b) /\ a[i] \in Int /\ b[i] \in Int
        /\ a[i] # b[i]
      BY <1>1, <1>5, <1>9
  <2>2. a[i] < b[i] \/ b[i] < a[i]
      BY <2>1
  <2> QED BY <1>4, <1>9, <2>1, <2>2 DEF LessOrEqual, Less
<1> QED BY <1>1, <1>5, <1>6, <1>7, <1>8, <1>9

LEMMA LessOrEqualTransitive ==
    ASSUME NEW a \in Seq(Int), NEW b \in Seq(Int), NEW c \in Seq(Int),
           LessOrEqual(a, b), LessOrEqual(b, c)
    PROVE  LessOrEqual(a, c)
BY LessTransitive DEF LessOrEqual

(* A greatest and a least name of a set.                                    *)
IsLast(S, m) == m \in S /\ \A k \in S : LessOrEqual(k, m)
IsFirst(S, m) == m \in S /\ \A k \in S : LessOrEqual(m, k)

LEMMA LastExtends ==
    ASSUME NEW S \in SUBSET Seq(Int), NEW x \in Seq(Int), NEW m, IsLast(S, m)
    PROVE  \E n : IsLast(S \cup {x}, n)
<1>1. m \in Seq(Int)
    BY DEF IsLast
<1>2. CASE LessOrEqual(x, m)
  <2>1. IsLast(S \cup {x}, m)
      BY <1>2 DEF IsLast
  <2> QED BY <2>1
<1>3. CASE Less(m, x)
  <2>1. \A k \in S : LessOrEqual(k, x)
    <3>1. LessOrEqual(m, x)
        BY <1>3 DEF LessOrEqual
    <3> QED BY <1>1, <3>1, LessOrEqualTransitive DEF IsLast
  <2>2. IsLast(S \cup {x}, x)
      BY <2>1 DEF IsLast, LessOrEqual
  <2> QED BY <2>2
<1> QED BY <1>1, <1>2, <1>3, LessTotal

LEMMA FirstExtends ==
    ASSUME NEW S \in SUBSET Seq(Int), NEW x \in Seq(Int), NEW m, IsFirst(S, m)
    PROVE  \E n : IsFirst(S \cup {x}, n)
<1>1. m \in Seq(Int)
    BY DEF IsFirst
<1>2. CASE LessOrEqual(m, x)
  <2>1. IsFirst(S \cup {x}, m)
      BY <1>2 DEF IsFirst
  <2> QED BY <2>1
<1>3. CASE Less(x, m)
  <2>1. \A k \in S : LessOrEqual(x, k)
    <3>1. LessOrEqual(x, m)
        BY <1>3 DEF LessOrEqual
    <3> QED BY <1>1, <3>1, LessOrEqualTransitive DEF IsFirst
  <2>2. IsFirst(S \cup {x}, x)
      BY <2>1 DEF IsFirst, LessOrEqual
  <2> QED BY <2>2
<1> QED BY <1>1, <1>2, <1>3, LessTotal

(* A finite set of names has both.                                          *)
HasEnds(S) == (\E m : IsLast(S, m)) /\ (\E m : IsFirst(S, m))

LEMMA EndsExist ==
    ASSUME NEW S \in SUBSET Seq(Int), IsFiniteSet(S), S # {}
    PROVE  HasEnds(S)
<1> DEFINE T == {n \in Nat : \A R \in SUBSET Seq(Int) :
                     IsFiniteSet(R) /\ Cardinality(R) = n + 1 => HasEnds(R)}
<1>1. ASSUME NEW n \in Nat, NEW R \in SUBSET Seq(Int), IsFiniteSet(R), Cardinality(R) = n + 1
      PROVE  \E x \in R : IsFiniteSet(R \ {x}) /\ Cardinality(R \ {x}) = n
  <2>1. R # {}
      BY <1>1, FS_EmptySet
  <2>2. PICK x \in R : TRUE
      BY <2>1
  <2>3. IsFiniteSet(R \ {x}) /\ Cardinality(R \ {x}) = Cardinality(R) - 1
      BY <1>1, FS_RemoveElement
  <2>4. Cardinality(R \ {x}) = n
      BY <1>1, <2>3
  <2> QED BY <2>3, <2>4, Zenon
<1>2. 0 \in T
  <2> SUFFICES ASSUME NEW R \in SUBSET Seq(Int), IsFiniteSet(R), Cardinality(R) = 0 + 1
               PROVE  HasEnds(R)
      OBVIOUS
  <2>1. PICK x \in R : IsFiniteSet(R \ {x}) /\ Cardinality(R \ {x}) = 0
      BY <1>1
  <2>2. R = {x}
      BY <2>1, FS_EmptySet
  <2>3. IsLast(R, x) /\ IsFirst(R, x)
      BY <2>2 DEF IsLast, IsFirst, LessOrEqual
  <2> QED BY <2>3 DEF HasEnds
<1>3. ASSUME NEW n \in Nat, n \in T
      PROVE  n + 1 \in T
  <2> SUFFICES ASSUME NEW R \in SUBSET Seq(Int), IsFiniteSet(R), Cardinality(R) = (n + 1) + 1
               PROVE  HasEnds(R)
      OBVIOUS
  <2>1. PICK x \in R : IsFiniteSet(R \ {x}) /\ Cardinality(R \ {x}) = n + 1
    <3>1. n + 1 \in Nat
        OBVIOUS
    <3> QED BY <1>1, <3>1, Zenon
  <2> DEFINE Q == R \ {x}
  <2>2. Q \in SUBSET Seq(Int) /\ x \in Seq(Int) /\ R = Q \cup {x}
      OBVIOUS
  <2>3. HasEnds(Q)
      BY <1>3, <2>1, <2>2
  <2> HIDE DEF Q
  <2>4. (\E m : IsLast(Q, m)) /\ (\E m : IsFirst(Q, m))
      BY <2>3 DEF HasEnds
  <2>5. (\E m : IsLast(Q \cup {x}, m)) /\ (\E m : IsFirst(Q \cup {x}, m))
      BY <2>2, <2>4, LastExtends, FirstExtends
  <2> QED BY <2>2, <2>5 DEF HasEnds
<1> HIDE DEF T
<1>4. \A n \in Nat : n \in T
    BY <1>2, <1>3, NumberInduction
<1>5. Cardinality(S) \in Nat /\ Cardinality(S) # 0
    BY FS_CardinalityType, FS_EmptySet
<1>6. Cardinality(S) - 1 \in T /\ Cardinality(S) = (Cardinality(S) - 1) + 1
    BY <1>4, <1>5
<1> QED BY <1>6 DEF T

(* So the search returns a key of a map that is not empty, and the last     *)
(* one not greater than the name if there is one.                           *)
LEMMA SearchFacts ==
    ASSUME NEW map, DOMAIN map \in SUBSET Seq(Int), IsFiniteSet(DOMAIN map), DOMAIN map # {},
           NEW name \in Seq(Int)
    PROVE  /\ FindLastLessOrEqual(map, name) \in DOMAIN map
           /\ (\E k \in DOMAIN map : LessOrEqual(k, name))
                  => IsLast({k \in DOMAIN map : LessOrEqual(k, name)},
                            FindLastLessOrEqual(map, name))
<1> DEFINE upTo == {k \in DOMAIN map : LessOrEqual(k, name)}
           keys == DOMAIN map
<1>1. upTo \in SUBSET Seq(Int) /\ IsFiniteSet(upTo) /\ upTo \subseteq keys
    BY FS_Subset
<1>2. CASE upTo # {}
  <2>1. PICK m : IsLast(upTo, m)
      BY <1>1, <1>2, EndsExist DEF HasEnds
  <2>2. FindLastLessOrEqual(map, name) = CHOOSE k \in upTo : \A j \in upTo : LessOrEqual(j, k)
      BY <1>2 DEF FindLastLessOrEqual
  <2> HIDE DEF upTo
  <2>3. IsLast(upTo, FindLastLessOrEqual(map, name))
      BY <2>1, <2>2 DEF IsLast
  <2>4. FindLastLessOrEqual(map, name) \in DOMAIN map
      BY <1>1, <2>3 DEF IsLast
  <2> QED BY <2>3, <2>4 DEF upTo
<1>3. CASE upTo = {}
  <2>1. PICK m : IsFirst(keys, m)
      BY EndsExist DEF HasEnds
  <2>2. FindLastLessOrEqual(map, name) = CHOOSE k \in keys : \A j \in keys : LessOrEqual(k, j)
      BY <1>3 DEF FindLastLessOrEqual
  <2>3. FindLastLessOrEqual(map, name) \in keys
      BY <2>1, <2>2 DEF IsFirst
  <2>4. ~\E k \in DOMAIN map : LessOrEqual(k, name)
      BY <1>3
  <2> QED BY <2>3, <2>4
<1> QED BY <1>2, <1>3

(* The key after another one.                                               *)
LEMMA FollowingKey ==
    ASSUME NEW map, DOMAIN map \in SUBSET Seq(Int), IsFiniteSet(DOMAIN map),
           NEW key \in DOMAIN map, NEW b \in DOMAIN map, Less(key, b)
    PROVE  \E next : Follows(map, key, next)
<1> DEFINE above == {k \in DOMAIN map : Less(key, k)}
<1>1. above \in SUBSET Seq(Int) /\ IsFiniteSet(above) /\ b \in above
    BY FS_Subset
<1>2. PICK next : IsFirst(above, next)
    BY <1>1, EndsExist DEF HasEnds
<1>3. Follows(map, key, next)
    BY <1>2 DEF Follows, IsFirst
<1> QED BY <1>3

(* The name without a conflict, seen from a key it would belong under ...   *)
LEMMA NoKeyAbove ==
    ASSUME NEW map, DOMAIN map \subseteq ValidNames, IsFiniteSet(DOMAIN map), Prefixless(map),
           NEW name \in ValidNames, ~Conflict(map, name),
           NEW a \in DOMAIN map, IsSubSymbol(a, name)
    PROVE  FALSE
<1> DEFINE iter == FindLastLessOrEqual(map, name)
<1>1. DOMAIN map \in SUBSET Seq(Int) /\ name \in Seq(Int)
    BY DEF ValidNames
<1>2. LessOrEqual(a, name)
    BY <1>1, BelowNotLess
<1>3. IsLast({k \in DOMAIN map : LessOrEqual(k, name)}, iter)
    BY <1>1, <1>2, SearchFacts
<1>4. iter \in DOMAIN map /\ LessOrEqual(iter, name) /\ LessOrEqual(a, iter)
    BY <1>2, <1>3 DEF IsLast
<1>5. LessOrEqual(iter, a) \/ IsSubSymbol(a, iter)
    BY <1>1, <1>4, BetweenIsBelow
<1>6. iter = a
  <2>1. CASE LessOrEqual(iter, a)
      BY <1>1, <1>4, <2>1, LessAntisymmetric DEF LessOrEqual
  <2>2. CASE IsSubSymbol(a, iter)
      BY <1>4, <2>2 DEF Prefixless
  <2> QED BY <1>5, <2>1, <2>2
<1>7. Conflict(map, name)
    BY <1>6 DEF Conflict
<1> QED BY <1>7

(* ... and from a key it would be above, if some key is less.               *)
LEMMA NoKeyBelow ==
    ASSUME NEW map, DOMAIN map \subseteq ValidNames, IsFiniteSet(DOMAIN map),
           NEW name \in ValidNames, ~Conflict(map, name),
           NEW k \in DOMAIN map, Less(k, name),
           NEW b \in DOMAIN map, IsSubSymbol(name, b)
    PROVE  FALSE
<1> DEFINE iter == FindLastLessOrEqual(map, name)
<1>1. DOMAIN map \in SUBSET Seq(Int) /\ name \in Seq(Int)
    BY DEF ValidNames
<1>2. IsLast({j \in DOMAIN map : LessOrEqual(j, name)}, iter)
    BY <1>1, SearchFacts DEF LessOrEqual
<1>3. /\ iter \in DOMAIN map /\ LessOrEqual(iter, name)
      /\ \A j \in DOMAIN map : LessOrEqual(j, name) => LessOrEqual(j, iter)
    BY <1>2 DEF IsLast
<1>4. iter # name
  <2>1. iter = name => Conflict(map, name)
      BY <1>3 DEF Conflict, IsSubSymbol
  <2> QED BY <2>1
<1>5. LessOrEqual(name, b)
    BY <1>1, BelowNotLess
<1> HIDE DEF iter
<1>6. Less(iter, b)
    BY <1>1, <1>3, <1>4, <1>5, LessTransitive DEF LessOrEqual
<1>7. PICK next : Follows(map, iter, next)
    BY <1>1, <1>3, <1>6, FollowingKey
<1>8. next \in DOMAIN map /\ Less(iter, next) /\ LessOrEqual(next, b)
    BY <1>6, <1>7 DEF Follows
<1>9. ~LessOrEqual(next, name)
  <2> SUFFICES ASSUME LessOrEqual(next, name) PROVE FALSE
      OBVIOUS
  <2>1. LessOrEqual(next, iter)
      BY <1>3, <1>8
  <2>2. next = iter \/ Less(next, iter)
      BY <2>1 DEF LessOrEqual
  <2>3. Less(iter, iter)
      BY <1>1, <1>3, <1>8, <2>2, LessTransitive
  <2> QED BY <1>1, <1>3, <2>3, LessAntisymmetric
<1>10. LessOrEqual(next, name) \/ IsSubSymbol(name, next)
    BY <1>1, <1>8, BetweenIsBelow
<1>11. Conflict(map, name)
    BY <1>3, <1>7, <1>8, <1>9, <1>10 DEF Conflict, iter
<1> QED BY <1>11

LEMMA PrefixlessKept ==
    ASSUME NEW map, DOMAIN map \subseteq ValidNames, IsFiniteSet(DOMAIN map), Prefixless(map),
           NEW name \in ValidNames, ~Conflict(map, name),
           NEW k \in DOMAIN map, Less(k, name),
           NEW new, DOMAIN new = DOMAIN map \cup {name}
    PROVE  Prefixless(new)
<1> SUFFICES ASSUME NEW a \in DOMAIN new, NEW b \in DOMAIN new, IsSubSymbol(a, b)
             PROVE  a = b
    BY DEF Prefixless
<1>1. CASE a \in DOMAIN map /\ b \in DOMAIN map
    BY <1>1 DEF Prefixless
<1>2. CASE a \in DOMAIN map /\ b = name
    BY <1>2, NoKeyAbove
<1>3. CASE a = name /\ b \in DOMAIN map
    BY <1>3, NoKeyBelow
<1>4. CASE a = name /\ b = name
    BY <1>4
<1> QED BY <1>1, <1>2, <1>3, <1>4

-----------------------------------------------------------------------------
(* What the entries of an index lead to.                                    *)

(* The database gives the file for its name.                                *)
Filed(i, p) == /\ p \in Protos
               /\ p.name \in DOMAIN by_name_[i] /\ by_name_[i][p.name] = p

FilesOK ==
    /\ DOMAIN by_name_ = Sources
    /\ \A i \in Sources : \A n \in DOMAIN by_name_[i] : by_name_[i][n] \in Protos

KeysOK ==
    /\ DOMAIN by_symbol_ = Sources
    /\ \A i \in Sources :
           /\ IsFiniteSet(DOMAIN by_symbol_[i])
           /\ \A k \in DOMAIN by_symbol_[i] : Filed(i, by_symbol_[i][k])

ExtensionsOK ==
    /\ DOMAIN by_extension_ = Sources
    /\ \A i \in Sources : \A k \in DOMAIN by_extension_[i] : Filed(i, by_extension_[i][k])

UnderWayOK ==
    adding # NotAdding => adding.source \in Sources /\ Filed(adding.source, adding.file)

FiledInv == FilesOK /\ KeysOK /\ ExtensionsOK /\ UnderWayOK

(* A change of one database that puts a filed file under one more key.      *)
Inserts(maps, new, i, key, p) ==
    /\ DOMAIN new = Sources
    /\ \A j \in Sources : j # i => new[j] = maps[j]
    /\ DOMAIN new[i] = DOMAIN maps[i] \cup {key}
    /\ \A k \in DOMAIN maps[i] : new[i][k] = maps[i][k]
    /\ key \notin DOMAIN maps[i] => new[i][key] = p

LEMMA InsertOne ==
    ASSUME NEW maps, DOMAIN maps = Sources, NEW i \in Sources, NEW key, NEW p
    PROVE  Inserts(maps, [maps EXCEPT ![i] = InsertIfNotPresent(maps[i], key, p)], i, key, p)
<1> DEFINE map == InsertIfNotPresent(maps[i], key, p)
<1>1. /\ DOMAIN map = DOMAIN maps[i] \cup {key}
      /\ \A k \in DOMAIN maps[i] : map[k] = maps[i][k]
      /\ key \notin DOMAIN maps[i] => map[key] = p
    BY InsertKeeps
<1> HIDE DEF map
<1> DEFINE new == [maps EXCEPT ![i] = map]
<1>2. DOMAIN new = Sources /\ new[i] = map /\ \A j \in Sources : j # i => new[j] = maps[j]
    OBVIOUS
<1> HIDE DEF new
<1>3. Inserts(maps, new, i, key, p)
    BY <1>1, <1>2 DEF Inserts
<1> QED BY <1>3 DEF map, new

LEMMA FiledInit == Init => FiledInv
<1> SUFFICES ASSUME Init PROVE FiledInv
    OBVIOUS
<1>1. DOMAIN Empty = {}
    BY DEF Empty
<1>2. IsFiniteSet(DOMAIN Empty)
    BY <1>1, FS_EmptySet
<1> QED BY <1>1, <1>2 DEF Init, FiledInv, FilesOK, KeysOK, ExtensionsOK, UnderWayOK

LEMMA FiledNext == FiledInv /\ [Next]_vars => FiledInv'
<1> SUFFICES ASSUME FiledInv, [Next]_vars
             PROVE  FiledInv'
    OBVIOUS
<1> USE DEF FiledInv
<1>1. ASSUME NEW i \in Sources, NEW p \in Protos, AddFile(i, p)
      PROVE  FiledInv'
  <2>1. /\ p.name \notin DOMAIN by_name_[i]
        /\ by_name_' = [by_name_ EXCEPT ![i] = InsertIfNotPresent(by_name_[i], p.name, p)]
        /\ adding' = [source |-> i, file |-> p, next |-> 1]
        /\ UNCHANGED <<by_symbol_, by_extension_>>
      BY <1>1 DEF AddFile
  <2>2. /\ DOMAIN by_name_' = Sources
        /\ \A j \in Sources : j # i => by_name_'[j] = by_name_[j]
        /\ DOMAIN by_name_'[i] = DOMAIN by_name_[i] \cup {p.name}
        /\ \A n \in DOMAIN by_name_[i] : by_name_'[i][n] = by_name_[i][n]
        /\ by_name_'[i][p.name] = p
    <3>1. DOMAIN by_name_ = Sources
        BY DEF FilesOK
    <3>2. Inserts(by_name_, by_name_', i, p.name, p)
        BY <2>1, <3>1, InsertOne, Zenon
    <3> QED BY <2>1, <3>2 DEF Inserts
  <2>3. ASSUME NEW j \in Sources, NEW q, Filed(j, q)
        PROVE  Filed(j, q)'
      BY <2>2, <2>3 DEF Filed
  <2>4. FilesOK'
      BY <2>2 DEF FilesOK
  <2>5. KeysOK'
      BY <2>1, <2>3 DEF KeysOK
  <2>6. ExtensionsOK'
      BY <2>1, <2>3 DEF ExtensionsOK
  <2>7. UnderWayOK'
      BY <2>1, <2>2 DEF UnderWayOK, Filed
  <2> QED BY <2>4, <2>5, <2>6, <2>7
<1>2. CASE Refuse
    BY <1>2 DEF Refuse, FilesOK, KeysOK, ExtensionsOK, UnderWayOK, Filed
<1>3. CASE AddSymbol /\ ~Refuse
  <2>1. PICK i, p, key : /\ i = adding.source /\ p = adding.file /\ key = Entry.key
      OBVIOUS
  <2>2. /\ adding # NotAdding /\ Advance
        /\ by_symbol_' = [by_symbol_ EXCEPT ![i] = InsertIfNotPresent(by_symbol_[i], key, p)]
        /\ UNCHANGED <<by_name_, by_extension_>>
      BY <1>3, <2>1 DEF AddSymbol, Adds
  <2>3. i \in Sources /\ Filed(i, p)
      BY <2>1, <2>2 DEF UnderWayOK
  <2>4. /\ DOMAIN by_symbol_' = Sources
        /\ \A j \in Sources : j # i => by_symbol_'[j] = by_symbol_[j]
        /\ DOMAIN by_symbol_'[i] = DOMAIN by_symbol_[i] \cup {key}
        /\ \A k \in DOMAIN by_symbol_[i] : by_symbol_'[i][k] = by_symbol_[i][k]
        /\ key \notin DOMAIN by_symbol_[i] => by_symbol_'[i][key] = p
    <3>1. DOMAIN by_symbol_ = Sources
        BY DEF KeysOK
    <3>2. Inserts(by_symbol_, by_symbol_', i, key, p)
        BY <2>2, <2>3, <3>1, InsertOne, Zenon
    <3> QED BY <3>2 DEF Inserts
  <2>5. \A j \in Sources : \A k \in DOMAIN by_symbol_'[j] : Filed(j, by_symbol_'[j][k])
      BY <2>3, <2>4 DEF KeysOK
  <2>6. IsFiniteSet(DOMAIN by_symbol_'[i])
      BY <2>3, <2>4, FS_AddElement DEF KeysOK
  <2>7. KeysOK'
      BY <2>2, <2>4, <2>5, <2>6 DEF KeysOK, Filed
  <2>8. FilesOK' /\ ExtensionsOK'
      BY <2>2 DEF FilesOK, ExtensionsOK, Filed
  <2>9. UnderWayOK'
    <3>1. adding'.source = i /\ adding'.file = p
      <4>1. adding' = [adding EXCEPT !.next = adding.next + 1]
          BY <2>2 DEF Advance
      <4> QED BY <2>1, <4>1
    <3> QED BY <2>2, <2>3, <3>1 DEF UnderWayOK, Filed
  <2> QED BY <2>7, <2>8, <2>9
<1>4. CASE AddExtension /\ ~Refuse
  <2>1. PICK i, p, key : /\ i = adding.source /\ p = adding.file /\ key = Entry.key
      OBVIOUS
  <2>2. /\ adding # NotAdding /\ Advance
        /\ by_extension_' = [by_extension_ EXCEPT ![i] = InsertIfNotPresent(by_extension_[i], key, p)]
        /\ UNCHANGED <<by_name_, by_symbol_>>
      BY <1>4, <2>1 DEF AddExtension, Adds
  <2>3. i \in Sources /\ Filed(i, p)
      BY <2>1, <2>2 DEF UnderWayOK
  <2>4. /\ DOMAIN by_extension_' = Sources
        /\ \A j \in Sources : j # i => by_extension_'[j] = by_extension_[j]
        /\ DOMAIN by_extension_'[i] = DOMAIN by_extension_[i] \cup {key}
        /\ \A k \in DOMAIN by_extension_[i] : by_extension_'[i][k] = by_extension_[i][k]
        /\ key \notin DOMAIN by_extension_[i] => by_extension_'[i][key] = p
    <3>1. DOMAIN by_extension_ = Sources
        BY DEF ExtensionsOK
    <3>2. Inserts(by_extension_, by_extension_', i, key, p)
        BY <2>2, <2>3, <3>1, InsertOne, Zenon
    <3> QED BY <3>2 DEF Inserts
  <2>5. \A j \in Sources : \A k \in DOMAIN by_extension_'[j] : Filed(j, by_extension_'[j][k])
      BY <2>3, <2>4 DEF ExtensionsOK
  <2>6. ExtensionsOK'
      BY <2>2, <2>4, <2>5 DEF ExtensionsOK, Filed
  <2>7. FilesOK' /\ KeysOK'
      BY <2>2 DEF FilesOK, KeysOK, Filed
  <2>8. UnderWayOK'
    <3>1. adding'.source = i /\ adding'.file = p
      <4>1. adding' = [adding EXCEPT !.next = adding.next + 1]
          BY <2>2 DEF Advance
      <4> QED BY <2>1, <4>1
    <3> QED BY <2>2, <2>3, <3>1 DEF UnderWayOK, Filed
  <2> QED BY <2>6, <2>7, <2>8
<1>5. CASE AddReturns
    BY <1>5 DEF AddReturns, FilesOK, KeysOK, ExtensionsOK, UnderWayOK, Filed
<1>6. CASE UNCHANGED vars
    BY <1>6 DEF vars, FilesOK, KeysOK, ExtensionsOK, UnderWayOK, Filed
<1> QED BY <1>1, <1>2, <1>3, <1>4, <1>5, <1>6 DEF Next

LEMMA FiledInvariant == Spec => []FiledInv
<1> QED BY FiledInit, FiledNext, PTL DEF Spec

-----------------------------------------------------------------------------
(* The databases searched together.                                         *)

(* The first database that finds something.                                 *)
IsFirstFound(find, m) ==
    m \in Sources /\ find[m] # NoFile /\ \A j \in 1 .. (m - 1) : find[j] = NoFile

LEMMA SourceFacts ==
    /\ Sources \subseteq Nat
    /\ \A m \in Sources : \A j \in 1 .. (m - 1) : j \in Sources /\ j < m
    /\ \A m, j \in Sources : j < m => j \in 1 .. (m - 1)
<1>1. Databases \in Nat
    BY NamesAssumption
<1> QED BY <1>1 DEF Sources

LEMMA FirstFoundFacts ==
    ASSUME NEW find, NEW m, IsFirstFound(find, m)
    PROVE  FirstFound(find) = find[m]
<1> DEFINE found == {i \in Sources : find[i] # NoFile}
           first == CHOOSE i \in found : \A j \in found : i <= j
<1>1. m \in found /\ m \in Nat /\ found \subseteq Nat
    BY SourceFacts DEF IsFirstFound
<1>2. ASSUME NEW j \in found PROVE m <= j
  <2>1. j \in Nat /\ j \in Sources /\ find[j] # NoFile /\ (j < m => j \in 1 .. (m - 1))
      BY <1>1, SourceFacts DEF IsFirstFound
  <2> QED BY <1>1, <2>1 DEF IsFirstFound
<1>3. first \in found /\ \A j \in found : first <= j
    BY <1>1, <1>2
<1>4. FirstFound(find) = find[first]
    BY <1>1 DEF FirstFound
<1> HIDE DEF found, first
<1>5. first = m
    BY <1>1, <1>2, <1>3
<1> QED BY <1>4, <1>5

LEMMA FirstFoundExists ==
    ASSUME NEW find, FirstFound(find) # NoFile
    PROVE  \E m : IsFirstFound(find, m)
<1> DEFINE found == {i \in Sources : find[i] # NoFile}
<1>1. found # {} /\ found \subseteq Nat
    BY SourceFacts DEF FirstFound
<1>2. PICK m \in found : \A j \in found : m <= j
    BY <1>1, LeastNumber
<1>3. ASSUME NEW j \in 1 .. (m - 1)
      PROVE  find[j] = NoFile
  <2>1. j \in Sources /\ j \in Nat /\ m \in Nat /\ j < m
      BY <1>1, SourceFacts
  <2>2. j \notin found
      BY <1>2, <2>1
  <2> QED BY <2>1, <2>2
<1>4. IsFirstFound(find, m)
    BY <1>3 DEF IsFirstFound
<1> QED BY <1>4

(* A file found that the database gives for its name is the one the         *)
(* databases together give for that name.                                   *)
LEMMA MergedFindConsistent ==
    ASSUME FilesOK, NEW find, MergedFind(find) # NoFile,
           \A i \in Sources : find[i] # NoFile => Filed(i, find[i])
    PROVE  MergedFindFileByName(MergedFind(find).name) = MergedFind(find)
<1> DEFINE file  == FirstFound(find)
           IsFinder(i) == find[i] = file /\ \A j \in 1 .. (i - 1) : find[j] = NoFile
           first == CHOOSE i \in Sources : IsFinder(i)
           hidden == \E j \in 1 .. (first - 1) : FindFile(j, file.name) # NoFile
<1>1. MergedFind(find) = IF file # NoFile /\ hidden THEN NoFile ELSE file
    BY DEF MergedFind
<1>2. MergedFind(find) = file /\ file # NoFile /\ ~hidden
    BY <1>1
<1>3. PICK m : IsFirstFound(find, m)
    BY <1>2, FirstFoundExists
<1>4. file = find[m] /\ m \in Sources
    BY <1>3, FirstFoundFacts DEF IsFirstFound
<1>5. IsFinder(m)
    BY <1>3, <1>4 DEF IsFirstFound
<1>6. first \in Sources /\ IsFinder(first)
    BY <1>4, <1>5
<1> HIDE DEF file, first
<1>7. first = m
  <2>1. first \in Nat /\ m \in Nat
      BY <1>4, <1>6, SourceFacts
  <2>2. ~(first < m)
    <3>1. first < m => first \in 1 .. (m - 1)
        BY <2>1, <1>4, <1>6, SourceFacts
    <3> QED BY <1>2, <1>5, <1>6, <3>1
  <2>3. ~(m < first)
    <3>1. m < first => m \in 1 .. (first - 1)
        BY <2>1, <1>4, <1>6, SourceFacts
    <3> QED BY <1>2, <1>4, <1>6, <3>1
  <2> QED BY <2>1, <2>2, <2>3
<1>8. Filed(m, file) /\ file \in Protos
    BY <1>2, <1>4 DEF Filed
<1>9. FindFile(m, file.name) = file
    BY <1>8 DEF FindFile, Filed
<1> DEFINE byName == [i \in Sources |-> FindFile(i, file.name)]
<1>10. IsFirstFound(byName, m)
  <2>1. \A j \in 1 .. (m - 1) : j \in Sources /\ FindFile(j, file.name) = NoFile
      BY <1>2, <1>4, <1>7, SourceFacts
  <2> QED BY <1>2, <1>4, <1>9, <2>1 DEF IsFirstFound
<1>11. MergedFindFileByName(file.name) = file
  <2>1. FirstFound(byName) = byName[m]
      BY <1>10, FirstFoundFacts
  <2> QED BY <1>4, <1>9, <2>1 DEF MergedFindFileByName
<1> QED BY <1>2, <1>11

(* A file found by symbol or by extension in a MergedDescriptorDatabase is  *)
(* the one it gives for the file's name, for any number of databases, any   *)
(* files and names, and whatever a refused Add() left in the indexes.       *)
THEOREM MergedAlwaysConsistent == Spec => []MergedConsistent
<1>1. IndexInv /\ FiledInv => MergedConsistent
  <2> SUFFICES ASSUME IndexInv, FiledInv
               PROVE  MergedConsistent
      OBVIOUS
  <2>1. FilesOK
      BY DEF FiledInv
  <2>2. ASSUME NEW q \in Queries,
               MergedFind([i \in Sources |-> FindSymbol(by_symbol_[i], q)]) # NoFile
        PROVE  LET file == MergedFind([i \in Sources |-> FindSymbol(by_symbol_[i], q)])
               IN  MergedFindFileByName(file.name) = file
    <3> DEFINE find == [i \in Sources |-> FindSymbol(by_symbol_[i], q)]
    <3>1. ASSUME NEW i \in Sources, find[i] # NoFile
          PROVE  Filed(i, find[i])
      <4> DEFINE map == by_symbol_[i]
                 key == FindLastLessOrEqual(map, q)
      <4>1. find[i] = FindSymbol(map, q)
          OBVIOUS
      <4>2. DOMAIN map # {} /\ find[i] = map[key]
          BY <3>1, <4>1 DEF FindSymbol
      <4>3. DOMAIN map \in SUBSET Seq(Int) /\ IsFiniteSet(DOMAIN map) /\ q \in Seq(Int)
          BY NamesAssumption DEF IndexInv, SymbolsOK, ValidNames, FiledInv, KeysOK
      <4>4. key \in DOMAIN map
          BY <4>2, <4>3, SearchFacts
      <4> HIDE DEF key
      <4> QED BY <4>2, <4>4 DEF FiledInv, KeysOK
    <3>2. MergedFind(find) # NoFile
        BY <2>2
    <3> HIDE DEF find
    <3>3. MergedFindFileByName(MergedFind(find).name) = MergedFind(find)
        BY <2>1, <3>1, <3>2, MergedFindConsistent
    <3> QED BY <3>3 DEF find
  <2>3. ASSUME NEW i \in Sources, NEW key \in DOMAIN by_extension_[i],
               MergedFind([j \in Sources |-> IF key \in DOMAIN by_extension_[j]
                                             THEN by_extension_[j][key] ELSE NoFile]) # NoFile
        PROVE  LET file == MergedFind([j \in Sources |-> IF key \in DOMAIN by_extension_[j]
                                                     THEN by_extension_[j][key] ELSE NoFile])
               IN  MergedFindFileByName(file.name) = file
    <3> DEFINE find == [j \in Sources |-> IF key \in DOMAIN by_extension_[j]
                                          THEN by_extension_[j][key] ELSE NoFile]
    <3>1. \A j \in Sources : find[j] # NoFile => Filed(j, find[j])
        BY DEF FiledInv, ExtensionsOK
    <3>2. MergedFind(find) # NoFile
        BY <2>3
    <3> HIDE DEF find
    <3>3. MergedFindFileByName(MergedFind(find).name) = MergedFind(find)
        BY <2>1, <3>1, <3>2, MergedFindConsistent
    <3> QED BY <3>3 DEF find
  <2> QED BY <2>2, <2>3 DEF MergedConsistent
<1> QED BY <1>1, IndexInvariant, FiledInvariant, PTL

(* AddSymbol's test of the neighbours keeps prefixes out of the map         *)
(* whenever some key sorts before the new name.                             *)
THEOREM ConflictsAlwaysRefused == Spec => ConflictsRefused
<1> DEFINE A(i) == \A n \in DOMAIN by_symbol_'[i] \ DOMAIN by_symbol_[i] :
                      Prefixless(by_symbol_[i]) /\ (\E k \in DOMAIN by_symbol_[i] : Less(k, n))
                          => Prefixless(by_symbol_'[i])
<1>1. IndexInv /\ FiledInv /\ [Next]_vars => \A i \in Sources : A(i)
  <2> SUFFICES ASSUME IndexInv, FiledInv, [Next]_vars, NEW i \in Sources,
                      NEW n \in DOMAIN by_symbol_'[i] \ DOMAIN by_symbol_[i],
                      Prefixless(by_symbol_[i]),
                      NEW k \in DOMAIN by_symbol_[i], Less(k, n)
               PROVE  Prefixless(by_symbol_'[i])
      OBVIOUS
  <2>1. by_symbol_' # by_symbol_
      OBVIOUS
  <2>2. AddSymbol /\ ~Refuse
      BY <2>1 DEF Next, vars, AddFile, AddSymbol, AddExtension, AddReturns, Refuse
  <2>3. PICK j, p, key : j = adding.source /\ p = adding.file /\ key = Entry.key
      OBVIOUS
  <2>4. /\ adding # NotAdding /\ ~Conflict(by_symbol_[j], key) /\ ValidateSymbolName(key)
        /\ by_symbol_' = [by_symbol_ EXCEPT ![j] = InsertIfNotPresent(by_symbol_[j], key, p)]
      BY <2>2, <2>3 DEF AddSymbol, Adds
  <2>5. j \in Sources
      BY <2>3, <2>4 DEF FiledInv, UnderWayOK
  <2>6. Inserts(by_symbol_, by_symbol_', j, key, p)
    <3>1. DOMAIN by_symbol_ = Sources
        BY DEF FiledInv, KeysOK
    <3> QED BY <2>4, <2>5, <3>1, InsertOne, Zenon
  <2>7. i = j /\ n = key /\ DOMAIN by_symbol_'[i] = DOMAIN by_symbol_[i] \cup {n}
      BY <2>6 DEF Inserts
  <2>8. DOMAIN by_symbol_[i] \subseteq ValidNames /\ IsFiniteSet(DOMAIN by_symbol_[i])
      BY DEF IndexInv, SymbolsOK, FiledInv, KeysOK
  <2>9. n \in ValidNames
    <3>1. IndexInv'
        BY IndexNext
    <3> QED BY <3>1 DEF IndexInv, SymbolsOK
  <2> QED BY <2>4, <2>7, <2>8, <2>9, PrefixlessKept
<1>2. Spec => [][\A i \in Sources : A(i)]_vars
    BY <1>1, IndexInvariant, FiledInvariant, PTL DEF Spec
<1> QED BY <1>2 DEF ConflictsRefused
=============================================================================
