--------------------------- MODULE DescriptorIndex --------------------------
(***************************************************************************)
(* The index of a SimpleDescriptorDatabase (descriptor_database.cc): files *)
(* by name, extensions by number, and the sorted map of top-level symbols  *)
(* in which a symbol is found by the last key not greater than it.  The    *)
(* databases of Sources are searched together as a                         *)
(* MergedDescriptorDatabase does.  Names are sequences of characters,      *)
(* because the search rests on '.' sorting before every other character a  *)
(* name may have.                                                          *)
(***************************************************************************)
EXTENDS Integers, Sequences

CONSTANTS Dot,            \* the character '.'
          Letters,        \* the other characters ValidateSymbolName accepts
          ExtensionKeys,  \* extendees with field numbers
          Protos,         \* the files added: a name and what AddFile indexes
          Queries,        \* the names looked up
          Databases,      \* the number of databases
          NoFile          \* Value(): not found

(* What AddFile indexes, in its order.                                      *)
Entries == [kind : {"symbol"}, key : Seq(Int)] \cup [kind : {"extension"}, key : ExtensionKeys]

ASSUME NamesAssumption ==
    /\ Dot \in Int /\ Letters \subseteq Int
    /\ \A c \in Letters : c > Dot
    /\ Databases \in Nat
    /\ \A q \in Queries : q \in Seq(Int)
    /\ NoFile \notin Protos
    /\ \A p \in Protos : p.entries \in Seq(Entries)

VARIABLES
    by_name_, by_symbol_, by_extension_,  \* of each database
    adding,      \* the AddFile() under way: database, file, next entry
    accepted     \* history: the files for which Add() returned true

vars == <<by_name_, by_symbol_, by_extension_, adding, accepted>>

Sources == 1 .. Databases
Empty == [n \in {} |-> NoFile]
NotAdding == [source |-> 0, file |-> NoFile, next |-> 0]

InsertIfNotPresent(map, key, value) ==
    [k \in DOMAIN map \cup {key} |-> IF k \in DOMAIN map THEN map[k] ELSE value]

-----------------------------------------------------------------------------
(* Symbols.                                                                *)

(* The order of strings: at the first difference the character is less, or  *)
(* the string has ended.                                                    *)
Less(a, b) ==
    \E i \in 1 .. Len(b) :
        /\ \A j \in 1 .. (i - 1) : j <= Len(a) /\ a[j] = b[j]
        /\ i = Len(a) + 1 \/ (i <= Len(a) /\ a[i] < b[i])
LessOrEqual(a, b) == a = b \/ Less(a, b)

IsSubSymbol(sub_symbol, super_symbol) ==
    \/ sub_symbol = super_symbol
    \/ /\ Len(sub_symbol) < Len(super_symbol)
       /\ \A i \in 1 .. Len(sub_symbol) : sub_symbol[i] = super_symbol[i]
       /\ super_symbol[Len(sub_symbol) + 1] = Dot

(* Mutant: every name is taken for valid. *)
ValidateNothing(name) == TRUE

ValidateSymbolName(name) == \A i \in 1 .. Len(name) : name[i] \in Letters \cup {Dot}

(* The key before the first one greater than the name; the first key when   *)
(* all are greater.  The map is not empty.                                  *)
FindLastLessOrEqual(map, name) ==
    LET upTo == {k \in DOMAIN map : LessOrEqual(k, name)}
    IN  IF upTo # {} THEN CHOOSE k \in upTo : \A j \in upTo : LessOrEqual(j, k)
        ELSE CHOOSE k \in DOMAIN map : \A j \in DOMAIN map : LessOrEqual(k, j)

FindSymbol(map, name) ==
    IF DOMAIN map # {} /\ IsSubSymbol(FindLastLessOrEqual(map, name), name)
    THEN map[FindLastLessOrEqual(map, name)] ELSE NoFile

(* ++iter, and whether the key there is the first one greater.              *)
Follows(map, key, next) ==
    /\ next \in DOMAIN map /\ Less(key, next)
    /\ \A k \in DOMAIN map : Less(key, k) => LessOrEqual(next, k)

(* Mutant: only the key before is looked at. *)
ConflictBefore(map, name) ==
    DOMAIN map # {} /\ IsSubSymbol(FindLastLessOrEqual(map, name), name)

Conflict(map, name) ==
    /\ DOMAIN map # {}
    /\ LET iter == FindLastLessOrEqual(map, name)
       IN  \/ IsSubSymbol(iter, name)
           \/ \E next \in DOMAIN map : Follows(map, iter, next) /\ IsSubSymbol(name, next)

-----------------------------------------------------------------------------
(* Adding a file.                                                          *)

Init ==
    /\ by_name_ = [i \in Sources |-> Empty]
    /\ by_symbol_ = [i \in Sources |-> Empty]
    /\ by_extension_ = [i \in Sources |-> Empty]
    /\ adding = NotAdding /\ accepted = [i \in Sources |-> {}]

(* Mutant: a file of the same name is replaced. *)
AddFileReplaces(i, p) ==
    /\ adding = NotAdding
    /\ by_name_' = [by_name_ EXCEPT ![i] =
           [n \in DOMAIN by_name_[i] \cup {p.name} |-> IF n = p.name THEN p ELSE by_name_[i][n]]]
    /\ adding' = [source |-> i, file |-> p, next |-> 1]
    /\ UNCHANGED <<by_symbol_, by_extension_, accepted>>

(* A name that is taken is refused before anything changes.                 *)
AddFile(i, p) ==
    /\ adding = NotAdding
    /\ p.name \notin DOMAIN by_name_[i]
    /\ by_name_' = [by_name_ EXCEPT ![i] = InsertIfNotPresent(@, p.name, p)]
    /\ adding' = [source |-> i, file |-> p, next |-> 1]
    /\ UNCHANGED <<by_symbol_, by_extension_, accepted>>

(* The first entry refused ends the call; those before it stay.             *)
Refuse == adding' = NotAdding /\ UNCHANGED <<by_name_, by_symbol_, by_extension_, accepted>>
Entry == adding.file.entries[adding.next]
Adds(kind) == /\ adding # NotAdding /\ adding.next <= Len(adding.file.entries)
              /\ Entry.kind = kind
Advance == adding' = [adding EXCEPT !.next = @ + 1]

(* Mutant: below a symbol that is there already nothing needs to be added. *)
AddSymbolCovered ==
    /\ Adds("symbol")
    /\ LET i == adding.source
           name == Entry.key
       IN  IF FindSymbol(by_symbol_[i], name) # NoFile
           THEN Advance /\ UNCHANGED <<by_name_, by_symbol_, by_extension_, accepted>>
           ELSE IF ~ValidateSymbolName(name) \/ Conflict(by_symbol_[i], name) THEN Refuse
           ELSE /\ by_symbol_' = [by_symbol_ EXCEPT ![i] = InsertIfNotPresent(@, name, adding.file)]
                /\ Advance /\ UNCHANGED <<by_name_, by_extension_, accepted>>

AddSymbol ==
    /\ Adds("symbol")
    /\ LET i == adding.source
           name == Entry.key
       IN  IF ~ValidateSymbolName(name) \/ Conflict(by_symbol_[i], name)
           THEN Refuse
           ELSE /\ by_symbol_' = [by_symbol_ EXCEPT ![i] = InsertIfNotPresent(@, name, adding.file)]
                /\ Advance /\ UNCHANGED <<by_name_, by_extension_, accepted>>

AddExtension ==
    /\ Adds("extension")
    /\ LET i == adding.source
           key == Entry.key
       IN  IF key \in DOMAIN by_extension_[i] THEN Refuse
           ELSE /\ by_extension_' = [by_extension_ EXCEPT ![i] = InsertIfNotPresent(@, key, adding.file)]
                /\ Advance /\ UNCHANGED <<by_name_, by_symbol_, accepted>>

AddReturns ==
    /\ adding # NotAdding /\ adding.next > Len(adding.file.entries)
    /\ accepted' = [accepted EXCEPT ![adding.source] = @ \cup {adding.file}]
    /\ adding' = NotAdding
    /\ UNCHANGED <<by_name_, by_symbol_, by_extension_>>

Next ==
    \/ \E i \in Sources, p \in Protos : AddFile(i, p)
    \/ AddSymbol \/ AddExtension \/ AddReturns

Spec == Init /\ [][Next]_vars

-----------------------------------------------------------------------------
(* MergedDescriptorDatabase.                                               *)

FindFile(i, name) == IF name \in DOMAIN by_name_[i] THEN by_name_[i][name] ELSE NoFile

(* find is what each database finds.                                        *)
FirstFound(find) ==
    LET found == {i \in Sources : find[i] # NoFile}
    IN  IF found = {} THEN NoFile ELSE find[CHOOSE i \in found : \A j \in found : i <= j]

MergedFindFileByName(name) == FirstFound([i \in Sources |-> FindFile(i, name)])

(* What one database finds is hidden when an earlier one has a file of that *)
(* name.                                                                    *)
MergedFind(find) ==
    LET file  == FirstFound(find)
        first == CHOOSE i \in Sources : find[i] = file /\ \A j \in 1 .. (i - 1) : find[j] = NoFile
    IN  IF file # NoFile /\ \E j \in 1 .. (first - 1) : FindFile(j, file.name) # NoFile
        THEN NoFile ELSE file

-----------------------------------------------------------------------------
(* No key of the map is a super-symbol of another.                          *)
Prefixless(map) == \A a, b \in DOMAIN map : IsSubSymbol(a, b) => a = b

(* The argument written in descriptor_database.h: in a map that has no key  *)
(* below another, the last key not greater than a name is the one the name  *)
(* belongs under, if there is any.                                          *)
LookupComplete ==
    \A i \in Sources : Prefixless(by_symbol_[i]) =>
        \A q \in Queries : \A k \in DOMAIN by_symbol_[i] :
            IsSubSymbol(k, q) => FindSymbol(by_symbol_[i], q) = by_symbol_[i][k]

(* Whatever was added before or since, refused or not, each symbol of a     *)
(* file that Add() accepted leads to that file.                             *)
DeclaredSymbolsFound ==
    \A i \in Sources : \A p \in accepted[i] : \A n \in 1 .. Len(p.entries) :
        p.entries[n].kind = "symbol" => FindSymbol(by_symbol_[i], p.entries[n].key) = p

(* AddSymbol keeps the map free of prefixes whenever some key sorts before  *)
(* the new name.                                                            *)
ConflictsRefused ==
    [][\A i \in Sources : \A n \in DOMAIN by_symbol_'[i] \ DOMAIN by_symbol_[i] :
           Prefixless(by_symbol_[i]) /\ (\E k \in DOMAIN by_symbol_[i] : Less(k, n))
               => Prefixless(by_symbol_'[i])]_vars

(* A file found by symbol or by extension in merged databases is the one    *)
(* they give for its name, also after an Add() that was refused half way.   *)
MergedConsistent ==
    /\ \A q \in Queries :
           LET file == MergedFind([i \in Sources |-> FindSymbol(by_symbol_[i], q)])
           IN  file # NoFile => MergedFindFileByName(file.name) = file
    /\ \A i \in Sources : \A key \in DOMAIN by_extension_[i] :
           LET file == MergedFind([j \in Sources |-> IF key \in DOMAIN by_extension_[j]
                                                 THEN by_extension_[j][key] ELSE NoFile])
           IN  file # NoFile => MergedFindFileByName(file.name) = file
=============================================================================
