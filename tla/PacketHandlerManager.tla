------------------------ MODULE PacketHandlerManager ------------------------
(***************************************************************************)
(* The class PacketHandlerManager (PacketHandlerManager.h): a table from   *)
(* protocol numbers to packet functors, filled while the static object is  *)
(* constructed, read for every packet, and cleared by the destructor.      *)
(*                                                                         *)
(* The table has UINT16_MAX entries and is indexed with a uint16, so one   *)
(* index lies just behind it.  `beyond` is the word found there.           *)
(***************************************************************************)
EXTENDS PacketBuffer

CONSTANTS Protocols,       \* the protobuf classes handlers are declared for
          ProtocolNumbers, \* the numbers they are registered under
          NoFunctor,       \* a null pointer
          Garbage,         \* a word behind the table that is not null
          MaxRegisters     \* bound: calls of Register made by Initialize

ASSUME RegistrationAssumption ==
    /\ ProtocolNumbers \subseteq Uint16
    /\ NoFunctor \notin Protocols
    /\ Garbage \notin Protocols \cup {NoFunctor}
    /\ MaxRegisters \in Nat

VARIABLES phase,           \* of the object: "constructing", "in use", "gone", "aborted"
          packetFunctors,  \* the table
          beyond,          \* the word behind it
          result,          \* what the last Register or Handle returned
          called,          \* what the last Handle called: <<packetNo, functor>>
          registered       \* history: the calls of Register, in order

tableVars == <<phase, packetFunctors, beyond, result, called, registered>>

TableSize == Uint16Range - 1
Indices   == 0 .. (TableSize - 1)

Cleared == [n \in Indices |-> NoFunctor]

TableInit ==
    /\ phase = "constructing"
    /\ packetFunctors = Cleared
    /\ beyond \in {NoFunctor, Garbage}
    /\ result = TRUE
    /\ called = << >>
    /\ registered = << >>

(* packetFunctors[n], unchecked. *)
Slot(n) == IF n \in Indices THEN packetFunctors[n] ELSE beyond

(* Mutant: the test for an earlier registration is dropped. *)
RefusedByRange(n) == n > TableSize

(* The two early returns of Register. *)
Refused(n) == n > TableSize \/ Slot(n) # NoFunctor

Register(protoBuf, n) ==
    /\ phase = "constructing"
    /\ Len(registered) < MaxRegisters
    /\ result' = ~Refused(n)
    /\ packetFunctors' = IF n \in Indices /\ ~Refused(n)
                         THEN [packetFunctors EXCEPT ![n] = protoBuf]
                         ELSE packetFunctors
    /\ beyond' = IF n \notin Indices /\ ~Refused(n) THEN protoBuf ELSE beyond
    /\ registered' = Append(registered, <<n, protoBuf>>)
    /\ UNCHANGED <<phase, called>>

(* The constructor returns when Initialize has made its last call. *)
Initialized ==
    /\ phase = "constructing"
    /\ phase' = "in use"
    /\ UNCHANGED <<packetFunctors, beyond, result, called, registered>>

(***************************************************************************)
(* Handle a packet.  The functor's own answer, a parse error or the        *)
(* handler's, is free here.  A call through Garbage ends the program.      *)
(***************************************************************************)
Handle(packetNo) ==
    /\ phase = "in use"
    /\ called' = IF Slot(packetNo) = NoFunctor THEN << >>
                                               ELSE <<packetNo, Slot(packetNo)>>
    /\ result' \in IF Slot(packetNo) = NoFunctor THEN {FALSE} ELSE BOOLEAN
    /\ phase' = IF Slot(packetNo) = Garbage THEN "aborted" ELSE phase
    /\ UNCHANGED <<packetFunctors, beyond, registered>>

(* A debug build checks the index of an array and stops the program. *)
IndexAborts ==
    /\ \/ phase = "constructing" /\ TableSize \in ProtocolNumbers
       \/ phase = "in use"
    /\ phase' = "aborted"
    /\ UNCHANGED <<packetFunctors, beyond, result, called, registered>>

Destroy ==
    /\ phase = "in use"
    /\ phase' = "gone"
    /\ packetFunctors' = Cleared
    /\ UNCHANGED <<beyond, result, called, registered>>

TableNext ==
    \/ \E protoBuf \in Protocols, n \in ProtocolNumbers : Register(protoBuf, n)
    \/ Initialized
    \/ \E packetNo \in Uint16 : Handle(packetNo)
    \/ IndexAborts
    \/ Destroy

TableSpec == TableInit /\ [][TableNext]_tableVars

-----------------------------------------------------------------------------
(* The table maps every index to a functor or to null. *)
TableTypeOK ==
    /\ phase \in {"constructing", "in use", "gone", "aborted"}
    /\ packetFunctors \in [Indices -> Protocols \cup {NoFunctor}]
    /\ beyond \in Protocols \cup {NoFunctor, Garbage}
    /\ result \in BOOLEAN

(* f is what the first call of Register with number n named, or null when  *)
(* there was none.                                                         *)
FirstRegistered(n, f) ==
    IF f = NoFunctor
    THEN \A k \in 1 .. Len(registered) : registered[k][1] # n
    ELSE \E k \in 1 .. Len(registered) :
            /\ registered[k] = <<n, f>>
            /\ \A j \in 1 .. (k - 1) : registered[j][1] # n

(* What is found for a number: what it was registered for first, or, for   *)
(* the one behind the table, the word that lay there.                      *)
Dispatches(n, f) == FirstRegistered(n, f) \/ (n = TableSize /\ f = Garbage)

(***************************************************************************)
(* A packet number is dispatched to the class that was registered for it   *)
(* first, whatever Register was called with before and after, and to       *)
(* nothing if there is none.  The number behind the table is no exception: *)
(* Register takes it and Handle serves it, unless the word found there is  *)
(* not null, which is then called instead of any class.                    *)
(***************************************************************************)
DispatchFollowsRegistration ==
    /\ TableTypeOK
    /\ called # << >> => Dispatches(called[1], called[2])
    /\ phase = "in use" => \A n \in Uint16 : Dispatches(n, Slot(n))
=============================================================================
