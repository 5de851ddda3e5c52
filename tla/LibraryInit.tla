---------------------------- MODULE LibraryInit -----------------------------
(***************************************************************************)
(* The lazy initialization of the protobuf runtime: GoogleOnceInit         *)
(* (stubs/once.cc), the singletons it guards, the closures that call it    *)
(* again for the singletons they need, the mutexes taken on the way, and   *)
(* ShutdownProtobufLibrary (stubs/common.cc).                              *)
(*                                                                         *)
(* The thread Main runs the static initializers first; then every thread   *)
(* calls into the library.  What a thread has still to execute is a        *)
(* sequence of instructions, each one access to shared memory: a function  *)
(* of the library is the sequence it executes, and a call of one from      *)
(* another is concatenation.                                               *)
(***************************************************************************)
EXTENDS Naturals, Sequences, FiniteSets, SequencesExt

CONSTANTS Threads,     \* the threads of the program
          Main,        \* the one that runs the static initializers
          NoThread,    \* the holder of a free mutex
          MaxCalls     \* bound: calls into the library by each thread

ASSUME LibraryAssumption ==
    /\ Main \in Threads
    /\ NoThread \notin Threads
    /\ IsFiniteSet(Threads)
    /\ MaxCalls \in Nat

VARIABLES
    once,                 \* the ProtobufOnceType words
    held,                 \* the holder of each Mutex
    made,                 \* the objects with static duration that exist
    shutdown_functions,   \* what OnShutdown was given; each deletes an object
    type_map_,            \* how often the types of the file were registered
    log_silencer_count_,
    stage,                \* "static" initialization, "main", or "shutdown"
    code,                 \* what each thread has still to execute
    calls                 \* the calls each thread has made

shared == <<once, held, made, shutdown_functions, type_map_, log_silencer_count_>>
vars   == <<shared, stage, code, calls>>

I(op, obj) == [op |-> op, obj |-> obj]

(* The Mutex members of the pool and of the factory go by their owners.     *)
Mutexes == {"shutdown_functions_mutex", "log_silencer_count_mutex_",
            "generated_pool_", "generated_message_factory_"}

-----------------------------------------------------------------------------
(* The library's functions.                                                *)

GoogleOnceInit(o) == <<I("once", o)>>

(* Mutant: push_back without the mutex. *)
OnShutdownUnlocked(f) == GoogleOnceInit("shutdown_functions_init") \o <<I("push", f)>>

OnShutdown(f) ==
    GoogleOnceInit("shutdown_functions_init") \o
    <<I("lock", "shutdown_functions_mutex"), I("push", f), I("unlock", "shutdown_functions_mutex")>>

InitShutdownFunctions == <<I("new", "shutdown_functions"), I("new", "shutdown_functions_mutex")>>

InitLogSilencerCount ==
    <<I("new", "log_silencer_count_mutex_")>> \o OnShutdown("log_silencer_count_mutex_")

InitGeneratedPool == <<I("new", "generated_pool_")>> \o OnShutdown("generated_pool_")

InitGeneratedMessageFactory ==
    <<I("new", "generated_message_factory_")>> \o OnShutdown("generated_message_factory_")

InitEmptyString == <<I("new", "empty_string_")>> \o OnShutdown("empty_string_")

generated_pool    == GoogleOnceInit("generated_pool_init_")
singleton         == GoogleOnceInit("generated_message_factory_once_init_")

(* FindFileByName builds the descriptors under the pool's mutex.            *)
FindFileByName ==
    <<I("lock", "generated_pool_"), I("build", "generated_pool_"), I("unlock", "generated_pool_")>>

(* Mutant: the closure also takes the factory's mutex, to register its types. *)
protobuf_AssignDescRegisters ==
    singleton \o <<I("lock", "generated_message_factory_"), I("new", "reflection_"),
                   I("unlock", "generated_message_factory_")>>

protobuf_AssignDesc ==
    generated_pool \o FindFileByName \o generated_pool \o singleton \o <<I("new", "reflection_")>>

(* Executed by the static initializer; later calls return at already_here.  *)
protobuf_AddDesc ==
    generated_pool \o <<I("use", "generated_pool_")>> \o
    singleton \o <<I("use", "generated_message_factory_"), I("new", "default_instance_")>> \o
    OnShutdown("default_instance_")

protobuf_AssignDescriptorsOnce == GoogleOnceInit("protobuf_AssignDescriptors_once_")

protobuf_RegisterTypes ==
    protobuf_AssignDescriptorsOnce \o <<I("use", "default_instance_")>> \o
    singleton \o <<I("register", "generated_message_factory_")>>

(* Mutant: no second look at the type map. *)
GetPrototypeUnchecked ==
    singleton \o
    <<I("lock", "generated_message_factory_"), I("find", "generated_message_factory_"),
      I("unlock", "generated_message_factory_"), I("lock", "generated_message_factory_")>> \o
    protobuf_RegisterTypes \o <<I("unlock", "generated_message_factory_")>>

GetPrototype ==
    singleton \o
    <<I("lock", "generated_message_factory_"), I("find", "generated_message_factory_"),
      I("unlock", "generated_message_factory_")>> \o
    generated_pool \o
    <<I("lock", "generated_message_factory_"), I("find", "generated_message_factory_")>> \o
    protobuf_RegisterTypes \o <<I("unlock", "generated_message_factory_")>>

descriptor == protobuf_AssignDescriptorsOnce \o <<I("use", "reflection_")>>

GetEmptyString == GoogleOnceInit("empty_string_once_init_") \o <<I("use", "empty_string_")>>

UnderSilencerLock(op) ==
    GoogleOnceInit("log_silencer_count_init_") \o
    <<I("lock", "log_silencer_count_mutex_"), I(op, "log_silencer_count_"),
      I("unlock", "log_silencer_count_mutex_")>>

LogMessageFinish     == UnderSilencerLock("test") \o <<I("log_handler", "stderr")>>
LogSilencerConstruct == UnderSilencerLock("++")
LogSilencerDestroy   == UnderSilencerLock("--")

Closures ==
    [shutdown_functions_init              |-> InitShutdownFunctions,
     log_silencer_count_init_             |-> InitLogSilencerCount,
     generated_pool_init_                 |-> InitGeneratedPool,
     generated_message_factory_once_init_ |-> InitGeneratedMessageFactory,
     empty_string_once_init_              |-> InitEmptyString,
     protobuf_AssignDescriptors_once_     |-> protobuf_AssignDesc]

Onces == DOMAIN Closures

(* What the programs call.                                                  *)
Entries == {GetPrototype, descriptor, GetEmptyString, LogMessageFinish,
            LogSilencerConstruct \o LogSilencerDestroy}

-----------------------------------------------------------------------------
(* Executing an instruction.                                               *)

Runs(t, op) == code[t] # << >> /\ Head(code[t]).op = op
Obj(t)      == Head(code[t]).obj
Continue(t, next) == code' = [code EXCEPT ![t] = next \o Tail(code[t])]

(* The loads of once.h and then of GoogleOnceInitImpl: done, or go on.      *)
AcquireLoad(t) ==
    \E op \in {"once", "impl"} :
        /\ Runs(t, op)
        /\ Continue(t, IF once[Obj(t)] = "DONE" THEN << >>
                       ELSE IF op = "once" THEN <<I("impl", Obj(t))>> ELSE <<I("cas", Obj(t))>>)
        /\ UNCHANGED shared

RunClosure(t) ==
    /\ once' = [once EXCEPT ![Obj(t)] = "EXECUTING_CLOSURE"]
    /\ Continue(t, Closures[Obj(t)] \o <<I("store", Obj(t))>>)

(* Mutant: whoever loses the race returns without waiting. *)
CompareAndSwapNoWait(t) ==
    /\ Runs(t, "cas")
    /\ IF once[Obj(t)] = "UNINITIALIZED" THEN RunClosure(t)
       ELSE Continue(t, << >>) /\ UNCHANGED once
    /\ UNCHANGED <<held, made, shutdown_functions, type_map_, log_silencer_count_>>

(* Mutant: the word is stored without comparing it again. *)
StoreInsteadOfSwap(t) ==
    /\ Runs(t, "cas")
    /\ RunClosure(t)
    /\ UNCHANGED <<held, made, shutdown_functions, type_map_, log_silencer_count_>>

Acquire_CompareAndSwap(t) ==
    /\ Runs(t, "cas")
    /\ IF once[Obj(t)] = "UNINITIALIZED" THEN RunClosure(t)
       ELSE Continue(t, <<I("spin", Obj(t))>>) /\ UNCHANGED once
    /\ UNCHANGED <<held, made, shutdown_functions, type_map_, log_silencer_count_>>

(* The loop's loads that still see EXECUTING_CLOSURE change nothing.        *)
SpinEnds(t) ==
    /\ Runs(t, "spin")
    /\ once[Obj(t)] # "EXECUTING_CLOSURE"
    /\ Continue(t, << >>)
    /\ UNCHANGED shared

Release_Store(t) ==
    /\ Runs(t, "store")
    /\ once' = [once EXCEPT ![Obj(t)] = "DONE"]
    /\ Continue(t, << >>)
    /\ UNCHANGED <<held, made, shutdown_functions, type_map_, log_silencer_count_>>

Lock(t) ==
    /\ Runs(t, "lock")
    /\ held[Obj(t)] = NoThread
    /\ held' = [held EXCEPT ![Obj(t)] = t]
    /\ Continue(t, << >>)
    /\ UNCHANGED <<once, made, shutdown_functions, type_map_, log_silencer_count_>>

Unlock(t) ==
    /\ Runs(t, "unlock")
    /\ held' = [held EXCEPT ![Obj(t)] = NoThread]
    /\ Continue(t, << >>)
    /\ UNCHANGED <<once, made, shutdown_functions, type_map_, log_silencer_count_>>

New(t) ==
    /\ Runs(t, "new")
    /\ made' = made \cup {Obj(t)}
    /\ Continue(t, << >>)
    /\ UNCHANGED <<once, held, shutdown_functions, type_map_, log_silencer_count_>>

Use(t) ==
    /\ \E op \in {"use", "build", "log_handler"} : Runs(t, op)
    /\ Continue(t, << >>)
    /\ UNCHANGED shared

Push(t) ==
    /\ Runs(t, "push")
    /\ shutdown_functions' = Append(shutdown_functions, Obj(t))
    /\ Continue(t, << >>)
    /\ UNCHANGED <<once, held, made, type_map_, log_silencer_count_>>

(* FindPtrOrNull on the type map: a hit unlocks and returns.                *)
Find(t) ==
    /\ Runs(t, "find")
    /\ IF type_map_ > 0 THEN code' = [code EXCEPT ![t] = <<Last(code[t])>>] ELSE Continue(t, << >>)
    /\ UNCHANGED shared

RegisterType(t) ==
    /\ Runs(t, "register")
    /\ type_map_' = type_map_ + 1
    /\ Continue(t, << >>)
    /\ UNCHANGED <<once, held, made, shutdown_functions, log_silencer_count_>>

CountSilencer(t) ==
    /\ \/ Runs(t, "++") /\ log_silencer_count_' = log_silencer_count_ + 1
       \/ Runs(t, "--") /\ log_silencer_count_' = log_silencer_count_ - 1
    /\ Continue(t, << >>)
    /\ UNCHANGED <<once, held, made, shutdown_functions, type_map_>>

(* suppress is read under the lock; the handler is called after it.         *)
TestSilencer(t) ==
    /\ Runs(t, "test")
    /\ IF log_silencer_count_ > 0
       THEN code' = [code EXCEPT ![t] = <<code[t][2]>>]
       ELSE Continue(t, << >>)
    /\ UNCHANGED shared

Execute(t) ==
    /\ \/ AcquireLoad(t) \/ Acquire_CompareAndSwap(t) \/ SpinEnds(t) \/ Release_Store(t)
       \/ Lock(t) \/ Unlock(t)
       \/ New(t) \/ Use(t) \/ Push(t)
       \/ Find(t) \/ RegisterType(t)
       \/ CountSilencer(t) \/ TestSilencer(t)
    /\ UNCHANGED <<stage, calls>>

-----------------------------------------------------------------------------
Init ==
    /\ once = [o \in Onces |-> "UNINITIALIZED"]
    /\ held = [m \in Mutexes |-> NoThread]
    /\ made = {}
    /\ shutdown_functions = << >>
    /\ type_map_ = 0
    /\ log_silencer_count_ = 0
    /\ stage = "static"
    /\ code = [t \in Threads |-> IF t = Main THEN protobuf_AddDesc ELSE << >>]
    /\ calls = [t \in Threads |-> 0]

EnterMain ==
    /\ stage = "static" /\ code[Main] = << >>
    /\ stage' = "main"
    /\ UNCHANGED <<shared, code, calls>>

Call(t) ==
    /\ stage = "main" /\ code[t] = << >> /\ calls[t] < MaxCalls
    /\ calls' = [calls EXCEPT ![t] = @ + 1]
    /\ \E f \in Entries : code' = [code EXCEPT ![t] = f]
    /\ UNCHANGED <<shared, stage>>

(* The objects a registered function deletes.                               *)
Deletes(f) == IF f = "default_instance_" THEN {"default_instance_", "reflection_"} ELSE {f}

(* Its caller must see to it that no other thread uses the library any      *)
(* more.  A second call finds shutdown_functions NULL and returns.          *)
ShutdownProtobufLibrary ==
    /\ stage # "static"
    /\ \A t \in Threads : code[t] = << >>
    /\ stage' = "shutdown"
    /\ IF "shutdown_functions" \notin made THEN UNCHANGED <<made, shutdown_functions>>
       ELSE /\ made' = made \ ((UNION {Deletes(f) : f \in ToSet(shutdown_functions)})
                               \cup {"shutdown_functions", "shutdown_functions_mutex"})
            /\ shutdown_functions' = << >>
    /\ UNCHANGED <<once, held, type_map_, log_silencer_count_, code, calls>>

Next ==
    \/ \E t \in Threads : Execute(t) \/ Call(t)
    \/ EnterMain
    \/ ShutdownProtobufLibrary

(* The scheduler lets every thread that can run proceed.                    *)
Spec == Init /\ [][Next]_vars /\ \A t \in Threads : WF_vars(Execute(t))

-----------------------------------------------------------------------------
Objects == Mutexes \cup {"shutdown_functions", "empty_string_", "default_instance_", "reflection_"}

(* The once words, mutexes and counters keep their types; a silencer is     *)
(* never uncounted twice.                                                   *)
TypeOK ==
    /\ once \in [Onces -> {"UNINITIALIZED", "EXECUTING_CLOSURE", "DONE"}]
    /\ held \in [Mutexes -> Threads \cup {NoThread}]
    /\ made \subseteq Objects
    /\ ToSet(shutdown_functions) \subseteq Objects
    /\ {type_map_, log_silencer_count_} \subseteq Nat
    /\ stage \in {"static", "main", "shutdown"}
    /\ calls \in [Threads -> 0 .. MaxCalls]

(* The object the instruction a thread is about to execute accesses.        *)
Accessed(t) == IF Runs(t, "push") THEN "shutdown_functions" ELSE Obj(t)
Accesses(t) == code[t] # << >> /\ Head(code[t]).op \in
    {"lock", "unlock", "use", "push", "build", "find", "register"}

(* Whoever returns from GoogleOnceInit finds the closure finished: no       *)
(* thread dereferences a singleton that another is still making.            *)
NothingUsedBeforeMade ==
    TypeOK /\ \A t \in Threads : Accesses(t) => Accessed(t) \in made

(* The mutexes keep apart the accesses to the vector of shutdown functions, *)
(* the type map, the pool's tables and the silencer count.                  *)
RaceFree ==
    LET At(t, ops) == \E op \in ops : Runs(t, op)
    IN  \A t, u \in Threads :
            \A ops \in {{"push"}, {"find", "register"}, {"build"}, {"++", "--", "test"}} :
                At(t, ops) /\ At(u, ops) => t = u

(* GetPrototype looks again under the writer's lock: no type is registered  *)
(* twice ("Type is already registered" is fatal in debug builds).           *)
RegisteredOnce == type_map_ <= 1

(* ShutdownProtobufLibrary deletes every object of static duration, and     *)
(* once: a closure runs once, so its deleter is registered once.            *)
DeletedOnce ==
    /\ IsInjective(shutdown_functions)
    /\ stage = "shutdown" => made = {}

(* Every call returns: no thread waits for ever for a closure that waits    *)
(* for a mutex the thread holds, or for a closure that never ends.          *)
CallsReturn == \A t \in Threads : (code[t] # << >>) ~> (code[t] = << >>)
=============================================================================
