# ServerStudy: specifications and proofs

ServerStudy is a chat server (`MServer`) and its test client (`ecoClient`). They
speak packets (`PacketSize`, `PacketNo`, protobuf payload) over one TCP
connection. The protobuf runtime they link with is vendored in the repository. This
directory models the two programs and the parts of the runtime that their messages go
through in TLA+, checks small instances with TLC, and proves with TLAPS, for every value of
the constants, what the packet buffer, the handler table, the server, the client, the lazy
initialization, the coded and the input streams, the message parser and the descriptor index
promise.

## The system

The programs:

| Part | State | Operations | Correct when |
|---|---|---|---|
| `PacketBuffer` (Shared) | 65535-byte array, `readPos`, `writePos` | `AppendBuffer`, `SetPacket`, `ConsumePacket`, `Clear`, queries | it is a FIFO of bytes, compaction is invisible, nothing is written past the array (but see item 2 of the differences below) |
| `PacketHandlerManager` | table of `UINT16_MAX` functors | `Register`, `Handle`, `ClearPacketFunctors` | a number is dispatched to the class registered for it |
| `SessionBase`/`ClientSession` | `client_sock`, `recvBuffer`, `sendBuffer` | `InitSession`, `OnRecv`, `SendPacket`, `CloseSession` | packets are cut out of the stream whole and in order; replies leave whole, in order, to the client that asked |
| chat handler | static `count` | reply = message, comma, `++count` | one reply per request |
| `ServerSession`, `NetworkEngine` | listening socket, WSA | `InitWSA`, `InitSocket`, `Bind`, `Listen` | the server listens only after all four succeeded |
| `main.cpp` | the one `ClientSession`, `buf` | accept, recv, close, for ever | every client gets its turn |
| `ecoClient` | socket, two buffers | read a line, send, echo replies | the line and nothing else is sent; replies are all echoed |

The protobuf runtime (`Lib/protobuf/include/google/protobuf`):

| Part | State | Operations | Correct when |
|---|---|---|---|
| `stubs/once`, `stubs/common`, `generated_message_reflection`, the generated `_protobuf_*` functions | once words, mutexes, singletons, shutdown functions | `GoogleOnceInit`, `OnShutdown`, `GetPrototype`, `LogSilencer`, `ShutdownProtobufLibrary` | each singleton is made once and before its first use, nobody waits for ever, shutdown deletes everything once |
| `CodedInputStream` | buffer pointers, limits, byte counts | reads, skips, varints, tags, `PushLimit`, `SetTotalBytesLimit`, destructor | no byte beyond a limit is delivered, whatever the chunks; unread bytes go back |
| `CodedOutputStream`, `CopyingOutputStreamAdaptor`, `FileOutputStream` | buffer window, byte counts, error flags | writes, `Skip`, `Flush`, `Close`, destructors | the file is a prefix of what was written and a loss is reported |
| `ArrayInputStream`, `FileInputStream`, `ConcatenatingInputStream`, `LimitingInputStream` | positions, backed-up bytes, limit | `Next`, `BackUp`, `Skip` | put together they are one stream |
| `MergePartialFromCodedStream`, `WireFormatLite` | call stack, limit, recursion depth, last tag | reading and skipping fields | exactly the well-formed messages are accepted, unknown fields are kept |
| varint and ZigZag codec | none | fast and slow readers and writers | they agree with the definition of the encoding |
| `SimpleDescriptorDatabase`, `MergedDescriptorDatabase` | files by name, symbol and extension | `Add`, lookups | what was accepted is found |

The server has one thread and serves one client at a time. What is hard there is what
happens between its blocking calls: the stream is cut anywhere, peers close or
reset while packets wait in a buffer, `send()` fails, buffers fill up, and the
one session object with both its buffers outlives every connection. There is no
persistence and no timer. In the runtime it is the interleaving of threads in the lazy
initialization, the many fast and slow paths over buffers cut anywhere, failures in the
middle of a write or read, and counters at their limits.

The parts are layers. `main.cpp` calls `InitSession`, `OnRecv` and `CloseSession`
on the one `ClientSession`; `OnRecv` appends to `recvBuffer` and calls
`PacketHandlerManager::Handle` once per whole packet; the functor parses the
payload (the message parser over a `CodedInputStream` over a flat array), consumes the
packet and calls the chat handler; the handler calls
`SendPacket`, which goes through `sendBuffer`. `ecoClient` is a `main()` that uses
two `PacketBuffer`s directly. The two programs share nothing but the connection. The
generated files register with the descriptor database when the programs start.

## Modules

| Module | What it is | Extends |
|---|---|---|
| `PacketBuffer` | the class as operators on a record `[buffer, pad, readPos, writePos]`; no state | |
| `ByteQueue` | what the class promises: a bounded queue of bytes, and what it loses when a header claims less than a header (abstract specification) | |
| `PacketBufferSpec` | one object and every sequence of its public calls; refines `ByteQueue` | `PacketBuffer` |
| `PacketBufferProofs` | lemmas about the class, `SendPacket`, the client's operators, packets in a stream and `FlattenSeq`; the theorems about `PacketBufferSpec` | `PacketBufferSpec`, `EcoClient` |
| `PacketHandlerManager` | the handler table from construction to destruction | `PacketBuffer` (widths) |
| `ClientSession` | `SendPacket`, the head of `OnRecv`, the Chat message and the reply, as operators | `PacketBuffer` |
| `MServer` | the server as a state machine, with TCP and the peers around it | `ClientSession` |
| `MServerProofs` | the theorems about `MServer`, its handler table and `EcoSystem` | `EcoSystem`, `PacketHandlerManager`, `PacketBufferProofs` |
| `EcoClient` | the client's steps as operators on a record `[pc, sendBuffer, recvBuffer]` | `ClientSession` |
| `EcoClientSpec` | one client against a user and a server that do anything | `EcoClient` |
| `EcoClientProofs` | the theorems about `EcoClientSpec` | `EcoClientSpec`, `PacketBufferProofs` |
| `EcoSystem` | clients and server together | `MServer`, `EcoClient` |
| `LibraryInit` | threads in the lazy initialization of protobuf, and its shutdown | |
| `LibraryInitProofs` | the theorems about `LibraryInit` | `LibraryInit` |
| `LimitedReader` | what `CodedInputStream` promises: a cursor that stops at the nearest limit (abstract) | |
| `CodedInputStream` | the class over every chunking of its input; refines `LimitedReader` | |
| `CodedInputStreamProofs` | the theorems about `CodedInputStream` and `MessageParser` | `CodedInputStream`, `MessageParser` |
| `CodedOutputStream` | coded streams over one file whose `write()` may fail | |
| `CodedOutputStreamProofs` | the theorems about `CodedOutputStream` | `CodedOutputStream` |
| `ZeroCopyInput` | what `zero_copy_stream.h` promises of an input stream (abstract) | |
| `InputStreams` | array, file, concatenating and limiting streams put together; refines `ZeroCopyInput` | |
| `InputStreamsProofs` | the theorems about `InputStreams` | `InputStreams` |
| `MessageParser` | the recursive parser of a generated message, and the skipping of unknown fields | |
| `Varint` | the codec's arithmetic at scaled widths | |
| `DescriptorIndex` | the index of the descriptor databases | |
| `DescriptorIndexProofs` | the theorems about `DescriptorIndex` | `DescriptorIndex` |
| `MC*` | instances for TLC | |

Operators introduced by a comment "Mutant:" stand next to
the definition they distort. No specification uses them; they show that a property
notices the error (`PROJECT.json`, "mutants"). A module's `TypeOK` (`BufferTypeOK`,
`ParserTypeOK`) is a conjunct of the invariant its run names first.

### Correspondence with the code

`PacketBuffer`: one operator per member function, under its name. Functions that
return `bool` and change the object yield `[ok, pb]`. `ReArrange`, the unchecked
header copies, the conversion of sizes to `uint16` and the stale bytes above
`writePos` are all there.

`MServer`: `pc` is where `_tmain` stands. A step is one blocking call with what
follows it up to the next, or one turn of `OnRecv`'s loop:

| Action | Code |
|---|---|
| `StartupSucceeds`, `StartupFails` | `InitWSA`, `InitSocket`, `Bind`, `Listen`, each may fail and ends the program |
| `Accept`, `AcceptFails` | `ClientSession::InitSession`; the buffers are not cleared |
| `RecvData`, `RecvNothing`, `RecvFails` | `recv()` returning data, 0, `SOCKET_ERROR`; `RecvFails` includes `CloseSession` |
| `HandleChat` | `Handle` with its parse, `ConsumePacket`, the handler, `SendPacket` |
| `HandleFails`, `HandleAborts`, `DispatchDone` | the other ways out of a turn of `OnRecv`'s loop |
| `Connect`, `PeerSends`, `PeerCloses`, `PeerResets` | the peers and TCP (external) |

`EcoClientSpec` and `EcoSystem` do the same for `ecoClient.cpp`: `ReadsLine` or
`ClientReads` is one turn of the outer loop up to the first `recv()`, `Receives` or
`ClientReceives` one turn of the inner loop.

`LibraryInit`: a library function is the sequence of accesses to shared memory that it
executes (load or swap a once word, lock, make an object, push a deleter, ...), and a call
is concatenation, so `code[t]` is what thread `t` still has to do. The loads,
the swap, the spin and the release of `GoogleOnceInitImpl` are an action each. `Main` runs
the static initializers before the threads start; `ShutdownProtobufLibrary` requires, as its
comment does, that no other thread is in the library.

`CodedInputStream`: `cis` has the members of the class. A method that stays in the
buffer is one step. One that crosses buffers is a call (`call`) that `ReadLoop`,
`DecodeFromArray` or `ReadVarint64Slow` carries on, one step per buffer or byte. `inp` is the
input under it, which returns any chunk; `flat` is the constructor for arrays.

`CodedOutputStream`: `cos`, `out` and `file` are the three objects on top of each other.
`AdaptorNext` and `WriteBuffer` give every outcome of `write()`: all, or a part and then an error.

`InputStreams`: the operators named after a class and a method are that method;
`NextChunk`, `BackUp`, `Skip`, `Limit` and `Unlimit` are the calls of the user on the
outermost stream and go down through all layers.

`MessageParser`: `frames` is the C++ call stack of `MergePartialFromCodedStream` and
`SkipMessage`; each action is one turn of a frame's loop. `skipper` chooses between the
two field skippers of the library.

`DescriptorIndex`: `AddFile` begins an `Add()`, `AddSymbol` and `AddExtension` index one entry
each and may refuse, `AddReturns` ends it. What a refused `Add()` indexed before stays.

The variables described as history (among them `asked`, `session`, `replies`, `refused`,
`input`, `inbound`, `outbound`, `overrun`, `done`, `passed`, `parsed`, `accepted`) are read by no guard of
a program's step, except by the bounds, and by the callers' rule that `BackUp()` follows `Next()`.

### Abstractions

- *Widths.* A byte has `ByteBase` values and a `uint16` has `ByteBase^2`; with 256 these
  are the program's. `MAX_BUF_SIZE`, the table size, the wrap-around of sizes and the
  array of `MAX_BUF_SIZE + 1` bytes in `main.cpp` follow, so every off-by-one of the
  program is one of the model. The theorems hold for every `ByteBase >= 3`.
- *Chat.* In the programs' modules the protobuf encoding is a tag byte and the message. The
  length is left out because the payload's size repeats it. A payload that is empty or leads
  with another byte does not parse; that is all those programs distinguish.
- *Format.* The reply is the message, a comma and the digits of the count, so it
  grows as the program's does. The count is unbounded here; it would wrap at 2^32,
  long after any dialogue has outgrown its buffer.
- *Memory the program has not written* is `Junk`: the byte behind the array (`pad`) and
  what a read past the object finds. The word behind the handler table is null or not.
  With a checked (debug) `std::array` that access ends the program: `IndexAborts`,
  `HandleAborts`.
- *TCP.* A stream per connection and direction. `recv()` returns any non-empty prefix,
  a graceful close ends the stream after its last byte, a reset discards what is under
  way. `send()` takes all it is given or fails: the sockets are blocking. A blocking
  `send()` to a peer that never reads is not modelled.
- *Bytes of a stream* in `CodedInputStream`, `InputStreams` and `CodedOutputStream` are
  their positions, so that a lost, repeated or misplaced one shows. `CodedInputStream`
  keeps of a byte's value only whether it continues a varint; `IntMax` stands for `INT_MAX`
  and is smaller than the stream, so that the overflow path is taken.
- *Messages* in `MessageParser` are sequences of tokens: a tag with its value or length, an
  end-group tag, a zero byte. Lengths count tokens.
- *Memory order.* `LibraryInit` is sequentially consistent. The acquire and release pairs of
  `once.cc` are what justifies that for the words it models.
- A step that changes nothing, such as spinning on a closed connection, on a once word or at
  the end of the client's input, is a stuttering step.

## What is checked

| Run | Bounds | Shows |
|---|---|---|
| `packet_buffer` | 8-byte array, chunks of 0, 1, 3 and 8 bytes, payloads of 0, 1 and 4 to 9 | all calls in all orders: when a header overruns the array and what it leaves; until then positions ordered and refinement of `ByteQueue` |
| `handler_table` | table of 8, 2 classes, 4 registrations, the number behind the table included | numbers are dispatched to the first class registered, and to none otherwise; the number behind the table is one of them, unless the word there is not null |
| `server_sessions` | 15-byte buffers, 2 peers, 2 packets each, some with the number behind the table | received bytes are conserved across chunks and connections; replies leave whole and in order, and all late after a failed `send()`; a full `sendBuffer` mutes the server; a refused packet blocks this and every later connection; the backlog is served if nobody stays; requests are handled |
| `eco_client` | 8-byte buffers, 2 lines (one `fgets()` cuts, one that starts with NUL), 3 replies | lines and replies intact and in order, unsent packets stay first, back to the prompt after a close or reset |
| `eco_system` | 8-byte buffers, 2 clients, lines of one character and of four | one message at a time, so no chunk is lost and no reply left behind; both wait only at the limit, and every dialogue ends so unless the connection goes or something failed before |
| `library_init` | 2 threads beside `main`, one call each | nothing used before it is made, no race, one registration, everything deleted once; every call returns |
| `coded_input` | 6 bytes, chunks of at most 3, `INT_MAX` = 5, total limit 2, 4 or 5, 2 limits pushed | pointers and counts agree, nothing is read past a buffer or a limit, the destructor repositions the input; refinement of `LimitedReader` |
| `coded_output` | blocks of 3, at most 7 bytes over any number of coded streams | no `CHECK` fails, the file is a prefix of what was written, flushed is delivered, losses reported, byte counts exact |
| `input_streams` | an array, an empty pipe, a file and a pipe, 8 bytes in all | refinement of `ZeroCopyInput` until a call fails; no `CHECK` fails; no byte comes twice whatever fails |
| `message_parser` | all inputs of at most 5 of 11 tokens, recursion limit 2, both skippers | accepts exactly the grammar; saves unknown fields as they were |
| `varint` | 2 digit bits to a byte, 9 and 19 bits for `uint32` and `uint64` | every writer writes the one shortest encoding; every reader reads what it stands for; signed numbers come back |
| `descriptor_index` | 2 databases, 6 files with conflicting, nested and invalid names | accepted symbols are found; prefixes are refused; merged lookups agree |

Why the bounds suffice: two connections are enough for one to inherit what another
left in the one session object. 8 bytes hold one packet and part of another in every
alignment; the sizes of the packets with payloads of 5 to 8 bytes wrap to 0 to 3, and the run
reaches the overrun with each of them in each room that lets it pass. 15 hold two replies and no third, so unsent replies can fill a buffer, and
refused packets leave too little room for the next connection's, so chunks are lost. A
line of one character makes a reply that just fits 8 bytes, and the next does not; the packet
of a line of four is longer than the client's own buffer. A
stream of 6 bytes in chunks of 1 to 3 has buffers that end before, at and after a
limit, a varint and `INT_MAX`. Two threads suffice for one to wait for the
other's closure; what a third could add is a second waiter. Five tokens hold a submessage
in a group in a message and the ends that do not match. The files of `descriptor_index`
have each kind of relation between two names: equal, below, before, behind, and
separated by a character that sorts before the dot.

`CHECK_DEADLOCK FALSE` is set where a program may have exited or an object may be
destroyed, or where a program waits for a peer or a user who need never act. `packet_buffer`,
`input_streams` and `library_init` check deadlock.

### Fairness

Only the programs' own threads are fair: each keeps running when it is not blocked
in a call. Peers, users, closes, resets and kills are never forced. In `MServer` and the
client's modules the conditions
(`ServerReady`, `ClientReady`) are `ENABLED` of the threads' state-changing steps written
out, because TLC evaluates `ENABLED` of these actions very slowly; they follow the
blocking calls: `accept()` without a connection, `recv()` with nothing to return,
`fgets()` without a line. In `LibraryInit` it is `WF_vars(Execute(t))` for each thread: the
scheduler lets a runnable thread proceed. Weak fairness is enough although a mutex may be
taken again and again, because each thread makes finitely many calls. `BacklogServed` is
conditional on clients leaving: a client
that keeps its connection, or closes it gracefully, keeps the server, because
`main.cpp` does not leave its loop when `recv()` returns 0.

### Where the code and its comments differ

The models follow the code. Where a comment or an interface says otherwise, the property
concerned has a premise or a case for it, named here.

In the programs:

1. `Register` (PacketHandlerManager.h:82) compares a `uint16` with the size 65535
   using `>`. Number 65535 is outside the table and is not refused, but stored in and called
   from the word behind it (`Dispatches`).
2. `SetPacket` (PacketBuffer.h:36) computes the packet's size in a `uint16` and writes
   the header before it knows that the payload fits. A message whose packet has 65536
   bytes leaves a header of size 0; from then on `SendPacket` sends nothing and returns
   true (`PutHeader` of `ByteQueue`; `replies.misfit` and `outbound.misfit` in the
   programs' modules). With fewer than 4 bytes of room the header does not fit either, but a
   wrapped size of 0 to 3 passes the test of the room (PacketBuffer.h:42), `SetPacketSize` and
   `SetPacketNo` (PacketBuffer.cpp:154 and :162) copy past the array, onto the byte behind it
   and, with a room of 0 or 2 bytes, onto `readPos`;
   `writePos` wraps, the payload is stored over the front of the array, and `SetPacket` returns
   true. An example: `readPos = writePos = 65534` and a message of 65532 bytes, whose size is
   0. The test that logs "Not enough remain buffer." and the one in `SetPacketSize` that logs
   "packet size is bigger than MAX_BUF_SIZE" let it pass. This is the finding of
   `PROJECT.json`; `OverrunsExactly` states it, and `PositionsOrdered` and
   `ImplementsByteQueue` hold up to it.
3. `ecoClient.cpp:56` removes the last character of what `fgets()` returned. Of a line
   longer than the array that is not the newline (the premise of `LinesIntact`).

In the protobuf runtime:

4. `LogMessage::Finish` calls the handler after it released the mutex that the silencer is
   tested under; common.h:781-783 says that no message is logged while a silencer exists
   (`TestSilencer`).
5. `GetDirectBufferPointer` returns true with an empty buffer at a limit
   (coded_stream.cc:226); coded_stream.h:183-184 promises false (`LimitedReader!Peek`).
6. `ExpectAtEnd` at the total limit (coded_stream.h:984) and the treatment of a stream that
   ends exactly there (coded_stream.cc:391-395), which is refused as too long
   (`LimitedReader!ExpectAtEnd`, `TagAtEnd`).
7. The constructor for arrays (coded_stream.h:1186) does not apply the total limit that
   coded_stream.h:335-336 describes (`FlatSizes` of the run are within it).
8. A coded stream made over an output that has failed does not have `HadError()` at once, as
   the comment at coded_stream.cc:595-597 supposes, and `CopyingOutputStreamAdaptor::Next`
   returns buffers after a failure again (zero_copy_stream_impl_lite.cc:344 against
   zero_copy_stream.h:194-195) (`~begun.failed` in `LossReported`).
9. `lseek()` goes past the end of a file without an error (zero_copy_stream_impl.cc:157 against
   zero_copy_stream.h:165-168), and a failed `Skip()` is not remembered
   (zero_copy_stream_impl_lite.cc:297 against zero_copy_stream.h:135-136) (`Undisturbed` in
   `ImplementsZeroCopyInput`).
10. `CodedOutputStreamFieldSkipper::SkipUnknownEnum` (wire_format_lite.cc:278) writes the field
    number where a tag belongs (`Verbatim`).
11. A submessage whose length reaches past the message around it is accepted
    (wire_format_lite_inl.h:446); message_lite.h:116-117 says that parsing returns false "if the
    input is in the wrong format" (`lim` in `Fields`).
12. `AddSymbol` (descriptor_database.cc:119) adds a name that is a prefix of others when all keys
    sort behind it; descriptor_database.h:185-186 says that the map never has such keys
    (the premise of `ConflictsRefused`, and `Prefixless` in `LookupComplete`).

Passing runs state further behaviour a maintainer should know: `RepliesInOrder` after a
failed `send()`, `FullSendBufferMutes`, `RefusedPacketBlocks` and `DialogueStalls` describe
states the programs do not leave by themselves.

## What is proved

Each theorem states a property that a run checks on a small instance, for every value of the
constants that satisfies the module's assumption. Where modules are proved about together, the
names of one begin with its own (`BufferSpec`, `TableSpec`, `ParserSpec`). Each rests on an inductive invariant, which
TLC checked on the run's instance before it was proved; the lemma per action that the
invariant is kept is called after the action (`HandleFailsKeeps`, `FillBufferInv`, ...).

### The packet buffer

`PacketBufferProofs`, for every `ByteBase >= 3` and every set of chunks, payloads and
packet numbers that satisfies `InputAssumption` (they are bytes and `uint16` values, and a
chunk's length is one too). Nothing is assumed of the packets' sizes:

| Theorem | Statement |
|---|---|
| `OrderedPositions` | `BufferSpec => []PositionsOrdered`, the type invariant included |
| `OverrunsAlwaysExact` | `BufferSpec => OverrunsExactly` |
| `QueueRefinement` | `BufferSpec => ImplementsByteQueue` |

The inductive invariant `BufferInv` is: the object has its type, and until a header overruns
the array `readPos <= writePos <= MAX_BUF_SIZE`. `BufferTypeOK` alone would not do: without the
order of the positions the sizes computed from them wrap, and a copy may start
anywhere. There is one lemma per operation (`ReArrangeFacts`, `StoreFacts`,
`MakeRoomFacts`, `SetHeaderFacts`, `AppendBufferFacts`, `SetPacketFacts`, `ConsumePacketFacts`),
which says what the operation does to the unread bytes, the positions and `pad`; they rest on
arithmetic lemmas about the two digits of a `uint16` (`Digits`, `BytesOfFacts`, `ValueOfFacts`).
`MisfitFacts` says what `SetPacket` keeps of a packet that can not be queued, `FitsFacts` that one
that can never overruns, and `OverrunFacts` what an overrun leaves, for any object of the
type (`StoreTwoFacts` and `HeaderOverrunFacts` follow the two copies over the edge). After an
overrun only the type is known, and it is kept by the lemmas whose names end in `Type`.
`BufferStepFacts` combines them: a step from `BufferInv` keeps `BufferInv`, changes `pad` only if
a header overruns, and is a step of `ByteQueue` on `QueueBytes`, the unread bytes.

### The server

`MServerProofs`, for any peers, any number of requests, every byte width and every request that
is a packet (`ServerAssumption`: it leads with its own length):

| Theorem | Statement |
|---|---|
| `RequestsAlwaysInOrder` | `Spec => []RequestsInOrder`, the type invariant included |
| `RepliesAlwaysInOrder` | `Spec => []RepliesInOrder` |
| `RefusedPacketAlwaysBlocks` | `Spec => []RefusedPacketBlocks` |
| `FullSendBufferAlwaysMutes` | `Spec => FullSendBufferMutes` |

The histories of the properties are sequences of packets, the buffers hold bytes. The invariant
connects the two: `Handled` says that what a clean connection carried is the concatenation of
whole requests (`Received`), so that the unread bytes can only be continued to the next
request; without that, the packet `OnRecv` cuts out next would be any bytes. `Queued` adds to
`RepliesInOrder` that each reply made is a packet, so that the front of `sendBuffer` is the
first reply not sent. `Blocked` adds to `RefusedPacketBlocks` that the packet refused is
framed and still refusable, since `Handle` looks at `recvBuffer` again on every `recv()`;
`NothingBehindRefused` follows. `Connected` (a connection is once in the backlog or the
client) and `UnderWay` (nothing a peer sent is read before it is the client) are what
`Accept` needs.

Whether a packet is at the front of a stream rests on lemmas about `FlattenSeq`, which the
community modules define with a recursive function. `PacketBufferProofs` shows its existence
(`ConcatsExist`), its uniqueness and its laws (`FlattenAppend`, `FlattenHead`, `FlattenConcat`),
and the same for the digits of the count (`NumeralFacts`), from the least element of a set of
naturals (`SetInduction`).

The handler table, in the same module, for every table size, every set of classes and numbers (the one
behind the table included, whose word is filled and called like an entry unless it is not null) and any number of registrations (`RegistrationAssumption`):

| Theorem | Statement |
|---|---|
| `DispatchCorrect` | `TableSpec => []DispatchFollowsRegistration`, the type invariant included |

The property speaks of the packets handled so far and of a table in use. The inductive
invariant adds that the table follows the registrations from the constructor on, for
numbers no packet has had yet, and that nothing is called while it is filled; the
latter keeps a later registration from changing what an earlier call was measured by.

### The client

`EcoClientProofs`, for every set of lines that end in their only newline, every set of framed
replies and every byte width (`ClientAssumption`):

| Theorem | Statement |
|---|---|
| `LinesAlwaysIntact` | `Spec => []LinesIntact`, the type invariant included |
| `RepliesAlwaysTakenInOrder` | `Spec => []RepliesTakenInOrder` |
| `PacketsAlwaysSentInOrder` | `Spec => []PacketsSentInOrder` |

`Entered` says that `stdin` is a sequence of whole lines whenever `fgets()` is called, which is
true only of lines that fit the array and hold no NUL (`Readable`, the premise of
`LinesIntact`). `Taken` and `Sent` are `Received` and `Waiting` of the same lemmas as the
server's. `Connecting` keeps a client that has not started from receiving.

### Clients and server together

At the end of `MServerProofs`, for any number of clients, any lines typed and every byte width
(`InputsAssumption`, `ServerAssumption`):

| Theorem | Statement |
|---|---|
| `OneWayAlways` | `SysSpec => []OneWayAtATime` |
| `NoChunkEverLost` | `SysSpec => NoChunkLost` |
| `StallsAlwaysAtLimit` | `SysSpec => []StallsOnlyAtLimit` |

The bytes of one dialogue are in four places: the two sockets and the two `recvBuffer`s.
`Dialogue` joins them to two sequences, `Pending` towards the server and `Returned` towards the
client, and says that one of them is empty. It holds (`Exchange`) because what a program hands
to `send()` is one packet, or too short to say a length, whatever is in its `sendBuffer`
(`PacketBytesLone`); because a client that is at its prompt, or never connected, has nothing
under way; and because a client that waits has no whole packet in its `recvBuffer`. That a
reply handed to `send()` is the reply just made needs `Answering`, the server's invariant about
`sendBuffer`: with no failure before, it is empty between two requests. From `Dialogue` each
theorem follows in a few steps. `Pending` is one packet and a packet's length is a `uint16`, so
a chunk always fits (`ChunkFits`); and bytes that are one packet and have all arrived are a
packet to take (`FramedAble`), so nobody waits while there is one.

The invariant speaks of the peers nobody has served yet (`Unserved`) and of the client of an
undisturbed connection (`Watched`). Nothing is claimed of a connection after a failure on an
earlier one, since the session object inherits what was left in its buffers. `Only` and `Calm`
say which peers a step does not concern.

### The lazy initialization

`LibraryInitProofs`, for every finite set of threads and any number of calls each
(`LibraryAssumption`):

| Theorem | Statement |
|---|---|
| `ReturnedMeansMade` | `Spec => []NothingUsedBeforeMade`, the type invariant included |
| `AccessesExcluded` | `Spec => []RaceFree` |
| `TypesRegisteredOnce` | `Spec => []RegisteredOnce` |
| `AllDeletedOnce` | `Spec => []DeletedOnce` |

What may go wrong later depends on what the threads have still to execute, so the invariant
is about programs. `Sound(s, objects, holds, missing)` says of a program `s`, run from a
state in which `objects` exist and its thread holds `holds`: each instruction finds the object it
needs made, by then or by an instruction before it (`Provided`); it has the mutex that guards what it
accesses, where only the factory's mutex is held across a call of `GoogleOnceInit` (`Guarded`); the
types are registered only after a look under the same lock (`Looked`); a jump leaves out no
step that must not be (`Jumps`); who makes an object registers its deleter, once (`Registered`,
`PushesOnce`), and a silencer is uncounted (`Paired`). `Programs` is that every thread's rest is sound.
Each part has a lemma for the rest of a program and one for two in a row (`ProvidedTail`,
`ProvidedConcat`, ...), which is what makes a call, a return and the closure that the winner of a
race puts in front of its program cases of one argument (`SoundTail`, `SoundInFront`); the
functions of the library are shown sound one by one (`ClosuresSound`, `EntriesSound`).

`Ready` is the promise of a once word: DONE means that the objects behind it exist, and only the
thread that won may store it, so a loser that sees DONE is `Provided`. `Deleters` says that
an object's deleter is in the vector or still to be pushed by exactly one thread, `Silencers` that
the count is the number of threads in a silencer's life (which is where the set of
threads must be finite), and `Stages` what holds while `main()` has not begun
and after the shutdown.

### The coded streams

`CodedInputStreamProofs`, for every stream, every way the input cuts it, every `INT_MAX`, all
counts and limits that an `int` can hold, and arrays within the default limit
(`StreamAssumption`):

| Theorem | Statement |
|---|---|
| `PositionAlwaysExact` | `Spec => []PositionExact` |
| `InputAlwaysRepositioned` | `Spec => []InputRepositioned` |
| `StreamImplementsReader` | `Spec => ImplementsLimitedReader` |

`Sound` relates the members of the object to each other and to the input (what is hidden behind
the nearest limit, what overflowed, what the last `Next()` returned), `Nested` the limits that
`PushLimit()` returned, and `Progress` what a method that crosses buffers has done so far. The
invariant does not hold of a stream skipped to the end of its input by a count beyond it;
`Lost` is what holds there, and `Gone` after the destructor. The refinement has
one lemma per action (`ReadLoopSimulates`, ...): it is the abstract call or a stutter. The
proof of `PopLimitSimulates` needs that the limits on the abstract stack only narrow,
which is the part `Nested`.

`CodedOutputStreamProofs`, for every size of the adaptor's buffer and every set of sizes written or
skipped (`OutputAssumption`):

| Theorem | Statement |
|---|---|
| `ChecksNeverFail` | `Spec => []NoCheckFails`, the type invariant included |
| `FileAlwaysPrefix` | `Spec => []FileIsPrefix` |
| `LossAlwaysReported` | `Spec => []LossReported` |

The invariant speaks also of the moments between two turns of a loop. `Carried`: the file and the used
part of the adaptor's buffer are the client's bytes up to the ones the loop has left, or an error
has cut them off. `Window`: the coded stream's window is the end of the adaptor's buffer, which
is why nothing but the destructor need give it back. `Counted`, `Reported` and `Delivered` are the
counts, the error and the flush. Each operation of the adaptor has a lemma
(`WriteBufferFacts`, `NextFacts`, `RefreshedFacts`) for every outcome of `write()`.

### The input streams

`InputStreamsProofs`, for any number of streams of any sizes and blocks, any limits and counts and
every outcome of `read()` and `lseek()` (`LeavesAssumption`):

| Theorem | Statement |
|---|---|
| `StreamsNeverCrash` | `Spec => []NoCheckFails`, the type invariant included |
| `StreamsDeliverOnce` | `Spec => NothingTwice` |
| `StreamsAreOneStream` | `Spec => ImplementsZeroCopyInput` |

The inductive invariant has three parts. `Sound` says of each stream that it has read what its
buffer holds (`Good`), that the ones not reached yet are untouched, and that none of those
still to be asked has failed (`Live`). `Exact`, until a call fails, is that a stream is done
only when all of it was read, so that `bytes_retired` is where the next one starts; `TypeOK`
says nothing of the streams left behind. `Ready` is what makes a `BackUp()` legal all the way
down: what was returned last, with what a limit cut off it, is still in the buffer
of the stream that returned it (`Fresh`), and nothing was delivered that lies behind.

A call of the concatenation asks one stream after the other. Each class has a lemma for its
`Next()`, `Skip()` and `BackUp()` with every outcome of the system call (`ArrayNextFacts`,
`AdaptorNextFacts`, `AdaptorSkipFacts`, ...); `Asked` is what holds of a call under way between two streams,
`AskNextFacts` and `AskSkipFacts` carry it over one, and `LoopFacts` over all of them, by induction
on the number asked. The limit is added last (`HiddenFacts`, `LimitKept`, `UnlimitKept`). In the
refinement the cursor of `ZeroCopyInput` is the count of the concatenation less what the limit
hides (`Pos`), its end the limit or the end of all bytes (`End`); a limit set or removed moves only
the end.

The model states the loop over the streams and the sum of their sizes (`Start`) as recursive
functions over naturals, whose existence is proved like that of `FlattenSeq`; a function over the
stream sets themselves would have no such induction.

### The message parser

At the end of `CodedInputStreamProofs`, for every set of tokens, inputs of any length, every recursion
limit and both skippers (`ParserAssumption`):

| Theorem | Statement |
|---|---|
| `ParserAcceptsExactly` | `ParserSpec => []AcceptsExactly`, the type invariant included |
| `ParserSavesVerbatim` | `ParserSpec => []SavedVerbatim` |

`Fields` defines the well-formed inputs by recursion on spans of tokens, without a stack. The proof
has first to show that the recursive function exists (`TurnsExist`: a span asks only about spans that begin
later), which gives the unfolding `AreFacts`: a span is a sequence of fields if it is
empty, or begins with one (`Is`) and goes on as a sequence of fields.

The parser does have a stack, and the invariant `ParserInv` connects the two. A frame is a level: what is
being read, and the limit in force. `Rest(in, lv, x, q)` says that the input from `q` on can
complete the levels `1 .. x`: there are places where each closes, in order, with nothing but fields
between (`Closes`), and from the last on the first level runs to the end. The
invariant is that, while the parser runs, the whole input is a message exactly if `Rest` holds of
its stack and position. Nothing weaker is inductive, since a rejection must be
right for every way the input could have been cut into fields. `RestStep` is the key: what is left begins
with a field of the innermost level, or with its end tag. From it follows one lemma per kind of
token (`RestOfValue`, `RestOfBytes`, `RestOfMessage`, `RestOfGroup`, `RestOfEnd`,
`RestAtLimit`), which says how `Rest` moves on, and that a submessage or a group is the same
question asked of a stack with one more level (`RestInMessage`, `RestInGroup`, `RestAlike`).
`ParserShape` adds that limits only narrow and that the depth is the height of the stack.

`Kept` is `SavedVerbatim` at every position: an increasing map from what is saved to the tokens
read that set no field (`KeptSet`, `KeptMore`).

### The descriptor index

`DescriptorIndexProofs`, for every alphabet in which the dot sorts before the letters, every set
of files, every set of names looked up and any number of databases (`NamesAssumption`):

| Theorem | Statement |
|---|---|
| `LookupIsComplete` | `Spec => []LookupComplete`: the argument written in descriptor_database.h |
| `DeclaredSymbolsAreFound` | `Spec => []DeclaredSymbolsFound` |
| `MergedAlwaysConsistent` | `Spec => []MergedConsistent` |
| `ConflictsAlwaysRefused` | `Spec => ConflictsRefused` |

`LookupIsComplete` is about the order of names: between a name and the names below it only
names below it can sort (`BetweenIsBelow`), because the dot is the least character a valid name
has. It needs of the state only that all keys are valid, `SymbolsOK`. `DeclaredSymbolsAreFound`
does not assume the map free of prefixes, which the code does not ensure; it holds because a
key present is its own last key not greater. Its invariant `IndexInv` adds for the `Add()`
under way that the entries before the next one are in the map under the file (`AddingOK`),
and for each accepted file that all are (`AcceptedOK`); `InsertKeeps` says that
later files do not displace them.

`ConflictsAlwaysRefused` is why two neighbours are enough: the order is total (`LessTotal`), the
keys are finitely many, so that there is a last one before and a first one behind a
name (`EndsExist`, by induction on their number), and a conflict further away would have
another between (`NoKeyAbove`, `NoKeyBelow`). `MergedAlwaysConsistent` rests on `FiledInv`: every
symbol and extension, also one that a refused `Add()` left, leads to a file that the same
database gives for its name.

### Only model-checked

- `Varint`: `EncodingExact` and `ReadersExact` compare shifts and exclusive ors with a
  recursively defined encoding. The module is built on `Bitwise`, whose operators are `RECURSIVE`, and
  the provers do not handle a module that reaches one. Its runs go through every value at the scaled widths.
- All liveness (`CallsReturn` of `LibraryInit` among it). The provers have no rule for `ENABLED` and fairness.

The library's induction theorems take an operator as parameter, which the provers cannot
instantiate. Where a proof needs induction it is over a set: the numbers up to a bound
for which a statement fails have a least element (`SetInduction`, `NumberInduction`).

## Not modelled

- In the programs: `log.h` and fmt (output only); the statements after the endless loops of
  both programs, with `ServerSession::CloseSession` and `ReleaseWSA` (unreachable); project files.
- In the modelled parts of protobuf: the extension registry, the warning threshold and the
  tag fast paths (`ReadTagWithCutoff`, `ExpectTag`) of `CodedInputStream`; `WriteAliasedRaw`,
  `StringOutputStream`, `ArrayOutputStream` and the iostream wrappers; `Close()` of the
  input streams; packed fields and field values in the parser; `FindAllExtensionNumbers`
  and the encoded database.
- The rest of the vendored tree, most of the repository's 122,000 lines: the compiler and its
  generators (another program), the descriptor builder, reflection, text format, dynamic
  messages, generated accessors and unit tests. Neither program calls them, except
  for the building of descriptors at start-up, or they are sequential code whose
  state is large and whose correctness is that of each single function. This is why the
  map covers a small share of the repository's lines although the programs' own
  code is covered nearly whole.

## Plan

Done: the packet buffer, the handler table, the server, the client, their composition, and the
parts of the runtime under them, with proofs for all but the codec. Every safety property and every
refinement that a run checks is a theorem, `Varint`'s two excepted. Next, in this order:

1. The codec without `Bitwise`: shifts and masks as quotients and remainders, so that the shortest
   encoding can be proved for every width.
2. `DescriptorPool` with its fallback database and the rollback of a file that fails to build;
   the recycling of cleared elements in `RepeatedPtrField`; cached sizes.
