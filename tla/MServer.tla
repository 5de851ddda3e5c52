------------------------------- MODULE MServer -------------------------------
(***************************************************************************)
(* The chat server MServer: main.cpp with ServerSession, NetworkEngine and *)
(* the one ClientSession object it reuses for every connection, against    *)
(* peers that connect, send packets, close and reset their connections at  *)
(* any moment.                                                             *)
(*                                                                         *)
(* The server is one thread: it starts up, accepts a connection, and       *)
(* receives and answers on it until recv() fails.  Each blocking call and  *)
(* each packet handled is one step, so the peers' steps fall between them. *)
(***************************************************************************)
EXTENDS ClientSession, SequencesExt

CONSTANTS Peers,        \* the programs that connect
          NoPeer,       \* no connection
          Requests,     \* the packets peers send, as byte sequences
          MaxRequests,  \* bound: packets a peer sends
          Junk          \* values of memory the program has not written

ASSUME ServerAssumption ==
    /\ NoPeer \notin Peers
    /\ Requests \subseteq Seq(Byte) /\ \A packet \in Requests : Framed(packet)
    /\ MaxRequests \in Nat
    /\ Junk \subseteq Byte /\ Junk # {}

VARIABLES
    pc,          \* where main() is
    retval,      \* what the last recv() returned: data, none (0), an error
    recvBuffer, sendBuffer,   \* of the ClientSession object
    count,       \* the handler's static counter
    client,      \* the peer of client_sock
    backlog,     \* connections not accepted yet
    link,        \* per peer: the state of its connection, and bytes under way
    asked,       \* history: the packets each peer sent
    session,     \* history of the current connection, see BeginSession
    replies,     \* history of SendPacket, see HandleChat
    refused      \* history: the packet Handle refused last, if any

buffers    == <<recvBuffer, sendBuffer, count>>
serverVars == <<pc, retval, buffers, client>>
net        == <<backlog, link>>
history    == <<asked, session, replies, refused>>
vars       == <<serverVars, net, history>>

Startup == <<"InitWSA", "InitSocket", "Bind", "Listen", "accept">>

Init ==
    /\ pc = Startup[1]
    /\ retval = "data"
    /\ \E pad \in Junk : recvBuffer = Constructed(pad) /\ sendBuffer = Constructed(pad)
    /\ count = 0
    /\ client = NoPeer
    /\ backlog = << >>
    /\ link = [p \in Peers |-> [state |-> "idle", up |-> << >>]]
    /\ asked = [p \in Peers |-> << >>]
    /\ session = [arrived |-> << >>, taken |-> << >>, clean |-> TRUE]
    /\ refused = << >>
    /\ replies = [made |-> << >>, sent |-> << >>, failed |-> FALSE, misfit |-> FALSE]

-----------------------------------------------------------------------------
(* Peers and TCP, external. *)

Listening == pc \in {"accept", "recv", "dispatch"}

Connect(p) ==
    /\ Listening
    /\ link[p].state = "idle"
    /\ link' = [link EXCEPT ![p].state = "open"]
    /\ backlog' = Append(backlog, p)
    /\ UNCHANGED <<serverVars, history>>

PeerSends(p, packet) ==
    /\ link[p].state = "open"
    /\ Len(asked[p]) < MaxRequests
    /\ link' = [link EXCEPT ![p].up = @ \o packet]
    /\ asked' = [asked EXCEPT ![p] = Append(@, packet)]
    /\ UNCHANGED <<serverVars, backlog, session, replies, refused>>

(* A graceful close: recv() returns what is under way, and then 0. *)
PeerCloses(p) ==
    /\ link[p].state = "open"
    /\ link' = [link EXCEPT ![p].state = "fin"]
    /\ UNCHANGED <<serverVars, backlog, history>>

(* A reset, which discards what is under way: calls on the socket fail. *)
PeerResets(p) ==
    /\ link[p].state \in {"open", "fin"}
    /\ link' = [link EXCEPT ![p] = [state |-> "reset", up |-> << >>]]
    /\ UNCHANGED <<serverVars, backlog, history>>

PeerNext == \E p \in Peers : \/ Connect(p)
                             \/ \E packet \in Requests : PeerSends(p, packet)
                             \/ PeerCloses(p)
                             \/ PeerResets(p)

-----------------------------------------------------------------------------
(* The server. *)

(* InitWSA, then ServerSession::InitSession, which calls the other three. *)
StartupSucceeds ==
    \E i \in 1 .. 4 :
        /\ pc = Startup[i]
        /\ pc' = Startup[i + 1]
        /\ UNCHANGED <<retval, buffers, client, net, history>>

(* main() returns -1 when a stage of the start fails. *)
StartupFails ==
    /\ \E i \in 1 .. 4 : pc = Startup[i]
    /\ pc' = "exit"
    /\ UNCHANGED <<retval, buffers, client, net, history>>

(***************************************************************************)
(* The history of a connection: arrived holds what was left in recvBuffer  *)
(* and what OnRecv has put into it since, taken the packets handled; clean *)
(* says that nothing was left and that OnRecv has lost nothing.            *)
(***************************************************************************)
BeginSession == [ arrived |-> Unread(recvBuffer),
                  taken   |-> << >>,
                  clean   |-> Unread(recvBuffer) = << >> ]

(* ClientSession::InitSession.  The buffers are left as they are. *)
Accept ==
    /\ pc = "accept" /\ backlog # << >>
    /\ link[Head(backlog)].state # "reset"
    /\ client' = Head(backlog)
    /\ backlog' = Tail(backlog)
    /\ pc' = "recv"
    /\ session' = BeginSession
    /\ UNCHANGED <<retval, buffers, link, asked, replies, refused>>

(* Mutant: main() returns when accept() fails. *)
AcceptFailsExits ==
    /\ pc = "accept" /\ backlog # << >>
    /\ link[Head(backlog)].state = "reset"
    /\ backlog' = Tail(backlog)
    /\ pc' = "exit"
    /\ UNCHANGED <<retval, buffers, client, link, history>>

(* accept() fails on a connection reset in the backlog; main() tries again. *)
AcceptFails ==
    /\ pc = "accept" /\ backlog # << >>
    /\ link[Head(backlog)].state = "reset"
    /\ backlog' = Tail(backlog)
    /\ UNCHANGED <<serverVars, link, history>>

(* recv() of n bytes into the MAX_BUF_SIZE + 1 of buf, and OnRecv up to its *)
(* loop.                                                                    *)
Recv(n) ==
    LET up    == link[client].up
        bytes == SubSeq(up, 1, n)
        r     == OnRecv(recvBuffer, bytes)
    IN  /\ link' = [link EXCEPT ![client].up = SubSeq(up, n + 1, Len(up))]
        /\ retval' = "data"
        /\ recvBuffer' = r.pb
        /\ pc' = IF r.ok THEN "dispatch" ELSE "recv"
        /\ session' = IF r.ok THEN [session EXCEPT !.arrived = @ \o bytes]
                              ELSE [session EXCEPT !.clean = FALSE]
        /\ UNCHANGED <<sendBuffer, count, client, backlog, asked, replies, refused>>

RecvData ==
    /\ pc = "recv"
    /\ \E n \in 1 .. (MAX_BUF_SIZE + 1) : n <= Len(link[client].up) /\ Recv(n)

(* recv() returns 0: OnRecv refuses the empty chunk and main() calls again. *)
RecvNothing ==
    /\ pc = "recv"
    /\ link[client].state = "fin" /\ link[client].up = << >>
    /\ retval' = "none"
    /\ recvBuffer' = OnRecv(recvBuffer, << >>).pb
    /\ UNCHANGED <<pc, sendBuffer, count, client, net, history>>

(* recv() fails: main() leaves the loop and calls CloseSession. *)
RecvFails ==
    /\ pc = "recv"
    /\ link[client].state = "reset"
    /\ retval' = "error"
    /\ link' = [link EXCEPT ![client].state = "closed"]
    /\ client' = NoPeer
    /\ pc' = "accept"
    /\ UNCHANGED <<buffers, backlog, history>>

(* Mutant: main() leaves its inner loop as well. *)
DispatchDoneLeaves ==
    /\ pc = "dispatch"
    /\ ~IsAbleToGetPacket(recvBuffer)
    /\ pc' = "accept"
    /\ UNCHANGED <<retval, buffers, client, net, history>>

(* OnRecv's loop ends: no whole packet is left. *)
DispatchDone ==
    /\ pc = "dispatch"
    /\ ~IsAbleToGetPacket(recvBuffer)
    /\ pc' = "recv"
    /\ UNCHANGED <<retval, buffers, client, net, history>>

(* IMPLEMENT_INITIALIZE(ClientSession): the numbers with a handler. *)
Registered == {PC2S_Chat}

(* The two ways Handle fails: no functor, or a payload it can not parse.    *)
(* OnRecv returns and the packet stays where it is.                         *)
Unhandled(junk) == \/ GetPacketNo(recvBuffer) \notin Registered
                   \/ ~ParsesAsChat(Payload(recvBuffer, junk))

(* Mutant: the refused packet is consumed. *)
HandleFailsConsumes(junk) ==
    /\ pc = "dispatch"
    /\ IsAbleToGetPacket(recvBuffer)
    /\ Unhandled(junk)
    /\ pc' = "recv"
    /\ refused' = PacketBytes(recvBuffer, junk)
    /\ recvBuffer' = ConsumePacket(recvBuffer)
    /\ UNCHANGED <<retval, sendBuffer, count, client, net, asked, session, replies>>

HandleFails(junk) ==
    /\ pc = "dispatch"
    /\ IsAbleToGetPacket(recvBuffer)
    /\ Unhandled(junk)
    /\ pc' = "recv"
    /\ refused' = PacketBytes(recvBuffer, junk)
    /\ UNCHANGED <<retval, buffers, client, net, asked, session, replies>>

(* The number behind the table finds what is there, see                     *)
(* PacketHandlerManager: the program may be gone.                           *)
HandleAborts ==
    /\ pc = "dispatch"
    /\ IsAbleToGetPacket(recvBuffer)
    /\ GetPacketNo(recvBuffer) = Uint16Range - 1
    /\ pc' = "aborted"
    /\ UNCHANGED <<retval, buffers, client, net, history>>

(***************************************************************************)
(* The chat handler counts and sends its reply; it ignores what SendPacket *)
(* returns.  The history: the replies SetPacket took (made) and those      *)
(* send() took (sent), each with the peer connected then; whether a send   *)
(* ever failed, and whether a reply ever was too long for the buffer.      *)
(***************************************************************************)
ChatHandler(msg, junk) ==
    LET payload == ReplyPayload(msg, count + 1)
        up      == link[client].state # "reset"
        r       == SendPacket(sendBuffer, PS2C_Chat, payload, up, junk)
        queued  == SetPacket(sendBuffer, PS2C_Chat, payload).ok
    IN  /\ count' = count + 1
        /\ sendBuffer' = r.pb
        /\ replies' =
              [ made   |-> IF queued
                           THEN Append(replies.made, <<client, PacketOf(PS2C_Chat, payload)>>)
                           ELSE replies.made,
                sent   |-> IF r.ok THEN Append(replies.sent, <<client, r.sent>>)
                                   ELSE replies.sent,
                failed |-> replies.failed \/ (queued /\ ~r.ok),
                misfit |-> replies.misfit \/ ~Fits(payload) ]

(* The guards of a successful PacketFunctor::Handle, and its history. *)
Handles(junk) ==
    /\ pc = "dispatch"
    /\ IsAbleToGetPacket(recvBuffer)
    /\ ~Unhandled(junk)
    /\ session' = [session EXCEPT !.taken = Append(@, PacketBytes(recvBuffer, junk))]
    /\ ChatHandler(ParseChat(Payload(recvBuffer, junk)), junk)
    /\ UNCHANGED <<retval, client, net, asked, refused>>

(* Mutant: the packet is not consumed. *)
HandleChatKeeps(junk) == Handles(junk) /\ UNCHANGED <<pc, recvBuffer>>

(* Mutant: OnRecv handles one packet and returns. *)
HandleChatOnce(junk) ==
    Handles(junk) /\ recvBuffer' = ConsumePacket(recvBuffer) /\ pc' = "recv"

(* PacketFunctor::Handle parses and consumes the packet and calls the       *)
(* handler, and OnRecv's loop goes on.                                      *)
HandleChat(junk) ==
    Handles(junk) /\ recvBuffer' = ConsumePacket(recvBuffer) /\ UNCHANGED pc

ServerNext == \/ StartupSucceeds
              \/ StartupFails
              \/ Accept
              \/ AcceptFails
              \/ RecvData
              \/ RecvNothing
              \/ RecvFails
              \/ DispatchDone
              \/ \E junk \in Junk : HandleFails(junk) \/ HandleChat(junk)
              \/ HandleAborts

Next == PeerNext \/ ServerNext

(***************************************************************************)
(* The server's thread runs; nothing is assumed of the peers.  Fairness is *)
(* WF_vars(ServerNext) with ENABLED written out: the thread is blocked in  *)
(* accept() without a connection and in recv() without anything to return; *)
(* on a gracefully closed connection it runs, and changes nothing more.    *)
(***************************************************************************)
ServerReady ==
    \/ \E i \in 1 .. 4 : pc = Startup[i]
    \/ pc = "accept" /\ backlog # << >>
    \/ pc = "recv" /\ \/ link[client].up # << >>
                      \/ link[client].state = "reset"
                      \/ link[client].state = "fin" /\ retval # "none"
    \/ pc = "dispatch"

Fairness == []<>~ServerReady \/ []<><<ServerNext>>_vars

Spec == Init /\ [][Next]_vars /\ Fairness

-----------------------------------------------------------------------------
(* Properties. *)

(* The state keeps its type. *)
TypeOK ==
    /\ pc \in Range(Startup) \cup {"recv", "dispatch", "exit", "aborted"}
    /\ retval \in {"data", "none", "error"}
    /\ recvBuffer \in PacketBuffers /\ sendBuffer \in PacketBuffers
    /\ count \in Nat
    /\ client \in Peers \cup {NoPeer}
    /\ backlog \in Seq(Peers)
    /\ link \in [Peers -> [state : {"idle", "open", "fin", "reset", "closed"},
                           up    : Seq(Byte)]]

(***************************************************************************)
(* However recv() cuts the stream into chunks and wherever recvBuffer is   *)
(* compacted, the packets OnRecv handles on a connection and the bytes it  *)
(* keeps are exactly the bytes it put into recvBuffer, together with those *)
(* an earlier connection left there.  On a connection that began with an   *)
(* empty recvBuffer and on which no chunk was lost, the packets handled    *)
(* are the first ones the peer sent, in its order, and the rest is in      *)
(* recvBuffer or under way.                                                *)
(***************************************************************************)
RequestsInOrder ==
    /\ TypeOK
    /\ session.arrived = FlattenSeq(session.taken) \o Unread(recvBuffer)
    /\ client # NoPeer /\ session.clean =>
          /\ IsPrefix(session.taken, asked[client])
          /\ link[client].state # "reset" =>
                session.arrived \o link[client].up = FlattenSeq(asked[client])

(***************************************************************************)
(* Replies leave in the order they were made, each whole and once, and     *)
(* those not sent are in sendBuffer: over all connections and all failures *)
(* of send(), as long as no reply outgrew the buffer.  Until a send()      *)
(* fails every reply goes to the peer that asked for it; a failure is      *)
(* never made up for, and sendBuffer holds a late reply from then on.      *)
(***************************************************************************)
RepliesInOrder ==
    ~replies.misfit =>
        LET bytes == [i \in 1 .. Len(replies.made) |-> replies.made[i][2]]
            n     == Len(replies.sent)
        IN  /\ n <= Len(bytes)
            /\ \A i \in 1 .. n : replies.sent[i][2] = bytes[i]
            /\ Unread(sendBuffer) = FlattenSeq(SubSeq(bytes, n + 1, Len(bytes)))
            /\ IF replies.failed THEN Unread(sendBuffer) # << >>
                                 ELSE replies.sent = replies.made

(***************************************************************************)
(* When the replies left in sendBuffer leave no room for the shortest      *)
(* reply, SetPacket fails before anything is sent, so sendBuffer never     *)
(* drains: the server is mute for the rest of its life.                    *)
(***************************************************************************)
ShortestReply == PacketOf(PS2C_Chat, ReplyPayload(<< >>, 0))

FullSendBufferMutes ==
    [][ ~replies'.misfit /\ GetBufferSize(sendBuffer) + Len(ShortestReply) > MAX_BUF_SIZE
        => Unread(sendBuffer') = Unread(sendBuffer) /\ replies'.sent = replies.sent ]_vars

(***************************************************************************)
(* A packet with a whole header that Handle refuses stays at the front of  *)
(* recvBuffer for ever, on this connection and on all later ones: nothing  *)
(* behind it is handled.                                                   *)
(***************************************************************************)
RefusedPacketBlocks ==
    Len(refused) >= GetHeaderSize => IsPrefix(refused, Unread(recvBuffer))

(***************************************************************************)
(* A reset connection frees the server: if no client keeps its connection  *)
(* for ever, open or closed gracefully, every peer in the backlog gets its *)
(* turn, whatever failed before it.                                        *)
(***************************************************************************)
BacklogServed ==
    []<>(client = NoPeer \/ link[client].state = "reset") =>
        \A p \in Peers : (p \in Range(backlog)) ~> (p \notin Range(backlog) \/ pc = "aborted")

(***************************************************************************)
(* Every request sent on a clean connection is handled, unless the         *)
(* connection is reset, a chunk is lost, or a packet was refused or ended  *)
(* the program.                                                            *)
(***************************************************************************)
RequestsHandled ==
    \A p \in Peers, n \in 1 .. MaxRequests :
        (client = p /\ session.clean /\ Len(asked[p]) >= n)
            ~> \/ client = p /\ Len(session.taken) >= n
               \/ link[p].state = "reset" \/ client # p
               \/ ~session.clean
               \/ refused # << >> \/ pc = "aborted"
==============================================================================
