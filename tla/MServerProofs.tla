---------------------------- MODULE MServerProofs ----------------------------
(***************************************************************************)
(* Proofs about the server, for all peers, all framed requests and every   *)
(* byte width: its requests are handled in order, its replies leave in     *)
(* order, a refused packet blocks recvBuffer and a full sendBuffer mutes   *)
(* the server; and its table of handlers dispatches as they registered.    *)
(* Last, about the server with ecoClients for its peers, for all lines     *)
(* typed: one message goes to and fro, no chunk is lost, and both programs *)
(* wait only when a message has outgrown a buffer, or after a failure.     *)
(***************************************************************************)
EXTENDS EcoSystem, PacketHandlerManager, PacketBufferProofs

-----------------------------------------------------------------------------
(* The inductive invariant. *)

(* The histories the other parts speak of. *)
Histories ==
    /\ asked \in [Peers -> Seq(Packets)]
    /\ session \in [arrived : Seq(Byte), taken : Seq(Seq(Byte)), clean : BOOLEAN]
    /\ refused \in Seq(Byte)
    /\ replies.failed \in BOOLEAN /\ replies.misfit \in BOOLEAN

(* Where main() is says whether it has a client, and the client and the     *)
(* backlog are connections that were made and not closed, each there once.  *)
Live == {"open", "fin", "reset"}

Connected ==
    /\ pc \in {"recv", "dispatch"} => client \in Peers
    /\ pc \in Range(Startup) => client = NoPeer
    /\ client \in Peers => link[client].state \in Live
    /\ \A i \in 1 .. Len(backlog) : backlog[i] # client /\ link[backlog[i]].state \in Live
    /\ \A i, j \in 1 .. Len(backlog) : backlog[i] = backlog[j] => i = j

(* Nothing a peer sent has been read before it is the client. *)
UnderWay ==
    \A p \in Peers : p # client /\ link[p].state \in {"idle", "open", "fin"}
                        => link[p].up = FlattenSeq(asked[p])

(* What RequestsInOrder says, of a stream that can be continued. *)
Handled ==
    /\ Sound(recvBuffer)
    /\ session.arrived = FlattenSeq(session.taken) \o Unread(recvBuffer)
    /\ client \in Peers /\ session.clean =>
          Received(asked[client], session.taken, Unread(recvBuffer),
                   link[client].up, link[client].state # "reset")

(* What RepliesInOrder says, of replies that are packets. *)
Queued ==
    ~replies.misfit =>
        /\ Sound(sendBuffer)
        /\ replies.made \in Seq(Peers \X Packets)
        /\ replies.sent \in Seq(Peers \X Packets)
        /\ RepliesInOrder

(* Handle refuses the packet x, with whatever comes behind it. *)
Refusable(x) == \/ ValueOf(x[3], x[4]) \notin Registered
                \/ ~ParsesAsChat(SubSeq(x, GetHeaderSize + 1, Len(x)))

Blocked ==
    Len(refused) >= GetHeaderSize =>
        /\ Framed(refused) /\ Refusable(refused)
        /\ \E w \in Seq(Byte) : Unread(recvBuffer) = refused \o w

IInv == TypeOK /\ Histories /\ Connected /\ UnderWay /\ Handled /\ Queued /\ Blocked

-----------------------------------------------------------------------------
(* Facts of the constants. *)

LEMMA StartupFacts ==
    /\ Range(Startup) = {"InitWSA", "InitSocket", "Bind", "Listen", "accept"}
    /\ \A i \in 1 .. 4 : Startup[i] \in Range(Startup) /\ Startup[i + 1] \in Range(Startup)
    /\ Startup[1] \in Range(Startup)
  BY DEF Range, Startup

LEMMA RequestFacts == Requests \subseteq Packets /\ Requests \subseteq Seq(Byte)
  BY ServerAssumption DEF Packets

-----------------------------------------------------------------------------
(* Initially. *)

LEMMA InitIInv == Init => IInv
  <1> SUFFICES ASSUME Init PROVE IInv
    OBVIOUS
  <1>1. PICK pad \in Junk : recvBuffer = Constructed(pad) /\ sendBuffer = Constructed(pad)
    BY DEF Init
  <1>2. /\ Sound(recvBuffer) /\ Unread(recvBuffer) = << >>
        /\ Sound(sendBuffer) /\ Unread(sendBuffer) = << >>
    <2>1. pad \in Byte
      BY ServerAssumption
    <2> QED
      BY <1>1, <2>1, ConstructedFacts, Zenon
  <1>3. /\ pc \in Range(Startup) /\ retval = "data" /\ count = 0 /\ client = NoPeer
        /\ backlog = << >> /\ NoPeer \notin Peers
        /\ link = [p \in Peers |-> [state |-> "idle", up |-> << >>]]
        /\ asked = [p \in Peers |-> << >>]
    BY StartupFacts, ServerAssumption DEF Init
  <1>4. /\ session = [arrived |-> << >>, taken |-> << >>, clean |-> TRUE]
        /\ session.arrived = << >> /\ session.taken = << >>
        /\ refused = << >>
        /\ replies.made = << >> /\ replies.sent = << >>
        /\ replies.failed = FALSE /\ replies.misfit = FALSE
    BY DEF Init
  <1>5. TypeOK
    <2>1. recvBuffer \in PacketBuffers /\ sendBuffer \in PacketBuffers
      BY <1>2 DEF Sound
    <2> QED
      BY <1>3, <2>1 DEF TypeOK
  <1>6. Histories
    <2>1. asked \in [Peers -> Seq(Packets)]
      BY <1>3
    <2>2. session \in [arrived : Seq(Byte), taken : Seq(Seq(Byte)), clean : BOOLEAN]
      BY <1>4
    <2>3. << >> \in Seq(Byte) /\ FALSE \in BOOLEAN
      OBVIOUS
    <2> QED
      BY <1>4, <2>1, <2>2, <2>3, Zenon DEF Histories
  <1>7. Connected
    BY <1>3, StartupFacts DEF Connected
  <1>8. UnderWay
    BY <1>3, FlattenEmpty DEF UnderWay
  <1>9. Handled
    BY <1>2, <1>3, <1>4, FlattenEmpty DEF Handled
  <1>10. Queued
    <2>1. replies.made \in Seq(Peers \X Packets) /\ replies.sent \in Seq(Peers \X Packets)
      BY <1>4
    <2> DEFINE bytes == [i \in 1 .. Len(replies.made) |-> replies.made[i][2]]
               rest == SubSeq(bytes, Len(replies.sent) + 1, Len(bytes))
    <2>2. bytes = << >> /\ Len(bytes) = 0 /\ Len(replies.sent) = 0
      BY <1>4
    <2> HIDE DEF bytes
    <2>3. rest = << >>
      BY <2>2
    <2>4. Unread(sendBuffer) = FlattenSeq(rest)
      BY <1>2, <2>3, FlattenEmpty, Zenon
    <2>5. RepliesInOrder
      <3> SUFFICES /\ Len(replies.sent) <= Len(bytes)
                   /\ \A i \in 1 .. Len(replies.sent) : replies.sent[i][2] = bytes[i]
                   /\ Unread(sendBuffer) = FlattenSeq(rest)
                   /\ replies.failed = FALSE /\ replies.sent = replies.made
        BY Zenon DEF RepliesInOrder, bytes
      <3> QED
        BY <1>4, <2>2, <2>4
    <2> QED
      BY <1>2, <2>1, <2>5, Zenon DEF Queued
  <1>11. Blocked
    BY <1>4 DEF Blocked, GetHeaderSize, SizeofUint16
  <1> QED
    BY <1>5, <1>6, <1>7, <1>8, <1>9, <1>10, <1>11 DEF IInv

-----------------------------------------------------------------------------
(* The peers. *)

(* A step that leaves the server alone can not disturb what is about it. *)
LEMMA ServerAlone ==
    ASSUME IInv, UNCHANGED <<serverVars, session, replies, refused>>
    PROVE  /\ pc' = pc /\ client' = client
           /\ Sound(recvBuffer)' /\ Queued' /\ Blocked'
           /\ session' = session /\ recvBuffer' = recvBuffer
  <1>1. /\ pc' = pc /\ client' = client /\ recvBuffer' = recvBuffer
        /\ sendBuffer' = sendBuffer /\ session' = session /\ replies' = replies
        /\ refused' = refused
    BY DEF serverVars, buffers
  <1>2. Sound(recvBuffer)'
    BY <1>1 DEF IInv, Handled
  <1>3. Queued'
    BY <1>1 DEF IInv, Queued, RepliesInOrder
  <1>4. Blocked'
    BY <1>1 DEF IInv, Blocked
  <1> QED
    BY <1>1, <1>2, <1>3, <1>4

(* A new connection is at the end of the backlog, and nowhere else. *)
LEMMA ConnectConnected ==
    ASSUME Connected, backlog \in Seq(Peers), NEW p \in Peers, Connect(p),
           link'[p].state = "open", \A q \in Peers : q # p => link'[q] = link[q]
    PROVE  p # client /\ backlog' \in Seq(Peers) /\ Connected'
  <1>1. /\ link[p].state = "idle" /\ backlog' = Append(backlog, p)
        /\ pc' = pc /\ client' = client
    BY DEF Connect, serverVars
  <1>2. p # client
    BY <1>1 DEF Connected, Live
  <1>3. /\ backlog' \in Seq(Peers)
        /\ Len(backlog') = Len(backlog) + 1 /\ Len(backlog) \in Nat
        /\ backlog'[Len(backlog) + 1] = p
        /\ \A i \in 1 .. Len(backlog) : backlog'[i] = backlog[i] /\ backlog[i] \in Peers
    BY <1>1, AppendProperties
  <1>4. \A i \in 1 .. Len(backlog) : backlog[i] # p
    BY <1>1 DEF Connected, Live
  <1>5. ASSUME NEW i \in 1 .. Len(backlog')
        PROVE  backlog'[i] # client' /\ link'[backlog'[i]].state \in Live
    BY <1>1, <1>2, <1>3, <1>4 DEF Connected, Live
  <1>6. ASSUME NEW i \in 1 .. Len(backlog'), NEW j \in 1 .. Len(backlog'),
               backlog'[i] = backlog'[j]
        PROVE  i = j
    BY <1>3, <1>4, <1>6 DEF Connected
  <1>7. client' \in Peers => link'[client'].state \in Live
    BY <1>1, <1>2 DEF Connected
  <1> QED
    BY <1>1, <1>2, <1>3, <1>5, <1>6, <1>7 DEF Connected

LEMMA ConnectKeeps ==
    ASSUME IInv, NEW p \in Peers, Connect(p)
    PROVE  IInv'
  <1>1. /\ link[p].state = "idle"
        /\ link' = [link EXCEPT ![p].state = "open"]
        /\ backlog' = Append(backlog, p)
        /\ UNCHANGED <<serverVars, session, replies, refused>> /\ asked' = asked
    BY DEF Connect, history
  <1>2. /\ pc' = pc /\ client' = client
        /\ Sound(recvBuffer)' /\ Queued' /\ Blocked'
        /\ session' = session /\ recvBuffer' = recvBuffer
    BY <1>1, ServerAlone
  <1>3. /\ link \in [Peers -> [state : {"idle", "open", "fin", "reset", "closed"}, up : Seq(Byte)]]
        /\ backlog \in Seq(Peers)
    BY DEF IInv, TypeOK
  <1>4. /\ link' \in [Peers -> [state : {"idle", "open", "fin", "reset", "closed"}, up : Seq(Byte)]]
        /\ link'[p].state = "open" /\ link'[p].up = link[p].up
        /\ \A q \in Peers : q # p => link'[q] = link[q]
    BY <1>1, <1>3
  <1>5. p # client
    BY <1>1 DEF IInv, Connected, Live
  <1>6. TypeOK'
    <2>1. backlog' \in Seq(Peers)
      BY <1>1, <1>3, AppendProperties
    <2> QED
      BY <1>1, <1>4, <2>1 DEF IInv, TypeOK, serverVars, buffers
  <1>7. Histories'
    BY <1>1 DEF IInv, Histories
  <1>8. Connected'
    BY <1>3, <1>4, ConnectConnected DEF IInv
  <1>9. UnderWay'
    BY <1>1, <1>2, <1>4 DEF IInv, UnderWay
  <1>10. Handled'
    BY <1>1, <1>2, <1>4, <1>5 DEF IInv, Handled
  <1> QED
    BY <1>2, <1>6, <1>7, <1>8, <1>9, <1>10 DEF IInv

LEMMA PeerSendsKeeps ==
    ASSUME IInv, NEW p \in Peers, NEW packet \in Requests, PeerSends(p, packet)
    PROVE  IInv'
  <1>1. /\ link[p].state = "open"
        /\ link' = [link EXCEPT ![p].up = @ \o packet]
        /\ asked' = [asked EXCEPT ![p] = Append(@, packet)]
        /\ UNCHANGED <<serverVars, session, replies, refused>> /\ backlog' = backlog
    BY DEF PeerSends
  <1>2. /\ pc' = pc /\ client' = client
        /\ Sound(recvBuffer)' /\ Queued' /\ Blocked'
        /\ session' = session /\ recvBuffer' = recvBuffer
    BY <1>1, ServerAlone
  <1>3. /\ link \in [Peers -> [state : {"idle", "open", "fin", "reset", "closed"}, up : Seq(Byte)]]
        /\ backlog \in Seq(Peers)
        /\ asked \in [Peers -> Seq(Packets)]
    BY DEF IInv, TypeOK, Histories
  <1>4. packet \in Packets /\ packet \in Seq(Byte) /\ link[p].up \o packet \in Seq(Byte)
    <2>1. packet \in Packets /\ packet \in Seq(Byte) /\ link[p].up \in Seq(Byte)
      BY <1>3, RequestFacts
    <2> QED
      BY <2>1, ConcatBytes
  <1>5. /\ link' \in [Peers -> [state : {"idle", "open", "fin", "reset", "closed"}, up : Seq(Byte)]]
        /\ link'[p].state = "open" /\ link'[p].up = link[p].up \o packet
        /\ \A q \in Peers : link'[q].state = link[q].state
        /\ \A q \in Peers : q # p => link'[q] = link[q]
    BY <1>1, <1>3, <1>4
  <1>6. /\ asked' \in [Peers -> Seq(Packets)]
        /\ asked'[p] = Append(asked[p], packet)
        /\ \A q \in Peers : q # p => asked'[q] = asked[q]
    BY <1>1, <1>3, <1>4
  <1>7. TypeOK'
    BY <1>1, <1>5 DEF IInv, TypeOK, serverVars, buffers
  <1>8. Histories'
    BY <1>1, <1>6 DEF IInv, Histories
  <1>9. Connected'
    <2>1. \A i \in 1 .. Len(backlog) : backlog[i] \in Peers
      BY <1>3
    <2> QED
      BY <1>1, <1>2, <1>5, <2>1 DEF IInv, Connected
  <1>10. UnderWay'
    <2> SUFFICES ASSUME NEW q \in Peers, q # client, link'[q].state \in {"idle", "open", "fin"}
                 PROVE  link'[q].up = FlattenSeq(asked'[q])
      BY <1>2 DEF UnderWay
    <2>1. link[q].up = FlattenSeq(asked[q])
      BY <1>5 DEF IInv, UnderWay
    <2>2. CASE q = p
      <3>1. FlattenSeq(Append(asked[p], packet)) = FlattenSeq(asked[p]) \o packet
        BY <1>3, <1>4, PacketQueueFacts
      <3> QED
        BY <1>5, <1>6, <2>1, <2>2, <3>1, Zenon
    <2>3. CASE q # p
      BY <1>5, <1>6, <2>1, <2>3
    <2> QED
      BY <2>2, <2>3
  <1>11. Handled'
    <2> SUFFICES ASSUME client \in Peers, session.clean
                 PROVE  Received(asked'[client], session.taken, Unread(recvBuffer),
                                 link'[client].up, link'[client].state # "reset")
      BY <1>2 DEF IInv, Handled
    <2>1. Received(asked[client], session.taken, Unread(recvBuffer),
                   link[client].up, link[client].state # "reset")
      BY DEF IInv, Handled
    <2>2. CASE client = p
      <3>1. (link[p].state # "reset") = TRUE /\ (link'[p].state # "reset") = TRUE
        BY <1>1, <1>5
      <3>2. Received(asked[p], session.taken, Unread(recvBuffer), link[p].up, TRUE)
        BY <2>1, <2>2, <3>1
      <3>3. /\ asked[p] \in Seq(Packets) /\ session.taken \in Seq(Seq(Byte))
            /\ Unread(recvBuffer) \in Seq(Byte) /\ link[p].up \in Seq(Byte)
        BY <1>3, UnreadFacts DEF IInv, Histories, Handled
      <3>4. Received(Append(asked[p], packet), session.taken, Unread(recvBuffer),
                     link[p].up \o packet, TRUE)
        BY <1>4, <3>2, <3>3, ReceivedSend, Zenon
      <3> QED
        BY <1>5, <1>6, <2>2, <3>1, <3>4
    <2>3. CASE client # p
      BY <1>5, <1>6, <2>1, <2>3
    <2> QED
      BY <2>2, <2>3
  <1> QED
    BY <1>2, <1>7, <1>8, <1>9, <1>10, <1>11 DEF IInv

LEMMA PeerClosesKeeps ==
    ASSUME IInv, NEW p \in Peers, PeerCloses(p)
    PROVE  IInv'
  <1>1. /\ link[p].state = "open"
        /\ link' = [link EXCEPT ![p].state = "fin"]
        /\ UNCHANGED <<serverVars, session, replies, refused>>
        /\ backlog' = backlog /\ asked' = asked
    BY DEF PeerCloses, history
  <1>2. /\ pc' = pc /\ client' = client
        /\ Sound(recvBuffer)' /\ Queued' /\ Blocked'
        /\ session' = session /\ recvBuffer' = recvBuffer
    BY <1>1, ServerAlone
  <1>3. /\ link \in [Peers -> [state : {"idle", "open", "fin", "reset", "closed"}, up : Seq(Byte)]]
        /\ backlog \in Seq(Peers)
    BY DEF IInv, TypeOK
  <1>4. /\ link' \in [Peers -> [state : {"idle", "open", "fin", "reset", "closed"}, up : Seq(Byte)]]
        /\ link'[p].state = "fin" /\ \A q \in Peers : link'[q].up = link[q].up
        /\ \A q \in Peers : q # p => link'[q] = link[q]
    BY <1>1, <1>3
  <1>5. TypeOK'
    BY <1>1, <1>4 DEF IInv, TypeOK, serverVars, buffers
  <1>6. Histories'
    BY <1>1 DEF IInv, Histories
  <1>7. Connected'
    <2>1. \A i \in 1 .. Len(backlog) : backlog[i] \in Peers
      BY <1>3
    <2> QED
      BY <1>1, <1>2, <1>4, <2>1 DEF IInv, Connected, Live
  <1>8. UnderWay'
    BY <1>1, <1>2, <1>4 DEF IInv, UnderWay
  <1>9. Handled'
    <2>1. \A q \in Peers : (link'[q].state # "reset") = (link[q].state # "reset")
      BY <1>1, <1>4
    <2> QED
      BY <1>1, <1>2, <1>4, <2>1 DEF IInv, Handled
  <1> QED
    BY <1>2, <1>5, <1>6, <1>7, <1>8, <1>9 DEF IInv

LEMMA PeerResetsKeeps ==
    ASSUME IInv, NEW p \in Peers, PeerResets(p)
    PROVE  IInv'
  <1>1. /\ link[p].state \in {"open", "fin"}
        /\ link' = [link EXCEPT ![p] = [state |-> "reset", up |-> << >>]]
        /\ UNCHANGED <<serverVars, session, replies, refused>>
        /\ backlog' = backlog /\ asked' = asked
    BY DEF PeerResets, history
  <1>2. /\ pc' = pc /\ client' = client
        /\ Sound(recvBuffer)' /\ Queued' /\ Blocked'
        /\ session' = session /\ recvBuffer' = recvBuffer
    BY <1>1, ServerAlone
  <1>3. /\ link \in [Peers -> [state : {"idle", "open", "fin", "reset", "closed"}, up : Seq(Byte)]]
        /\ backlog \in Seq(Peers)
    BY DEF IInv, TypeOK
  <1>4. /\ link' \in [Peers -> [state : {"idle", "open", "fin", "reset", "closed"}, up : Seq(Byte)]]
        /\ link'[p].state = "reset" /\ link'[p].up = << >>
        /\ \A q \in Peers : q # p => link'[q] = link[q]
    BY <1>1, <1>3
  <1>5. TypeOK'
    BY <1>1, <1>4 DEF IInv, TypeOK, serverVars, buffers
  <1>6. Histories'
    BY <1>1 DEF IInv, Histories
  <1>7. Connected'
    <2>1. \A i \in 1 .. Len(backlog) : backlog[i] \in Peers
      BY <1>3
    <2> QED
      BY <1>1, <1>2, <1>4, <2>1 DEF IInv, Connected, Live
  <1>8. UnderWay'
    BY <1>1, <1>2, <1>4 DEF IInv, UnderWay
  <1>9. Handled'
    <2> SUFFICES ASSUME client \in Peers, session.clean
                 PROVE  Received(asked[client], session.taken, Unread(recvBuffer),
                                 link'[client].up, link'[client].state # "reset")
      BY <1>1, <1>2 DEF IInv, Handled
    <2>1. Received(asked[client], session.taken, Unread(recvBuffer),
                   link[client].up, link[client].state # "reset")
      BY DEF IInv, Handled
    <2>2. CASE client = p
      <3>1. Unread(recvBuffer) \in Seq(Byte) /\ link[client].up \in Seq(Byte)
        BY <1>3, UnreadFacts DEF IInv, Handled
      <3>2. Received(asked[client], session.taken, Unread(recvBuffer), << >>, FALSE)
        BY <2>1, <3>1, ReceivedCut, Zenon
      <3>3. (link'[p].state # "reset") = FALSE
        BY <1>4
      <3> QED
        BY <1>4, <2>2, <3>2, <3>3
    <2>3. CASE client # p
      BY <1>4, <2>1, <2>3
    <2> QED
      BY <2>2, <2>3
  <1> QED
    BY <1>2, <1>5, <1>6, <1>7, <1>8, <1>9 DEF IInv

-----------------------------------------------------------------------------
(* The server's connection. *)

(* A step that only moves main() on. *)
LEMMA MovesOnKeeps ==
    ASSUME IInv, UNCHANGED <<retval, buffers, client, net, history>>,
           pc' \in Range(Startup) \cup {"recv", "dispatch", "exit", "aborted"},
           pc' \in {"recv", "dispatch"} => client \in Peers,
           pc' \in Range(Startup) => client = NoPeer
    PROVE  IInv'
  <1>1. /\ retval' = retval /\ recvBuffer' = recvBuffer /\ sendBuffer' = sendBuffer
        /\ count' = count /\ client' = client /\ backlog' = backlog /\ link' = link
        /\ asked' = asked /\ session' = session /\ replies' = replies /\ refused' = refused
    BY DEF buffers, net, history
  <1>2. TypeOK' /\ Histories'
    BY <1>1 DEF IInv, TypeOK, Histories
  <1>3. Connected'
    BY <1>1 DEF IInv, Connected
  <1>4. UnderWay' /\ Handled'
    BY <1>1 DEF IInv, UnderWay, Handled
  <1>5. Queued' /\ Blocked'
    BY <1>1 DEF IInv, Queued, RepliesInOrder, Blocked
  <1> QED
    BY <1>2, <1>3, <1>4, <1>5 DEF IInv

LEMMA StartupKeeps ==
    ASSUME IInv, StartupSucceeds \/ StartupFails
    PROVE  IInv'
  <1>1. PICK i \in 1 .. 4 : /\ pc = Startup[i] /\ pc' \in {Startup[i + 1], "exit"}
                           /\ UNCHANGED <<retval, buffers, client, net, history>>
    BY DEF StartupSucceeds, StartupFails
  <1>2. client = NoPeer /\ pc' \in Range(Startup) \cup {"exit"}
    BY <1>1, StartupFacts DEF IInv, Connected
  <1>3. pc' \notin {"recv", "dispatch"}
    BY <1>2, StartupFacts
  <1> QED
    BY <1>1, <1>2, <1>3, MovesOnKeeps

(* What leaves the replies and the buffers alone keeps what is about them. *)
LEMMA BuffersAlone ==
    ASSUME IInv, UNCHANGED <<buffers, replies, refused>>
    PROVE  Queued' /\ Blocked' /\ recvBuffer' = recvBuffer
  <1>1. /\ recvBuffer' = recvBuffer /\ sendBuffer' = sendBuffer
        /\ replies' = replies /\ refused' = refused
    BY DEF buffers
  <1> QED
    BY <1>1 DEF IInv, Queued, RepliesInOrder, Blocked

(* The head of the backlog is a connection, and there only once. *)
LEMMA BacklogFacts ==
    ASSUME Connected, backlog \in Seq(Peers), backlog # << >>
    PROVE  LET p == Head(backlog)
               b == Tail(backlog)
           IN  /\ p \in Peers /\ p # client /\ link[p].state \in Live
               /\ b \in Seq(Peers)
               /\ \A i \in 1 .. Len(b) : /\ b[i] \in Peers /\ b[i] # client /\ b[i] # p
                                         /\ link[b[i]].state \in Live
               /\ \A i, j \in 1 .. Len(b) : b[i] = b[j] => i = j
  <1> DEFINE p == Head(backlog)
             b == Tail(backlog)
  <1>1. backlog \in Seq(Peers)
    OBVIOUS
  <1>2. /\ p = backlog[1] /\ p \in Peers /\ b \in Seq(Peers)
        /\ Len(backlog) \in Nat /\ Len(backlog) >= 1 /\ Len(b) = Len(backlog) - 1
        /\ \A i \in 1 .. Len(b) : b[i] = backlog[i + 1]
    BY <1>1
  <1>3. \A i \in 1 .. Len(b) : i + 1 \in 1 .. Len(backlog) /\ i + 1 # 1
    BY <1>2
  <1> HIDE DEF p, b
  <1>4. p # client /\ link[p].state \in Live
    BY <1>2 DEF Connected
  <1>5. \A i \in 1 .. Len(b) : b[i] \in Peers
    BY <1>2
  <1>6. ASSUME NEW i \in 1 .. Len(b)
        PROVE  b[i] # client /\ b[i] # p /\ link[b[i]].state \in Live
    BY <1>2, <1>3 DEF Connected
  <1>7. ASSUME NEW i \in 1 .. Len(b), NEW j \in 1 .. Len(b), b[i] = b[j]
        PROVE  i = j
    <2>1. i + 1 = j + 1
      BY <1>2, <1>3, <1>7 DEF Connected
    <2> QED
      BY <2>1
  <1> QED
    BY <1>2, <1>4, <1>5, <1>6, <1>7 DEF p, b

LEMMA AcceptKeeps ==
    ASSUME IInv, Accept
    PROVE  IInv'
  <1> DEFINE p == Head(backlog)
             b == Tail(backlog)
  <1>1. /\ pc = "accept" /\ backlog # << >> /\ link[p].state # "reset"
        /\ client' = p /\ backlog' = b /\ pc' = "recv"
        /\ session' = BeginSession
        /\ retval' = retval /\ link' = link /\ asked' = asked
        /\ UNCHANGED <<buffers, replies, refused>>
    BY DEF Accept
  <1>2. /\ p \in Peers /\ p # client /\ link[p].state \in Live
        /\ b \in Seq(Peers)
        /\ \A i \in 1 .. Len(b) : b[i] \in Peers /\ b[i] # p /\ link[b[i]].state \in Live
        /\ \A i, j \in 1 .. Len(b) : b[i] = b[j] => i = j
    BY <1>1, BacklogFacts DEF IInv, TypeOK
  <1> HIDE DEF p, b
  <1>3. Queued' /\ Blocked' /\ recvBuffer' = recvBuffer
    BY <1>1, BuffersAlone
  <1>4. client = NoPeer /\ NoPeer \notin Peers
    BY <1>1, StartupFacts, ServerAssumption DEF IInv, Connected
  <1>5. /\ session'.arrived = Unread(recvBuffer)
        /\ session'.taken = << >>
        /\ session'.clean = (Unread(recvBuffer) = << >>)
    BY <1>1 DEF BeginSession
  <1>6. Unread(recvBuffer) \in Seq(Byte)
    BY UnreadFacts DEF IInv, Handled
  <1>7. TypeOK'
    BY <1>1, <1>2 DEF IInv, TypeOK, buffers
  <1>8. Histories'
    <2>1. session' \in [arrived : Seq(Byte), taken : Seq(Seq(Byte)), clean : BOOLEAN]
      BY <1>1, <1>6 DEF BeginSession
    <2> QED
      BY <1>1, <2>1, Zenon DEF IInv, Histories
  <1>9. Connected'
    BY <1>1, <1>2, StartupFacts DEF IInv, Connected
  <1>10. UnderWay'
    BY <1>1, <1>4 DEF IInv, UnderWay
  <1>11. Handled'
    <2>1. Sound(recvBuffer)
      BY DEF IInv, Handled
    <2>2. << >> \o Unread(recvBuffer) = Unread(recvBuffer)
      <3> DEFINE u == Unread(recvBuffer)
      <3>1. u \in Seq(Byte)
        BY <1>6
      <3> HIDE DEF u
      <3>2. << >> \o u = u
        BY <3>1
      <3> QED
        BY <3>2 DEF u
    <2>3. session'.arrived = FlattenSeq(session'.taken) \o Unread(recvBuffer)
      BY <1>5, <2>2, FlattenEmpty, Zenon
    <2>4. link[p].up = FlattenSeq(asked[p]) /\ asked[p] \in Seq(Packets)
      BY <1>1, <1>2 DEF IInv, UnderWay, Histories, Live
    <2>5. Received(asked[p], << >>, << >>, FlattenSeq(asked[p]), link[p].state # "reset")
      BY <2>4, ReceivedStart
    <2>6. session'.clean => Received(asked'[p], session'.taken, Unread(recvBuffer),
                                     link'[p].up, link'[p].state # "reset")
      BY <1>1, <1>5, <2>4, <2>5, Zenon
    <2> QED
      BY <1>1, <1>3, <2>1, <2>3, <2>6, Zenon DEF Handled
  <1> QED
    BY <1>3, <1>7, <1>8, <1>9, <1>10, <1>11 DEF IInv

LEMMA AcceptFailsKeeps ==
    ASSUME IInv, AcceptFails
    PROVE  IInv'
  <1> DEFINE b == Tail(backlog)
  <1>1. /\ backlog # << >> /\ backlog' = b
        /\ pc' = pc /\ retval' = retval /\ client' = client
        /\ link' = link /\ asked' = asked /\ session' = session
        /\ UNCHANGED <<buffers, replies, refused>>
    BY DEF AcceptFails, serverVars, history
  <1>2. /\ b \in Seq(Peers)
        /\ \A i \in 1 .. Len(b) : b[i] # client /\ link[b[i]].state \in Live
        /\ \A i, j \in 1 .. Len(b) : b[i] = b[j] => i = j
    BY <1>1, BacklogFacts DEF IInv, TypeOK
  <1> HIDE DEF b
  <1>3. Queued' /\ Blocked' /\ recvBuffer' = recvBuffer
    BY <1>1, BuffersAlone
  <1>4. TypeOK'
    BY <1>1, <1>2 DEF IInv, TypeOK, buffers
  <1>5. Histories' /\ UnderWay' /\ Handled'
    BY <1>1, <1>3 DEF IInv, Histories, UnderWay, Handled
  <1>6. Connected'
    BY <1>1, <1>2 DEF IInv, Connected
  <1> QED
    BY <1>3, <1>4, <1>5, <1>6 DEF IInv

(* recv() fails: the connection is closed and there is no client. *)
LEMMA RecvFailsKeeps ==
    ASSUME IInv, RecvFails
    PROVE  IInv'
  <1>1. /\ pc = "recv" /\ retval' = "error"
        /\ link' = [link EXCEPT ![client].state = "closed"]
        /\ client' = NoPeer /\ pc' = "accept" /\ backlog' = backlog
        /\ asked' = asked /\ session' = session
        /\ UNCHANGED <<buffers, replies, refused>>
    BY DEF RecvFails, history
  <1>2. client \in Peers /\ NoPeer \notin Peers
    BY <1>1, ServerAssumption DEF IInv, Connected
  <1>3. link \in [Peers -> [state : {"idle", "open", "fin", "reset", "closed"}, up : Seq(Byte)]]
    BY DEF IInv, TypeOK
  <1>4. /\ link' \in [Peers -> [state : {"idle", "open", "fin", "reset", "closed"}, up : Seq(Byte)]]
        /\ link'[client].state = "closed"
        /\ \A q \in Peers : q # client => link'[q] = link[q]
    BY <1>1, <1>2, <1>3
  <1>5. Queued' /\ Blocked' /\ recvBuffer' = recvBuffer
    BY <1>1, BuffersAlone
  <1>6. TypeOK'
    BY <1>1, <1>4, StartupFacts DEF IInv, TypeOK, buffers
  <1>7. Histories'
    BY <1>1 DEF IInv, Histories
  <1>8. Connected'
    <2>1. \A i \in 1 .. Len(backlog) : backlog[i] \in Peers
      BY DEF IInv, TypeOK
    <2> QED
      BY <1>1, <1>2, <1>4, <2>1 DEF IInv, Connected
  <1>9. UnderWay'
    BY <1>1, <1>4 DEF IInv, UnderWay
  <1>10. Handled'
    BY <1>1, <1>2, <1>5 DEF IInv, Handled
  <1> QED
    BY <1>5, <1>6, <1>7, <1>8, <1>9, <1>10 DEF IInv

-----------------------------------------------------------------------------
(* A chunk. *)

(* OnRecv appends the whole chunk or leaves the unread bytes as they are. *)
LEMMA OnRecvFacts ==
    ASSUME NEW b, Sound(b), NEW bytes \in Seq(Byte)
    PROVE  LET r == OnRecv(b, bytes)
           IN  /\ Sound(r.pb)
               /\ r.ok => Unread(r.pb) = Unread(b) \o bytes
               /\ ~r.ok => Unread(r.pb) = Unread(b)
               /\ r.ok => bytes # << >>
  <1> DEFINE r == OnRecv(b, bytes)
             a == AppendBuffer(b, bytes)
             ok == bytes # << >> /\ GetBufferSize(b) + Len(bytes) <= MAX_BUF_SIZE
  <1>1. CASE Len(bytes) > MAX_BUF_SIZE
    <2>1. r = Return(FALSE, b)
      BY <1>1, Zenon DEF OnRecv
    <2>2. r.ok = FALSE /\ r.pb = b
      BY <2>1 DEF Return
    <2> QED
      BY <2>2, Zenon
  <1>2. CASE ~(Len(bytes) > MAX_BUF_SIZE)
    <2>1. Len(bytes) <= MAX_BUF_SIZE
      BY <1>2, WidthFacts
    <2>2. r = a
      BY <1>2, Zenon DEF OnRecv
    <2>3. /\ a.ok = ok /\ Sound(a.pb)
          /\ Unread(a.pb) = IF ok THEN Unread(b) \o bytes ELSE Unread(b)
      BY <2>1, AppendBufferFacts, Zenon
    <2> HIDE DEF r, a
    <2> QED
      BY <2>2, <2>3, Zenon DEF r
  <1> QED
    BY <1>1, <1>2

(* What recvBuffer gains at its end does not disturb a packet refused. *)
LEMMA BlockedGrows ==
    ASSUME IInv, NEW b, NEW c \in Seq(Byte), Unread(b) = Unread(recvBuffer) \o c,
           Len(refused) >= GetHeaderSize
    PROVE  \E w \in Seq(Byte) : Unread(b) = refused \o w
  <1>1. PICK w \in Seq(Byte) : Unread(recvBuffer) = refused \o w
    BY DEF IInv, Blocked
  <1>2. refused \in Seq(Byte)
    BY DEF IInv, Histories
  <1>3. (refused \o w) \o c = refused \o (w \o c) /\ w \o c \in Seq(Byte)
    BY <1>2, ConcatBytes, ConcatBytesAssoc
  <1> QED
    BY <1>1, <1>3, Zenon

LEMMA RecvKeeps ==
    ASSUME IInv, pc = "recv", NEW n \in 1 .. (MAX_BUF_SIZE + 1), n <= Len(link[client].up),
           Recv(n)
    PROVE  IInv'
  <1> DEFINE up    == link[client].up
             bytes == SubSeq(up, 1, n)
             rest  == SubSeq(up, n + 1, Len(up))
             r     == OnRecv(recvBuffer, bytes)
             u     == Unread(recvBuffer)
  <1>1. /\ link' = [link EXCEPT ![client].up = rest]
        /\ retval' = "data" /\ recvBuffer' = r.pb
        /\ pc' = IF r.ok THEN "dispatch" ELSE "recv"
        /\ session' = IF r.ok THEN [session EXCEPT !.arrived = @ \o bytes]
                              ELSE [session EXCEPT !.clean = FALSE]
        /\ sendBuffer' = sendBuffer /\ count' = count /\ client' = client
        /\ backlog' = backlog /\ asked' = asked /\ replies' = replies /\ refused' = refused
    BY DEF Recv
  <1>2. client \in Peers
    BY DEF IInv, Connected
  <1>3. link \in [Peers -> [state : {"idle", "open", "fin", "reset", "closed"}, up : Seq(Byte)]]
    BY DEF IInv, TypeOK
  <1>4. up \in Seq(Byte) /\ n \in 0 .. Len(up)
    BY <1>2, <1>3, WidthFacts
  <1>5. bytes \in Seq(Byte) /\ rest \in Seq(Byte)
    BY <1>4, SplitFacts
  <1>6. Sound(recvBuffer) /\ u \in Seq(Byte)
    BY UnreadFacts DEF IInv, Handled
  <1>7. /\ Sound(r.pb)
        /\ r.ok => Unread(r.pb) = u \o bytes
        /\ ~r.ok => Unread(r.pb) = u
    BY <1>5, <1>6, OnRecvFacts, Zenon
  <1> HIDE DEF r, bytes, rest, u
  <1>8. /\ link' \in [Peers -> [state : {"idle", "open", "fin", "reset", "closed"}, up : Seq(Byte)]]
        /\ link'[client].up = rest
        /\ \A q \in Peers : link'[q].state = link[q].state
        /\ \A q \in Peers : q # client => link'[q] = link[q]
    BY <1>1, <1>2, <1>3, <1>5
  <1>9. /\ session'.taken = session.taken
        /\ r.ok => session'.arrived = session.arrived \o bytes /\ session'.clean = session.clean
        /\ ~r.ok => session'.arrived = session.arrived /\ session'.clean = FALSE
    <2>1. session \in [arrived : Seq(Byte), taken : Seq(Seq(Byte)), clean : BOOLEAN]
      BY DEF IInv, Histories
    <2> QED
      BY <1>1, <2>1
  <1>10. TypeOK'
    <2>1. recvBuffer' \in PacketBuffers
      BY <1>1, <1>7, Zenon DEF Sound
    <2> QED
      BY <1>1, <1>8, <2>1 DEF IInv, TypeOK
  <1>11. Histories'
    <2>1. session.arrived \o bytes \in Seq(Byte)
      BY <1>5, ConcatBytes DEF IInv, Histories
    <2> QED
      BY <1>1, <1>9, <2>1 DEF IInv, Histories
  <1>12. Connected'
    <2>1. \A i \in 1 .. Len(backlog) : backlog[i] \in Peers
      BY DEF IInv, TypeOK
    <2>2. pc' \in {"recv", "dispatch"} /\ pc' \notin Range(Startup)
      BY <1>1, StartupFacts
    <2> QED
      BY <1>1, <1>2, <1>8, <2>1, <2>2 DEF IInv, Connected
  <1>13. UnderWay'
    BY <1>1, <1>8 DEF IInv, UnderWay
  <1>14. Handled'
    <2>1. Sound(recvBuffer)'
      BY <1>1, <1>7, Zenon
    <2>2. session'.arrived = FlattenSeq(session'.taken) \o Unread(recvBuffer')
      <3> DEFINE f == FlattenSeq(session.taken)
      <3>1. session.arrived = f \o u /\ f \in Seq(Byte)
        BY FlattenType DEF IInv, Handled, Histories, u
      <3> HIDE DEF f
      <3>2. (f \o u) \o bytes = f \o (u \o bytes)
        BY <1>5, <1>6, <3>1, ConcatBytesAssoc
      <3> QED
        BY <1>1, <1>7, <1>9, <3>1, <3>2, Zenon DEF f
    <2>3. ASSUME session'.clean
          PROVE  Received(asked'[client], session'.taken, Unread(recvBuffer'),
                          link'[client].up, link'[client].state # "reset")
      <3>1. r.ok /\ session.clean
        BY <1>9, <2>3, Zenon
      <3>2. Received(asked[client], session.taken, u, up, link[client].state # "reset")
        BY <1>2, <3>1 DEF IInv, Handled, u
      <3>3. Received(asked[client], session.taken, u \o bytes, rest, link[client].state # "reset")
        BY <1>4, <1>6, <3>2, ReceivedMove, Zenon DEF bytes, rest
      <3>4. (link'[client].state # "reset") = (link[client].state # "reset")
        BY <1>2, <1>8
      <3> QED
        BY <1>1, <1>7, <1>8, <1>9, <3>1, <3>3, <3>4, Zenon
    <2> QED
      BY <1>1, <2>1, <2>2, <2>3, Zenon DEF Handled
  <1>15. Queued'
    BY <1>1 DEF IInv, Queued, RepliesInOrder
  <1>16. Blocked'
    <2> SUFFICES ASSUME Len(refused) >= GetHeaderSize
                 PROVE  /\ Framed(refused) /\ Refusable(refused)
                        /\ \E w \in Seq(Byte) : Unread(recvBuffer') = refused \o w
      BY <1>1, Zenon DEF Blocked
    <2>1. Framed(refused) /\ Refusable(refused)
          /\ \E w \in Seq(Byte) : u = refused \o w
      BY Zenon DEF IInv, Blocked, u
    <2>2. r.ok => \E w \in Seq(Byte) : Unread(recvBuffer') = refused \o w
      BY <1>1, <1>5, <1>7, BlockedGrows, Zenon DEF u
    <2> QED
      BY <1>1, <1>7, <2>1, <2>2, Zenon
  <1> QED
    BY <1>10, <1>11, <1>12, <1>13, <1>14, <1>15, <1>16 DEF IInv

(* recv() returns 0: OnRecv refuses the empty chunk. *)
LEMMA RecvNothingKeeps ==
    ASSUME IInv, RecvNothing
    PROVE  IInv'
  <1> DEFINE r == OnRecv(recvBuffer, << >>)
  <1>1. /\ retval' = "none" /\ recvBuffer' = r.pb /\ pc' = pc
        /\ sendBuffer' = sendBuffer /\ count' = count /\ client' = client
        /\ backlog' = backlog /\ link' = link
        /\ asked' = asked /\ session' = session /\ replies' = replies /\ refused' = refused
    BY DEF RecvNothing, net, history
  <1>2. Sound(r.pb) /\ Unread(r.pb) = Unread(recvBuffer)
    <2>1. << >> \in Seq(Byte) /\ Sound(recvBuffer)
      BY DEF IInv, Handled
    <2> QED
      BY <2>1, OnRecvFacts, Zenon
  <1> HIDE DEF r
  <1>3. Sound(recvBuffer)' /\ Unread(recvBuffer') = Unread(recvBuffer)
    BY <1>1, <1>2, Zenon
  <1>4. TypeOK'
    BY <1>1, <1>3 DEF IInv, TypeOK, Sound
  <1>5. Histories' /\ Connected' /\ UnderWay'
    BY <1>1 DEF IInv, Histories, Connected, UnderWay
  <1>6. Handled'
    BY <1>1, <1>3, Zenon DEF IInv, Handled
  <1>7. Queued'
    BY <1>1 DEF IInv, Queued, RepliesInOrder
  <1>8. Blocked'
    BY <1>1, <1>3, Zenon DEF IInv, Blocked
  <1> QED
    BY <1>4, <1>5, <1>6, <1>7, <1>8 DEF IInv

-----------------------------------------------------------------------------
(* A packet. *)

(* In the loop of OnRecv there is a client and recvBuffer is sound. *)
LEMMA DispatchFacts == IInv /\ pc = "dispatch" => client \in Peers /\ Sound(recvBuffer)
  BY DEF IInv, Connected, Handled

(* Handle refuses the packet at the front: whatever comes, it stays there. *)
LEMMA HandleFailsKeeps ==
    ASSUME IInv, NEW junk \in Junk, HandleFails(junk)
    PROVE  IInv'
  <1> DEFINE x == PacketBytes(recvBuffer, junk)
             w == Unread(ConsumePacket(recvBuffer))
  <1>1. /\ pc = "dispatch" /\ IsAbleToGetPacket(recvBuffer) /\ Unhandled(junk)
        /\ pc' = "recv" /\ refused' = x
        /\ retval' = retval /\ recvBuffer' = recvBuffer /\ sendBuffer' = sendBuffer
        /\ count' = count /\ client' = client /\ backlog' = backlog /\ link' = link
        /\ asked' = asked /\ session' = session /\ replies' = replies
    BY DEF HandleFails, buffers, net
  <1>2. /\ client \in Peers /\ Sound(recvBuffer)
        /\ x \in Seq(Byte) /\ w \in Seq(Byte) /\ Unread(recvBuffer) = x \o w
        /\ Framed(x) \/ Len(x) < SizeofUint16
    BY <1>1, DispatchFacts, FrontPacketFacts, Zenon
  <1> HIDE DEF x, w
  <1>3. TypeOK' /\ Histories'
    BY <1>1, <1>2 DEF IInv, TypeOK, Histories
  <1>4. Connected'
    BY <1>1, <1>2, StartupFacts DEF IInv, Connected
  <1>5. UnderWay' /\ Handled'
    BY <1>1 DEF IInv, UnderWay, Handled
  <1>6. Queued'
    BY <1>1 DEF IInv, Queued, RepliesInOrder
  <1>7. Blocked'
    <2> SUFFICES ASSUME Len(x) >= GetHeaderSize
                 PROVE  /\ Framed(x) /\ Refusable(x)
                        /\ \E v \in Seq(Byte) : Unread(recvBuffer) = x \o v
      BY <1>1, Zenon DEF Blocked
    <2>1. Framed(x)
      <3>1. ~(Len(x) < SizeofUint16)
        BY <1>2 DEF GetHeaderSize, SizeofUint16
      <3> QED
        BY <1>2, <3>1
    <2>2. /\ GetPacketNo(recvBuffer) = ValueOf(x[3], x[4])
          /\ Payload(recvBuffer, junk) = SubSeq(x, GetHeaderSize + 1, Len(x))
      BY <1>2, <2>1, FrontHeaderFacts, Zenon
    <2>3. Refusable(x)
      BY <1>1, <2>2, Zenon DEF Unhandled, Refusable
    <2> QED
      BY <1>2, <2>1, <2>3, Zenon
  <1> QED
    BY <1>3, <1>4, <1>5, <1>6, <1>7 DEF IInv

(* Nothing is handled behind a packet with a whole header that was refused. *)
LEMMA NothingBehindRefused ==
    ASSUME IInv, NEW junk, ~Unhandled(junk)
    PROVE  ~(Len(refused) >= GetHeaderSize)
  <1> SUFFICES ASSUME Len(refused) >= GetHeaderSize PROVE FALSE
    OBVIOUS
  <1>1. PICK w \in Seq(Byte) : Unread(recvBuffer) = refused \o w
    BY DEF IInv, Blocked
  <1>2. Framed(refused) /\ Refusable(refused) /\ refused \in Seq(Byte) /\ Sound(recvBuffer)
    BY DEF IInv, Blocked, Histories, Handled
  <1>3. /\ GetPacketNo(recvBuffer) = ValueOf(refused[3], refused[4])
        /\ Payload(recvBuffer, junk) = SubSeq(refused, GetHeaderSize + 1, Len(refused))
    BY <1>1, <1>2, FrontHeaderFacts, Zenon
  <1> QED
    BY <1>2, <1>3, Zenon DEF Unhandled, Refusable

-----------------------------------------------------------------------------
(* A reply. *)

(* The packets of the replies made or sent. *)
Packaged(made) == [i \in 1 .. Len(made) |-> made[i][2]]

LEMMA PackagedFacts ==
    ASSUME NEW s \in Seq(Peers \X Packets)
    PROVE  /\ Packaged(s) \in Seq(Packets)
           /\ Len(Packaged(s)) = Len(s) /\ Len(s) \in Nat
           /\ \A i \in 1 .. Len(s) : Packaged(s)[i] = s[i][2]
  <1>1. \A i \in 1 .. Len(s) : s[i] \in Peers \X Packets
    OBVIOUS
  <1>2. \A i \in 1 .. Len(s) : s[i][2] \in Packets
    BY <1>1
  <1> QED
    BY <1>2 DEF Packaged

LEMMA PackagedAppend ==
    ASSUME NEW made \in Seq(Peers \X Packets), NEW p \in Peers, NEW x \in Packets
    PROVE  LET s == Append(made, <<p, x>>)
           IN  /\ s \in Seq(Peers \X Packets)
               /\ Len(s) = Len(made) + 1
               /\ \A i \in 1 .. Len(made) : s[i] = made[i]
               /\ s[Len(made) + 1] = <<p, x>>
               /\ Packaged(s) = Append(Packaged(made), x)
  <1> DEFINE s == Append(made, <<p, x>>)
             a == Packaged(s)
             b == Append(Packaged(made), x)
  <1>1. <<p, x>> \in Peers \X Packets /\ <<p, x>>[2] = x
    OBVIOUS
  <1>2. /\ s \in Seq(Peers \X Packets)
        /\ Len(s) = Len(made) + 1
        /\ \A i \in 1 .. Len(made) : s[i] = made[i]
        /\ s[Len(made) + 1] = <<p, x>>
    BY <1>1, AppendProperties
  <1> HIDE DEF s
  <1>3. /\ a \in Seq(Packets) /\ Len(a) = Len(made) + 1 /\ Len(made) \in Nat
        /\ \A i \in 1 .. Len(s) : a[i] = s[i][2]
    BY PackagedFacts, <1>2, Zenon
  <1>4. /\ b \in Seq(Packets) /\ Len(b) = Len(made) + 1
        /\ \A i \in 1 .. Len(made) : b[i] = Packaged(made)[i]
        /\ b[Len(made) + 1] = x
    BY PackagedFacts, AppendProperties
  <1> HIDE DEF a, b
  <1>5. ASSUME NEW i \in 1 .. (Len(made) + 1) PROVE a[i] = b[i]
    <2>1. i \in 1 .. Len(s) /\ (i \in 1 .. Len(made) \/ i = Len(made) + 1)
      BY <1>2, <1>3
    <2>2. a[i] = s[i][2]
      BY <1>3, <2>1
    <2>3. CASE i \in 1 .. Len(made)
      <3>1. Packaged(made)[i] = made[i][2]
        BY PackagedFacts, <2>3
      <3> QED
        BY <1>2, <1>4, <2>2, <2>3, <3>1
    <2>4. CASE i = Len(made) + 1
      BY <1>1, <1>2, <1>4, <2>2, <2>4
    <2> QED
      BY <2>1, <2>3, <2>4
  <1>6. a = b
    BY <1>3, <1>4, <1>5, SeqEqual
  <1> QED
    BY <1>2, <1>6 DEF s, a, b

(* RepliesInOrder, in terms of the packets made, sent and waiting. *)
LEMMA RepliesFacts ==
    RepliesInOrder <=>
        (~replies.misfit =>
            LET q == Packaged(replies.made)
                n == Len(replies.sent)
            IN  /\ n <= Len(q)
                /\ \A i \in 1 .. n : replies.sent[i][2] = q[i]
                /\ Unread(sendBuffer) = FlattenSeq(SubSeq(q, n + 1, Len(q)))
                /\ IF replies.failed THEN Unread(sendBuffer) # << >>
                                     ELSE replies.sent = replies.made)
  BY Zenon DEF RepliesInOrder, Packaged

(* What the chat handler works with.  It keeps the replies in order, unless *)
(* one outgrows the buffer.                                                 *)
Answering ==
    /\ sendBuffer \in PacketBuffers /\ count \in Nat
    /\ replies.failed \in BOOLEAN /\ replies.misfit \in BOOLEAN
    /\ Queued

LEMMA ChatHandlerKeeps ==
    ASSUME Answering, client \in Peers, NEW msg \in Seq(Byte), NEW junk, ChatHandler(msg, junk)
    PROVE  Answering'
  <1> DEFINE payload == ReplyPayload(msg, count + 1)
             up      == link[client].state # "reset"
             r       == SendPacket(sendBuffer, PS2C_Chat, payload, up, junk)
             queued  == SetPacket(sendBuffer, PS2C_Chat, payload).ok
             x       == PacketOf(PS2C_Chat, payload)
  <1>1. /\ count' = count + 1 /\ sendBuffer' = r.pb
        /\ replies'.made = IF queued THEN Append(replies.made, <<client, x>>) ELSE replies.made
        /\ replies'.sent = IF r.ok THEN Append(replies.sent, <<client, r.sent>>) ELSE replies.sent
        /\ replies'.failed = (replies.failed \/ (queued /\ ~r.ok))
        /\ replies'.misfit = (replies.misfit \/ ~Fits(payload))
    BY DEF ChatHandler
  <1>2. /\ count \in Nat /\ count + 1 \in Nat /\ sendBuffer \in PacketBuffers
        /\ replies.failed \in BOOLEAN /\ replies.misfit \in BOOLEAN
    BY DEF Answering
  <1>3. payload \in Seq(Byte) /\ PS2C_Chat \in Uint16 /\ up \in BOOLEAN
    <2>1. PS2C_Chat \in Uint16
      BY WidthFacts DEF PS2C_Chat, Uint16
    <2>2. up \in BOOLEAN
      OBVIOUS
    <2> QED
      BY <1>2, <2>1, <2>2, ReplyFacts
  <1> HIDE DEF payload, up, r, queued, x
  <1>4. sendBuffer' \in PacketBuffers
    BY <1>1, <1>2, <1>3, SendPacketType DEF r
  <1>5. replies'.failed \in BOOLEAN /\ replies'.misfit \in BOOLEAN
    BY <1>1, Zenon
  <1>6. ASSUME ~replies'.misfit
        PROVE  /\ Sound(sendBuffer')
               /\ replies'.made \in Seq(Peers \X Packets)
               /\ replies'.sent \in Seq(Peers \X Packets)
               /\ RepliesInOrder'
    <2> DEFINE q    == Packaged(replies.made)
               n    == Len(replies.sent)
               made == IF queued THEN Append(q, x) ELSE q
               m    == IF r.ok THEN n + 1 ELSE n
    <2>1. ~replies.misfit /\ Fits(payload)
      BY <1>1, <1>6, Zenon
    <2>2. /\ Sound(sendBuffer)
          /\ replies.made \in Seq(Peers \X Packets) /\ replies.sent \in Seq(Peers \X Packets)
          /\ RepliesInOrder
      BY <2>1 DEF Answering, Queued
    <2>3. /\ n <= Len(q)
          /\ \A i \in 1 .. n : replies.sent[i][2] = q[i]
          /\ Unread(sendBuffer) = FlattenSeq(SubSeq(q, n + 1, Len(q)))
          /\ IF replies.failed THEN Unread(sendBuffer) # << >> ELSE replies.sent = replies.made
      BY <2>1, <2>2, RepliesFacts, Zenon
    <2>4. q \in Seq(Packets) /\ Len(q) = Len(replies.made) /\ Len(q) \in Nat
      BY <2>2, PackagedFacts
    <2>5. n \in 0 .. Len(q) /\ n \in Nat
      BY <2>2, <2>3, <2>4
    <2>6. Waiting(sendBuffer, q, n)
      BY <2>2, <2>3, <2>5, Zenon DEF Waiting
    <2> HIDE DEF q, n
    <2>7. Sends(sendBuffer, q, n, PS2C_Chat, payload, up, junk)
      BY <1>3, <2>1, <2>4, <2>6, SendPacketSends, Zenon
    <2>8. /\ x \in Packets /\ made \in Seq(Packets)
          /\ r.ok = (queued /\ up)
          /\ \A i \in 1 .. n : made[i] = q[i]
          /\ Waiting(sendBuffer', made, m)
          /\ r.ok => r.sent \in Packets /\ r.sent = made[n + 1]
          /\ Unread(sendBuffer) # << >> \/ (queued /\ ~r.ok) => Unread(sendBuffer') # << >>
          /\ Unread(sendBuffer) = << >> /\ r.ok => r.sent = x
      BY <1>1, <2>7, Zenon DEF Sends, x, queued, r
    <2> HIDE DEF made, m
    <2>9. /\ replies'.made \in Seq(Peers \X Packets)
          /\ Packaged(replies'.made) = made
      <3>1. CASE queued
        <4>1. /\ Append(replies.made, <<client, x>>) \in Seq(Peers \X Packets)
              /\ Packaged(Append(replies.made, <<client, x>>)) = Append(Packaged(replies.made), x)
          BY <2>2, <2>8, PackagedAppend
        <4> QED
          BY <1>1, <3>1, <4>1, Zenon DEF made, q
      <3>2. CASE ~queued
        BY <1>1, <2>2, <3>2, Zenon DEF made, q
      <3> QED
        BY <3>1, <3>2
    <2>10. /\ replies'.sent \in Seq(Peers \X Packets)
           /\ Len(replies'.sent) = m
           /\ \A i \in 1 .. n : replies'.sent[i] = replies.sent[i]
           /\ r.ok => replies'.sent[n + 1] = <<client, r.sent>>
      <3>1. CASE r.ok
        <4> DEFINE s == Append(replies.sent, <<client, r.sent>>)
        <4>1. /\ s \in Seq(Peers \X Packets)
              /\ Len(s) = n + 1
              /\ \A i \in 1 .. n : s[i] = replies.sent[i]
              /\ s[n + 1] = <<client, r.sent>>
          BY <2>2, <2>8, <3>1, PackagedAppend DEF n
        <4>2. replies'.sent = s
          BY <1>1, <3>1
        <4> HIDE DEF s, n
        <4> QED
          BY <3>1, <4>1, <4>2 DEF m
      <3>2. CASE ~r.ok
        BY <1>1, <2>2, <3>2, Zenon DEF n, m
      <3> QED
        BY <3>1, <3>2
    <2>11. /\ m \in 0 .. Len(made) /\ m <= Len(made) /\ Sound(sendBuffer')
           /\ Unread(sendBuffer') = FlattenSeq(SubSeq(made, m + 1, Len(made)))
      BY <2>8 DEF Waiting
    <2>12. \A i \in 1 .. m : replies'.sent[i][2] = made[i]
      <3> TAKE i \in 1 .. m
      <3>1. CASE i \in 1 .. n
        BY <2>3, <2>8, <2>10, <3>1 DEF n
      <3>2. CASE i \notin 1 .. n
        <4>1. r.ok /\ i = n + 1
          BY <2>5, <3>2 DEF m
        <4>2. <<client, r.sent>>[2] = r.sent
          OBVIOUS
        <4> QED
          BY <2>8, <2>10, <4>1, <4>2, Zenon
      <3> QED
        BY <3>1, <3>2
    <2>13. replies'.failed => Unread(sendBuffer') # << >>
      BY <1>1, <2>3, <2>8, Zenon
    <2>14. ASSUME ~replies'.failed PROVE replies'.sent = replies'.made
      <3>1. ~replies.failed /\ (queued => r.ok)
        BY <1>1, <2>14, Zenon
      <3>2. replies.sent = replies.made /\ n = Len(q)
        BY <2>3, <2>4, <3>1 DEF n
      <3>3. Unread(sendBuffer) = << >>
        <4>1. SubSeq(q, n + 1, Len(q)) = << >>
          BY <2>4, <3>2
        <4> QED
          BY <2>3, <4>1, FlattenEmpty, Zenon DEF q, n
      <3>4. r.ok => r.sent = x /\ queued
        BY <2>8, <3>3, Zenon
      <3> QED
        BY <1>1, <3>1, <3>2, <3>4, Zenon
    <2>15. RepliesInOrder'
      BY <2>9, <2>10, <2>11, <2>12, <2>13, <2>14, Zenon DEF RepliesInOrder, Packaged
    <2> QED
      BY <2>9, <2>10, <2>11, <2>15
  <1> QED
    BY <1>1, <1>2, <1>4, <1>5, <1>6, Zenon DEF Answering, Queued

(* The packet at the front is taken, and the reply made. *)
LEMMA HandledChatKeeps ==
    ASSUME IInv, NEW junk \in Junk, HandleChat(junk)
    PROVE  IInv'
  <1> DEFINE b == recvBuffer
             u == Unread(b)
             x == PacketBytes(b, junk)
             w == Unread(ConsumePacket(b))
  <1>1. /\ pc = "dispatch" /\ IsAbleToGetPacket(b) /\ ~Unhandled(junk)
        /\ session' = [session EXCEPT !.taken = Append(session.taken, x)]
        /\ ChatHandler(ParseChat(Payload(b, junk)), junk)
        /\ recvBuffer' = ConsumePacket(b) /\ pc' = pc
        /\ retval' = retval /\ client' = client /\ backlog' = backlog /\ link' = link
        /\ asked' = asked /\ refused' = refused
    BY DEF HandleChat, Handles, net
  <1>2. /\ client \in Peers
        /\ Sound(b) /\ Sound(ConsumePacket(b))
        /\ u \in Seq(Byte) /\ x \in Seq(Byte) /\ w \in Seq(Byte)
        /\ u = x \o w
    BY <1>1, DispatchFacts, FrontPacketFacts, Zenon
  <1>3. ParseChat(Payload(b, junk)) \in Seq(Byte)
    <2>1. ParsesAsChat(Payload(b, junk))
      BY <1>1 DEF Unhandled
    <2>2. junk \in Byte /\ b \in PacketBuffers
      BY <1>2, ServerAssumption DEF Sound
    <2> QED
      BY <2>1, <2>2, ParseType
  <1>4. /\ sendBuffer' \in PacketBuffers /\ count' \in Nat
        /\ replies'.failed \in BOOLEAN /\ replies'.misfit \in BOOLEAN
        /\ Queued'
    <2>1. Answering
      BY DEF IInv, TypeOK, Histories, Answering
    <2>2. Answering'
      BY <1>1, <1>2, <1>3, <2>1, ChatHandlerKeeps, Zenon
    <2> QED
      BY <2>2 DEF Answering
  <1>5. /\ session \in [arrived : Seq(Byte), taken : Seq(Seq(Byte)), clean : BOOLEAN]
        /\ Append(session.taken, x) \in Seq(Seq(Byte))
    BY <1>2 DEF IInv, Histories
  <1>6. ASSUME Received(asked[client], session.taken, u, link[client].up,
                        link[client].state # "reset")
        PROVE  Received(asked[client], Append(session.taken, x), w,
                        link[client].up, link[client].state # "reset")
    <2>1. link[client].up \in Seq(Byte) /\ session.taken \in Seq(Seq(Byte))
      BY <1>2, <1>5 DEF IInv, TypeOK
    <2> QED
      BY <1>1, <1>2, <1>6, <2>1, ReceivedTake, Zenon
  <1>7. FlattenSeq(Append(session.taken, x)) = FlattenSeq(session.taken) \o x
        /\ FlattenSeq(session.taken) \in Seq(Byte)
    BY <1>2, <1>5, FlattenAppend, FlattenType
  <1> HIDE DEF u, x, w
  <1>8. /\ session' \in [arrived : Seq(Byte), taken : Seq(Seq(Byte)), clean : BOOLEAN]
        /\ session'.arrived = session.arrived /\ session'.clean = session.clean
        /\ session'.taken = Append(session.taken, x)
    BY <1>1, <1>5
  <1>9. TypeOK'
    <2>1. recvBuffer' \in PacketBuffers
      BY <1>1, <1>2, Zenon DEF Sound
    <2> QED
      BY <1>1, <1>4, <2>1 DEF IInv, TypeOK
  <1>10. Histories'
    BY <1>1, <1>4, <1>8 DEF IInv, Histories
  <1>11. Connected' /\ UnderWay'
    BY <1>1 DEF IInv, Connected, UnderWay
  <1>12. Handled'
    <2>1. session.arrived = FlattenSeq(session.taken) \o u
      BY DEF IInv, Handled, u
    <2>2. (FlattenSeq(session.taken) \o x) \o w = FlattenSeq(session.taken) \o (x \o w)
      BY <1>2, <1>7, ConcatBytesAssoc
    <2>3. session'.arrived = FlattenSeq(session'.taken) \o w
      BY <1>2, <1>7, <1>8, <2>1, <2>2, Zenon
    <2>4. session'.clean => Received(asked'[client'], session'.taken, w,
                                     link'[client'].up, link'[client'].state # "reset")
      <3>1. session.clean => Received(asked[client], session.taken, u, link[client].up,
                                      link[client].state # "reset")
        BY <1>2, Zenon DEF IInv, Handled, u
      <3> QED
        BY <1>1, <1>6, <1>8, <3>1, Zenon
    <2> QED
      BY <1>1, <1>2, <2>3, <2>4, Zenon DEF Handled, w
  <1>13. Blocked'
    BY <1>1, NothingBehindRefused, Zenon DEF Blocked
  <1> QED
    BY <1>4, <1>9, <1>10, <1>11, <1>12, <1>13 DEF IInv

-----------------------------------------------------------------------------
(* Every step. *)

LEMMA StepIInv == IInv /\ [Next]_vars => IInv'
  <1> SUFFICES ASSUME IInv, [Next]_vars PROVE IInv'
    OBVIOUS
  <1>1. CASE PeerNext
    BY <1>1, ConnectKeeps, PeerSendsKeeps, PeerClosesKeeps, PeerResetsKeeps, Zenon DEF PeerNext
  <1>2. CASE StartupSucceeds \/ StartupFails
    BY <1>2, StartupKeeps, Zenon
  <1>3. CASE Accept \/ AcceptFails \/ RecvFails \/ RecvNothing
    BY <1>3, AcceptKeeps, AcceptFailsKeeps, RecvFailsKeeps, RecvNothingKeeps, Zenon
  <1>4. CASE RecvData
    BY <1>4, RecvKeeps, Zenon DEF RecvData
  <1>5. CASE DispatchDone \/ HandleAborts
    <2>1. /\ pc = "dispatch" /\ pc' \in {"recv", "aborted"}
          /\ UNCHANGED <<retval, buffers, client, net, history>>
      BY <1>5 DEF DispatchDone, HandleAborts
    <2>2. client \in Peers
      BY <2>1 DEF IInv, Connected
    <2>3. pc' \notin Range(Startup)
      BY <2>1, StartupFacts
    <2> QED
      BY <2>1, <2>2, <2>3, MovesOnKeeps
  <1>6. CASE \E junk \in Junk : HandleFails(junk) \/ HandleChat(junk)
    BY <1>6, HandleFailsKeeps, HandledChatKeeps, Zenon
  <1>7. CASE UNCHANGED vars
    <2>1. /\ pc' = pc /\ UNCHANGED <<retval, buffers, client, net, history>>
      BY <1>7 DEF vars, serverVars
    <2>2. /\ pc \in Range(Startup) \cup {"recv", "dispatch", "exit", "aborted"}
          /\ pc \in {"recv", "dispatch"} => client \in Peers
          /\ pc \in Range(Startup) => client = NoPeer
      BY DEF IInv, TypeOK, Connected
    <2> QED
      BY <2>1, <2>2, MovesOnKeeps, Zenon
  <1> QED
    BY <1>1, <1>2, <1>3, <1>4, <1>5, <1>6, <1>7, Zenon DEF Next, ServerNext

LEMMA SpecIInv == Spec => []IInv
  BY InitIInv, StepIInv, PTL DEF Spec

-----------------------------------------------------------------------------
(* The invariants. *)

LEMMA RequestsFollow == IInv => RequestsInOrder
  <1> SUFFICES ASSUME IInv PROVE RequestsInOrder
    OBVIOUS
  <1>1. /\ TypeOK
        /\ session.arrived = FlattenSeq(session.taken) \o Unread(recvBuffer)
    BY DEF IInv, Handled
  <1>2. ASSUME client # NoPeer, session.clean
        PROVE  /\ IsPrefix(session.taken, asked[client])
               /\ link[client].state # "reset" =>
                     session.arrived \o link[client].up = FlattenSeq(asked[client])
    <2>1. client \in Peers
      BY <1>1, <1>2 DEF TypeOK
    <2>2. /\ session.taken \in Seq(Seq(Byte)) /\ Unread(recvBuffer) \in Seq(Byte)
          /\ link[client].up \in Seq(Byte)
      BY <1>1, <2>1, UnreadFacts DEF IInv, TypeOK, Histories, Handled
    <2>3. Received(asked[client], session.taken, Unread(recvBuffer),
                   link[client].up, link[client].state # "reset")
      BY <1>2, <2>1 DEF IInv, Handled
    <2> DEFINE taken == session.taken
               u     == Unread(recvBuffer)
               up    == link[client].up
               whole == link[client].state # "reset"
               ask   == asked[client]
    <2>4. /\ taken \in Seq(Seq(Byte)) /\ u \in Seq(Byte) /\ up \in Seq(Byte)
          /\ Received(ask, taken, u, up, whole)
          /\ session.arrived = FlattenSeq(taken) \o u
      BY <1>1, <2>2, <2>3
    <2> HIDE DEF taken, u, up, whole, ask
    <2>5. IsPrefix(taken, ask) /\ (whole => (FlattenSeq(taken) \o u) \o up = FlattenSeq(ask))
      BY <2>4, ReceivedFacts, Zenon
    <2>6. IsPrefix(taken, ask) /\ (whole => session.arrived \o up = FlattenSeq(ask))
      BY <2>4, <2>5, Zenon
    <2> QED
      BY <2>6, Zenon DEF taken, up, whole, ask
  <1> QED
    BY <1>1, <1>2, Zenon DEF RequestsInOrder

(* However recv() cuts the stream and wherever recvBuffer is compacted, the *)
(* packets OnRecv handles and the bytes it keeps are those it received, and *)
(* on a clean connection they are the first the peer sent.                  *)
THEOREM RequestsAlwaysInOrder == Spec => []RequestsInOrder
  BY SpecIInv, RequestsFollow, PTL

(* Over all connections and all failures of send(), replies leave whole,    *)
(* once and in the order they were made, until one outgrows sendBuffer.     *)
THEOREM RepliesAlwaysInOrder == Spec => []RepliesInOrder
  <1>1. IInv => RepliesInOrder
    BY DEF IInv, Queued, RepliesInOrder
  <1> QED
    BY <1>1, SpecIInv, PTL

(* A packet with a whole header that Handle refused stays at the front of   *)
(* recvBuffer for ever.                                                     *)
THEOREM RefusedPacketAlwaysBlocks == Spec => []RefusedPacketBlocks
  <1>1. IInv => RefusedPacketBlocks
    <2> SUFFICES ASSUME IInv, Len(refused) >= GetHeaderSize
                 PROVE  IsPrefix(refused, Unread(recvBuffer))
      BY DEF RefusedPacketBlocks
    <2>1. PICK w \in Seq(Byte) : Unread(recvBuffer) = refused \o w
      BY DEF IInv, Blocked
    <2>2. refused \in Seq(Byte)
      BY DEF IInv, Histories
    <2> QED
      BY <2>1, <2>2, PrefixFacts
  <1> QED
    BY <1>1, SpecIInv, PTL

(* When the shortest reply does not fit any more, HandleChat leaves         *)
(* sendBuffer and the peers' replies as they are.                           *)
LEMMA FullMutes ==
    ASSUME IInv, NEW junk \in Junk, HandleChat(junk), ~replies'.misfit,
           GetBufferSize(sendBuffer) + Len(ShortestReply) > MAX_BUF_SIZE
    PROVE  Unread(sendBuffer') = Unread(sendBuffer) /\ replies'.sent = replies.sent
  <1> DEFINE msg     == ParseChat(Payload(recvBuffer, junk))
             payload == ReplyPayload(msg, count + 1)
             up      == link[client].state # "reset"
             r       == SendPacket(sendBuffer, PS2C_Chat, payload, up, junk)
             queued  == SetPacket(sendBuffer, PS2C_Chat, payload).ok
             x       == PacketOf(PS2C_Chat, payload)
             q       == Packaged(replies.made)
             n       == Len(replies.sent)
  <1>1. /\ pc = "dispatch" /\ IsAbleToGetPacket(recvBuffer) /\ ~Unhandled(junk)
        /\ sendBuffer' = r.pb
        /\ replies'.sent = IF r.ok THEN Append(replies.sent, <<client, r.sent>>) ELSE replies.sent
        /\ replies'.misfit = (replies.misfit \/ ~Fits(payload))
    BY DEF HandleChat, Handles, ChatHandler
  <1>2. msg \in Seq(Byte)
    <2>1. ParsesAsChat(Payload(recvBuffer, junk))
      BY <1>1 DEF Unhandled
    <2>2. junk \in Byte /\ recvBuffer \in PacketBuffers
      BY ServerAssumption DEF IInv, TypeOK
    <2> QED
      BY <2>1, <2>2, ParseType
  <1>3. ~replies.misfit /\ Fits(payload)
    BY <1>1, Zenon
  <1>4. /\ Sound(sendBuffer) /\ count \in Nat /\ count + 1 \in Nat
        /\ replies.made \in Seq(Peers \X Packets) /\ replies.sent \in Seq(Peers \X Packets)
        /\ n <= Len(q) /\ Unread(sendBuffer) = FlattenSeq(SubSeq(q, n + 1, Len(q)))
    BY <1>3, RepliesFacts DEF IInv, TypeOK, Queued
  <1>5. q \in Seq(Packets) /\ Waiting(sendBuffer, q, n)
    <2>1. q \in Seq(Packets) /\ n \in 0 .. Len(q)
      BY <1>4, PackagedFacts
    <2> QED
      BY <1>4, <2>1, Zenon DEF Waiting
  <1>6. payload \in Seq(Byte) /\ Len(payload) >= 3 /\ PS2C_Chat \in Uint16 /\ up \in BOOLEAN
    <2>1. PS2C_Chat \in Uint16 /\ up \in BOOLEAN
      BY WidthFacts DEF PS2C_Chat, Uint16
    <2> HIDE DEF msg
    <2> QED
      BY <1>2, <1>4, <2>1, ReplyFacts, Zenon
  <1> HIDE DEF payload, up, q, n, msg
  <1>7. Sends(sendBuffer, q, n, PS2C_Chat, payload, up, junk)
    BY <1>3, <1>5, <1>6, SendPacketSends, Zenon
  <1>8. /\ queued = (GetBufferSize(sendBuffer) + Len(x) <= MAX_BUF_SIZE)
        /\ r.ok = (queued /\ up)
        /\ ~queued => Unread(r.pb) = Unread(sendBuffer)
    BY <1>7, Zenon DEF Sends
  <1> HIDE DEF r, queued
  <1>9. Len(x) = 4 + Len(payload)
    BY <1>3, <1>6, PacketOfFacts, Zenon
  <1>10. Len(ShortestReply) = 7
    <2> DEFINE least == ReplyPayload(<< >>, 0)
    <2>1. least \in Seq(Byte) /\ Len(least) = 3
      <3>1. << >> \in Seq(Byte) /\ 0 \in Nat
        OBVIOUS
      <3> QED
        BY <3>1, ReplyFacts, Zenon
    <2> HIDE DEF least
    <2>2. Fits(least)
      <3>1. Len(payload) \in Nat
        BY <1>6
      <3>2. MAX_BUF_SIZE \in Nat /\ 2 + 2 + Len(payload) <= MAX_BUF_SIZE
        BY <1>3, WidthFacts, Zenon DEF Fits, GetHeaderSize, SizeofUint16
      <3>3. 2 + 2 + Len(least) <= MAX_BUF_SIZE
        BY <1>6, <2>1, <3>1, <3>2
      <3>4. least # << >>
        <4>1. Len(least) # 0
          BY <2>1
        <4> QED
          BY <2>1, <4>1, EmptyFacts, Zenon
      <3> QED
        BY <3>3, <3>4, Zenon DEF Fits, GetHeaderSize, SizeofUint16
    <2> DEFINE whole == PacketOf(PS2C_Chat, least)
    <2>3. Len(whole) = 4 + Len(least)
      BY <1>6, <2>1, <2>2, PacketOfFacts, Zenon
    <2>4. ShortestReply = whole
      BY Zenon DEF ShortestReply, least
    <2> HIDE DEF whole
    <2>5. Len(whole) = 7
      BY <2>1, <2>3
    <2> QED
      BY <2>4, <2>5, Zenon
  <1>11. ~queued
    <2>1. GetBufferSize(sendBuffer) \in Nat /\ MAX_BUF_SIZE \in Nat /\ Len(payload) \in Nat
      BY <1>4, <1>6, UnreadFacts, WidthFacts
    <2> HIDE DEF x
    <2>2. ~(GetBufferSize(sendBuffer) + Len(x) <= MAX_BUF_SIZE)
      BY <1>6, <1>9, <1>10, <2>1
    <2> QED
      BY <1>8, <2>2
  <1> QED
    BY <1>1, <1>8, <1>11, Zenon

(* Once sendBuffer has no room for the shortest reply, it never drains and  *)
(* nothing more is sent.                                                    *)
THEOREM FullSendBufferAlwaysMutes == Spec => FullSendBufferMutes
  <1> DEFINE Mute == ~replies'.misfit
                        /\ GetBufferSize(sendBuffer) + Len(ShortestReply) > MAX_BUF_SIZE
                     => Unread(sendBuffer') = Unread(sendBuffer) /\ replies'.sent = replies.sent
  <1>1. IInv /\ [Next]_vars => [Mute]_vars
    <2> SUFFICES ASSUME IInv, Next PROVE Mute
      OBVIOUS
    <2>1. CASE \E junk \in Junk : HandleChat(junk)
      BY <2>1, FullMutes, Zenon
    <2>2. CASE ~\E junk \in Junk : HandleChat(junk)
      <3>1. sendBuffer' = sendBuffer /\ replies' = replies
        BY <2>2 DEF Next, PeerNext, ServerNext, Connect, PeerSends, PeerCloses, PeerResets,
                    StartupSucceeds, StartupFails, Accept, AcceptFails, RecvData, Recv,
                    RecvNothing, RecvFails, DispatchDone, HandleFails, HandleAborts,
                    serverVars, buffers, net, history
      <3> QED
        BY <3>1
    <2> QED
      BY <2>1, <2>2
  <1> QED
    BY <1>1, SpecIInv, PTL DEF Spec, FullSendBufferMutes

-----------------------------------------------------------------------------
(***************************************************************************)
(* The handler table, for every width of a byte and so for every size of   *)
(* the table, every set of classes and numbers, and any number of          *)
(* registrations.                                                          *)
(*                                                                         *)
(* Dispatch is right because the table follows the registrations from the  *)
(* constructor on, also under the numbers no packet has had yet, and       *)
(* because nothing was called while it is filled.                          *)
(***************************************************************************)
CallsOK ==
    /\ registered \in Seq(ProtocolNumbers \X Protocols)
    /\ called \in {<< >>} \cup (Uint16 \X (Protocols \cup {Garbage}))

TableFollows == phase \in {"constructing", "in use"} =>
                    \A n \in Uint16 : Dispatches(n, Slot(n))

CallFollows == called # << >> =>
                  /\ phase # "constructing"
                  /\ Dispatches(called[1], called[2])

TableIInv == TableTypeOK /\ CallsOK /\ TableFollows /\ CallFollows

-----------------------------------------------------------------------------
(* Filling the constructor's table leaves every entry null. *)
LEMMA TableInitInv == TableInit => TableIInv
  <1> SUFFICES ASSUME TableInit PROVE TableIInv
    OBVIOUS
  <1>1. TableTypeOK
    BY DEF TableInit, TableTypeOK, Cleared
  <1>2. CallsOK
    BY DEF TableInit, CallsOK
  <1>3. TableFollows
    <2>1. ASSUME NEW n \in Uint16 PROVE Dispatches(n, Slot(n))
      <3>1. n \in Indices \/ n = TableSize
        BY WidthFacts DEF Uint16, Indices, TableSize
      <3>2. Slot(n) = NoFunctor \/ (n = TableSize /\ Slot(n) = Garbage)
        BY <3>1 DEF TableInit, Slot, Cleared
      <3> QED
        BY <3>2 DEF TableInit, Dispatches, FirstRegistered
    <2> QED
      BY <2>1 DEF TableFollows
  <1>4. CallFollows
    BY DEF TableInit, CallFollows
  <1> QED
    BY <1>1, <1>2, <1>3, <1>4 DEF TableIInv

(* Register keeps the first registration of each number. *)
LEMMA RegisterTableInv ==
    ASSUME TableIInv, NEW protoBuf \in Protocols, NEW n \in ProtocolNumbers,
           Register(protoBuf, n)
    PROVE  TableIInv'
  <1> USE RegistrationAssumption
  <1> DEFINE L == Len(registered)
  <1>1. /\ registered \in Seq(ProtocolNumbers \X Protocols)
        /\ L \in Nat
        /\ \A k \in 1 .. L : registered[k] \in ProtocolNumbers \X Protocols
    BY DEF TableIInv, CallsOK
  <1>2. /\ registered' = Append(registered, <<n, protoBuf>>)
        /\ registered' \in Seq(ProtocolNumbers \X Protocols)
        /\ Len(registered') = L + 1
        /\ \A k \in 1 .. L : registered'[k] = registered[k]
        /\ registered'[L + 1] = <<n, protoBuf>>
    BY <1>1 DEF Register
  <1>3. phase = "constructing" /\ phase' = phase /\ called' = called /\ called = << >>
    BY DEF Register, TableIInv, CallFollows
  <1>4. TableTypeOK'
    BY DEF TableIInv, TableTypeOK, Register
  <1>5. CallsOK' /\ CallFollows'
    BY <1>2, <1>3 DEF CallsOK, CallFollows
  <1>6. ASSUME NEW i \in Uint16
        PROVE  Dispatches(i, Slot(i))'
    <2> DEFINE f == Slot(i)
    <2>1. Dispatches(i, f)
      BY <1>3 DEF TableIInv, TableFollows
    <2>2. Slot(i)' = IF n = i /\ f = NoFunctor THEN protoBuf ELSE f
      <3>1. packetFunctors \in [Indices -> Protocols \cup {NoFunctor}]
        BY DEF TableIInv, TableTypeOK
      <3>2. /\ \A k \in Uint16 : ~(k > TableSize) /\ (k \in Indices \/ k = TableSize)
            /\ TableSize \notin Indices
            /\ n \in Uint16
        BY WidthFacts DEF Uint16, Indices, TableSize
      <3>3. CASE i \in Indices
        BY <3>1, <3>2, <3>3 DEF Register, Refused, Slot
      <3>4. CASE i = TableSize
        BY <3>1, <3>2, <3>4 DEF Register, Refused, Slot
      <3> QED
        BY <3>2, <3>3, <3>4
    <2> HIDE DEF f
    <2>3. CASE i = TableSize /\ f = Garbage
      BY <2>2, <2>3 DEF Dispatches
    <2>4. CASE FirstRegistered(i, f) /\ f # NoFunctor
      <3>1. Slot(i)' = f
        BY <2>2, <2>4
      <3>2. PICK k \in 1 .. L : /\ registered[k] = <<i, f>>
                                /\ \A j \in 1 .. (k - 1) : registered[j][1] # i
        BY <2>4 DEF FirstRegistered
      <3>3. /\ k \in 1 .. (L + 1)
            /\ registered'[k] = <<i, f>>
            /\ \A j \in 1 .. (k - 1) : registered'[j][1] # i
        BY <1>1, <1>2, <3>2
      <3> QED
        BY <1>2, <2>4, <3>1, <3>3 DEF Dispatches, FirstRegistered
    <2>5. CASE FirstRegistered(i, f) /\ f = NoFunctor
      <3>1. \A j \in 1 .. L : registered'[j][1] # i
        BY <1>1, <1>2, <2>5 DEF FirstRegistered
      <3>2. CASE n = i
        <4>1. Slot(i)' = protoBuf /\ protoBuf # NoFunctor /\ registered'[L + 1] = <<i, protoBuf>>
          BY <1>2, <2>2, <2>5, <3>2
        <4> QED
          BY <1>1, <1>2, <3>1, <4>1 DEF Dispatches, FirstRegistered
      <3>3. CASE n # i
        <4>1. Slot(i)' = NoFunctor /\ registered'[L + 1][1] # i
          BY <1>2, <2>2, <2>5, <3>3
        <4> QED
          BY <1>1, <1>2, <3>1, <4>1 DEF Dispatches, FirstRegistered
      <3> QED
        BY <3>2, <3>3
    <2> QED
      BY <2>1, <2>3, <2>4, <2>5 DEF Dispatches
  <1>7. TableFollows'
    BY <1>6 DEF TableFollows
  <1> QED
    BY <1>4, <1>5, <1>7 DEF TableIInv

(* Handle calls what the table, or the word behind it, holds. *)
LEMMA HandleTableInv ==
    ASSUME TableIInv, NEW packetNo \in Uint16, Handle(packetNo)
    PROVE  TableIInv'
  <1> USE RegistrationAssumption
  <1>1. TableTypeOK'
    BY DEF TableIInv, TableTypeOK, Handle
  <1>2. Slot(packetNo) \in Protocols \cup {NoFunctor, Garbage}
    BY DEF TableIInv, TableTypeOK, Slot
  <1>3. CallsOK'
    BY <1>2 DEF TableIInv, CallsOK, Handle
  <1>4. TableFollows'
    BY DEF TableIInv, TableFollows, Dispatches, FirstRegistered, Slot, Handle
  <1>5. CallFollows'
    <2> SUFFICES ASSUME called' # << >> PROVE CallFollows'
      BY DEF CallFollows
    <2>1. called' = <<packetNo, Slot(packetNo)>> /\ phase' # "constructing"
      BY DEF Handle
    <2>2. Dispatches(packetNo, Slot(packetNo))
      BY DEF TableIInv, TableFollows, Handle
    <2>3. registered' = registered
      BY DEF Handle
    <2> QED
      BY <2>1, <2>2, <2>3 DEF CallFollows, Dispatches, FirstRegistered
  <1> QED
    BY <1>1, <1>3, <1>4, <1>5 DEF TableIInv

(* The steps that only move the object to another phase. *)
LEMMA PhaseTableInv ==
    ASSUME TableIInv, Initialized \/ IndexAborts \/ Destroy \/ UNCHANGED tableVars
    PROVE  TableIInv'
  <1>1. /\ beyond' = beyond /\ result' = result
        /\ called' = called /\ registered' = registered
    BY DEF Initialized, IndexAborts, Destroy, tableVars
  <1>2. /\ packetFunctors' = packetFunctors \/ packetFunctors' = Cleared
        /\ phase' \in {"constructing", "in use", "gone", "aborted"}
        /\ phase' \in {"constructing", "in use"} =>
              /\ packetFunctors' = packetFunctors
              /\ phase \in {"constructing", "in use"}
        /\ phase' = "constructing" => phase = "constructing"
    BY DEF Initialized, IndexAborts, Destroy, tableVars, TableIInv, TableTypeOK
  <1>3. TableTypeOK'
    BY <1>1, <1>2 DEF TableIInv, TableTypeOK, Cleared
  <1>4. CallsOK'
    BY <1>1 DEF TableIInv, CallsOK
  <1>5. TableFollows'
    BY <1>1, <1>2 DEF TableIInv, TableFollows, Dispatches, FirstRegistered, Slot
  <1>6. CallFollows'
    BY <1>1, <1>2 DEF TableIInv, CallFollows, Dispatches, FirstRegistered
  <1> QED
    BY <1>3, <1>4, <1>5, <1>6 DEF TableIInv

(* The table follows the registrations for the life of the object. *)
LEMMA TableInvariance == TableSpec => []TableIInv
  <1>1. TableIInv /\ [TableNext]_tableVars => TableIInv'
    BY RegisterTableInv, HandleTableInv, PhaseTableInv DEF TableNext
  <1> QED
    BY TableInitInv, <1>1, PTL DEF TableSpec

-----------------------------------------------------------------------------
(***************************************************************************)
(* The table keeps its shape whatever numbers Register is called with, and *)
(* Handle calls the functor of the class Register was first called with,   *)
(* for every packet number, the one behind the table included unless the   *)
(* word that lies there is not null, and every order of calls.             *)
(***************************************************************************)
THEOREM DispatchCorrect == TableSpec => []DispatchFollowsRegistration
  <1>1. TableIInv => DispatchFollowsRegistration
    BY DEF TableIInv, TableFollows, CallFollows, DispatchFollowsRegistration
  <1> QED
    BY TableInvariance, <1>1, PTL

-----------------------------------------------------------------------------
(***************************************************************************)
(* Clients and server together, the system of EcoSystem.  What a client    *)
(* sends is one packet, whatever its sendBuffer holds, and it sends only   *)
(* when no reply is on its way; the handler's reply leaves in one piece as *)
(* long as no send() has failed.  So on an undisturbed connection there is *)
(* at most one message in the two sockets and the two recvBuffers, and it  *)
(* can not be longer than a buffer (Dialogue).                             *)
(***************************************************************************)

(* What a program sends, and what the client does. *)

(* A chunk that is one packet, or too short to say its length. *)
Lone(x) == Len(x) < SizeofUint16 \/ Framed(x)

(* Whatever is in a buffer, its packet says its own length. *)
LEMMA PacketBytesLone ==
    ASSUME NEW b \in PacketBuffers, NEW junk \in Byte
    PROVE  PacketBytes(b, junk) \in Seq(Byte) /\ Lone(PacketBytes(b, junk))
  <1> DEFINE n == GetPacketSize(b)
             x == PacketBytes(b, junk)
  <1>1. n \in Nat
    BY PacketSizeType
  <1>2. x = [k \in 1 .. n |-> ByteAt(b, b.readPos + k - 1, junk)]
    BY Zenon DEF PacketBytes, BytesFrom
  <1>3. /\ b.buffer \in [0 .. (MAX_BUF_SIZE - 1) -> Byte]
        /\ b.readPos \in Nat /\ b.writePos \in Nat /\ b.writePos <= MAX_BUF_SIZE
        /\ MAX_BUF_SIZE \in Nat
    BY WidthFacts DEF PacketBuffers, Uint16, MAX_BUF_SIZE
  <1> HIDE DEF x
  <1>4. ASSUME NEW k \in 1 .. n PROVE ByteAt(b, b.readPos + k - 1, junk) \in Byte
    <2>1. b.readPos + k - 1 \in Nat
      BY <1>1, <1>3
    <2> QED
      BY <2>1, ByteAtType
  <1> HIDE DEF n
  <1>5. x \in Seq(Byte) /\ Len(x) = n
    BY <1>1, <1>2, <1>4
  <1>6. ASSUME n >= 2 PROVE Framed(x)
    <2> DEFINE r == b.readPos
    <2>1. GetBufferSize(b) >= 2
      <3>1. GetBufferSize(b) \in Int
        BY <1>3 DEF GetBufferSize
      <3> QED
        BY <1>6, <3>1 DEF n, GetPacketSize, SizeofUint16
    <2>2. n = ValueOf(b.buffer[r], b.buffer[r + 1])
      BY <2>1, <1>3 DEF n, GetPacketSize, SizeofUint16, GetBufferSize
    <2>3. r + 2 <= b.writePos
      BY <1>3, <2>1 DEF GetBufferSize
    <2>4. r < MAX_BUF_SIZE /\ r + 1 < MAX_BUF_SIZE
      BY <1>3, <2>3
    <2>5. \A i \in Nat : i < MAX_BUF_SIZE => ByteAt(b, i, junk) = b.buffer[i]
      BY Zenon DEF ByteAt
    <2>6. /\ x[1] = ByteAt(b, r + 1 - 1, junk) /\ x[2] = ByteAt(b, r + 2 - 1, junk)
          /\ r + 1 - 1 = r /\ r + 2 - 1 = r + 1
      BY <1>1, <1>2, <1>3, <1>6
    <2>7. x[1] = b.buffer[r] /\ x[2] = b.buffer[r + 1]
      BY <1>3, <2>4, <2>5, <2>6
    <2> QED
      BY <1>5, <1>6, <2>2, <2>7, Zenon DEF Framed, SizeofUint16
  <1>7. n >= 2 \/ n < 2
    BY <1>1
  <1> QED
    BY <1>5, <1>6, <1>7, Zenon DEF Lone, SizeofUint16, x

(* What SendPacket sends is nothing or such a packet. *)
SendsLone(r, sendable) ==
    /\ r.pb \in PacketBuffers
    /\ r.sent \in Seq(Byte) /\ Lone(r.sent)
    /\ r.ok \in BOOLEAN
    /\ r.ok => sendable
    /\ ~r.ok => r.sent = << >>

LEMMA SendPacketLone ==
    ASSUME NEW b \in PacketBuffers, NEW packetNo \in Uint16, NEW payload \in Seq(Byte),
           NEW sendable, NEW junk \in Byte
    PROVE  SendsLone(SendPacket(b, packetNo, payload, sendable, junk), sendable)
  <1> DEFINE set == SetPacket(b, packetNo, payload)
             r   == SendPacket(b, packetNo, payload, sendable, junk)
  <1>1. r = IF set.ok /\ sendable
            THEN [ok |-> TRUE, pb |-> ConsumePacket(set.pb), sent |-> PacketBytes(set.pb, junk)]
            ELSE [ok |-> FALSE, pb |-> set.pb, sent |-> << >>]
    BY Zenon DEF SendPacket
  <1>2. set.pb \in PacketBuffers
    BY SetPacketType
  <1>3. r.pb \in PacketBuffers
    BY SendPacketType
  <1>4. PacketBytes(set.pb, junk) \in Seq(Byte) /\ Lone(PacketBytes(set.pb, junk))
    BY <1>2, PacketBytesLone
  <1>5. << >> \in Seq(Byte) /\ Lone(<< >>)
    BY DEF Lone, SizeofUint16
  <1> HIDE DEF set, r
  <1>6. CASE set.ok /\ sendable
    <2>1. r.ok = TRUE /\ r.sent = PacketBytes(set.pb, junk)
      BY <1>1, <1>6
    <2> QED
      BY <1>3, <1>4, <1>6, <2>1 DEF r, SendsLone
  <1>7. CASE ~(set.ok /\ sendable)
    <2>1. r.ok = FALSE /\ r.sent = << >>
      BY <1>1, <1>7
    <2> QED
      BY <1>3, <1>5, <2>1 DEF r, SendsLone
  <1> QED
    BY <1>6, <1>7

(* A message is serialized to a payload that parses. *)
LEMMA SerializeFacts ==
    ASSUME NEW msg \in Seq(Byte)
    PROVE  SerializeChat(msg) \in Seq(Byte) /\ ParsesAsChat(SerializeChat(msg))
  <1> DEFINE s == <<Tag>>
  <1>1. Tag \in Byte
    BY WidthAssumption DEF Tag, Byte
  <1>2. s \in Seq(Byte) /\ Len(s) = 1 /\ s[1] = Tag
    BY <1>1
  <1> HIDE DEF s
  <1>3. /\ s \o msg \in Seq(Byte) /\ Len(s \o msg) = 1 + Len(msg) /\ Len(msg) \in Nat
        /\ (s \o msg)[1] = Tag
    <2>1. s \in Seq(Byte) /\ Len(msg) \in Nat
      BY <1>2
    <2>2. /\ s \o msg \in Seq(Byte) /\ Len(s \o msg) = Len(s) + Len(msg)
          /\ \A i \in 1 .. Len(s) + Len(msg) :
                (s \o msg)[i] = IF i <= Len(s) THEN s[i] ELSE msg[i - Len(s)]
      BY <2>1, ConcatProperties
    <2>3. 1 \in 1 .. Len(s) + Len(msg) /\ 1 <= Len(s)
      BY <1>2, <2>1
    <2> QED
      BY <1>2, <2>1, <2>2, <2>3
  <1>4. s \o msg # << >>
    <2>1. Len(s \o msg) # 0
      BY <1>3
    <2> QED
      BY <1>3, <2>1, EmptyFacts
  <1>5. SerializeChat(msg) = s \o msg
    BY Zenon DEF SerializeChat, s
  <1> QED
    BY <1>3, <1>4, <1>5, Zenon DEF ParsesAsChat

(* A line read: the client waits for a reply exactly when it sent a packet. *)
LineTaken(c, r, sendable) ==
    /\ r.c \in Clients /\ r.c.recvBuffer = c.recvBuffer
    /\ r.sent \in Seq(Byte) /\ Lone(r.sent)
    /\ r.ok \in BOOLEAN
    /\ r.ok => sendable /\ r.c.pc = "recv"
    /\ ~r.ok => r.sent = << >> /\ r.c.pc \in {"input", "aborted"}

LEMMA AfterInputFacts ==
    ASSUME NEW c \in Clients, NEW chars \in Seq(Byte), NEW sendable, NEW junk \in Byte
    PROVE  LineTaken(c, AfterInput(c, chars, sendable, junk), sendable)
  <1> DEFINE r == AfterInput(c, chars, sendable, junk)
             s == ClientSend(c.sendBuffer, RemoveEnter(chars), sendable, junk)
  <1>1. r = IF InputThrows(chars)
            THEN [c |-> [c EXCEPT !.pc = "aborted"], sent |-> << >>, ok |-> FALSE]
            ELSE [c    |-> [c EXCEPT !.pc = IF s.ok THEN "recv" ELSE "input",
                                     !.sendBuffer = s.pb],
                  sent |-> s.sent,
                  ok   |-> s.ok]
    BY Zenon DEF AfterInput
  <1>2. /\ DOMAIN c = {"pc", "sendBuffer", "recvBuffer"}
        /\ c.sendBuffer \in PacketBuffers /\ c.recvBuffer \in PacketBuffers
    BY DEF Clients
  <1>3. CASE InputThrows(chars)
    <2>1. r = [c |-> [c EXCEPT !.pc = "aborted"], sent |-> << >>, ok |-> FALSE]
      BY <1>1, <1>3, Zenon
    <2> HIDE DEF r
    <2>2. r.c = [c EXCEPT !.pc = "aborted"] /\ r.sent = << >> /\ r.ok = FALSE
      BY <2>1
    <2>3. r.c \in Clients /\ r.c.recvBuffer = c.recvBuffer /\ r.c.pc = "aborted"
      BY <2>2 DEF Clients, ClientPCs
    <2>4. << >> \in Seq(Byte) /\ Lone(<< >>)
      BY DEF Lone, SizeofUint16
    <2> QED
      BY <2>2, <2>3, <2>4 DEF r, LineTaken
  <1>4. CASE ~InputThrows(chars)
    <2>1. r = [c    |-> [c EXCEPT !.pc = IF s.ok THEN "recv" ELSE "input",
                                  !.sendBuffer = s.pb],
               sent |-> s.sent,
               ok   |-> s.ok]
      BY <1>1, <1>4, Zenon
    <2>2. /\ s.pb \in PacketBuffers /\ s.sent \in Seq(Byte) /\ Lone(s.sent)
          /\ s.ok \in BOOLEAN /\ (s.ok => sendable) /\ (~s.ok => s.sent = << >>)
      <3> DEFINE payload == SerializeChat(RemoveEnter(chars))
      <3>1. payload \in Seq(Byte)
        <4>1. RemoveEnter(chars) \in Seq(Byte)
          BY <1>4, RemoveEnterType
        <4> QED
          BY <4>1, SerializeFacts, Zenon
      <3>2. PC2S_Chat \in Uint16
        BY WidthFacts DEF PC2S_Chat, Uint16
      <3> DEFINE t == SendPacket(c.sendBuffer, PC2S_Chat, payload, sendable, junk)
      <3>3. s = t
        BY Zenon DEF ClientSend
      <3> HIDE DEF payload
      <3>4. SendsLone(t, sendable)
        BY <1>2, <3>1, <3>2, SendPacketLone, Zenon
      <3> HIDE DEF s, t
      <3> QED
        BY <3>3, <3>4, Zenon DEF SendsLone
    <2> HIDE DEF r, s
    <2>3. /\ r.c = [c EXCEPT !.pc = IF s.ok THEN "recv" ELSE "input", !.sendBuffer = s.pb]
          /\ r.sent = s.sent /\ r.ok = s.ok
      BY <2>1
    <2>4. /\ r.c \in Clients /\ r.c.recvBuffer = c.recvBuffer
          /\ s.ok => r.c.pc = "recv"
          /\ ~s.ok => r.c.pc = "input"
      BY <2>2, <2>3 DEF Clients, ClientPCs
    <2> QED
      BY <2>2, <2>3, <2>4 DEF r, LineTaken
  <1> QED
    BY <1>3, <1>4

(* A chunk received: the client takes the packet that is now whole and      *)
(* sends it back, or waits for more, or can not have it.                    *)
ChunkTaken(a, takes, r, sendable) ==
    /\ Sound(a.pb)
    /\ r.c \in Clients /\ Sound(r.c.recvBuffer)
    /\ r.sent \in Seq(Byte) /\ Lone(r.sent)
    /\ r.ok \in BOOLEAN
    /\ takes => r.c.recvBuffer = ConsumePacket(a.pb)
    /\ ~takes => r.c.recvBuffer = a.pb
    /\ r.ok => sendable /\ takes /\ r.c.pc = "recv"
    /\ ~r.ok => r.sent = << >>
    /\ ~r.ok /\ takes => r.c.pc = "input"
    /\ ~takes => r.c.pc = IF a.ok /\ ~IsAbleToGetPacket(a.pb) THEN "recv" ELSE "input"

LEMMA AfterRecvFacts ==
    ASSUME NEW c \in Clients, Sound(c.recvBuffer), NEW bytes \in Seq(Byte),
           Len(bytes) <= MAX_BUF_SIZE, NEW sendable, NEW junk \in Byte
    PROVE  LET a == AppendBuffer(c.recvBuffer, bytes)
           IN  ChunkTaken(a, TakesPacket(a, junk), AfterRecv(c, bytes, sendable, junk), sendable)
  <1> DEFINE a == AppendBuffer(c.recvBuffer, bytes)
             s == ClientSend(c.sendBuffer, ParseChat(Payload(a.pb, junk)), sendable, junk)
             r == AfterRecv(c, bytes, sendable, junk)
             takes == TakesPacket(a, junk)
  <1>1. r = IF takes
            THEN [c    |-> [pc         |-> IF s.ok THEN "recv" ELSE "input",
                            sendBuffer |-> s.pb,
                            recvBuffer |-> ConsumePacket(a.pb)],
                  sent |-> s.sent,
                  ok   |-> s.ok]
            ELSE [c    |-> [c EXCEPT !.pc = IF a.ok /\ ~IsAbleToGetPacket(a.pb)
                                            THEN "recv" ELSE "input",
                                     !.recvBuffer = a.pb],
                  sent |-> << >>,
                  ok   |-> FALSE]
    BY Zenon DEF AfterRecv
  <1>2. /\ DOMAIN c = {"pc", "sendBuffer", "recvBuffer"}
        /\ c.sendBuffer \in PacketBuffers /\ c.recvBuffer \in PacketBuffers
    BY DEF Clients
  <1>3. Sound(a.pb) /\ a.pb \in PacketBuffers
    BY AppendBufferFacts DEF Sound
  <1>4. CASE takes
    <2>1. r = [c    |-> [pc         |-> IF s.ok THEN "recv" ELSE "input",
                         sendBuffer |-> s.pb,
                         recvBuffer |-> ConsumePacket(a.pb)],
               sent |-> s.sent,
               ok   |-> s.ok]
      BY <1>1, <1>4, Zenon
    <2>2. a.ok /\ IsAbleToGetPacket(a.pb) /\ ParsesAsChat(Payload(a.pb, junk))
      BY <1>4 DEF TakesPacket
    <2>3. Sound(ConsumePacket(a.pb)) /\ ConsumePacket(a.pb) \in PacketBuffers
      BY <1>3, <2>2, FrontPacketFacts, Zenon DEF Sound
    <2>4. /\ s.pb \in PacketBuffers /\ s.sent \in Seq(Byte) /\ Lone(s.sent)
          /\ s.ok \in BOOLEAN /\ (s.ok => sendable) /\ (~s.ok => s.sent = << >>)
      <3> DEFINE msg     == ParseChat(Payload(a.pb, junk))
                 payload == SerializeChat(msg)
      <3>1. msg \in Seq(Byte)
        BY <1>3, <2>2, ParseType
      <3> HIDE DEF msg
      <3>2. payload \in Seq(Byte)
        BY <3>1, SerializeFacts, Zenon
      <3>3. PC2S_Chat \in Uint16
        BY WidthFacts DEF PC2S_Chat, Uint16
      <3> DEFINE t == SendPacket(c.sendBuffer, PC2S_Chat, payload, sendable, junk)
      <3>4. s = t
        BY Zenon DEF ClientSend, msg
      <3> HIDE DEF payload
      <3>5. SendsLone(t, sendable)
        BY <1>2, <3>2, <3>3, SendPacketLone, Zenon
      <3> HIDE DEF s, t
      <3> QED
        BY <3>4, <3>5, Zenon DEF SendsLone
    <2> HIDE DEF r, s, a, takes
    <2>5. /\ r.c = [pc |-> IF s.ok THEN "recv" ELSE "input", sendBuffer |-> s.pb,
                    recvBuffer |-> ConsumePacket(a.pb)]
          /\ r.sent = s.sent /\ r.ok = s.ok
      BY <2>1
    <2>6. /\ r.c \in Clients /\ r.c.recvBuffer = ConsumePacket(a.pb)
          /\ s.ok => r.c.pc = "recv"
          /\ ~s.ok => r.c.pc = "input"
      BY <2>3, <2>4, <2>5 DEF Clients, ClientPCs
    <2> QED
      BY <1>3, <1>4, <2>3, <2>4, <2>5, <2>6, Zenon DEF r, a, takes, ChunkTaken
  <1>5. CASE ~takes
    <2>1. r = [c    |-> [c EXCEPT !.pc = IF a.ok /\ ~IsAbleToGetPacket(a.pb)
                                         THEN "recv" ELSE "input",
                                  !.recvBuffer = a.pb],
               sent |-> << >>,
               ok   |-> FALSE]
      BY <1>1, <1>5, Zenon
    <2> DEFINE more == a.ok /\ ~IsAbleToGetPacket(a.pb)
    <2> HIDE DEF r, s, a, takes, more
    <2>2. /\ r.c = [c EXCEPT !.pc = IF more THEN "recv" ELSE "input", !.recvBuffer = a.pb]
          /\ r.sent = << >> /\ r.ok = FALSE
      BY <2>1 DEF more
    <2>3. /\ r.c \in Clients /\ r.c.recvBuffer = a.pb
          /\ more => r.c.pc = "recv"
          /\ ~more => r.c.pc = "input"
      BY <1>2, <1>3, <2>2 DEF Clients, ClientPCs
    <2>4. << >> \in Seq(Byte) /\ Lone(<< >>)
      BY DEF Lone, SizeofUint16
    <2> QED
      BY <1>3, <1>5, <2>2, <2>3, <2>4, Zenon DEF r, a, takes, more, ChunkTaken
  <1> QED
    BY <1>4, <1>5
-----------------------------------------------------------------------------
(* The inductive invariant of clients and server. *)

(* The server, and the histories of what it does. *)
Idle == pc = "recv" /\ Undisturbed => ~IsAbleToGetPacket(recvBuffer)

ServerSide ==
    /\ TypeOK /\ Sound(recvBuffer) /\ Connected /\ Answering
    /\ session \in [arrived : Seq(Byte), taken : Seq(Seq(Byte)), clean : BOOLEAN]
    /\ replies.sent \in Seq(Peers \X Seq(Byte))
    /\ Idle

(* The clients, and what they sent and received. *)
ClientSide ==
    /\ asked \in [Peers -> Seq(Seq(Byte))]
    /\ clients \in [Peers -> Clients]
    /\ \A p \in Peers : Sound(clients[p].recvBuffer)
    /\ got \in [Peers -> Nat]
    /\ \A p \in Peers : got[p] <= Len(SentTo(p))

(* Bytes on their way to the server or in its recvBuffer, and those on      *)
(* their way to the client or in its own.                                   *)
Pending(p)  == IF client = p THEN Unread(recvBuffer) \o link[p].up ELSE link[p].up
Returned(p) == Unread(clients[p].recvBuffer) \o Down(p)

(* A packet of the server that the client can take. *)
ChatReply(x) == /\ x \in Seq(Byte) /\ Framed(x) /\ Len(x) >= GetHeaderSize
                /\ ParsesAsChat(SubSeq(x, GetHeaderSize + 1, Len(x)))

(* There is one message, in one of the two directions; when a client is at  *)
(* its prompt there is none, and when it waits, one is on its way that is   *)
(* not whole in its own recvBuffer.                                         *)
Exchange(up, back, conn, at, able, framed) ==
    /\ up = << >> \/ back = << >>
    /\ back = << >> \/ ChatReply(back)
    /\ conn # "reset" => Lone(up)
    /\ conn = "idle" \/ (conn = "open" /\ at = "input") => up = << >> /\ back = << >>
    /\ at = "recv" => ~able
    /\ at = "recv" /\ conn = "open" /\ framed => Framed(up) \/ back # << >>

AllFramed(p) == \A i \in 1 .. Len(asked[p]) : Framed(asked[p][i])

Dialogue(p) == Exchange(Pending(p), Returned(p), link[p].state, clients[p].pc,
                        IsAbleToGetPacket(clients[p].recvBuffer), AllFramed(p))

(* A peer that is not connected, or whose connection waits to be accepted:  *)
(* nothing was sent to it.                                                  *)
Unserved(p) == p # client /\ link[p].state \in {"idle", "open", "fin"}

Watched(p) == Unserved(p) \/ (client = p /\ Undisturbed)

PeerInv(p) ==
    /\ clients[p].pc = "start" => link[p].state = "idle"
    /\ link[p].state = "reset" => link[p].up = << >>
    /\ Unserved(p) => /\ SentTo(p) = << >> /\ got[p] = 0
                      /\ Unread(clients[p].recvBuffer) = << >>
    /\ Watched(p) => Dialogue(p)

SysInv == ServerSide /\ ClientSide /\ \A p \in Peers : PeerInv(p)

-----------------------------------------------------------------------------
(* What was sent to a peer. *)

Parts(sent, p) == [i \in 1 .. Len(sent) |-> IF sent[i][1] = p THEN sent[i][2] ELSE << >>]

PartsOf(sent, p) ==
    /\ Parts(sent, p) \in Seq(Seq(Byte))
    /\ Len(Parts(sent, p)) = Len(sent) /\ Len(sent) \in Nat
    /\ \A i \in 1 .. Len(sent) :
          Parts(sent, p)[i] = IF sent[i][1] = p THEN sent[i][2] ELSE << >>

LEMMA PartsFacts ==
    ASSUME NEW sent \in Seq(Peers \X Seq(Byte)), NEW p
    PROVE  PartsOf(sent, p)
  <1>1. \A i \in 1 .. Len(sent) : sent[i][2] \in Seq(Byte)
    <2>1. \A i \in 1 .. Len(sent) : sent[i] \in Peers \X Seq(Byte)
      OBVIOUS
    <2> QED
      BY <2>1
  <1>2. \A i \in 1 .. Len(sent) : (IF sent[i][1] = p THEN sent[i][2] ELSE << >>) \in Seq(Byte)
    <2>1. << >> \in Seq(Byte)
      OBVIOUS
    <2> QED
      BY <1>1, <2>1
  <1> QED
    BY <1>2 DEF Parts, PartsOf

LEMMA SentToType ==
    ASSUME replies.sent \in Seq(Peers \X Seq(Byte)), NEW p
    PROVE  SentTo(p) \in Seq(Byte)
  <1>1. SentTo(p) = FlattenSeq(Parts(replies.sent, p))
    BY Zenon DEF SentTo, Parts
  <1>2. Parts(replies.sent, p) \in Seq(Seq(Byte))
    BY PartsFacts, Zenon DEF PartsOf
  <1> QED
    BY <1>1, <1>2, FlattenType

(* One more packet sent to q. *)
LEMMA SentToAppend ==
    ASSUME replies.sent \in Seq(Peers \X Seq(Byte)), NEW q \in Peers, NEW x \in Seq(Byte),
           replies'.sent = Append(replies.sent, <<q, x>>), NEW p
    PROVE  /\ replies'.sent \in Seq(Peers \X Seq(Byte))
           /\ p = q => SentTo(p)' = SentTo(p) \o x
           /\ p # q => SentTo(p)' = SentTo(p)
  <1> DEFINE sent == replies.sent
             more == Append(sent, <<q, x>>)
             y    == IF q = p THEN x ELSE << >>
             a    == Parts(more, p)
             b    == Append(Parts(sent, p), y)
  <1>1. <<q, x>> \in Peers \X Seq(Byte) /\ <<q, x>>[1] = q /\ <<q, x>>[2] = x
    OBVIOUS
  <1>2. /\ more \in Seq(Peers \X Seq(Byte)) /\ Len(more) = Len(sent) + 1 /\ Len(sent) \in Nat
        /\ \A i \in 1 .. Len(sent) : more[i] = sent[i]
        /\ more[Len(sent) + 1] = <<q, x>>
    BY <1>1, AppendProperties
  <1>3. y \in Seq(Byte)
    OBVIOUS
  <1> HIDE DEF y, sent, more
  <1>4. /\ Parts(sent, p) \in Seq(Seq(Byte)) /\ Len(Parts(sent, p)) = Len(sent)
        /\ \A i \in 1 .. Len(sent) :
              Parts(sent, p)[i] = IF sent[i][1] = p THEN sent[i][2] ELSE << >>
    <2>1. PartsOf(sent, p)
      BY PartsFacts, Zenon DEF sent
    <2> QED
      BY <2>1, Zenon DEF PartsOf
  <1>5. /\ a \in Seq(Seq(Byte)) /\ Len(a) = Len(sent) + 1
        /\ \A i \in 1 .. (Len(sent) + 1) :
              a[i] = IF more[i][1] = p THEN more[i][2] ELSE << >>
    <2>1. /\ a \in Seq(Seq(Byte)) /\ Len(a) = Len(more)
          /\ \A i \in 1 .. Len(more) :
                a[i] = IF more[i][1] = p THEN more[i][2] ELSE << >>
      <3>1. PartsOf(more, p)
        BY <1>2, PartsFacts, Zenon
      <3> QED
        BY <3>1, Zenon DEF PartsOf
    <2> HIDE DEF a
    <2> QED
      BY <1>2, <2>1
  <1>6. /\ b \in Seq(Seq(Byte)) /\ Len(b) = Len(sent) + 1
        /\ \A i \in 1 .. Len(sent) : b[i] = Parts(sent, p)[i]
        /\ b[Len(sent) + 1] = y
    BY <1>3, <1>4, AppendProperties
  <1> HIDE DEF a, b
  <1>7. ASSUME NEW i \in 1 .. (Len(sent) + 1) PROVE a[i] = b[i]
    <2>1. CASE i \in 1 .. Len(sent)
      <3>1. /\ a[i] = IF more[i][1] = p THEN more[i][2] ELSE << >>
            /\ more[i] = sent[i]
            /\ b[i] = IF sent[i][1] = p THEN sent[i][2] ELSE << >>
        BY <1>2, <1>4, <1>5, <1>6, <2>1
      <3> QED
        BY <3>1, Zenon
    <2>2. CASE i \notin 1 .. Len(sent)
      <3>1. i = Len(sent) + 1
        BY <1>2, <2>2
      <3>2. a[i] = IF q = p THEN x ELSE << >>
        BY <1>1, <1>2, <1>5, <3>1, Zenon
      <3> QED
        BY <1>6, <3>1, <3>2 DEF y
    <2> QED
      BY <2>1, <2>2
  <1>8. a = b
    BY <1>5, <1>6, <1>7, SeqEqual
  <1>9. FlattenSeq(b) = FlattenSeq(Parts(sent, p)) \o y
    BY <1>3, <1>4, FlattenAppend DEF b
  <1>10. /\ SentTo(p) = FlattenSeq(Parts(sent, p))
         /\ SentTo(p)' = FlattenSeq(a)
    <2>1. replies'.sent = more
      BY DEF more, sent
    <2>2. SentTo(p)' = FlattenSeq(Parts(replies'.sent, p))
      BY Zenon DEF SentTo, Parts
    <2> QED
      BY <2>1, <2>2, Zenon DEF SentTo, Parts, sent, a
  <1>11. SentTo(p) \in Seq(Byte)
    BY SentToType
  <1>12. SentTo(p) \o << >> = SentTo(p)
    <2> DEFINE t == SentTo(p)
    <2>1. t \in Seq(Byte)
      BY <1>11
    <2> HIDE DEF t
    <2>2. t \o << >> = t
      BY <2>1
    <2> QED
      BY <2>2 DEF t
  <1>13. replies'.sent = more
    BY DEF more, sent
  <1> QED
    BY <1>2, <1>8, <1>9, <1>10, <1>12, <1>13, Zenon DEF y

LEMMA SentToSame ==
    ASSUME replies'.sent = replies.sent, NEW p
    PROVE  SentTo(p)' = SentTo(p)
  BY Zenon DEF SentTo

-----------------------------------------------------------------------------
(* A step that does not concern a peer. *)

Calm(p) ==
    /\ link'[p].state = link[p].state
    /\ link[p].state = "reset" => link'[p].up = link[p].up
    /\ SentTo(p)' = SentTo(p) /\ got'[p] = got[p]
    /\ clients'[p] = clients[p] /\ asked'[p] = asked[p]
    /\ Unserved(p)' => Unserved(p)
    /\ Watched(p)' => Watched(p) /\ Pending(p)' = Pending(p)

LEMMA CalmKeeps ==
    ASSUME NEW p \in Peers, PeerInv(p), Calm(p)
    PROVE  PeerInv(p)'
  <1>1. Watched(p)' => (Dialogue(p) => Dialogue(p)')
    <2>1. Returned(p)' = Returned(p)
      BY Zenon DEF Calm, Returned, Down
    <2>2. AllFramed(p)' = AllFramed(p)
      BY Zenon DEF Calm, AllFramed
    <2> QED
      BY <2>1, <2>2, Zenon DEF Calm, Dialogue
  <1> QED
    BY <1>1, Zenon DEF Calm, PeerInv

LEMMA AnsweringAlone ==
    ASSUME Answering, sendBuffer' = sendBuffer, count' = count, replies' = replies
    PROVE  Answering'
  BY DEF Answering, Queued, RepliesInOrder

(* Whether there is a whole packet depends on the unread bytes alone. *)
LEMMA AbleFacts ==
    ASSUME NEW b, Sound(b)
    PROVE  IsAbleToGetPacket(b) <=>
              FrontSizeOf(Unread(b)) # 0 /\ FrontSizeOf(Unread(b)) <= Len(Unread(b))
  <1>1. /\ GetPacketSize(b) = FrontSizeOf(Unread(b))
        /\ GetBufferSize(b) = Len(Unread(b))
        /\ FrontSizeOf(Unread(b)) \in Nat /\ GetBufferSize(b) \in Nat
    BY UnreadFacts, PacketSizeFacts
  <1> QED
    BY <1>1 DEF IsAbleToGetPacket

LEMMA EmptyUnable ==
    ASSUME NEW b, Sound(b), Unread(b) = << >>
    PROVE  ~IsAbleToGetPacket(b)
  <1>1. FrontSizeOf(Unread(b)) = 0
    BY DEF FrontSizeOf
  <1> QED
    BY <1>1, AbleFacts

-----------------------------------------------------------------------------
(* What the invariant says of the state's type. *)

Links == [Peers -> [state : {"idle", "open", "fin", "reset", "closed"}, up : Seq(Byte)]]

LEMMA SysTypes ==
    ASSUME SysInv
    PROVE  /\ link \in Links /\ asked \in [Peers -> Seq(Seq(Byte))]
           /\ clients \in [Peers -> Clients] /\ got \in [Peers -> Nat]
           /\ backlog \in Seq(Peers) /\ client \in Peers \cup {NoPeer}
           /\ recvBuffer \in PacketBuffers /\ Sound(recvBuffer)
           /\ sendBuffer \in PacketBuffers /\ count \in Nat
           /\ replies.sent \in Seq(Peers \X Seq(Byte))
           /\ session \in [arrived : Seq(Byte), taken : Seq(Seq(Byte)), clean : BOOLEAN]
           /\ NoPeer \notin Peers
  BY ServerAssumption DEF SysInv, ServerSide, ClientSide, TypeOK, Links

LEMMA PeerFacts ==
    ASSUME SysInv, NEW p \in Peers
    PROVE  /\ PeerInv(p)
           /\ link[p].state \in {"idle", "open", "fin", "reset", "closed"}
           /\ link[p].up \in Seq(Byte)
           /\ clients[p] \in Clients /\ Sound(clients[p].recvBuffer)
           /\ got[p] \in Nat /\ got[p] <= Len(SentTo(p))
           /\ SentTo(p) \in Seq(Byte)
           /\ asked[p] \in Seq(Seq(Byte))
  <1>1. link \in Links /\ asked \in [Peers -> Seq(Seq(Byte))]
    BY SysTypes
  <1>2. link[p] \in [state : {"idle", "open", "fin", "reset", "closed"}, up : Seq(Byte)]
    BY <1>1 DEF Links
  <1>3. SentTo(p) \in Seq(Byte)
    BY SysTypes, SentToType
  <1>4. clients[p] \in Clients /\ got[p] \in Nat /\ asked[p] \in Seq(Seq(Byte))
    BY SysTypes
  <1>5. Sound(clients[p].recvBuffer) /\ got[p] <= Len(SentTo(p)) /\ PeerInv(p)
    BY DEF SysInv, ClientSide
  <1> QED
    BY <1>2, <1>3, <1>4, <1>5

-----------------------------------------------------------------------------
(* Initially. *)

LEMMA InitSysInv == SysInit => SysInv
  <1> SUFFICES ASSUME SysInit PROVE SysInv
    OBVIOUS
  <1>1. PICK pad \in Junk : recvBuffer = Constructed(pad) /\ sendBuffer = Constructed(pad)
    BY DEF SysInit, Init
  <1>2. PICK own \in Junk : clients = [p \in Peers |-> NewClient(own)]
    BY DEF SysInit
  <1>3. /\ Sound(recvBuffer) /\ Unread(recvBuffer) = << >>
        /\ Sound(sendBuffer) /\ Unread(sendBuffer) = << >>
        /\ Sound(Constructed(own)) /\ Unread(Constructed(own)) = << >>
    <2>1. pad \in Byte /\ own \in Byte
      BY ServerAssumption
    <2> QED
      BY <1>1, <2>1, ConstructedFacts, Zenon
  <1>4. /\ pc \in Range(Startup) /\ retval = "data" /\ count = 0 /\ client = NoPeer
        /\ backlog = << >> /\ NoPeer \notin Peers
        /\ link = [p \in Peers |-> [state |-> "idle", up |-> << >>]]
        /\ asked = [p \in Peers |-> << >>]
        /\ got = [p \in Peers |-> 0]
    BY StartupFacts, ServerAssumption DEF SysInit, Init
  <1>5. /\ session = [arrived |-> << >>, taken |-> << >>, clean |-> TRUE]
        /\ replies.made = << >> /\ replies.sent = << >>
        /\ replies.failed = FALSE /\ replies.misfit = FALSE
    BY DEF SysInit, Init
  <1>6. TypeOK
    <2>1. recvBuffer \in PacketBuffers /\ sendBuffer \in PacketBuffers
      BY <1>3 DEF Sound
    <2> QED
      BY <1>4, <2>1 DEF TypeOK
  <1>7. Connected
    BY <1>4, StartupFacts DEF Connected
  <1>8. Queued
    BY InitIInv DEF SysInit, IInv
  <1>9. Answering
    BY <1>3, <1>4, <1>5, <1>8 DEF Answering, Sound
  <1>10. Idle
    BY <1>4, StartupFacts DEF Idle
  <1>11. replies.sent \in Seq(Peers \X Seq(Byte))
    BY <1>5
  <1>12. ServerSide
    <2>1. session \in [arrived : Seq(Byte), taken : Seq(Seq(Byte)), clean : BOOLEAN]
      BY <1>5
    <2> QED
      BY <1>3, <1>6, <1>7, <1>9, <1>10, <1>11, <2>1 DEF ServerSide
  <1>13. ASSUME NEW p \in Peers
         PROVE  /\ clients[p] = NewClient(own) /\ clients[p] \in Clients
                /\ clients[p].pc = "start" /\ clients[p].recvBuffer = Constructed(own)
    <2>1. clients[p] = NewClient(own)
      BY <1>2
    <2> QED
      BY <1>3, <2>1 DEF NewClient, Clients, ClientPCs, Sound
  <1>14. ASSUME NEW p \in Peers
         PROVE  SentTo(p) = << >> /\ Down(p) = << >> /\ got[p] = 0
    <2>1. Parts(replies.sent, p) = << >>
      BY <1>5 DEF Parts
    <2>2. SentTo(p) = << >>
      BY <2>1, FlattenEmpty, Zenon DEF SentTo, Parts
    <2>3. got[p] = 0
      BY <1>4
    <2> QED
      BY <2>2, <2>3 DEF Down
  <1>15. ClientSide
    <2>1. asked \in [Peers -> Seq(Seq(Byte))] /\ got \in [Peers -> Nat]
      BY <1>4
    <2>2. clients \in [Peers -> Clients]
      BY <1>2, <1>13
    <2>3. \A p \in Peers : Sound(clients[p].recvBuffer)
      BY <1>3, <1>13, Zenon
    <2>4. ASSUME NEW p \in Peers PROVE got[p] <= Len(SentTo(p))
      BY <1>14
    <2> QED
      BY <2>1, <2>2, <2>3, <2>4 DEF ClientSide
  <1>16. ASSUME NEW p \in Peers PROVE PeerInv(p)
    <2>1. /\ link[p].state = "idle" /\ link[p].up = << >> /\ p # client
      BY <1>4
    <2>2. Pending(p) = << >>
      BY <2>1, Zenon DEF Pending
    <2>3. Unread(clients[p].recvBuffer) = << >>
      BY <1>3, <1>13, Zenon
    <2>4. Returned(p) = << >>
      <3>1. << >> \o << >> = << >>
        OBVIOUS
      <3> QED
        BY <1>14, <2>3, <3>1, Zenon DEF Returned
    <2>5. Dialogue(p)
      <3>1. Exchange(<< >>, << >>, "idle", "start", IsAbleToGetPacket(clients[p].recvBuffer),
                     AllFramed(p))
        BY DEF Exchange, Lone, SizeofUint16
      <3> QED
        BY <1>13, <2>1, <2>2, <2>4, <3>1, Zenon DEF Dialogue
    <2> QED
      BY <1>14, <2>1, <2>3, <2>5 DEF PeerInv
  <1> QED
    BY <1>12, <1>15, <1>16 DEF SysInv

-----------------------------------------------------------------------------
(* The server's steps. *)

(* The clients' own state does not change. *)
LEMMA ClientsAlone ==
    ASSUME SysInv, UNCHANGED <<clients, got, asked>>, replies'.sent = replies.sent
    PROVE  ClientSide'
  <1>1. \A p \in Peers : SentTo(p)' = SentTo(p)
    BY SentToSame
  <1> QED
    BY <1>1 DEF SysInv, ClientSide

LEMMA AllCalm ==
    ASSUME SysInv, ServerSide', ClientSide', \A p \in Peers : Calm(p)
    PROVE  SysInv'
  <1>1. \A p \in Peers : PeerInv(p)'
    BY CalmKeeps DEF SysInv
  <1> QED
    BY <1>1 DEF SysInv

(* Steps that change where the server is and no more. *)
LEMMA SysMovesOn ==
    ASSUME SysInv, UNCHANGED <<retval, buffers, client, net, history, clients, got>>,
           pc' \in Range(Startup) \cup {"recv", "dispatch", "exit", "aborted"},
           pc' \in {"recv", "dispatch"} => client \in Peers,
           pc' \in Range(Startup) => client = NoPeer,
           pc' = "recv" /\ Undisturbed => ~IsAbleToGetPacket(recvBuffer)
    PROVE  SysInv'
  <1>1. /\ retval' = retval /\ recvBuffer' = recvBuffer /\ sendBuffer' = sendBuffer
        /\ count' = count /\ client' = client /\ backlog' = backlog /\ link' = link
        /\ asked' = asked /\ session' = session /\ replies' = replies /\ refused' = refused
        /\ clients' = clients /\ got' = got
    BY DEF buffers, net, history
  <1>2. Undisturbed' = Undisturbed
    BY <1>1 DEF Undisturbed
  <1>3. ServerSide'
    <2>1. TypeOK'
      BY <1>1 DEF SysInv, ServerSide, TypeOK
    <2>2. Connected'
      BY <1>1 DEF SysInv, ServerSide, Connected
    <2>3. Answering'
      BY <1>1, AnsweringAlone DEF SysInv, ServerSide
    <2>4. Idle'
      BY <1>1, <1>2 DEF Idle
    <2> QED
      BY <1>1, <2>1, <2>2, <2>3, <2>4 DEF SysInv, ServerSide
  <1>4. ClientSide'
    BY <1>1, ClientsAlone
  <1>5. ASSUME NEW p \in Peers PROVE Calm(p)
    <2>1. SentTo(p)' = SentTo(p)
      BY <1>1, SentToSame
    <2>2. Pending(p)' = Pending(p) /\ Unserved(p)' = Unserved(p)
      BY <1>1 DEF Pending, Unserved
    <2> QED
      BY <1>1, <1>2, <2>1, <2>2 DEF Calm, Watched
  <1> QED
    BY <1>3, <1>4, <1>5, AllCalm

LEMMA SysStartup ==
    ASSUME SysInv, StartupSucceeds \/ StartupFails, UNCHANGED <<clients, got>>
    PROVE  SysInv'
  <1>1. UNCHANGED <<retval, buffers, client, net, history>>
    BY DEF StartupSucceeds, StartupFails
  <1>2. PICK i \in 1 .. 4 : pc = Startup[i] /\ (pc' = Startup[i + 1] \/ pc' = "exit")
    BY DEF StartupSucceeds, StartupFails
  <1>3. pc \in Range(Startup) /\ pc' \in Range(Startup) \cup {"exit"}
    BY <1>2, StartupFacts
  <1>4. client = NoPeer
    BY <1>3 DEF SysInv, ServerSide, Connected
  <1>5. pc' # "recv" /\ pc' # "dispatch"
    BY <1>3, StartupFacts
  <1> QED
    BY <1>1, <1>3, <1>4, <1>5, SysMovesOn

LEMMA SysDispatchDone ==
    ASSUME SysInv, DispatchDone \/ HandleAborts, UNCHANGED <<clients, got>>
    PROVE  SysInv'
  <1>1. /\ UNCHANGED <<retval, buffers, client, net, history>>
        /\ pc = "dispatch" /\ pc' \in {"recv", "aborted"}
        /\ pc' = "recv" => ~IsAbleToGetPacket(recvBuffer)
    BY DEF DispatchDone, HandleAborts
  <1>2. client \in Peers
    BY <1>1 DEF SysInv, ServerSide, Connected
  <1>3. pc' \notin Range(Startup)
    BY <1>1, StartupFacts
  <1> QED
    BY <1>1, <1>2, <1>3, SysMovesOn

(* A refused packet ends what the invariant says of the dialogue. *)
LEMMA SysHandleFails ==
    ASSUME SysInv, NEW junk \in Junk, HandleFails(junk), UNCHANGED <<clients, got>>
    PROVE  SysInv'
  <1>1. /\ retval' = retval /\ recvBuffer' = recvBuffer /\ sendBuffer' = sendBuffer
        /\ count' = count /\ client' = client /\ backlog' = backlog /\ link' = link
        /\ asked' = asked /\ session' = session /\ replies' = replies
        /\ clients' = clients /\ got' = got
        /\ pc = "dispatch" /\ pc' = "recv" /\ IsAbleToGetPacket(recvBuffer)
        /\ refused' = PacketBytes(recvBuffer, junk)
    BY DEF HandleFails, buffers, net
  <1>2. ~Undisturbed'
    <2>1. refused' # << >>
      BY <1>1, SysTypes, FrontPacketFacts, Zenon
    <2> QED
      BY <2>1 DEF Undisturbed
  <1>3. ServerSide'
    <2>1. TypeOK'
      BY <1>1 DEF SysInv, ServerSide, TypeOK
    <2>2. Connected'
      BY <1>1, StartupFacts DEF SysInv, ServerSide, Connected
    <2>3. Answering'
      BY <1>1, AnsweringAlone DEF SysInv, ServerSide
    <2>4. Idle'
      BY <1>2 DEF Idle
    <2> QED
      BY <1>1, <2>1, <2>2, <2>3, <2>4 DEF SysInv, ServerSide
  <1>4. ClientSide'
    BY <1>1, ClientsAlone
  <1>5. ASSUME NEW p \in Peers PROVE Calm(p)
    <2>1. SentTo(p)' = SentTo(p)
      BY <1>1, SentToSame
    <2>2. Pending(p)' = Pending(p) /\ Unserved(p)' = Unserved(p)
      BY <1>1 DEF Pending, Unserved
    <2> QED
      BY <1>1, <1>2, <2>1, <2>2 DEF Calm, Watched
  <1> QED
    BY <1>3, <1>4, <1>5, AllCalm

(* An accepted connection is one nothing was sent on yet.  What is said of  *)
(* it stays true unless an earlier connection left bytes in recvBuffer.     *)
LEMMA SysAccept ==
    ASSUME SysInv, Accept, UNCHANGED <<clients, got>>
    PROVE  SysInv'
  <1> DEFINE h == Head(backlog)
  <1>1. /\ retval' = retval /\ recvBuffer' = recvBuffer /\ sendBuffer' = sendBuffer
        /\ count' = count /\ client' = h /\ backlog' = Tail(backlog) /\ link' = link
        /\ asked' = asked /\ session' = BeginSession /\ replies' = replies
        /\ refused' = refused /\ clients' = clients /\ got' = got
        /\ pc = "accept" /\ pc' = "recv" /\ backlog # << >> /\ link[h].state # "reset"
    BY DEF Accept, buffers
  <1>2. /\ h \in Peers /\ h # client /\ link[h].state \in Live
        /\ backlog' \in Seq(Peers)
        /\ \A i \in 1 .. Len(backlog') : /\ backlog'[i] \in Peers /\ backlog'[i] # h
                                         /\ link[backlog'[i]].state \in Live
        /\ \A i, j \in 1 .. Len(backlog') : backlog'[i] = backlog'[j] => i = j
    BY <1>1, SysTypes, BacklogFacts DEF SysInv, ServerSide
  <1>3. client = NoPeer /\ NoPeer \notin Peers /\ pc' \notin Range(Startup)
    BY <1>1, SysTypes, StartupFacts DEF SysInv, ServerSide, Connected
  <1> HIDE DEF h
  <1>4. session'.clean => Unread(recvBuffer) = << >>
    BY <1>1 DEF BeginSession
  <1>5. ServerSide'
    <2>1. TypeOK'
      BY <1>1, <1>2 DEF SysInv, ServerSide, TypeOK
    <2>2. Connected'
      BY <1>1, <1>2, <1>3 DEF Connected
    <2>3. Answering'
      BY <1>1, AnsweringAlone DEF SysInv, ServerSide
    <2>4. Idle'
      BY <1>1, <1>4, SysTypes, EmptyUnable DEF Idle, Undisturbed
    <2>5. session' \in [arrived : Seq(Byte), taken : Seq(Seq(Byte)), clean : BOOLEAN]
      <3>1. Unread(recvBuffer) \in Seq(Byte)
        BY SysTypes, UnreadFacts
      <3>2. << >> \in Seq(Seq(Byte))
        OBVIOUS
      <3> QED
        BY <1>1, <3>1, <3>2 DEF BeginSession
    <2> QED
      BY <1>1, <2>1, <2>2, <2>3, <2>4, <2>5 DEF SysInv, ServerSide
  <1>6. ClientSide'
    BY <1>1, ClientsAlone
  <1>7. ASSUME NEW p \in Peers PROVE Calm(p)
    <2>1. SentTo(p)' = SentTo(p)
      BY <1>1, SentToSame
    <2>2. Unserved(p)' => Unserved(p)
      BY <1>1, <1>3 DEF Unserved
    <2>3. CASE p = h
      <3>1. Unserved(p)
        BY <1>1, <1>2, <2>3 DEF Unserved, Live
      <3>2. Watched(p)' => Undisturbed'
        BY <1>1, <2>3 DEF Watched, Unserved
      <3>3. Undisturbed' => Pending(p)' = Pending(p)
        <4>1. link[p].up \in Seq(Byte) /\ << >> \o link[p].up = link[p].up
          BY PeerFacts
        <4>2. Pending(p) = link[p].up /\ Pending(p)' = Unread(recvBuffer) \o link[p].up
          BY <1>1, <1>2, <2>3 DEF Pending
        <4> QED
          BY <1>4, <4>1, <4>2, Zenon DEF Undisturbed
      <3> QED
        BY <1>1, <2>1, <2>2, <3>1, <3>2, <3>3, Zenon DEF Calm, Watched
    <2>4. CASE p # h
      <3>1. Pending(p)' = Pending(p)
        BY <1>1, <1>3, <2>4 DEF Pending
      <3>2. Watched(p)' => Unserved(p)
        BY <1>1, <2>2, <2>4 DEF Watched
      <3> QED
        BY <1>1, <2>1, <2>2, <3>1, <3>2, Zenon DEF Calm, Watched
    <2> QED
      BY <2>3, <2>4
  <1> QED
    BY <1>5, <1>6, <1>7, AllCalm

LEMMA SysAcceptFails ==
    ASSUME SysInv, AcceptFails, UNCHANGED <<clients, got>>
    PROVE  SysInv'
  <1>1. /\ pc' = pc /\ retval' = retval /\ recvBuffer' = recvBuffer /\ sendBuffer' = sendBuffer
        /\ count' = count /\ client' = client /\ backlog' = Tail(backlog) /\ link' = link
        /\ asked' = asked /\ session' = session /\ replies' = replies
        /\ refused' = refused /\ clients' = clients /\ got' = got
        /\ backlog # << >>
    BY DEF AcceptFails, serverVars, buffers, history
  <1>2. /\ backlog' \in Seq(Peers)
        /\ \A i \in 1 .. Len(backlog') : /\ backlog'[i] \in Peers /\ backlog'[i] # client
                                         /\ link[backlog'[i]].state \in Live
        /\ \A i, j \in 1 .. Len(backlog') : backlog'[i] = backlog'[j] => i = j
    BY <1>1, SysTypes, BacklogFacts DEF SysInv, ServerSide
  <1>3. Undisturbed' = Undisturbed
    BY <1>1 DEF Undisturbed
  <1>4. ServerSide'
    <2>1. TypeOK'
      BY <1>1, <1>2 DEF SysInv, ServerSide, TypeOK
    <2>2. Connected'
      BY <1>1, <1>2 DEF SysInv, ServerSide, Connected
    <2>3. Answering'
      BY <1>1, AnsweringAlone DEF SysInv, ServerSide
    <2>4. Idle'
      BY <1>1, <1>3 DEF SysInv, ServerSide, Idle
    <2> QED
      BY <1>1, <2>1, <2>2, <2>3, <2>4 DEF SysInv, ServerSide
  <1>5. ClientSide'
    BY <1>1, ClientsAlone
  <1>6. ASSUME NEW p \in Peers PROVE Calm(p)
    <2>1. SentTo(p)' = SentTo(p)
      BY <1>1, SentToSame
    <2>2. Pending(p)' = Pending(p) /\ Unserved(p)' = Unserved(p)
      BY <1>1 DEF Pending, Unserved
    <2> QED
      BY <1>1, <1>3, <2>1, <2>2 DEF Calm, Watched
  <1> QED
    BY <1>4, <1>5, <1>6, AllCalm

(* CloseSession. *)
LEMMA SysRecvFails ==
    ASSUME SysInv, RecvFails, UNCHANGED <<clients, got>>
    PROVE  SysInv'
  <1>1. /\ recvBuffer' = recvBuffer /\ sendBuffer' = sendBuffer
        /\ count' = count /\ client' = NoPeer /\ backlog' = backlog
        /\ link' = [link EXCEPT ![client].state = "closed"]
        /\ asked' = asked /\ session' = session /\ replies' = replies
        /\ refused' = refused /\ clients' = clients /\ got' = got
        /\ pc = "recv" /\ pc' = "accept" /\ retval' = "error" /\ link[client].state = "reset"
    BY DEF RecvFails, buffers, history
  <1>2. client \in Peers /\ NoPeer \notin Peers /\ link \in Links /\ pc' \in Range(Startup)
    BY <1>1, SysTypes, StartupFacts DEF SysInv, ServerSide, Connected
  <1>3. /\ link' \in Links /\ link'[client].state = "closed"
        /\ \A p \in Peers : p # client => link'[p] = link[p]
    BY <1>1, <1>2 DEF Links
  <1>4. ServerSide'
    <2>1. TypeOK'
      BY <1>1, <1>2, <1>3 DEF SysInv, ServerSide, TypeOK, Links
    <2>2. Connected'
      <3>1. \A i \in 1 .. Len(backlog) : backlog[i] \in Peers
        BY SysTypes
      <3>2. ASSUME NEW i \in 1 .. Len(backlog')
            PROVE  backlog'[i] # client' /\ link'[backlog'[i]].state \in Live
        BY <1>1, <1>2, <1>3, <3>1 DEF SysInv, ServerSide, Connected
      <3> QED
        BY <1>1, <1>2, <3>2 DEF SysInv, ServerSide, Connected
    <2>3. Answering'
      BY <1>1, AnsweringAlone DEF SysInv, ServerSide
    <2>4. Idle'
      BY <1>1 DEF Idle
    <2> QED
      BY <1>1, <2>1, <2>2, <2>3, <2>4 DEF SysInv, ServerSide
  <1>5. ClientSide'
    BY <1>1, ClientsAlone
  <1>6. ASSUME NEW p \in Peers PROVE PeerInv(p)'
    <2>1. CASE p = client
      <3>1. ~Unserved(p)' /\ ~Watched(p)'
        BY <1>1, <1>2, <1>3, <2>1 DEF Watched, Unserved
      <3>2. clients'[p].pc # "start"
        BY <1>1, <2>1, PeerFacts DEF PeerInv
      <3> QED
        BY <1>3, <2>1, <3>1, <3>2 DEF PeerInv
    <2>2. CASE p # client
      <3>1. SentTo(p)' = SentTo(p)
        BY <1>1, SentToSame
      <3>2. link'[p] = link[p]
        BY <1>3, <2>2
      <3>3. Pending(p)' = Pending(p) /\ Unserved(p)' = Unserved(p)
        BY <1>1, <1>2, <2>2, <3>2 DEF Pending, Unserved
      <3>4. Watched(p)' => Watched(p)
        BY <1>1, <1>2, <3>3 DEF Watched
      <3>5. Calm(p)
        BY <1>1, <3>1, <3>2, <3>3, <3>4 DEF Calm
      <3> QED
        BY <3>5, PeerFacts, CalmKeeps
    <2> QED
      BY <2>1, <2>2
  <1> QED
    BY <1>4, <1>5, <1>6 DEF SysInv

(* The chunk of nothing. *)
LEMMA SysRecvNothing ==
    ASSUME SysInv, RecvNothing, UNCHANGED <<clients, got>>
    PROVE  SysInv'
  <1> DEFINE r == OnRecv(recvBuffer, << >>)
  <1>1. /\ pc' = pc /\ recvBuffer' = r.pb /\ sendBuffer' = sendBuffer
        /\ count' = count /\ client' = client /\ backlog' = backlog /\ link' = link
        /\ asked' = asked /\ session' = session /\ replies' = replies
        /\ refused' = refused /\ clients' = clients /\ got' = got /\ retval' = "none"
    BY DEF RecvNothing, net, history
  <1>2. /\ Sound(r.pb) /\ Unread(r.pb) = Unread(recvBuffer)
    <2>1. << >> \in Seq(Byte)
      OBVIOUS
    <2> QED
      BY <2>1, SysTypes, OnRecvFacts
  <1> HIDE DEF r
  <1>3. Undisturbed' = Undisturbed
    BY <1>1 DEF Undisturbed
  <1>4. ServerSide'
    <2>1. TypeOK'
      BY <1>1, <1>2 DEF SysInv, ServerSide, TypeOK, Sound
    <2>2. Connected'
      BY <1>1, <1>2 DEF SysInv, ServerSide, Connected
    <2>3. Answering'
      BY <1>1, AnsweringAlone DEF SysInv, ServerSide
    <2>4. Idle'
      <3>1. IsAbleToGetPacket(r.pb) <=> IsAbleToGetPacket(recvBuffer)
        BY <1>2, SysTypes, AbleFacts, Zenon
      <3> QED
        BY <1>1, <1>3, <3>1, Zenon DEF SysInv, ServerSide, Idle
    <2> QED
      BY <1>1, <1>2, <2>1, <2>2, <2>3, <2>4 DEF SysInv, ServerSide
  <1>5. ClientSide'
    BY <1>1, ClientsAlone
  <1>6. ASSUME NEW p \in Peers PROVE Calm(p)
    <2>1. SentTo(p)' = SentTo(p)
      BY <1>1, SentToSame
    <2>2. Pending(p)' = Pending(p) /\ Unserved(p)' = Unserved(p)
      BY <1>1, <1>2, Zenon DEF Pending, Unserved
    <2> QED
      BY <1>1, <1>3, <2>1, <2>2 DEF Calm, Watched
  <1> QED
    BY <1>4, <1>5, <1>6, AllCalm

(* Bytes move from the connection to recvBuffer, or are lost. *)
LEMMA SysRecvData ==
    ASSUME SysInv, RecvData, UNCHANGED <<clients, got>>
    PROVE  SysInv'
  <1>1. PICK n \in 1 .. (MAX_BUF_SIZE + 1) : n <= Len(link[client].up) /\ Recv(n)
    BY DEF RecvData
  <1> DEFINE up    == link[client].up
             bytes == SubSeq(up, 1, n)
             rest  == SubSeq(up, n + 1, Len(up))
             r     == OnRecv(recvBuffer, bytes)
  <1>2. /\ link' = [link EXCEPT ![client].up = rest]
        /\ retval' = "data" /\ recvBuffer' = r.pb
        /\ pc' = IF r.ok THEN "dispatch" ELSE "recv"
        /\ session' = IF r.ok THEN [session EXCEPT !.arrived = @ \o bytes]
                              ELSE [session EXCEPT !.clean = FALSE]
        /\ sendBuffer' = sendBuffer /\ count' = count /\ client' = client
        /\ backlog' = backlog /\ asked' = asked /\ replies' = replies
        /\ refused' = refused /\ clients' = clients /\ got' = got
    BY <1>1 DEF Recv
  <1>3. pc = "recv" /\ client \in Peers /\ link \in Links /\ up \in Seq(Byte) /\ n <= Len(up)
    <2>1. pc = "recv" /\ client \in Peers
      BY DEF RecvData, SysInv, ServerSide, Connected
    <2> QED
      BY <1>1, <2>1, SysTypes, PeerFacts
  <1>4. /\ bytes \in Seq(Byte) /\ rest \in Seq(Byte) /\ up = bytes \o rest
    <2>1. n \in 0 .. Len(up)
      <3> HIDE DEF up
      <3>1. n \in Nat /\ Len(up) \in Nat
        BY <1>3, WidthFacts
      <3> QED
        BY <1>3, <3>1
    <2> QED
      BY <1>3, <2>1, SplitFacts, Zenon
  <1>5. /\ Sound(r.pb)
        /\ r.ok => Unread(r.pb) = Unread(recvBuffer) \o bytes
    BY <1>4, SysTypes, OnRecvFacts, Zenon
  <1>6. /\ link' \in Links /\ link'[client].state = link[client].state
        /\ link'[client].up = rest
        /\ \A p \in Peers : p # client => link'[p] = link[p]
    <2> HIDE DEF rest
    <2> QED
      BY <1>2, <1>3, <1>4 DEF Links
  <1>7. link[client].state # "reset"
    <2>1. up # << >>
      <3>1. Len(up) # 0
        <4>1. n \in Nat /\ n >= 1 /\ Len(up) \in Nat
          BY <1>3, WidthFacts
        <4> QED
          BY <1>3, <4>1
      <3> QED
        BY <1>3, <3>1, EmptyFacts
    <2>2. PeerInv(client)
      BY <1>3, PeerFacts
    <2> QED
      BY <2>1, <2>2 DEF PeerInv
  <1> HIDE DEF bytes, rest, r, up
  <1>8. Undisturbed' => Undisturbed /\ r.ok
    <2>1. session \in [arrived : Seq(Byte), taken : Seq(Seq(Byte)), clean : BOOLEAN]
      BY SysTypes
    <2>2. session'.clean => session.clean /\ r.ok
      BY <1>2, <2>1
    <2> QED
      BY <1>2, <2>2 DEF Undisturbed
  <1>9. ServerSide'
    <2>1. TypeOK'
      BY <1>2, <1>5, <1>6, StartupFacts DEF SysInv, ServerSide, TypeOK, Sound, Links
    <2>2. Connected'
      <3>1. \A i \in 1 .. Len(backlog) : backlog[i] \in Peers
        BY SysTypes
      <3>2. ASSUME NEW i \in 1 .. Len(backlog')
            PROVE  backlog'[i] # client' /\ link'[backlog'[i]].state \in Live
        BY <1>2, <1>3, <1>6, <3>1 DEF SysInv, ServerSide, Connected
      <3>3. link'[client].state \in Live
        BY <1>3, <1>6 DEF SysInv, ServerSide, Connected
      <3>4. pc' \in {"recv", "dispatch"} /\ pc' \notin Range(Startup)
        BY <1>2, StartupFacts
      <3>5. \A i, j \in 1 .. Len(backlog') : backlog'[i] = backlog'[j] => i = j
        BY <1>2 DEF SysInv, ServerSide, Connected
      <3> QED
        BY <1>2, <1>3, <3>2, <3>3, <3>4, <3>5 DEF Connected
    <2>3. Answering'
      BY <1>2, AnsweringAlone DEF SysInv, ServerSide
    <2>4. Idle'
      BY <1>2, <1>8 DEF Idle
    <2>5. session' \in [arrived : Seq(Byte), taken : Seq(Seq(Byte)), clean : BOOLEAN]
      <3>1. /\ session \in [arrived : Seq(Byte), taken : Seq(Seq(Byte)), clean : BOOLEAN]
            /\ session.arrived \o bytes \in Seq(Byte)
        BY <1>4, SysTypes, ConcatBytes
      <3> QED
        BY <1>2, <3>1
    <2> QED
      BY <1>2, <1>5, <2>1, <2>2, <2>3, <2>4, <2>5 DEF SysInv, ServerSide
  <1>10. ClientSide'
    BY <1>2, ClientsAlone
  <1>11. ASSUME NEW p \in Peers PROVE Calm(p)
    <2>1. SentTo(p)' = SentTo(p)
      BY <1>2, SentToSame
    <2>2. link'[p].state = link[p].state /\ Unserved(p)' = Unserved(p)
      BY <1>2, <1>6 DEF Unserved
    <2>3. link[p].state = "reset" => link'[p].up = link[p].up
      BY <1>6, <1>7
    <2>4. Watched(p)' => Watched(p)
      BY <1>2, <1>8, <2>2 DEF Watched
    <2>5. CASE p = client
      <3>1. Watched(p)' => Undisturbed'
        BY <1>2, <2>5 DEF Watched, Unserved
      <3>2. ASSUME r.ok PROVE Pending(p)' = Pending(p)
        <4> DEFINE u == Unread(recvBuffer)
        <4>1. /\ Pending(p) = u \o (bytes \o rest)
              /\ Pending(p)' = Unread(r.pb) \o rest
          BY <1>2, <1>4, <1>6, <2>5, Zenon DEF Pending, up
        <4>2. Unread(r.pb) = u \o bytes /\ u \in Seq(Byte)
          BY <1>5, <3>2, SysTypes, UnreadFacts
        <4> HIDE DEF u
        <4>3. (u \o bytes) \o rest = u \o (bytes \o rest)
          BY <1>4, <4>2, ConcatBytesAssoc
        <4> QED
          BY <4>1, <4>2, <4>3, Zenon
      <3> QED
        BY <1>2, <1>8, <2>1, <2>2, <2>3, <2>4, <3>1, <3>2, Zenon DEF Calm
    <2>6. CASE p # client
      <3>1. Pending(p)' = Pending(p)
        BY <1>2, <1>6, <2>6 DEF Pending
      <3> QED
        BY <1>2, <2>1, <2>2, <2>3, <2>4, <3>1, Zenon DEF Calm
    <2> QED
      BY <2>5, <2>6
  <1> QED
    BY <1>9, <1>10, <1>11, AllCalm

-----------------------------------------------------------------------------
(* A chat message handled. *)

(* What comes behind a sequence is what was appended to it. *)
LEMMA ConcatRest ==
    ASSUME NEW s \in Seq(Byte), NEW x \in Seq(Byte)
    PROVE  SubSeq(s \o x, Len(s) + 1, Len(s \o x)) = x
  <1> DEFINE u == s \o x
             n == Len(s)
             p == SubSeq(u, 1, n)
             r == SubSeq(u, n + 1, Len(u))
  <1>1. u \in Seq(Byte) /\ Len(u) = n + Len(x)
    BY ConcatBytes, Zenon
  <1>2. n \in 0 .. Len(u)
    <2>1. n \in Nat /\ Len(x) \in Nat
      OBVIOUS
    <2> HIDE DEF n, u
    <2> QED
      BY <1>1, <2>1
  <1> HIDE DEF u
  <1>3. /\ p \in Seq(Byte) /\ Len(p) = n
        /\ r \in Seq(Byte) /\ u = p \o r
    BY <1>1, <1>2, SplitFacts, Zenon
  <1> HIDE DEF p, r
  <1>4. Len(p) = Len(s) /\ p \o r = s \o x
    BY <1>3, Zenon DEF u, n
  <1>5. r = x
    BY <1>3, <1>4, ConcatCancel, Zenon
  <1> QED
    BY <1>5, Zenon DEF r, u, n

(* What a packet carries is the payload it was made of. *)
LEMMA PacketCarries ==
    ASSUME NEW packetNo \in Uint16, NEW payload \in Seq(Byte), Fits(payload)
    PROVE  LET whole == PacketOf(packetNo, payload)
           IN  SubSeq(whole, GetHeaderSize + 1, Len(whole)) = payload
  <1> DEFINE n == GetHeaderSize + Len(payload)
             A == BytesOf(n)
             B == BytesOf(packetNo)
             s == A \o B
  <1>1. n \in Uint16 /\ GetHeaderSize = 4
    BY WidthFacts DEF Fits, GetHeaderSize, SizeofUint16, Uint16, MAX_BUF_SIZE
  <1>2. A \in Seq(Byte) /\ Len(A) = 2 /\ B \in Seq(Byte) /\ Len(B) = 2
    BY <1>1, BytesOfFacts
  <1> HIDE DEF A, B
  <1>3. s \in Seq(Byte) /\ Len(s) = GetHeaderSize
    <2>1. s \in Seq(Byte) /\ Len(s) = Len(A) + Len(B)
      BY <1>2, ConcatBytes, Zenon
    <2> QED
      BY <1>1, <1>2, <2>1
  <1> HIDE DEF s
  <1>4. PacketOf(packetNo, payload) = s \o payload
    BY Zenon DEF PacketOf, s, A, B, n
  <1> QED
    BY <1>3, <1>4, ConcatRest, Zenon

(* A reply is a packet its client can take. *)
LEMMA ReplyIsChat ==
    ASSUME NEW msg \in Seq(Byte), NEW n \in Nat, Fits(ReplyPayload(msg, n))
    PROVE  /\ PacketOf(PS2C_Chat, ReplyPayload(msg, n)) \in Packets
           /\ ChatReply(PacketOf(PS2C_Chat, ReplyPayload(msg, n)))
  <1> DEFINE text    == Format(msg, n)
             payload == ReplyPayload(msg, n)
             x       == PacketOf(PS2C_Chat, payload)
  <1>1. text \in Seq(Byte)
    <2> DEFINE num == Numeral[n]
               s   == <<Comma>>
    <2>1. num \in Seq(Byte)
      BY NumeralFacts
    <2>2. s \in Seq(Byte)
      BY WidthAssumption DEF Byte, Comma
    <2>3. text = (msg \o s) \o num
      BY Zenon DEF Format
    <2> HIDE DEF num, s, text
    <2>4. msg \o s \in Seq(Byte)
      BY <2>2, ConcatBytes
    <2> QED
      BY <2>1, <2>3, <2>4, ConcatBytes
  <1>2. payload \in Seq(Byte) /\ ParsesAsChat(payload)
    <2>1. payload = SerializeChat(text)
      BY Zenon DEF ReplyPayload
    <2> HIDE DEF text, payload
    <2> QED
      BY <1>1, <2>1, SerializeFacts, Zenon
  <1>3. PS2C_Chat \in Uint16 /\ Fits(payload)
    BY WidthFacts DEF PS2C_Chat, Uint16
  <1> HIDE DEF payload
  <1>4. x \in Packets /\ Len(x) = 4 + Len(payload)
    BY <1>2, <1>3, PacketOfFacts, Zenon
  <1>5. SubSeq(x, GetHeaderSize + 1, Len(x)) = payload
    BY <1>2, <1>3, PacketCarries, Zenon
  <1> HIDE DEF x
  <1>6. x \in Seq(Byte) /\ Framed(x) /\ Len(x) >= GetHeaderSize
    BY <1>2, <1>4 DEF Packets, GetHeaderSize, SizeofUint16
  <1>7. ChatReply(x)
    BY <1>2, <1>5, <1>6, Zenon DEF ChatReply
  <1> QED
    BY <1>4, <1>7 DEF x, payload

(* Until a send() fails or a reply does not fit, each is sent at once. *)
LEMMA ReplySentAtOnce ==
    ASSUME Answering, client \in Peers, NEW msg \in Seq(Byte), NEW junk,
           ~replies.misfit, ~replies.failed,
           ChatHandler(msg, junk), ~replies'.misfit, ~replies'.failed
    PROVE  \E x : /\ ChatReply(x)
                  /\ link[client].state # "reset"
                  /\ replies'.sent = Append(replies.sent, <<client, x>>)
  <1> DEFINE payload == ReplyPayload(msg, count + 1)
             up      == link[client].state # "reset"
             r       == SendPacket(sendBuffer, PS2C_Chat, payload, up, junk)
             queued  == SetPacket(sendBuffer, PS2C_Chat, payload).ok
             x       == PacketOf(PS2C_Chat, payload)
             q       == Packaged(replies.made)
             n       == Len(replies.sent)
  <1>1. /\ replies'.sent = IF r.ok THEN Append(replies.sent, <<client, r.sent>>) ELSE replies.sent
        /\ queued => r.ok
        /\ Fits(payload)
    <2>1. /\ replies'.sent = IF r.ok THEN Append(replies.sent, <<client, r.sent>>)
                                     ELSE replies.sent
          /\ replies'.failed = (replies.failed \/ (queued /\ ~r.ok))
          /\ replies'.misfit = (replies.misfit \/ ~Fits(payload))
      BY DEF ChatHandler
    <2> HIDE DEF payload, r, queued
    <2> QED
      BY <2>1, Zenon
  <1>2. count + 1 \in Nat
    BY DEF Answering
  <1>3. payload \in Seq(Byte) /\ PS2C_Chat \in Uint16 /\ up \in BOOLEAN
    <2>1. PS2C_Chat \in Uint16
      BY WidthFacts DEF PS2C_Chat, Uint16
    <2> QED
      BY <1>2, <2>1, ReplyFacts
  <1>4. x \in Packets /\ ChatReply(x)
    BY <1>1, <1>2, ReplyIsChat, Zenon
  <1>5. Len(x) <= MAX_BUF_SIZE
    BY <1>1, <1>3, PacketOfFacts, Zenon
  <1> HIDE DEF payload, up, r, queued, x
  <1>6. /\ Sound(sendBuffer)
        /\ replies.made \in Seq(Peers \X Packets)
        /\ RepliesInOrder
    BY DEF Answering, Queued
  <1>7. /\ replies.sent = replies.made
        /\ Unread(sendBuffer) = FlattenSeq(SubSeq(q, n + 1, Len(q)))
    BY <1>6, RepliesFacts, Zenon
  <1>8. q \in Seq(Packets) /\ Len(q) = n /\ n \in Nat
    BY <1>6, <1>7, PackagedFacts
  <1> HIDE DEF q, n
  <1>9. Unread(sendBuffer) = << >>
    <2>1. SubSeq(q, n + 1, Len(q)) = << >>
      BY <1>8
    <2> QED
      BY <1>7, <2>1, FlattenEmpty, Zenon
  <1>10. Waiting(sendBuffer, q, n)
    <2>1. n \in 0 .. Len(q)
      BY <1>8
    <2> QED
      BY <1>6, <1>7, <2>1, Zenon DEF Waiting
  <1>11. Sends(sendBuffer, q, n, PS2C_Chat, payload, up, junk)
    BY <1>1, <1>3, <1>8, <1>10, SendPacketSends, Zenon
  <1>12. /\ queued = (GetBufferSize(sendBuffer) + Len(x) <= MAX_BUF_SIZE)
         /\ r.ok = (queued /\ up)
         /\ r.ok => r.sent = x
    BY <1>9, <1>11, Zenon DEF Sends, queued, r, x
  <1>13. queued
    <2>1. GetBufferSize(sendBuffer) = 0
      BY <1>6, <1>9, UnreadFacts
    <2>2. Len(x) \in Nat /\ x \in Seq(Byte)
      BY <1>4 DEF Packets
    <2>3. GetBufferSize(sendBuffer) + Len(x) <= MAX_BUF_SIZE
      BY <1>5, <2>1, <2>2
    <2> QED
      BY <1>12, <2>3
  <1>14. r.ok /\ up
    BY <1>1, <1>12, <1>13
  <1>15. replies'.sent = Append(replies.sent, <<client, x>>)
    BY <1>1, <1>12, <1>14, Zenon
  <1> QED
    BY <1>4, <1>14, <1>15 DEF up

LEMMA EmptyConcat ==
    ASSUME NEW s \in Seq(Byte), NEW t \in Seq(Byte)
    PROVE  s \o t = << >> <=> s = << >> /\ t = << >>
  <1> DEFINE u == s \o t
  <1>1. u \in Seq(Byte) /\ Len(u) = Len(s) + Len(t)
    BY ConcatBytes, Zenon
  <1> HIDE DEF u
  <1>2. Len(s) \in Nat /\ Len(t) \in Nat
    OBVIOUS
  <1>3. /\ u = << >> <=> Len(u) = 0
        /\ s = << >> <=> Len(s) = 0
        /\ t = << >> <=> Len(t) = 0
    BY <1>1, EmptyFacts
  <1>4. Len(u) = 0 <=> Len(s) = 0 /\ Len(t) = 0
    BY <1>1, <1>2
  <1> QED
    BY <1>3, <1>4, Zenon DEF u

(* What is under way to a client is what it has not received. *)
LEMMA DownFacts ==
    ASSUME SysInv, NEW p \in Peers
    PROVE  /\ Down(p) \in Seq(Byte) /\ Len(Down(p)) = Len(SentTo(p)) - got[p]
           /\ Down(p) = << >> <=> got[p] = Len(SentTo(p))
           /\ Unread(clients[p].recvBuffer) \in Seq(Byte)
           /\ Returned(p) \in Seq(Byte)
           /\ Returned(p) = << >> <=> /\ Unread(clients[p].recvBuffer) = << >>
                                      /\ Down(p) = << >>
  <1> DEFINE s == SentTo(p)
             n == got[p]
             d == SubSeq(s, n + 1, Len(s))
             u == Unread(clients[p].recvBuffer)
  <1>1. s \in Seq(Byte) /\ n \in Nat /\ n <= Len(s) /\ u \in Seq(Byte)
    BY PeerFacts, UnreadFacts
  <1>2. d = Down(p)
    BY DEF Down
  <1> HIDE DEF s, n
  <1>3. n \in 0 .. Len(s) /\ Len(s) \in Nat
    BY <1>1
  <1>4. d \in Seq(Byte) /\ Len(d) = Len(s) - n
    BY <1>1, <1>3, SplitFacts, Zenon
  <1> HIDE DEF d, u
  <1>5. d = << >> <=> n = Len(s)
    <2>1. d = << >> <=> Len(d) = 0
      BY <1>4, EmptyFacts
    <2> QED
      BY <1>3, <1>4, <2>1
  <1>6. u \o d \in Seq(Byte) /\ (u \o d = << >> <=> u = << >> /\ d = << >>)
    BY <1>1, <1>4, ConcatBytes, EmptyConcat
  <1>7. Returned(p) = u \o d
    BY <1>2, Zenon DEF Returned, u
  <1> QED
    BY <1>1, <1>2, <1>4, <1>5, <1>6, <1>7, Zenon DEF s, n, u

(* A chunk that is one packet is taken whole. *)
LEMMA LoneTaken ==
    ASSUME NEW b, Sound(b), IsAbleToGetPacket(b), NEW w \in Seq(Byte), Lone(Unread(b) \o w)
    PROVE  w = << >> /\ Unread(ConsumePacket(b)) = << >>
  <1> DEFINE u == Unread(b)
             n == GetPacketSize(b)
             x == u \o w
             rest == SubSeq(u, n + 1, Len(u))
  <1>1. /\ n \in 1 .. Len(u) /\ Len(u) >= 2 /\ n = ValueOf(u[1], u[2])
        /\ Unread(ConsumePacket(b)) = rest
    BY PacketFacts
  <1>2. u \in Seq(Byte) /\ Len(u) \in Nat /\ Len(w) \in Nat
    BY UnreadFacts
  <1>3. Lone(x)
    OBVIOUS
  <1> HIDE DEF u, n, rest
  <1>4. /\ x \in Seq(Byte) /\ Len(x) = Len(u) + Len(w)
        /\ x[1] = u[1] /\ x[2] = u[2]
    <2>1. Len(u) + Len(w) = Len(x) /\ x \in Seq(Byte)
      BY <1>2, ConcatBytes, Zenon
    <2> QED
      BY <1>1, <1>2, <2>1, ConcatFront, Zenon
  <1> HIDE DEF x
  <1>5. Len(x) = n
    <2>1. Framed(x)
      BY <1>1, <1>2, <1>3, <1>4 DEF Lone, SizeofUint16
    <2> QED
      BY <1>1, <1>4, <2>1, Zenon DEF Framed
  <1>6. Len(w) = 0 /\ n = Len(u)
    BY <1>1, <1>2, <1>4, <1>5
  <1>7. rest = << >>
    BY <1>2, <1>6 DEF rest
  <1> QED
    BY <1>1, <1>6, <1>7, EmptyFacts

(* The handler answers the one who asked. *)
LEMMA SysHandleChat ==
    ASSUME SysInv, NEW junk \in Junk, HandleChat(junk), UNCHANGED <<clients, got>>
    PROVE  SysInv'
  <1> DEFINE msg     == ParseChat(Payload(recvBuffer, junk))
             payload == ReplyPayload(msg, count + 1)
             r       == SendPacket(sendBuffer, PS2C_Chat, payload,
                                   link[client].state # "reset", junk)
             queued  == SetPacket(sendBuffer, PS2C_Chat, payload).ok
  <1>1. /\ pc = "dispatch" /\ pc' = pc /\ IsAbleToGetPacket(recvBuffer) /\ ~Unhandled(junk)
        /\ session' = [session EXCEPT !.taken = Append(@, PacketBytes(recvBuffer, junk))]
        /\ ChatHandler(msg, junk)
        /\ recvBuffer' = ConsumePacket(recvBuffer)
        /\ retval' = retval /\ client' = client /\ backlog' = backlog /\ link' = link
        /\ asked' = asked /\ refused' = refused /\ clients' = clients /\ got' = got
    BY DEF HandleChat, Handles, net
  <1>2. client \in Peers /\ junk \in Byte
    BY <1>1, ServerAssumption DEF SysInv, ServerSide, Connected
  <1>3. msg \in Seq(Byte)
    <2>1. ParsesAsChat(Payload(recvBuffer, junk))
      BY <1>1 DEF Unhandled
    <2> QED
      BY <1>2, <2>1, SysTypes, ParseType
  <1>4. /\ count' = count + 1 /\ count \in Nat /\ sendBuffer' = r.pb
        /\ replies'.sent = IF r.ok THEN Append(replies.sent, <<client, r.sent>>) ELSE replies.sent
        /\ replies'.failed = (replies.failed \/ (queued /\ ~r.ok))
        /\ replies'.misfit = (replies.misfit \/ ~Fits(payload))
    BY <1>1, SysTypes DEF ChatHandler
  <1>5. SendsLone(r, link[client].state # "reset")
    <2>1. payload \in Seq(Byte) /\ PS2C_Chat \in Uint16
      <3>1. count + 1 \in Nat
        BY <1>4
      <3>2. PS2C_Chat \in Uint16
        BY WidthFacts DEF PS2C_Chat, Uint16
      <3> HIDE DEF msg
      <3> QED
        BY <1>3, <3>1, <3>2, ReplyFacts, Zenon
    <2> HIDE DEF payload
    <2> QED
      BY <1>2, <2>1, SysTypes, SendPacketLone, Zenon
  <1> HIDE DEF msg, payload, r, queued
  <1>6. Answering'
    BY <1>1, <1>2, <1>3, ChatHandlerKeeps DEF SysInv, ServerSide
  <1>7. Sound(recvBuffer') /\ PacketBytes(recvBuffer, junk) \in Seq(Byte)
    BY <1>1, SysTypes, FrontPacketFacts, Zenon
  <1>8. /\ replies'.sent \in Seq(Peers \X Seq(Byte))
        /\ \A p \in Peers :
              /\ p # client => SentTo(p)' = SentTo(p)
              /\ p = client => \E y \in Seq(Byte) : SentTo(p)' = SentTo(p) \o y
    <2>1. replies.sent \in Seq(Peers \X Seq(Byte))
      BY SysTypes
    <2>2. CASE r.ok
      <3> DEFINE y == r.sent
      <3>1. y \in Seq(Byte)
        BY <1>5 DEF SendsLone
      <3>2. replies'.sent = Append(replies.sent, <<client, y>>)
        BY <1>4, <2>2
      <3> HIDE DEF y
      <3>3. ASSUME NEW p \in Peers
            PROVE  /\ replies'.sent \in Seq(Peers \X Seq(Byte))
                   /\ p = client => SentTo(p)' = SentTo(p) \o y
                   /\ p # client => SentTo(p)' = SentTo(p)
        BY <1>2, <2>1, <3>1, <3>2, SentToAppend
      <3> QED
        BY <1>2, <3>1, <3>3, Zenon
    <2>3. CASE ~r.ok
      <3>1. replies'.sent = replies.sent
        BY <1>4, <2>3
      <3>2. ASSUME NEW p \in Peers
            PROVE  /\ SentTo(p)' = SentTo(p)
                   /\ << >> \in Seq(Byte) /\ SentTo(p) \o << >> = SentTo(p)
        <4> DEFINE s == SentTo(p)
        <4>1. s \in Seq(Byte) /\ SentTo(p)' = SentTo(p)
          BY <3>1, PeerFacts, SentToSame
        <4> HIDE DEF s
        <4>2. << >> \in Seq(Byte) /\ s \o << >> = s
          BY <4>1
        <4> QED
          BY <4>1, <4>2 DEF s
      <3>3. ASSUME NEW p \in Peers
            PROVE  \E y \in Seq(Byte) : SentTo(p)' = SentTo(p) \o y
        BY <3>2, Zenon
      <3> QED
        BY <2>1, <3>1, <3>2, <3>3, Zenon
    <2> QED
      BY <2>2, <2>3
  <1>9. Undisturbed' => /\ Undisturbed
                        /\ ~replies.misfit /\ ~replies.failed
                        /\ ~replies'.misfit /\ ~replies'.failed
    <2>1. replies.failed => replies'.failed
      BY <1>4, Zenon
    <2>2. replies.misfit => replies'.misfit
      BY <1>4, Zenon
    <2>3. session'.clean = session.clean
      BY <1>1, SysTypes
    <2> QED
      BY <1>1, <2>1, <2>2, <2>3, Zenon DEF Undisturbed
  <1>10. ServerSide'
    <2>1. TypeOK'
      BY <1>1, <1>4, <1>6, <1>7 DEF SysInv, ServerSide, TypeOK, Sound, Answering
    <2>2. Connected'
      BY <1>1 DEF SysInv, ServerSide, Connected
    <2>3. Idle'
      BY <1>1 DEF Idle
    <2>4. session' \in [arrived : Seq(Byte), taken : Seq(Seq(Byte)), clean : BOOLEAN]
      <3> DEFINE x == PacketBytes(recvBuffer, junk)
      <3>1. x \in Seq(Byte)
        BY <1>7
      <3>2. session' = [session EXCEPT !.taken = Append(@, x)]
        BY <1>1
      <3> HIDE DEF x
      <3>3. session.taken \in Seq(Seq(Byte))
        BY SysTypes
      <3>4. Append(session.taken, x) \in Seq(Seq(Byte))
        BY <3>1, <3>3, AppendProperties
      <3> QED
        BY <3>2, <3>4, SysTypes
    <2> QED
      BY <1>6, <1>7, <1>8, <2>1, <2>2, <2>3, <2>4 DEF ServerSide
  <1>11. ClientSide'
    <2>1. ASSUME NEW p \in Peers PROVE got[p] <= Len(SentTo(p)')
      <3>1. CASE p = client
        <4>1. PICK y \in Seq(Byte) : SentTo(p)' = SentTo(p) \o y
          BY <1>8, <3>1
        <4> DEFINE s == SentTo(p)
                   t == s \o y
        <4>2. s \in Seq(Byte) /\ got[p] \in Nat /\ got[p] <= Len(s)
          BY PeerFacts
        <4> HIDE DEF s
        <4>3. Len(t) = Len(s) + Len(y) /\ Len(s) \in Nat /\ Len(y) \in Nat
          BY <4>2, ConcatBytes
        <4>4. SentTo(p)' = t
          BY <4>1 DEF s
        <4> HIDE DEF t
        <4>5. got[p] <= Len(t)
          BY <4>2, <4>3
        <4> QED
          BY <4>4, <4>5, Zenon
      <3>2. CASE p # client
        <4>1. SentTo(p)' = SentTo(p)
          BY <1>8, <3>2, Zenon
        <4>2. got[p] <= Len(SentTo(p))
          BY PeerFacts
        <4> QED
          BY <4>1, <4>2, Zenon
      <3> QED
        BY <3>1, <3>2
    <2> QED
      BY <1>1, <2>1 DEF SysInv, ClientSide
  <1>12. ASSUME NEW p \in Peers, p # client PROVE Calm(p)
    <2>1. SentTo(p)' = SentTo(p)
      BY <1>8, <1>12, Zenon
    <2>2. Pending(p)' = Pending(p) /\ Unserved(p)' = Unserved(p)
      BY <1>1, <1>12 DEF Pending, Unserved
    <2>3. Watched(p)' => Watched(p)
      BY <1>1, <1>12, <2>2 DEF Watched
    <2> QED
      BY <1>1, <2>1, <2>2, <2>3, Zenon DEF Calm
  <1>13. ASSUME NEW p \in Peers, p = client PROVE PeerInv(p)'
    <2>1. PeerInv(p) /\ link[p].state \in Live
      BY <1>13, PeerFacts DEF SysInv, ServerSide, Connected
    <2>2. /\ ~Unserved(p)'
          /\ Watched(p)' => Undisturbed'
          /\ link'[p] = link[p] /\ clients'[p] = clients[p] /\ asked'[p] = asked[p]
      BY <1>1, <1>13 DEF Unserved, Watched
    <2>3. ASSUME Undisturbed' PROVE Dialogue(p)'
      <3> DEFINE c    == clients[p]
                 w    == link[p].up
                 u    == Unread(recvBuffer)
                 able == IsAbleToGetPacket(c.recvBuffer)
      <3>1. PICK x : /\ ChatReply(x)
                     /\ link[p].state # "reset"
                     /\ replies'.sent = Append(replies.sent, <<p, x>>)
        BY <1>1, <1>2, <1>3, <1>9, <1>13, <2>3, ReplySentAtOnce, Zenon DEF SysInv, ServerSide
      <3>2. Exchange(u \o w, Returned(p), link[p].state, c.pc, able, AllFramed(p))
        <4>1. Watched(p)
          BY <1>9, <1>13, <2>3 DEF Watched
        <4> QED
          BY <1>13, <2>1, <4>1, Zenon DEF PeerInv, Dialogue, Pending
      <3>3. u \in Seq(Byte) /\ w \in Seq(Byte)
        BY <1>2, SysTypes, PeerFacts, UnreadFacts
      <3>4. u # << >>
        BY <1>1, SysTypes, EmptyUnable
      <3>5. u \o w # << >>
        BY <3>3, <3>4, EmptyConcat, Zenon
      <3>6. Returned(p) = << >> /\ ~(link[p].state = "open" /\ c.pc = "input")
        BY <3>2, <3>5, Zenon DEF Exchange
      <3>7. Lone(u \o w)
        BY <3>1, <3>2, Zenon DEF Exchange
      <3>8. w = << >> /\ Unread(recvBuffer') = << >>
        BY <1>1, <3>3, <3>7, SysTypes, LoneTaken, Zenon
      <3>9. Pending(p)' = << >>
        <4>1. << >> \o << >> = << >>
          OBVIOUS
        <4>2. Pending(p)' = Unread(recvBuffer') \o link'[p].up
          BY <1>1, <1>13, Zenon DEF Pending
        <4> QED
          BY <2>2, <3>8, <4>1, <4>2, Zenon
      <3>10. Unread(c.recvBuffer) = << >> /\ got[p] = Len(SentTo(p))
        BY <1>2, <3>6, DownFacts
      <3>11. Returned(p)' = x
        <4>1. x \in Seq(Byte)
          BY <3>1 DEF ChatReply
        <4> DEFINE s == SentTo(p)
        <4>2. s \in Seq(Byte) /\ SentTo(p)' = s \o x
          BY <1>2, <3>1, <4>1, SysTypes, PeerFacts, SentToAppend
        <4>3. Down(p)' = SubSeq(SentTo(p)', got'[p] + 1, Len(SentTo(p)'))
          BY <1>1, Zenon DEF Down
        <4>4. got'[p] = Len(s)
          BY <1>1, <3>10
        <4> HIDE DEF s
        <4>5. Down(p)' = x
          BY <4>1, <4>2, <4>3, <4>4, ConcatRest, Zenon
        <4>6. << >> \o x = x
          BY <4>1
        <4>7. Returned(p)' = Unread(clients'[p].recvBuffer) \o Down(p)'
          BY <1>1, Zenon DEF Returned
        <4> QED
          BY <2>2, <3>10, <4>5, <4>6, <4>7, Zenon
      <3>12. x # << >>
        BY <3>1 DEF ChatReply, Framed, SizeofUint16
      <3>13. Exchange(<< >>, x, link[p].state, c.pc, able, AllFramed(p))
        <4>1. Lone(<< >>)
          BY DEF Lone, SizeofUint16
        <4>2. link[p].state # "idle"
          BY <2>1 DEF Live
        <4>3. c.pc = "recv" => ~able
          BY <3>2, Zenon DEF Exchange
        <4> QED
          BY <3>1, <3>6, <3>12, <4>1, <4>2, <4>3, Zenon DEF Exchange
      <3>14. AllFramed(p)' = AllFramed(p)
        BY <1>1, Zenon DEF AllFramed
      <3>15. Dialogue(p)' = Exchange(Pending(p)', Returned(p)', link'[p].state, clients'[p].pc,
                                     IsAbleToGetPacket(clients'[p].recvBuffer), AllFramed(p)')
        BY <1>1, Zenon DEF Dialogue
      <3> QED
        BY <2>2, <3>9, <3>11, <3>13, <3>14, <3>15, Zenon
    <2> QED
      BY <1>1, <2>1, <2>2, <2>3, Zenon DEF PeerInv
  <1>14. ASSUME NEW p \in Peers PROVE PeerInv(p)'
    <2>1. CASE p = client
      BY <1>13, <2>1, Zenon
    <2>2. CASE p # client
      BY <1>12, <2>2, PeerFacts, CalmKeeps
    <2> QED
      BY <2>1, <2>2
  <1> QED
    BY <1>10, <1>11, <1>14 DEF SysInv

-----------------------------------------------------------------------------
(* The clients' steps. *)

(* A step of one client and its connection. *)
Only(p) ==
    /\ UNCHANGED <<serverVars, session, replies, refused>>
    /\ \A q \in Peers : q # p => /\ link'[q] = link[q] /\ clients'[q] = clients[q]
                                 /\ got'[q] = got[q] /\ asked'[q] = asked[q]

LEMMA OnlyFacts ==
    ASSUME NEW p, Only(p)
    PROVE  /\ pc' = pc /\ retval' = retval /\ recvBuffer' = recvBuffer
           /\ sendBuffer' = sendBuffer /\ count' = count /\ client' = client
           /\ session' = session /\ replies' = replies /\ refused' = refused
           /\ Undisturbed' = Undisturbed
           /\ \A q : SentTo(q)' = SentTo(q)
  <1>1. /\ pc' = pc /\ retval' = retval /\ recvBuffer' = recvBuffer
        /\ sendBuffer' = sendBuffer /\ count' = count /\ client' = client
        /\ session' = session /\ replies' = replies /\ refused' = refused
    BY DEF Only, serverVars, buffers
  <1>2. Undisturbed' = Undisturbed
    BY <1>1 DEF Undisturbed
  <1>3. ASSUME NEW q PROVE SentTo(q)' = SentTo(q)
    BY <1>1, SentToSame
  <1> QED
    BY <1>1, <1>2, <1>3

LEMMA OnlyKeeps ==
    ASSUME SysInv, NEW p \in Peers, Only(p),
           link' \in Links, asked' \in [Peers -> Seq(Seq(Byte))],
           clients' \in [Peers -> Clients], got' \in [Peers -> Nat],
           backlog' \in Seq(Peers), Connected',
           Sound(clients'[p].recvBuffer), got'[p] <= Len(SentTo(p)), PeerInv(p)'
    PROVE  SysInv'
  <1>1. /\ pc' = pc /\ retval' = retval /\ recvBuffer' = recvBuffer
        /\ sendBuffer' = sendBuffer /\ count' = count /\ client' = client
        /\ session' = session /\ replies' = replies /\ refused' = refused
        /\ Undisturbed' = Undisturbed
        /\ \A q : SentTo(q)' = SentTo(q)
    BY OnlyFacts
  <1>2. ServerSide'
    <2>1. TypeOK'
      BY <1>1 DEF SysInv, ServerSide, TypeOK, Links
    <2>2. Answering'
      BY <1>1, AnsweringAlone DEF SysInv, ServerSide
    <2>3. Idle'
      BY <1>1 DEF SysInv, ServerSide, Idle
    <2> QED
      BY <1>1, <2>1, <2>2, <2>3 DEF SysInv, ServerSide
  <1>3. ClientSide'
    <2>1. ASSUME NEW q \in Peers
          PROVE  Sound(clients'[q].recvBuffer) /\ got'[q] <= Len(SentTo(q)')
      <3>1. SentTo(q)' = SentTo(q)
        BY <1>1
      <3>2. CASE q = p
        BY <3>1, <3>2
      <3>3. CASE q # p
        <4>1. clients'[q] = clients[q] /\ got'[q] = got[q]
          BY <3>3 DEF Only
        <4> QED
          BY <3>1, <4>1, PeerFacts, Zenon
      <3> QED
        BY <3>2, <3>3
    <2> QED
      BY <2>1 DEF ClientSide
  <1>4. ASSUME NEW q \in Peers, q # p PROVE PeerInv(q)'
    <2>1. /\ link'[q] = link[q] /\ clients'[q] = clients[q]
          /\ got'[q] = got[q] /\ asked'[q] = asked[q]
      BY <1>4 DEF Only
    <2>2. Pending(q)' = Pending(q) /\ Unserved(q)' = Unserved(q)
      BY <1>1, <2>1 DEF Pending, Unserved
    <2>3. Calm(q)
      BY <1>1, <2>1, <2>2 DEF Calm, Watched
    <2> QED
      BY <2>3, PeerFacts, CalmKeeps
  <1>5. \A q \in Peers : PeerInv(q)'
    BY <1>4
  <1> QED
    BY <1>2, <1>3, <1>5 DEF SysInv

(* No connection is made or closed by the server. *)
LEMMA LiveKept ==
    ASSUME SysInv, pc' = pc, client' = client, backlog' = backlog,
           \A q \in Peers : link[q].state \in Live => link'[q].state \in Live
    PROVE  Connected'
  <1>1. \A i \in 1 .. Len(backlog) : backlog[i] \in Peers
    BY SysTypes
  <1>2. ASSUME NEW i \in 1 .. Len(backlog')
        PROVE  backlog'[i] # client' /\ link'[backlog'[i]].state \in Live
    BY <1>1 DEF SysInv, ServerSide, Connected
  <1> QED
    BY <1>2 DEF SysInv, ServerSide, Connected

LEMMA PcSet ==
    ASSUME SysInv, NEW p \in Peers, NEW at \in ClientPCs,
           clients' = [clients EXCEPT ![p].pc = at]
    PROVE  /\ clients' \in [Peers -> Clients]
           /\ clients'[p].pc = at /\ clients'[p].recvBuffer = clients[p].recvBuffer
           /\ \A q \in Peers : q # p => clients'[q] = clients[q]
  <1> DEFINE c == [clients[p] EXCEPT !.pc = at]
  <1>1. clients[p] \in Clients /\ clients \in [Peers -> Clients]
    BY SysTypes, PeerFacts
  <1>2. c \in Clients /\ c.pc = at /\ c.recvBuffer = clients[p].recvBuffer
    BY <1>1 DEF Clients
  <1>3. clients' = [clients EXCEPT ![p] = c]
    OBVIOUS
  <1> HIDE DEF c
  <1>4. clients' \in [Peers -> Clients] /\ clients'[p] = c
    BY <1>1, <1>2, <1>3
  <1>5. \A q \in Peers : q # p => clients'[q] = clients[q]
    BY <1>1, <1>3
  <1> QED
    BY <1>2, <1>4, <1>5

(* A client without a connection moves on. *)
LEMMA SysPcMoves ==
    ASSUME SysInv, NEW p \in Peers, NEW at \in {"input", "exit"},
           link[p].state # "open",
           clients' = [clients EXCEPT ![p].pc = at], UNCHANGED <<vars, got>>
    PROVE  SysInv'
  <1>1. /\ pc' = pc /\ client' = client /\ backlog' = backlog /\ link' = link
        /\ asked' = asked /\ got' = got /\ recvBuffer' = recvBuffer
        /\ UNCHANGED <<serverVars, session, replies, refused>>
    BY DEF vars, net, history, serverVars, buffers
  <1>2. /\ clients' \in [Peers -> Clients]
        /\ clients'[p].pc = at /\ clients'[p].recvBuffer = clients[p].recvBuffer
        /\ \A q \in Peers : q # p => clients'[q] = clients[q]
    <2>1. at \in ClientPCs
      BY DEF ClientPCs
    <2> QED
      BY <2>1, PcSet
  <1>3. Only(p)
    BY <1>1, <1>2, Zenon DEF Only
  <1>4. Connected'
    BY <1>1, LiveKept
  <1>5. PeerInv(p)'
    <2>1. SentTo(p)' = SentTo(p) /\ Undisturbed' = Undisturbed
      BY <1>3, OnlyFacts
    <2>2. Unserved(p)' = Unserved(p) /\ Watched(p)' = Watched(p) /\ PeerInv(p)
      BY <1>1, <2>1, PeerFacts DEF Unserved, Watched
    <2>3. ASSUME Dialogue(p) PROVE Dialogue(p)'
      <3>1. Pending(p)' = Pending(p) /\ Returned(p)' = Returned(p) /\ AllFramed(p)' = AllFramed(p)
        BY <1>1, <1>2, <2>1, Zenon DEF Pending, Returned, Down, AllFramed
      <3>2. Exchange(Pending(p), Returned(p), link[p].state, at,
                     IsAbleToGetPacket(clients[p].recvBuffer), AllFramed(p))
        <4>1. at # "recv"
          OBVIOUS
        <4> QED
          BY <2>3, <4>1, Zenon DEF Dialogue, Exchange
      <3> QED
        BY <1>1, <1>2, <3>1, <3>2, Zenon DEF Dialogue
    <2>4. clients'[p].pc # "start"
      BY <1>2
    <2> QED
      BY <1>1, <1>2, <2>1, <2>2, <2>3, <2>4, Zenon DEF PeerInv
  <1>6. /\ Sound(clients'[p].recvBuffer) /\ got'[p] <= Len(SentTo(p))
    BY <1>1, <1>2, PeerFacts
  <1> QED
    BY <1>1, <1>2, <1>3, <1>4, <1>5, <1>6, SysTypes, OnlyKeeps

(* Breaking off: the process ends, or the connection does. *)
LEMMA SysCloses ==
    ASSUME SysInv, NEW p \in Peers, PeerCloses(p),
           clients' = [clients EXCEPT ![p].pc = "exit"], got' = got
    PROVE  SysInv'
  <1>1. /\ pc' = pc /\ client' = client /\ backlog' = backlog
        /\ link[p].state = "open" /\ link' = [link EXCEPT ![p].state = "fin"]
        /\ asked' = asked /\ got' = got /\ recvBuffer' = recvBuffer
        /\ UNCHANGED <<serverVars, session, replies, refused>>
    BY DEF PeerCloses, history, serverVars, buffers
  <1>2. /\ clients' \in [Peers -> Clients]
        /\ clients'[p].pc = "exit" /\ clients'[p].recvBuffer = clients[p].recvBuffer
        /\ \A q \in Peers : q # p => clients'[q] = clients[q]
    <2>1. "exit" \in ClientPCs
      BY DEF ClientPCs
    <2> QED
      BY <2>1, PcSet
  <1>3. /\ link' \in Links /\ link'[p].state = "fin" /\ link'[p].up = link[p].up
        /\ \A q \in Peers : q # p => link'[q] = link[q]
    BY <1>1, SysTypes DEF Links
  <1>4. Only(p)
    BY <1>1, <1>2, <1>3, Zenon DEF Only
  <1>5. Connected'
    BY <1>1, <1>3, LiveKept DEF Live
  <1>6. PeerInv(p)'
    <2>1. SentTo(p)' = SentTo(p) /\ Undisturbed' = Undisturbed
      BY <1>4, OnlyFacts
    <2>2. Unserved(p)' = Unserved(p) /\ Watched(p)' = Watched(p) /\ PeerInv(p)
      BY <1>1, <1>3, <2>1, PeerFacts DEF Unserved, Watched
    <2>3. ASSUME Dialogue(p) PROVE Dialogue(p)'
      <3>1. Pending(p)' = Pending(p) /\ Returned(p)' = Returned(p) /\ AllFramed(p)' = AllFramed(p)
        <4>1. Unread(recvBuffer)' = Unread(recvBuffer)
          BY <1>1
        <4>2. Pending(p)' = Pending(p)
          BY <1>1, <1>3, <4>1 DEF Pending
        <4>3. Returned(p)' = Returned(p) /\ AllFramed(p)' = AllFramed(p)
          BY <1>1, <1>2, <2>1, Zenon DEF Returned, Down, AllFramed
        <4> QED
          BY <4>2, <4>3
      <3>2. Exchange(Pending(p), Returned(p), "fin", "exit",
                     IsAbleToGetPacket(clients[p].recvBuffer), AllFramed(p))
        BY <1>1, <2>3 DEF Dialogue, Exchange
      <3> QED
        BY <1>2, <1>3, <3>1, <3>2, Zenon DEF Dialogue
    <2>4. clients'[p].pc # "start" /\ link'[p].state # "reset"
      BY <1>2, <1>3
    <2> QED
      BY <1>1, <1>2, <2>1, <2>2, <2>3, <2>4, Zenon DEF PeerInv
  <1>7. /\ Sound(clients'[p].recvBuffer) /\ got'[p] <= Len(SentTo(p))
    BY <1>1, <1>2, PeerFacts
  <1> QED
    BY <1>1, <1>2, <1>3, <1>4, <1>5, <1>6, <1>7, SysTypes, OnlyKeeps

LEMMA SysResets ==
    ASSUME SysInv, NEW p \in Peers, PeerResets(p),
           clients' = clients \/ clients' = [clients EXCEPT ![p].pc = "exit"], got' = got
    PROVE  SysInv'
  <1>1. /\ pc' = pc /\ client' = client /\ backlog' = backlog
        /\ link[p].state \in {"open", "fin"}
        /\ link' = [link EXCEPT ![p] = [state |-> "reset", up |-> << >>]]
        /\ asked' = asked /\ got' = got /\ recvBuffer' = recvBuffer
        /\ UNCHANGED <<serverVars, session, replies, refused>>
    BY DEF PeerResets, history, serverVars, buffers
  <1>2. /\ clients' \in [Peers -> Clients]
        /\ clients'[p].pc \in {"exit", clients[p].pc}
        /\ clients'[p].recvBuffer = clients[p].recvBuffer
        /\ \A q \in Peers : q # p => clients'[q] = clients[q]
    <2>1. "exit" \in ClientPCs
      BY DEF ClientPCs
    <2>2. CASE clients' = clients
      BY <2>2, SysTypes
    <2>3. CASE clients' = [clients EXCEPT ![p].pc = "exit"]
      BY <2>1, <2>3, PcSet
    <2> QED
      BY <2>2, <2>3
  <1>3. /\ link' \in Links /\ link'[p].state = "reset" /\ link'[p].up = << >>
        /\ \A q \in Peers : q # p => link'[q] = link[q]
    <2>1. << >> \in Seq(Byte)
      OBVIOUS
    <2> QED
      BY <1>1, <2>1, SysTypes DEF Links
  <1>4. Only(p)
    BY <1>1, <1>2, <1>3, Zenon DEF Only
  <1>5. Connected'
    BY <1>1, <1>3, LiveKept DEF Live
  <1>6. PeerInv(p)'
    <2>1. SentTo(p)' = SentTo(p) /\ Undisturbed' = Undisturbed
      BY <1>4, OnlyFacts
    <2>2. /\ PeerInv(p) /\ ~Unserved(p)'
          /\ Watched(p)' => client = p /\ Watched(p)
      BY <1>1, <1>3, <2>1, PeerFacts DEF Unserved, Watched
    <2>3. ASSUME client = p, Dialogue(p) PROVE Dialogue(p)'
      <3> DEFINE u == Unread(recvBuffer)
                 w == link[p].up
      <3>1. u \in Seq(Byte) /\ w \in Seq(Byte)
        BY SysTypes, PeerFacts, UnreadFacts
      <3>2. Pending(p) = u \o w /\ Pending(p)' = u \o << >>
        BY <1>1, <1>3, <2>3, Zenon DEF Pending
      <3> HIDE DEF u, w
      <3>3. u \o << >> = u
        BY <3>1
      <3>4. u \o w = << >> => u = << >>
        BY <3>1, EmptyConcat
      <3>5. Returned(p)' = Returned(p) /\ AllFramed(p)' = AllFramed(p)
        BY <1>1, <1>2, <2>1, Zenon DEF Returned, Down, AllFramed
      <3>6. ASSUME NEW at, at = "recv" => clients[p].pc = "recv"
            PROVE  Exchange(u, Returned(p), "reset", at,
                            IsAbleToGetPacket(clients[p].recvBuffer), AllFramed(p))
        BY <2>3, <3>2, <3>4, <3>6 DEF Dialogue, Exchange
      <3>7. clients'[p].pc = "recv" => clients[p].pc = "recv"
        BY <1>2
      <3> QED
        BY <1>2, <1>3, <3>2, <3>3, <3>5, <3>6, <3>7, Zenon DEF Dialogue
    <2>4. clients'[p].pc # "start"
      BY <1>1, <1>2, <2>2 DEF PeerInv
    <2> QED
      BY <1>3, <2>2, <2>3, <2>4, Zenon DEF PeerInv
  <1>7. /\ Sound(clients'[p].recvBuffer) /\ got'[p] <= Len(SentTo(p))
    BY <1>1, <1>2, PeerFacts
  <1> QED
    BY <1>1, <1>2, <1>3, <1>4, <1>5, <1>6, <1>7, SysTypes, OnlyKeeps

(* A packet is as long as its header can say. *)
LEMMA FramedLength ==
    ASSUME NEW x \in Seq(Byte), Framed(x)
    PROVE  Len(x) \in Uint16
  <1>1. Len(x) \in Nat /\ Len(x) >= 2 /\ Len(x) = ValueOf(x[1], x[2])
    BY DEF Framed, SizeofUint16
  <1>2. x[1] \in Byte /\ x[2] \in Byte
    BY <1>1
  <1> QED
    BY <1>1, <1>2, ValueOfFacts

LEMMA SysConnects ==
    ASSUME SysInv, NEW p \in Peers, ClientConnects(p)
    PROVE  SysInv'
  <1>1. /\ Connect(p) /\ clients[p].pc = "start"
        /\ clients' = [clients EXCEPT ![p].pc = "input"]
        /\ pc' = pc /\ client' = client
        /\ link[p].state = "idle" /\ link' = [link EXCEPT ![p].state = "open"]
        /\ asked' = asked /\ got' = got /\ recvBuffer' = recvBuffer
        /\ UNCHANGED <<serverVars, session, replies, refused>>
    BY DEF ClientConnects, Connect, history, serverVars, buffers
  <1>2. /\ clients' \in [Peers -> Clients]
        /\ clients'[p].pc = "input" /\ clients'[p].recvBuffer = clients[p].recvBuffer
        /\ \A q \in Peers : q # p => clients'[q] = clients[q]
    <2>1. "input" \in ClientPCs
      BY DEF ClientPCs
    <2> QED
      BY <1>1, <2>1, PcSet
  <1>3. /\ link' \in Links /\ link'[p].state = "open" /\ link'[p].up = link[p].up
        /\ \A q \in Peers : q # p => link'[q] = link[q]
    BY <1>1, SysTypes DEF Links
  <1>4. Only(p)
    BY <1>1, <1>2, <1>3, Zenon DEF Only
  <1>5. p # client /\ backlog' \in Seq(Peers) /\ Connected'
    BY <1>1, <1>3, SysTypes, ConnectConnected DEF SysInv, ServerSide
  <1>6. PeerInv(p)'
    <2>1. SentTo(p)' = SentTo(p)
      BY <1>4, OnlyFacts
    <2>2. Unserved(p) /\ Unserved(p)' /\ PeerInv(p)
      BY <1>1, <1>3, <1>5, PeerFacts DEF Unserved
    <2>3. Dialogue(p)
      BY <2>2 DEF PeerInv, Watched
    <2>4. Dialogue(p)'
      <3>1. Pending(p)' = Pending(p)
        BY <1>1, <1>3, <1>5 DEF Pending
      <3>2. Returned(p)' = Returned(p) /\ AllFramed(p)' = AllFramed(p)
        BY <1>1, <1>2, <2>1, Zenon DEF Returned, Down, AllFramed
      <3>3. Exchange(Pending(p), Returned(p), "open", "input",
                     IsAbleToGetPacket(clients[p].recvBuffer), AllFramed(p))
        <4>1. Pending(p) = << >> /\ Returned(p) = << >>
          BY <1>1, <2>3, Zenon DEF Dialogue, Exchange
        <4>2. Lone(<< >>)
          BY DEF Lone, SizeofUint16
        <4> QED
          BY <4>1, <4>2 DEF Exchange
      <3> QED
        BY <1>2, <1>3, <3>1, <3>2, <3>3, Zenon DEF Dialogue
    <2>5. clients'[p].pc # "start" /\ link'[p].state # "reset"
      BY <1>2, <1>3
    <2> QED
      BY <1>1, <1>2, <2>1, <2>2, <2>4, <2>5, Zenon DEF PeerInv
  <1>7. /\ Sound(clients'[p].recvBuffer) /\ got'[p] <= Len(SentTo(p))
    BY <1>1, <1>2, PeerFacts
  <1> QED
    BY <1>1, <1>2, <1>3, <1>4, <1>5, <1>6, <1>7, SysTypes, OnlyKeeps

(* What a client hands to send() follows what is under way. *)
LEMMA TransmitFacts ==
    ASSUME SysInv, NEW p \in Peers, NEW r, r.sent \in Seq(Byte), r.ok \in BOOLEAN,
           Transmit(p, r)
    PROVE  /\ link' \in Links /\ link'[p].state = link[p].state
           /\ link'[p].up = link[p].up \o r.sent
           /\ \A q \in Peers : q # p => link'[q] = link[q] /\ asked'[q] = asked[q]
           /\ asked' \in [Peers -> Seq(Seq(Byte))]
           /\ r.ok /\ AllFramed(p)' => Framed(r.sent)
           /\ pc' = pc /\ client' = client /\ backlog' = backlog /\ recvBuffer' = recvBuffer
           /\ UNCHANGED <<serverVars, session, replies, refused>>
           /\ Connected'
           /\ Pending(p) \in Seq(Byte) /\ Pending(p)' = Pending(p) \o r.sent
  <1> DEFINE x == r.sent
             w == link[p].up
  <1>1. /\ link' = [link EXCEPT ![p].up = @ \o x]
        /\ asked' = IF r.ok THEN [asked EXCEPT ![p] = Append(@, x)] ELSE asked
        /\ pc' = pc /\ client' = client /\ backlog' = backlog /\ recvBuffer' = recvBuffer
        /\ UNCHANGED <<serverVars, session, replies, refused>>
    BY DEF Transmit, serverVars, buffers
  <1>2. x \in Seq(Byte) /\ w \in Seq(Byte) /\ asked[p] \in Seq(Seq(Byte)) /\ link \in Links
    BY SysTypes, PeerFacts
  <1> HIDE DEF x
  <1>3. w \o x \in Seq(Byte)
    BY <1>2, ConcatBytes
  <1>4. /\ link' \in Links /\ link'[p].state = link[p].state
        /\ link'[p].up = w \o x
        /\ \A q \in Peers : q # p => link'[q] = link[q]
    <2> DEFINE y == w \o x
    <2>1. link' = [link EXCEPT ![p].up = y] /\ y \in Seq(Byte)
      BY <1>1, <1>3
    <2> HIDE DEF y
    <2>2. /\ link' \in Links /\ link'[p].state = link[p].state /\ link'[p].up = y
          /\ \A q \in Peers : q # p => link'[q] = link[q]
      BY <1>2, <2>1 DEF Links
    <2> QED
      BY <2>2 DEF y
  <1>5. /\ asked' \in [Peers -> Seq(Seq(Byte))]
        /\ \A q \in Peers : q # p => asked'[q] = asked[q]
        /\ r.ok => /\ Len(asked'[p]) = Len(asked[p]) + 1 /\ Len(asked[p]) \in Nat
                   /\ asked'[p][Len(asked[p]) + 1] = x
    <2> DEFINE a == Append(asked[p], x)
    <2>1. /\ a \in Seq(Seq(Byte)) /\ Len(a) = Len(asked[p]) + 1 /\ Len(asked[p]) \in Nat
          /\ a[Len(asked[p]) + 1] = x
      BY <1>2, AppendProperties
    <2>2. asked \in [Peers -> Seq(Seq(Byte))]
      BY SysTypes
    <2>3. CASE r.ok
      <3>1. asked' = [asked EXCEPT ![p] = a]
        BY <1>1, <2>3
      <3> HIDE DEF a
      <3>2. /\ asked' \in [Peers -> Seq(Seq(Byte))] /\ asked'[p] = a
            /\ \A q \in Peers : q # p => asked'[q] = asked[q]
        BY <2>1, <2>2, <3>1
      <3> QED
        BY <2>1, <3>2, Zenon
    <2>4. CASE ~r.ok
      BY <1>1, <2>2, <2>4
    <2> QED
      BY <2>3, <2>4
  <1>6. ASSUME r.ok, AllFramed(p)' PROVE Framed(x)
    <2>1. \A i \in 1 .. Len(asked'[p]) : Framed(asked'[p][i])
      BY <1>6, Zenon DEF AllFramed
    <2> DEFINE k == Len(asked[p]) + 1
    <2>2. k \in 1 .. Len(asked'[p]) /\ asked'[p][k] = x
      BY <1>5, <1>6
    <2> HIDE DEF k
    <2> QED
      BY <2>1, <2>2, Zenon
  <1>7. Connected'
    BY <1>1, <1>4, LiveKept
  <1>8. Pending(p) \in Seq(Byte) /\ Pending(p)' = Pending(p) \o x
    <2> DEFINE u == Unread(recvBuffer)
    <2>1. u \in Seq(Byte)
      BY SysTypes, UnreadFacts
    <2>2. /\ client = p => Pending(p) = u \o w /\ Pending(p)' = u \o (w \o x)
          /\ client # p => Pending(p) = w /\ Pending(p)' = w \o x
      <3>1. Unread(recvBuffer)' = u
        BY <1>1
      <3> HIDE DEF u
      <3>2. /\ client = p => Pending(p) = u \o w
            /\ client # p => Pending(p) = w
        BY Zenon DEF Pending, u
      <3>3. /\ client = p => Pending(p)' = u \o (w \o x)
            /\ client # p => Pending(p)' = w \o x
        BY <1>1, <1>4, <3>1, Zenon DEF Pending
      <3> QED
        BY <3>2, <3>3
    <2> HIDE DEF u, w
    <2>3. u \o w \in Seq(Byte) /\ (u \o w) \o x = u \o (w \o x)
      BY <1>2, <2>1, ConcatBytes, ConcatBytesAssoc
    <2> QED
      BY <1>2, <2>2, <2>3, Zenon
  <1> QED
    BY <1>1, <1>4, <1>5, <1>6, <1>7, <1>8, Zenon DEF x

(* Only when there is nothing else under way does a client read a line. *)
LEMMA SysReads ==
    ASSUME SysInv, NEW p \in Peers, NEW chars \in Inputs, NEW junk \in Junk,
           ClientReads(p, chars, junk)
    PROVE  SysInv'
  <1> DEFINE c == clients[p]
             r == AfterInput(c, chars, link[p].state = "open", junk)
             x == r.sent
  <1>1. /\ c.pc = "input" /\ clients' = [clients EXCEPT ![p] = r.c]
        /\ Transmit(p, r) /\ got' = got
    BY DEF ClientReads
  <1>2. /\ r.c \in Clients /\ r.c.recvBuffer = c.recvBuffer
        /\ x \in Seq(Byte) /\ Lone(x) /\ r.ok \in BOOLEAN
        /\ r.ok => link[p].state = "open" /\ r.c.pc = "recv"
        /\ ~r.ok => x = << >> /\ r.c.pc \in {"input", "aborted"}
    <2>1. chars \in Seq(Byte) /\ junk \in Byte /\ c \in Clients
      BY InputsAssumption, ServerAssumption, PeerFacts
    <2>2. LineTaken(c, r, link[p].state = "open")
      BY <2>1, AfterInputFacts, Zenon
    <2> HIDE DEF r
    <2> QED
      BY <2>2, Zenon DEF LineTaken
  <1> HIDE DEF r
  <1>3. /\ clients' \in [Peers -> Clients] /\ clients'[p] = r.c
        /\ \A q \in Peers : q # p => clients'[q] = clients[q]
    BY <1>1, <1>2, SysTypes
  <1>4. /\ link' \in Links /\ link'[p].state = link[p].state
        /\ link'[p].up = link[p].up \o x
        /\ \A q \in Peers : q # p => link'[q] = link[q] /\ asked'[q] = asked[q]
        /\ asked' \in [Peers -> Seq(Seq(Byte))]
        /\ r.ok /\ AllFramed(p)' => Framed(x)
        /\ pc' = pc /\ client' = client /\ backlog' = backlog /\ recvBuffer' = recvBuffer
        /\ UNCHANGED <<serverVars, session, replies, refused>>
        /\ Connected'
        /\ Pending(p) \in Seq(Byte) /\ Pending(p)' = Pending(p) \o x
    BY <1>1, <1>2, TransmitFacts
  <1>5. Only(p)
    BY <1>1, <1>3, <1>4, Zenon DEF Only
  <1>6. PeerInv(p)'
    <2>1. SentTo(p)' = SentTo(p) /\ Undisturbed' = Undisturbed
      BY <1>5, OnlyFacts
    <2>2. Unserved(p)' = Unserved(p) /\ Watched(p)' = Watched(p) /\ PeerInv(p)
      BY <1>4, <2>1, PeerFacts DEF Unserved, Watched
    <2>3. Returned(p)' = Returned(p) /\ clients'[p].recvBuffer = c.recvBuffer
      BY <1>1, <1>2, <1>3, <2>1, Zenon DEF Returned, Down
    <2>4. ASSUME Dialogue(p) PROVE Dialogue(p)'
      <3> DEFINE able == IsAbleToGetPacket(c.recvBuffer)
      <3>1. Exchange(Pending(p), Returned(p), link[p].state, "input", able, AllFramed(p))
        BY <1>1, <2>4, Zenon DEF Dialogue
      <3>2. Exchange(Pending(p)', Returned(p), link[p].state, r.c.pc, able, AllFramed(p)')
        <4>1. CASE ~r.ok
          <5>1. Pending(p) \o << >> = Pending(p)
            <6> DEFINE s == Pending(p)
            <6>1. s \in Seq(Byte)
              BY <1>4
            <6> HIDE DEF s
            <6>2. s \o << >> = s
              BY <6>1
            <6> QED
              BY <6>2 DEF s
          <5>2. Pending(p)' = Pending(p)
            BY <1>2, <1>4, <4>1, <5>1, Zenon
          <5>3. r.c.pc # "recv"
            BY <1>2, <4>1
          <5> QED
            BY <3>1, <5>2, <5>3, Zenon DEF Exchange
        <4>2. CASE r.ok
          <5>1. Pending(p) = << >> /\ Returned(p) = << >>
            BY <1>2, <3>1, <4>2, Zenon DEF Exchange
          <5>2. << >> \o x = x
            BY <1>2
          <5>3. Pending(p)' = x
            BY <1>4, <5>1, <5>2, Zenon
          <5>4. ~able
            <6>1. Unread(c.recvBuffer) = << >> /\ Sound(c.recvBuffer)
              BY <5>1, DownFacts, PeerFacts
            <6> QED
              BY <6>1, EmptyUnable
          <5>5. link[p].state = "open" /\ r.c.pc = "recv"
            BY <1>2, <4>2
          <5>6. AllFramed(p)' => Framed(x)
            BY <1>4, <4>2
          <5> HIDE DEF x, able
          <5>7. Exchange(x, << >>, "open", "recv", able, AllFramed(p)')
            <6>1. "recv" # "input" /\ "open" # "idle"
              OBVIOUS
            <6> QED
              BY <1>2, <5>4, <5>6, <6>1, Zenon DEF Exchange
          <5> QED
            BY <5>1, <5>3, <5>5, <5>7, Zenon
        <4> QED
          BY <4>1, <4>2
      <3> QED
        BY <1>3, <1>4, <2>3, <3>2, Zenon DEF Dialogue
    <2>5. r.c.pc # "start"
      BY <1>2
    <2>6. link[p].state = "reset" => link'[p].up = << >>
      <3> SUFFICES ASSUME link[p].state = "reset" PROVE link'[p].up = << >>
        OBVIOUS
      <3>1. ~r.ok /\ x = << >>
        BY <1>2
      <3>2. link[p].up = << >>
        BY <2>2 DEF PeerInv
      <3>3. << >> \o << >> = << >>
        OBVIOUS
      <3> QED
        BY <1>4, <3>1, <3>2, <3>3, Zenon
    <2> QED
      BY <1>1, <1>3, <1>4, <2>1, <2>2, <2>3, <2>4, <2>5, <2>6, Zenon DEF PeerInv
  <1>7. /\ Sound(clients'[p].recvBuffer) /\ got'[p] <= Len(SentTo(p))
    BY <1>1, <1>2, <1>3, PeerFacts
  <1> QED
    BY <1>1, <1>3, <1>4, <1>5, <1>6, <1>7, SysTypes, OnlyKeeps

LEMMA SysReceives ==
    ASSUME SysInv, NEW p \in Peers, NEW junk \in Junk, ClientReceives(p, junk)
    PROVE  SysInv'
  <1>1. PICK n \in 1 .. MAX_BUF_SIZE :
           LET r == AfterRecv(clients[p], SubSeq(Down(p), 1, n), TRUE, junk)
           IN  /\ n <= Len(Down(p))
               /\ clients' = [clients EXCEPT ![p] = r.c]
               /\ got' = [got EXCEPT ![p] = @ + n]
               /\ Transmit(p, r)
    BY DEF ClientReceives
  <1> DEFINE c     == clients[p]
             d     == Down(p)
             bytes == SubSeq(d, 1, n)
             rest  == SubSeq(d, n + 1, Len(d))
             a     == AppendBuffer(c.recvBuffer, bytes)
             takes == TakesPacket(a, junk)
             r     == AfterRecv(c, bytes, TRUE, junk)
             x     == r.sent
             s     == SentTo(p)
             u     == Unread(c.recvBuffer)
  <1>2. /\ c.pc = "recv" /\ link[p].state = "open"
        /\ n <= Len(d) /\ clients' = [clients EXCEPT ![p] = r.c]
        /\ got' = [got EXCEPT ![p] = @ + n] /\ Transmit(p, r)
    BY <1>1 DEF ClientReceives
  <1>3. /\ c \in Clients /\ Sound(c.recvBuffer) /\ junk \in Byte
        /\ s \in Seq(Byte) /\ got[p] \in Nat /\ got[p] <= Len(s)
        /\ d \in Seq(Byte) /\ Len(d) = Len(s) - got[p]
        /\ Returned(p) = u \o d /\ u \in Seq(Byte)
        /\ d = SubSeq(s, got[p] + 1, Len(s))
    BY PeerFacts, DownFacts, ServerAssumption DEF Returned, Down
  <1> HIDE DEF c, d, s, u
  <1>4. n \in Nat /\ n >= 1 /\ n <= MAX_BUF_SIZE /\ Len(s) \in Nat /\ n \in 0 .. Len(d)
    BY <1>2, <1>3, WidthFacts
  <1>5. /\ bytes \in Seq(Byte) /\ Len(bytes) = n /\ rest \in Seq(Byte)
        /\ Len(rest) = Len(d) - n /\ d = bytes \o rest
    <2>1. d \in Seq(Byte) /\ n \in 0 .. Len(d)
      BY <1>3, <1>4
    <2> QED
      BY <2>1, SplitFacts, ZenonT(40)
  <1> HIDE DEF bytes
  <1>6. ChunkTaken(a, takes, r, TRUE)
    BY <1>3, <1>4, <1>5, AfterRecvFacts, Zenon
  <1>7. x \in Seq(Byte) /\ Lone(x) /\ r.ok \in BOOLEAN /\ r.c \in Clients
    BY <1>6, Zenon DEF ChunkTaken
  <1>8. /\ link' \in Links /\ link'[p].state = link[p].state
        /\ link'[p].up = link[p].up \o x
        /\ \A q \in Peers : q # p => link'[q] = link[q] /\ asked'[q] = asked[q]
        /\ asked' \in [Peers -> Seq(Seq(Byte))]
        /\ r.ok /\ AllFramed(p)' => Framed(x)
        /\ pc' = pc /\ client' = client /\ backlog' = backlog /\ recvBuffer' = recvBuffer
        /\ UNCHANGED <<serverVars, session, replies, refused>>
        /\ Connected'
        /\ Pending(p) \in Seq(Byte) /\ Pending(p)' = Pending(p) \o x
    BY <1>2, <1>7, TransmitFacts
  <1> HIDE DEF r, a, takes, rest
  <1>9. /\ clients' \in [Peers -> Clients] /\ clients'[p] = r.c
        /\ got' \in [Peers -> Nat] /\ got'[p] = got[p] + n
        /\ \A q \in Peers : q # p => clients'[q] = clients[q] /\ got'[q] = got[q]
    BY <1>2, <1>4, <1>7, SysTypes
  <1>10. Only(p)
    BY <1>8, <1>9, Zenon DEF Only
  <1>11. SentTo(p)' = s /\ Undisturbed' = Undisturbed
    BY <1>10, OnlyFacts DEF s
  <1>12. got'[p] <= Len(s)
    BY <1>2, <1>3, <1>4, <1>9
  <1>13. Down(p)' = rest
    <2> DEFINE g == got[p]
               t == SubSeq(s, g + n + 1, Len(s))
    <2>1. Down(p)' = t
      BY <1>9, <1>11, Zenon DEF Down
    <2>2. g \in Nat /\ g <= Len(s) /\ Len(d) = Len(s) - g /\ d = SubSeq(s, g + 1, Len(s))
      BY <1>3
    <2> HIDE DEF g
    <2>3. g \in 0 .. Len(s) /\ g + n \in 0 .. Len(s) /\ g + n <= Len(s)
      BY <1>2, <1>4, <2>2
    <2>4. /\ t \in Seq(Byte) /\ Len(t) = Len(s) - (g + n)
          /\ \A i \in 1 .. (Len(s) - (g + n)) : t[i] = s[(g + n) + i]
      BY <1>3, <2>3, SplitFacts, ZenonT(40)
    <2>5. \A i \in 1 .. (Len(s) - g) : d[i] = s[g + i]
      <3> DEFINE v == SubSeq(s, g + 1, Len(s))
      <3>1. s \in Seq(Byte) /\ g \in 0 .. Len(s)
        BY <1>3, <2>3
      <3>2. \A i \in 1 .. (Len(s) - g) : v[i] = s[g + i]
        BY <3>1, SplitFacts, Zenon
      <3>3. d = v
        BY <2>2
      <3> HIDE DEF v
      <3> QED
        BY <3>2, <3>3
    <2>6. \A i \in 1 .. (Len(d) - n) : rest[i] = d[n + i]
      BY <1>3, <1>4, SplitFacts, Zenon DEF rest
    <2> HIDE DEF t
    <2>7. Len(t) = Len(rest)
      BY <1>4, <1>5, <2>2, <2>4
    <2>8. ASSUME NEW i \in 1 .. Len(rest) PROVE t[i] = rest[i]
      <3>1. /\ i \in 1 .. (Len(s) - (g + n)) /\ i \in 1 .. (Len(d) - n)
            /\ n + i \in 1 .. (Len(s) - g) /\ g + (n + i) = (g + n) + i
        BY <1>4, <1>5, <2>2
      <3> QED
        BY <2>4, <2>5, <2>6, <3>1, Zenon
    <2>9. t = rest
      BY <1>5, <2>4, <2>7, <2>8, SeqEqual
    <2> QED
      BY <2>1, <2>9
  <1>14. PeerInv(p)'
    <2>1. ~Unserved(p)' /\ (Watched(p)' => Watched(p)) /\ PeerInv(p)
      <3>1. s # << >>
        <4>1. Len(s) # 0
          BY <1>2, <1>3, <1>4
        <4> QED
          BY <1>3, <4>1, EmptyFacts
      <3>2. PeerInv(p)
        BY PeerFacts
      <3>3. ~Unserved(p)
        BY <3>1, <3>2 DEF PeerInv, s
      <3>4. Unserved(p)' = Unserved(p)
        BY <1>8 DEF Unserved
      <3> QED
        BY <1>8, <1>11, <3>2, <3>3, <3>4 DEF Watched
    <2>2. ASSUME Dialogue(p) PROVE Dialogue(p)'
      <3> DEFINE back == u \o d
      <3>1. Exchange(Pending(p), back, "open", "recv", IsAbleToGetPacket(c.recvBuffer),
                     AllFramed(p))
        BY <1>2, <1>3, <2>2, Zenon DEF Dialogue, c
      <3>2. back # << >>
        <4>1. Len(d) # 0
          BY <1>2, <1>3, <1>4
        <4>2. d # << >>
          BY <1>3, <4>1, EmptyFacts
        <4>3. u \in Seq(Byte) /\ d \in Seq(Byte)
          BY <1>3
        <4> QED
          BY <4>2, <4>3, EmptyConcat, Zenon
      <3>3. Pending(p) = << >> /\ ChatReply(back)
        BY <3>1, <3>2, Zenon DEF Exchange
      <3>4. Pending(p)' = x
        <4>1. << >> \o x = x
          BY <1>7
        <4> QED
          BY <1>8, <3>3, <4>1, Zenon
      <3>5. back \in Seq(Byte) /\ Framed(back) /\ Len(back) <= MAX_BUF_SIZE
        <4>1. back \in Seq(Byte) /\ Framed(back)
          BY <3>3 DEF ChatReply
        <4> HIDE DEF back
        <4>2. Len(back) \in Uint16
          BY <4>1, FramedLength
        <4> QED
          BY <4>1, <4>2, WidthFacts DEF Uint16, MAX_BUF_SIZE
      <3>6. a.ok /\ Unread(a.pb) = u \o bytes /\ Sound(a.pb)
        <4>1. Len(back) = Len(u) + Len(d) /\ Len(u) \in Nat
          BY <1>3, ConcatBytes
        <4>2. bytes # << >>
          <5>1. Len(bytes) # 0
            BY <1>4, <1>5
          <5> QED
            BY <1>5, <5>1, EmptyFacts
        <4>3. GetBufferSize(c.recvBuffer) = Len(u)
          BY <1>3, UnreadFacts DEF u
        <4> HIDE DEF back
        <4>4. /\ GetBufferSize(c.recvBuffer) + Len(bytes) <= MAX_BUF_SIZE
              /\ Len(bytes) <= MAX_BUF_SIZE
          BY <1>2, <1>4, <1>5, <3>5, <4>1, <4>3, WidthFacts
        <4> QED
          BY <1>3, <1>5, <4>2, <4>4, AppendBufferFacts, Zenon DEF a, u
      <3>7. Unread(a.pb) \o rest = back
        <4>1. (u \o bytes) \o rest = u \o (bytes \o rest)
          BY <1>3, <1>5, ConcatBytesAssoc
        <4> QED
          BY <1>5, <3>6, <4>1, Zenon
      <3>8. Lone(back)
        BY <3>5 DEF Lone
      <3>9. Lone(<< >>)
        BY DEF Lone, SizeofUint16
      <3> DEFINE after == Unread(r.c.recvBuffer) \o rest
      <3>10. Exchange(x, after, "open", r.c.pc, IsAbleToGetPacket(r.c.recvBuffer), AllFramed(p)')
        <4>1. CASE IsAbleToGetPacket(a.pb)
          <5>1. rest = << >> /\ Unread(ConsumePacket(a.pb)) = << >>
            BY <1>5, <3>6, <3>7, <3>8, <4>1, LoneTaken, Zenon
          <5>2. takes
            <6>1. Unread(a.pb) \o << >> = Unread(a.pb)
              <7> DEFINE v == Unread(a.pb)
              <7>1. v \in Seq(Byte)
                BY <3>6, UnreadFacts
              <7> HIDE DEF v
              <7>2. v \o << >> = v
                BY <7>1
              <7> QED
                BY <7>2 DEF v
            <6>7. << >> \in Seq(Byte)
              OBVIOUS
            <6> HIDE DEF back
            <6>8. Unread(a.pb) = back
              BY <3>7, <5>1, <6>1, Zenon
            <6>2. Unread(a.pb) = back /\ << >> \in Seq(Byte)
              BY <6>7, <6>8
            <6>3. Unread(a.pb) = back \o << >>
              BY <6>1, <6>2, Zenon
            <6>4. Payload(a.pb, junk) = SubSeq(back, GetHeaderSize + 1, Len(back))
              BY <3>3, <3>6, <6>2, <6>3, FrontHeaderFacts, Zenon DEF ChatReply
            <6>5. ParsesAsChat(Payload(a.pb, junk))
              BY <3>3, <6>4, Zenon DEF ChatReply
            <6> QED
              BY <3>6, <4>1, <6>5, Zenon DEF takes, TakesPacket
          <5>3. /\ r.c.recvBuffer = ConsumePacket(a.pb) /\ Sound(r.c.recvBuffer)
                /\ r.ok => r.c.pc = "recv"
                /\ ~r.ok => x = << >> /\ r.c.pc = "input"
            BY <1>6, <5>2, Zenon DEF ChunkTaken
          <5>4. after = << >>
            <6>1. << >> \o << >> = << >>
              OBVIOUS
            <6> QED
              BY <5>1, <5>3, <6>1, Zenon
          <5>5. ~IsAbleToGetPacket(r.c.recvBuffer)
            BY <5>1, <5>3, EmptyUnable, Zenon
          <5> HIDE DEF x, after
          <5>6. "recv" # "input" /\ "open" # "idle"
            OBVIOUS
          <5>7. CASE r.ok
            BY <1>7, <1>8, <5>3, <5>4, <5>5, <5>6, <5>7, Zenon DEF Exchange
          <5>8. CASE ~r.ok
            BY <3>9, <5>3, <5>4, <5>5, <5>6, <5>8, Zenon DEF Exchange
          <5> QED
            BY <5>7, <5>8
        <4>2. CASE ~IsAbleToGetPacket(a.pb)
          <5>1. ~takes
            BY <4>2, Zenon DEF takes, TakesPacket
          <5>2. r.c.recvBuffer = a.pb /\ r.c.pc = "recv" /\ x = << >>
            BY <1>6, <3>6, <4>2, <5>1, Zenon DEF ChunkTaken
          <5>3. after = back
            BY <3>7, <5>2, Zenon
          <5> HIDE DEF x, after, back
          <5>4. "recv" # "input" /\ "open" # "idle"
            OBVIOUS
          <5> QED
            BY <3>2, <3>3, <3>9, <4>2, <5>2, <5>3, <5>4, Zenon DEF Exchange
        <4> QED
          BY <4>1, <4>2
      <3>11. Returned(p)' = after
        BY <1>9, <1>13, Zenon DEF Returned
      <3> QED
        BY <1>2, <1>8, <1>9, <3>4, <3>10, <3>11, Zenon DEF Dialogue
    <2>3. r.c.pc # "start"
      BY <1>6 DEF ChunkTaken
    <2>4. link'[p].state # "reset"
      BY <1>2, <1>8
    <2> QED
      BY <1>9, <2>1, <2>2, <2>3, <2>4, Zenon DEF PeerInv
  <1>15. Sound(clients'[p].recvBuffer)
    BY <1>6, <1>9, Zenon DEF ChunkTaken
  <1>16. got'[p] <= Len(SentTo(p))
    BY <1>12 DEF s
  <1> QED
    BY <1>8, <1>9, <1>10, <1>14, <1>15, <1>16, SysTypes, OnlyKeeps

(* The server process is ended, and all its connections are reset. *)
LEMMA SysServerKilled ==
    ASSUME SysInv, ServerKilled
    PROVE  SysInv'
  <1>1. /\ pc' = "exit" /\ client' = NoPeer /\ retval' = retval /\ recvBuffer' = recvBuffer
        /\ sendBuffer' = sendBuffer /\ count' = count /\ backlog' = backlog
        /\ asked' = asked /\ session' = session /\ replies' = replies /\ refused' = refused
        /\ clients' = clients /\ got' = got
    BY DEF ServerKilled, buffers, history
  <1>2. /\ link \in Links /\ NoPeer \notin Peers
        /\ link' = [p \in Peers |-> IF link[p].state \in {"open", "fin"}
                                    THEN [state |-> "reset", up |-> << >>] ELSE link[p]]
    BY SysTypes DEF ServerKilled
  <1>3. << >> \in Seq(Byte)
    OBVIOUS
  <1>4. /\ link' \in Links
        /\ \A p \in Peers : IF link[p].state \in {"open", "fin"}
                            THEN link'[p].state = "reset" /\ link'[p].up = << >>
                            ELSE link'[p] = link[p]
    BY <1>2, <1>3 DEF Links
  <1>5. ServerSide'
    <2>1. TypeOK'
      BY <1>1, <1>4 DEF SysInv, ServerSide, TypeOK, Links
    <2>2. Connected'
      <3>1. "exit" \notin Range(Startup)
        BY DEF Startup, Range
      <3>2. \A i \in 1 .. Len(backlog) : backlog[i] \in Peers
        BY SysTypes
      <3>3. ASSUME NEW i \in 1 .. Len(backlog')
            PROVE  backlog'[i] # client' /\ link'[backlog'[i]].state \in Live
        <4> DEFINE q == backlog[i]
        <4>1. q \in Peers /\ link[q].state \in Live /\ backlog'[i] = q
          BY <1>1, <3>2 DEF SysInv, ServerSide, Connected
        <4> HIDE DEF q
        <4>2. link'[q].state \in Live /\ q # client'
          BY <1>1, <1>2, <1>4, <4>1 DEF Live
        <4> QED
          BY <4>1, <4>2
      <3>4. \A i, j \in 1 .. Len(backlog') : backlog'[i] = backlog'[j] => i = j
        BY <1>1 DEF SysInv, ServerSide, Connected
      <3> QED
        BY <1>1, <1>2, <3>1, <3>3, <3>4 DEF Connected
    <2>3. Answering'
      BY <1>1, AnsweringAlone DEF SysInv, ServerSide
    <2>4. Idle'
      BY <1>1 DEF Idle
    <2> QED
      BY <1>1, <2>1, <2>2, <2>3, <2>4 DEF SysInv, ServerSide
  <1>6. ClientSide'
    BY <1>1, ClientsAlone
  <1>7. ASSUME NEW p \in Peers PROVE PeerInv(p)'
    <2>1. PeerInv(p) /\ SentTo(p)' = SentTo(p) /\ p # client'
      BY <1>1, <1>2, PeerFacts, SentToSame
    <2>2. CASE link[p].state \in {"open", "fin"}
      <3>1. link'[p].state = "reset" /\ link'[p].up = << >>
        BY <1>4, <2>2
      <3>2. ~Unserved(p)' /\ ~Watched(p)'
        BY <2>1, <3>1 DEF Unserved, Watched
      <3>3. clients'[p].pc # "start"
        BY <1>1, <2>1, <2>2 DEF PeerInv
      <3> QED
        BY <3>1, <3>2, <3>3, Zenon DEF PeerInv
    <2>3. CASE link[p].state \notin {"open", "fin"}
      <3>1. link'[p] = link[p]
        BY <1>4, <2>3
      <3>2. Unserved(p)' => Unserved(p)
        <4>1. client = p => link[p].state \in Live
          BY DEF SysInv, ServerSide, Connected
        <4> QED
          BY <2>3, <3>1, <4>1 DEF Unserved, Live
      <3>3. Watched(p)' => Unserved(p) /\ p # client
        BY <2>1, <3>2 DEF Watched, Unserved
      <3>4. p # client => Pending(p)' = Pending(p)
        BY <2>1, <3>1 DEF Pending
      <3>5. Calm(p)
        BY <1>1, <2>1, <3>1, <3>2, <3>3, <3>4 DEF Calm, Watched
      <3> QED
        BY <2>1, <3>5, CalmKeeps
    <2> QED
      BY <2>2, <2>3
  <1> QED
    BY <1>5, <1>6, <1>7 DEF SysInv

-----------------------------------------------------------------------------
(* Every step. *)

LEMMA SysServerStep ==
    ASSUME SysInv, ServerNext, UNCHANGED <<clients, got>>
    PROVE  SysInv'
  <1>1. CASE StartupSucceeds \/ StartupFails
    BY <1>1, SysStartup
  <1>2. CASE Accept
    BY <1>2, SysAccept
  <1>3. CASE AcceptFails
    BY <1>3, SysAcceptFails
  <1>4. CASE RecvData
    BY <1>4, SysRecvData
  <1>5. CASE RecvNothing
    BY <1>5, SysRecvNothing
  <1>6. CASE RecvFails
    BY <1>6, SysRecvFails
  <1>7. CASE DispatchDone \/ HandleAborts
    BY <1>7, SysDispatchDone
  <1>8. ASSUME NEW junk \in Junk, HandleFails(junk) PROVE SysInv'
    BY <1>8, SysHandleFails
  <1>9. ASSUME NEW junk \in Junk, HandleChat(junk) PROVE SysInv'
    BY <1>9, SysHandleChat
  <1> QED
    BY <1>1, <1>2, <1>3, <1>4, <1>5, <1>6, <1>7, <1>8, <1>9 DEF ServerNext

LEMMA SysClientStep ==
    ASSUME SysInv, NEW p \in Peers,
           \/ ClientStep(p) \/ ClientFails(p) \/ ClientNotConnected(p)
           \/ \E chars \in Inputs, junk \in Junk : ClientReads(p, chars, junk)
           \/ ClientKilled(p) \/ LinkBreaks(p)
    PROVE  SysInv'
  <1>1. CASE ClientConnects(p)
    BY <1>1, SysConnects
  <1>2. CASE ClientRecvFails(p)
    <2>1. link[p].state # "open"
      BY <1>2 DEF ClientRecvFails, LinkDown
    <2> QED
      BY <1>2, <2>1, SysPcMoves DEF ClientRecvFails
  <1>3. ASSUME NEW junk \in Junk, ClientReceives(p, junk) PROVE SysInv'
    BY <1>3, SysReceives
  <1>4. CASE ClientFails(p) \/ ClientNotConnected(p)
    <2>1. link[p].state # "open"
      BY <1>4, PeerFacts DEF ClientFails, ClientNotConnected, PeerInv
    <2>2. CASE ClientFails(p)
      BY <2>1, <2>2, SysPcMoves DEF ClientFails
    <2>3. CASE ClientNotConnected(p)
      BY <2>1, <2>3, SysPcMoves DEF ClientNotConnected
    <2> QED
      BY <1>4, <2>2, <2>3
  <1>5. ASSUME NEW chars \in Inputs, NEW junk \in Junk, ClientReads(p, chars, junk)
        PROVE  SysInv'
    BY <1>5, SysReads
  <1>6. CASE ClientKilled(p)
    <2>1. clients' = [clients EXCEPT ![p].pc = "exit"] /\ got' = got
      BY <1>6 DEF ClientKilled
    <2>2. CASE PeerCloses(p)
      BY <2>1, <2>2, SysCloses
    <2>3. CASE PeerResets(p)
      BY <2>1, <2>3, SysResets
    <2> QED
      BY <1>6, <2>2, <2>3 DEF ClientKilled
  <1>7. CASE LinkBreaks(p)
    BY <1>7, SysResets DEF LinkBreaks
  <1> QED
    BY <1>1, <1>2, <1>3, <1>4, <1>5, <1>6, <1>7 DEF ClientStep

LEMMA SysStutters ==
    ASSUME SysInv, UNCHANGED sysVars
    PROVE  SysInv'
  <1>1. UNCHANGED <<retval, buffers, client, net, history, clients, got>> /\ pc' = pc
    BY DEF sysVars, vars, serverVars
  <1> QED
    BY <1>1, SysMovesOn DEF SysInv, ServerSide, TypeOK, Connected, Idle

LEMMA SysStep == SysInv /\ [SysNext]_sysVars => SysInv'
  <1> SUFFICES ASSUME SysInv, [SysNext]_sysVars PROVE SysInv'
    OBVIOUS
  <1>1. CASE UNCHANGED sysVars
    BY <1>1, SysStutters
  <1>2. CASE ServerKilled
    BY <1>2, SysServerKilled
  <1>3. CASE ServerNext /\ UNCHANGED <<clients, got>>
    BY <1>3, SysServerStep
  <1>4. ASSUME NEW p \in Peers,
               \/ ClientStep(p) \/ ClientFails(p) \/ ClientNotConnected(p)
               \/ \E chars \in Inputs, junk \in Junk : ClientReads(p, chars, junk)
               \/ ClientKilled(p) \/ LinkBreaks(p)
        PROVE  SysInv'
    BY <1>4, SysClientStep
  <1> QED
    BY <1>1, <1>2, <1>3, <1>4 DEF SysNext

(* Clients and server keep the inductive invariant. *)
LEMMA SystemHolds == SysSpec => []SysInv
  BY InitSysInv, SysStep, PTL DEF SysSpec

-----------------------------------------------------------------------------
(* Clients and server together: what the invariant gives. *)

(* OneWayAtATime: bytes are on their way in one of the two directions only. *)
THEOREM OneWayAlways == SysSpec => []OneWayAtATime
  <1>1. SysInv => OneWayAtATime
    <2> SUFFICES ASSUME SysInv, NEW p \in Peers, client = p, Undisturbed
                 PROVE  \/ link[p].up = << >> /\ Unread(recvBuffer) = << >>
                        \/ Down(p) = << >> /\ Unread(clients[p].recvBuffer) = << >>
      BY DEF OneWayAtATime
    <2>1. Dialogue(p)
      BY PeerFacts DEF PeerInv, Watched
    <2>2. Pending(p) = << >> \/ Returned(p) = << >>
      BY <2>1, Zenon DEF Dialogue, Exchange
    <2>3. CASE Returned(p) = << >>
      BY <2>3, DownFacts
    <2>4. CASE Pending(p) = << >>
      <3> DEFINE u == Unread(recvBuffer)
                 w == link[p].up
      <3>1. u \in Seq(Byte) /\ w \in Seq(Byte)
        BY SysTypes, PeerFacts, UnreadFacts
      <3>2. u \o w = << >>
        BY <2>4, Zenon DEF Pending
      <3> HIDE DEF u, w
      <3>3. u = << >> /\ w = << >>
        BY <3>1, <3>2, EmptyConcat, Zenon
      <3> QED
        BY <3>3 DEF u, w
    <2> QED
      BY <2>2, <2>3, <2>4
  <1> QED
    BY <1>1, SystemHolds, PTL

(* Bytes that are one packet, all received, are a packet to take. *)
LEMMA FramedAble ==
    ASSUME NEW b, Sound(b), NEW x, x = Unread(b) \o << >>, Framed(x)
    PROVE  IsAbleToGetPacket(b)
  <1> DEFINE u == Unread(b)
  <1>1. u \in Seq(Byte) /\ << >> \in Seq(Byte)
    BY UnreadFacts
  <1> HIDE DEF u
  <1>2. u \o << >> = u
    BY <1>1
  <1>3. Framed(u) /\ u = u \o << >>
    BY <1>2 DEF u
  <1> QED
    BY <1>1, <1>3, FrontFacts, Zenon DEF u

(* StallsOnlyAtLimit: both programs wait with nothing on its way only after *)
(* a packet that did not fit, or a failure; and a client that waits has no  *)
(* whole reply in its recvBuffer.                                           *)
THEOREM StallsAlwaysAtLimit == SysSpec => []StallsOnlyAtLimit
  <1>1. SysInv => StallsOnlyAtLimit
    <2> SUFFICES ASSUME SysInv, NEW p \in Peers, client = p, Undisturbed,
                        clients[p].pc = "recv", Down(p) = << >>
                 PROVE  /\ ~IsAbleToGetPacket(clients[p].recvBuffer)
                        /\ Stalled(p) => \E i \in 1 .. Len(asked[p]) : ~Framed(asked[p][i])
      BY DEF StallsOnlyAtLimit, Stalled
    <2>1. Dialogue(p)
      BY PeerFacts DEF PeerInv, Watched
    <2>2. ~IsAbleToGetPacket(clients[p].recvBuffer)
      BY <2>1, Zenon DEF Dialogue, Exchange
    <2>3. ASSUME Stalled(p), AllFramed(p) PROVE FALSE
      <3>1. pc = "recv" /\ link[p].state = "open" /\ link[p].up = << >>
        BY <2>3 DEF Stalled
      <3>2. /\ Framed(Pending(p)) \/ Returned(p) # << >>
            /\ Returned(p) = << >> \/ ChatReply(Returned(p))
        BY <2>1, <2>3, <3>1, Zenon DEF Dialogue, Exchange
      <3>3. ~Framed(Pending(p))
        <4>1. ~IsAbleToGetPacket(recvBuffer) /\ Sound(recvBuffer)
          BY <3>1 DEF SysInv, ServerSide, Idle
        <4>2. Pending(p) = Unread(recvBuffer) \o << >>
          BY <3>1, Zenon DEF Pending
        <4> QED
          BY <4>1, <4>2, FramedAble
      <3>4. ~Framed(Returned(p))
        <4>1. Sound(clients[p].recvBuffer)
          BY PeerFacts
        <4>2. Returned(p) = Unread(clients[p].recvBuffer) \o << >>
          BY Zenon DEF Returned
        <4> QED
          BY <2>2, <4>1, <4>2, FramedAble
      <3> QED
        BY <3>2, <3>3, <3>4 DEF ChatReply
    <2> QED
      BY <2>2, <2>3 DEF AllFramed
  <1> QED
    BY <1>1, SystemHolds, PTL

(* Nothing an undisturbed client sends is too much for recvBuffer. *)
LEMMA ChunkFits ==
    ASSUME SysInv, client \in Peers, Undisturbed, RecvData
    PROVE  session'.clean
  <1> DEFINE b == recvBuffer
             u == Unread(recvBuffer)
             w == link[client].up
  <1>1. PICK n \in 1 .. (MAX_BUF_SIZE + 1) : n <= Len(w) /\ Recv(n)
    BY DEF RecvData
  <1> DEFINE bytes == SubSeq(w, 1, n)
             r     == OnRecv(b, bytes)
  <1>2. /\ Sound(b) /\ u \in Seq(Byte) /\ w \in Seq(Byte)
        /\ MAX_BUF_SIZE \in Nat /\ n \in Nat /\ n >= 1 /\ n <= Len(w)
        /\ session.clean = TRUE
    BY <1>1, SysTypes, PeerFacts, UnreadFacts, WidthFacts DEF Undisturbed, MAX_BUF_SIZE
  <1>3. session' = IF r.ok THEN [session EXCEPT !.arrived = @ \o bytes]
                           ELSE [session EXCEPT !.clean = FALSE]
    BY <1>1, Zenon DEF Recv
  <1>4. Len(u) + Len(w) <= MAX_BUF_SIZE
    <2> DEFINE x == u \o w
    <2>1. x \in Seq(Byte) /\ Len(x) = Len(u) + Len(w)
      BY <1>2, ConcatBytes
    <2>2. link[client].state # "reset"
      <3> HIDE DEF b, u
      <3>1. w # << >>
        <4> HIDE DEF w
        <4>1. Len(w) # 0
          BY <1>2
        <4> QED
          BY <1>2, <4>1, EmptyFacts
      <3>2. PeerInv(client)
        BY PeerFacts
      <3> QED
        BY <3>1, <3>2 DEF PeerInv
    <2>3. Lone(x)
      <3>1. Dialogue(client)
        BY PeerFacts DEF PeerInv, Watched
      <3> QED
        BY <2>2, <3>1, Zenon DEF Dialogue, Exchange, Pending
    <2> HIDE DEF x
    <2>4. CASE Framed(x)
      <3>1. Len(x) \in Uint16
        BY <2>1, <2>4, FramedLength
      <3> QED
        BY <2>1, <3>1, WidthFacts DEF Uint16, MAX_BUF_SIZE
    <2>5. CASE Len(x) < 2
      BY <2>1, <2>5, WidthFacts DEF MAX_BUF_SIZE
    <2> QED
      BY <2>3, <2>4, <2>5 DEF Lone, SizeofUint16
  <1> HIDE DEF w
  <1>5. bytes \in Seq(Byte) /\ Len(bytes) = n
    <2>1. w \in Seq(Byte) /\ n \in 0 .. Len(w)
      BY <1>2
    <2> QED
      BY <2>1, SplitFacts, Zenon
  <1> HIDE DEF bytes
  <1>6. r.ok
    <2>1. bytes # << >>
      <3>1. Len(bytes) # 0
        BY <1>2, <1>5
      <3> QED
        BY <1>5, <3>1, EmptyFacts
    <2>2. GetBufferSize(b) = Len(u)
      BY <1>2, UnreadFacts
    <2> HIDE DEF u
    <2>3. GetBufferSize(b) + Len(bytes) <= MAX_BUF_SIZE /\ Len(bytes) <= MAX_BUF_SIZE
      BY <1>2, <1>4, <1>5, <2>2
    <2>4. r = AppendBuffer(b, bytes)
      <3>1. ~(Len(bytes) > MAX_BUF_SIZE)
        BY <1>2, <1>5, <2>3
      <3> QED
        BY <3>1, Zenon DEF OnRecv
    <2> HIDE DEF r
    <2>5. AppendBuffer(b, bytes).ok
      BY <1>2, <1>5, <2>1, <2>3, AppendBufferFacts, Zenon
    <2> QED
      BY <2>4, <2>5
  <1> HIDE DEF r
  <1> QED
    BY <1>2, <1>3, <1>6, SysTypes

(* NoChunkLost: OnRecv refuses no chunk of an undisturbed client. *)
THEOREM NoChunkEverLost == SysSpec => NoChunkLost
  <1> DEFINE Keeps == client # NoPeer /\ client' = client /\ Undisturbed => session'.clean
  <1>1. SysInv /\ [SysNext]_sysVars => [Keeps]_sysVars
    <2> SUFFICES ASSUME SysInv, SysNext, client # NoPeer, client' = client, Undisturbed
                 PROVE  session'.clean
      OBVIOUS
    <2>1. session.clean /\ client \in Peers
      BY SysTypes DEF Undisturbed
    <2>2. session' = session => session'.clean
      BY <2>1
    <2>3. CASE ServerNext /\ UNCHANGED <<clients, got>>
      <3>1. CASE RecvData
        BY <2>1, <3>1, ChunkFits
      <3>2. CASE Accept
        <4>1. pc = "accept"
          BY <3>2 DEF Accept
        <4>2. pc \in Range(Startup)
          <5>1. 5 \in DOMAIN Startup /\ Startup[5] = "accept"
            BY DEF Startup
          <5> QED
            BY <4>1, <5>1 DEF Range
        <4> QED
          BY <2>1, <4>2, SysTypes DEF SysInv, ServerSide, Connected
      <3>3. ASSUME NEW junk \in Junk, HandleChat(junk) PROVE session'.clean
        <4>1. session' = [session EXCEPT !.taken = Append(@, PacketBytes(recvBuffer, junk))]
          BY <3>3 DEF HandleChat, Handles
        <4> QED
          BY <2>1, <4>1, SysTypes
      <3>4. ASSUME NEW junk \in Junk, HandleFails(junk) PROVE session' = session
        BY <3>4 DEF HandleFails
      <3>5. ASSUME \/ StartupSucceeds \/ StartupFails \/ AcceptFails \/ RecvNothing
                   \/ RecvFails \/ DispatchDone \/ HandleAborts
            PROVE  session' = session
        BY <3>5 DEF StartupSucceeds, StartupFails, AcceptFails, RecvNothing, RecvFails,
                    DispatchDone, HandleAborts, history
      <3> QED
        BY <2>2, <2>3, <3>1, <3>2, <3>3, <3>4, <3>5 DEF ServerNext
    <2>4. CASE ServerKilled
      BY <2>2, <2>4 DEF ServerKilled, history
    <2>5. ASSUME NEW p \in Peers, UNCHANGED <<vars, got>> \/ Connect(p) \/ PeerCloses(p)
                                  \/ PeerResets(p) \/ \E r : Transmit(p, r)
          PROVE  session' = session
      BY <2>5 DEF vars, history, Connect, PeerCloses, PeerResets, Transmit
    <2>6. ASSUME NEW p \in Peers,
                 \/ ClientStep(p) \/ ClientFails(p) \/ ClientNotConnected(p)
                 \/ \E chars \in Inputs, junk \in Junk : ClientReads(p, chars, junk)
                 \/ ClientKilled(p) \/ LinkBreaks(p)
          PROVE  session' = session
      <3>1. CASE ClientStep(p)
        <4>1. CASE ClientConnects(p)
          BY <2>5, <4>1 DEF ClientConnects
        <4>2. CASE ClientRecvFails(p)
          BY <2>5, <4>2 DEF ClientRecvFails
        <4>3. ASSUME NEW junk \in Junk, ClientReceives(p, junk) PROVE session' = session
          <5>1. \E r : Transmit(p, r)
            BY <4>3, Zenon DEF ClientReceives
          <5> QED
            BY <2>5, <5>1
        <4> QED
          BY <3>1, <4>1, <4>2, <4>3 DEF ClientStep
      <3>2. CASE ClientFails(p) \/ ClientNotConnected(p)
        BY <2>5, <3>2 DEF ClientFails, ClientNotConnected
      <3>3. ASSUME NEW chars \in Inputs, NEW junk \in Junk, ClientReads(p, chars, junk)
            PROVE  session' = session
        <4>1. \E r : Transmit(p, r)
          BY <3>3, Zenon DEF ClientReads
        <4> QED
          BY <2>5, <4>1
      <3>4. CASE ClientKilled(p) \/ LinkBreaks(p)
        BY <2>5, <3>4 DEF ClientKilled, LinkBreaks
      <3> QED
        BY <2>6, <3>1, <3>2, <3>3, <3>4
    <2> QED
      BY <2>2, <2>3, <2>4, <2>6 DEF SysNext
  <1> QED
    BY <1>1, SystemHolds, PTL DEF SysSpec, NoChunkLost
=============================================================================
