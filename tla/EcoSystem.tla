----------------------------- MODULE EcoSystem ------------------------------
(***************************************************************************)
(* ecoClient programs and MServer together: the peers of MServer are the   *)
(* clients of EcoClient, and what the server sends is what they receive.   *)
(*                                                                         *)
(* After its first line a client sends back every reply, and the server    *)
(* answers with the message, a comma and a count: one message goes to and  *)
(* fro and gets longer with every round, until its packet is longer than   *)
(* the buffers.                                                            *)
(***************************************************************************)
EXTENDS MServer, EcoClient

CONSTANT Inputs        \* what fgets() returns to a client, newline included

ASSUME InputsAssumption == Inputs \subseteq Seq(Byte)

VARIABLES clients,     \* per peer: the program, see EcoClient
          got          \* per peer: how many of the bytes sent to it it received

sysVars == <<vars, clients, got>>

SysInit == /\ Init
           /\ \E pad \in Junk : clients = [p \in Peers |-> NewClient(pad)]
           /\ got = [p \in Peers |-> 0]

(* The bytes the server sent to p, and those under way. *)
SentTo(p) == FlattenSeq([i \in 1 .. Len(replies.sent) |->
                           IF replies.sent[i][1] = p THEN replies.sent[i][2] ELSE << >>])
Down(p) == SubSeq(SentTo(p), got[p] + 1, Len(SentTo(p)))

-----------------------------------------------------------------------------
(* The clients. *)

(* WSAStartup() fails. *)
ClientFails(p) ==
    /\ clients[p].pc = "start"
    /\ clients' = [clients EXCEPT ![p].pc = "exit"]
    /\ UNCHANGED <<vars, got>>

ClientConnects(p) ==
    /\ clients[p].pc = "start"
    /\ Connect(p)
    /\ clients' = [clients EXCEPT ![p].pc = "input"]
    /\ UNCHANGED got

(* connect() fails when nobody listens; the client prompts all the same. *)
ClientNotConnected(p) ==
    /\ clients[p].pc = "start" /\ ~Listening
    /\ clients' = [clients EXCEPT ![p].pc = "input"]
    /\ UNCHANGED <<vars, got>>

(* Bytes a client handed to send(), if it did. *)
Transmit(p, r) ==
    /\ link'  = [link EXCEPT ![p].up = @ \o r.sent]
    /\ asked' = IF r.ok THEN [asked EXCEPT ![p] = Append(@, r.sent)] ELSE asked
    /\ UNCHANGED <<serverVars, backlog, session, replies, refused>>

ClientReads(p, chars, junk) ==
    LET r == AfterInput(clients[p], chars, link[p].state = "open", junk)
    IN  /\ clients[p].pc = "input"
        /\ Len(asked[p]) < MaxRequests
        /\ clients' = [clients EXCEPT ![p] = r.c]
        /\ Transmit(p, r)
        /\ UNCHANGED got

ClientReceives(p, junk) ==
    /\ clients[p].pc = "recv" /\ link[p].state = "open"
    /\ \E n \in 1 .. MAX_BUF_SIZE :
          LET r == AfterRecv(clients[p], SubSeq(Down(p), 1, n), TRUE, junk)
          IN  /\ n <= Len(Down(p))
              /\ clients' = [clients EXCEPT ![p] = r.c]
              /\ got' = [got EXCEPT ![p] = @ + n]
              /\ Transmit(p, r)

(* A connection is down once it was reset, whether or not the server has    *)
(* closed its socket since.                                                 *)
LinkDown(p) == link[p].state \in {"reset", "closed"}

(* recv() fails: back to the prompt. *)
ClientRecvFails(p) ==
    /\ clients[p].pc = "recv" /\ LinkDown(p)
    /\ clients' = [clients EXCEPT ![p].pc = "input"]
    /\ UNCHANGED <<vars, got>>

(* The process is ended; the system closes or resets its connection. *)
ClientKilled(p) ==
    /\ clients[p].pc \in {"input", "recv"}
    /\ clients' = [clients EXCEPT ![p].pc = "exit"]
    /\ PeerCloses(p) \/ PeerResets(p)
    /\ UNCHANGED got

(* The connection breaks under both programs. *)
LinkBreaks(p) == PeerResets(p) /\ UNCHANGED <<clients, got>>

(* A client thread's own steps. *)
ClientStep(p) == \/ ClientConnects(p)
                 \/ ClientRecvFails(p)
                 \/ \E junk \in Junk : ClientReceives(p, junk)

(* The server process is ended, and all its connections with it. *)
ServerKilled ==
    /\ Listening
    /\ pc' = "exit"
    /\ link' = [p \in Peers |-> IF link[p].state \in {"open", "fin"}
                                THEN [state |-> "reset", up |-> << >>] ELSE link[p]]
    /\ client' = NoPeer
    /\ UNCHANGED <<retval, buffers, backlog, history, clients, got>>

SysNext ==
    \/ \E p \in Peers : \/ ClientStep(p)
                        \/ ClientFails(p)
                        \/ ClientNotConnected(p)
                        \/ \E chars \in Inputs, junk \in Junk : ClientReads(p, chars, junk)
                        \/ ClientKilled(p)
                        \/ LinkBreaks(p)
    \/ ServerKilled
    \/ ServerNext /\ UNCHANGED <<clients, got>>

-----------------------------------------------------------------------------
(* Both programs' threads run when they are not blocked.  Users may never   *)
(* type, nobody need kill a process and no connection need break.           *)
ClientReady(p) == \/ clients[p].pc = "start" /\ Listening /\ link[p].state = "idle"
                  \/ clients[p].pc = "recv" /\ LinkDown(p)
                  \/ clients[p].pc = "recv" /\ link[p].state = "open" /\ Down(p) # << >>

SysFairness ==
    /\ []<>~ServerReady \/ []<><<ServerNext /\ UNCHANGED <<clients, got>>>>_sysVars
    /\ \A p \in Peers : []<>~ClientReady(p) \/ []<><<ClientStep(p)>>_sysVars

SysSpec == SysInit /\ [][SysNext]_sysVars /\ SysFairness
-----------------------------------------------------------------------------
(* Every packet of this dialogue is one the buffers can hold, no send() has *)
(* failed, and the connection began with an empty recvBuffer.               *)
Undisturbed == session.clean /\ ~replies.misfit /\ ~replies.failed /\ refused = << >>

(***************************************************************************)
(* One message goes to and fro: on an undisturbed connection there are     *)
(* never bytes on their way to the server, or waiting in its recvBuffer,   *)
(* while there are bytes on their way to the client or in its own.         *)
(***************************************************************************)
OneWayAtATime ==
    \A p \in Peers :
        client = p /\ Undisturbed =>
            \/ link[p].up = << >> /\ Unread(recvBuffer) = << >>
            \/ Down(p) = << >> /\ Unread(clients[p].recvBuffer) = << >>

(***************************************************************************)
(* Which is why, on an undisturbed connection, OnRecv never has to refuse  *)
(* a chunk of an ecoClient, as it may of a client that does not wait for   *)
(* its replies.                                                            *)
(***************************************************************************)
NoChunkLost ==
    [][client # NoPeer /\ client' = client /\ Undisturbed => session'.clean]_sysVars

(* Both programs wait in recv() and nothing is on its way. *)
Stalled(p) == /\ client = p /\ pc = "recv" /\ link[p] = [state |-> "open", up |-> << >>]
              /\ clients[p].pc = "recv" /\ Down(p) = << >>

(***************************************************************************)
(* The client looks for one packet per recv().  That is enough: when it    *)
(* waits and nothing is on its way, no whole reply is in its recvBuffer.   *)
(* Client and server come to wait for each other only because a reply did  *)
(* not fit the buffer, because what the client sent was no whole packet (a *)
(* line outgrew its own sendBuffer), or after a failure on an earlier      *)
(* connection.                                                             *)
(***************************************************************************)
StallsOnlyAtLimit ==
    \A p \in Peers :
        /\ client = p /\ Undisturbed /\ clients[p].pc = "recv" /\ Down(p) = << >> =>
              ~IsAbleToGetPacket(clients[p].recvBuffer)
        /\ Stalled(p) => \/ ~Undisturbed
                         \/ \E i \in 1 .. Len(asked[p]) : ~Framed(asked[p][i])

(***************************************************************************)
(* And that is how every dialogue ends whose connection and server hold:   *)
(* the message grows until its packet does not fit, and both wait in       *)
(* recv().  Only after a failure, or with something stuck in its           *)
(* sendBuffer, does the client come back to its prompt.                    *)
(***************************************************************************)
Prompts(p) == /\ clients[p].pc = "input"
              /\ ~Undisturbed \/ Unread(clients[p].sendBuffer) # << >>

DialogueStalls ==
    \A p \in Peers :
        (client = p /\ clients[p].pc = "recv" /\ link[p].state = "open")
            ~> (Stalled(p) \/ Prompts(p) \/ link[p].state # "open" \/ pc = "aborted")
=============================================================================
