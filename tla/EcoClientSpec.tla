--------------------------- MODULE EcoClientSpec ----------------------------
(***************************************************************************)
(* The test client ecoClient against a user who types lines and a server   *)
(* that sends packets, closes or resets the connection at any moment.      *)
(***************************************************************************)
EXTENDS EcoClient

CONSTANTS Lines,       \* what the user types, each line with its newline
          MaxLines,    \* bound: lines typed
          Replies,     \* the packets the server sends, as byte sequences
          MaxReplies,  \* bound: packets the server sends
          Junk         \* values of memory the program has not written

ASSUME ClientAssumption ==
    /\ \A line \in Lines : /\ line \in Seq(Byte) /\ line # << >>
                             /\ \A i \in 1 .. Len(line) : line[i] = Newline <=> i = Len(line)
    /\ Replies \subseteq Seq(Byte) /\ \A packet \in Replies : Framed(packet)
    /\ MaxLines \in Nat /\ MaxReplies \in Nat
    /\ Junk \subseteq Byte /\ Junk # {}

VARIABLES client,      \* the program, see EcoClient
          stdin, eof,  \* characters typed and not read; whether input has ended
          conn,        \* the connection: "none", "open", "closed", "reset"
          down,        \* bytes from the server under way
          input,       \* history: lines typed, messages made of them
          inbound,     \* history: packets the server sent, bytes received, packets taken
          outbound     \* history of SetPacket and send()

vars == <<client, stdin, eof, conn, down, input, inbound, outbound>>

Init ==
    /\ \E pad \in Junk : client = NewClient(pad)
    /\ stdin = << >> /\ eof = FALSE
    /\ conn = "none"
    /\ down = << >>
    /\ input = [typed |-> << >>, read |-> << >>]
    /\ inbound = [served |-> << >>, arrived |-> << >>, taken |-> << >>, clean |-> TRUE]
    /\ outbound = [made |-> << >>, sent |-> << >>, failed |-> FALSE, misfit |-> FALSE]

-----------------------------------------------------------------------------
(* The user and the server, external. *)

Types(line) ==
    /\ ~eof /\ Len(input.typed) < MaxLines
    /\ stdin' = stdin \o line
    /\ input' = [input EXCEPT !.typed = Append(@, line)]
    /\ UNCHANGED <<client, eof, conn, down, inbound, outbound>>

EndsInput ==
    /\ ~eof
    /\ eof' = TRUE
    /\ UNCHANGED <<client, stdin, conn, down, input, inbound, outbound>>

ServerSends(packet) ==
    /\ conn = "open" /\ Len(inbound.served) < MaxReplies
    /\ down' = down \o packet
    /\ inbound' = [inbound EXCEPT !.served = Append(@, packet)]
    /\ UNCHANGED <<client, stdin, eof, conn, input, outbound>>

ServerCloses ==
    /\ conn = "open"
    /\ conn' = "closed"
    /\ UNCHANGED <<client, stdin, eof, down, input, inbound, outbound>>

ServerResets ==
    /\ conn \in {"open", "closed"}
    /\ conn' = "reset"
    /\ down' = << >>
    /\ UNCHANGED <<client, stdin, eof, input, inbound, outbound>>

EnvNext == \/ \E line \in Lines : Types(line)
           \/ EndsInput
           \/ \E packet \in Replies : ServerSends(packet)
           \/ ServerCloses
           \/ ServerResets

-----------------------------------------------------------------------------
(* The client. *)

StartupFails ==
    /\ client.pc = "start"
    /\ client' = [client EXCEPT !.pc = "exit"]
    /\ UNCHANGED <<stdin, eof, conn, down, input, inbound, outbound>>

(* Failures of socket() and connect() are logged, and main() goes on. *)
Starts ==
    /\ client.pc = "start"
    /\ client' = [client EXCEPT !.pc = "input"]
    /\ conn' \in {"open", "none"}
    /\ UNCHANGED <<stdin, eof, down, input, inbound, outbound>>

Sendable == conn \in {"open", "closed"}

(* The history of a SetPacket and send() of msg, with r what came of them. *)
Records(msg, r) ==
    LET payload == SerializeChat(msg)
        queued  == SetPacket(client.sendBuffer, PC2S_Chat, payload).ok
    IN  outbound' =
          [ made   |-> IF queued THEN Append(outbound.made, PacketOf(PC2S_Chat, payload))
                                 ELSE outbound.made,
            sent   |-> IF r.ok THEN Append(outbound.sent, r.sent) ELSE outbound.sent,
            failed |-> outbound.failed \/ (queued /\ ~r.ok),
            misfit |-> outbound.misfit \/ ~Fits(payload) ]

ReadsLine(junk) ==
    LET n     == Fgets(stdin, eof)
        chars == SubSeq(stdin, 1, n)
        r     == AfterInput(client, chars, Sendable, junk)
    IN  /\ client.pc = "input"
        /\ n > 0
        /\ stdin' = SubSeq(stdin, n + 1, Len(stdin))
        /\ client' = r.c
        /\ IF InputThrows(chars)
           THEN UNCHANGED <<input, outbound>>
           ELSE /\ input' = [input EXCEPT !.read = Append(@, RemoveEnter(chars))]
                /\ Records(RemoveEnter(chars), r)
        /\ UNCHANGED <<eof, conn, down, inbound>>

Recv(n, junk) ==
    LET bytes == SubSeq(down, 1, n)
        a     == AppendBuffer(client.recvBuffer, bytes)
        r     == AfterRecv(client, bytes, Sendable, junk)
    IN  /\ down' = SubSeq(down, n + 1, Len(down))
        /\ client' = r.c
        /\ inbound' =
             [inbound EXCEPT
                !.arrived = IF a.ok THEN @ \o bytes ELSE @,
                !.taken   = IF TakesPacket(a, junk) THEN Append(@, PacketBytes(a.pb, junk)) ELSE @,
                !.clean   = @ /\ a.ok]
        /\ IF TakesPacket(a, junk) THEN Records(ParseChat(Payload(a.pb, junk)), r)
                                   ELSE UNCHANGED outbound
        /\ UNCHANGED <<stdin, eof, conn, input>>

Receives(junk) ==
    /\ client.pc = "recv"
    /\ \E n \in 1 .. MAX_BUF_SIZE : n <= Len(down) /\ Recv(n, junk)

(* Mutant: only an error, and not the end of the stream, ends the loop. *)
RecvOverOnError == conn = "reset"

(* recv() has nothing more to wait for. *)
RecvOver == conn = "reset" \/ (conn = "closed" /\ down = << >>)

(* recv() fails or returns 0: back to the prompt. *)
RecvEnds ==
    /\ client.pc = "recv" /\ RecvOver
    /\ client' = [client EXCEPT !.pc = "input"]
    /\ UNCHANGED <<stdin, eof, conn, down, input, inbound, outbound>>

ClientNext == \/ StartupFails
              \/ Starts
              \/ \E junk \in Junk : ReadsLine(junk) \/ Receives(junk)
              \/ RecvEnds

Next == EnvNext \/ ClientNext

(***************************************************************************)
(* The client's thread runs.  ClientReady is ENABLED of its step, written  *)
(* out: the thread waits in fgets() for a line and in recv() for anything  *)
(* to return.                                                              *)
(***************************************************************************)
ClientReady == \/ client.pc = "start"
               \/ client.pc = "input" /\ Fgets(stdin, eof) > 0
               \/ client.pc = "recv" /\ (down # << >> \/ RecvOver)

Fairness == []<>~ClientReady \/ []<><<ClientNext>>_vars

Spec == Init /\ [][Next]_vars /\ Fairness

-----------------------------------------------------------------------------
(* The state keeps its type. *)
TypeOK == /\ client \in Clients
          /\ stdin \in Seq(Byte) /\ eof \in BOOLEAN
          /\ conn \in {"none", "open", "closed", "reset"}
          /\ down \in Seq(Byte)

(***************************************************************************)
(* What the comment on the newline says: only the enter is removed, so the *)
(* messages made of the input are the lines typed, in order.  A line that  *)
(* fgets() has to cut loses a character, as does one with the end of a C   *)
(* string inside, and all bets are off.                                    *)
(***************************************************************************)
Readable(line) == /\ Len(line) < MAX_BUF_SIZE
                  /\ \A i \in 2 .. Len(line) : line[i] # NUL

LinesIntact ==
    (\A i \in 1 .. Len(input.typed) : Readable(input.typed[i])) =>
    IsPrefix(input.read, [i \in 1 .. Len(input.typed) |-> Front(input.typed[i])])

(***************************************************************************)
(* As long as no chunk was refused, the packets the client takes and       *)
(* echoes are the first the server sent, in order, however the stream is   *)
(* cut and however often the client was back at the prompt in between.     *)
(***************************************************************************)
RepliesTakenInOrder ==
    /\ TypeOK
    /\ inbound.arrived = FlattenSeq(inbound.taken) \o Unread(client.recvBuffer)
    /\ inbound.clean =>
          /\ IsPrefix(inbound.taken, inbound.served)
          /\ conn # "reset" => inbound.arrived \o down = FlattenSeq(inbound.served)

(***************************************************************************)
(* The packets made of lines and of replies leave in the order they were   *)
(* made, whole and once, and a packet whose send() failed is never made up *)
(* for, as long as none outgrew the buffer.                                *)
(***************************************************************************)
PacketsSentInOrder ==
    ~outbound.misfit =>
        LET n == Len(outbound.sent)
        IN  /\ IsPrefix(outbound.sent, outbound.made)
            /\ Unread(client.sendBuffer) =
                  FlattenSeq(SubSeq(outbound.made, n + 1, Len(outbound.made)))
            /\ outbound.failed <=> Unread(client.sendBuffer) # << >>

(***************************************************************************)
(* A client whose connection has ended comes back to its prompt.           *)
(***************************************************************************)
ReturnsToPrompt ==
    (client.pc = "recv" /\ conn \in {"closed", "reset"}) ~> (client.pc = "input")
=============================================================================
