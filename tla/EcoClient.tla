----------------------------- MODULE EcoClient ------------------------------
(***************************************************************************)
(* The steps of ecoClient.cpp as operators.  A client is a record of where *)
(* main() is and its two PacketBuffers.  EcoClientSpec runs one client     *)
(* against any server, EcoSystem runs clients against MServer.             *)
(***************************************************************************)
EXTENDS ClientSession, SequencesExt

(* Characters of the input with a meaning: the end of a C string, of a line. *)
NUL     == 0
Newline == ByteBase - 1

ClientPCs == {"start", "input", "recv", "exit", "aborted"}

Clients == [pc : ClientPCs, sendBuffer : PacketBuffers, recvBuffer : PacketBuffers]

NewClient(pad) == [ pc         |-> "start",
                    sendBuffer |-> Constructed(pad),
                    recvBuffer |-> Constructed(pad) ]

-----------------------------------------------------------------------------
(* A line of input. *)

(***************************************************************************)
(* fgets(inputData, MAX_BUF_SIZE, stdin), external: how many of the        *)
(* characters typed so far it returns; 0 when it waits for more.           *)
(***************************************************************************)
Fgets(stdin, eof) ==
    LET limit == MAX_BUF_SIZE - 1
        ends  == {i \in 1 .. Len(stdin) : i <= limit /\ stdin[i] = Newline}
    IN  IF ends # {} THEN Min(ends)
        ELSE IF Len(stdin) >= limit THEN limit
        ELSE IF eof THEN Len(stdin)
        ELSE 0

(* What strlen and set_message see of an array of characters. *)
CString(chars) ==
    LET nuls == {i \in 1 .. Len(chars) : chars[i] = NUL}
    IN  IF nuls = {} THEN chars ELSE SubSeq(chars, 1, Min(nuls) - 1)

(* Mutant: the newline stays. *)
KeepEnter(chars) == CString(chars)

(* The last character is removed, whatever it is. *)
RemoveEnter(chars) == LET s == CString(chars) IN SubSeq(s, 1, Len(s) - 1)

(* inputData.at(-1) throws, and nothing catches it. *)
InputThrows(chars) == CString(chars) = << >>

-----------------------------------------------------------------------------
(* Sending and receiving. *)

(* SetPacket, send() and ConsumePacket, as in SessionBase::SendPacket. *)
ClientSend(sendBuffer, msg, sendable, junk) ==
    SendPacket(sendBuffer, PC2S_Chat, SerializeChat(msg), sendable, junk)

(***************************************************************************)
(* A line read by fgets: the client waits for the reply if it was sent,    *)
(* else it prompts for the next line.                                      *)
(***************************************************************************)
AfterInput(c, chars, sendable, junk) ==
    LET s == ClientSend(c.sendBuffer, RemoveEnter(chars), sendable, junk)
    IN  IF InputThrows(chars)
        THEN [c |-> [c EXCEPT !.pc = "aborted"], sent |-> << >>, ok |-> FALSE]
        ELSE [c    |-> [c EXCEPT !.pc = IF s.ok THEN "recv" ELSE "input",
                                 !.sendBuffer = s.pb],
              sent |-> s.sent,
              ok   |-> s.ok]

(***************************************************************************)
(* A chunk returned by recv(): at most one packet is taken out of          *)
(* recvBuffer, and its message is sent back.  Every failure breaks out of  *)
(* the loop to the prompt; an unparsable packet stays in recvBuffer.       *)
(***************************************************************************)
TakesPacket(a, junk) ==
    a.ok /\ IsAbleToGetPacket(a.pb) /\ ParsesAsChat(Payload(a.pb, junk))

(* Mutant: the packet is not consumed. *)
AfterRecvKeeps(c, bytes, sendable, junk) ==
    LET a == AppendBuffer(c.recvBuffer, bytes)
        s == ClientSend(c.sendBuffer, ParseChat(Payload(a.pb, junk)), sendable, junk)
    IN  IF TakesPacket(a, junk)
        THEN [c    |-> [pc         |-> IF s.ok THEN "recv" ELSE "input",
                        sendBuffer |-> s.pb,
                        recvBuffer |-> a.pb],
              sent |-> s.sent,
              ok   |-> s.ok]
        ELSE [c    |-> [c EXCEPT !.pc = IF a.ok /\ ~IsAbleToGetPacket(a.pb)
                                        THEN "recv" ELSE "input",
                                 !.recvBuffer = a.pb],
              sent |-> << >>,
              ok   |-> FALSE]

AfterRecv(c, bytes, sendable, junk) ==
    LET a == AppendBuffer(c.recvBuffer, bytes)
        s == ClientSend(c.sendBuffer, ParseChat(Payload(a.pb, junk)), sendable, junk)
    IN  IF TakesPacket(a, junk)
        THEN [c    |-> [pc         |-> IF s.ok THEN "recv" ELSE "input",
                        sendBuffer |-> s.pb,
                        recvBuffer |-> ConsumePacket(a.pb)],
              sent |-> s.sent,
              ok   |-> s.ok]
        ELSE [c    |-> [c EXCEPT !.pc = IF a.ok /\ ~IsAbleToGetPacket(a.pb)
                                        THEN "recv" ELSE "input",
                                 !.recvBuffer = a.pb],
              sent |-> << >>,
              ok   |-> FALSE]
=============================================================================
