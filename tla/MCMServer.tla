----------------------------- MODULE MCMServer ------------------------------
(* An instance of MServer: a chat without a character, whose replies fill  *)
(* sendBuffer when they can not be sent, and a packet with the number       *)
(* behind the table, which has no handler.                                  *)
EXTENDS MServer

MCRequests == {ChatRequest(<< >>), PacketOf(Uint16Range - 1, SerializeChat(<< >>))}
=============================================================================
