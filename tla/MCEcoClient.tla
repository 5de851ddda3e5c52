---------------------------- MODULE MCEcoClient -----------------------------
(* An instance of EcoClientSpec. *)
EXTENDS EcoClientSpec

(* Enter alone, a character and enter, a line that starts with the end of a *)
(* C string, and one a character longer than fgets() returns at once.       *)
MCLines == {<<Newline>>, <<1, Newline>>, <<NUL, Newline>>,
            [i \in 1 .. (MAX_BUF_SIZE - 1) |-> 1] \o <<Newline>>}

(* Replies to the lines, and a packet the client can not parse. *)
MCReplies == {PacketOf(PS2C_Chat, SerializeChat(<< >>)),
              PacketOf(PS2C_Chat, SerializeChat(<<2>>)),
              PacketOf(PS2C_Chat, <<0>>)}
=============================================================================
