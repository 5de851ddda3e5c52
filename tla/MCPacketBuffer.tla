--------------------------- MODULE MCPacketBuffer ---------------------------
(* PacketBufferSpec with a 9-value uint16: an 8-byte array, chunks that    *)
(* fill it in every alignment.  Payloads of 1 to 4 bytes fit; the sizes of *)
(* those of 5 to 8 wrap to 0 to 3, and the one of 9 is not serialized.     *)
EXTENDS PacketBufferSpec

MCChunks    == {<< >>, <<1>>, <<2, 0, 1>>, <<2, 2, 0, 0, 1, 1, 2, 0>>}
MCPayloads  == {<< >>, <<2>>, <<1, 1, 2, 2>>} \cup
               {[i \in 1 .. n |-> i % 2] : n \in 5 .. 9}
MCPacketNos == {5}
=============================================================================
