------------------------ MODULE MCPacketHandlerManager ----------------------
(* Two handler classes registered, in every order and with repetitions,    *)
(* under the numbers at the edges of a table of eight entries, the one     *)
(* behind it included.                                                     *)
EXTENDS PacketHandlerManager

MCNumbers == {0, 1, TableSize - 1, TableSize}
=============================================================================
