--------------------------- MODULE MCInputStreams ---------------------------
(* An instance of InputStreams: chunks that end before, at and after the    *)
(* end of a stream, and an empty stream on the way.                         *)
EXTENDS InputStreams

Stream(kind, size, block) == [kind |-> kind, size |-> size, block |-> block]

MCLeaves == <<Stream("array", 3, 2), Stream("pipe", 0, 2), Stream("file", 2, 2), Stream("pipe", 3, 3)>>
MCCounts == 0 .. 3
=============================================================================
