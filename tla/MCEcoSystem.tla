---------------------------- MODULE MCEcoSystem -----------------------------
(* Instances of EcoSystem. *)
EXTENDS EcoSystem

(* The user types a character, or four, and presses enter: the packet of    *)
(* the longer line is longer than the buffers.                              *)
MCInputs == {<<1, Newline>>, <<1, 1, 1, 1, Newline>>}

(* The peers send what the clients make; none of MServer's own requests. *)
MCNone == {}
=============================================================================
