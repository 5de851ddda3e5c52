------------------------- MODULE MCCodedInputStream -------------------------
(* Instances of CodedInputStream. *)
EXTENDS CodedInputStream

(* No varint longer than a byte; one of two and of three bytes; one longer  *)
(* than any varint may be.                                                  *)
MCContinued == {{}, {1, 3, 4}, 2 .. Length}
MCCounts == {-1, 0, 2, 3}
=============================================================================
