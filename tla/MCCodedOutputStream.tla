------------------------ MODULE MCCodedOutputStream -------------------------
(* An instance of CodedOutputStream: writes of a part of the buffer and of   *)
(* more than a buffer.                                                      *)
EXTENDS CodedOutputStream

MCSizes == {-1, 2, 5}
=============================================================================
