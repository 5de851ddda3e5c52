--------------------------- MODULE MCMessageParser --------------------------
(* Instances of MessageParser.  Field 1 is the submessage, 2 the group, 3   *)
(* the scalar field, 4 the enum extension; 5 is unknown.                    *)
EXTENDS MessageParser

T(k, f, n) == [k |-> k, f |-> f, n |-> n]

MCTokens ==
    {T("value", 3, 0), T("value", 4, 0), T("value", 5, 0),
     T("len", 1, 0), T("len", 1, 2), T("len", 5, 1),
     T("start", 2, 0), T("start", 5, 0), T("end", 2, 0), T("end", 5, 0), T("zero", 0, 0)}
=============================================================================
