------------------------------ MODULE MCVarint ------------------------------
(* An instance of Varint with three bits to a byte, two of them digits.     *)
EXTENDS Varint

(* All values of the narrow width, and those around the powers of two.      *)
MCValues ==
    {x \in 0 .. (2^Width32 - 1) : TRUE}
        \cup {x \in UNION {{2^k - 1, 2^k, 2^k + 1, 2^Width64 - 2^k} : k \in Width32 .. (Width64 - 1)} :
                  x < 2^Width64}
        \cup {2^Width64 - 1, 2^Width64 - 2}

(* Ten bytes, of which the last that continues comes anywhere.              *)
MCStreams ==
    {[i \in 1 .. 10 |-> (IF i < n THEN Hi ELSE 0) + (IF i \in ones THEN Hi - 1 ELSE 1)] :
        n \in 1 .. 11, ones \in {{}, {1}, {4, 5}, {5, 8, 9}, {9}, {10}, {2, 10}, 1 .. 10}}
=============================================================================
