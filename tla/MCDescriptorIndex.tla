------------------------- MODULE MCDescriptorIndex --------------------------
(* Instances of DescriptorIndex.  0 is a character that sorts before '.',   *)
(* which is 1; 2 and 3 are letters.                                         *)
EXTENDS DescriptorIndex

MCLetters == {2, 3}
S(name) == [kind |-> "symbol", key |-> name]
X(number) == [kind |-> "extension", key |-> number]
File(name, entries) == [name |-> name, entries |-> entries]

(* Symbols a, a.a, ab, a.b, b, b.a, and the invalid a-a.                    *)
MCProtos ==
    {File("f1", <<S(<<2>>)>>), File("f2", <<S(<<2, 1, 2>>), X(1)>>),
     File("f3", <<S(<<2, 3>>), S(<<2, 1, 3>>)>>), File("f4", <<S(<<3>>), X(1), S(<<2, 0, 2>>)>>),
     File("f1", <<X(2), S(<<3>>)>>), File("f5", <<S(<<3, 1, 2>>)>>)}

MCQueries == {<<2>>, <<3>>, <<2, 3>>, <<3, 1, 2>>, <<2, 1, 2, 1, 3>>}
                 \cup {<<2, c, d>> : c \in 0 .. 3, d \in 2 .. 3}
=============================================================================
