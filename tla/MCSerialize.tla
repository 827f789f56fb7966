---------------------------- MODULE MCSerialize ----------------------------
(***************************************************************************)
(* Serialize with bytes of four bits and nodes of five: numbers of every   *)
(* kind at the ends of their ranges, and strings that end anywhere in a    *)
(* node, or fill more than one.                                            *)
(***************************************************************************)
EXTENDS Serialize

Of(kind, width, vals) ==
    { [kind |-> kind, width |-> width, val |-> v] : v \in vals }

MCByteBits == 4
MCBaseSize == 5
MCValues ==
    Of("byte", 1, {15}) \cup Of("sbyte", 1, {-8, -1})
    \cup Of("var", 2, {0, 7, 8, 63, 64, 255})
    \cup Of("svar", 2, {-128, -4, -1, 4, 127})
    \cup Of("var", 4, {65535}) \cup Of("svar", 4, {-32768, -1})
    \cup Of("fixed", 4, {4660}) \cup Of("sfixed", 4, {-32768, 32767})
    \cup Of("string", 4, {<<>>, <<3, 9>>, [i \in 1..8 |-> i],
                          [i \in 1..13 |-> i]})
MCBlanks == {9, 10}
MCWrites == 3
=============================================================================
