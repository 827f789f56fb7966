----------------------------- MODULE MCConfig -----------------------------
(***************************************************************************)
(* Config with two threads.  The variable "m" is a map in one file whose   *)
(* key is a variable of its own, "m.p"; the other file has a scalar where  *)
(* a vector is wanted, a scalar that is no number, a key with a dot in it  *)
(* and a variable nobody declared.  Strings are "a", "", "~" and "[",      *)
(* which does not load.                                                    *)
(***************************************************************************)
EXTENDS Config, ConfigNodes

MCThreads == {"t1", "t2"}

Of(container, elem) == [of |-> container, elem |-> elem]
Var(name, type, value) == [name |-> name, type |-> type, value |-> value]

Word == [word |-> TRUE]
Letter == Written(Word)
Tilde == Written(Null)
Bracket == [yaml |-> [error |-> TRUE], spelling |-> "bracket"]

Int0 == Var(<<"m", "p">>, Scalar, 0)
Map0 == Var(<<"m">>, Of("map", "int"), [key \in {} |-> 0])
Vec0 == Var(<<"v">>, Of("vector", "int"), <<2, 1>>)
Set0 == Var(<<"s">>, Of("set", "int"), {1, 2})
Vec1 == Var(<<"vs">>, Of("vector", "string"), <<Letter, Tilde>>)
Set1 == Var(<<"ss">>, Of("set", "string"), {Empty, Tilde})
Map1 == Var(<<"ms">>, Of("map", "string"), [key \in {<<"p">>} |-> Letter])
MCDeclared == <<Int0, Map0, Vec0, Set0, Vec1, Set1, Map1>>

MCWanted == {Int0,
             [Int0 EXCEPT !.name = <<"n">>],
             [Int0 EXCEPT !.name = <<"v">>]}

Pair(key, node) == [key |-> key, node |-> node]
Items(seq) == [items |-> [k \in DOMAIN seq |-> Number(seq[k])]]

Doc1 == [pairs |-> <<Pair(<<"m">>, [pairs |-> <<Pair(<<"p">>, Number(1))>>]),
                     Pair(<<"v">>, Items(<<0, 1, 1>>)),
                     Pair(<<"s">>, Items(<<0, 1, 1>>)),
                     Pair(<<"vs">>, [pairs |-> <<Pair(<<"x">>, Word)>>]),
                     Pair(<<"ms">>, Number(1))>>]
Doc2 == [pairs |-> <<Pair(<<"v">>, Number(7)),
                     Pair(<<"s">>, [items |-> <<Number(1), Word>>]),
                     Pair(<<"m", "p">>, Number(2)),
                     Pair(<<"n">>, Number(1)),
                     Pair(<<"ss">>, [items |-> <<Number(1), Word>>]),
                     Pair(<<"ms">>, [pairs |-> <<Pair(<<"q">>, Number(1))>>])>>]
MCDocs == <<listAllNodes(<<>>, Doc1), listAllNodes(<<>>, Doc2)>>

MCSettings == [type \in Types |->
                  IF type.elem = "int"
                  THEN CASE type.of = "scalar" -> {0, 1}
                         [] type.of = "vector" -> {<<>>}
                         [] type.of = "set" -> {{}}
                         [] type.of = "map" ->
                               {[key \in {<<"p">>, <<"q">>} |-> 1]}
                  ELSE CASE type.of = "vector" ->
                               {<<Letter, Bracket>>, <<Empty>>}
                         [] type.of = "set" -> {{Letter, Tilde}, {}}
                         [] type.of = "map" ->
                               {[key \in {<<"p">>} |-> Bracket]}]

MCCalls == 3
=============================================================================
