---------------------------- MODULE ConfigNodes ----------------------------
(***************************************************************************)
(* How loadFromYaml() makes the list of its nodes out of a YAML document   *)
(* (listAllNodes() in config/config.cpp): every node under its name, a map *)
(* before what is in it.                                                   *)
(***************************************************************************)
EXTENDS Sequences, SequencesExt

(* Of a node that is not a map nothing but itself is listed; the name of   *)
(* the document is empty, so that its keys are names.                      *)
RECURSIVE listAllNodes(_, _)
listAllNodes(name, node) ==
    <<[name |-> name, text |-> node]>> \o
        (IF "pairs" \in DOMAIN node
         THEN FlattenSeq([k \in DOMAIN node.pairs |->
                  listAllNodes(name \o node.pairs[k].key, node.pairs[k].node)])
         ELSE <<>>)
=============================================================================
