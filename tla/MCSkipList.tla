----------------------------- MODULE MCSkipList -----------------------------
(***************************************************************************)
(* SkipList with three keys, two levels, three nodes and three calls of    *)
(* erase(): enough to erase a key, insert it again and erase another one,  *)
(* with the levels in any order.                                           *)
(***************************************************************************)
EXTENDS SkipList

MCKeys == 1..3
MCLevel == 2
MCNodes == 3
MCErases == 3
=============================================================================
