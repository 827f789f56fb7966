-------------------------------- MODULE MCMQ --------------------------------
(***************************************************************************)
(* MQ with the four pushes of itc/mqTest.cpp and one consumer more than    *)
(* its two, so that a broadcast wakes several and only one gets the item.  *)
(***************************************************************************)
EXTENDS MQ

CONSTANTS c1, c2, c3

MCPullers == {c1, c2, c3}
MCItems == 4
=============================================================================
