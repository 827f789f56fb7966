----------------------------- MODULE MCLogging -----------------------------
(***************************************************************************)
(* Logging with the owner's thread and another one, of two records each.   *)
(***************************************************************************)
EXTENDS Logging

CONSTANTS main, worker

MCThreads == {main, worker}
MCRecords == 2
=============================================================================
