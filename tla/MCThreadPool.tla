---------------------------- MODULE MCThreadPool ----------------------------
(***************************************************************************)
(* ThreadPool with a maximum of one thread, room for three Thread objects  *)
(* and three tasks; the numbers of threads asked for are below zero, zero, *)
(* the maximum and above it.                                               *)
(***************************************************************************)
EXTENDS ThreadPool

MCMaxNumThreads == 1
MCNumArgs == -1..2
MCThreads == 3
MCTasks == 3
=============================================================================
