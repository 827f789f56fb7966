--------------------------- MODULE MCAsyncLogging ---------------------------
(***************************************************************************)
(* AsyncLogging on a small instance.  A buffer of 3 bytes is full after    *)
(* two bytes, so that 5 lines of one or two bytes use up the current and   *)
(* the next buffer and force a fresh one; a file is rolled after 3 bytes,  *)
(* which a batch can stay below, reach or exceed.  A file that was there   *)
(* before has 2.                                                           *)
(***************************************************************************)
EXTENDS AsyncLogging

MCBufSize == 3
MCRollSize == 3
MCLens == {1, 2}
MCLeft == {2}
MCLines == 4
=============================================================================
