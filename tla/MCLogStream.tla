---------------------------- MODULE MCLogStream ----------------------------
(***************************************************************************)
(* LogStream with a buffer of six characters, which a record of three to   *)
(* five fills at least half: two records overflow it, and a record of two  *)
(* lines of the user's text does not fit.                                  *)
(***************************************************************************)
EXTENDS LogStream

MCBufferSize == 6
MCPiece == 2
MCChars == 12
=============================================================================
