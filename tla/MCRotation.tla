----------------------------- MODULE MCRotation -----------------------------
(***************************************************************************)
(* Rotation with numbers of base three, so that the second name of two     *)
(* digits and the first file lost come with the fifth roll instead of the  *)
(* twelfth.                                                                *)
(***************************************************************************)
EXTENDS Rotation
=============================================================================
