------------------------------ MODULE MCFiber ------------------------------
(***************************************************************************)
(* Fiber with three children, so that one can be switched to from another  *)
(* while a third is suspended.  The children are alike.  Behaviours are    *)
(* followed until more than MaxBroken rules are broken: a state breaks an  *)
(* invariant only if rules are missing from its history.                   *)
(***************************************************************************)
EXTENDS Fiber, Integers, FiniteSets, TLC

CONSTANTS f1, f2, f3, main, null, MaxBroken

MCFibers == {f1, f2, f3}
Alike == Permutations(MCFibers)

FewBroken == Cardinality(misuse) <= MaxBroken
=============================================================================
