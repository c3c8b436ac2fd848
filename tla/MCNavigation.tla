---------------------------- MODULE MCNavigation ----------------------------
(* Instances of Navigation for TLC. *)
EXTENDS Navigation, TLC

ChildSymmetry == Permutations(Children)
=============================================================================
