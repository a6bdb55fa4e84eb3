-------------------------- MODULE MCSearchSession --------------------------
(* Instances of SearchSession for TLC. *)
EXTENDS SearchSession, TLC

CONSTANTS d1, d2, o1, o2

ObjectsAreAlike == Permutations(Objects)
=============================================================================
