-------------------------- MODULE MCSingleInstance --------------------------
(* Instances of SingleInstance for TLC. *)
EXTENDS SingleInstance

CONSTANTS p1, p2, p3
=============================================================================
