---------------------------- MODULE MCAmyService ----------------------------
(* Finite instances of AmyService for TLC. *)
EXTENDS AmyService

CONSTANT c1
=============================================================================
