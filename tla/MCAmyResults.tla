---------------------------- MODULE MCAmyResults ----------------------------
(* Finite instances of AmyResults for TLC. *)
EXTENDS AmyResults
=============================================================================
