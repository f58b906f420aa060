---------------------------- MODULE MCOutMessage ----------------------------
(* Finite instances of OutMessage for TLC. *)
EXTENDS OutMessage
=============================================================================
