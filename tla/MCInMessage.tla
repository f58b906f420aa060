---------------------------- MODULE MCInMessage ----------------------------
(* Finite instances of InMessage for TLC. *)
EXTENDS InMessage
=============================================================================
