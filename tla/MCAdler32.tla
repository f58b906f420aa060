----------------------------- MODULE MCAdler32 -----------------------------
(* Finite instances of Adler32 for TLC. *)
EXTENDS Adler32
=============================================================================
