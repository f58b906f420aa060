---------------------------- MODULE MCScheduler ----------------------------
(* Finite instances of Scheduler for TLC. *)
EXTENDS Scheduler
=============================================================================
