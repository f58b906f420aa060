--------------------------- MODULE MCMysqlService ---------------------------
(* Finite instances of MysqlService for TLC. *)
EXTENDS MysqlService
=============================================================================
