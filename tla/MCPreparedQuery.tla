-------------------------- MODULE MCPreparedQuery --------------------------
(* Finite instances of PreparedQuery for TLC. *)
EXTENDS PreparedQuery

\* A row of a text and a number, another text behind it.
ThreeCols == <<"str", "num", "str">>
=============================================================================
