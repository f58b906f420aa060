-------------------------- MODULE MCConnectionPool --------------------------
(* Finite instances of ConnectionPool for TLC. *)
EXTENDS ConnectionPool

CONSTANTS x1, x2

TwoConns == {x1, x2}
OrderOfTwo == <<x1, x2>>
OneConn == {x1}
OrderOfOne == <<x1>>
=============================================================================
