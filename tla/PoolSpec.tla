------------------------------ MODULE PoolSpec ------------------------------
(***************************************************************************)
(* What sql::ConnectionPool promises its clients (the class comment of     *)
(* otservpp/sql/connectionpool.h): a connection is free or lent to one     *)
(* client, a request that cannot be served waits, and requests that wait   *)
(* are served first come, first served, before any newcomer.               *)
(***************************************************************************)
EXTENDS Sequences

CONSTANTS Client, Conn, NoConn

VARIABLES
    free,       \* the connections nobody has
    waiting,    \* the requests that wait, oldest first
    owner       \* the connection each client has, or NoConn

svars == <<free, waiting, owner>>

SpecInit ==
    /\ free = Conn
    /\ waiting = <<>>
    /\ owner = [k \in Client |-> NoConn]

Waits(k) == \E i \in DOMAIN waiting : waiting[i] = k

Ask(k) ==
    /\ owner[k] = NoConn /\ ~Waits(k)
    /\ waiting' = Append(waiting, k)
    /\ UNCHANGED <<free, owner>>

\* A request is served at once only when no other waits.
Lend(k, conn) ==
    /\ owner[k] = NoConn /\ waiting = <<>>
    /\ conn \in free
    /\ free' = free \ {conn}
    /\ owner' = [owner EXCEPT ![k] = conn]
    /\ UNCHANGED waiting

LendToFirst(conn) ==
    /\ waiting # <<>> /\ conn \in free
    /\ free' = free \ {conn}
    /\ owner' = [owner EXCEPT ![Head(waiting)] = conn]
    /\ waiting' = Tail(waiting)

GiveBack(k) ==
    /\ owner[k] # NoConn
    /\ free' = free \cup {owner[k]}
    /\ owner' = [owner EXCEPT ![k] = NoConn]
    /\ UNCHANGED waiting

\* k's connection goes to the first that waits without being free between.
PassOn(k) ==
    /\ owner[k] # NoConn /\ waiting # <<>>
    /\ owner' = [owner EXCEPT ![k] = NoConn, ![Head(waiting)] = owner[k]]
    /\ waiting' = Tail(waiting)
    /\ UNCHANGED free

SpecNext ==
    \/ \E k \in Client : Ask(k) \/ GiveBack(k) \/ PassOn(k)
    \/ \E k \in Client, conn \in Conn : Lend(k, conn)
    \/ \E conn \in Conn : LendToFirst(conn)

Spec == SpecInit /\ [][SpecNext]_svars
=============================================================================
