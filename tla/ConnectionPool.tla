--------------------------- MODULE ConnectionPool ---------------------------
(***************************************************************************)
(* sql::ConnectionPool (otservpp/sql/connectionpool.h and .cpp) lending    *)
(* its connections: getConnection(), the deleter that gives a connection   *)
(* back, and the strand both go through.  connect() is left out: it names  *)
(* a template without its argument and cannot be instantiated.             *)
(*                                                                         *)
(* strand.dispatch() runs a lambda on the spot when its caller is already  *)
(* on the strand, or when the strand has nothing to do, and posts it       *)
(* otherwise.  A client's handler is called from those lambdas and may     *)
(* itself drop its connection, ask for another or throw: the calls nest,   *)
(* and active is the stack of the handlers that are running.               *)
(***************************************************************************)
EXTENDS Integers, Sequences

CONSTANTS
    Client,      \* the requests: each has at most one handler in the pool
    Conn,        \* the connections made by the constructor
    NoConn,      \* not a connection
    Order,       \* the order in which the constructor makes them
    MayThrow     \* whether a client's handler may throw

ASSUME PoolAssumption ==
    /\ NoConn \notin Conn
    /\ MayThrow \in BOOLEAN
    /\ Order \in Seq(Conn)
    /\ \A i, j \in DOMAIN Order : Order[i] = Order[j] => i = j
    /\ \A x \in Conn : \E i \in DOMAIN Order : Order[i] = x

VARIABLES
    pool,           \* the deque of idle connections
    requestQueue,   \* the handlers that wait for one
    strand,         \* the lambdas posted to the strand
    held,           \* the connection whose ConnectionPtr a client has
    active,         \* the stack of handlers running on the strand, last on top
    fault           \* "terminate" once the process has been terminated

vars == <<pool, requestQueue, strand, held, active, fault>>

Get(k) == [op |-> "get", who |-> k]
Return(x) == [op |-> "return", conn |-> x]

Running == fault = "none"
Top == active[Len(active)]

\* dispatch() from a thread that is not on the strand runs in place.
StrandFree == active = <<>> /\ strand = <<>>

\* k has no request in the pool and no connection.
Asleep(k) ==
    /\ held[k] = NoConn
    /\ \A i \in DOMAIN requestQueue : requestQueue[i] # k
    /\ \A i \in DOMAIN strand : strand[i] # Get(k)
    /\ \A i \in DOMAIN active : active[i].who # k

\* Code of k's that has a connection can run: k's handler is on top of the
\* stack, or k has moved the connection elsewhere and its handler is over.
OnStrand(k) == active # <<>> /\ Top.who = k
OffStrand(k) == \A i \in DOMAIN active : active[i].who # k

-----------------------------------------------------------------------------
Init ==
    /\ pool = Order
    /\ requestQueue = <<>> /\ strand = <<>> /\ active = <<>>
    /\ held = [k \in Client |-> NoConn]
    /\ fault = "none"

\* k's handler is called with connection x, above the handlers in frames.
Call(k, x, via, frames, holders) ==
    /\ held' = [holders EXCEPT ![k] = x]
    /\ active' = Append(frames, [who |-> k, via |-> via])

\* Mutant: the connection is handed out and not popped.
LambdaOfGetUnpopped(k, frames) ==
    \/ /\ pool = <<>>
       /\ requestQueue' = Append(requestQueue, k)
       /\ active' = frames
       /\ UNCHANGED <<pool, held>>
    \/ /\ pool # <<>>
       /\ Call(k, Head(pool), "caller", frames, held)
       /\ UNCHANGED <<pool, requestQueue>>

\* The lambda of getConnection.
LambdaOfGet(k, frames) ==
    \/ /\ pool = <<>>
       /\ requestQueue' = Append(requestQueue, k)
       /\ active' = frames
       /\ UNCHANGED <<pool, held>>
    \/ /\ pool # <<>>
       /\ Call(k, Head(pool), "caller", frames, held)
       /\ pool' = Tail(pool)
       /\ UNCHANGED requestQueue

\* Mutants: the last request is served first; a connection always goes back
\* to the pool.
LambdaOfReturnLifo(x, via, frames, holders) ==
    \/ /\ requestQueue = <<>>
       /\ pool' = Append(pool, x)
       /\ held' = holders /\ active' = frames
       /\ UNCHANGED requestQueue
    \/ /\ requestQueue # <<>>
       /\ Call(requestQueue[Len(requestQueue)], x, via, frames, holders)
       /\ requestQueue' = SubSeq(requestQueue, 1, Len(requestQueue) - 1)
       /\ UNCHANGED pool
LambdaOfReturnIdle(x, via, frames, holders) ==
    /\ pool' = Append(pool, x)
    /\ held' = holders /\ active' = frames
    /\ UNCHANGED requestQueue

\* The lambda of returnToPool.
LambdaOfReturn(x, via, frames, holders) ==
    \/ /\ requestQueue = <<>>
       /\ pool' = Append(pool, x)
       /\ held' = holders /\ active' = frames
       /\ UNCHANGED requestQueue
    \/ /\ requestQueue # <<>>
       /\ Call(Head(requestQueue), x, via, frames, holders)
       /\ requestQueue' = Tail(requestQueue)
       /\ UNCHANGED pool

\* getConnection(), from a handler on the strand or from another thread.
GetConnection(k) ==
    /\ Running /\ Asleep(k)
    /\ \/ /\ active # <<>> \/ StrandFree
          /\ LambdaOfGet(k, active)
          /\ UNCHANGED strand
       \/ /\ ~StrandFree
          /\ strand' = Append(strand, Get(k))
          /\ UNCHANGED <<pool, requestQueue, held, active>>
    /\ UNCHANGED fault

Without(k) == [held EXCEPT ![k] = NoConn]

\* k's ConnectionPtr is destroyed: OnDeleteReturnToPool.
Release(k) ==
    /\ Running /\ held[k] # NoConn
    /\ \/ /\ OnStrand(k) \/ (OffStrand(k) /\ StrandFree)
          /\ LambdaOfReturn(held[k], "deleter", active, Without(k))
          /\ UNCHANGED strand
       \/ /\ OffStrand(k) /\ ~StrandFree
          /\ strand' = Append(strand, Return(held[k]))
          /\ held' = Without(k)
          /\ UNCHANGED <<pool, requestQueue, active>>
    /\ UNCHANGED fault

\* The strand runs the next posted lambda.
RunStrand ==
    /\ Running /\ active = <<>> /\ strand # <<>>
    /\ strand' = Tail(strand)
    /\ LET l == Head(strand) IN
         \/ l.op = "get" /\ LambdaOfGet(l.who, active)
         \/ l.op = "return" /\ LambdaOfReturn(l.conn, "caller", active, held)
    /\ UNCHANGED fault

Popped == SubSeq(active, 1, Len(active) - 1)

\* The handler on top returns, having moved its ConnectionPtr or let it go.
HandlerReturns ==
    /\ Running /\ active # <<>>
    /\ active' = Popped
    /\ UNCHANGED <<pool, requestQueue, strand, held, fault>>

\* The handler on top throws.  Called from a ConnectionPtr's deleter, which
\* the noexcept destructor of the unique_ptr calls, that is std::terminate;
\* otherwise its own ConnectionPtr is destroyed as the stack unwinds.
HandlerThrows ==
    /\ MayThrow
    /\ Running /\ active # <<>>
    /\ \/ /\ Top.via = "deleter"
          /\ fault' = "terminate"
          /\ UNCHANGED <<pool, requestQueue, strand, held, active>>
       \/ /\ Top.via = "caller" /\ held[Top.who] = NoConn
          /\ active' = Popped
          /\ UNCHANGED <<pool, requestQueue, strand, held, fault>>
       \/ /\ Top.via = "caller" /\ held[Top.who] # NoConn
          /\ LambdaOfReturn(held[Top.who], "deleter", Popped, Without(Top.who))
          /\ UNCHANGED <<strand, fault>>

Terminated == ~Running /\ UNCHANGED vars

Next ==
    \/ \E k \in Client : GetConnection(k) \/ Release(k)
    \/ RunStrand
    \/ HandlerReturns
    \/ HandlerThrows
    \/ Terminated

Spec == Init /\ [][Next]_vars

\* The strand is run, handlers end, and clients give connections back.
Fairness ==
    /\ WF_vars(RunStrand)
    /\ WF_vars(HandlerReturns)
    /\ \A k \in Client : SF_vars(Release(k))

FairSpec == Spec /\ Fairness

-----------------------------------------------------------------------------
(* Properties *)

Lambda == [op : {"get"}, who : Client] \cup [op : {"return"}, conn : Conn]

TypeOK ==
    /\ pool \in Seq(Conn)
    /\ requestQueue \in Seq(Client)
    /\ strand \in Seq(Lambda)
    /\ held \in [Client -> Conn \cup {NoConn}]
    /\ active \in Seq([who : Client, via : {"caller", "deleter"}])
    /\ fault \in {"none", "terminate"}

\* No two ConnectionPtrs to one connection: it is at one place of the pool,
\* in one client's hands or in one lambda on its way back.
Exclusive ==
    /\ \A i, j \in DOMAIN pool : pool[i] = pool[j] => i = j
    /\ \A k, l \in Client : held[k] = held[l] /\ held[k] # NoConn => k = l
    /\ \A i, j \in DOMAIN strand :
          strand[i] = strand[j] /\ strand[i].op = "return" => i = j
    /\ \A i \in DOMAIN pool, k \in Client : pool[i] # held[k]
    /\ \A i \in DOMAIN pool, j \in DOMAIN strand : strand[j] # Return(pool[i])
    /\ \A k \in Client, j \in DOMAIN strand : strand[j] # Return(held[k])

\* No connection is lost, whatever throws or nests.
NoneLost ==
    \A x \in Conn :
       \/ \E i \in DOMAIN pool : pool[i] = x
       \/ \E k \in Client : held[k] = x
       \/ \E j \in DOMAIN strand : strand[j] = Return(x)

\* getConnection and returnToPool never leave a request waiting while a
\* connection is idle.
NoIdleWhileWaiting == requestQueue = <<>> \/ pool = <<>>

\* The connections nobody has, when p is the pool and st the strand's queue:
\* one whose return is posted and not yet run is free.
FreeIn(p, st) ==
    {x \in Conn : \/ \E i \in DOMAIN p : p[i] = x
                  \/ \E j \in DOMAIN st : st[j] = Return(x)}

\* The pool implements PoolSpec: exclusive lending, first come first served.
Promise ==
    INSTANCE PoolSpec WITH
       free <- FreeIn(pool, strand), waiting <- requestQueue, owner <- held
PromiseKept == Promise!Spec

\* "the request is queued until a Connection is made available": every
\* request is served, as long as clients return what they were lent.
Served ==
    \A k \in Client :
       (\E i \in DOMAIN requestQueue : requestQueue[i] = k)
          ~> (held[k] # NoConn \/ ~Running)
=============================================================================
