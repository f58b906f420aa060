------------------------ MODULE ConnectionPoolProofs ------------------------
(***************************************************************************)
(* Theorems about ConnectionPool, for any clients and connections: its     *)
(* safety invariants, and that it implements PoolSpec.                     *)
(*                                                                         *)
(* A lambda run on the spot and one run from the strand's queue start from *)
(* different states: with x or k already out of the strand's queue, or of  *)
(* the client's hands.  The invariant is therefore stated of a pool p, a   *)
(* request queue rq, posted lambdas st and holders h, with the connection  *)
(* lost, if it is one, in none of these.                                   *)
(***************************************************************************)
EXTENDS ConnectionPool, TLAPS

TypeIn(p, rq, st, h) ==
    /\ p \in Seq(Conn)
    /\ rq \in Seq(Client)
    /\ st \in Seq(Lambda)
    /\ h \in [Client -> Conn \cup {NoConn}]

ExclusiveIn(p, st, h) ==
    /\ \A i, j \in DOMAIN p : p[i] = p[j] => i = j
    /\ \A k, l \in Client : h[k] = h[l] /\ h[k] # NoConn => k = l
    /\ \A i, j \in DOMAIN st : st[i] = st[j] /\ st[i].op = "return" => i = j
    /\ \A i \in DOMAIN p, k \in Client : p[i] # h[k]
    /\ \A i \in DOMAIN p, j \in DOMAIN st : st[j] # Return(p[i])
    /\ \A k \in Client, j \in DOMAIN st : st[j] # Return(h[k])

PlacedIn(x, p, st, h) ==
    \/ \E i \in DOMAIN p : p[i] = x
    \/ \E k \in Client : h[k] = x
    \/ \E j \in DOMAIN st : st[j] = Return(x)

\* Client k has no connection and no request in the pool or on its way.
NoRequest(k, rq, st, h) ==
    /\ h[k] = NoConn
    /\ \A i \in DOMAIN rq : rq[i] # k
    /\ \A i \in DOMAIN st : st[i] # Get(k)

\* A client that waits has no connection and no second request.
RequestsIn(rq, st, h) ==
    /\ \A i \in DOMAIN rq : h[rq[i]] = NoConn /\ \A j \in DOMAIN st : st[j] # Get(rq[i])
    /\ \A i, j \in DOMAIN rq : rq[i] = rq[j] => i = j
    /\ \A k \in Client, j \in DOMAIN st : st[j] = Get(k) => h[k] = NoConn
    /\ \A i, j \in DOMAIN st : st[i] = st[j] => i = j

PoolInv(p, rq, st, h, lost) ==
    /\ TypeIn(p, rq, st, h)
    /\ ExclusiveIn(p, st, h)
    /\ \A x \in Conn : PlacedIn(x, p, st, h) <=> x # lost
    /\ RequestsIn(rq, st, h)
    /\ rq = <<>> \/ p = <<>>

ActiveType == active \in Seq([who : Client, via : {"caller", "deleter"}])

\* The inductive invariant.
IInv ==
    /\ PoolInv(pool, requestQueue, strand, held, NoConn)
    /\ ActiveType
    /\ fault \in {"none", "terminate"}

\* The lambda of getConnection, run for a client with no request.
LEMMA GetLambda ==
    ASSUME NEW st, NEW k \in Client, NEW frames,
           PoolInv(pool, requestQueue, st, held, NoConn),
           NoRequest(k, requestQueue, st, held),
           frames \in Seq([who : Client, via : {"caller", "deleter"}]),
           LambdaOfGet(k, frames)
    PROVE  PoolInv(pool', requestQueue', st, held', NoConn) /\ ActiveType'
  <1>0. TypeIn(pool, requestQueue, st, held)
    BY DEF PoolInv
  <1>1. CASE pool = <<>>
    <2>1. /\ requestQueue' = Append(requestQueue, k) /\ active' = frames
          /\ pool' = pool /\ held' = held
      BY <1>1 DEF LambdaOfGet
    <2>2. TypeIn(pool', requestQueue', st, held')
      BY <1>0, <2>1 DEF TypeIn
    <2>3. RequestsIn(requestQueue', st, held')
      <3>1. /\ \A i \in DOMAIN requestQueue' :
                  \/ i \in DOMAIN requestQueue /\ requestQueue'[i] = requestQueue[i]
                  \/ i = Len(requestQueue) + 1 /\ requestQueue'[i] = k
        BY <1>0, <2>1 DEF TypeIn
      <3>2. RequestsIn(requestQueue, st, held)
        BY DEF PoolInv
      <3> QED
        BY <2>1, <3>1, <3>2 DEF RequestsIn, NoRequest
    <2>4. ExclusiveIn(pool', st, held') /\ ActiveType'
      BY <2>1 DEF PoolInv, ActiveType
    <2>5. \A x \in Conn : PlacedIn(x, pool', st, held') <=> x # NoConn
      BY <2>1 DEF PoolInv
    <2> QED
      BY <1>1, <2>1, <2>2, <2>3, <2>4, <2>5 DEF PoolInv
  <1>2. CASE pool # <<>>
    <2>1. /\ held' = [held EXCEPT ![k] = Head(pool)]
          /\ active' = Append(frames, [who |-> k, via |-> "caller"])
          /\ pool' = Tail(pool) /\ requestQueue' = requestQueue
      BY <1>2 DEF LambdaOfGet, Call
    <2>2. /\ Head(pool) = pool[1] /\ Head(pool) \in Conn /\ 1 \in DOMAIN pool
          /\ \A i \in DOMAIN pool' : i + 1 \in DOMAIN pool /\ pool'[i] = pool[i + 1]
          /\ \A i \in DOMAIN pool : i # 1 => i - 1 \in DOMAIN pool' /\ pool[i] = pool'[i - 1]
          /\ requestQueue = <<>>
      BY <1>0, <1>2, <2>1 DEF TypeIn, PoolInv
    <2>3. TypeIn(pool', requestQueue', st, held') /\ ActiveType'
      BY <1>0, <1>2, <2>1, <2>2 DEF TypeIn, ActiveType
    <2>4. RequestsIn(requestQueue', st, held')
      <3>1. RequestsIn(requestQueue, st, held) /\ DOMAIN requestQueue' = {}
        BY <2>1, <2>2 DEF PoolInv
      <3>2. \A l \in Client : l # k => held'[l] = held[l]
        BY <1>0, <2>1 DEF TypeIn
      <3> QED
        BY <3>1, <3>2 DEF RequestsIn, NoRequest
    <2>5. ExclusiveIn(pool', st, held')
      BY <1>0, <2>1, <2>2, PoolAssumption DEF PoolInv, TypeIn, ExclusiveIn, NoRequest
    <2>6. \A x \in Conn : PlacedIn(x, pool', st, held') <=> x # NoConn
      <3>1. ASSUME NEW x \in Conn PROVE PlacedIn(x, pool', st, held')
        <4>1. PlacedIn(x, pool, st, held) /\ x # NoConn
          BY PoolAssumption DEF PoolInv
        <4>2. /\ held'[k] = Head(pool)
              /\ \A l \in Client : l # k => held'[l] = held[l]
          BY <1>0, <2>1 DEF TypeIn
        <4>3. CASE \E i \in DOMAIN pool : pool[i] = x
          BY <2>2, <4>2, <4>3 DEF PlacedIn
        <4>4. CASE \E l \in Client : held[l] = x
          BY <4>1, <4>2, <4>4 DEF PlacedIn, NoRequest
        <4>5. CASE \E j \in DOMAIN st : st[j] = Return(x)
          BY <4>5 DEF PlacedIn
        <4> QED
          BY <4>1, <4>3, <4>4, <4>5 DEF PlacedIn
      <3> QED
        BY <3>1, PoolAssumption
    <2> QED
      BY <2>1, <2>2, <2>3, <2>4, <2>5, <2>6 DEF PoolInv
  <1> QED
    BY <1>1, <1>2

\* The lambda of returnToPool, run for a connection that is nowhere else.
LEMMA ReturnLambda ==
    ASSUME NEW st, NEW x \in Conn, NEW via \in {"caller", "deleter"}, NEW frames,
           NEW holders,
           PoolInv(pool, requestQueue, st, holders, x),
           frames \in Seq([who : Client, via : {"caller", "deleter"}]),
           LambdaOfReturn(x, via, frames, holders)
    PROVE  PoolInv(pool', requestQueue', st, held', NoConn) /\ ActiveType'
  <1>0. TypeIn(pool, requestQueue, st, holders)
    BY DEF PoolInv
  <1>1. CASE requestQueue = <<>>
    <2>1. /\ pool' = Append(pool, x) /\ held' = holders /\ active' = frames
          /\ requestQueue' = requestQueue
      BY <1>1 DEF LambdaOfReturn
    <2>2. /\ TypeIn(pool', requestQueue', st, held') /\ ActiveType'
          /\ RequestsIn(requestQueue', st, held')
      BY <1>0, <2>1 DEF TypeIn, ActiveType, PoolInv
    <2>3. /\ \A i \in DOMAIN pool : i \in DOMAIN pool' /\ pool'[i] = pool[i]
          /\ \A i \in DOMAIN pool' : i \in DOMAIN pool \/ i = Len(pool) + 1
          /\ Len(pool) + 1 \in DOMAIN pool' /\ pool'[Len(pool) + 1] = x
          /\ Len(pool) + 1 \notin DOMAIN pool
      BY <1>0, <2>1 DEF TypeIn
    <2>4. ~PlacedIn(x, pool, st, holders)
      BY DEF PoolInv
    <2>5. ExclusiveIn(pool', st, held')
      BY <2>1, <2>3, <2>4 DEF PoolInv, ExclusiveIn, PlacedIn
    <2>6. \A y \in Conn : PlacedIn(y, pool', st, held') <=> y # NoConn
      BY <2>1, <2>3, PoolAssumption DEF PoolInv, PlacedIn
    <2> QED
      BY <1>1, <2>1, <2>2, <2>5, <2>6 DEF PoolInv
  <1>2. CASE requestQueue # <<>>
    <2> DEFINE k == Head(requestQueue)
    <2>1. /\ held' = [holders EXCEPT ![k] = x] /\ pool' = pool
          /\ active' = Append(frames, [who |-> k, via |-> via])
          /\ requestQueue' = Tail(requestQueue)
      BY <1>2 DEF LambdaOfReturn, Call
    <2>2. /\ k = requestQueue[1] /\ k \in Client /\ 1 \in DOMAIN requestQueue
          /\ \A i \in DOMAIN requestQueue' :
                /\ i + 1 \in DOMAIN requestQueue
                /\ requestQueue'[i] = requestQueue[i + 1]
                /\ i + 1 # 1
          /\ pool = <<>>
      BY <1>0, <1>2, <2>1 DEF TypeIn, PoolInv
    <2>3. holders[k] = NoConn /\ \A j \in DOMAIN st : st[j] # Get(k)
      BY <2>2 DEF PoolInv, RequestsIn
    <2>4. TypeIn(pool', requestQueue', st, held') /\ ActiveType'
      BY <1>0, <1>2, <2>1, <2>2 DEF TypeIn, ActiveType
    <2>5. RequestsIn(requestQueue', st, held')
      BY <1>0, <2>1, <2>2, <2>3 DEF PoolInv, TypeIn, RequestsIn
    <2>6. ~PlacedIn(x, pool, st, holders)
      BY DEF PoolInv
    <2>7. ExclusiveIn(pool', st, held')
      BY <1>0, <2>1, <2>2, <2>3, <2>6 DEF PoolInv, TypeIn, ExclusiveIn, PlacedIn
    <2>8. \A y \in Conn : PlacedIn(y, pool', st, held') <=> y # NoConn
      BY <1>0, <2>1, <2>2, <2>3, PoolAssumption DEF PoolInv, TypeIn, PlacedIn
    <2> QED
      BY <2>1, <2>2, <2>4, <2>5, <2>7, <2>8 DEF PoolInv
  <1> QED
    BY <1>1, <1>2

\* A client's connection is taken from its hands.
LEMMA TakeFromClient ==
    ASSUME IInv, NEW k \in Client, held[k] # NoConn
    PROVE  /\ held[k] \in Conn
           /\ PoolInv(pool, requestQueue, strand, Without(k), held[k])
  <1> DEFINE x == held[k]
             h == Without(k)
  <1>1. TypeIn(pool, requestQueue, strand, held) /\ x \in Conn
    BY DEF IInv, PoolInv, TypeIn
  <1>2. /\ h \in [Client -> Conn \cup {NoConn}]
        /\ h[k] = NoConn /\ \A l \in Client : l # k => h[l] = held[l]
    BY <1>1 DEF TypeIn, Without
  <1> HIDE DEF h
  <1>3. ExclusiveIn(pool, strand, held) /\ RequestsIn(requestQueue, strand, held)
    BY DEF IInv, PoolInv
  <1>4. ASSUME NEW j \in DOMAIN strand, NEW y, strand[j] = Return(y)
        PROVE  y \in Conn
    BY <1>1, <1>4 DEF TypeIn, Lambda, Return
  <1>5. ExclusiveIn(pool, strand, h)
    <2>1. \A i \in DOMAIN pool : pool[i] # NoConn
      BY <1>1, PoolAssumption DEF TypeIn
    <2>2. \A j \in DOMAIN strand : strand[j] # Return(NoConn)
      BY <1>4, PoolAssumption
    <2> QED
      BY <1>2, <1>3, <2>1, <2>2 DEF ExclusiveIn
  <1>6. RequestsIn(requestQueue, strand, h)
    BY <1>1, <1>2, <1>3 DEF RequestsIn, TypeIn
  <1>7. ~PlacedIn(x, pool, strand, h)
    BY <1>1, <1>2, <1>3, PoolAssumption DEF ExclusiveIn, PlacedIn
  <1>8. ASSUME NEW y \in Conn, y # x PROVE PlacedIn(y, pool, strand, h)
    <2>1. PlacedIn(y, pool, strand, held)
      BY PoolAssumption DEF IInv, PoolInv
    <2> QED
      BY <1>2, <1>8, <2>1 DEF PlacedIn
  <1>9. requestQueue = <<>> \/ pool = <<>>
    BY DEF IInv, PoolInv
  <1> QED
    BY <1>1, <1>2, <1>5, <1>6, <1>7, <1>8, <1>9 DEF PoolInv, TypeIn, h

\* The next lambda is taken from the strand's queue.
LEMMA TakeFromStrand ==
    ASSUME IInv, strand # <<>>
    PROVE  /\ Head(strand).op = "get" =>
                 /\ Head(strand).who \in Client
                 /\ PoolInv(pool, requestQueue, Tail(strand), held, NoConn)
                 /\ NoRequest(Head(strand).who, requestQueue, Tail(strand), held)
           /\ Head(strand).op = "return" =>
                 /\ Head(strand).conn \in Conn
                 /\ PoolInv(pool, requestQueue, Tail(strand), held, Head(strand).conn)
  <1> DEFINE l == Head(strand)
             st == Tail(strand)
  <1>1. TypeIn(pool, requestQueue, strand, held)
    BY DEF IInv, PoolInv
  <1>2. /\ l = strand[1] /\ l \in Lambda /\ 1 \in DOMAIN strand
        /\ st \in Seq(Lambda)
        /\ \A i \in DOMAIN st : /\ i + 1 \in DOMAIN strand /\ i + 1 # 1
                                /\ st[i] = strand[i + 1]
        /\ \A j \in DOMAIN strand :
              j # 1 => j - 1 \in DOMAIN st /\ st[j - 1] = strand[j]
    BY <1>1 DEF TypeIn
  <1> HIDE DEF l, st
  <1>3. /\ ExclusiveIn(pool, strand, held) /\ RequestsIn(requestQueue, strand, held)
        /\ \A y \in Conn : PlacedIn(y, pool, strand, held)
        /\ requestQueue = <<>> \/ pool = <<>>
    BY PoolAssumption DEF IInv, PoolInv
  <1>4. TypeIn(pool, requestQueue, st, held)
    BY <1>1, <1>2 DEF TypeIn
  <1>5. ExclusiveIn(pool, st, held)
    <2>1. \A i, j \in DOMAIN st : st[i] = st[j] /\ st[i].op = "return" => i = j
      BY <1>2, <1>3 DEF ExclusiveIn
    <2> QED
      BY <1>2, <1>3, <2>1 DEF ExclusiveIn
  <1>6. RequestsIn(requestQueue, st, held)
    <2>1. \A i, j \in DOMAIN st : st[i] = st[j] => i = j
      BY <1>2, <1>3 DEF RequestsIn
    <2> QED
      BY <1>2, <1>3, <2>1 DEF RequestsIn
  <1>7. \A i \in DOMAIN st : st[i] # l
    BY <1>2, <1>3 DEF RequestsIn
  <1>8. ASSUME l.op = "get"
        PROVE  /\ l.who \in Client
               /\ PoolInv(pool, requestQueue, st, held, NoConn)
               /\ NoRequest(l.who, requestQueue, st, held)
    <2>1. l.who \in Client /\ l = Get(l.who)
      BY <1>2, <1>8 DEF Lambda, Get
    <2>2. NoRequest(l.who, requestQueue, st, held)
      BY <1>2, <1>3, <1>7, <2>1 DEF NoRequest, RequestsIn
    <2>3. \A y \in Conn : l # Return(y)
      BY <1>8 DEF Return
    <2>4. \A y \in Conn : PlacedIn(y, pool, st, held)
      BY <1>2, <1>3, <2>3 DEF PlacedIn
    <2> QED
      BY <1>3, <1>4, <1>5, <1>6, <2>1, <2>2, <2>4, PoolAssumption DEF PoolInv
  <1>9. ASSUME l.op = "return"
        PROVE  /\ l.conn \in Conn
               /\ PoolInv(pool, requestQueue, st, held, l.conn)
    <2>1. l.conn \in Conn /\ l = Return(l.conn)
      BY <1>2, <1>9 DEF Lambda, Return
    <2>2. ~PlacedIn(l.conn, pool, st, held)
      BY <1>2, <1>3, <1>7, <2>1 DEF ExclusiveIn, PlacedIn
    <2>3. \A y \in Conn : y # l.conn => l # Return(y)
      BY <2>1 DEF Return
    <2>4. ASSUME NEW y \in Conn, y # l.conn PROVE PlacedIn(y, pool, st, held)
      <3>1. \A j \in DOMAIN strand : strand[j] = Return(y) =>
               j - 1 \in DOMAIN st /\ st[j - 1] = Return(y)
        BY <1>2, <2>3, <2>4
      <3> QED
        BY <1>3, <3>1 DEF PlacedIn
    <2> QED
      BY <1>3, <1>4, <1>5, <1>6, <2>1, <2>2, <2>4 DEF PoolInv
  <1> QED
    BY <1>8, <1>9 DEF l, st

Frames == Seq([who : Client, via : {"caller", "deleter"}])

\* The frames below the top of the stack.
LEMMA PoppedFrames ==
    ASSUME ActiveType, active # <<>>
    PROVE  Popped \in Frames /\ Top.who \in Client
  <1> DEFINE S == [who : Client, via : {"caller", "deleter"}]
  <1>1. active \in Seq(S) /\ Len(active) \in 1..Len(active) /\ Len(active) \in Nat
    BY DEF ActiveType
  <1> HIDE DEF S
  <1>2. active[Len(active)] \in S
    BY <1>1
  <1>3. \A i \in 1..(Len(active) - 1) : active[i] \in S
    BY <1>1
  <1>4. SubSeq(active, 1, Len(active) - 1) \in Seq(S)
    BY <1>1, <1>3
  <1> QED
    BY <1>2, <1>4 DEF Popped, Top, Frames, S

\* What every action keeps true.
LEMMA Inductive == IInv /\ [Next]_vars => IInv'
  <1> SUFFICES ASSUME IInv, [Next]_vars PROVE IInv'
    OBVIOUS
  <1>0. active \in Frames /\ ActiveType /\ fault \in {"none", "terminate"}
    BY DEF IInv, ActiveType, Frames
  <1>1. ASSUME NEW k \in Client, GetConnection(k) PROVE IInv'
    <2>1. fault' = fault /\ NoRequest(k, requestQueue, strand, held)
      BY <1>1 DEF GetConnection, Asleep, NoRequest
    <2>2. CASE LambdaOfGet(k, active) /\ strand' = strand
      <3>1. PoolInv(pool', requestQueue', strand, held', NoConn) /\ ActiveType'
        BY <1>0, <2>1, <2>2, GetLambda DEF IInv, Frames
      <3> QED
        BY <1>0, <2>1, <2>2, <3>1 DEF IInv
    <2>3. CASE /\ strand' = Append(strand, Get(k))
               /\ UNCHANGED <<pool, requestQueue, held, active>>
      <3>1. /\ TypeIn(pool, requestQueue, strand, held)
            /\ ExclusiveIn(pool, strand, held)
            /\ RequestsIn(requestQueue, strand, held)
            /\ \A y \in Conn : PlacedIn(y, pool, strand, held)
            /\ requestQueue = <<>> \/ pool = <<>>
        BY PoolAssumption DEF IInv, PoolInv
      <3>2. /\ strand' \in Seq(Lambda)
            /\ \A i \in DOMAIN strand : i \in DOMAIN strand' /\ strand'[i] = strand[i]
            /\ \A i \in DOMAIN strand' :
                  \/ i \in DOMAIN strand /\ strand'[i] = strand[i]
                  \/ i = Len(strand) + 1 /\ strand'[i] = Get(k)
        BY <2>3, <3>1 DEF TypeIn, Lambda, Get
      <3>3. \A y : Get(k) # Return(y) /\ Get(k).op # "return"
        BY DEF Get, Return
      <3>4. ExclusiveIn(pool', strand', held')
        BY <2>3, <3>1, <3>2, <3>3 DEF ExclusiveIn
      <3>5. RequestsIn(requestQueue', strand', held')
        <4>1. \A l : Get(k) = Get(l) => k = l
          BY DEF Get
        <4>2. \A i, j \in DOMAIN strand' : strand'[i] = strand'[j] => i = j
          BY <2>1, <3>1, <3>2 DEF RequestsIn, NoRequest
        <4> QED
          BY <2>1, <2>3, <3>1, <3>2, <4>1, <4>2 DEF RequestsIn, NoRequest
      <3>6. \A y \in Conn : PlacedIn(y, pool', strand', held')
        BY <2>3, <3>1, <3>2 DEF PlacedIn
      <3> QED
        BY <1>0, <2>1, <2>3, <3>1, <3>2, <3>4, <3>5, <3>6, PoolAssumption
           DEF IInv, PoolInv, TypeIn, ActiveType
    <2> QED
      BY <1>1, <2>2, <2>3 DEF GetConnection
  <1>2. ASSUME NEW k \in Client, Release(k) PROVE IInv'
    <2>1. fault' = fault /\ held[k] # NoConn
      BY <1>2 DEF Release
    <2>2. /\ held[k] \in Conn
          /\ PoolInv(pool, requestQueue, strand, Without(k), held[k])
      BY <2>1, TakeFromClient
    <2>3. CASE LambdaOfReturn(held[k], "deleter", active, Without(k)) /\ strand' = strand
      <3>1. PoolInv(pool', requestQueue', strand, held', NoConn) /\ ActiveType'
        BY <1>0, <2>2, <2>3, ReturnLambda DEF Frames
      <3> QED
        BY <1>0, <2>1, <2>3, <3>1 DEF IInv
    <2>4. CASE /\ strand' = Append(strand, Return(held[k])) /\ held' = Without(k)
               /\ UNCHANGED <<pool, requestQueue, active>>
      <3> DEFINE x == held[k]
      <3>1. /\ TypeIn(pool, requestQueue, strand, held')
            /\ ExclusiveIn(pool, strand, held')
            /\ RequestsIn(requestQueue, strand, held')
            /\ ~PlacedIn(x, pool, strand, held')
            /\ \A y \in Conn : y # x => PlacedIn(y, pool, strand, held')
            /\ requestQueue = <<>> \/ pool = <<>>
        BY <2>2, <2>4 DEF PoolInv
      <3>2. /\ strand' \in Seq(Lambda)
            /\ \A i \in DOMAIN strand : i \in DOMAIN strand' /\ strand'[i] = strand[i]
            /\ Len(strand) + 1 \in DOMAIN strand'
            /\ strand'[Len(strand) + 1] = Return(x)
            /\ \A i \in DOMAIN strand' :
                  \/ i \in DOMAIN strand /\ strand'[i] = strand[i]
                  \/ i = Len(strand) + 1 /\ strand'[i] = Return(x)
        BY <2>2, <2>4, <3>1 DEF TypeIn, Lambda, Return
      <3>3. /\ \A y : Return(x) = Return(y) => x = y
            /\ \A l : Get(l) # Return(x)
        BY DEF Get, Return
      <3>4. ExclusiveIn(pool', strand', held')
        <4>1. \A i, j \in DOMAIN strand' : strand'[i] = strand'[j] => i = j
          BY <3>1, <3>2 DEF RequestsIn, PlacedIn
        <4> QED
          BY <2>4, <3>1, <3>2, <3>3, <4>1 DEF ExclusiveIn, PlacedIn
      <3>5. RequestsIn(requestQueue', strand', held')
        <4>1. \A i, j \in DOMAIN strand' : strand'[i] = strand'[j] => i = j
          BY <3>1, <3>2 DEF RequestsIn, PlacedIn
        <4> QED
          BY <2>4, <3>1, <3>2, <3>3, <4>1 DEF RequestsIn
      <3>6. \A y \in Conn : PlacedIn(y, pool', strand', held')
        BY <2>4, <3>1, <3>2 DEF PlacedIn
      <3> QED
        BY <1>0, <2>1, <2>4, <3>1, <3>2, <3>4, <3>5, <3>6, PoolAssumption
           DEF IInv, PoolInv, TypeIn, ActiveType
    <2> QED
      BY <1>2, <2>3, <2>4 DEF Release
  <1>3. ASSUME RunStrand PROVE IInv'
    <2>1. fault' = fault /\ strand # <<>> /\ strand' = Tail(strand)
      BY <1>3 DEF RunStrand
    <2>2. CASE Head(strand).op = "get" /\ LambdaOfGet(Head(strand).who, active)
      <3>1. PoolInv(pool', requestQueue', Tail(strand), held', NoConn) /\ ActiveType'
        BY <1>0, <2>1, <2>2, TakeFromStrand, GetLambda DEF Frames
      <3> QED
        BY <1>0, <2>1, <3>1 DEF IInv
    <2>3. CASE /\ Head(strand).op = "return"
               /\ LambdaOfReturn(Head(strand).conn, "caller", active, held)
      <3>1. PoolInv(pool', requestQueue', Tail(strand), held', NoConn) /\ ActiveType'
        BY <1>0, <2>1, <2>3, TakeFromStrand, ReturnLambda DEF Frames
      <3> QED
        BY <1>0, <2>1, <3>1 DEF IInv
    <2> QED
      BY <1>3, <2>2, <2>3 DEF RunStrand
  <1>4. ASSUME HandlerReturns PROVE IInv'
    BY <1>0, <1>4, PoppedFrames DEF HandlerReturns, IInv, ActiveType, Frames
  <1>5. ASSUME HandlerThrows PROVE IInv'
    <2>1. active # <<>> /\ Popped \in Frames /\ Top.who \in Client
      BY <1>0, <1>5, PoppedFrames DEF HandlerThrows
    <2>2. CASE /\ fault' = "terminate"
               /\ UNCHANGED <<pool, requestQueue, strand, held, active>>
      BY <2>2 DEF IInv, ActiveType
    <2>3. CASE active' = Popped /\ UNCHANGED <<pool, requestQueue, strand, held, fault>>
      BY <2>1, <2>3 DEF IInv, ActiveType, Frames
    <2>4. CASE /\ held[Top.who] # NoConn
               /\ LambdaOfReturn(held[Top.who], "deleter", Popped, Without(Top.who))
               /\ UNCHANGED <<strand, fault>>
      <3>1. /\ held[Top.who] \in Conn
            /\ PoolInv(pool, requestQueue, strand, Without(Top.who), held[Top.who])
        BY <2>1, <2>4, TakeFromClient
      <3>2. PoolInv(pool', requestQueue', strand, held', NoConn) /\ ActiveType'
        BY <2>1, <2>4, <3>1, ReturnLambda DEF Frames
      <3> QED
        BY <1>0, <2>4, <3>2 DEF IInv
    <2> QED
      BY <1>5, <2>2, <2>3, <2>4 DEF HandlerThrows
  <1>6. CASE UNCHANGED vars
    BY <1>6 DEF vars, IInv, ActiveType
  <1> QED
    BY <1>1, <1>2, <1>3, <1>4, <1>5, <1>6 DEF Next, Terminated

\* Every reachable state satisfies the inductive invariant.
THEOREM Invariance == Spec => []IInv
  <1>1. Init => IInv
    <2> SUFFICES ASSUME Init PROVE IInv
      OBVIOUS
    <2>1. TypeIn(pool, requestQueue, strand, held) /\ ActiveType
      BY PoolAssumption DEF Init, TypeIn, ActiveType
    <2>2. ExclusiveIn(pool, strand, held)
      BY <2>1, PoolAssumption DEF Init, ExclusiveIn, TypeIn
    <2>3. \A x \in Conn : PlacedIn(x, pool, strand, held) <=> x # NoConn
      BY PoolAssumption DEF Init, PlacedIn
    <2>4. RequestsIn(requestQueue, strand, held)
      BY DEF Init, RequestsIn
    <2> QED
      BY <2>1, <2>2, <2>3, <2>4 DEF Init, IInv, PoolInv
  <1> QED
    BY <1>1, Inductive, PTL DEF Spec

\* The types of the variables.
THEOREM TypeCorrect == Spec => []TypeOK
  <1>1. IInv => TypeOK
    BY DEF IInv, PoolInv, TypeIn, ActiveType, TypeOK
  <1> QED
    BY <1>1, Invariance, PTL

\* No connection is lent twice or lost, whatever runs on the spot or is posted,
\* nests or throws.
THEOREM Safety == Spec => [](Exclusive /\ NoneLost)
  <1>1. IInv => Exclusive
    BY DEF IInv, PoolInv, ExclusiveIn, Exclusive
  <1>2. IInv => NoneLost
    BY PoolAssumption DEF IInv, PoolInv, PlacedIn, NoneLost
  <1> QED
    BY <1>1, <1>2, Invariance, PTL

\* No connection is idle in the pool while a request waits in its queue.
THEOREM Busy == Spec => []NoIdleWhileWaiting
  <1>1. IInv => NoIdleWhileWaiting
    BY DEF IInv, PoolInv, NoIdleWhileWaiting
  <1> QED
    BY <1>1, Invariance, PTL

\* The lambda of getConnection asks, or lends the head of the pool.
LEMMA GetRefines ==
    ASSUME NEW st, NEW k \in Client, NEW frames,
           PoolInv(pool, requestQueue, st, held, NoConn),
           NoRequest(k, requestQueue, st, held),
           LambdaOfGet(k, frames),
           FreeIn(pool, strand) = FreeIn(pool, st), strand' = st
    PROVE  Promise!SpecNext
  <1>1. TypeIn(pool, requestQueue, st, held) /\ ExclusiveIn(pool, st, held)
    BY DEF PoolInv
  <1>2. CASE pool = <<>>
    <2>1. /\ requestQueue' = Append(requestQueue, k)
          /\ pool' = pool /\ held' = held
      BY <1>2 DEF LambdaOfGet
    <2>2. FreeIn(pool, strand)' = FreeIn(pool, strand)
      BY <2>1 DEF FreeIn
    <2>3. Promise!Ask(k)
      BY <2>1, <2>2 DEF Promise!Ask, Promise!Waits, NoRequest
    <2> QED
      BY <2>3 DEF Promise!SpecNext
  <1>3. CASE pool # <<>>
    <2>1. /\ held' = [held EXCEPT ![k] = Head(pool)]
          /\ pool' = Tail(pool) /\ requestQueue' = requestQueue
      BY <1>3 DEF LambdaOfGet, Call
    <2>2. /\ Head(pool) = pool[1] /\ Head(pool) \in Conn /\ 1 \in DOMAIN pool
          /\ \A i \in DOMAIN pool' :
                i + 1 \in DOMAIN pool /\ i + 1 # 1 /\ pool'[i] = pool[i + 1]
          /\ \A i \in DOMAIN pool :
                i # 1 => i - 1 \in DOMAIN pool' /\ pool[i] = pool'[i - 1]
          /\ requestQueue = <<>>
      BY <1>1, <1>3, <2>1 DEF TypeIn, PoolInv
    <2>3. Head(pool) \in FreeIn(pool, strand)
      BY <2>2 DEF FreeIn
    <2>4. FreeIn(pool', st) = FreeIn(pool, st) \ {Head(pool)}
      <3>1. ASSUME NEW x \in FreeIn(pool', st)
            PROVE  x \in FreeIn(pool, st) \ {Head(pool)}
        BY <1>1, <2>2, <3>1 DEF FreeIn, ExclusiveIn
      <3>2. ASSUME NEW x \in FreeIn(pool, st), x # Head(pool)
            PROVE  x \in FreeIn(pool', st)
        BY <2>2, <3>2 DEF FreeIn
      <3> QED
        BY <3>1, <3>2
    <2>5. FreeIn(pool, strand)' = FreeIn(pool, strand) \ {Head(pool)}
      BY <2>4 DEF FreeIn
    <2>6. Promise!Lend(k, Head(pool))
      BY <2>1, <2>2, <2>3, <2>5 DEF Promise!Lend, NoRequest
    <2> QED
      BY <2>2, <2>6 DEF Promise!SpecNext
  <1> QED
    BY <1>2, <1>3

\* The lambda of returnToPool, run on the spot for k's connection, gives it
\* back or passes it on.
LEMMA ReleaseRefines ==
    ASSUME IInv, NEW k \in Client, held[k] # NoConn, NEW via, NEW frames,
           LambdaOfReturn(held[k], via, frames, Without(k)), strand' = strand
    PROVE  Promise!SpecNext
  <1>1. /\ held[k] \in Conn /\ TypeIn(pool, requestQueue, strand, held)
        /\ held \in [Client -> Conn \cup {NoConn}]
    BY TakeFromClient DEF IInv, PoolInv, TypeIn
  <1>2. CASE requestQueue = <<>>
    <2>1. /\ pool' = Append(pool, held[k]) /\ held' = Without(k)
          /\ requestQueue' = requestQueue
      BY <1>2 DEF LambdaOfReturn
    <2>2. /\ \A i \in DOMAIN pool : i \in DOMAIN pool' /\ pool'[i] = pool[i]
          /\ \A i \in DOMAIN pool' :
                (i \in DOMAIN pool /\ pool'[i] = pool[i]) \/ pool'[i] = held[k]
          /\ Len(pool) + 1 \in DOMAIN pool' /\ pool'[Len(pool) + 1] = held[k]
      BY <1>1, <2>1 DEF TypeIn
    <2>3. FreeIn(pool, strand)' = FreeIn(pool, strand) \cup {held[k]}
      BY <1>1, <2>2 DEF FreeIn
    <2>4. Promise!GiveBack(k)
      BY <2>1, <2>3 DEF Promise!GiveBack, Without
    <2> QED
      BY <2>4 DEF Promise!SpecNext
  <1>3. CASE requestQueue # <<>>
    <2>1. /\ held' = [Without(k) EXCEPT ![Head(requestQueue)] = held[k]]
          /\ pool' = pool /\ requestQueue' = Tail(requestQueue)
      BY <1>3 DEF LambdaOfReturn, Call
    <2>2. FreeIn(pool, strand)' = FreeIn(pool, strand)
      BY <2>1 DEF FreeIn
    <2>3. held' = [held EXCEPT ![k] = NoConn, ![Head(requestQueue)] = held[k]]
      BY <2>1 DEF Without
    <2>4. Promise!PassOn(k)
      BY <1>3, <2>1, <2>2, <2>3 DEF Promise!PassOn
    <2> QED
      BY <2>4 DEF Promise!SpecNext
  <1> QED
    BY <1>2, <1>3

\* The pool implements PoolSpec: each connection is free or lent to one
\* client, and requests are served first come, first served.
THEOREM Refinement == Spec => PromiseKept
  <1>1. Init => Promise!SpecInit
    <2> SUFFICES ASSUME Init PROVE Promise!SpecInit
      OBVIOUS
    <2>1. FreeIn(pool, strand) = Conn
      BY PoolAssumption DEF Init, FreeIn
    <2> QED
      BY <2>1 DEF Init, Promise!SpecInit
  <1>2. IInv /\ [Next]_vars => [Promise!SpecNext]_(Promise!svars)
    <2> SUFFICES ASSUME IInv, [Next]_vars
                 PROVE  Promise!SpecNext \/ UNCHANGED Promise!svars
      OBVIOUS
    <2>0. /\ TypeIn(pool, requestQueue, strand, held) /\ ActiveType
          /\ PoolInv(pool, requestQueue, strand, held, NoConn)
      BY DEF IInv, PoolInv
    <2>1. ASSUME NEW k \in Client, GetConnection(k)
          PROVE  Promise!SpecNext \/ UNCHANGED Promise!svars
      <3>1. NoRequest(k, requestQueue, strand, held)
        BY <2>1 DEF GetConnection, Asleep, NoRequest
      <3>2. CASE LambdaOfGet(k, active) /\ strand' = strand
        BY <2>0, <3>1, <3>2, GetRefines
      <3>3. CASE /\ strand' = Append(strand, Get(k))
                 /\ UNCHANGED <<pool, requestQueue, held, active>>
        <4>1. /\ \A i \in DOMAIN strand : i \in DOMAIN strand' /\ strand'[i] = strand[i]
              /\ \A i \in DOMAIN strand' :
                    \/ i \in DOMAIN strand /\ strand'[i] = strand[i]
                    \/ strand'[i] = Get(k)
          BY <2>0, <3>3 DEF TypeIn
        <4>2. \A y : Get(k) # Return(y)
          BY DEF Get, Return
        <4>3. FreeIn(pool, strand)' = FreeIn(pool, strand)
          BY <3>3, <4>1, <4>2 DEF FreeIn
        <4> QED
          BY <3>3, <4>3 DEF Promise!svars
      <3> QED
        BY <2>1, <3>2, <3>3 DEF GetConnection
    <2>2. ASSUME NEW k \in Client, Release(k)
          PROVE  Promise!SpecNext \/ UNCHANGED Promise!svars
      <3>1. held[k] # NoConn
        BY <2>2 DEF Release
      <3>2. CASE /\ LambdaOfReturn(held[k], "deleter", active, Without(k))
                 /\ strand' = strand
        BY <3>1, <3>2, ReleaseRefines
      <3>3. CASE /\ strand' = Append(strand, Return(held[k])) /\ held' = Without(k)
                 /\ UNCHANGED <<pool, requestQueue, active>>
        <4>1. /\ \A i \in DOMAIN strand : i \in DOMAIN strand' /\ strand'[i] = strand[i]
              /\ \A i \in DOMAIN strand' :
                    \/ i \in DOMAIN strand /\ strand'[i] = strand[i]
                    \/ strand'[i] = Return(held[k])
              /\ Len(strand) + 1 \in DOMAIN strand'
              /\ strand'[Len(strand) + 1] = Return(held[k])
          BY <2>0, <3>3 DEF TypeIn
        <4>2. held[k] \in Conn /\ \A y : Return(held[k]) = Return(y) => y = held[k]
          BY <3>1, TakeFromClient DEF Return
        <4>3. FreeIn(pool, strand)' = FreeIn(pool, strand) \cup {held[k]}
          BY <3>3, <4>1, <4>2 DEF FreeIn
        <4>4. Promise!GiveBack(k)
          BY <3>1, <3>3, <4>3 DEF Promise!GiveBack, Without
        <4> QED
          BY <4>4 DEF Promise!SpecNext
      <3> QED
        BY <2>2, <3>2, <3>3 DEF Release
    <2>3. ASSUME RunStrand PROVE Promise!SpecNext \/ UNCHANGED Promise!svars
      <3> DEFINE l == Head(strand)
                 st == Tail(strand)
      <3>1. strand # <<>> /\ strand' = st
        BY <2>3 DEF RunStrand
      <3>2. /\ l = strand[1] /\ 1 \in DOMAIN strand
            /\ \A i \in DOMAIN st : i + 1 \in DOMAIN strand /\ st[i] = strand[i + 1]
            /\ \A j \in DOMAIN strand :
                  j # 1 => j - 1 \in DOMAIN st /\ st[j - 1] = strand[j]
        BY <2>0, <3>1 DEF TypeIn
      <3>3. CASE l.op = "get" /\ LambdaOfGet(l.who, active)
        <4>1. \A y : l # Return(y)
          BY <3>3 DEF Return
        <4>2. FreeIn(pool, strand) = FreeIn(pool, st)
          <5> HIDE DEF l, st
          <5> QED
            BY <3>2, <4>1 DEF FreeIn
        <4>3. /\ l.who \in Client
              /\ PoolInv(pool, requestQueue, st, held, NoConn)
              /\ NoRequest(l.who, requestQueue, st, held)
          BY <3>1, <3>3, TakeFromStrand
        <4> HIDE DEF l, st
        <4> QED
          BY <3>1, <3>3, <4>2, <4>3, GetRefines
      <3>4. CASE l.op = "return" /\ LambdaOfReturn(l.conn, "caller", active, held)
        <4> DEFINE x == l.conn
        <4>1. x \in Conn /\ PoolInv(pool, requestQueue, st, held, x)
          BY <3>1, <3>4, TakeFromStrand
        <4>2. l = Return(x)
          <5>1. l \in Lambda
            BY <2>0, <3>1 DEF TypeIn
          <5> HIDE DEF l
          <5> QED
            BY <3>4, <5>1 DEF Lambda, Return
        <4> HIDE DEF l, st, x
        <4>3. FreeIn(pool, strand) = FreeIn(pool, st) \cup {x}
          <5>1. \A y : Return(x) = Return(y) => y = x
            BY DEF Return
          <5>2. ASSUME NEW y \in FreeIn(pool, strand), y # x
                PROVE  y \in FreeIn(pool, st)
            BY <3>2, <4>2, <5>1, <5>2 DEF FreeIn
          <5>3. FreeIn(pool, st) \subseteq FreeIn(pool, strand)
            BY <3>2 DEF FreeIn
          <5>4. x \in FreeIn(pool, strand)
            BY <3>2, <4>1, <4>2 DEF FreeIn
          <5> QED
            BY <5>2, <5>3, <5>4
        <4>4. x \notin FreeIn(pool, st)
          BY <4>1 DEF PoolInv, PlacedIn, FreeIn
        <4>5. CASE requestQueue = <<>>
          <5>1. /\ pool' = Append(pool, x) /\ held' = held
                /\ requestQueue' = requestQueue
            BY <3>4, <4>5 DEF LambdaOfReturn, x
          <5>2. /\ \A i \in DOMAIN pool : i \in DOMAIN pool' /\ pool'[i] = pool[i]
                /\ \A i \in DOMAIN pool' :
                      (i \in DOMAIN pool /\ pool'[i] = pool[i]) \/ pool'[i] = x
                /\ Len(pool) + 1 \in DOMAIN pool' /\ pool'[Len(pool) + 1] = x
            BY <2>0, <5>1 DEF TypeIn
          <5>3. FreeIn(pool', st) = FreeIn(pool, st) \cup {x}
            BY <4>1, <5>2 DEF FreeIn
          <5>4. FreeIn(pool, strand)' = FreeIn(pool, strand)
            BY <3>1, <4>3, <5>3 DEF FreeIn
          <5> QED
            BY <5>1, <5>4 DEF Promise!svars
        <4>6. CASE requestQueue # <<>>
          <5>1. /\ held' = [held EXCEPT ![Head(requestQueue)] = x]
                /\ pool' = pool /\ requestQueue' = Tail(requestQueue)
            BY <3>4, <4>6 DEF LambdaOfReturn, Call, x
          <5>2. FreeIn(pool, strand)' = FreeIn(pool, strand) \ {x}
            <6>1. FreeIn(pool, strand)' = FreeIn(pool, st)
              BY <3>1, <5>1 DEF FreeIn
            <6> QED
              BY <4>3, <4>4, <6>1
          <5>3. Promise!LendToFirst(x)
            BY <4>3, <4>6, <5>1, <5>2 DEF Promise!LendToFirst
          <5> QED
            BY <4>1, <5>3 DEF Promise!SpecNext
        <4> QED
          BY <4>5, <4>6
      <3> QED
        BY <2>3, <3>3, <3>4 DEF RunStrand
    <2>4. ASSUME HandlerReturns PROVE UNCHANGED Promise!svars
      BY <2>4 DEF HandlerReturns, Promise!svars, FreeIn
    <2>5. ASSUME HandlerThrows PROVE Promise!SpecNext \/ UNCHANGED Promise!svars
      <3>1. Top.who \in Client
        BY <2>0, <2>5, PoppedFrames DEF HandlerThrows
      <3>2. CASE UNCHANGED <<pool, requestQueue, strand, held>>
        BY <3>2 DEF Promise!svars, FreeIn
      <3>3. CASE /\ held[Top.who] # NoConn /\ strand' = strand
                 /\ LambdaOfReturn(held[Top.who], "deleter", Popped, Without(Top.who))
        BY <3>1, <3>3, ReleaseRefines
      <3> QED
        BY <2>5, <3>2, <3>3 DEF HandlerThrows
    <2>6. CASE UNCHANGED vars
      BY <2>6 DEF vars, Promise!svars, FreeIn
    <2> QED
      BY <2>1, <2>2, <2>3, <2>4, <2>5, <2>6 DEF Next, Terminated
  <1> QED
    BY <1>1, <1>2, Invariance, PTL DEF Spec, PromiseKept, Promise!Spec

=============================================================================
