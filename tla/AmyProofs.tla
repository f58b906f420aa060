----------------------------- MODULE AmyProofs -----------------------------
(***************************************************************************)
(* Proofs about amy.                                                       *)
(*                                                                         *)
(* The service (AmyService), for any connectors and any number of          *)
(* operations: whose handle a blocking call is made on, which query a      *)
(* store is answered from, and that no handler is left behind.             *)
(*                                                                         *)
(* The blocking calls (AmyResults), for queries of any number of           *)
(* statements, any failures and a connection lost at any call.  InOrder    *)
(* and NoneMissed speak of what was delivered so far.  They are not        *)
(* inductive: which result store_result returns next depends on the        *)
(* library's current result and on first_result_stored, so Delivered says  *)
(* how many results were delivered relative to both, as long as no call    *)
(* failed.                                                                 *)
(* UnaskedNotKept needs Scope: a write is kept without a commit only under *)
(* autocommit, which is off in a scope until its destructor has rolled     *)
(* back, or a scope inside it has ended.  A rollback that fails for any    *)
(* other reason than the server's refusal leaves a connection on which the *)
(* destructor's autocommit(true) fails too.                                *)
(***************************************************************************)
EXTENDS AmyService, AmyResults, FiniteSetTheorems, TLAPS

-----------------------------------------------------------------------------
(* The service *)

\* What a queue holds, that it holds nothing twice, and that its numbers rise.
Holds(q, i) == \E k \in DOMAIN q : q[k] = i
Distinct(q) == \A k, l \in DOMAIN q : q[k] = q[l] => k = l
Ordered(q) == \A k, l \in DOMAIN q : k < l => q[k] < q[l]

\* Where an operation is: waiting for the worker, with the worker, or
\* completed and waiting for the client.
Queued(i) == Holds(queue, i)
UnderWay(i) == Queued(i) \/ i \in running
Completed(i) == Holds(posted, i)

\* o's connector exists, and is in the session o was asked for in, or about to
\* leave it.
Ours(im, o) ==
    /\ im[o.conn].alive
    /\ im[o.conn].closing = "no" => im[o.conn].initialized /\ ~o.stale

\* An operation that waits for the worker and was not cancelled is its
\* connector's; without a race no call is made on a handle that is being
\* closed.
SessionInv ==
    fault = "none" =>
       /\ \A k \in DOMAIN queue : ~ops[queue[k]].expired => Ours(impl, ops[queue[k]])
       /\ \A i \in running : impl[ops[i].conn].closing = "no"

\* An operation is in one place at a time, and its handler was called exactly
\* if it is in none; shutdown alone forgets operations.
PlaceInv ==
    /\ client = "running" => work = "up"
    /\ client = "returned" => queue = <<>> /\ running = {} /\ posted = <<>>
    /\ \A i \in DOMAIN ops : Completed(i) => ~UnderWay(i)
    /\ \A i \in DOMAIN ops : Queued(i) => i \notin running
    /\ Distinct(queue) /\ Distinct(posted)
    /\ \A i \in DOMAIN ops : UnderWay(i) \/ Completed(i) => ops[i].calls = 0
    /\ \A i \in DOMAIN ops :
          (work = "up" \/ client = "returned") /\ ~UnderWay(i) /\ ~Completed(i)
             => ops[i].calls = 1

\* The operations the worker has made its call for, connects aside.
Served(i) == ops[i].kind # "connect" /\ ops[i].ec \in {"ok", "error"}

\* There is one worker: it serves the operations in the order they were asked
\* for.
OrderInv ==
    /\ threads \in {0, 1}
    /\ IsFiniteSet(running)
    /\ running # {} => work = "up"
    /\ \A i, j \in running : i = j
    /\ \A i \in running, j \in DOMAIN ops : Queued(j) => i < j
    /\ Ordered(queue)
    /\ \A i \in DOMAIN ops : UnderWay(i) => ops[i].ec = "pending"
    /\ \A i \in DOMAIN ops : work = "up" /\ ops[i].ec = "pending" => UnderWay(i)
    /\ \A i, j \in DOMAIN ops : Served(i) /\ UnderWay(j) => i < j

\* The queries of c's session the worker has answered with one of the codes.
QueriesOf(c, codes) ==
    {j \in DOMAIN ops : /\ IsQuery(ops[j]) /\ ops[j].conn = c
                        /\ ~ops[j].stale /\ ops[j].ec \in codes}

\* m is the last number in S, 0 if there is none.
IsLast(m, S) == IF S = {} THEN m = 0 ELSE m \in S /\ \A k \in S : k <= m

\* of names the last of the queries Q, those answered, or, when it failed,
\* nothing or the last of G, those that succeeded.
From(of, Q, G) ==
    \E last \in Q \cup {0}, good \in G \cup {0} :
       /\ IsLast(last, Q) /\ IsLast(good, G)
       /\ IF last = good THEN of = last ELSE of \in {0, good}

\* A handle holds the results of the last query of its session answered, if
\* that one failed those of none or of the last that succeeded.
HandleInv ==
    \A c \in Conns :
       From(impl[c].query, QueriesOf(c, {"ok", "error"}), QueriesOf(c, {"ok"}))

\* The numbers LastQuery looks through.
Earlier(i, codes) ==
    {j \in 1..(i - 1) : /\ IsQuery(ops[j]) /\ ops[j].conn = ops[i].conn
                        /\ ~ops[j].stale /\ ops[j].ec \in codes}

\* A store was answered from what its handle held when every query asked for
\* before it had been answered.
PairInv ==
    \A i \in DOMAIN ops :
       ops[i].kind = "store" /\ ops[i].ec = "ok" /\ ~ops[i].stale =>
          /\ Earlier(i, {"pending"}) = {}
          /\ From(ops[i].of, Earlier(i, {"ok", "error"}), Earlier(i, {"ok"}))

IInv ==
    /\ TypeOK /\ SessionInv /\ OwnSession
    /\ PlaceInv /\ OrderInv /\ HandleInv /\ PairInv

-----------------------------------------------------------------------------
(* What the operators give *)

\* The first and the rest of a sequence.
LEMMA HeadTail ==
    ASSUME NEW S, NEW q \in Seq(S), q # <<>>
    PROVE  /\ Head(q) \in S /\ Tail(q) \in Seq(S)
           /\ 1 \in DOMAIN q /\ Head(q) = q[1]
           /\ \A i \in DOMAIN Tail(q) : i + 1 \in DOMAIN q /\ Tail(q)[i] = q[i + 1]
OBVIOUS

\* The sequences of operation numbers: one more operation, and one taken or
\* added.
LEMMA Numbers ==
    ASSUME NEW n \in Nat, NEW q \in Seq(1..n)
    PROVE  /\ q \in Seq(1..(n + 1))
           /\ Append(q, n + 1) \in Seq(1..(n + 1))
           /\ \A i \in 1..n : Append(q, i) \in Seq(1..n)
           /\ q # <<>> => Tail(q) \in Seq(1..n) /\ Head(q) \in 1..n
<1>1. q \in Seq(1..(n + 1))
  <2>1. q = [k \in 1..Len(q) |-> q[k]] /\ Len(q) \in Nat
    OBVIOUS
  <2>2. \A k \in 1..Len(q) : q[k] \in 1..(n + 1)
    OBVIOUS
  <2> QED
    BY <2>1, <2>2
<1> QED
  BY <1>1

\* What a queue holds after one more is added at the end, or one is taken from
\* the front.
LEMMA Positions ==
    ASSUME NEW S, NEW q \in Seq(S), NEW x \in S
    PROVE  /\ DOMAIN q = 1..Len(q) /\ Len(q) \in Nat
           /\ DOMAIN Append(q, x) = 1..(Len(q) + 1)
           /\ \A k \in DOMAIN q : Append(q, x)[k] = q[k]
           /\ Append(q, x)[Len(q) + 1] = x
           /\ q # <<>> => /\ 1 \in DOMAIN q /\ Head(q) = q[1]
                          /\ DOMAIN Tail(q) = 1..(Len(q) - 1)
                          /\ \A k \in DOMAIN Tail(q) :
                                k + 1 \in DOMAIN q /\ Tail(q)[k] = q[k + 1]
OBVIOUS

\* The same, of a queue that holds nothing twice.
LEMMA Members ==
    ASSUME NEW S, NEW q \in Seq(S), NEW x \in S, Distinct(q)
    PROVE  /\ \A i : Holds(Append(q, x), i) <=> Holds(q, i) \/ i = x
           /\ ~Holds(q, x) => Distinct(Append(q, x))
           /\ q # <<>> => /\ Holds(q, Head(q))
                          /\ \A i : Holds(Tail(q), i) <=> Holds(q, i) /\ i # Head(q)
                          /\ Distinct(Tail(q))
<1>1. ASSUME NEW i
      PROVE  Holds(Append(q, x), i) <=> Holds(q, i) \/ i = x
  BY Positions DEF Holds
<1>2. ASSUME ~Holds(q, x)
      PROVE  Distinct(Append(q, x))
  <2>1. ASSUME NEW k \in 1..(Len(q) + 1), NEW l \in 1..(Len(q) + 1),
               Append(q, x)[k] = Append(q, x)[l]
        PROVE  k = l
    <3>1. CASE k \in DOMAIN q /\ l \in DOMAIN q
      BY <2>1, <3>1, Positions DEF Distinct
    <3>2. CASE ~(k \in DOMAIN q /\ l \in DOMAIN q)
      BY <1>2, <2>1, <3>2, Positions DEF Holds
    <3> QED
      BY <3>1, <3>2
  <2> QED
    BY <2>1, Positions DEF Distinct
<1>3. ASSUME q # <<>>, NEW i
      PROVE  Holds(Tail(q), i) <=> Holds(q, i) /\ i # Head(q)
  <2>1. ASSUME NEW k \in DOMAIN Tail(q), Tail(q)[k] = i
        PROVE  Holds(q, i) /\ i # Head(q)
    <3>1. k + 1 \in DOMAIN q /\ q[k + 1] = i /\ k + 1 # 1 /\ 1 \in DOMAIN q
      BY <1>3, <2>1, Positions
    <3> QED
      BY <1>3, <3>1, Positions DEF Holds, Distinct
  <2>2. ASSUME NEW k \in DOMAIN q, q[k] = i, i # Head(q)
        PROVE  Holds(Tail(q), i)
    <3>1. k # 1 /\ k - 1 \in DOMAIN Tail(q) /\ Tail(q)[k - 1] = i
      BY <1>3, <2>2, Positions
    <3> QED
      BY <3>1 DEF Holds
  <2> QED
    BY <2>1, <2>2 DEF Holds
<1>4. ASSUME q # <<>>
      PROVE  Holds(q, Head(q)) /\ Distinct(Tail(q))
  BY <1>4, Positions DEF Holds, Distinct
<1> QED
  BY <1>1, <1>2, <1>3, <1>4

\* cancel() expires the operations of the connector that wait for the worker,
\* and changes nothing else.
LEMMA CancelEffect ==
    ASSUME TypeOK, NEW c \in Conns
    PROVE  /\ Cancelled(c) \in Seq(Op)
           /\ Len(Cancelled(c)) = Len(ops)
           /\ DOMAIN Cancelled(c) = DOMAIN ops
           /\ \A i \in DOMAIN ops :
                 /\ ~Cancelled(c)[i].expired => ~ops[i].expired
                 /\ ops[i].conn = c /\ Queued(i) => Cancelled(c)[i].expired
                 /\ Cancelled(c)[i].kind = ops[i].kind
                 /\ Cancelled(c)[i].conn = ops[i].conn
                 /\ Cancelled(c)[i].stale = ops[i].stale
                 /\ Cancelled(c)[i].ec = ops[i].ec
                 /\ Cancelled(c)[i].of = ops[i].of
                 /\ Cancelled(c)[i].calls = ops[i].calls
<1>1. ops \in Seq(Op) /\ DOMAIN ops = 1..Len(ops) /\ Len(ops) \in Nat
  BY DEF TypeOK
<1>2. ASSUME NEW i \in DOMAIN ops
      PROVE  /\ Cancelled(c)[i] \in Op
             /\ ~Cancelled(c)[i].expired => ~ops[i].expired
             /\ ops[i].conn = c /\ Queued(i) => Cancelled(c)[i].expired
             /\ Cancelled(c)[i].kind = ops[i].kind
             /\ Cancelled(c)[i].conn = ops[i].conn
             /\ Cancelled(c)[i].stale = ops[i].stale
             /\ Cancelled(c)[i].ec = ops[i].ec
             /\ Cancelled(c)[i].of = ops[i].of
             /\ Cancelled(c)[i].calls = ops[i].calls
  <2>1. ops[i] \in Op
    BY <1>1
  <2>2. CASE ops[i].conn = c /\ Queued(i)
    BY <2>1, <2>2 DEF Cancelled, Queued, Holds, Op
  <2>3. CASE ~(ops[i].conn = c /\ Queued(i))
    <3>1. Cancelled(c)[i] = ops[i]
      BY <2>3 DEF Cancelled, Queued, Holds
    <3> QED
      BY <2>1, <2>3, <3>1
  <2> QED
    BY <2>2, <2>3
<1>3. Cancelled(c) = [i \in 1..Len(ops) |-> Cancelled(c)[i]]
  BY <1>1 DEF Cancelled
<1>4. Cancelled(c) \in Seq(Op) /\ Len(Cancelled(c)) = Len(ops)
  BY <1>1, <1>2, <1>3
<1> QED
  BY <1>1, <1>2, <1>3, <1>4

\* close() marks every operation of the session.
LEMMA CloseEffect ==
    ASSUME TypeOK, NEW c \in Conns
    PROVE  /\ Closed(c) \in Seq(Op)
           /\ Len(Closed(c)) = Len(ops)
           /\ DOMAIN Closed(c) = DOMAIN ops
           /\ \A i \in DOMAIN ops :
                 /\ ops[i].conn # c => Closed(c)[i] = ops[i]
                 /\ ops[i].conn = c => Closed(c)[i].stale
                 /\ Closed(c)[i].kind = ops[i].kind
                 /\ Closed(c)[i].conn = ops[i].conn
                 /\ Closed(c)[i].ec = ops[i].ec
                 /\ Closed(c)[i].calls = ops[i].calls
<1>1. ops \in Seq(Op) /\ DOMAIN ops = 1..Len(ops) /\ Len(ops) \in Nat
  BY DEF TypeOK
<1>2. ASSUME NEW i \in DOMAIN ops
      PROVE  /\ Closed(c)[i] \in Op
             /\ ops[i].conn # c => Closed(c)[i] = ops[i]
             /\ ops[i].conn = c => Closed(c)[i].stale
             /\ Closed(c)[i].kind = ops[i].kind
             /\ Closed(c)[i].conn = ops[i].conn
             /\ Closed(c)[i].ec = ops[i].ec
             /\ Closed(c)[i].calls = ops[i].calls
  <2>1. ops[i] \in Op
    BY <1>1
  <2>2. CASE ops[i].conn # c
    BY <2>1, <2>2 DEF Closed
  <2>3. CASE ops[i].conn = c
    <3>1. Closed(c)[i] = [ops[i] EXCEPT !.stale = TRUE]
      BY <2>3 DEF Closed
    <3> QED
      BY <2>1, <2>3, <3>1 DEF Op
  <2> QED
    BY <2>2, <2>3
<1>3. Closed(c) = [i \in 1..Len(ops) |-> Closed(c)[i]]
  BY <1>1 DEF Closed
<1>4. Closed(c) \in Seq(Op) /\ Len(Closed(c)) = Len(ops)
  BY <1>1, <1>2, <1>3
<1> QED
  BY <1>1, <1>2, <1>3, <1>4

\* What the worker's calls leave in a handle: it stays the connector's own.
LEMMA AnsweredType ==
    ASSUME TypeOK, NEW i \in DOMAIN ops, NEW ec, NEW h \in Impl,
           NEW g \in Answered(i, ec, h)
    PROVE  /\ g \in Impl /\ g.alive = h.alive /\ g.initialized = h.initialized
           /\ g.closing = h.closing
<1>1. i \in Nat /\ ops[i].kind \in Kind
  <2>1. i \in 1..Len(ops) /\ ops[i] \in Op
    BY DEF TypeOK
  <2> QED
    BY <2>1 DEF Op
<1>2. CASE ops[i].kind = "connect"
  BY <1>2 DEF Answered, connect_handler
<1>3. CASE ops[i].kind = "query"
  <2>1. g \in query_handler(i, ec, h)
    BY <1>3 DEF Answered
  <2> DEFINE k == [h EXCEPT !.first = FALSE]
  <2>2. /\ k \in Impl /\ k.alive = h.alive /\ k.initialized = h.initialized
        /\ k.closing = h.closing
    BY DEF Impl
  <2>3. CASE ec = "ok" /\ ~h.unread
    <3>1. g \in {[k EXCEPT !.query = i, !.unread = u] : u \in BOOLEAN}
      BY <2>1, <2>3, Zenon DEF query_handler
    <3> HIDE DEF k
    <3>2. PICK u \in BOOLEAN : g = [k EXCEPT !.query = i, !.unread = u]
      BY <3>1, Zenon
    <3> QED
      BY <1>1, <2>2, <3>2 DEF Impl
  <2>4. CASE ec = "error"
    <3>1. g = k \/ g = [k EXCEPT !.query = 0]
      BY <2>1, <2>4 DEF query_handler
    <3> HIDE DEF k
    <3> QED
      BY <2>2, <3>1 DEF Impl
  <2>5. CASE ~(ec = "ok" /\ ~h.unread) /\ ec # "error"
    BY <2>1, <2>5, Zenon DEF query_handler
  <2> QED
    BY <2>3, <2>4, <2>5
<1>4. CASE ops[i].kind = "store"
  <2>1. g \in store_result_handler(ec, h)
    BY <1>4 DEF Answered
  <2>2. g = h \/ \E u \in {h.unread, FALSE} : g = [h EXCEPT !.first = TRUE, !.unread = u]
    BY <2>1 DEF store_result_handler
  <2> QED
    BY <2>2 DEF Impl
<1> QED
  BY <1>1, <1>2, <1>3, <1>4 DEF Kind

\* What a call can end with.
LEMMA AnswerCodes ==
    ASSUME NEW i, NEW ec, NEW h, Answered(i, ec, h) # {}, ops[i].kind \in Kind
    PROVE  /\ ec \in {"ok", "error", "empty"}
           /\ ops[i].kind = "query" => ec \in {"ok", "error"}
<1>1. CASE ops[i].kind = "connect"
  BY <1>1 DEF Answered, connect_handler
<1>2. CASE ops[i].kind = "query"
  <2>1. query_handler(i, ec, h) # {}
    BY <1>2 DEF Answered
  <2> QED
    BY <1>2, <2>1, Zenon DEF query_handler
<1>3. CASE ops[i].kind = "store"
  <2>1. store_result_handler(ec, h) # {}
    BY <1>3 DEF Answered
  <2>2. ec \in {"ok", "error", "empty"}
    BY <2>1, Zenon DEF store_result_handler
  <2> QED
    BY <1>3, <2>2
<1> QED
  BY <1>1, <1>2, <1>3 DEF Kind

\* An operation just asked for.
LEMMA NewOpType ==
    ASSUME NEW kind \in Kind, NEW c \in Conns, NEW ec \in Code
    PROVE  NewOp(kind, c, ec) \in Op
BY DEF NewOp, Op

\* Asking for one more operation leaves the others as they are.
LEMMA AppendEffect ==
    ASSUME TypeOK, NEW o \in Op
    PROVE  /\ Append(ops, o) \in Seq(Op)
           /\ Len(Append(ops, o)) = Len(ops) + 1
           /\ DOMAIN ops = 1..Len(ops) /\ Len(ops) \in Nat
           /\ DOMAIN Append(ops, o) = 1..(Len(ops) + 1)
           /\ \A i \in DOMAIN ops : Append(ops, o)[i] = ops[i]
           /\ Append(ops, o)[Len(ops) + 1] = o
<1>1. ops \in Seq(Op)
  BY DEF TypeOK
<1> QED
  BY <1>1

\* Changing one operation leaves the others as they are.
LEMMA UpdateEffect ==
    ASSUME TypeOK, NEW i \in DOMAIN ops, NEW o \in Op
    PROVE  /\ [ops EXCEPT ![i] = o] \in Seq(Op)
           /\ Len([ops EXCEPT ![i] = o]) = Len(ops)
           /\ DOMAIN [ops EXCEPT ![i] = o] = DOMAIN ops
           /\ [ops EXCEPT ![i] = o][i] = o
           /\ \A j \in DOMAIN ops : j # i => [ops EXCEPT ![i] = o][j] = ops[j]
<1>1. ops \in Seq(Op)
  BY DEF TypeOK
<1> QED
  BY <1>1

\* The operation with a number, and its connector's handle.
LEMMA OpType ==
    ASSUME TypeOK, NEW i \in 1..Len(ops)
    PROVE  /\ i \in DOMAIN ops /\ i \in Nat /\ ops[i] \in Op
           /\ ops[i].kind \in Kind /\ ops[i].conn \in Conns /\ ops[i].calls \in Nat
           /\ ops[i].ec \in Code
           /\ impl[ops[i].conn] \in Impl /\ impl[ops[i].conn].query \in Nat
<1>1. ops \in Seq(Op) /\ impl \in [Conns -> Impl]
  BY DEF TypeOK
<1>2. i \in DOMAIN ops /\ ops[i] \in Op
  BY <1>1
<1>3. /\ ops[i].kind \in Kind /\ ops[i].conn \in Conns /\ ops[i].calls \in Nat
      /\ ops[i].ec \in Code
  BY <1>2 DEF Op
<1>4. impl[ops[i].conn] \in Impl
  BY <1>1, <1>3
<1>5. impl[ops[i].conn].query \in Nat
  BY <1>4 DEF Impl
<1> QED
  BY <1>2, <1>3, <1>4, <1>5

-----------------------------------------------------------------------------
(* Types *)

\* Every step keeps the types.
LEMMA TypeStep ==
    ASSUME TypeOK, [Next]_vars
    PROVE  TypeOK'
<1>0. /\ impl \in [Conns -> Impl] /\ ops \in Seq(Op) /\ Len(ops) \in Nat
      /\ DOMAIN ops = 1..Len(ops)
      /\ queue \in Seq(1..Len(ops)) /\ posted \in Seq(1..Len(ops))
      /\ running \in SUBSET (1..Len(ops)) /\ threads \in Nat
  BY DEF TypeOK
<1>1. ASSUME NEW c \in Conns, Open(c)
      PROVE  TypeOK'
  <2>1. impl' \in [Conns -> Impl]
    BY <1>0, <1>1 DEF Open, Impl
  <2> QED
    BY <1>1, <2>1 DEF Open, TypeOK
<1>2. ASSUME NEW c \in Conns, Cancel(c)
      PROVE  TypeOK'
  BY <1>2, CancelEffect DEF Cancel, TypeOK
<1>3. ASSUME NEW c \in Conns, NEW how \in {"close", "destroy"}, CloseHandle(c, how)
      PROVE  TypeOK'
  <2>1. impl' \in [Conns -> Impl]
    <3>1. impl[c] \in Impl
      BY <1>0
    <3>2. [impl[c] EXCEPT !.initialized = FALSE, !.closing = how, !.query = 0,
                          !.unread = FALSE] \in Impl
      BY <3>1 DEF Impl
    <3>3. impl' = [impl EXCEPT ![c] = [impl[c] EXCEPT !.initialized = FALSE,
                                 !.closing = how, !.query = 0, !.unread = FALSE]]
      BY <1>0, <1>3 DEF CloseHandle
    <3> QED
      BY <1>0, <3>2, <3>3
  <2>2. ops' \in Seq(Op) /\ Len(ops') = Len(ops)
    BY <1>3, CloseEffect DEF CloseHandle
  <2>3. fault' \in Fault
    BY <1>3 DEF CloseHandle, TypeOK, Fault
  <2> QED
    BY <1>3, <2>1, <2>2, <2>3 DEF CloseHandle, TypeOK
<1>4. ASSUME NEW kind \in Kind, NEW c \in Conns, PostToWorker(kind, c),
             impl' \in [Conns -> Impl]
      PROVE  TypeOK'
  <2>1. NewOp(kind, c, "pending") \in Op
    BY NewOpType DEF Code
  <2>2. ops' \in Seq(Op) /\ Len(ops') = Len(ops) + 1
    BY <1>4, <2>1, AppendEffect DEF PostToWorker
  <2>3. threads' \in Nat
    BY <1>0, <1>4 DEF PostToWorker, start_work_thread
  <2>4. queue' \in Seq(1..(Len(ops) + 1)) /\ posted' \in Seq(1..(Len(ops) + 1))
    BY <1>0, <1>4, Numbers DEF PostToWorker
  <2> QED
    BY <1>0, <1>4, <2>2, <2>3, <2>4 DEF PostToWorker, TypeOK
<1>5. ASSUME NEW kind \in Kind, NEW c \in Conns, NEW ec \in Code,
             PostAtOnce(kind, c, ec)
      PROVE  TypeOK'
  <2>2. ops' \in Seq(Op) /\ Len(ops') = Len(ops) + 1
    BY <1>5, NewOpType, AppendEffect DEF PostAtOnce
  <2>4. queue' \in Seq(1..(Len(ops) + 1)) /\ posted' \in Seq(1..(Len(ops) + 1))
    BY <1>0, <1>5, Numbers DEF PostAtOnce
  <2> QED
    BY <1>0, <1>5, <2>2, <2>4 DEF PostAtOnce, TypeOK
<1>6. CASE WorkerBegins
  <2>1. Head(queue) \in 1..Len(ops) /\ queue' \in Seq(1..Len(ops))
    BY <1>0, <1>6, Numbers DEF WorkerBegins
  <2>2. CASE ops[Head(queue)].expired /\ posted' = Append(posted, Head(queue))
             /\ ops' = [ops EXCEPT ![Head(queue)].ec = "aborted"]
             /\ UNCHANGED <<running, fault>>
    <3>0. [ops[Head(queue)] EXCEPT !.ec = "aborted"] \in Op
      <4>1. ops[Head(queue)] \in Op
        BY <2>1, OpType
      <4> QED
        BY <4>1 DEF Op, Code
    <3>1. ops' \in Seq(Op) /\ Len(ops') = Len(ops)
      <4>1. ops' = [ops EXCEPT ![Head(queue)] = [ops[Head(queue)] EXCEPT !.ec = "aborted"]]
        BY <2>2
      <4> QED
        BY <1>0, <2>1, <3>0, <4>1, UpdateEffect
    <3>2. posted' \in Seq(1..Len(ops))
      BY <1>0, <2>1, <2>2, Numbers
    <3> QED
      BY <1>6, <2>1, <2>2, <3>1, <3>2 DEF WorkerBegins, TypeOK
  <2>3. CASE running' = running \cup {Head(queue)} /\ UNCHANGED <<ops, posted>>
    BY <1>6, <2>1, <2>3 DEF WorkerBegins, TypeOK, Fault
  <2> QED
    BY <1>6, <2>2, <2>3 DEF WorkerBegins
<1>7. ASSUME NEW i \in running, NEW ec \in Code, WorkerEnds(i, ec)
      PROVE  TypeOK'
  <2>1. i \in 1..Len(ops) /\ i \in DOMAIN ops /\ ops[i] \in Op
        /\ ops[i].conn \in Conns /\ impl[ops[i].conn] \in Impl
        /\ impl[ops[i].conn].query \in Nat
    BY <1>0, OpType
  <2>2. PICK h \in Answered(i, ec, impl[ops[i].conn]) :
           impl' = [impl EXCEPT ![ops[i].conn] = h]
    BY <1>7 DEF WorkerEnds
  <2>3. h \in Impl
    BY <2>1, AnsweredType
  <2>4. impl' \in [Conns -> Impl]
    BY <1>0, <2>2, <2>3
  <2>5. ops' \in Seq(Op) /\ Len(ops') = Len(ops)
    <3> DEFINE m == IF ops[i].kind = "store" /\ ec = "ok" THEN impl[ops[i].conn].query
                                                          ELSE 0
    <3>0. m \in Nat /\ ops' = [ops EXCEPT ![i].ec = ec, ![i].of = m]
      BY <1>7, <2>1 DEF WorkerEnds
    <3> HIDE DEF m
    <3>1. PICK n \in Nat : ops' = [ops EXCEPT ![i].ec = ec, ![i].of = n]
      BY <3>0
    <3>2. ops' = [ops EXCEPT ![i] = [ops[i] EXCEPT !.ec = ec, !.of = n]]
      BY <1>0, <2>1, <3>1
    <3>3. [ops[i] EXCEPT !.ec = ec, !.of = n] \in Op
      BY <2>1 DEF Op
    <3> QED
      BY <2>1, <3>2, <3>3, UpdateEffect
  <2>6. posted' \in Seq(1..Len(ops))
    BY <1>0, <1>7, <2>1, Numbers DEF WorkerEnds
  <2> QED
    BY <1>7, <2>4, <2>5, <2>6 DEF WorkerEnds, TypeOK
<1>8. CASE CallHandler
  <2>1. Head(posted) \in 1..Len(ops) /\ posted' \in Seq(1..Len(ops))
    BY <1>0, <1>8, Numbers DEF CallHandler
  <2>2. ops' \in Seq(Op) /\ Len(ops') = Len(ops)
    <3>1. ops[Head(posted)] \in Op /\ ops[Head(posted)].calls + 1 \in Nat
      BY <2>1, OpType
    <3>2. [ops[Head(posted)] EXCEPT !.calls = @ + 1] \in Op
      BY <3>1 DEF Op
    <3> QED
      BY <1>0, <1>8, <2>1, <3>2, UpdateEffect DEF CallHandler
  <2> QED
    BY <1>8, <2>1, <2>2 DEF CallHandler, TypeOK
<1>9. CASE ClientReturns \/ ClientStops
  BY <1>9 DEF ClientReturns, ClientStops, TypeOK
<1>10. CASE Shutdown
  <2>1. <<>> \in Seq(1..Len(ops))
    OBVIOUS
  <2> QED
    BY <1>10, <2>1 DEF Shutdown, TypeOK
<1>11. CASE UNCHANGED vars
  BY <1>11 DEF vars, TypeOK
<1>12. ASSUME NEW c \in Conns, AsyncConnect(c)
       PROVE  TypeOK'
  <2>1. [impl EXCEPT ![c].initialized = TRUE] \in [Conns -> Impl]
    BY <1>0 DEF Impl
  <2> QED
    BY <1>4, <1>5, <1>12, <2>1 DEF AsyncConnect, async_connect, Kind, Code
<1>13. ASSUME NEW c \in Conns, AsyncQuery(c) \/ AsyncStoreResult(c)
       PROVE  TypeOK'
  BY <1>0, <1>4, <1>5, <1>13
     DEF AsyncQuery, async_query, AsyncStoreResult, async_store_result, Kind, Code
<1>14. ASSUME NEW c \in Conns, Close(c) \/ Destroy(c)
       PROVE  TypeOK'
  BY <1>3, <1>14 DEF Close, Destroy
<1>15. ASSUME NEW c \in Conns, CloseReturns(c)
       PROVE  TypeOK'
  <2>1. PICK b \in BOOLEAN :
           impl' = [impl EXCEPT ![c] = [impl[c] EXCEPT !.closing = "no", !.first = FALSE,
                                                       !.alive = b]]
    BY <1>15, Zenon DEF CloseReturns
  <2>2. impl[c] \in Impl
    BY <1>0
  <2>3. [impl[c] EXCEPT !.closing = "no", !.first = FALSE, !.alive = b] \in Impl
    BY <2>2 DEF Impl
  <2>4. impl' \in [Conns -> Impl]
    BY <1>0, <2>1, <2>3
  <2> QED
    BY <1>15, <2>4, CancelEffect DEF CloseReturns, TypeOK
<1> QED
  BY <1>1, <1>2, <1>6, <1>7, <1>8, <1>9, <1>10, <1>11, <1>12, <1>13, <1>14, <1>15
     DEF Next, Worker, Over

-----------------------------------------------------------------------------
(* Sessions: whose handle a call is made on *)

\* No step lets an operation of a closed session reach the worker.
LEMMA SessionStep ==
    ASSUME TypeOK, SessionInv, OwnSession, [Next]_vars
    PROVE  SessionInv' /\ OwnSession'
<1>0. /\ impl \in [Conns -> Impl] /\ ops \in Seq(Op) /\ Len(ops) \in Nat
      /\ DOMAIN ops = 1..Len(ops)
      /\ queue \in Seq(1..Len(ops)) /\ posted \in Seq(1..Len(ops))
      /\ running \in SUBSET (1..Len(ops))
  BY DEF TypeOK
<1>a. /\ fault = "none" =>
            /\ \A k \in DOMAIN queue :
                  ~ops[queue[k]].expired => Ours(impl, ops[queue[k]])
            /\ \A i \in running : impl[ops[i].conn].closing = "no"
      /\ \A i \in running : Ours(impl, ops[i])
  BY DEF SessionInv, OwnSession, Ours
<1>b. \A k \in DOMAIN queue : queue[k] \in DOMAIN ops /\ Queued(queue[k])
  BY <1>0 DEF Queued, Holds
<1> DEFINE Goal == /\ fault' = "none" =>
                         /\ \A k \in DOMAIN queue' :
                               ~ops'[queue'[k]].expired => Ours(impl', ops'[queue'[k]])
                         /\ \A i \in running' : impl'[ops'[i].conn].closing = "no"
                   /\ \A i \in running' : Ours(impl', ops'[i])
<1> SUFFICES Goal
  BY DEF SessionInv, OwnSession, Ours
\* Steps that close no handle and give the worker nothing new.
<1>f. ASSUME fault = "none",
             \A c \in Conns : /\ impl[c].alive => impl'[c].alive
                              /\ impl'[c].closing = impl[c].closing
                              /\ impl[c].initialized => impl'[c].initialized,
             \A i \in DOMAIN ops : /\ ops'[i].conn = ops[i].conn
                                   /\ ops'[i].stale = ops[i].stale
                                   /\ ~ops'[i].expired => ~ops[i].expired,
             \A k \in DOMAIN queue' : \E l \in DOMAIN queue : queue'[k] = queue[l],
             running' \subseteq running
      PROVE  Goal
  <2>1. ASSUME NEW i \in DOMAIN ops, Ours(impl, ops[i])
        PROVE  Ours(impl', ops'[i])
    <3>1. ops[i].conn \in Conns
      BY <1>0, OpType
    <3> QED
      BY <1>f, <2>1, <3>1 DEF Ours
  <2>2. ASSUME NEW k \in DOMAIN queue', ~ops'[queue'[k]].expired
        PROVE  Ours(impl', ops'[queue'[k]])
    <3>1. PICK l \in DOMAIN queue : queue'[k] = queue[l]
      BY <1>f
    <3>2. queue[l] \in DOMAIN ops /\ ~ops[queue[l]].expired
      BY <1>b, <1>f, <2>2, <3>1
    <3> QED
      BY <1>a, <1>f, <2>1, <3>1, <3>2
  <2>3. ASSUME NEW i \in running'
        PROVE  Ours(impl', ops'[i]) /\ impl'[ops'[i].conn].closing = "no"
    <3>1. i \in running /\ i \in DOMAIN ops /\ ops[i].conn \in Conns
      BY <1>0, <1>f, OpType
    <3> QED
      BY <1>a, <1>f, <2>1, <3>1
  <2> QED
    BY <2>2, <2>3
<1> HIDE DEF Goal
<1>1. ASSUME NEW c \in Conns, Open(c)
      PROVE  Goal
  BY <1>0, <1>1, <1>f DEF Open, Usable, Impl
<1>2. ASSUME NEW c \in Conns, Cancel(c)
      PROVE  Goal
  BY <1>2, <1>f, CancelEffect DEF Cancel, Usable
<1>3. ASSUME NEW c \in Conns, NEW how \in {"close", "destroy"}, CloseHandle(c, how),
             fault = "none", impl[c].alive
      PROVE  Goal
  <2>1. /\ \A d \in Conns : d # c => impl'[d] = impl[d]
        /\ impl'[c].alive /\ impl'[c].closing # "no"
        /\ ops' = Closed(c) /\ queue' = queue /\ running' = running
    <3>1. impl[c] \in Impl
      BY <1>0
    <3> QED
      BY <1>0, <1>3, <3>1 DEF CloseHandle, Impl
  <2>2. ASSUME NEW i \in DOMAIN ops, ops[i].conn = c \/ Ours(impl, ops[i])
        PROVE  Ours(impl', ops'[i])
    <3>1. ops[i].conn \in Conns /\ ops'[i].conn = ops[i].conn
      BY <1>0, <2>1, CloseEffect, OpType
    <3>2. CASE ops[i].conn = c
      BY <2>1, <3>1, <3>2 DEF Ours
    <3>3. CASE ops[i].conn # c
      <4>1. ops'[i] = ops[i]
        BY <2>1, <3>3, CloseEffect
      <4> QED
        BY <2>1, <2>2, <3>1, <3>3, <4>1 DEF Ours
    <3> QED
      BY <3>2, <3>3
  <2>3. ASSUME NEW k \in DOMAIN queue, ~ops'[queue[k]].expired
        PROVE  Ours(impl', ops'[queue[k]])
    <3>1. CASE ops[queue[k]].conn # c
      <4>1. ops'[queue[k]] = ops[queue[k]]
        BY <1>b, <2>1, <3>1, CloseEffect
      <4> QED
        BY <1>a, <1>b, <1>3, <2>2, <2>3, <4>1
    <3> QED
      BY <1>b, <2>2, <3>1
  <2>4. \A i \in running : Ours(impl', ops'[i])
    BY <1>0, <1>a, <2>2
  <2>5. ASSUME fault' = "none", NEW i \in running
        PROVE  impl'[ops'[i].conn].closing = "no"
    <3>1. i \in DOMAIN ops /\ ops[i].conn # c /\ ops[i].conn \in Conns
      BY <1>0, <1>3, <2>5, OpType DEF CloseHandle, Busy
    <3>2. ops'[i] = ops[i]
      BY <2>1, <3>1, CloseEffect
    <3> QED
      BY <1>a, <1>3, <2>1, <3>1, <3>2
  <2> QED
    BY <2>1, <2>3, <2>4, <2>5 DEF Goal
<1>4. ASSUME NEW kind \in Kind, NEW c \in Conns, PostToWorker(kind, c), fault = "none",
             impl[c].alive, impl'[c].alive, impl'[c].initialized,
             impl'[c].closing = impl[c].closing,
             \A d \in Conns : d # c => impl'[d] = impl[d]
      PROVE  Goal
  <2>1. NewOp(kind, c, "pending") \in Op
    BY NewOpType DEF Code
  <2>2. /\ \A i \in DOMAIN ops : ops'[i] = ops[i]
        /\ ops'[Len(ops) + 1] = NewOp(kind, c, "pending")
    BY <1>4, <2>1, AppendEffect DEF PostToWorker
  <2>3. ASSUME NEW i \in DOMAIN ops, Ours(impl, ops[i])
        PROVE  Ours(impl', ops'[i])
    <3>1. ops'[i] = ops[i] /\ ops[i].conn \in Conns
      BY <1>0, <2>2, OpType
    <3> QED
      BY <1>4, <2>3, <3>1 DEF Ours
  <2>4. Ours(impl', ops'[Len(ops) + 1])
    BY <1>4, <2>2 DEF Ours, NewOp
  <2>5. ASSUME NEW k \in DOMAIN queue', ~ops'[queue'[k]].expired
        PROVE  Ours(impl', ops'[queue'[k]])
    <3>1. CASE k \in DOMAIN queue
      <4>1. queue'[k] = queue[k] /\ queue[k] \in DOMAIN ops
        BY <1>0, <1>4, <3>1 DEF PostToWorker
      <4> QED
        BY <1>a, <1>4, <2>2, <2>3, <2>5, <3>1, <4>1
    <3>2. CASE k \notin DOMAIN queue
      <4>1. queue'[k] = Len(ops) + 1
        <5>1. queue \in Seq(1..(Len(ops) + 1)) /\ queue' = Append(queue, Len(ops) + 1)
          BY <1>0, <1>4, Numbers DEF PostToWorker
        <5>2. Len(ops) + 1 \in 1..(Len(ops) + 1)
          BY <1>0
        <5>3. k = Len(queue) + 1
          BY <2>5, <3>2, <5>1, <5>2, Positions
        <5> QED
          BY <5>1, <5>2, <5>3, Positions
      <4> QED
        BY <2>4, <4>1
    <3> QED
      BY <3>1, <3>2
  <2>6. ASSUME NEW i \in running'
        PROVE  Ours(impl', ops'[i]) /\ impl'[ops'[i].conn].closing = "no"
    <3>1. i \in running /\ i \in DOMAIN ops /\ ops[i].conn \in Conns
      BY <1>0, <1>4, OpType DEF PostToWorker
    <3>2. impl'[ops[i].conn].closing = impl[ops[i].conn].closing
      BY <1>4, <3>1
    <3> QED
      BY <1>a, <1>4, <2>2, <2>3, <3>1, <3>2
  <2> QED
    BY <2>5, <2>6 DEF Goal
<1>5. ASSUME NEW kind \in Kind, NEW c \in Conns, NEW ec \in Code, fault = "none",
             PostAtOnce(kind, c, ec)
      PROVE  Goal
  <2>1. \A i \in DOMAIN ops : ops'[i] = ops[i]
    BY <1>5, NewOpType, AppendEffect DEF PostAtOnce
  <2> QED
    BY <1>5, <1>f, <2>1 DEF PostAtOnce
<1>6. CASE WorkerBegins
  <2>1. /\ Head(queue) = queue[1] /\ 1 \in DOMAIN queue
        /\ \A k \in DOMAIN queue' : k + 1 \in DOMAIN queue /\ queue'[k] = queue[k + 1]
    <3>1. queue # <<>> /\ queue' = Tail(queue)
      BY <1>6 DEF WorkerBegins
    <3> QED
      BY <1>0, <3>1, HeadTail
  <2>2. queue[1] \in DOMAIN ops
    BY <1>b, <2>1
  <2>3. CASE ops' = [ops EXCEPT ![Head(queue)].ec = "aborted"] /\ UNCHANGED running
    <3>1. [ops[Head(queue)] EXCEPT !.ec = "aborted"] \in Op
      <4>1. ops[Head(queue)] \in Op
        BY <1>0, <2>1, <2>2
      <4> QED
        BY <4>1 DEF Op, Code
    <3>2. \A i \in DOMAIN ops : /\ ops'[i].conn = ops[i].conn
                                /\ ops'[i].stale = ops[i].stale
                                /\ ops'[i].expired = ops[i].expired
      BY <1>0, <2>1, <2>2, <2>3, <3>1
    <3> QED
      BY <1>6, <1>f, <2>1, <2>3, <3>2 DEF WorkerBegins
  <2>4. CASE /\ ~ops[Head(queue)].expired /\ running' = running \cup {Head(queue)}
             /\ fault' = IF impl[ops[Head(queue)].conn].closing # "no" THEN "race" ELSE fault
             /\ UNCHANGED ops
    <3>1. fault = "none" /\ impl' = impl
      BY <1>6 DEF WorkerBegins
    <3> QED
      BY <1>a, <2>1, <2>4, <3>1 DEF Goal
  <2> QED
    BY <1>6, <2>3, <2>4 DEF WorkerBegins
<1>7. ASSUME NEW i \in running, NEW ec \in Code, WorkerEnds(i, ec)
      PROVE  Goal
  <2>1. i \in DOMAIN ops /\ ops[i].conn \in Conns /\ impl[ops[i].conn] \in Impl
    BY <1>0, OpType
  <2>2. PICK h \in Answered(i, ec, impl[ops[i].conn]) :
           impl' = [impl EXCEPT ![ops[i].conn] = h]
    BY <1>7 DEF WorkerEnds
  <2>3. \A c \in Conns : /\ impl'[c].alive = impl[c].alive
                         /\ impl'[c].closing = impl[c].closing
                         /\ impl'[c].initialized = impl[c].initialized
    <3>1. /\ h.alive = impl[ops[i].conn].alive /\ h.closing = impl[ops[i].conn].closing
          /\ h.initialized = impl[ops[i].conn].initialized
      BY <2>1, AnsweredType
    <3> QED
      BY <1>0, <2>1, <2>2, <3>1
  <2>4. PICK n : ops' = [ops EXCEPT ![i].ec = ec, ![i].of = n]
    BY <1>7 DEF WorkerEnds
  <2>5. \A j \in DOMAIN ops : /\ ops'[j].conn = ops[j].conn
                              /\ ops'[j].stale = ops[j].stale
                              /\ ops'[j].expired = ops[j].expired
    <3>1. ops[i] \in Op
      BY <1>0, <2>1
    <3> QED
      BY <1>0, <2>1, <2>4, <3>1 DEF Op
  <2> QED
    BY <1>7, <1>f, <2>3, <2>5 DEF WorkerEnds
<1>8. CASE CallHandler
  <2>1. Head(posted) \in DOMAIN ops
    BY <1>0, <1>8 DEF CallHandler
  <2>2. ops[Head(posted)] \in Op
    BY <1>0, <2>1
  <2>3. \A j \in DOMAIN ops : /\ ops'[j].conn = ops[j].conn
                              /\ ops'[j].stale = ops[j].stale
                              /\ ops'[j].expired = ops[j].expired
    BY <1>0, <1>8, <2>1, <2>2 DEF CallHandler, Op
  <2> QED
    BY <1>8, <1>f, <2>3 DEF CallHandler
<1>9. CASE ClientReturns \/ ClientStops
  BY <1>9, <1>f DEF ClientReturns, ClientStops
<1>10. CASE Shutdown
  BY <1>10, <1>f DEF Shutdown
<1>11. CASE UNCHANGED vars
  BY <1>11, <1>a DEF vars, Goal
<1>12. ASSUME NEW c \in Conns, AsyncConnect(c)
       PROVE  Goal
  <2>1. /\ impl[c] \in Impl
        /\ fault = "none" /\ impl[c].alive
    BY <1>0, <1>12 DEF AsyncConnect, MayAsk, Usable
  <2>2. CASE impl' = [impl EXCEPT ![c].initialized = TRUE] /\ PostToWorker("connect", c)
    <3>1. /\ impl'[c].alive /\ impl'[c].initialized
          /\ impl'[c].closing = impl[c].closing
          /\ \A d \in Conns : d # c => impl'[d] = impl[d]
      BY <1>0, <2>1, <2>2 DEF Impl
    <3> QED
      BY <1>4, <2>1, <2>2, <3>1 DEF Kind
  <2>3. CASE PostAtOnce("connect", c, "error")
    BY <1>5, <2>1, <2>3 DEF Kind, Code
  <2> QED
    BY <1>12, <2>2, <2>3 DEF AsyncConnect, async_connect
<1>13. ASSUME NEW c \in Conns, AsyncQuery(c) \/ AsyncStoreResult(c)
       PROVE  Goal
  <2>1. fault = "none" /\ impl[c].alive
    BY <1>13 DEF AsyncQuery, AsyncStoreResult, MayAsk, Usable
  <2>2. PICK kind \in Kind :
           \/ impl[c].initialized /\ PostToWorker(kind, c) /\ UNCHANGED impl
           \/ PostAtOnce(kind, c, "not_initialized")
    BY <1>13 DEF AsyncQuery, async_query, AsyncStoreResult, async_store_result, Kind
  <2>3. "not_initialized" \in Code
    BY DEF Code
  <2> QED
    BY <1>4, <1>5, <2>1, <2>2, <2>3
<1>14. ASSUME NEW c \in Conns, Close(c) \/ Destroy(c)
       PROVE  Goal
  BY <1>3, <1>14 DEF Close, Destroy, Usable
<1>15. ASSUME NEW c \in Conns, CloseReturns(c)
       PROVE  Goal
  <2>1. /\ fault = "none" /\ impl[c].closing # "no" /\ queue' = queue
        /\ running' = running /\ ops' = Cancelled(c)
        /\ \A d \in Conns : d # c => impl'[d] = impl[d]
    BY <1>0, <1>15 DEF CloseReturns
  <2>2. ASSUME NEW i \in DOMAIN ops, ops[i].conn # c, Ours(impl, ops[i])
        PROVE  Ours(impl', ops'[i])
    <3>1. /\ ops[i].conn \in Conns /\ ops'[i].conn = ops[i].conn
          /\ ops'[i].stale = ops[i].stale
      BY <1>0, <2>1, CancelEffect, OpType
    <3> QED
      BY <2>1, <2>2, <3>1 DEF Ours
  <2>3. ASSUME NEW k \in DOMAIN queue, ~ops'[queue[k]].expired
        PROVE  Ours(impl', ops'[queue[k]])
    <3>1. ops[queue[k]].conn # c /\ ~ops[queue[k]].expired
      BY <1>b, <2>1, <2>3, CancelEffect
    <3> QED
      BY <1>a, <1>b, <2>1, <2>2, <3>1
  <2>4. ASSUME NEW i \in running
        PROVE  Ours(impl', ops'[i]) /\ impl'[ops'[i].conn].closing = "no"
    <3>1. i \in DOMAIN ops /\ ops[i].conn # c /\ ops[i].conn \in Conns
      BY <1>0, <1>a, <2>1, OpType
    <3>2. ops'[i].conn = ops[i].conn
      BY <2>1, <3>1, CancelEffect
    <3> QED
      BY <1>a, <2>1, <2>2, <3>1, <3>2
  <2> QED
    BY <2>1, <2>3, <2>4 DEF Goal
<1> QED
  BY <1>1, <1>2, <1>6, <1>7, <1>8, <1>9, <1>10, <1>11, <1>12, <1>13, <1>14, <1>15
     DEF Next, Worker, Over

-----------------------------------------------------------------------------
(* Places: no handler is called twice, and none is left behind *)

\* Every step moves an operation on to its next place, and shutdown alone
\* forgets one.
LEMMA PlaceStep ==
    ASSUME TypeOK, PlaceInv, [Next]_vars
    PROVE  PlaceInv'
<1>0. /\ ops \in Seq(Op) /\ Len(ops) \in Nat /\ DOMAIN ops = 1..Len(ops)
      /\ queue \in Seq(1..Len(ops)) /\ posted \in Seq(1..Len(ops))
      /\ running \in SUBSET (1..Len(ops))
  BY DEF TypeOK
<1>a. /\ \A i : Queued(i) \/ Completed(i) \/ i \in running => i \in DOMAIN ops
      /\ ~UnderWay(Len(ops) + 1) /\ ~Completed(Len(ops) + 1)
  <2>1. \A i : Queued(i) => i \in DOMAIN ops
    BY <1>0 DEF Queued, Holds
  <2>2. \A i : Completed(i) => i \in DOMAIN ops
    BY <1>0 DEF Completed, Holds
  <2>3. Len(ops) + 1 \notin DOMAIN ops /\ running \subseteq DOMAIN ops
    BY <1>0
  <2> QED
    BY <2>1, <2>2, <2>3 DEF UnderWay
<1>b. Distinct(queue) /\ Distinct(posted)
  BY DEF PlaceInv
\* Steps that move nothing.
<1>f. ASSUME DOMAIN ops' = DOMAIN ops,
             \A i \in DOMAIN ops : ops'[i].calls = ops[i].calls,
             UNCHANGED <<queue, running, posted, client, work>>
      PROVE  PlaceInv'
  BY <1>f DEF PlaceInv, UnderWay, Queued, Completed
<1>1. ASSUME NEW c \in Conns, Open(c)
      PROVE  PlaceInv'
  BY <1>1, <1>f DEF Open
<1>2. ASSUME NEW c \in Conns, Cancel(c)
      PROVE  PlaceInv'
  BY <1>2, <1>f, CancelEffect DEF Cancel
<1>3. ASSUME NEW c \in Conns, Close(c) \/ Destroy(c) \/ CloseReturns(c)
      PROVE  PlaceInv'
  <2>1. ops' = Cancelled(c) \/ ops' = Closed(c)
    BY <1>3 DEF Close, Destroy, CloseHandle, CloseReturns
  <2>2. DOMAIN ops' = DOMAIN ops /\ \A i \in DOMAIN ops : ops'[i].calls = ops[i].calls
    BY <2>1, CloseEffect, CancelEffect
  <2> QED
    BY <1>3, <1>f, <2>2 DEF Close, Destroy, CloseHandle, CloseReturns
<1>4. ASSUME NEW kind \in Kind, NEW c \in Conns, PostToWorker(kind, c), client = "running"
      PROVE  PlaceInv'
  <2>1. NewOp(kind, c, "pending") \in Op
    BY NewOpType DEF Code
  <2>2. /\ DOMAIN ops' = 1..(Len(ops) + 1)
        /\ \A i \in DOMAIN ops : ops'[i] = ops[i]
        /\ ops'[Len(ops) + 1] = NewOp(kind, c, "pending")
    BY <1>4, <2>1, AppendEffect DEF PostToWorker
  <2>3. queue \in Seq(1..(Len(ops) + 1)) /\ Len(ops) + 1 \in 1..(Len(ops) + 1)
    BY <1>0, Numbers
  <2>4. /\ \A i : Queued(i)' <=> Queued(i) \/ i = Len(ops) + 1
        /\ Distinct(queue')
    BY <1>a, <1>b, <1>4, <2>3, Members DEF PostToWorker, Queued, UnderWay
  <2>5. ops'[Len(ops) + 1].calls = 0
    BY <2>2 DEF NewOp
  <2>6. /\ running' = running /\ posted' = posted /\ client' = client /\ work' = work
    BY <1>4 DEF PostToWorker
  <2>7. \A i : Completed(i)' <=> Completed(i)
    BY <2>6 DEF Completed
  <2>8. \A i \in DOMAIN ops' : i \in DOMAIN ops \/ i = Len(ops) + 1
    BY <1>0, <2>2
  <2>9. Distinct(queue') /\ Distinct(posted')
    BY <1>b, <2>4, <2>6
  <2> QED
    BY <1>a, <1>4, <2>2, <2>4, <2>5, <2>6, <2>7, <2>8, <2>9 DEF PlaceInv, UnderWay
<1>5. ASSUME NEW kind \in Kind, NEW c \in Conns, NEW ec \in Code,
             PostAtOnce(kind, c, ec), client = "running"
      PROVE  PlaceInv'
  <2>1. NewOp(kind, c, ec) \in Op
    BY NewOpType
  <2>2. /\ DOMAIN ops' = 1..(Len(ops) + 1)
        /\ \A i \in DOMAIN ops : ops'[i] = ops[i]
        /\ ops'[Len(ops) + 1] = NewOp(kind, c, ec)
    BY <1>5, <2>1, AppendEffect DEF PostAtOnce
  <2>3. posted \in Seq(1..(Len(ops) + 1)) /\ Len(ops) + 1 \in 1..(Len(ops) + 1)
    BY <1>0, Numbers
  <2>4. /\ \A i : Completed(i)' <=> Completed(i) \/ i = Len(ops) + 1
        /\ Distinct(posted')
    BY <1>a, <1>b, <1>5, <2>3, Members DEF PostAtOnce, Completed
  <2>5. ops'[Len(ops) + 1].calls = 0
    BY <2>2 DEF NewOp
  <2>6. /\ running' = running /\ queue' = queue /\ client' = client /\ work' = work
    BY <1>5 DEF PostAtOnce
  <2>7. Distinct(queue') /\ \A i : Queued(i)' <=> Queued(i)
    BY <1>b, <2>6 DEF Queued
  <2>8. \A i \in DOMAIN ops' : i \in DOMAIN ops \/ i = Len(ops) + 1
    BY <1>0, <2>2
  <2> QED
    BY <1>a, <1>5, <2>2, <2>4, <2>5, <2>6, <2>7, <2>8 DEF PlaceInv, UnderWay
<1>6. CASE WorkerBegins
  <2> DEFINE h == Head(queue)
  <2>1. /\ h \in 1..Len(ops) /\ Queued(h)
        /\ \A i : Queued(i)' <=> Queued(i) /\ i # h
        /\ Distinct(queue')
    <3>1. queue # <<>> /\ queue' = Tail(queue)
      BY <1>6 DEF WorkerBegins
    <3>2. h \in 1..Len(ops)
      BY <1>0, <3>1, Numbers
    <3> QED
      BY <1>0, <1>b, <3>1, <3>2, Members DEF Queued
  <2>2. client' = client /\ work' = work /\ client # "returned"
    BY <1>6 DEF WorkerBegins, PlaceInv
  <2>3. /\ ~Completed(h) /\ h \notin running
    BY <1>0, <2>1 DEF PlaceInv, UnderWay
  <2> HIDE DEF h
  <2>4. CASE /\ ops' = [ops EXCEPT ![h].ec = "aborted"]
             /\ posted' = Append(posted, h)
             /\ UNCHANGED running
    <3>1. DOMAIN ops' = DOMAIN ops /\ \A i \in DOMAIN ops : ops'[i].calls = ops[i].calls
      BY <1>0, <2>1, <2>4
    <3>2. /\ \A i : Completed(i)' <=> Completed(i) \/ i = h
          /\ Distinct(posted')
      BY <1>0, <1>b, <2>1, <2>3, <2>4, Members DEF Completed
    <3> QED
      BY <2>1, <2>2, <2>3, <2>4, <3>1, <3>2 DEF PlaceInv, UnderWay
  <2>5. CASE running' = running \cup {h} /\ UNCHANGED <<ops, posted>>
    <3>1. \A i : Completed(i)' <=> Completed(i)
      BY <2>5 DEF Completed
    <3> QED
      BY <2>1, <2>2, <2>3, <2>5, <3>1 DEF PlaceInv, UnderWay
  <2> QED
    BY <1>6, <2>4, <2>5 DEF WorkerBegins, h
<1>7. ASSUME NEW i \in running, NEW ec \in Code, WorkerEnds(i, ec)
      PROVE  PlaceInv'
  <2>1. i \in DOMAIN ops /\ ~Queued(i) /\ ~Completed(i) /\ client # "returned"
    BY <1>0, <1>a DEF PlaceInv, UnderWay
  <2>2. PICK n : ops' = [ops EXCEPT ![i].ec = ec, ![i].of = n]
    BY <1>7 DEF WorkerEnds
  <2>3. DOMAIN ops' = DOMAIN ops /\ \A j \in DOMAIN ops : ops'[j].calls = ops[j].calls
    <3>1. ops[i] \in Op
      BY <1>0, <2>1
    <3> QED
      BY <1>0, <2>1, <2>2, <3>1 DEF Op
  <2>4. /\ running' = running \ {i} /\ posted' = Append(posted, i)
        /\ queue' = queue /\ client' = client /\ work' = work
    BY <1>7 DEF WorkerEnds
  <2>5. /\ \A j : Completed(j)' <=> Completed(j) \/ j = i
        /\ Distinct(posted')
    BY <1>0, <1>b, <2>1, <2>4, Members DEF Completed
  <2>6. \A j : Queued(j)' <=> Queued(j)
    BY <2>4 DEF Queued
  <2> QED
    BY <2>1, <2>3, <2>4, <2>5, <2>6 DEF PlaceInv, UnderWay
<1>8. CASE CallHandler
  <2> DEFINE h == Head(posted)
  <2>1. /\ h \in DOMAIN ops /\ Completed(h)
        /\ \A i : Completed(i)' <=> Completed(i) /\ i # h
        /\ Distinct(posted')
    <3>1. posted # <<>> /\ posted' = Tail(posted)
      BY <1>8 DEF CallHandler
    <3>2. h \in 1..Len(ops)
      BY <1>0, <3>1, Numbers
    <3> QED
      BY <1>0, <1>b, <3>1, <3>2, Members DEF Completed
  <2>2. ops[h].calls = 0 /\ ~UnderWay(h)
    BY <2>1 DEF PlaceInv
  <2>3. /\ DOMAIN ops' = DOMAIN ops
        /\ \A i \in DOMAIN ops : ops'[i].calls = IF i = h THEN 1 ELSE ops[i].calls
    <3>1. ops[h] \in Op
      BY <1>0, <2>1
    <3>2. ops' = [ops EXCEPT ![h].calls = @ + 1]
      BY <1>8 DEF CallHandler
    <3> QED
      BY <1>0, <2>1, <2>2, <3>1, <3>2 DEF Op
  <2>4. /\ running' = running /\ queue' = queue /\ client' = client /\ work' = work
        /\ client = "running"
    BY <1>8 DEF CallHandler
  <2>5. \A j : Queued(j)' <=> Queued(j)
    BY <2>4 DEF Queued
  <2> QED
    BY <2>1, <2>2, <2>3, <2>4, <2>5 DEF PlaceInv, UnderWay
<1>9. CASE ClientReturns \/ ClientStops
  <2>1. /\ UNCHANGED <<ops, queue, running, posted, work>>
        /\ client = "running" /\ client' # "running"
        /\ client' = "returned" => queue = <<>> /\ running = {} /\ posted = <<>>
    BY <1>9 DEF ClientReturns, ClientStops, HasWork
  <2>2. \A j : (Queued(j)' <=> Queued(j)) /\ (Completed(j)' <=> Completed(j))
    BY <2>1 DEF Queued, Completed
  <2> QED
    BY <2>1, <2>2 DEF PlaceInv, UnderWay
<1>10. CASE Shutdown
  <2>1. /\ client' = client /\ client # "running" /\ work' = "gone"
        /\ queue' = <<>> /\ UNCHANGED <<ops, running, posted>>
    BY <1>10 DEF Shutdown
  <2>2. /\ \A j : ~Queued(j)' /\ (Completed(j)' <=> Completed(j))
        /\ Distinct(queue') /\ Distinct(posted')
    BY <1>b, <2>1 DEF Queued, Completed, Holds, Distinct
  <2>3. client = "returned" => \A j : ~Queued(j)
    BY DEF PlaceInv, Queued, Holds
  <2> QED
    BY <2>1, <2>2, <2>3 DEF PlaceInv, UnderWay
<1>11. CASE UNCHANGED vars
  BY <1>11, <1>f DEF vars
<1>12. ASSUME NEW c \in Conns,
              AsyncConnect(c) \/ AsyncQuery(c) \/ AsyncStoreResult(c)
       PROVE  PlaceInv'
  <2>1. client = "running"
    BY <1>12 DEF AsyncConnect, AsyncQuery, AsyncStoreResult, MayAsk, Usable
  <2>2. PICK kind \in Kind, ec \in Code :
           PostToWorker(kind, c) \/ PostAtOnce(kind, c, ec)
    BY <1>12 DEF AsyncConnect, AsyncQuery, AsyncStoreResult, async_connect,
                 async_query, async_store_result, Kind, Code
  <2> QED
    BY <1>4, <1>5, <2>1, <2>2
<1> QED
  BY <1>1, <1>2, <1>3, <1>6, <1>7, <1>8, <1>9, <1>10, <1>11, <1>12
     DEF Next, Worker, Over

-----------------------------------------------------------------------------
(* Order: one worker serves the operations as they were asked for *)

\* The front of an ordered queue is less than what is behind it.
LEMMA Rising ==
    ASSUME NEW n \in Nat, NEW q \in Seq(1..n), NEW x \in 1..n, Ordered(q)
    PROVE  /\ (\A i : Holds(q, i) => i < x) => Ordered(Append(q, x))
           /\ q # <<>> => /\ Ordered(Tail(q))
                          /\ \A i : Holds(Tail(q), i) => Head(q) < i
<1>1. ASSUME \A i : Holds(q, i) => i < x
      PROVE  Ordered(Append(q, x))
  <2>1. ASSUME NEW k \in 1..(Len(q) + 1), NEW l \in 1..(Len(q) + 1), k < l
        PROVE  Append(q, x)[k] < Append(q, x)[l]
    <3>1. k \in DOMAIN q /\ Append(q, x)[k] = q[k]
      BY <2>1, Positions
    <3>2. CASE l \in DOMAIN q
      BY <2>1, <3>1, <3>2, Positions DEF Ordered
    <3>3. CASE l \notin DOMAIN q
      BY <1>1, <2>1, <3>1, <3>3, Positions DEF Holds
    <3> QED
      BY <3>2, <3>3
  <2> QED
    BY <2>1, Positions DEF Ordered
<1>2. ASSUME q # <<>>
      PROVE  Ordered(Tail(q)) /\ \A i : Holds(Tail(q), i) => Head(q) < i
  <2>1. ASSUME NEW k \in DOMAIN Tail(q)
        PROVE  k \in Nat /\ k + 1 \in DOMAIN q /\ Tail(q)[k] = q[k + 1] /\ 1 < k + 1
    BY <1>2, <2>1, Positions
  <2> QED
    BY <1>2, <2>1, Positions DEF Ordered, Holds
<1> QED
  BY <1>1, <1>2

\* No step lets an operation overtake another.
LEMMA OrderStep ==
    ASSUME TypeOK, PlaceInv, OrderInv, [Next]_vars
    PROVE  OrderInv'
<1>0. /\ ops \in Seq(Op) /\ Len(ops) \in Nat /\ DOMAIN ops = 1..Len(ops)
      /\ queue \in Seq(1..Len(ops)) /\ posted \in Seq(1..Len(ops))
      /\ running \in SUBSET (1..Len(ops))
  BY DEF TypeOK
<1>a. /\ \A i : UnderWay(i) => i \in DOMAIN ops
      /\ Len(ops) + 1 \notin DOMAIN ops
  <2>1. \A i : Queued(i) => i \in DOMAIN ops
    BY <1>0 DEF Queued, Holds
  <2>2. Len(ops) + 1 \notin DOMAIN ops /\ running \subseteq DOMAIN ops
    BY <1>0
  <2> QED
    BY <2>1, <2>2 DEF UnderWay
<1>b. Distinct(queue) /\ Ordered(queue)
  BY DEF PlaceInv, OrderInv
\* Steps that neither ask for, nor begin, nor end a call.
<1>f. ASSUME DOMAIN ops' = DOMAIN ops,
             \A i \in DOMAIN ops : ops'[i].kind = ops[i].kind /\ ops'[i].ec = ops[i].ec,
             UNCHANGED <<queue, running, threads, work>>
      PROVE  OrderInv'
  BY <1>f DEF OrderInv, UnderWay, Queued, Served
<1>1. ASSUME NEW c \in Conns, Open(c)
      PROVE  OrderInv'
  BY <1>1, <1>f DEF Open
<1>2. ASSUME NEW c \in Conns, Cancel(c)
      PROVE  OrderInv'
  BY <1>2, <1>f, CancelEffect DEF Cancel
<1>3. ASSUME NEW c \in Conns, Close(c) \/ Destroy(c) \/ CloseReturns(c)
      PROVE  OrderInv'
  <2>1. ops' = Cancelled(c) \/ ops' = Closed(c)
    BY <1>3 DEF Close, Destroy, CloseHandle, CloseReturns
  <2>2. /\ DOMAIN ops' = DOMAIN ops
        /\ \A i \in DOMAIN ops : ops'[i].kind = ops[i].kind /\ ops'[i].ec = ops[i].ec
    BY <2>1, CloseEffect, CancelEffect
  <2> QED
    BY <1>3, <1>f, <2>2 DEF Close, Destroy, CloseHandle, CloseReturns
<1>4. ASSUME NEW kind \in Kind, NEW c \in Conns, PostToWorker(kind, c), client = "running"
      PROVE  OrderInv'
  <2>1. NewOp(kind, c, "pending") \in Op
    BY NewOpType DEF Code
  <2>2. /\ DOMAIN ops' = 1..(Len(ops) + 1)
        /\ \A i \in DOMAIN ops : ops'[i] = ops[i]
        /\ ops'[Len(ops) + 1] = NewOp(kind, c, "pending")
    BY <1>4, <2>1, AppendEffect DEF PostToWorker
  <2>3. queue \in Seq(1..(Len(ops) + 1)) /\ Len(ops) + 1 \in 1..(Len(ops) + 1)
        /\ Len(ops) + 1 \in Nat
    BY <1>0, Numbers
  <2>4. queue' = Append(queue, Len(ops) + 1)
    BY <1>4 DEF PostToWorker
  <2>5. \A i : Queued(i)' <=> Queued(i) \/ i = Len(ops) + 1
    BY <1>b, <2>3, <2>4, Members DEF Queued
  <2>6. Ordered(queue')
    <3>1. \A i : Holds(queue, i) => i < Len(ops) + 1
      BY <1>0, <1>a DEF UnderWay, Queued
    <3> QED
      BY <1>b, <2>3, <2>4, <3>1, Rising
  <2>7. ops'[Len(ops) + 1].ec = "pending"
    BY <2>2 DEF NewOp
  <2>8. running' = running /\ threads' \in {0, 1} /\ work' = work /\ work = "up"
    BY <1>4 DEF PostToWorker, start_work_thread, OrderInv, PlaceInv
  <2>9. \A i \in DOMAIN ops' : i \in DOMAIN ops \/ i = Len(ops) + 1
    BY <1>0, <2>2
  <2>10. \A i : UnderWay(i)' <=> UnderWay(i) \/ i = Len(ops) + 1
    BY <2>5, <2>8 DEF UnderWay
  <2>11. \A i \in running, j \in DOMAIN ops' : Queued(j)' => i < j
    BY <1>0, <2>5, <2>9 DEF OrderInv
  <2>12. \A i, j \in DOMAIN ops' : Served(i)' /\ UnderWay(j)' => i < j
    <3>1. ASSUME NEW i \in DOMAIN ops', NEW j \in DOMAIN ops', Served(i)', UnderWay(j)'
          PROVE  i < j
      <4>1. i \in DOMAIN ops /\ Served(i)
        BY <2>2, <2>7, <2>9, <3>1 DEF Served
      <4> QED
        BY <1>0, <2>9, <2>10, <3>1, <4>1 DEF OrderInv
    <3> QED
      BY <3>1
  <2>13. \A i \in DOMAIN ops' : UnderWay(i)' <=> ops'[i].ec = "pending"
    BY <2>2, <2>7, <2>8, <2>9, <2>10 DEF OrderInv
  <2> QED
    BY <2>6, <2>8, <2>11, <2>12, <2>13 DEF OrderInv
<1>5. ASSUME NEW kind \in Kind, NEW c \in Conns, NEW ec \in Code, PostAtOnce(kind, c, ec),
             ec # "pending", ~(kind # "connect" /\ ec \in {"ok", "error"})
      PROVE  OrderInv'
  <2>1. NewOp(kind, c, ec) \in Op
    BY NewOpType
  <2>2. /\ DOMAIN ops' = 1..(Len(ops) + 1)
        /\ \A i \in DOMAIN ops : ops'[i] = ops[i]
        /\ ops'[Len(ops) + 1] = NewOp(kind, c, ec)
    BY <1>5, <2>1, AppendEffect DEF PostAtOnce
  <2>3. ops'[Len(ops) + 1].ec = ec /\ ops'[Len(ops) + 1].kind = kind
    BY <2>2 DEF NewOp
  <2>4. running' = running /\ threads' = threads /\ work' = work /\ queue' = queue
    BY <1>5 DEF PostAtOnce
  <2>5. \A i \in DOMAIN ops' : i \in DOMAIN ops \/ i = Len(ops) + 1
    BY <1>0, <2>2
  <2>6. \A i : (Queued(i)' <=> Queued(i)) /\ (UnderWay(i)' <=> UnderWay(i))
    BY <2>4 DEF Queued, UnderWay
  <2>7. \A i \in DOMAIN ops' : Served(i)' <=> i \in DOMAIN ops /\ Served(i)
    BY <1>a, <1>5, <2>2, <2>3, <2>5 DEF Served
  <2>8. \A i \in DOMAIN ops' : Queued(i) \/ UnderWay(i) => i \in DOMAIN ops
    BY <1>a DEF UnderWay
  <2>9. \A i \in DOMAIN ops' :
           /\ UnderWay(i)' => ops'[i].ec = "pending"
           /\ work' = "up" /\ ops'[i].ec = "pending" => UnderWay(i)'
    BY <1>5, <2>2, <2>3, <2>4, <2>5, <2>6, <2>8 DEF OrderInv
  <2>10. Ordered(queue') /\ \A i \in running', j \in DOMAIN ops' : Queued(j)' => i < j
    BY <1>b, <2>4, <2>6, <2>8 DEF OrderInv
  <2> QED
    BY <2>4, <2>6, <2>7, <2>8, <2>9, <2>10 DEF OrderInv
<1>6. CASE WorkerBegins
  <2> DEFINE h == Head(queue)
  <2>1. /\ h \in 1..Len(ops) /\ Queued(h)
        /\ \A i : Queued(i)' <=> Queued(i) /\ i # h
        /\ Ordered(queue')
        /\ \A i : Queued(i)' => h < i
    <3>1. queue # <<>> /\ queue' = Tail(queue)
      BY <1>6 DEF WorkerBegins
    <3>2. h \in 1..Len(ops)
      BY <1>0, <3>1, Numbers
    <3> QED
      BY <1>0, <1>b, <3>1, <3>2, Members, Rising DEF Queued
  <2>2. threads' = threads /\ work' = work /\ work = "up"
    BY <1>6 DEF WorkerBegins
  <2>3. running = {}
    <3>1. IsFiniteSet(running) /\ threads \in {0, 1} /\ Cardinality(running) < threads
      BY <1>6 DEF WorkerBegins, OrderInv
    <3>2. Cardinality(running) \in Nat
      BY <3>1, FS_CardinalityType
    <3>3. Cardinality(running) = 0
      BY <3>1, <3>2
    <3> QED
      BY <3>1, <3>3, FS_EmptySet
  <2> HIDE DEF h
  <2>4. CASE ops' = [ops EXCEPT ![h].ec = "aborted"] /\ UNCHANGED running
    <3>1. /\ DOMAIN ops' = DOMAIN ops
          /\ \A i \in DOMAIN ops : /\ ops'[i].kind = ops[i].kind
                                   /\ ops'[i].ec = IF i = h THEN "aborted" ELSE ops[i].ec
      <4>1. ops[h] \in Op
        BY <1>0, <2>1
      <4> QED
        BY <1>0, <2>1, <2>4, <4>1 DEF Op
    <3>2. \A i : UnderWay(i)' <=> UnderWay(i) /\ i # h
      BY <2>1, <2>3, <2>4 DEF UnderWay
    <3>3. \A i \in DOMAIN ops : Served(i)' => Served(i)
      BY <3>1 DEF Served
    <3> QED
      BY <2>1, <2>2, <2>3, <2>4, <3>1, <3>2, <3>3 DEF OrderInv
  <2>5. CASE running' = running \cup {h} /\ UNCHANGED ops
    <3>1. running' = {h} /\ IsFiniteSet(running')
      BY <2>3, <2>5, FS_Singleton
    <3>2. \A i : UnderWay(i)' <=> UnderWay(i)
      BY <2>1, <2>3, <3>1 DEF UnderWay
    <3>3. \A i : Served(i)' <=> Served(i)
      BY <2>5 DEF Served
    <3> QED
      BY <2>1, <2>2, <2>5, <3>1, <3>2, <3>3 DEF OrderInv
  <2> QED
    BY <1>6, <2>4, <2>5 DEF WorkerBegins, h
<1>7. ASSUME NEW i \in running, NEW ec \in Code, WorkerEnds(i, ec)
      PROVE  OrderInv'
  <2>1. i \in DOMAIN ops /\ ~Queued(i) /\ ops[i] \in Op /\ running = {i}
    BY <1>0, <1>a DEF PlaceInv, UnderWay, OrderInv
  <2>2. PICK n : ops' = [ops EXCEPT ![i].ec = ec, ![i].of = n]
    BY <1>7 DEF WorkerEnds
  <2>3. ec # "pending"
    <3>1. ops[i].kind \in Kind /\ Answered(i, ec, impl[ops[i].conn]) # {}
      BY <1>7, <2>1 DEF WorkerEnds, Op
    <3> QED
      BY <3>1, AnswerCodes
  <2>4. /\ DOMAIN ops' = DOMAIN ops
        /\ \A j \in DOMAIN ops : /\ ops'[j].kind = ops[j].kind
                                 /\ ops'[j].ec = IF j = i THEN ec ELSE ops[j].ec
    BY <1>0, <2>1, <2>2 DEF Op
  <2>5. /\ running' = {} /\ queue' = queue /\ threads' = threads /\ work' = work
    BY <1>7, <2>1 DEF WorkerEnds
  <2>6. \A j : /\ Queued(j)' <=> Queued(j)
               /\ UnderWay(j)' <=> UnderWay(j) /\ j # i
               /\ UnderWay(j)' <=> Queued(j)
    BY <2>1, <2>5 DEF Queued, UnderWay
  <2>7. \A j, k \in DOMAIN ops : Served(j)' /\ UnderWay(k)' => j < k
    <3>1. ASSUME NEW j \in DOMAIN ops, NEW k \in DOMAIN ops, Served(j)', UnderWay(k)'
          PROVE  j < k
      <4>1. CASE j = i
        BY <2>6, <3>1, <4>1 DEF OrderInv
      <4>2. CASE j # i
        <5>1. Served(j) /\ UnderWay(k)
          BY <2>4, <2>6, <3>1, <4>2 DEF Served
        <5> QED
          BY <5>1 DEF OrderInv
      <4> QED
        BY <4>1, <4>2
    <3> QED
      BY <3>1
  <2>8. IsFiniteSet(running') /\ Ordered(queue')
    BY <1>b, <2>5, FS_EmptySet
  <2> QED
    BY <2>3, <2>4, <2>5, <2>6, <2>7, <2>8 DEF OrderInv
<1>8. CASE CallHandler
  <2>1. Head(posted) \in DOMAIN ops
    BY <1>0, <1>8, Numbers DEF CallHandler
  <2>2. ops[Head(posted)] \in Op /\ ops' = [ops EXCEPT ![Head(posted)].calls = @ + 1]
    BY <1>0, <1>8, <2>1 DEF CallHandler
  <2>3. /\ DOMAIN ops' = DOMAIN ops
        /\ \A i \in DOMAIN ops : ops'[i].kind = ops[i].kind /\ ops'[i].ec = ops[i].ec
    BY <1>0, <2>1, <2>2 DEF Op
  <2> QED
    BY <1>8, <1>f, <2>3 DEF CallHandler
<1>9. CASE ClientReturns \/ ClientStops
  BY <1>9, <1>f DEF ClientReturns, ClientStops
<1>10. CASE Shutdown
  <2>1. /\ work' = "gone" /\ queue' = <<>> /\ running = {} /\ running' = {}
        /\ threads' = 0 /\ ops' = ops
    BY <1>10 DEF Shutdown
  <2>2. /\ \A j : ~Queued(j)' /\ ~UnderWay(j)'
        /\ Ordered(queue') /\ IsFiniteSet(running')
    BY <2>1, FS_EmptySet DEF Queued, UnderWay, Holds, Ordered
  <2> QED
    BY <2>1, <2>2 DEF OrderInv
<1>11. CASE UNCHANGED vars
  BY <1>11, <1>f DEF vars
<1>12. ASSUME NEW c \in Conns,
              AsyncConnect(c) \/ AsyncQuery(c) \/ AsyncStoreResult(c)
       PROVE  OrderInv'
  <2>1. client = "running"
    BY <1>12 DEF AsyncConnect, AsyncQuery, AsyncStoreResult, MayAsk, Usable
  <2>2. PICK kind \in Kind :
           \/ PostToWorker(kind, c)
           \/ PostAtOnce(kind, c, "not_initialized")
           \/ kind = "connect" /\ PostAtOnce(kind, c, "error")
    BY <1>12 DEF AsyncConnect, AsyncQuery, AsyncStoreResult, async_connect,
                 async_query, async_store_result, Kind
  <2>3. {"not_initialized", "error"} \subseteq Code
    BY DEF Code
  <2> QED
    BY <1>4, <1>5, <2>1, <2>2, <2>3
<1> QED
  BY <1>1, <1>2, <1>3, <1>6, <1>7, <1>8, <1>9, <1>10, <1>11, <1>12
     DEF Next, Worker, Over

-----------------------------------------------------------------------------
(* Results: what a handle holds, and what a store is answered from *)

\* LastQuery finds the last of the earlier queries.
LEMMA LastFound ==
    ASSUME NEW i \in Nat, NEW codes, NEW m, IsLast(m, Earlier(i, codes))
    PROVE  LastQuery(i, codes) = m
<1> DEFINE E == Earlier(i, codes)
<1>1. LastQuery(i, codes) = IF E = {} THEN 0 ELSE CHOOSE j \in E : \A k \in E : k <= j
  BY DEF LastQuery, Earlier
<1>2. E \subseteq Int
  BY DEF Earlier
<1> HIDE DEF E
<1>3. CASE E = {}
  BY <1>1, <1>3 DEF IsLast, E
<1>4. CASE E # {}
  <2>1. m \in E /\ \A k \in E : k <= m
    BY <1>4 DEF IsLast, E
  <2>2. \A j \in E : (\A k \in E : k <= j) => j = m
    BY <1>2, <2>1
  <2> QED
    BY <1>1, <1>4, <2>1, <2>2
<1> QED
  BY <1>3, <1>4

\* What PairInv says of the sets of queries, PairsWithItsQuery says of the
\* numbers LastQuery finds in them.
LEMMA PairsFound ==
    ASSUME TypeOK, PairInv
    PROVE  PairsWithItsQuery
<1> SUFFICES ASSUME NEW i \in DOMAIN ops,
                    ops[i].kind = "store", ops[i].ec = "ok", ~ops[i].stale
             PROVE  LET last == LastQuery(i, {"pending", "ok", "error"})
                        good == LastQuery(i, {"ok"})
                    IN  IF last = good THEN ops[i].of = last
                        ELSE ops[last].ec = "error" /\ ops[i].of \in {0, good}
  BY DEF PairsWithItsQuery
<1> DEFINE Q == Earlier(i, {"ok", "error"})
           G == Earlier(i, {"ok"})
<1>0. i \in Nat
  BY DEF TypeOK
<1>1. PICK last \in Q \cup {0}, good \in G \cup {0} :
         /\ IsLast(last, Q) /\ IsLast(good, G)
         /\ IF last = good THEN ops[i].of = last ELSE ops[i].of \in {0, good}
  BY DEF PairInv, From
<1>2. Earlier(i, {"pending", "ok", "error"}) = Q
  <2>1. Earlier(i, {"pending"}) = {}
    BY DEF PairInv
  <2>2. Earlier(i, {"pending", "ok", "error"}) = Earlier(i, {"pending"}) \cup Q
    BY DEF Earlier
  <2> QED
    BY <2>1, <2>2
<1>3. LastQuery(i, {"pending", "ok", "error"}) = last /\ LastQuery(i, {"ok"}) = good
  BY <1>0, <1>1, <1>2, LastFound
<1>4. ASSUME last # good
      PROVE  ops[last].ec = "error"
  <2>1. G \subseteq Q /\ Q \subseteq Int /\ 0 \notin Q
    BY DEF Earlier
  <2>2. Q # {} /\ last \in Q
    BY <1>1, <1>4, <2>1 DEF IsLast
  <2>3. last \notin G
    BY <1>1, <1>4, <2>1, <2>2 DEF IsLast
  <2> QED
    BY <2>2, <2>3 DEF Earlier
<1> QED
  BY <1>1, <1>3, <1>4

\* The sets of queries are what they were when every operation keeps what they
\* look at, a new or changed one being none of them.
LEMMA QueriesKept ==
    ASSUME NEW c, NEW codes, DOMAIN ops \subseteq DOMAIN ops',
           \A j \in DOMAIN ops :
              /\ ops'[j].kind = ops[j].kind /\ ops'[j].conn = ops[j].conn
              /\ ops[j].conn = c /\ IsQuery(ops[j]) =>
                    /\ ops'[j].stale = ops[j].stale
                    /\ ops'[j].ec \in codes <=> ops[j].ec \in codes,
           \A j \in DOMAIN ops' \ DOMAIN ops :
              ~IsQuery(ops'[j]) \/ ops'[j].ec \notin codes
    PROVE  QueriesOf(c, codes)' = QueriesOf(c, codes)
BY DEF QueriesOf, IsQuery

\* A store that was answered stays answered from the same query: nothing asked
\* for before it, in its session, changes any more.
LEMMA EarlierKept ==
    ASSUME NEW i \in Nat, NEW codes,
           \A j \in 1..(i - 1) :
              /\ ops'[j].kind = ops[j].kind /\ ops'[j].conn = ops[j].conn
              /\ ops[j].conn = ops[i].conn =>
                    ops'[j].stale = ops[j].stale /\ ops'[j].ec = ops[j].ec,
           ops'[i].conn = ops[i].conn
    PROVE  Earlier(i, codes)' = Earlier(i, codes)
BY DEF Earlier, IsQuery

\* Steps that answer no call and close no handle.
LEMMA ResultsKept ==
    ASSUME TypeOK, TypeOK', OrderInv, HandleInv, PairInv,
           DOMAIN ops \subseteq DOMAIN ops',
           \A j \in DOMAIN ops :
              /\ ops'[j].kind = ops[j].kind /\ ops'[j].conn = ops[j].conn
              /\ ops'[j].stale = ops[j].stale /\ ops'[j].of = ops[j].of
              /\ ops'[j].ec = ops[j].ec \/ (UnderWay(j) /\ ops'[j].ec = "aborted"),
           \A j \in DOMAIN ops' \ DOMAIN ops :
              ops'[j].kind = "connect" \/ ops'[j].ec \in {"pending", "not_initialized"},
           \A c \in Conns : impl'[c].query = impl[c].query
    PROVE  HandleInv' /\ PairInv'
<1>0. DOMAIN ops = 1..Len(ops) /\ Len(ops) \in Nat
  BY DEF TypeOK
<1>1. \A j \in DOMAIN ops : UnderWay(j) => ops[j].ec = "pending"
  BY DEF OrderInv
<1>2. HandleInv'
  <2>1. ASSUME NEW c \in Conns
        PROVE  /\ QueriesOf(c, {"ok", "error"})' = QueriesOf(c, {"ok", "error"})
               /\ QueriesOf(c, {"ok"})' = QueriesOf(c, {"ok"})
    BY <1>1 DEF QueriesOf, IsQuery
  <2> QED
    BY <2>1 DEF HandleInv
<1>3. ASSUME NEW i \in DOMAIN ops',
             ops'[i].kind = "store", ops'[i].ec = "ok", ~ops'[i].stale
      PROVE  /\ Earlier(i, {"pending"})' = {}
             /\ From(ops'[i].of, Earlier(i, {"ok", "error"})', Earlier(i, {"ok"})')
  <2>1. i \in DOMAIN ops /\ ops[i].kind = "store" /\ ops[i].ec = "ok" /\ ~ops[i].stale
    BY <1>1, <1>3
  <2>2. \A j \in 1..(i - 1) : j \in DOMAIN ops /\ ~UnderWay(j)
    <3>1. ASSUME NEW j \in 1..(i - 1)
          PROVE  j \in DOMAIN ops /\ ~UnderWay(j)
      <4>1. j \in DOMAIN ops /\ ~(i < j)
        BY <1>0, <2>1
      <4> QED
        BY <2>1, <4>1 DEF OrderInv, Served
    <3> QED
      BY <3>1
  <2>3. \A codes : Earlier(i, codes)' = Earlier(i, codes)
    BY <1>0, <2>1, <2>2, EarlierKept
  <2> QED
    BY <2>1, <2>3 DEF PairInv
<1>4. PairInv'
  BY <1>3 DEF PairInv
<1> QED
  BY <1>2, <1>4

\* A closed handle holds no results, and no operation of its session counts
\* any more.
LEMMA ResultsClosed ==
    ASSUME TypeOK, HandleInv, PairInv, NEW c \in Conns, impl'[c].query = 0,
           \A d \in Conns : d # c => impl'[d] = impl[d],
           ops' = Closed(c)
    PROVE  HandleInv' /\ PairInv'
<1>0. /\ DOMAIN ops = 1..Len(ops) /\ Len(ops) \in Nat
      /\ impl \in [Conns -> Impl]
  BY DEF TypeOK
<1>1. /\ DOMAIN ops' = DOMAIN ops
      /\ \A i \in DOMAIN ops :
            /\ ops[i].conn # c => ops'[i] = ops[i]
            /\ ops[i].conn = c => ops'[i].stale
            /\ ops'[i].kind = ops[i].kind /\ ops'[i].conn = ops[i].conn
  BY CloseEffect
<1>2. ASSUME NEW d \in Conns
      PROVE  From(impl'[d].query, QueriesOf(d, {"ok", "error"})', QueriesOf(d, {"ok"})')
  <2>1. CASE d = c
    <3>1. impl'[d].query = 0
      BY <1>0, <2>1
    <3>2. \A codes : QueriesOf(d, codes)' = {}
      BY <1>1, <2>1 DEF QueriesOf
    <3>3. IsLast(0, {}) /\ From(0, {}, {})
      BY DEF IsLast, From
    <3> QED
      BY <3>1, <3>2, <3>3
  <2>2. CASE d # c
    <3>1. impl'[d].query = impl[d].query
      BY <1>0, <2>2
    <3>2. \A codes : QueriesOf(d, codes)' = QueriesOf(d, codes)
      BY <1>1, <2>2, QueriesKept
    <3> QED
      BY <3>1, <3>2 DEF HandleInv
  <2> QED
    BY <2>1, <2>2
<1>3. ASSUME NEW i \in DOMAIN ops',
             ops'[i].kind = "store", ops'[i].ec = "ok", ~ops'[i].stale
      PROVE  /\ Earlier(i, {"pending"})' = {}
             /\ From(ops'[i].of, Earlier(i, {"ok", "error"})', Earlier(i, {"ok"})')
  <2>1. i \in DOMAIN ops /\ ops[i].conn # c /\ ops'[i] = ops[i]
    BY <1>1, <1>3
  <2>2. \A j \in 1..(i - 1) : j \in DOMAIN ops
    BY <1>0, <2>1
  <2>3. \A codes : Earlier(i, codes)' = Earlier(i, codes)
    BY <1>0, <1>1, <2>1, <2>2, EarlierKept
  <2> QED
    BY <1>3, <2>1, <2>3 DEF PairInv
<1> QED
  BY <1>2, <1>3 DEF HandleInv, PairInv

\* One more query answered: it is the last.
LEMMA FromNext ==
    ASSUME NEW Q \in SUBSET Nat, NEW G \in SUBSET Q, NEW of, From(of, Q, G),
           NEW i \in Nat \ {0}, \A j \in Q : j < i
    PROVE  /\ From(i, Q \cup {i}, G \cup {i})
           /\ From(of, Q \cup {i}, G)
           /\ From(0, Q \cup {i}, G)
<1>1. PICK last \in Q \cup {0}, good \in G \cup {0} :
         /\ IsLast(last, Q) /\ IsLast(good, G)
         /\ IF last = good THEN of = last ELSE of \in {0, good}
  BY DEF From
<1>2. IsLast(i, Q \cup {i}) /\ IsLast(i, G \cup {i}) /\ good # i
  BY <1>1 DEF IsLast
<1>3. of \in {0, good}
  BY <1>1
<1>4. From(i, Q \cup {i}, G \cup {i})
  BY <1>2 DEF From
<1> QED
  BY <1>1, <1>2, <1>3, <1>4 DEF From

\* The worker answers: a query becomes the last, a store takes what the handle
\* holds, which is what all the queries before it left.
LEMMA ResultsAnswered ==
    ASSUME TypeOK, SessionInv, OwnSession, OrderInv, HandleInv, PairInv,
           NEW i \in running, NEW ec \in Code, WorkerEnds(i, ec)
    PROVE  HandleInv' /\ PairInv'
<1> DEFINE c == ops[i].conn
<1>0. /\ DOMAIN ops = 1..Len(ops) /\ Len(ops) \in Nat
      /\ impl \in [Conns -> Impl] /\ i \in 1..Len(ops) /\ i \in DOMAIN ops
  BY DEF TypeOK
<1>1. /\ ops[i] \in Op /\ c \in Conns /\ ops[i].kind \in Kind /\ impl[c] \in Impl
      /\ ~ops[i].stale /\ UnderWay(i) /\ ops[i].ec = "pending" /\ work = "up"
  <2>1. ops[i] \in Op /\ c \in Conns /\ ops[i].kind \in Kind /\ impl[c] \in Impl
    BY <1>0, OpType
  <2>2. fault = "none" /\ UnderWay(i) /\ work = "up"
    BY DEF WorkerEnds, UnderWay, OrderInv
  <2> QED
    BY <1>0, <2>1, <2>2 DEF SessionInv, OwnSession, OrderInv
<1> DEFINE n == IF ops[i].kind = "store" /\ ec = "ok" THEN impl[c].query ELSE 0
<1>2. PICK h \in Answered(i, ec, impl[c]) : impl' = [impl EXCEPT ![c] = h]
  BY DEF WorkerEnds
<1>3. /\ ops' = [ops EXCEPT ![i].ec = ec, ![i].of = n]
      /\ ops[i].kind = "query" => ec \in {"ok", "error"}
  BY <1>1, <1>2, AnswerCodes DEF WorkerEnds
<1>4. /\ DOMAIN ops' = DOMAIN ops
      /\ \A j \in DOMAIN ops : j # i => ops'[j] = ops[j]
      /\ ops'[i].kind = ops[i].kind /\ ops'[i].conn = c /\ ~ops'[i].stale
      /\ ops'[i].ec = ec /\ ops'[i].of = n
  BY <1>0, <1>1, <1>3 DEF Op
<1>5. /\ impl'[c] = h
      /\ \A d \in Conns : d # c => impl'[d] = impl[d]
  BY <1>0, <1>1, <1>2
<1>6. \A j \in DOMAIN ops : Served(j) => j < i
  BY <1>0, <1>1 DEF OrderInv
<1>7. \A j \in 1..(i - 1) : ops[j].ec # "pending"
  <2>1. ASSUME NEW j \in 1..(i - 1), ops[j].ec = "pending"
        PROVE  FALSE
    <3>1. j \in DOMAIN ops /\ j # i /\ ~(i < j)
      BY <1>0
    <3>2. UnderWay(j)
      BY <1>1, <2>1, <3>1 DEF OrderInv
    <3> QED
      BY <3>1, <3>2 DEF UnderWay, OrderInv
  <2> QED
    BY <2>1
<1> HIDE DEF c, n
\* The handles.
<1>8. ASSUME NEW d \in Conns
      PROVE  From(impl'[d].query, QueriesOf(d, {"ok", "error"})', QueriesOf(d, {"ok"})')
  <2> DEFINE Q == QueriesOf(d, {"ok", "error"})
             G == QueriesOf(d, {"ok"})
  <2>0. From(impl[d].query, Q, G)
    BY DEF HandleInv
  <2>1. CASE d # c \/ ops[i].kind # "query"
    <3>1. QueriesOf(d, {"ok", "error"})' = Q /\ QueriesOf(d, {"ok"})' = G
      BY <1>4, <2>1 DEF QueriesOf, IsQuery, c
    <3>2. impl'[d].query = impl[d].query
      <4>1. CASE d # c
        BY <1>5, <4>1
      <4>2. CASE d = c
        <5>1. h \in connect_handler(ec, impl[c]) \/ h \in store_result_handler(ec, impl[c])
          BY <1>1, <1>2, <2>1, <4>2 DEF Answered, Kind, c
        <5>2. \/ h = impl[c]
              \/ \E u \in {impl[c].unread, FALSE} :
                    h = [impl[c] EXCEPT !.first = TRUE, !.unread = u]
          BY <5>1 DEF connect_handler, store_result_handler
        <5> QED
          BY <1>1, <1>5, <4>2, <5>2 DEF Impl
      <4> QED
        BY <4>1, <4>2
    <3> QED
      BY <2>0, <3>1, <3>2
  <2>2. CASE d = c /\ ops[i].kind = "query"
    <3>1. /\ QueriesOf(d, {"ok", "error"})' = Q \cup {i}
          /\ QueriesOf(d, {"ok"})' = IF ec = "ok" THEN G \cup {i} ELSE G
      BY <1>0, <1>1, <1>3, <1>4, <2>2 DEF QueriesOf, IsQuery, c
    <3>2. Q \in SUBSET Nat /\ G \in SUBSET Q /\ i \in Nat \ {0}
      BY <1>0 DEF QueriesOf
    <3>3. \A j \in Q : j < i
      BY <1>6 DEF QueriesOf, Served, IsQuery
    <3>4. h \in query_handler(i, ec, impl[c])
      BY <1>2, <2>2 DEF Answered, c
    <3>5. /\ ec = "ok" => h.query = i
          /\ ec = "error" => h.query \in {0, impl[c].query}
      <4> DEFINE k == [impl[c] EXCEPT !.first = FALSE]
      <4>0. k \in Impl /\ k.query = impl[c].query
        BY <1>1 DEF Impl
      <4>1. CASE ec = "ok"
        <5>1. h \in {[k EXCEPT !.query = i, !.unread = u] : u \in BOOLEAN}
          BY <3>4, <4>1, Zenon DEF query_handler
        <5> HIDE DEF k
        <5>2. PICK u \in BOOLEAN : h = [k EXCEPT !.query = i, !.unread = u]
          BY <5>1, Zenon
        <5> QED
          BY <4>0, <4>1, <5>2 DEF Impl
      <4>2. CASE ec = "error"
        <5>1. h = k \/ h = [k EXCEPT !.query = 0]
          BY <3>4, <4>2 DEF query_handler
        <5> HIDE DEF k
        <5> QED
          BY <4>0, <4>2, <5>1 DEF Impl
      <4> QED
        BY <4>1, <4>2
    <3> HIDE DEF Q, G
    <3>6. /\ From(i, Q \cup {i}, G \cup {i})
          /\ From(impl[d].query, Q \cup {i}, G) /\ From(0, Q \cup {i}, G)
      BY <2>0, <3>2, <3>3, FromNext
    <3> QED
      BY <1>3, <1>5, <2>2, <3>1, <3>5, <3>6
  <2> QED
    BY <2>1, <2>2
\* The stores.
<1>9. ASSUME NEW k \in DOMAIN ops',
             ops'[k].kind = "store", ops'[k].ec = "ok", ~ops'[k].stale
      PROVE  /\ Earlier(k, {"pending"})' = {}
             /\ From(ops'[k].of, Earlier(k, {"ok", "error"})', Earlier(k, {"ok"})')
  <2>1. CASE k # i
    <3>1. k \in DOMAIN ops /\ ops'[k] = ops[k] /\ k < i
      BY <1>4, <1>6, <1>9, <2>1 DEF Served
    <3>2. \A j \in 1..(k - 1) : j \in DOMAIN ops /\ ops'[j] = ops[j]
      BY <1>0, <1>4, <3>1
    <3>3. \A codes : Earlier(k, codes)' = Earlier(k, codes)
      BY <1>0, <3>1, <3>2, EarlierKept
    <3> QED
      BY <1>9, <3>1, <3>3 DEF PairInv
  <2>2. CASE k = i
    <3>1. \A j \in 1..(i - 1) : j \in DOMAIN ops /\ ops'[j] = ops[j]
      BY <1>0, <1>4
    <3>2. Earlier(i, {"pending"})' = {}
      BY <1>7, <3>1 DEF Earlier
    <3>3. ASSUME NEW codes, codes \subseteq {"ok", "error"}
          PROVE  Earlier(i, codes)' = QueriesOf(c, codes)
      <4>1. \A j \in QueriesOf(c, codes) : j \in 1..(i - 1)
        <5>1. ASSUME NEW j \in QueriesOf(c, codes)
              PROVE  j \in 1..(i - 1)
          <6>1. j \in DOMAIN ops /\ Served(j)
            BY <3>3 DEF QueriesOf, Served, IsQuery
          <6> QED
            BY <1>0, <1>6, <6>1
        <5> QED
          BY <5>1
      <4> QED
        BY <1>4, <3>1, <4>1 DEF Earlier, QueriesOf
    <3>4. ops'[i].of = impl[c].query
      BY <1>4, <1>9, <2>2 DEF n
    <3>5. From(impl[c].query, QueriesOf(c, {"ok", "error"}), QueriesOf(c, {"ok"}))
      BY <1>1 DEF HandleInv
    <3> QED
      BY <2>2, <3>2, <3>3, <3>4, <3>5
  <2> QED
    BY <2>1, <2>2
<1> QED
  BY <1>8, <1>9 DEF HandleInv, PairInv

\* Every step keeps the pairing of queries and stores.
LEMMA ResultsStep ==
    ASSUME TypeOK, TypeOK', SessionInv, OwnSession, OrderInv, HandleInv, PairInv,
           [Next]_vars
    PROVE  HandleInv' /\ PairInv'
<1>0. /\ ops \in Seq(Op) /\ Len(ops) \in Nat /\ DOMAIN ops = 1..Len(ops)
      /\ queue \in Seq(1..Len(ops)) /\ posted \in Seq(1..Len(ops))
      /\ impl \in [Conns -> Impl]
  BY DEF TypeOK
<1>1. ASSUME NEW c \in Conns, impl' = [impl EXCEPT ![c].initialized = TRUE] \/ impl' = impl
      PROVE  \A d \in Conns : impl'[d].query = impl[d].query
  <2>1. CASE impl' = [impl EXCEPT ![c].initialized = TRUE]
    <3>1. impl[c] \in Impl
      BY <1>0
    <3> QED
      BY <1>0, <2>1, <3>1 DEF Impl
  <2> QED
    BY <1>1, <2>1
<1>2. ASSUME NEW c \in Conns, Open(c)
      PROVE  HandleInv' /\ PairInv'
  BY <1>1, <1>2, ResultsKept DEF Open
<1>3. ASSUME NEW c \in Conns, Cancel(c)
      PROVE  HandleInv' /\ PairInv'
  BY <1>3, CancelEffect, ResultsKept DEF Cancel
<1>4. ASSUME NEW c \in Conns, Close(c) \/ Destroy(c)
      PROVE  HandleInv' /\ PairInv'
  <2>1. PICK how : CloseHandle(c, how)
    BY <1>4 DEF Close, Destroy
  <2>2. impl[c] \in Impl
    BY <1>0
  <2>3. impl'[c].query = 0 /\ \A d \in Conns : d # c => impl'[d] = impl[d]
    BY <1>0, <2>1, <2>2 DEF CloseHandle, Impl
  <2> QED
    BY <2>1, <2>3, ResultsClosed DEF CloseHandle
<1>5. ASSUME NEW kind \in Kind, NEW c \in Conns, NEW ec \in Code,
             ops' = Append(ops, NewOp(kind, c, ec)),
             kind = "connect" \/ ec \in {"pending", "not_initialized"},
             \A d \in Conns : impl'[d].query = impl[d].query
      PROVE  HandleInv' /\ PairInv'
  <2>1. NewOp(kind, c, ec) \in Op
    BY NewOpType
  <2>2. /\ DOMAIN ops' = 1..(Len(ops) + 1)
        /\ \A i \in DOMAIN ops : ops'[i] = ops[i]
        /\ ops'[Len(ops) + 1] = NewOp(kind, c, ec)
    BY <1>5, <2>1, AppendEffect
  <2>3. ops'[Len(ops) + 1].ec = ec /\ ops'[Len(ops) + 1].kind = kind
    BY <2>2 DEF NewOp
  <2>4. \A i \in DOMAIN ops' \ DOMAIN ops : i = Len(ops) + 1
    BY <1>0, <2>2
  <2>5. DOMAIN ops \subseteq DOMAIN ops'
    BY <1>0, <2>2
  <2> QED
    BY <1>5, <2>2, <2>3, <2>4, <2>5, ResultsKept
<1>6. ASSUME NEW c \in Conns,
             AsyncConnect(c) \/ AsyncQuery(c) \/ AsyncStoreResult(c)
      PROVE  HandleInv' /\ PairInv'
  <2>1. PICK kind \in Kind, ec \in Code :
           /\ kind = "connect" \/ ec \in {"pending", "not_initialized"}
           /\ ops' = Append(ops, NewOp(kind, c, ec))
           /\ impl' = [impl EXCEPT ![c].initialized = TRUE] \/ impl' = impl
    BY <1>6 DEF AsyncConnect, AsyncQuery, AsyncStoreResult, async_connect,
                async_query, async_store_result, PostToWorker, PostAtOnce, Kind, Code
  <2> QED
    BY <1>1, <1>5, <2>1
<1>7. CASE WorkerBegins
  <2>1. Head(queue) \in DOMAIN ops /\ UnderWay(Head(queue)) /\ impl' = impl
    BY <1>0, <1>7 DEF WorkerBegins, UnderWay, Queued, Holds
  <2>2. ops' = ops \/ ops' = [ops EXCEPT ![Head(queue)].ec = "aborted"]
    BY <1>7 DEF WorkerBegins
  <2>3. /\ DOMAIN ops' = DOMAIN ops
        /\ \A j \in DOMAIN ops :
              /\ ops'[j].kind = ops[j].kind /\ ops'[j].conn = ops[j].conn
              /\ ops'[j].stale = ops[j].stale /\ ops'[j].of = ops[j].of
              /\ ops'[j].ec = ops[j].ec \/ (UnderWay(j) /\ ops'[j].ec = "aborted")
    <3>1. CASE ops' = [ops EXCEPT ![Head(queue)].ec = "aborted"]
      <4>1. ops[Head(queue)] \in Op
        BY <1>0, <2>1
      <4>2. /\ ops'[Head(queue)].ec = "aborted"
            /\ \A j \in DOMAIN ops : j # Head(queue) => ops'[j] = ops[j]
        BY <1>0, <2>1, <3>1, <4>1 DEF Op
      <4>3. /\ DOMAIN ops' = DOMAIN ops
            /\ \A j \in DOMAIN ops :
                  /\ ops'[j].kind = ops[j].kind /\ ops'[j].conn = ops[j].conn
                  /\ ops'[j].stale = ops[j].stale /\ ops'[j].of = ops[j].of
        BY <1>0, <2>1, <3>1, <4>1 DEF Op
      <4> QED
        BY <2>1, <4>2, <4>3
    <3> QED
      BY <2>2, <3>1
  <2> QED
    BY <2>1, <2>3, ResultsKept
<1>8. CASE CallHandler
  <2>1. /\ Head(posted) \in DOMAIN ops /\ impl' = impl
        /\ ops' = [ops EXCEPT ![Head(posted)].calls = @ + 1]
    BY <1>0, <1>8 DEF CallHandler
  <2>2. /\ DOMAIN ops' = DOMAIN ops
        /\ \A j \in DOMAIN ops :
              /\ ops'[j].kind = ops[j].kind /\ ops'[j].conn = ops[j].conn
              /\ ops'[j].stale = ops[j].stale /\ ops'[j].of = ops[j].of
              /\ ops'[j].ec = ops[j].ec
    <3>1. ops[Head(posted)] \in Op
      BY <1>0, <2>1
    <3> QED
      BY <1>0, <2>1, <3>1 DEF Op
  <2> QED
    BY <2>1, <2>2, ResultsKept
<1>9. CASE UNCHANGED <<impl, ops>>
  BY <1>9, ResultsKept
<1>10. ASSUME NEW c \in Conns, CloseReturns(c)
       PROVE  HandleInv' /\ PairInv'
  <2>1. impl[c] \in Impl
    BY <1>0
  <2>2. \A d \in Conns : impl'[d].query = impl[d].query
    BY <1>0, <1>10, <2>1 DEF CloseReturns, Impl
  <2> QED
    BY <1>10, <2>2, CancelEffect, ResultsKept DEF CloseReturns
<1> QED
  BY <1>2, <1>3, <1>4, <1>6, <1>7, <1>8, <1>9, <1>10, ResultsAnswered
     DEF Next, Worker, Over, ClientReturns, ClientStops, Shutdown, vars

-----------------------------------------------------------------------------
(* The theorems *)

\* The invariant is inductive.
THEOREM Invariant == Spec => []IInv
<1>1. Init => IInv
  <2> SUFFICES ASSUME Init PROVE IInv
    OBVIOUS
  <2>1. TypeOK
    BY DEF Init, TypeOK, Impl, Fault
  <2>2. SessionInv /\ OwnSession
    BY DEF Init, SessionInv, OwnSession
  <2>3. \A i : ~Queued(i) /\ ~Completed(i)
    BY DEF Init, Queued, Completed, Holds
  <2>4. PlaceInv
    BY <2>3 DEF Init, PlaceInv, Distinct
  <2>5. OrderInv
    BY <2>3, FS_EmptySet DEF Init, OrderInv, Ordered
  <2>6. \A c, codes : QueriesOf(c, codes) = {}
    BY DEF Init, QueriesOf
  <2>7. From(0, {}, {})
    BY DEF From, IsLast
  <2>8. HandleInv
    <3>1. \A c \in Conns : impl[c].query = 0
      BY DEF Init
    <3> QED
      BY <2>6, <2>7, <3>1 DEF HandleInv
  <2>9. PairInv
    BY DEF Init, PairInv
  <2> QED
    BY <2>1, <2>2, <2>4, <2>5, <2>8, <2>9 DEF IInv
<1>2. IInv /\ [Next]_vars => IInv'
  BY TypeStep, SessionStep, PlaceStep, OrderStep, ResultsStep DEF IInv
<1> QED
  BY <1>1, <1>2, PTL DEF Spec

\* The state of the service stays of its types.
THEOREM TypeCorrect == Spec => []TypeOK
<1>1. IInv => TypeOK
  BY DEF IInv
<1> QED
  BY <1>1, Invariant, PTL

\* Once close(), or the destructor, has returned, the worker makes no call of
\* the session that was closed: cancel(), its last step, expires whatever waits.
\* Whatever the number of connectors and operations, a call of the worker
\* overlaps at most with a close() that is still under way.
THEOREM CallsInOwnSession == Spec => []OwnSession
<1>1. IInv => OwnSession
  BY DEF IInv
<1> QED
  BY <1>1, Invariant, PTL

\* A store is answered from the last query asked for before it on its handle,
\* because start_work_thread makes one worker and no more: queries and stores
\* need not wait for each other's handlers.
THEOREM StoresPair == Spec => []PairsWithItsQuery
<1>1. IInv => PairsWithItsQuery
  BY PairsFound DEF IInv
<1> QED
  BY <1>1, Invariant, PTL

\* The io_service::work in handler_base: when the client's run() returns for
\* want of work, every handler has been called, and once.
THEOREM AllCalled == Spec => []NoneLeftBehind
<1>1. IInv => NoneLeftBehind
  BY DEF IInv, PlaceInv, NoneLeftBehind, UnderWay, Queued, Completed, Holds
<1> QED
  BY <1>1, Invariant, PTL

-----------------------------------------------------------------------------
(* The blocking calls: results, iterators and transactions *)

ResultSet == [live : BOOLEAN, of : Nat, values : Int]

\* The types of the connector's state.
Connector ==
    [initialized : BOOLEAN, multi : BOOLEAN, first : BOOLEAN, last : Nat,
     up : BOOLEAN, session : BOOLEAN, q : Seq(Outcome), cur : Nat, reading : BOOLEAN,
     errno : BOOLEAN, auto : BOOLEAN, pending : BOOLEAN, kept : BOOLEAN,
     rs : ResultSet, it : {"none", "at", "end"}, tx : {"none", "open"},
     committed : BOOLEAN, outer : Seq(BOOLEAN), asked : BOOLEAN, ended : BOOLEAN,
     refused : BOOLEAN, e : BOOLEAN, ec : BOOLEAN,
     clean : BOOLEAN, out : Seq(Nat), fault : {"none", "terminate"}]

\* Where the reading of a query's results is, as long as no call has failed:
\* the results up to the current one were delivered, or none yet.
Delivered(s) ==
    /\ s.initialized /\ s.up
    /\ s.cur \in 1..Len(s.q)
    /\ s.session \/ Len(s.q) = 1
    /\ s.first \/ (s.cur = 1 /\ ~s.rs.live)
    /\ Len(s.out) = IF s.first THEN s.cur ELSE 0
    /\ \A i \in DOMAIN s.out : s.out[i] = i
    /\ s.rs.live => /\ s.rs.of = s.cur /\ s.last = s.cur
                    /\ s.rs.values = IF s.q[s.cur] = "rows" THEN 1 ELSE 0

\* The scopes: committed_ is set by the calls that ask for a commit.
Flags(s) ==
    /\ s.committed => s.asked
    /\ \A i \in DOMAIN s.outer : s.outer[i] => s.asked

\* Inside a scope autocommit is off, until a scope inside it ends; only a
\* handle that is open is connected.
Scope(s) ==
    /\ s.tx = "open" /\ ~s.ended => ~s.auto
    /\ s.up => s.initialized
    /\ Flags(s)

\* Between two calls, and when a call is about to return.
Good(s) == s \in Connector /\ Scope(s) /\ (s.clean => Delivered(s))
Pre(s) == s \in Connector /\ Scope(s) /\ (s.clean /\ ~s.e => Delivered(s))

ResultsInv == Good(a)

-----------------------------------------------------------------------------
(* The client library *)

\* What no call of the library touches.
Same(s, t) ==
    /\ t.initialized = s.initialized /\ t.multi = s.multi /\ t.session = s.session
    /\ t.first = s.first /\ t.rs = s.rs /\ t.tx = s.tx
    /\ t.committed = s.committed /\ t.outer = s.outer /\ t.ended = s.ended /\ t.asked = s.asked

\* No command can be sent.
Stuck(s) == ~s.up \/ s.reading \/ mysql_more_results(s)

LEMMA LostFacts ==
    ASSUME NEW s \in Connector
    PROVE  /\ Lost(s) \in Connector /\ Same(s, Lost(s))
           /\ Lost(s).errno /\ ~Lost(s).up /\ ~Lost(s).pending
           /\ Lost(s).auto = s.auto /\ Lost(s).kept = s.kept
           /\ Lost(s).last = s.last /\ Lost(s).clean = s.clean /\ Lost(s).e = s.e
           /\ Lost(s).refused = s.refused
<1>1. <<>> \in Seq(Outcome) /\ 0 \in Nat
  OBVIOUS
<1> DEFINE t == Lost(s)
<1>2. t = [s EXCEPT !.up = FALSE, !.pending = FALSE, !.reading = FALSE,
                    !.q = <<>>, !.cur = 0, !.errno = TRUE]
  BY DEF Lost
<1> HIDE DEF t
<1>3. /\ t \in Connector /\ Same(s, t) /\ t.errno = TRUE /\ t.up = FALSE
      /\ t.pending = FALSE /\ t.auto = s.auto /\ t.kept = s.kept
      /\ t.last = s.last /\ t.clean = s.clean /\ t.e = s.e /\ t.refused = s.refused
  BY <1>1, <1>2 DEF Connector, Same
<1> QED
  BY <1>3 DEF t

\* A command fails, on a connection that then may be lost, or because the
\* server refuses it, or the results of the query before it are over.
LEMMA CommandFacts ==
    ASSUME NEW s \in Connector, NEW fate \in Fate
    PROVE  /\ Command(s, fate) \in Connector /\ Same(s, Command(s, fate))
           /\ Command(s, fate).auto = s.auto /\ Command(s, fate).kept = s.kept
           /\ Command(s, fate).last = s.last
           /\ Command(s, fate).up => s.up
           /\ Command(s, fate).pending => s.pending
           /\ Command(s, fate).errno \/ (~Command(s, fate).clean /\ s.up /\ Command(s, fate).up)
           /\ Command(s, fate).errno =>
                 \/ Stuck(s) /\ Command(s, fate) = [s EXCEPT !.errno = TRUE]
                 \/ Command(s, fate) = Lost(s)
                 \/ Command(s, fate).refused /\ ~Command(s, fate).clean /\ fate = "refused"
           /\ s.refused => Command(s, fate).refused
<1> DEFINE t == Command(s, fate)
<1>1. CASE Stuck(s)
  <2>1. t = [s EXCEPT !.errno = TRUE]
    BY <1>1 DEF Command, Stuck
  <2> HIDE DEF t
  <2>2. /\ t \in Connector /\ Same(s, t) /\ t.auto = s.auto /\ t.kept = s.kept
        /\ t.last = s.last /\ t.up = s.up /\ t.pending = s.pending /\ t.errno
        /\ t.refused = s.refused
    BY <2>1 DEF Connector, Same
  <2> QED
    BY <1>1, <2>1, <2>2 DEF t
<1>2. CASE ~Stuck(s) /\ fate = "lost"
  <2>1. t = Lost(s)
    BY <1>2 DEF Command, Stuck
  <2> QED
    BY <2>1, LostFacts
<1>3. CASE ~Stuck(s) /\ fate # "lost"
  <2> DEFINE x == fate = "refused"
             y == s.refused \/ fate = "refused"
  <2>1. t = [s EXCEPT !.errno = x, !.refused = y, !.q = <<>>, !.cur = 0, !.clean = FALSE,
                      !.out = <<>>]
    <3>1. /\ ~(~s.up \/ s.reading \/ mysql_more_results(s))
          /\ ~(s.up /\ ~s.reading /\ ~mysql_more_results(s) /\ fate = "lost")
      BY <1>3 DEF Stuck
    <3> QED
      BY <3>1, Zenon DEF Command
  <2>2. <<>> \in Seq(Outcome) /\ <<>> \in Seq(Nat)
    OBVIOUS
  <2>3. s.up
    BY <1>3 DEF Stuck
  <2>4. x \in BOOLEAN /\ y \in BOOLEAN
    BY Zenon
  <2>5. (x <=> fate = "refused") /\ (y <=> s.refused \/ x)
    OBVIOUS
  <2> HIDE DEF t, x, y
  <2>6. t \in Connector
    <3> DEFINE u == [s EXCEPT !.q = <<>>, !.cur = 0, !.clean = FALSE, !.out = <<>>]
    <3>1. u \in Connector
      BY <2>2 DEF Connector
    <3> DEFINE v == [u EXCEPT !.errno = x]
    <3>2. t = [v EXCEPT !.refused = y]
      BY <2>1 DEF Connector
    <3> HIDE DEF u
    <3>3. v \in Connector
      BY <2>4, <3>1 DEF Connector
    <3> HIDE DEF v
    <3> QED
      BY <2>4, <3>2, <3>3 DEF Connector
  <2>7. Same(s, t)
    BY <2>1 DEF Connector, Same
  <2>8. /\ t.auto = s.auto /\ t.kept = s.kept
        /\ t.last = s.last /\ t.up = s.up /\ t.pending = s.pending /\ t.errno = x
        /\ t.clean = FALSE /\ t.refused = y
    BY <2>1 DEF Connector
  <2> QED
    BY <2>3, <2>5, <2>6, <2>7, <2>8 DEF t
<1> HIDE DEF t
<1> QED
  BY <1>1, <1>2, <1>3, Zenon

LEMMA KeepFacts ==
    ASSUME NEW s \in Connector
    PROVE  /\ Keep(s) \in Connector /\ Same(s, Keep(s))
           /\ Keep(s).auto = s.auto /\ Keep(s).up = s.up /\ Keep(s).clean = s.clean
           /\ Keep(s).q = s.q /\ Keep(s).cur = s.cur /\ Keep(s).errno = s.errno
           /\ Keep(s).kept <=> s.kept \/ s.pending
           /\ Keep(s).last = s.last /\ Keep(s).out = s.out /\ Keep(s).refused = s.refused
<1> DEFINE k == s.kept \/ s.pending
<1>1. k \in BOOLEAN /\ Keep(s) = [s EXCEPT !.kept = k, !.pending = FALSE]
  BY Zenon DEF Keep
<1>2. k <=> s.kept \/ s.pending
  OBVIOUS
<1> HIDE DEF k
<1> DEFINE t == Keep(s)
<1>3. t = [s EXCEPT !.kept = k, !.pending = FALSE]
  BY <1>1
<1> HIDE DEF t
<1>4. t \in Connector
  BY <1>1, <1>3 DEF Connector
<1>5. Same(s, t)
  BY <1>3 DEF Connector, Same
<1>6. /\ t.auto = s.auto /\ t.up = s.up /\ t.clean = s.clean
      /\ t.q = s.q /\ t.cur = s.cur /\ t.errno = s.errno /\ t.kept = k
      /\ t.last = s.last /\ t.out = s.out /\ t.refused = s.refused
  BY <1>3 DEF Connector
<1> QED
  BY <1>2, <1>4, <1>5, <1>6 DEF t

LEMMA WrapperFacts ==
    ASSUME NEW s \in Connector
    PROVE  /\ error_wrapper(s) \in Connector /\ Same(s, error_wrapper(s))
           /\ error_wrapper(s).e = s.errno /\ error_wrapper(s).auto = s.auto
           /\ error_wrapper(s).up = s.up /\ error_wrapper(s).clean = s.clean
           /\ error_wrapper(s).q = s.q /\ error_wrapper(s).cur = s.cur
           /\ error_wrapper(s).last = s.last /\ error_wrapper(s).out = s.out
           /\ error_wrapper(s).kept = s.kept /\ error_wrapper(s).errno = s.errno
           /\ error_wrapper(s).pending = s.pending
           /\ error_wrapper(s).refused = s.refused
BY DEF error_wrapper, Connector, Same

-----------------------------------------------------------------------------
(* The scoped transaction *)

\* What the transaction's calls leave of a state: an error, or no results to
\* be read.
Attempted(s, t) ==
    /\ t \in Connector /\ Same(s, t)
    /\ t.up => s.up
    /\ t.e \/ ~t.clean

LEMMA AutocommitFacts ==
    ASSUME NEW s \in Connector, NEW mode \in BOOLEAN, NEW fate \in Fate
    PROVE  /\ Attempted(s, autocommit(s, mode, fate))
           /\ autocommit(s, mode, fate).e \/ autocommit(s, mode, fate).auto = mode
           /\ autocommit(s, mode, fate).e => autocommit(s, mode, fate).auto = s.auto
           /\ ~s.kept /\ ~s.pending => ~autocommit(s, mode, fate).kept
           /\ ~s.kept /\ ~mode => ~autocommit(s, mode, fate).kept
           /\ ~s.kept /\ Stuck(s) => ~autocommit(s, mode, fate).kept
           /\ s.refused => autocommit(s, mode, fate).refused
<1> DEFINE t == Command(s, fate)
           set == [t EXCEPT !.auto = mode]
           m == mysql_autocommit(s, mode, fate)
           r == autocommit(s, mode, fate)
<1>1. /\ t \in Connector /\ Same(s, t) /\ t.auto = s.auto /\ t.kept = s.kept
      /\ t.up => s.up
      /\ t.pending => s.pending
      /\ t.errno \/ (~t.clean /\ s.up /\ t.up)
      /\ s.refused => t.refused
  BY CommandFacts
<1>2. Stuck(s) => t.errno
  BY DEF Command, Stuck, Connector
<1>3. CASE t.errno
  <2>1. m = t
    BY <1>3 DEF mysql_autocommit
  <2> HIDE DEF t, m
  <2>2. r = error_wrapper(t)
    BY <2>1 DEF autocommit, m
  <2>3. /\ r \in Connector /\ Same(s, r) /\ r.e /\ r.kept = s.kept /\ r.up = t.up
        /\ r.refused = t.refused /\ r.auto = s.auto
    BY <1>1, <1>3, <2>2, WrapperFacts DEF Same
  <2> QED
    BY <1>1, <2>3 DEF Attempted
<1>4. CASE ~t.errno
  <2>1. m = IF mode THEN Keep(set) ELSE set
    BY <1>4 DEF mysql_autocommit
  <2>2. /\ set \in Connector /\ Same(t, set) /\ set.auto = mode /\ set.kept = t.kept
        /\ set.up = t.up /\ set.clean = t.clean /\ set.pending = t.pending
        /\ set.errno = t.errno
        /\ set.refused = t.refused
    <3> HIDE DEF t
    <3> QED
      BY <1>1 DEF Connector, Same
  <2> HIDE DEF t, m, set
  <2>3. /\ m \in Connector /\ Same(t, m) /\ m.auto = mode /\ m.up = t.up /\ m.clean = t.clean
        /\ m.kept => t.kept \/ (mode /\ t.pending)
        /\ m.refused = t.refused /\ m.errno = t.errno
    <3>1. CASE mode
      <4>1. m = Keep(set)
        BY <2>1, <3>1
      <4>2. /\ m \in Connector /\ Same(set, m) /\ m.auto = set.auto /\ m.up = set.up
            /\ m.clean = set.clean /\ m.refused = set.refused /\ m.errno = set.errno
            /\ m.kept <=> set.kept \/ set.pending
        BY <2>2, <4>1, KeepFacts
      <4>3. Same(t, m)
        BY <2>2, <4>2 DEF Same
      <4> QED
        BY <2>2, <3>1, <4>2, <4>3
    <3>2. CASE ~mode
      <4>1. m = set
        BY <2>1, <3>2
      <4> QED
        BY <2>2, <4>1
    <3> QED
      BY <3>1, <3>2
  <2>4. r = error_wrapper(m)
    BY DEF autocommit, m
  <2>5. r \in Connector /\ Same(t, r) /\ r.auto = mode /\ r.kept = m.kept /\ r.up = t.up
        /\ ~r.clean /\ r.refused = t.refused /\ r.e = t.errno
    BY <1>1, <1>4, <2>3, <2>4, WrapperFacts DEF Same
  <2>6. Same(s, r)
    BY <1>1, <2>5 DEF Same
  <2> QED
    BY <1>1, <1>2, <1>4, <2>3, <2>5, <2>6 DEF Attempted
<1> QED
  BY <1>3, <1>4

LEMMA CommitFacts ==
    ASSUME NEW s \in Connector, NEW fate \in Fate
    PROVE  /\ Attempted(s, commit(s, fate))
           /\ commit(s, fate).auto = s.auto
<1> DEFINE t == Command(s, fate)
           r == commit(s, fate)
<1>1. /\ t \in Connector /\ Same(s, t) /\ t.auto = s.auto
      /\ t.up => s.up
      /\ t.errno \/ ~t.clean
  BY CommandFacts
<1> HIDE DEF t
<1>2. CASE ~s.initialized
  <2>1. r = [s EXCEPT !.e = TRUE]
    BY <1>2 DEF commit
  <2> HIDE DEF r
  <2>2. r \in Connector /\ Same(s, r) /\ r.up = s.up /\ r.e = TRUE /\ r.auto = s.auto
    BY <2>1 DEF Connector, Same
  <2> QED
    BY <2>2 DEF Attempted, r
<1>3. CASE s.initialized /\ t.errno
  <2>1. r = error_wrapper(t)
    BY <1>3 DEF commit, mysql_commit, t
  <2> HIDE DEF r
  <2>2. r \in Connector /\ Same(s, r) /\ r.up = t.up /\ r.e /\ r.auto = s.auto
    BY <1>1, <1>3, <2>1, WrapperFacts DEF Same
  <2> QED
    BY <1>1, <2>2 DEF Attempted, r
<1>4. CASE s.initialized /\ ~t.errno
  <2> DEFINE k == Keep(t)
  <2>1. r = error_wrapper(k)
    BY <1>4 DEF commit, mysql_commit, t
  <2>2. /\ k \in Connector /\ Same(t, k) /\ k.auto = t.auto /\ k.up = t.up
        /\ k.clean = t.clean
    BY <1>1, KeepFacts
  <2> HIDE DEF k, r
  <2>3. /\ r \in Connector /\ Same(k, r) /\ r.auto = k.auto /\ r.up = k.up
        /\ r.clean = k.clean
    BY <2>1, <2>2, WrapperFacts
  <2>4. Same(s, r)
    BY <1>1, <2>2, <2>3 DEF Same
  <2> QED
    BY <1>1, <1>4, <2>2, <2>3, <2>4 DEF Attempted, r
<1> QED
  BY <1>2, <1>3, <1>4

\* A rollback leaves nothing pending, or no command can be sent any more, so
\* that the autocommit that follows it in the destructor fails as well, or the
\* server has refused it.
LEMMA RollbackFacts ==
    ASSUME NEW s \in Connector, Scope(s), NEW fate \in Fate
    PROVE  /\ Attempted(s, rollback(s, fate))
           /\ rollback(s, fate).auto = s.auto
           /\ rollback(s, fate).kept = s.kept
           /\ \/ ~rollback(s, fate).pending \/ Stuck(rollback(s, fate))
              \/ rollback(s, fate).refused
<1> DEFINE t == Command(s, fate)
           r == rollback(s, fate)
<1>1. /\ t \in Connector /\ Same(s, t) /\ t.auto = s.auto /\ t.kept = s.kept
      /\ t.up => s.up
      /\ t.errno \/ ~t.clean
      /\ t.errno => \/ Stuck(s) /\ t = [s EXCEPT !.errno = TRUE]
                    \/ t = Lost(s)
                    \/ t.refused
  BY CommandFacts
<1> HIDE DEF t
<1>2. CASE ~s.initialized
  <2>1. r = [s EXCEPT !.e = TRUE]
    BY <1>2 DEF rollback
  <2> HIDE DEF r
  <2>2. /\ r \in Connector /\ Same(s, r) /\ r.up = s.up /\ r.e = TRUE /\ r.auto = s.auto
        /\ r.kept = s.kept
    BY <2>1 DEF Connector, Same
  <2>3. ~r.up
    BY <1>2, <2>2 DEF Scope, Flags
  <2> QED
    BY <2>2, <2>3 DEF Attempted, Stuck, r
<1>3. CASE s.initialized /\ t.errno
  <2>1. r = error_wrapper(t)
    BY <1>3 DEF rollback, mysql_rollback, t
  <2> HIDE DEF r
  <2>2. /\ r \in Connector /\ Same(t, r) /\ r.up = t.up /\ r.e = t.errno /\ r.auto = t.auto
        /\ r.kept = t.kept /\ r.refused = t.refused
    BY <1>1, <2>1, WrapperFacts
  <2>3. Same(s, r)
    BY <1>1, <2>2 DEF Same
  <2>4. ~r.pending \/ Stuck(r) \/ r.refused
    <3>1. CASE t = Lost(s)
      <4>1. ~t.up
        BY <3>1, LostFacts
      <4> QED
        BY <2>2, <4>1 DEF Stuck
    <3>2. CASE Stuck(s) /\ t = [s EXCEPT !.errno = TRUE]
      <4>1. r.up = s.up /\ r.reading = s.reading /\ r.cur = s.cur /\ r.q = s.q
        BY <2>1, <3>2 DEF error_wrapper, Connector
      <4> QED
        BY <3>2, <4>1 DEF Stuck, mysql_more_results
    <3> QED
      BY <1>1, <1>3, <2>2, <3>1, <3>2
  <2> QED
    BY <1>1, <1>3, <2>2, <2>3, <2>4 DEF Attempted, r
<1>4. CASE s.initialized /\ ~t.errno
  <2> DEFINE k == [t EXCEPT !.pending = FALSE]
  <2>1. r = error_wrapper(k)
    BY <1>4 DEF rollback, mysql_rollback, t
  <2>2. /\ k \in Connector /\ Same(t, k) /\ k.auto = t.auto /\ k.up = t.up
        /\ k.clean = t.clean /\ k.kept = t.kept /\ k.pending = FALSE
    BY <1>1 DEF Connector, Same
  <2> HIDE DEF k, r
  <2>3. /\ r \in Connector /\ Same(k, r) /\ r.auto = k.auto /\ r.up = k.up
        /\ r.clean = k.clean /\ r.kept = k.kept /\ r.pending = k.pending
    BY <2>1, <2>2, WrapperFacts
  <2>4. Same(s, r)
    BY <1>1, <2>2, <2>3 DEF Same
  <2> QED
    BY <1>1, <1>4, <2>2, <2>3, <2>4 DEF Attempted, r
<1> QED
  BY <1>2, <1>3, <1>4

\* The destructor keeps no writes but those of a commit, unless its rollback
\* is refused.
LEMMA EndFacts ==
    ASSUME NEW s \in Connector, Scope(s), NEW fate \in Fate, NEW fateLater \in Fate
    PROVE  /\ Attempted(s, end_scope(s, fate, fateLater))
           /\ ~s.kept /\ ~s.committed => \/ ~end_scope(s, fate, fateLater).kept
                                        \/ end_scope(s, fate, fateLater).refused
<1> DEFINE r == IF s.committed THEN s ELSE rollback(s, fate)
           t == autocommit(r, TRUE, fateLater)
<1>1. t = end_scope(s, fate, fateLater)
  BY DEF end_scope
<1>2. /\ r \in Connector /\ Same(s, r)
      /\ r.up => s.up
      /\ ~s.committed => r.kept = s.kept /\ (~r.pending \/ Stuck(r) \/ r.refused)
  <2>1. CASE s.committed
    BY <2>1 DEF Same
  <2>2. CASE ~s.committed
    BY <2>2, RollbackFacts DEF Attempted
  <2> QED
    BY <2>1, <2>2
<1> HIDE DEF r
<1>3. /\ Attempted(r, t)
      /\ ~r.kept /\ ~r.pending => ~t.kept
      /\ ~r.kept /\ Stuck(r) => ~t.kept
      /\ r.refused => t.refused
  BY <1>2, AutocommitFacts
<1>4. Attempted(s, t)
  BY <1>2, <1>3 DEF Attempted, Same
<1> HIDE DEF t
<1> QED
  BY <1>1, <1>2, <1>3, <1>4

-----------------------------------------------------------------------------
(* Queries and their results *)

\* What a query and the reading of its results leave: an error, or as many
\* results delivered as there should be.
Reads(s, t) ==
    /\ t \in Connector
    /\ t.initialized = s.initialized /\ t.tx = s.tx
    /\ t.committed = s.committed /\ t.outer = s.outer /\ t.ended = s.ended /\ t.asked = s.asked
    /\ t.auto = s.auto
    /\ t.up => s.up
    /\ t.clean /\ ~t.e => Delivered(t)

LEMMA FreeFacts ==
    ASSUME NEW s \in Connector
    PROVE  /\ free_result(s) \in Connector
           /\ free_result(s) = [s EXCEPT !.last = 0, !.rs = [s.rs EXCEPT !.live = FALSE]]
           /\ ~free_result(s).rs.live
<1> DEFINE x == [s.rs EXCEPT !.live = FALSE]
<1>1. s.rs \in ResultSet
  BY DEF Connector
<1>2. x \in ResultSet /\ ~x.live
  BY <1>1 DEF ResultSet
<1>3. free_result(s) = [s EXCEPT !.last = 0, !.rs = x]
  BY DEF free_result, Connector
<1> HIDE DEF x
<1>4. [s EXCEPT !.last = 0, !.rs = x] \in Connector /\ [s EXCEPT !.last = 0, !.rs = x].rs = x
  BY <1>2 DEF Connector
<1> QED
  BY <1>2, <1>3, <1>4 DEF x

\* The statements of a query.
Statements(kinds, multi) ==
    kinds \in Seq(Outcome) /\ Len(kinds) >= 1 /\ (multi \/ Len(kinds) = 1)

LEMMA QueriesFacts ==
    ASSUME NEW multi \in BOOLEAN
    PROVE  /\ \A kinds \in Queries(multi) : Statements(kinds, multi)
           /\ \A kind \in Outcome : Statements(<<kind>>, multi)
<1>1. ASSUME NEW kinds \in Queries(multi)
      PROVE  Statements(kinds, multi)
  <2>1. PICK n \in 1..MaxResults : kinds \in [1..n -> Outcome]
    BY DEF Queries
  <2>2. n \in Nat /\ n >= 1
    BY ResultsBound
  <2>3. kinds \in Seq(Outcome) /\ Len(kinds) = n
    BY <2>1, <2>2
  <2>4. Len(kinds) = 1 \/ multi
    BY DEF Queries
  <2> QED
    BY <2>2, <2>3, <2>4 DEF Statements
<1>2. ASSUME NEW kind \in Outcome
      PROVE  Statements(<<kind>>, multi)
  BY DEF Statements
<1> QED
  BY <1>1, <1>2

\* The first result of a query is next.
Begun(c, kinds, r, p) == [c EXCEPT !.q = kinds, !.cur = 1, !.reading = r, !.pending = p]

LEMMA BegunFacts ==
    ASSUME NEW c \in Connector, NEW kinds \in Seq(Outcome), NEW r \in BOOLEAN, NEW p \in BOOLEAN
    PROVE  LET d == Begun(c, kinds, r, p)
           IN  /\ d \in Connector /\ Same(c, d) /\ d.auto = c.auto /\ d.up = c.up
               /\ d.kept = c.kept /\ d.errno = c.errno /\ d.q = kinds /\ d.cur = 1
<1> DEFINE d == Begun(c, kinds, r, p)
<1>1. d \in Connector
  BY DEF Connector, Begun
<1>2. /\ Same(c, d) /\ d.auto = c.auto /\ d.up = c.up
      /\ d.kept = c.kept /\ d.errno = c.errno /\ d.q = kinds /\ d.cur = 1
  BY DEF Same, Connector, Begun
<1> QED
  BY <1>1, <1>2

LEMMA MembershipIsBoolean ==
    ASSUME NEW x, NEW S
    PROVE  (x \in S) \in BOOLEAN
<1>1. CASE x \in S
  BY <1>1
<1>2. CASE x \notin S
  BY <1>2
<1> QED
  BY <1>1, <1>2

\* A query that fails leaves an error; otherwise its first result is next.
LEMMA QueryFacts ==
    ASSUME NEW s \in Connector, Scope(s), NEW kinds, Statements(kinds, s.session),
           NEW lost \in BOOLEAN
    PROVE  /\ Reads(s, query(s, kinds, lost))
           /\ ~s.kept /\ ~s.auto => ~query(s, kinds, lost).kept
<1> DEFINE g == [free_result(s) EXCEPT !.first = FALSE]
           fate == IF lost THEN "lost" ELSE "done"
           c == Command(g, fate)
           m == mysql_real_query(g, kinds, lost)
           w == error_wrapper(m)
           t == query(s, kinds, lost)
<1>1. CASE ~s.initialized
  <2>1. t = [s EXCEPT !.e = TRUE]
    BY <1>1 DEF query
  <2> HIDE DEF t
  <2>2. /\ t \in Connector /\ t.initialized = s.initialized /\ t.tx = s.tx
        /\ t.committed = s.committed /\ t.outer = s.outer /\ t.ended = s.ended
        /\ t.asked = s.asked /\ t.auto = s.auto
        /\ t.up = s.up /\ t.e = TRUE /\ t.kept = s.kept
    BY <2>1 DEF Connector
  <2> QED
    BY <2>2 DEF Reads, t
<1>2. CASE s.initialized
  <2>1. t = [w EXCEPT !.clean = ~m.errno, !.out = <<>>]
    BY <1>2 DEF query
  <2>2. /\ g \in Connector /\ Same(g, g) /\ g.first = FALSE /\ g.initialized = s.initialized
        /\ g.tx = s.tx /\ g.committed = s.committed /\ g.outer = s.outer
        /\ g.ended = s.ended /\ g.asked = s.asked /\ g.auto = s.auto
        /\ g.up = s.up /\ g.kept = s.kept /\ g.session = s.session /\ ~g.rs.live
    <3> DEFINE f == free_result(s)
               x == [s.rs EXCEPT !.live = FALSE]
    <3>1. f \in Connector /\ f = [s EXCEPT !.last = 0, !.rs = x] /\ ~f.rs.live
      BY FreeFacts
    <3> HIDE DEF f, x
    <3>2. /\ f.initialized = s.initialized /\ f.tx = s.tx /\ f.committed = s.committed
          /\ f.outer = s.outer /\ f.ended = s.ended
          /\ f.asked = s.asked /\ f.auto = s.auto
          /\ f.up = s.up /\ f.kept = s.kept /\ f.session = s.session
      BY <3>1 DEF Connector
    <3>3. g = [f EXCEPT !.first = FALSE]
      BY DEF f
    <3> HIDE DEF g
    <3>4. /\ g \in Connector /\ g.first = FALSE /\ g.initialized = f.initialized
          /\ g.tx = f.tx /\ g.committed = f.committed /\ g.outer = f.outer
          /\ g.ended = f.ended /\ g.asked = f.asked /\ g.auto = f.auto
          /\ g.up = f.up /\ g.kept = f.kept /\ g.session = f.session /\ g.rs = f.rs
      <4>1. f \in Connector
        BY <3>1
      <4> QED
        BY <4>1, <3>3 DEF Connector
    <3> QED
      BY <3>1, <3>2, <3>4 DEF Same
  <2> HIDE DEF g
  <2>3. /\ c \in Connector /\ Same(g, c) /\ c.auto = g.auto /\ c.kept = g.kept
        /\ c.up => g.up
        /\ c.errno \/ c.up
    <3>1. fate \in Fate
      BY DEF Fate
    <3> QED
      BY <2>2, <3>1, CommandFacts
  <2>4. ASSUME m \in Connector, Same(g, m), m.auto = g.auto, m.up => g.up,
               ~g.kept /\ ~g.auto => ~m.kept,
               ~m.errno => m.up /\ m.q = kinds /\ m.cur = 1
        PROVE  /\ Reads(s, t)
               /\ ~s.kept /\ ~s.auto => ~t.kept
    <3> DEFINE ok == ~m.errno
    <3>1. ok \in BOOLEAN
      BY <2>4 DEF Connector
    <3>2. /\ w \in Connector /\ Same(m, w) /\ w.e = m.errno /\ w.auto = m.auto
          /\ w.up = m.up /\ w.q = m.q /\ w.cur = m.cur /\ w.kept = m.kept
      BY <2>4, WrapperFacts
    <3>3. t = [w EXCEPT !.clean = ok, !.out = <<>>]
      BY <2>1
    <3>4. <<>> \in Seq(Nat) /\ Len(<<>>) = 0 /\ DOMAIN <<>> = {}
      OBVIOUS
    <3>5. ok <=> ~m.errno
      OBVIOUS
    <3> HIDE DEF m, w, t, ok
    <3>6. /\ t \in Connector /\ Same(w, t) /\ t.auto = w.auto /\ t.up = w.up /\ t.q = w.q
          /\ t.cur = w.cur /\ t.kept = w.kept /\ t.e = w.e /\ t.out = <<>>
      BY <3>1, <3>2, <3>3, <3>4 DEF Connector, Same
    <3>7. /\ t.initialized = s.initialized /\ t.tx = s.tx /\ t.committed = s.committed
          /\ t.outer = s.outer /\ t.ended = s.ended
          /\ t.asked = s.asked /\ t.session = s.session /\ t.first = FALSE /\ ~t.rs.live
      BY <2>2, <2>4, <3>2, <3>6 DEF Same
    <3>8. /\ t.auto = s.auto
          /\ t.up => s.up
          /\ ~s.kept /\ ~s.auto => ~t.kept
      BY <2>2, <2>4, <3>2, <3>6
    <3>9. ASSUME ~t.e
          PROVE  Delivered(t)
      <4>1. t.up /\ t.q = kinds /\ t.cur = 1
        BY <2>4, <3>2, <3>6, <3>9
      <4>2. Len(kinds) \in Nat /\ Len(kinds) >= 1 /\ (s.session \/ Len(kinds) = 1)
        BY DEF Statements
      <4>3. t.cur \in 1..Len(t.q)
        BY <4>1, <4>2
      <4>4. t.session \/ Len(t.q) = 1
        BY <3>7, <4>1, <4>2
      <4> QED
        BY <1>2, <3>4, <3>6, <3>7, <4>1, <4>3, <4>4 DEF Delivered
    <3> QED
      BY <3>6, <3>7, <3>8, <3>9 DEF Reads
  <2>5. CASE c.errno
    <3>1. m = c
      BY <2>5 DEF mysql_real_query
    <3> QED
      BY <2>3, <2>4, <2>5, <3>1
  <2>6. CASE ~c.errno /\ kinds[1] = "error"
    <3>1. m = [c EXCEPT !.errno = TRUE]
      BY <2>6 DEF mysql_real_query
    <3> HIDE DEF m, c
    <3>2. /\ m \in Connector /\ Same(c, m) /\ m.auto = c.auto /\ m.up = c.up
          /\ m.kept = c.kept /\ m.errno = TRUE
      BY <2>3, <3>1 DEF Connector, Same
    <3>3. Same(g, m)
      BY <2>3, <3>2 DEF Same
    <3> QED
      BY <2>3, <2>4, <3>2, <3>3 DEF m
  <2>7. CASE ~c.errno /\ kinds[1] # "error"
    <3> DEFINE pend == c.pending \/ "write" \in Range(kinds)
               read == kinds[1] \in HasFields
               done == Begun(c, kinds, read, pend)
    <3>1. m = IF g.auto THEN Keep(done) ELSE done
      BY <2>3, <2>7 DEF mysql_real_query, Begun, Connector
    <3>2. pend \in BOOLEAN /\ read \in BOOLEAN
      <4>1. pend \in BOOLEAN
        BY Zenon
      <4>2. read \in BOOLEAN
        BY MembershipIsBoolean
      <4> QED
        BY <4>1, <4>2, Zenon
    <3>3. kinds \in Seq(Outcome)
      BY DEF Statements
    <3> HIDE DEF pend, read, c
    <3>4. /\ done \in Connector /\ Same(c, done) /\ done.auto = c.auto /\ done.up = c.up
          /\ done.kept = c.kept /\ done.errno = c.errno /\ done.q = kinds /\ done.cur = 1
      <4>1. c \in Connector
        BY <2>3
      <4> QED
        BY <3>2, <3>3, <4>1, BegunFacts
    <3> HIDE DEF done, m
    <3>5. CASE g.auto
      <4>1. m = Keep(done)
        BY <3>1, <3>5
      <4>2. /\ m \in Connector /\ Same(done, m) /\ m.auto = done.auto /\ m.up = done.up
            /\ m.q = done.q /\ m.cur = done.cur /\ m.errno = done.errno
        BY <3>4, <4>1, KeepFacts
      <4>3. Same(g, m)
        BY <2>3, <3>4, <4>2 DEF Same
      <4> QED
        BY <2>3, <2>4, <2>7, <3>4, <3>5, <4>2, <4>3 DEF m
    <3>6. CASE ~g.auto
      <4>1. m = done
        BY <3>1, <3>6
      <4>2. Same(g, m)
        BY <2>3, <3>4, <4>1 DEF Same
      <4> QED
        BY <2>3, <2>4, <2>7, <3>4, <4>1, <4>2 DEF m
    <3> QED
      BY <3>5, <3>6
  <2> QED
    BY <2>5, <2>6, <2>7
<1> QED
  BY <1>1, <1>2 DEF Connector

\* What the reading of a result leaves alone.
Scoped(s, t) ==
    /\ t.initialized = s.initialized /\ t.tx = s.tx
    /\ t.committed = s.committed /\ t.outer = s.outer /\ t.ended = s.ended /\ t.asked = s.asked
    /\ t.auto = s.auto /\ t.kept = s.kept
    /\ t.up => s.up

\* The current result is to be stored, those before it were delivered.
Ready(s) ==
    /\ s.initialized /\ s.up /\ s.first
    /\ s.cur \in 1..Len(s.q)
    /\ s.session \/ Len(s.q) = 1
    /\ Len(s.out) = s.cur - 1
    /\ \A i \in DOMAIN s.out : s.out[i] = i

\* The result set holds the current result, or nothing.
LEMMA AssignFacts ==
    ASSUME NEW s \in Connector, s.clean /\ ~s.e => Ready(s), s.last = 0 \/ s.last = s.cur
    PROVE  /\ assign(s) \in Connector /\ Scoped(s, assign(s))
           /\ assign(s).clean /\ ~assign(s).e => Delivered(assign(s))
<1> DEFINE some == s.last # 0 /\ s.q[s.cur] = "rows"
           x == CASE s.last = 0 -> EmptySet
                  [] some /\ s.e -> [EmptySet EXCEPT !.values = -1]
                  [] OTHER -> [live |-> TRUE, of |-> s.cur, values |-> IF some THEN 1 ELSE 0]
           o == IF s.clean /\ ~s.e THEN Append(s.out, s.cur) ELSE s.out
           t == assign(s)
<1>1. t = [s EXCEPT !.rs = x, !.out = o]
  BY DEF assign
<1>2. s.cur \in Nat /\ s.out \in Seq(Nat) /\ s.last \in Nat /\ s.q \in Seq(Outcome)
  BY DEF Connector
<1>3. /\ x \in ResultSet
      /\ x.live /\ ~s.e => /\ x.of = s.cur /\ s.last = s.cur
                           /\ x.values = IF s.q[s.cur] = "rows" THEN 1 ELSE 0
  <2>1. CASE s.last = 0
    BY <2>1 DEF EmptySet, ResultSet
  <2>2. CASE s.last # 0 /\ some /\ s.e
    <3>1. x = [EmptySet EXCEPT !.values = -1]
      BY <2>2
    <3>2. \A i \in Int : /\ [EmptySet EXCEPT !.values = i] \in ResultSet
                         /\ ~[EmptySet EXCEPT !.values = i].live
      BY DEF EmptySet, ResultSet
    <3>3. -1 \in Int
      OBVIOUS
    <3> HIDE DEF x
    <3> QED
      BY <3>1, <3>2, <3>3
  <2>3. CASE s.last # 0 /\ ~(some /\ s.e)
    <3>1. x = [live |-> TRUE, of |-> s.cur, values |-> IF some THEN 1 ELSE 0]
      BY <2>3
    <3>2. some <=> s.q[s.cur] = "rows"
      BY <2>3
    <3>3. (IF some THEN 1 ELSE 0) \in Int
      OBVIOUS
    <3> HIDE DEF x, some
    <3> QED
      BY <1>2, <2>3, <3>1, <3>2, <3>3 DEF ResultSet
  <2> QED
    BY <2>1, <2>2, <2>3
<1>4. o \in Seq(Nat)
  <2>1. Append(s.out, s.cur) \in Seq(Nat)
    BY <1>2
  <2> QED
    BY <1>2, <2>1
<1> HIDE DEF x, o, t, some
<1>5. /\ t \in Connector /\ t.rs = x /\ t.out = o /\ t.clean = s.clean /\ t.e = s.e
      /\ t.cur = s.cur /\ t.q = s.q /\ t.first = s.first /\ t.last = s.last
      /\ t.session = s.session /\ t.up = s.up /\ t.initialized = s.initialized
  BY <1>1, <1>3, <1>4 DEF Connector
<1>6. Scoped(s, t)
  BY <1>1, <1>3, <1>4 DEF Connector, Scoped
<1>7. ASSUME t.clean, ~t.e
      PROVE  Delivered(t)
  <2>1. Ready(s) /\ o = Append(s.out, s.cur) /\ ~s.e
    BY <1>5, <1>7 DEF o
  <2>2. Len(s.out) = s.cur - 1 /\ \A i \in DOMAIN s.out : s.out[i] = i
    BY <2>1 DEF Ready
  <2>3. /\ Len(o) = s.cur
        /\ \A i \in DOMAIN o : o[i] = i
    <3>1. /\ Len(Append(s.out, s.cur)) = Len(s.out) + 1
          /\ DOMAIN Append(s.out, s.cur) = 1..(Len(s.out) + 1)
          /\ DOMAIN s.out = 1..Len(s.out) /\ Len(s.out) \in Nat
          /\ \A i \in 1..Len(s.out) : Append(s.out, s.cur)[i] = s.out[i]
          /\ Append(s.out, s.cur)[Len(s.out) + 1] = s.cur
      BY <1>2
    <3>2. Len(s.out) + 1 = s.cur
      BY <1>2, <2>2
    <3>3. \A i \in DOMAIN o : i \in 1..Len(s.out) \/ i = s.cur
      BY <2>1, <3>1, <3>2
    <3> QED
      BY <2>1, <2>2, <3>1, <3>2, <3>3
  <2> QED
    BY <1>3, <1>5, <2>1, <2>3 DEF Delivered, Ready
<1> QED
  BY <1>5, <1>6, <1>7 DEF t

\* mysql_store_result stores the current result, or there is none, or the
\* connection is lost.
LEMMA StoredFacts ==
    ASSUME NEW s \in Connector, s.clean => Ready(s), NEW lost \in BOOLEAN
    PROVE  LET b == error_wrapper(mysql_store_result(s, lost))
           IN  /\ b \in Connector /\ Scoped(s, b)
               /\ b.clean /\ ~b.e => Ready(b)
               /\ b.last = 0 \/ b.last = b.cur
<1> DEFINE m == mysql_store_result(s, lost)
           b == error_wrapper(m)
<1>1. CASE ~s.reading
  <2>1. m = [s EXCEPT !.last = 0]
    BY <1>1 DEF mysql_store_result
  <2>2. b = [s EXCEPT !.last = 0, !.e = s.errno]
    BY <2>1 DEF error_wrapper, Connector
  <2> HIDE DEF m, b
  <2>3. /\ b \in Connector /\ Scoped(s, b) /\ b.last = 0
        /\ b.initialized = s.initialized /\ b.up = s.up /\ b.first = s.first
        /\ b.cur = s.cur /\ b.q = s.q /\ b.session = s.session /\ b.out = s.out
        /\ b.clean = s.clean
    BY <2>2 DEF Connector, Scoped
  <2> QED
    BY <2>3 DEF Ready, b, m
<1>2. CASE s.reading /\ lost
  <2> DEFINE l == Lost(s)
  <2>1. m = [l EXCEPT !.last = 0]
    BY <1>2 DEF mysql_store_result
  <2>2. /\ l \in Connector /\ Same(s, l) /\ l.errno /\ ~l.up /\ l.auto = s.auto
        /\ l.kept = s.kept
    BY LostFacts
  <2> HIDE DEF l
  <2>3. b = [l EXCEPT !.last = 0, !.e = l.errno]
    <3>1. l \in Connector
      BY <2>2
    <3> QED
      BY <2>1, <3>1 DEF error_wrapper, Connector
  <2> HIDE DEF m, b
  <2>4. /\ b \in Connector /\ b.last = 0 /\ b.e = l.errno /\ b.up = l.up
        /\ b.auto = l.auto /\ b.kept = l.kept /\ b.initialized = l.initialized
        /\ b.tx = l.tx /\ b.committed = l.committed /\ b.outer = l.outer
        /\ b.ended = l.ended /\ b.asked = l.asked
    <3>1. l \in Connector
      BY <2>2
    <3> QED
      BY <2>3, <3>1 DEF Connector
  <2> QED
    BY <2>2, <2>4 DEF Same, Scoped, b, m
<1>3. CASE s.reading /\ ~lost
  <2>1. m = [s EXCEPT !.reading = FALSE, !.last = s.cur]
    BY <1>3 DEF mysql_store_result
  <2>2. b = [s EXCEPT !.reading = FALSE, !.last = s.cur, !.e = s.errno]
    BY <2>1 DEF error_wrapper, Connector
  <2> HIDE DEF m, b
  <2>3. /\ b \in Connector /\ Scoped(s, b) /\ b.last = b.cur
        /\ b.initialized = s.initialized /\ b.up = s.up /\ b.first = s.first
        /\ b.cur = s.cur /\ b.q = s.q /\ b.session = s.session /\ b.out = s.out
        /\ b.clean = s.clean
    BY <2>2 DEF Connector, Scoped
  <2> QED
    BY <2>3 DEF Ready, b, m
<1> QED
  BY <1>1, <1>2, <1>3 DEF Connector

\* mysql_next_result goes on to the next result, or fails.
LEMMA NextFacts ==
    ASSUME NEW s \in Connector, s.clean => Delivered(s), s.first,
           mysql_more_results(s), NEW lost \in BOOLEAN
    PROVE  LET n == error_wrapper(mysql_next_result(s, lost))
           IN  /\ n \in Connector /\ Scoped(s, n)
               /\ n.clean /\ ~n.e => Ready(n)
<1> DEFINE m == mysql_next_result(s, lost)
           n == error_wrapper(m)
<1>1. ASSUME m.errno, m \in Connector, Scoped(s, m)
      PROVE  n \in Connector /\ Scoped(s, n) /\ n.e
  <2> HIDE DEF m
  <2>1. /\ n \in Connector /\ Same(m, n) /\ n.e = m.errno /\ n.auto = m.auto /\ n.up = m.up
        /\ n.kept = m.kept
    BY <1>1, WrapperFacts
  <2> HIDE DEF n
  <2> QED
    BY <1>1, <2>1 DEF Scoped, Same
<1>2. CASE s.reading
  <2>1. m = [s EXCEPT !.errno = TRUE]
    BY <1>2 DEF mysql_next_result
  <2>2. m \in Connector /\ m.errno = TRUE /\ Scoped(s, m)
    <3> HIDE DEF m
    <3> QED
      BY <2>1 DEF Connector, Scoped
  <2> QED
    BY <1>1, <2>2
<1>3. CASE ~s.reading /\ lost
  <2>1. m = Lost(s)
    BY <1>3 DEF mysql_next_result
  <2>2. m.errno /\ m \in Connector /\ Scoped(s, m)
    <3> HIDE DEF m
    <3> QED
      BY <2>1, LostFacts DEF Same, Scoped
  <2> QED
    BY <1>1, <2>2
<1>4. CASE ~s.reading /\ ~lost /\ s.q[s.cur + 1] = "error"
  <2> DEFINE part == SubSeq(s.q, 1, s.cur)
  <2>1. m = [s EXCEPT !.errno = TRUE, !.q = part]
    BY <1>4 DEF mysql_next_result, Connector
  <2>2. part \in Seq(Outcome)
    <3>1. s.q \in Seq(Outcome) /\ s.cur \in Nat /\ s.cur < Len(s.q)
      BY DEF Connector, mysql_more_results
    <3> QED
      BY <3>1
  <2>3. m \in Connector /\ m.errno = TRUE /\ Scoped(s, m)
    <3> HIDE DEF m, part
    <3> QED
      BY <2>1, <2>2 DEF Connector, Scoped
  <2> QED
    BY <1>1, <2>3
<1>5. CASE ~s.reading /\ ~lost /\ s.q[s.cur + 1] # "error"
  <2> DEFINE r == s.q[s.cur + 1] \in HasFields
  <2>1. m = [s EXCEPT !.errno = FALSE, !.cur = s.cur + 1, !.reading = r]
    BY <1>5 DEF mysql_next_result, Connector
  <2>2. r \in BOOLEAN
    BY MembershipIsBoolean
  <2>3. s.cur + 1 \in Nat /\ s.cur \in Nat /\ s.q \in Seq(Outcome)
    BY DEF Connector
  <2> HIDE DEF m, r
  <2>4. /\ m \in Connector /\ Same(s, m) /\ m.auto = s.auto /\ m.up = s.up /\ m.kept = s.kept
        /\ m.cur = s.cur + 1 /\ m.q = s.q /\ m.out = s.out /\ m.clean = s.clean
    BY <2>1, <2>2, <2>3 DEF Connector, Same
  <2>5. /\ n \in Connector /\ Same(m, n) /\ n.auto = m.auto /\ n.up = m.up /\ n.kept = m.kept
        /\ n.cur = m.cur /\ n.q = m.q /\ n.out = m.out /\ n.clean = m.clean
    BY <2>4, WrapperFacts
  <2> HIDE DEF n
  <2>6. Scoped(s, n)
    BY <2>4, <2>5 DEF Same, Scoped
  <2>7. ASSUME n.clean
        PROVE  Ready(n)
    <3>1. Delivered(s)
      BY <2>4, <2>5, <2>7
    <3>2. n.cur \in 1..Len(n.q)
      <4>1. s.cur < Len(s.q) /\ Len(s.q) \in Nat
        BY <2>3 DEF mysql_more_results
      <4> QED
        BY <2>3, <2>4, <2>5, <4>1
    <3>3. Len(n.out) = n.cur - 1
      BY <2>3, <2>4, <2>5, <3>1 DEF Delivered
    <3>4. n.initialized /\ n.up /\ n.first /\ (n.session \/ Len(n.q) = 1)
      BY <2>4, <2>5, <3>1 DEF Delivered, Same
    <3>5. \A i \in DOMAIN n.out : n.out[i] = i
      BY <2>4, <2>5, <3>1 DEF Delivered
    <3> QED
      BY <3>2, <3>3, <3>4, <3>5 DEF Ready
  <2> QED
    BY <2>5, <2>6, <2>7 DEF n, m
<1> QED
  BY <1>1, <1>2, <1>3, <1>4, <1>5 DEF Connector

\* store_result delivers the next result of the query, or leaves an error.
LEMMA StoreFacts ==
    ASSUME NEW s \in Connector, s.clean => Delivered(s), NEW lost \in BOOLEAN
    PROVE  /\ Reads(s, store_result(s, lost))
           /\ store_result(s, lost).kept = s.kept
<1> DEFINE f == free_result(s)
           n == error_wrapper(mysql_next_result(f, lost))
           t == CASE ~s.first -> [s EXCEPT !.first = TRUE]
                  [] s.first /\ ~has_more_results(f) -> [f EXCEPT !.e = TRUE]
                  [] OTHER -> n
           b == error_wrapper(mysql_store_result(t, lost))
           r == store_result(s, lost)
<1>1. r = IF t.e THEN [t EXCEPT !.rs = EmptySet] ELSE assign(b)
  BY DEF store_result
<1>2. /\ f \in Connector /\ Scoped(s, f) /\ f.first = s.first /\ f.multi = s.multi
      /\ f.clean => Delivered(f)
  <2> DEFINE x == [s.rs EXCEPT !.live = FALSE]
  <2>1. f \in Connector /\ f = [s EXCEPT !.last = 0, !.rs = x] /\ ~f.rs.live
    BY FreeFacts
  <2> HIDE DEF f, x
  <2>2. /\ Scoped(s, f) /\ f.first = s.first /\ f.clean = s.clean
        /\ f.initialized = s.initialized /\ f.up = s.up /\ f.cur = s.cur /\ f.q = s.q
        /\ f.session = s.session /\ f.out = s.out /\ f.multi = s.multi
    BY <2>1 DEF Connector, Scoped
  <2>3. f.clean => Delivered(f)
    BY <2>1, <2>2 DEF Delivered
  <2> QED
    BY <2>1, <2>2, <2>3
<1>3. /\ t \in Connector /\ Scoped(s, t)
      /\ t.clean /\ ~t.e => Ready(t)
  <2>1. CASE ~s.first
    <3>1. t = [s EXCEPT !.first = TRUE]
      BY <2>1
    <3> HIDE DEF t
    <3>2. /\ t \in Connector /\ Scoped(s, t) /\ t.clean = s.clean /\ t.first = TRUE
          /\ t.initialized = s.initialized /\ t.up = s.up /\ t.cur = s.cur /\ t.q = s.q
          /\ t.session = s.session /\ t.out = s.out
      BY <3>1 DEF Connector, Scoped
    <3>3. ASSUME t.clean
          PROVE  Ready(t)
      <4>1. Delivered(s) /\ s.cur = 1 /\ Len(s.out) = 0
        BY <2>1, <3>2, <3>3 DEF Delivered
      <4> QED
        BY <3>2, <4>1 DEF Delivered, Ready
    <3> QED
      BY <3>2, <3>3
  <2>2. CASE s.first /\ ~has_more_results(f)
    <3>1. t = [f EXCEPT !.e = TRUE]
      BY <2>2
    <3> HIDE DEF t, f
    <3>2. t \in Connector /\ Scoped(f, t) /\ t.e = TRUE
      BY <1>2, <3>1 DEF Connector, Scoped
    <3> QED
      BY <1>2, <3>2 DEF Scoped
  <2>3. CASE s.first /\ has_more_results(f)
    <3>1. t = n
      BY <2>3
    <3> HIDE DEF t, f
    <3>2. mysql_more_results(f) /\ f.first
      BY <1>2, <2>3 DEF has_more_results, Connector
    <3>3. n \in Connector /\ Scoped(f, n) /\ (n.clean /\ ~n.e => Ready(n))
      BY <1>2, <3>2, NextFacts
    <3> HIDE DEF n
    <3> QED
      BY <1>2, <3>1, <3>3 DEF Scoped
  <2> QED
    BY <2>1, <2>2, <2>3 DEF Connector
<1> HIDE DEF t, f, n
<1>4. CASE t.e
  <2>1. r = [t EXCEPT !.rs = EmptySet] /\ EmptySet \in ResultSet
    BY <1>1, <1>4 DEF EmptySet, ResultSet
  <2> HIDE DEF r
  <2>2. r \in Connector /\ Scoped(t, r) /\ r.e = t.e
    <3>1. t \in Connector
      BY <1>3
    <3> QED
      BY <2>1, <3>1 DEF Connector, Scoped
  <2> QED
    BY <1>3, <1>4, <2>2 DEF Scoped, Reads, r
<1>5. CASE ~t.e
  <2>1. r = assign(b)
    BY <1>1, <1>5
  <2>2. /\ b \in Connector /\ Scoped(t, b)
        /\ b.clean /\ ~b.e => Ready(b)
        /\ b.last = 0 \/ b.last = b.cur
    BY <1>3, <1>5, StoredFacts
  <2> HIDE DEF b, r
  <2>3. /\ r \in Connector /\ Scoped(b, r)
        /\ r.clean /\ ~r.e => Delivered(r)
    BY <2>1, <2>2, AssignFacts
  <2> QED
    BY <1>3, <2>2, <2>3 DEF Scoped, Reads, r
<1> QED
  BY <1>4, <1>5

-----------------------------------------------------------------------------
(* The calls *)

LEMMA CalledFacts ==
    ASSUME Good(a), NEW form \in Form
    PROVE  /\ Good(Called(form)) /\ ~Called(form).kept
           /\ Called(form).initialized = a.initialized /\ Called(form).tx = a.tx
           /\ Called(form).committed = a.committed /\ Called(form).outer = a.outer
           /\ Called(form).ended = a.ended /\ Called(form).asked = a.asked
           /\ Called(form).auto = a.auto /\ Called(form).up = a.up
           /\ Called(form).session = a.session /\ Called(form).clean = a.clean
           /\ has_more_results(Called(form)) <=> has_more_results(a)
<1> DEFINE x == form = "ec" /\ a.ec
           c == Called(form)
<1>1. a \in Connector /\ Scope(a) /\ (a.clean => Delivered(a))
  BY DEF Good
<1>2. x \in BOOLEAN
  BY Zenon
<1>3. c = [a EXCEPT !.e = x, !.kept = FALSE, !.refused = FALSE]
  BY DEF Called
<1> HIDE DEF x, c
<1>4. /\ c \in Connector /\ c.kept = FALSE
      /\ c.initialized = a.initialized /\ c.tx = a.tx
      /\ c.committed = a.committed /\ c.outer = a.outer /\ c.ended = a.ended
      /\ c.asked = a.asked
      /\ c.auto = a.auto /\ c.up = a.up /\ c.session = a.session /\ c.clean = a.clean
  BY <1>1, <1>2, <1>3 DEF Connector
<1>5. /\ c.q = a.q /\ c.cur = a.cur /\ c.first = a.first /\ c.out = a.out /\ c.rs = a.rs
      /\ c.last = a.last /\ c.multi = a.multi
  BY <1>1, <1>2, <1>3 DEF Connector
<1>6. Scope(c)
  BY <1>1, <1>4 DEF Scope, Flags
<1>7. c.clean => Delivered(c)
  BY <1>1, <1>4, <1>5 DEF Delivered
<1>8. has_more_results(c) <=> has_more_results(a)
  BY <1>4, <1>5 DEF has_more_results, mysql_more_results, mysql_field_count
<1> QED
  BY <1>4, <1>6, <1>7, <1>8 DEF Good, c

LEMMA ReturnedFacts ==
    ASSUME NEW s, Pre(s), NEW form \in Form
    PROVE  /\ Good(Returned(s, form))
           /\ Returned(s, form).kept = s.kept /\ Returned(s, form).asked = s.asked
           /\ Returned(s, form).tx = s.tx /\ Returned(s, form).refused = s.refused
<1> DEFINE r == Returned(s, form)
           x == IF form = "ec" THEN s.e ELSE s.ec
           y == s.clean /\ ~s.e
           z == IF s.e THEN <<>> ELSE s.out
<1>1. s \in Connector /\ Scope(s) /\ (s.clean /\ ~s.e => Delivered(s))
  BY DEF Pre
<1>2. x \in BOOLEAN /\ z \in Seq(Nat)
  BY <1>1 DEF Connector
<1>3. y \in BOOLEAN
  BY Zenon
<1>4. r = [s EXCEPT !.ec = x, !.clean = y, !.e = FALSE, !.out = z]
  BY <1>1 DEF Returned, Connector
<1>5. (y <=> s.clean /\ ~s.e) /\ (~s.e => z = s.out)
  OBVIOUS
<1> HIDE DEF r, x, y, z
<1>6. /\ r \in Connector /\ r.kept = s.kept /\ r.asked = s.asked /\ r.tx = s.tx
      /\ r.refused = s.refused
      /\ r.initialized = s.initialized /\ r.committed = s.committed /\ r.outer = s.outer
      /\ r.ended = s.ended /\ r.auto = s.auto
      /\ r.up = s.up
  <2>1. s \in Connector
    BY <1>1
  <2>2. \A c1, c2 \in BOOLEAN, q \in Seq(Nat) :
          [s EXCEPT !.ec = c1, !.clean = c2, !.e = FALSE, !.out = q] \in Connector
    BY <2>1 DEF Connector
  <2>3. r \in Connector
    BY <1>2, <1>3, <1>4, <2>2
  <2> QED
    BY <1>4, <2>1, <2>3 DEF Connector
<1>7. /\ r.clean = y /\ r.out = z /\ r.q = s.q /\ r.cur = s.cur /\ r.first = s.first
      /\ r.rs = s.rs /\ r.last = s.last /\ r.session = s.session
  BY <1>1, <1>2, <1>3, <1>4 DEF Connector
<1>8. Scope(r)
  BY <1>1, <1>6 DEF Scope, Flags
<1>9. ASSUME r.clean
      PROVE  Delivered(r)
  <2>1. Delivered(s) /\ r.out = s.out
    BY <1>1, <1>5, <1>7, <1>9
  <2> QED
    BY <1>6, <1>7, <2>1 DEF Delivered
<1> QED
  BY <1>6, <1>8, <1>9 DEF Good, r

\* Connecting needs a handle that is not connected, which has nothing left to
\* be read.
LEMMA ConnectFacts ==
    ASSUME NEW s, Good(s), s.tx = "none",
           NEW multi \in BOOLEAN, NEW inited \in BOOLEAN, NEW ok \in BOOLEAN
    PROVE  Pre(service_connect(s, multi, inited, ok))
<1> DEFINE o == open(s, inited)
           b == IF s.initialized THEN s ELSE o
           t == mysql_real_connect(b, multi, ok)
           w == error_wrapper(t)
           r == service_connect(s, multi, inited, ok)
<1>1. s \in Connector /\ Scope(s) /\ (s.clean => Delivered(s))
  BY DEF Good
<1>2. r = IF ~s.initialized /\ o.e THEN o ELSE [w EXCEPT !.multi = multi]
  BY DEF service_connect
<1>3. ~s.initialized => /\ o = [s EXCEPT !.initialized = inited, !.e = ~inited]
                        /\ ~s.up /\ ~s.clean
                        /\ o \in Connector /\ o.initialized = inited /\ o.e = ~inited
                        /\ o.up = s.up /\ o.clean = s.clean /\ o.tx = s.tx
                        /\ o.committed = s.committed /\ o.outer = s.outer
                        /\ o.ended = s.ended /\ o.asked = s.asked
  <2> SUFFICES ASSUME ~s.initialized
               PROVE  /\ o = [s EXCEPT !.initialized = inited, !.e = ~inited]
                      /\ ~s.up /\ ~s.clean
                      /\ o \in Connector /\ o.initialized = inited /\ o.e = ~inited
                      /\ o.up = s.up /\ o.clean = s.clean /\ o.tx = s.tx
                      /\ o.committed = s.committed /\ o.outer = s.outer
                      /\ o.ended = s.ended /\ o.asked = s.asked
    OBVIOUS
  <2>1. o = [s EXCEPT !.initialized = inited, !.e = ~inited]
    BY DEF open, mysql_init
  <2>2. ~s.up
    BY <1>1 DEF Scope, Flags
  <2>3. ~s.clean
    BY <1>1 DEF Delivered
  <2> DEFINE n == ~inited
  <2>4. n \in BOOLEAN /\ o = [s EXCEPT !.initialized = inited, !.e = n]
    BY <2>1
  <2> HIDE DEF o, n
  <2>5. /\ o \in Connector /\ o.initialized = inited /\ o.e = n
        /\ o.up = s.up /\ o.clean = s.clean /\ o.tx = s.tx
        /\ o.committed = s.committed /\ o.outer = s.outer
        /\ o.ended = s.ended /\ o.asked = s.asked
    BY <1>1, <2>4 DEF Connector
  <2> QED
    BY <2>1, <2>2, <2>3, <2>5 DEF n
<1>4. CASE ~s.initialized /\ o.e
  <2>1. r = o
    BY <1>2, <1>4
  <2>2. /\ o \in Connector /\ o.up = s.up /\ o.clean = s.clean /\ o.tx = s.tx
        /\ o.committed = s.committed /\ o.outer = s.outer /\ o.ended = s.ended
        /\ o.asked = s.asked
    BY <1>3, <1>4
  <2> HIDE DEF o, r
  <2>3. Flags(o)
    BY <1>1, <2>2 DEF Scope, Flags
  <2> QED
    BY <1>1, <1>3, <1>4, <2>1, <2>2, <2>3 DEF Pre, Scope, r
<1>5. CASE s.initialized \/ ~o.e
  <2>1. r = [w EXCEPT !.multi = multi]
    BY <1>2, <1>5
  <2>2. /\ b \in Connector /\ b.initialized /\ b.tx = "none"
        /\ Flags(b)
        /\ b.clean => Delivered(b)
    <3>1. CASE s.initialized
      BY <1>1, <3>1 DEF Scope, Flags
    <3>2. CASE ~s.initialized
      <4>1. b = o /\ ~o.e
        BY <1>5, <3>2
      <4> HIDE DEF o, b
      <4>2. /\ o \in Connector /\ o.initialized = inited /\ o.e = ~inited
            /\ o.clean = s.clean /\ o.tx = s.tx
            /\ o.committed = s.committed /\ o.outer = s.outer /\ o.ended = s.ended
            /\ o.asked = s.asked
        BY <1>3, <3>2
      <4>3. Flags(o)
        BY <1>1, <4>2 DEF Scope, Flags
      <4> QED
        BY <1>1, <1>3, <3>2, <4>1, <4>2, <4>3
    <3> QED
      BY <3>1, <3>2
  <2> HIDE DEF o, b
  <2>3. /\ t \in Connector /\ t.initialized = b.initialized /\ t.tx = b.tx
        /\ t.committed = b.committed /\ t.outer = b.outer /\ t.ended = b.ended
        /\ t.asked = b.asked
        /\ t.errno \/ ~t.clean
    <3>1. CASE ok /\ ~b.up
      <4>1. t = [b EXCEPT !.up = TRUE, !.session = multi, !.auto = TRUE,
                          !.q = <<>>, !.cur = 0, !.errno = FALSE]
        BY <3>1 DEF mysql_real_connect
      <4>2. <<>> \in Seq(Outcome) /\ b \in Connector
        BY <2>2
      <4> HIDE DEF t
      <4>3. /\ t \in Connector /\ t.initialized = b.initialized /\ t.tx = b.tx
            /\ t.committed = b.committed /\ t.outer = b.outer /\ t.ended = b.ended
            /\ t.asked = b.asked /\ t.clean = b.clean
        BY <4>1, <4>2 DEF Connector
      <4>4. ~b.clean
        BY <2>2, <3>1 DEF Delivered
      <4> QED
        BY <4>3, <4>4
    <3>2. CASE ~(ok /\ ~b.up)
      <4>1. t = [b EXCEPT !.errno = TRUE] /\ b \in Connector
        BY <2>2, <3>2 DEF mysql_real_connect
      <4> HIDE DEF t
      <4> QED
        BY <4>1 DEF Connector
    <3> QED
      BY <3>1, <3>2
  <2> HIDE DEF t
  <2>4. /\ w \in Connector /\ Same(t, w) /\ w.e = t.errno /\ w.clean = t.clean
    BY <2>3, WrapperFacts
  <2> HIDE DEF w, r
  <2>5. /\ r \in Connector /\ r.e = w.e /\ r.clean = w.clean /\ r.tx = w.tx
        /\ r.initialized = w.initialized /\ r.committed = w.committed
        /\ r.outer = w.outer /\ r.ended = w.ended /\ r.asked = w.asked
    <3>1. w \in Connector
      BY <2>4
    <3> QED
      BY <2>1, <3>1 DEF Connector
  <2>6. r.initialized /\ r.tx = "none"
    BY <2>2, <2>3, <2>4, <2>5 DEF Same
  <2>7. r.committed = b.committed /\ r.outer = b.outer /\ r.asked = b.asked
    BY <2>3, <2>4, <2>5 DEF Same
  <2>8. Flags(r)
    BY <2>2, <2>7 DEF Flags
  <2> QED
    BY <2>3, <2>4, <2>5, <2>6, <2>8 DEF Pre, Scope, r
<1> QED
  BY <1>4, <1>5 DEF Connector

\* Closing leaves neither results nor a connection.
LEMMA CloseStep ==
    ASSUME Good(a), close
    PROVE  Good(a') /\ a.tx = "none"
<1> DEFINE c == Called("ec")
           x == free_result(Lost(c))
           v == service_close(c)
           y == v.clean /\ ~a.initialized
<1>1. a' = [v EXCEPT !.e = FALSE, !.clean = y] /\ a.tx = "none"
  BY DEF close
<1>2. /\ c \in Connector /\ Scope(c) /\ c.initialized = a.initialized /\ c.tx = a.tx
      /\ c.clean => Delivered(c)
  BY CalledFacts DEF Good, Form
<1>3. y \in BOOLEAN
  BY Zenon
<1>4. /\ v \in Connector /\ v.tx = "none"
      /\ v.up => v.initialized
      /\ Flags(v)
      /\ ~y
  <2>1. CASE ~c.initialized
    <3>1. v = c
      BY <2>1 DEF service_close
    <3> HIDE DEF v, c
    <3> QED
      BY <1>1, <1>2, <2>1, <3>1 DEF Scope, Flags, Delivered
  <2>2. CASE c.initialized
    <3>1. v = [x EXCEPT !.initialized = FALSE, !.first = FALSE]
      BY <2>2 DEF service_close
    <3> DEFINE l == Lost(c)
    <3>2. l \in Connector /\ Same(c, l) /\ ~l.up
      BY <1>2, LostFacts
    <3> HIDE DEF l
    <3>3. /\ x \in Connector /\ x.up = l.up /\ x.tx = l.tx /\ x.committed = l.committed
          /\ x.outer = l.outer /\ x.ended = l.ended
          /\ x.asked = l.asked
      <4> DEFINE z == [l.rs EXCEPT !.live = FALSE]
      <4>1. x \in Connector /\ x = [l EXCEPT !.last = 0, !.rs = z]
        BY <3>2, FreeFacts DEF l
      <4>2. l \in Connector
        BY <3>2
      <4> HIDE DEF z, x
      <4> QED
        BY <4>1, <4>2 DEF Connector
    <3> HIDE DEF x, v
    <3>4. /\ v \in Connector /\ v.up = x.up /\ v.tx = x.tx /\ v.committed = x.committed
          /\ v.outer = x.outer /\ v.ended = x.ended
          /\ v.asked = x.asked
      <4>1. x \in Connector
        BY <3>3
      <4> QED
        BY <3>1, <4>1 DEF Connector
    <3>5. v.tx = "none" /\ Flags(v) /\ ~v.up
      BY <1>1, <1>2, <3>2, <3>3, <3>4 DEF Same, Scope, Flags
    <3> QED
      BY <1>2, <2>2, <3>4, <3>5
  <2> QED
    BY <2>1, <2>2
<1> HIDE DEF c, x, v, y
<1>5. /\ a' \in Connector /\ a'.tx = v.tx /\ a'.up = v.up /\ a'.initialized = v.initialized
      /\ a'.committed = v.committed /\ a'.outer = v.outer /\ a'.ended = v.ended
      /\ a'.asked = v.asked /\ a'.clean = y
  <2>1. v \in Connector
    BY <1>4
  <2> QED
    BY <1>1, <1>3, <2>1 DEF Connector
<1> QED
  BY <1>1, <1>4, <1>5 DEF Good, Scope, Flags

\* What a step in a scope may not do.
Unasked ==
    a.tx = "open" /\ ~a.ended /\ ~(a.asked \/ a'.asked) /\ ~a'.refused => ~a'.kept

\* What a call is made with.
LEMMA AtCall ==
    ASSUME Good(a), NEW form \in Form
    PROVE  /\ Called(form) \in Connector /\ Scope(Called(form))
           /\ Called(form).clean => Delivered(Called(form))
           /\ ~Called(form).kept
           /\ Called(form).tx = a.tx /\ Called(form).session = a.session
           /\ Called(form).auto = a.auto /\ Called(form).committed = a.committed
           /\ Called(form).outer = a.outer /\ Called(form).ended = a.ended
           /\ Called(form).asked = a.asked
BY CalledFacts DEF Good

\* The results of a query are read, or an error is left.
LEMMA ReadsPre ==
    ASSUME NEW s, Scope(s), NEW t, Reads(s, t)
    PROVE  Pre(t)
BY DEF Scope, Flags, Reads, Pre

LEMMA QueryStep ==
    ASSUME Good(a), NEW form \in Form, NEW kinds, Statements(kinds, a.session),
           NEW lost \in BOOLEAN, a' = Returned(query(Called(form), kinds, lost), form)
    PROVE  Good(a') /\ Unasked
<1> DEFINE c == Called(form)
           t == query(c, kinds, lost)
<1>1. /\ c \in Connector /\ Scope(c) /\ ~c.kept
      /\ c.tx = a.tx /\ c.session = a.session /\ c.auto = a.auto /\ c.ended = a.ended
  BY AtCall
<1> HIDE DEF c
<1>2. Reads(c, t) /\ (~c.kept /\ ~c.auto => ~t.kept)
  BY <1>1, QueryFacts
<1>3. Pre(t)
  BY <1>1, <1>2, ReadsPre
<1> HIDE DEF t
<1>4. Good(Returned(t, form)) /\ Returned(t, form).kept = t.kept
  BY <1>3, ReturnedFacts
<1>5. a' = Returned(t, form)
  BY DEF t, c
<1>6. a.tx = "open" /\ ~a.ended => ~c.auto
  BY <1>1 DEF Scope
<1> QED
  BY <1>1, <1>2, <1>4, <1>5, <1>6 DEF Unasked

\* store_result called by the client or by an iterator.
LEMMA StoreCall ==
    ASSUME Good(a), NEW form \in Form, NEW lost \in BOOLEAN
    PROVE  /\ Good(Returned(store_result(Called(form), lost), form))
           /\ ~Returned(store_result(Called(form), lost), form).kept
<1> DEFINE c == Called(form)
           t == store_result(c, lost)
<1>1. c \in Connector /\ Scope(c) /\ ~c.kept /\ (c.clean => Delivered(c))
  BY AtCall
<1> HIDE DEF c
<1>2. Reads(c, t) /\ t.kept = c.kept
  BY <1>1, StoreFacts
<1>3. Pre(t)
  BY <1>1, <1>2, ReadsPre
<1> HIDE DEF t
<1>4. Good(Returned(t, form)) /\ Returned(t, form).kept = t.kept
  BY <1>3, ReturnedFacts
<1> QED
  BY <1>1, <1>2, <1>4 DEF t, c

\* An iterator's position is nothing to the connection.
LEMMA Positioned ==
    ASSUME NEW s, Good(s), ~s.kept, NEW p \in {"none", "at", "end"}
    PROVE  Good([s EXCEPT !.it = p]) /\ ~[s EXCEPT !.it = p].kept
<1> DEFINE d == [s EXCEPT !.it = p]
<1>1. s \in Connector /\ Scope(s) /\ (s.clean => Delivered(s))
  BY DEF Good
<1>2. s \in Connector
  BY <1>1
<1>3. /\ d \in Connector /\ d.kept = s.kept /\ d.tx = s.tx /\ d.auto = s.auto
      /\ d.up = s.up /\ d.initialized = s.initialized /\ d.committed = s.committed
      /\ d.outer = s.outer /\ d.ended = s.ended
      /\ d.asked = s.asked /\ d.clean = s.clean /\ d.session = s.session
      /\ d.q = s.q /\ d.cur = s.cur /\ d.first = s.first /\ d.out = s.out
      /\ d.rs = s.rs /\ d.last = s.last
  BY <1>2 DEF Connector
<1> HIDE DEF d
<1>4. Scope(d)
  BY <1>1, <1>3 DEF Scope, Flags
<1>5. d.clean => Delivered(d)
  BY <1>1, <1>3 DEF Delivered
<1> QED
  BY <1>3, <1>4, <1>5 DEF Good, d

LEMMA IteratorStep ==
    ASSUME Good(a), NEW lost \in BOOLEAN, IteratorBegin(lost) \/ IteratorIncrement(lost)
    PROVE  Good(a') /\ Unasked
<1> DEFINE c == Called("throw")
           t == store_result(c, lost)
           r == Returned(t, "throw")
<1>1. "throw" \in Form
  BY DEF Form
<1>2. Good(c) /\ ~c.kept
  BY <1>1, CalledFacts
<1>3. Good(r) /\ ~r.kept
  BY <1>1, StoreCall
<1>4. \/ \E p \in {"none", "at", "end"} : a' = [c EXCEPT !.it = p] \/ a' = [r EXCEPT !.it = p]
      \/ a' = r
  <2>1. CASE IteratorBegin(lost)
    <3>1. a' = CASE ~has_more_results(a) -> [c EXCEPT !.it = "end"]
                 [] has_more_results(a) /\ t.e -> [r EXCEPT !.it = "none"]
                 [] OTHER -> [r EXCEPT !.it = IF has_more_results(t) THEN "end" ELSE "at"]
      BY <2>1 DEF IteratorBegin
    <3> HIDE DEF c, t, r
    <3>2. CASE ~has_more_results(a)
      BY <3>1, <3>2
    <3>3. CASE has_more_results(a) /\ t.e
      BY <3>1, <3>3
    <3>4. CASE has_more_results(a) /\ ~t.e
      <4>1. a' = [r EXCEPT !.it = IF has_more_results(t) THEN "end" ELSE "at"]
        BY <3>1, <3>4
      <4>2. CASE has_more_results(t)
        BY <4>1, <4>2
      <4>3. CASE ~has_more_results(t)
        BY <4>1, <4>3
      <4> QED
        BY <4>2, <4>3
    <3> QED
      BY <3>2, <3>3, <3>4
  <2>2. CASE IteratorIncrement(lost)
    <3>1. a' = IF has_more_results(a) THEN r ELSE [c EXCEPT !.it = "end"]
      BY <2>2 DEF IteratorIncrement
    <3> HIDE DEF c, t, r
    <3> QED
      BY <3>1
  <2> QED
    BY <2>1, <2>2
<1> HIDE DEF c, r
<1>5. ASSUME NEW p \in {"none", "at", "end"}, a' = [c EXCEPT !.it = p]
      PROVE  Good(a') /\ Unasked
  BY <1>2, <1>5, Positioned DEF Unasked
<1>6. ASSUME NEW p \in {"none", "at", "end"}, a' = [r EXCEPT !.it = p]
      PROVE  Good(a') /\ Unasked
  BY <1>3, <1>6, Positioned DEF Unasked
<1>7. CASE a' = r
  BY <1>3, <1>7 DEF Unasked
<1> QED
  BY <1>4, <1>5, <1>6, <1>7

\* The calls of a transaction end the reading of results.
LEMMA AttemptedPre ==
    ASSUME NEW s, Scope(s), NEW t, Attempted(s, t), t.tx = "open" /\ ~t.ended => ~t.auto
    PROVE  Pre(t)
BY DEF Scope, Flags, Attempted, Same, Pre

LEMMA TxBeginStep ==
    ASSUME Good(a), NEW fate \in Fate, TxBegin(fate)
    PROVE  Good(a') /\ Unasked
<1> DEFINE c == Called("throw")
           s == autocommit(c, FALSE, fate)
           p == IF s.e THEN "none" ELSE "open"
           u == [s EXCEPT !.tx = p]
<1>1. "throw" \in Form
  BY DEF Form
<1>2. c \in Connector /\ Scope(c) /\ ~c.kept
  BY <1>1, AtCall
<1>3. a' = Returned(u, "throw") /\ a.tx = "none"
  BY DEF TxBegin
<1> HIDE DEF c
<1>4. Attempted(c, s) /\ (s.e \/ s.auto = FALSE)
  BY <1>2, AutocommitFacts
<1>5. p \in {"none", "open"} /\ (p = "open" => ~s.e)
  OBVIOUS
<1>6. s \in Connector
  BY <1>4 DEF Attempted
<1> HIDE DEF s, p
<1>7. /\ u \in Connector /\ u.tx = p /\ u.committed = s.committed /\ u.outer = s.outer
      /\ u.asked = s.asked /\ u.ended = s.ended /\ u.auto = s.auto /\ u.e = s.e
      /\ u.clean = s.clean /\ u.up = s.up /\ u.initialized = s.initialized
  BY <1>5, <1>6 DEF Connector
<1> HIDE DEF u
<1>8. Scope(u)
  BY <1>2, <1>4, <1>5, <1>7 DEF Scope, Flags, Attempted, Same
<1>9. Pre(u)
  BY <1>4, <1>7, <1>8 DEF Pre, Attempted
<1> QED
  BY <1>1, <1>3, <1>9, ReturnedFacts DEF Unasked

LEMMA TxNestStep ==
    ASSUME Good(a), NEW fate \in Fate, TxNest(fate)
    PROVE  Good(a') /\ Unasked
<1> DEFINE c == Called("throw")
           s == autocommit(c, FALSE, fate)
           o == <<s.committed>> \o s.outer
           u == [s EXCEPT !.outer = o, !.committed = FALSE]
<1>1. "throw" \in Form
  BY DEF Form
<1>2. c \in Connector /\ Scope(c) /\ ~c.kept
  BY <1>1, AtCall
<1>3. a' = Returned(IF s.e THEN s ELSE u, "throw")
  BY DEF TxNest
<1> HIDE DEF c
<1>4. /\ Attempted(c, s) /\ (s.e \/ s.auto = FALSE) /\ ~s.kept
      /\ s.e => s.auto = c.auto
  BY <1>2, AutocommitFacts
<1>5. s \in Connector /\ s.committed \in BOOLEAN /\ s.outer \in Seq(BOOLEAN)
  BY <1>4 DEF Attempted, Connector
<1>6. CASE s.e
  <2>1. Pre(s)
    BY <1>2, <1>4, <1>6, AttemptedPre DEF Scope, Attempted, Same
  <2> HIDE DEF s, u
  <2> QED
    BY <1>1, <1>3, <1>4, <1>6, <2>1, ReturnedFacts DEF Unasked
<1>7. CASE ~s.e
  <2>1. /\ o \in Seq(BOOLEAN)
        /\ \A i \in DOMAIN o : o[i] = s.committed \/ \E j \in DOMAIN s.outer : o[i] = s.outer[j]
    <3> HIDE DEF s
    <3> QED
      BY <1>5
  <2> HIDE DEF s, o
  <2>2. /\ u \in Connector /\ u.tx = s.tx /\ u.outer = o /\ u.committed = FALSE
        /\ u.asked = s.asked /\ u.ended = s.ended /\ u.auto = s.auto /\ u.e = s.e
        /\ u.clean = s.clean /\ u.up = s.up /\ u.initialized = s.initialized
        /\ u.kept = s.kept
    BY <1>5, <2>1 DEF Connector
  <2> HIDE DEF u
  <2>3. Flags(c) /\ (c.up => c.initialized)
    BY <1>2 DEF Scope
  <2>4. Flags(s)
    BY <1>4, <2>3 DEF Flags, Attempted, Same
  <2>5. Flags(u)
    BY <2>1, <2>2, <2>4 DEF Flags
  <2>6. Scope(u)
    BY <1>4, <1>7, <2>2, <2>3, <2>5 DEF Scope, Attempted, Same
  <2>7. Pre(u)
    BY <1>4, <2>2, <2>6 DEF Pre, Attempted
  <2> QED
    BY <1>1, <1>3, <1>4, <1>7, <2>2, <2>7, ReturnedFacts DEF Unasked
<1> QED
  BY <1>6, <1>7

LEMMA TxCommitStep ==
    ASSUME Good(a), NEW form \in Form, NEW fate \in Fate, TxCommit(form, fate)
    PROVE  Good(a') /\ Unasked
<1> DEFINE c == Called(form)
           s == commit(c, fate)
           p == IF form = "ec" THEN s.e ELSE s.committed \/ ~s.e
           u == [s EXCEPT !.asked = TRUE, !.committed = p]
<1>1. c \in Connector /\ Scope(c)
  BY AtCall
<1>2. Attempted(c, s) /\ s.auto = c.auto
  BY <1>1, CommitFacts
<1>3. s \in Connector
  BY <1>2 DEF Attempted
<1>4. a' = Returned(u, form)
  BY Zenon DEF TxCommit
<1>5. p \in BOOLEAN
  <2>1. s.e \in BOOLEAN
    BY <1>3 DEF Connector
  <2> DEFINE y == s.committed \/ ~s.e
  <2>2. y \in BOOLEAN
    BY Zenon
  <2>3. p = IF form = "ec" THEN s.e ELSE y
    OBVIOUS
  <2> HIDE DEF s, y, p
  <2> QED
    BY <2>1, <2>2, <2>3
<1> HIDE DEF c, s, p
<1>6. /\ u \in Connector /\ u.tx = s.tx /\ u.asked = TRUE /\ u.auto = s.auto /\ u.e = s.e
      /\ u.ended = s.ended
      /\ u.clean = s.clean /\ u.up = s.up /\ u.initialized = s.initialized
  BY <1>3, <1>5 DEF Connector
<1> HIDE DEF u
<1>7. Scope(u)
  BY <1>1, <1>2, <1>6 DEF Scope, Flags, Attempted, Same
<1>8. Pre(u)
  BY <1>2, <1>6, <1>7 DEF Pre, Attempted
<1>9. Good(Returned(u, form)) /\ Returned(u, form).asked = u.asked
  BY <1>8, ReturnedFacts
<1> QED
  BY <1>4, <1>6, <1>9 DEF Unasked

LEMMA TxRollbackStep ==
    ASSUME Good(a), NEW form \in Form, NEW fate \in Fate, TxRollback(form, fate)
    PROVE  Good(a') /\ Unasked
<1> DEFINE c == Called(form)
           s == rollback(c, fate)
<1>1. c \in Connector /\ Scope(c) /\ ~c.kept
  BY AtCall
<1>2. a' = Returned(s, form)
  BY DEF TxRollback
<1> HIDE DEF c
<1>3. Attempted(c, s) /\ s.auto = c.auto /\ s.kept = c.kept
  BY <1>1, RollbackFacts
<1> HIDE DEF s
<1>4. Pre(s)
  BY <1>1, <1>3, AttemptedPre DEF Scope, Flags, Attempted, Same
<1>5. Good(Returned(s, form)) /\ Returned(s, form).kept = s.kept
  BY <1>4, ReturnedFacts
<1> QED
  BY <1>1, <1>2, <1>3, <1>5 DEF Unasked

\* What is left of the scopes when the innermost has ended.
LEMMA PoppedFacts ==
    ASSUME NEW s \in Connector, Flags(s), s.tx = "open"
    PROVE  /\ Popped(s) \in Connector /\ Flags(Popped(s))
           /\ Popped(s).tx = "open" => Popped(s).ended
           /\ Popped(s).initialized = s.initialized /\ Popped(s).up = s.up
           /\ Popped(s).clean = s.clean /\ Popped(s).e = s.e
           /\ Popped(s).kept = s.kept /\ Popped(s).refused = s.refused
<1> DEFINE d == Popped(s)
<1>1. s.outer \in Seq(BOOLEAN) /\ s.committed \in BOOLEAN
  BY DEF Connector
<1>2. CASE s.outer = <<>>
  <2>1. d = [s EXCEPT !.tx = "none", !.committed = FALSE, !.asked = FALSE, !.ended = FALSE]
    BY <1>2 DEF Popped
  <2> HIDE DEF d
  <2>2. /\ d \in Connector /\ d.tx = "none" /\ d.committed = FALSE /\ d.outer = s.outer
        /\ d.initialized = s.initialized /\ d.up = s.up /\ d.clean = s.clean /\ d.e = s.e
        /\ d.kept = s.kept /\ d.refused = s.refused
    BY <2>1 DEF Connector
  <2>3. DOMAIN d.outer = {}
    BY <1>2, <2>2
  <2>4. Flags(d)
    BY <2>2, <2>3 DEF Flags
  <2> QED
    BY <2>2, <2>4 DEF d
<1>3. CASE s.outer # <<>>
  <2> DEFINE h == Head(s.outer)
             o == Tail(s.outer)
  <2>1. d = [s EXCEPT !.committed = h, !.outer = o, !.ended = TRUE]
    BY <1>3 DEF Popped, Connector
  <2>2. /\ h \in BOOLEAN /\ o \in Seq(BOOLEAN)
        /\ 1 \in DOMAIN s.outer /\ h = s.outer[1]
        /\ \A i \in DOMAIN o : i + 1 \in DOMAIN s.outer /\ o[i] = s.outer[i + 1]
    BY <1>1, <1>3, HeadTail
  <2> HIDE DEF d, h, o
  <2>3. /\ d \in Connector /\ d.tx = s.tx /\ d.committed = h /\ d.outer = o /\ d.ended = TRUE
        /\ d.asked = s.asked
        /\ d.initialized = s.initialized /\ d.up = s.up /\ d.clean = s.clean /\ d.e = s.e
        /\ d.kept = s.kept /\ d.refused = s.refused
    BY <2>1, <2>2 DEF Connector
  <2>4. Flags(d)
    BY <2>2, <2>3 DEF Flags
  <2> QED
    BY <2>3, <2>4 DEF d
<1> QED
  BY <1>2, <1>3

LEMMA TxEndStep ==
    ASSUME Good(a), NEW fate \in Fate, NEW fateLater \in Fate, TxEnd(fate, fateLater)
    PROVE  Good(a') /\ Unasked
<1> DEFINE c == Called("throw")
           b == end_scope(c, fate, fateLater)
           s == Popped(b)
           y == s.clean /\ ~s.e
           p == IF s.e THEN "terminate" ELSE "none"
<1>1. "throw" \in Form
  BY DEF Form
<1>2. /\ c \in Connector /\ Scope(c) /\ ~c.kept
      /\ c.tx = a.tx /\ c.committed = a.committed /\ c.asked = a.asked
  BY <1>1, AtCall
<1>3. a' = [s EXCEPT !.clean = y, !.e = FALSE, !.fault = p] /\ a.tx = "open"
  BY DEF TxEnd
<1> HIDE DEF c
<1>4. Attempted(c, b) /\ (~c.kept /\ ~c.committed => ~b.kept \/ b.refused)
  BY <1>2, EndFacts
<1>5. b \in Connector /\ Flags(b) /\ b.tx = "open"
  BY <1>2, <1>3, <1>4 DEF Attempted, Same, Scope, Flags
<1> HIDE DEF b
<1>6. /\ s \in Connector /\ Flags(s) /\ (s.tx = "open" => s.ended)
      /\ s.initialized = b.initialized /\ s.up = b.up /\ s.clean = b.clean /\ s.e = b.e
      /\ s.kept = b.kept /\ s.refused = b.refused
  BY <1>5, PoppedFacts
<1>7. y \in BOOLEAN
  BY Zenon
<1>8. p \in {"none", "terminate"} /\ (y <=> s.clean /\ ~s.e)
  OBVIOUS
<1> HIDE DEF s, y, p
<1>9. \A q \in BOOLEAN, f \in {"none", "terminate"} :
        [s EXCEPT !.clean = q, !.e = FALSE, !.fault = f] \in Connector
  <2>1. s \in Connector
    BY <1>6
  <2> QED
    BY <2>1 DEF Connector
<1>10. a' \in Connector
  BY <1>3, <1>7, <1>8, <1>9
<1>11. /\ a'.tx = s.tx /\ a'.clean = y /\ a'.up = s.up /\ a'.initialized = s.initialized
       /\ a'.committed = s.committed /\ a'.outer = s.outer /\ a'.ended = s.ended
       /\ a'.asked = s.asked /\ a'.kept = s.kept /\ a'.refused = s.refused
  <2>1. s \in Connector
    BY <1>6
  <2> QED
    BY <1>3, <2>1 DEF Connector
<1>12. Scope(a')
  BY <1>2, <1>4, <1>6, <1>11 DEF Scope, Flags, Attempted, Same
<1>13. ~a'.clean
  BY <1>4, <1>6, <1>8, <1>11 DEF Attempted
<1>14. Unasked
  <2> SUFFICES ASSUME ~a.asked, ~a'.refused PROVE ~a'.kept
    BY DEF Unasked
  <2>1. ~c.committed
    BY <1>2 DEF Scope, Flags
  <2> QED
    BY <1>2, <1>4, <1>6, <1>11, <2>1
<1> QED
  BY <1>10, <1>12, <1>13, <1>14 DEF Good

\* Every step, whatever fails in it.
LEMMA Step ==
    ASSUME Good(a), ResultsNext
    PROVE  Good(a') /\ (Unasked \/ UNCHANGED a)
<1>1. ASSUME NEW form \in Form, NEW multi \in BOOLEAN, NEW inited \in BOOLEAN,
             NEW ok \in BOOLEAN, connect(form, multi, inited, ok)
      PROVE  Good(a') /\ Unasked
  <2> DEFINE c == Called(form)
             t == service_connect(c, multi, inited, ok)
  <2>1. a' = Returned(t, form) /\ a.tx = "none"
    BY <1>1 DEF connect
  <2>2. Good(c) /\ c.tx = a.tx
    BY CalledFacts
  <2> HIDE DEF c
  <2>3. Pre(t)
    BY <2>1, <2>2, ConnectFacts
  <2> HIDE DEF t
  <2> QED
    BY <2>1, <2>3, ReturnedFacts DEF Unasked
<1>2. CASE close
  BY <1>2, CloseStep DEF Unasked
<1>s. a.session \in BOOLEAN
  BY DEF Good, Connector
<1>3. ASSUME NEW form \in Form, NEW lost \in BOOLEAN, NEW kinds \in Queries(a.session),
             Query(form, kinds, lost)
      PROVE  Good(a') /\ Unasked
  BY <1>3, <1>s, QueryStep, QueriesFacts DEF Query
<1>4. ASSUME NEW form \in Form, NEW lost \in BOOLEAN, NEW kind \in Outcome,
             Execute(form, kind, lost)
      PROVE  Good(a') /\ Unasked
  BY <1>4, <1>s, QueryStep, QueriesFacts DEF Execute
<1>5. ASSUME NEW form \in Form, NEW lost \in BOOLEAN, StoreResult(form, lost)
      PROVE  Good(a') /\ Unasked
  BY <1>5, StoreCall DEF StoreResult, Unasked
<1>6. CASE ResultsOver
  BY <1>6 DEF ResultsOver
<1> QED
  BY <1>1, <1>2, <1>3, <1>4, <1>5, <1>6, TxCommitStep, TxRollbackStep, IteratorStep,
     TxBeginStep, TxNestStep, TxEndStep DEF ResultsNext

-----------------------------------------------------------------------------
(* The theorems *)

\* The inductive invariant: results up to the current one were delivered as
\* long as no call failed, and autocommit is off inside a scope.
THEOREM ResultsInvariance == ResultsSpec => []ResultsInv
<1>1. ResultsInit => ResultsInv
  <2> SUFFICES ASSUME ResultsInit PROVE Good(a)
    BY DEF ResultsInv
  <2>1. /\ <<>> \in Seq(Outcome) /\ <<>> \in Seq(Nat) /\ <<>> \in Seq(BOOLEAN)
        /\ EmptySet \in ResultSet
    BY DEF EmptySet, ResultSet
  <2>2. a \in Connector
    BY <2>1 DEF ResultsInit, Connector
  <2>3. a.tx = "none" /\ ~a.up /\ ~a.committed /\ ~a.clean /\ DOMAIN a.outer = {}
    BY DEF ResultsInit
  <2> QED
    BY <2>2, <2>3 DEF Good, Scope, Flags
<1>2. ResultsInv /\ [ResultsNext]_a => ResultsInv'
  BY Step DEF ResultsInv
<1> QED
  BY <1>1, <1>2, PTL DEF ResultsSpec

\* The types of the connector's state, the result set's included.
THEOREM ResultsTypeCorrect == ResultsSpec => [](a \in Connector)
<1>1. ResultsInv => a \in Connector
  BY DEF ResultsInv, Good
<1> QED
  BY <1>1, ResultsInvariance, PTL

\* store_result delivers the results of a query in order, none twice and none
\* skipped, for any number of statements.
THEOREM DeliveredInOrder == ResultsSpec => []InOrder
<1>1. ResultsInv => InOrder
  <2> SUFFICES ASSUME ResultsInv, a.clean
               PROVE  /\ \A i \in DOMAIN a.out : a.out[i] = i
                      /\ ~expired(a.rs) => /\ a.rs.of = Len(a.out) /\ a.last = a.rs.of
                                           /\ a.rs.values = size(a)
    BY DEF InOrder
  <2>1. Delivered(a)
    BY DEF ResultsInv, Good
  <2>2. \A i \in DOMAIN a.out : a.out[i] = i
    BY <2>1 DEF Delivered
  <2>3. ASSUME a.rs.live
        PROVE  a.rs.of = Len(a.out) /\ a.last = a.rs.of /\ a.rs.values = size(a)
    BY <2>1, <2>3 DEF Delivered, size, expired
  <2> QED
    BY <2>2, <2>3 DEF expired
<1> QED
  BY <1>1, ResultsInvariance, PTL

\* has_more_results ends the loop no sooner than every result set of the query
\* was delivered.
THEOREM NoResultMissed == ResultsSpec => []NoneMissed
<1>1. ResultsInv => NoneMissed
  <2> SUFFICES ASSUME ResultsInv, a.clean, a.multi = a.session, ~has_more_results(a),
                      NEW i \in DOMAIN a.q, a.q[i] \in HasFields
               PROVE  i \in Range(a.out)
    BY DEF NoneMissed
  <2>1. Delivered(a) /\ a \in Connector
    BY DEF ResultsInv, Good
  <2>2. /\ a.q \in Seq(Outcome) /\ a.out \in Seq(Nat) /\ a.cur \in Nat
        /\ a.multi \in BOOLEAN /\ a.first \in BOOLEAN
    BY <2>1 DEF Connector
  <2>3. DOMAIN a.q = 1..Len(a.q) /\ Len(a.q) \in Nat /\ DOMAIN a.out = 1..Len(a.out)
    BY <2>2
  <2>4. a.first /\ i <= a.cur
    <3>1. CASE a.multi
      <4>1. a.first /\ ~(a.cur # 0 /\ a.cur < Len(a.q))
        BY <2>1, <3>1 DEF has_more_results, mysql_more_results, Delivered
      <4>2. a.cur # 0
        BY <2>1 DEF Delivered
      <4> QED
        BY <2>2, <2>3, <4>1, <4>2
    <3>2. CASE ~a.multi
      <4>1. Len(a.q) = 1 /\ a.cur = 1
        BY <2>1, <2>2, <3>2 DEF Delivered
      <4>2. i = 1
        BY <2>3, <4>1
      <4>3. a.first
        BY <2>1, <3>2, <4>1, <4>2 DEF has_more_results, mysql_field_count, Delivered
      <4> QED
        BY <4>1, <4>2, <4>3
    <3> QED
      BY <3>1, <3>2
  <2>5. i \in DOMAIN a.out
    <3>1. Len(a.out) = a.cur
      BY <2>1, <2>4 DEF Delivered
    <3> QED
      BY <2>2, <2>3, <2>4, <3>1
  <2>6. a.out[i] = i
    BY <2>1, <2>5 DEF Delivered
  <2> QED
    BY <2>5, <2>6 DEF Range
<1> QED
  BY <1>1, ResultsInvariance, PTL

\* A scoped transaction keeps no write that no commit was asked for, whichever
\* call fails and whenever the connection is lost, unless the server refuses
\* the destructor's rollback or a scope has ended inside this one.
THEOREM NothingKeptUnasked == ResultsSpec => UnaskedNotKept
<1>1. ResultsInv /\ [ResultsNext]_a =>
        [a.tx = "open" /\ ~a.ended /\ ~(a.asked \/ a'.asked) /\ ~a'.refused => ~a'.kept]_a
  BY Step DEF ResultsInv, Unasked
<1> QED
  BY <1>1, ResultsInvariance, PTL DEF ResultsSpec, UnaskedNotKept

=============================================================================
