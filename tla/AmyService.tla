----------------------------- MODULE AmyService -----------------------------
(***************************************************************************)
(* amy::mysql_service (lib/amy): the asynchronous operations of all the    *)
(* connectors of one io_service.  The blocking MySQL calls are made by one *)
(* worker thread, started when it is first needed, which runs the queue of *)
(* a private io_service; a completed operation posts the user's handler to *)
(* the connectors' io_service, run by the client.  An operation carries a  *)
(* weak pointer to its connector's cancelation token, looked at once, when *)
(* the worker comes to it; it refers to the connector by a plain reference.*)
(*                                                                         *)
(* The worker takes two steps for an operation, the one that looks at the  *)
(* token and the one that ends the blocking call, and everything the       *)
(* clients do can fall between.  Whether a call succeeds is the server's   *)
(* choice.  What results a query has is left out: a handle holds the       *)
(* number of the query whose results it has, 0 for none, and whether some  *)
(* are still on the server, which lets no other query succeed.             *)
(*                                                                         *)
(* close() takes two steps as well, mysql_close and, at its end, cancel(). *)
(* Clients use a connector from one thread at a time.  Its blocking calls  *)
(* are in AmyResults: made while the worker uses the handle they race with *)
(* it, as close() here does.                                               *)
(***************************************************************************)
EXTENDS Integers, Sequences, FiniteSets

CONSTANTS
    Conns,      \* the connectors
    MaxOps      \* bound: operations asked for

ASSUME AmyBounds == MaxOps \in Nat

VARIABLES
    impl,       \* of each connector: its implementation
    ops,        \* the operations asked for, in order
    queue,      \* work_io_service_: numbers of operations
    running,    \* the operations whose blocking call is being made
    threads,    \* work_thread_: how many there are
    posted,     \* completed operations whose handler the client is to call
    client,     \* the client's run(), "returned" for want of work
    work,       \* the service
    fault       \* what goes wrong; nothing is claimed about what follows

vars == <<impl, ops, queue, running, threads, posted, client, work, fault>>

Kind == {"connect", "query", "store"}
Code == {"pending", "ok", "empty", "error", "aborted", "not_initialized"}
Fault == {"none", "race"}

\* closing: close(), or the destructor, is under way; query and unread: see
\* above; first: first_result_stored.
Impl == [alive : BOOLEAN, initialized : BOOLEAN, closing : {"no", "close", "destroy"},
         query : Nat, unread : BOOLEAN, first : BOOLEAN]

\* expired: the weak pointer to the cancelation token; stale: the handle was
\* closed since; of: the query whose results a store delivers; calls: how often
\* the handler was called.  ec tells success from failure for queries and
\* stores; "empty" is a store's success with an empty set.
Op == [kind : Kind, conn : Conns, expired : BOOLEAN, stale : BOOLEAN, ec : Code,
       of : Nat, calls : Nat]

\* The operation a handler object stands for.
NewOp(kind, c, ec) ==
    [kind |-> kind, conn |-> c, expired |-> FALSE, stale |-> FALSE, ec |-> ec,
     of |-> 0, calls |-> 0]

IsQuery(o) == o.kind = "query"

\* implementation(): not initialized.  mysql_service(): no thread yet.
Init ==
    /\ impl = [c \in Conns |-> [alive |-> TRUE, initialized |-> FALSE, closing |-> "no",
                                query |-> 0, unread |-> FALSE, first |-> FALSE]]
    /\ ops = <<>> /\ queue = <<>> /\ running = {} /\ threads = 0
    /\ posted = <<>>
    /\ client = "running" /\ work = "up" /\ fault = "none"

Usable(c) ==
    fault = "none" /\ client = "running" /\ impl[c].alive /\ impl[c].closing = "no"

\* The worker is making a call on c's handle.
Busy(c) == \E i \in running : ops[i].conn = c

-----------------------------------------------------------------------------
(* The connector's own state *)

\* open(): mysql_init, unless the handle is open.
Open(c) ==
    /\ Usable(c) /\ ~impl[c].initialized
    /\ impl' = [impl EXCEPT ![c].initialized = TRUE]
    /\ UNCHANGED <<ops, queue, running, threads, posted, client, work, fault>>

\* implementation::cancel: the token is replaced, and the weak pointers that
\* are still to be looked at expire.
Cancelled(c) ==
    [i \in DOMAIN ops |->
       IF ops[i].conn = c /\ \E k \in DOMAIN queue : queue[k] = i
         THEN [ops[i] EXCEPT !.expired = TRUE] ELSE ops[i]]

Cancel(c) ==
    /\ Usable(c)
    /\ ops' = Cancelled(c)
    /\ UNCHANGED <<impl, queue, running, threads, posted, client, work, fault>>

\* The operations of a session that ends.
Closed(c) ==
    [i \in DOMAIN ops |-> IF ops[i].conn = c THEN [ops[i] EXCEPT !.stale = TRUE]
                                            ELSE ops[i]]

\* implementation::close, mysql_close: under a call that is being made on the
\* handle a data race.
CloseHandle(c, how) ==
    /\ impl' = [impl EXCEPT ![c].initialized = FALSE, ![c].closing = how,
                            ![c].query = 0, ![c].unread = FALSE]
    /\ ops' = Closed(c)
    /\ fault' = IF Busy(c) THEN "race" ELSE fault
    /\ UNCHANGED <<queue, running, threads, posted, client, work>>

\* Mutant: implementation::close without cancel().
CloseUncancelled(c) ==
    /\ fault = "none" /\ impl[c].closing # "no"
    /\ impl' = [impl EXCEPT ![c] = [@ EXCEPT !.closing = "no", !.first = FALSE,
                                            !.alive = impl[c].closing = "close"]]
    /\ UNCHANGED <<ops, queue, running, threads, posted, client, work, fault>>

\* implementation::close, the rest: free_result and cancel.
CloseReturns(c) ==
    /\ fault = "none" /\ impl[c].closing # "no"
    /\ impl' = [impl EXCEPT ![c] = [@ EXCEPT !.closing = "no", !.first = FALSE,
                                            !.alive = impl[c].closing = "close"]]
    /\ ops' = Cancelled(c)
    /\ UNCHANGED <<queue, running, threads, posted, client, work, fault>>

\* close() is nothing, and no cancel, on a handle that is not open.
Close(c) == Usable(c) /\ impl[c].initialized /\ CloseHandle(c, "close")

\* ~basic_io_object: destroy(), which closes, then ~implementation.
Destroy(c) ==
    /\ fault = "none" /\ impl[c].alive /\ impl[c].closing = "no"
    /\ CloseHandle(c, "destroy")

-----------------------------------------------------------------------------
(* Asynchronous operations *)

\* Mutants: a thread for every operation; no thread at all.
AlwaysStart(n) == n + 1
NeverStart(n) == n

\* start_work_thread, under work_mutex_.
start_work_thread(n) == IF n = 0 THEN 1 ELSE n

\* async_connect, async_query and async_store_result, on an open handle: the
\* operation goes to the worker.
PostToWorker(kind, c) ==
    /\ ops' = Append(ops, NewOp(kind, c, "pending"))
    /\ threads' = start_work_thread(threads)
    /\ queue' = Append(queue, Len(ops) + 1)
    /\ UNCHANGED <<running, posted, client, work, fault>>

\* ... and otherwise the handler is posted at once, with ec.
PostAtOnce(kind, c, ec) ==
    /\ ops' = Append(ops, NewOp(kind, c, ec))
    /\ posted' = Append(posted, Len(ops) + 1)
    /\ UNCHANGED <<impl, queue, running, threads, client, work, fault>>

\* The service's functions.  A handle that is not open is opened first by
\* async_connect, which can fail; the others answer not_initialized.
async_connect(c) ==
    \/ /\ impl' = [impl EXCEPT ![c].initialized = TRUE]
       /\ PostToWorker("connect", c)
    \/ ~impl[c].initialized /\ PostAtOnce("connect", c, "error")

async_query(c) ==
    \/ impl[c].initialized /\ PostToWorker("query", c) /\ UNCHANGED impl
    \/ ~impl[c].initialized /\ PostAtOnce("query", c, "not_initialized")

async_store_result(c) ==
    \/ impl[c].initialized /\ PostToWorker("store", c) /\ UNCHANGED impl
    \/ ~impl[c].initialized /\ PostAtOnce("store", c, "not_initialized")

\* The connector's, which call them.
MayAsk(c) == Usable(c) /\ Len(ops) < MaxOps

AsyncConnect(c) == MayAsk(c) /\ async_connect(c)
AsyncQuery(c) == MayAsk(c) /\ async_query(c)
AsyncStoreResult(c) == MayAsk(c) /\ async_store_result(c)

-----------------------------------------------------------------------------
(* The worker thread *)

\* connect_handler, query_handler and store_result_handler up to their
\* blocking call: a cancelled operation posts operation_aborted and touches
\* nothing.  A call on a handle that is being closed is a data race, or made
\* on what mysql_close has freed.
WorkerBegins ==
    /\ fault = "none" /\ work = "up"
    /\ queue # <<>> /\ Cardinality(running) < threads
    /\ queue' = Tail(queue)
    /\ LET i == Head(queue) IN
         \/ /\ ops[i].expired
            /\ ops' = [ops EXCEPT ![i].ec = "aborted"]
            /\ posted' = Append(posted, i)
            /\ UNCHANGED <<running, fault>>
         \/ /\ ~ops[i].expired
            /\ running' = running \cup {i}
            /\ fault' = IF impl[ops[i].conn].closing # "no" THEN "race" ELSE fault
            /\ UNCHANGED <<ops, posted>>
    /\ UNCHANGED <<impl, threads, client, work>>

\* What the calls leave in handle h, for each error code they can end with.  A
\* query fails while results are unread, and leaves them; one that succeeds may
\* have none to read.
query_handler(i, ec, h) ==
    LET g == [h EXCEPT !.first = FALSE]
    IN  CASE ec = "ok" /\ ~h.unread -> {[g EXCEPT !.query = i, !.unread = u] : u \in BOOLEAN}
          [] ec = "error" -> {IF h.unread THEN g ELSE [g EXCEPT !.query = 0]}
          [] OTHER -> {}

\* The first store after a query reads a result, the last one or not, or
\* fails.  Later ones are told no_more_results, or, as mysql_store_result
\* stands where mysql_next_result should, find nothing to read and succeed.
store_result_handler(ec, h) ==
    CASE ~h.first /\ ec \in {"ok", "error"} ->
           {[h EXCEPT !.first = TRUE, !.unread = u] : u \in {h.unread, FALSE}}
      [] h.first /\ (ec = "error" \/ (ec = "empty" /\ h.unread)) -> {h}
      [] OTHER -> {}

\* mysql_real_connect fails on a handle that is connected, and leaves its
\* results; the flags are AmyResults' business.
connect_handler(ec, h) == IF ec = "ok" THEN {h} ELSE {}

Answered(i, ec, h) ==
    CASE ops[i].kind = "connect" -> connect_handler(ec, h)
      [] ops[i].kind = "query" -> query_handler(i, ec, h)
      [] ops[i].kind = "store" -> store_result_handler(ec, h)

\* ... and from there on.
WorkerEnds(i, ec) ==
    /\ fault = "none" /\ i \in running
    /\ LET c == ops[i].conn IN
         /\ ops' = [ops EXCEPT ![i].ec = ec,
                               ![i].of = IF ops[i].kind = "store" /\ ec = "ok"
                                           THEN impl[c].query ELSE 0]
         /\ \E h \in Answered(i, ec, impl[c]) : impl' = [impl EXCEPT ![c] = h]
    /\ running' = running \ {i}
    /\ posted' = Append(posted, i)
    /\ UNCHANGED <<queue, threads, client, work, fault>>

-----------------------------------------------------------------------------
(* The client's io_service *)

\* The handler of the oldest completion is called.
CallHandler ==
    /\ fault = "none" /\ client = "running" /\ posted # <<>>
    /\ posted' = Tail(posted)
    /\ ops' = [ops EXCEPT ![Head(posted)].calls = @ + 1]
    /\ UNCHANGED <<impl, queue, running, threads, client, work, fault>>

\* Mutant: handler_base without its io_service::work.
OnlyPosted == posted # <<>>

\* What keeps run() from returning: handlers to call, and the io_service::work
\* in every handler_base.
HasWork == posted # <<>> \/ queue # <<>> \/ running # {}

ClientReturns ==
    /\ fault = "none" /\ client = "running" /\ ~HasWork
    /\ client' = "returned"
    /\ UNCHANGED <<impl, ops, queue, running, threads, posted, work, fault>>

\* io_service::stop().
ClientStops ==
    /\ fault = "none" /\ client = "running"
    /\ client' = "stopped"
    /\ UNCHANGED <<impl, ops, queue, running, threads, posted, work, fault>>

\* The io_service is destroyed, after its connectors: shutdown_service stops
\* the worker, which ends the call it is making, and joins it; what is queued
\* is destroyed uncalled.
Shutdown ==
    /\ fault = "none" /\ client # "running" /\ work = "up"
    /\ \A c \in Conns : ~impl[c].alive
    /\ running = {}
    /\ work' = "gone" /\ threads' = 0 /\ queue' = <<>>
    /\ UNCHANGED <<impl, ops, running, posted, client, fault>>

Over == (work = "gone" \/ fault # "none") /\ UNCHANGED vars

Worker == WorkerBegins \/ \E i \in running, ec \in Code : WorkerEnds(i, ec)

Next ==
    \/ \E c \in Conns : \/ Open(c) \/ Cancel(c) \/ Close(c) \/ Destroy(c) \/ CloseReturns(c)
                        \/ AsyncConnect(c) \/ AsyncQuery(c) \/ AsyncStoreResult(c)
    \/ Worker
    \/ CallHandler \/ ClientReturns \/ ClientStops
    \/ Shutdown
    \/ Over

Spec == Init /\ [][Next]_vars

\* The worker runs its queue and the server answers; the client is in run().
FairSpec == Spec /\ WF_vars(Worker) /\ WF_vars(CallHandler)

-----------------------------------------------------------------------------
(* Properties *)

\* The types of the state.
TypeOK ==
    /\ impl \in [Conns -> Impl]
    /\ ops \in Seq(Op)
    /\ queue \in Seq(1..Len(ops)) /\ posted \in Seq(1..Len(ops))
    /\ running \in SUBSET (1..Len(ops))
    /\ threads \in Nat
    /\ client \in {"running", "returned", "stopped"}
    /\ work \in {"up", "gone"}
    /\ fault \in Fault

\* close(), open() and cancel() while operations wait for the worker: once
\* close(), or the destructor, has returned, the worker makes no call of the
\* session that was closed, neither on the closed handle nor on the one opened
\* in its place nor on a connector that is gone.  A call overlaps with a
\* close() that is under way, and that is a race: cancel() comes after
\* mysql_close.
OwnSession ==
    \A i \in running :
       LET h == impl[ops[i].conn] IN
          h.alive /\ (h.closing = "no" => h.initialized /\ ~ops[i].stale)

\* The last query asked for before i on the same handle, of those answered
\* with one of the codes; 0 if there is none.
LastQuery(i, codes) ==
    LET Before == {j \in 1..(i - 1) : /\ IsQuery(ops[j]) /\ ops[j].conn = ops[i].conn
                                      /\ ~ops[j].stale /\ ops[j].ec \in codes}
    IN  IF Before = {} THEN 0
        ELSE CHOOSE j \in Before : \A k \in Before : k <= j

\* async_query and async_store_result need not wait for each other's handler:
\* a store that delivers a result delivers one of the last query asked for
\* before it, whose answer is known by then.  When that query failed it has
\* nothing, or what the last one to succeed left unread.
PairsWithItsQuery ==
    \A i \in DOMAIN ops :
       ops[i].kind = "store" /\ ops[i].ec = "ok" /\ ~ops[i].stale =>
          LET last == LastQuery(i, {"pending", "ok", "error"})
              good == LastQuery(i, {"ok"})
          IN  IF last = good THEN ops[i].of = last
              ELSE ops[last].ec = "error" /\ ops[i].of \in {0, good}

\* "work_(io_service)" in handler_base: run() does not return for want of work
\* while an operation is under way, and each handler has been called once.
NoneLeftBehind ==
    client = "returned" =>
       \A i \in DOMAIN ops : ops[i].calls = 1

\* Every operation asked for, cancelled ones included, has its handler called,
\* unless the client stops its io_service: again and again, and for good once
\* no more are asked for, none is left unanswered.
EveryOpAnswered ==
    []<>(\/ \A i \in DOMAIN ops : ops[i].calls > 0
         \/ client = "stopped" \/ fault # "none")
=============================================================================
