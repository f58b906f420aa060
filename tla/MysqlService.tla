---------------------------- MODULE MysqlService ----------------------------
(***************************************************************************)
(* The thread pool of sql::mysql::Service (otservpp/sql/mysqlservice.h and *)
(* .cpp).  Constructing a connection adds a thread to the pool; the        *)
(* threads of all connections serve one work queue; a thread leaves when   *)
(* it finds, after a task, that its connection is gone; the service stops  *)
(* the queue and joins the pool when its io_service is destroyed.          *)
(*                                                                         *)
(* A task is a lambda posted by connect(), prepareQuery() or runPrepared() *)
(* together with the client's handler, which the worker posts back to the  *)
(* client's io_service.  The first two refer to the connection object, the *)
(* last to a statement.  What MySQL answers is left out: every path of a   *)
(* task ends by posting its handler once, with or without an error.        *)
(***************************************************************************)
EXTENDS Integers, Sequences

CONSTANTS
    Conn,        \* the connections that may be constructed
    MaxTasks     \* bound: tasks posted in one behaviour

ASSUME TasksAssumption == MaxTasks \in Nat

NoTask == [id |-> 0, conn |-> "none", uses |-> "none"]

VARIABLES
    conn,      \* each connection: "none", "live" or "gone"
    thread,    \* where the thread made for a connection is
    doing,     \* the task that thread is running
    group,     \* threadPool: the threads in the thread_group
    queue,     \* workIoService: the tasks posted and not begun
    stopped,   \* workIoService.stopped()
    phase,     \* the io_service's owner: "up", "stopping", "joining", "down"
    posted,    \* how many tasks have been posted
    done,      \* the tasks whose handler was posted back to the client
    fault      \* what a step did to a destroyed connection

vars == <<conn, thread, doing, group, queue, stopped, phase, posted, done, fault>>

Running == fault = "none"

\* conn.threadEndFlag: the thread's copy is the last one once the connection's
\* own is destroyed with it.
terminatedUnique(t) == conn[t] = "gone"

Task == [id : 1..MaxTasks, conn : Conn, uses : {"conn", "stmt"}]

-----------------------------------------------------------------------------
Init ==
    /\ conn = [x \in Conn |-> "none"]
    /\ thread = [x \in Conn |-> "none"]
    /\ doing = [x \in Conn |-> NoTask]
    /\ group = {} /\ queue = <<>> /\ stopped = FALSE
    /\ phase = "up" /\ posted = 0 /\ done = {} /\ fault = "none"

\* Service::construct: the thread is started, then added to the pool.
construct(x) ==
    /\ Running /\ phase = "up"
    /\ conn[x] = "none"
    /\ conn' = [conn EXCEPT ![x] = "live"]
    /\ thread' = [thread EXCEPT ![x] = "run_one"]
    /\ group' = group \cup {x}
    /\ UNCHANGED <<doing, queue, stopped, phase, posted, done, fault>>

\* A worker is running a task of connection x: it refers to the connection, or
\* reaches its handle through the statement's mysql.
InUse(x) == \E t \in Conn : thread[t] = "busy" /\ doing[t].conn = x

\* ~BasicConnection: Service::destroy, and the implementation with its flag.
\* Connections owned by queued handlers are destroyed after the shutdown.
destroy(x) ==
    /\ Running /\ phase \in {"up", "down"}
    /\ conn[x] = "live"
    /\ conn' = [conn EXCEPT ![x] = "gone"]
    /\ fault' = IF InUse(x) THEN "use_after_free" ELSE "none"
    /\ UNCHANGED <<thread, doing, group, queue, stopped, phase, posted, done>>

\* A task for connection x: uses, what it refers to when it is run.
post(x, uses) ==
    /\ Running /\ phase = "up"
    /\ conn[x] = "live"
    /\ posted < MaxTasks
    /\ posted' = posted + 1
    /\ queue' = Append(queue, [id |-> posted + 1, conn |-> x, uses |-> uses])
    /\ UNCHANGED <<conn, thread, doing, group, stopped, phase, done, fault>>

connect(x) == post(x, "conn")
prepareQuery(x) == post(x, "conn")
runPrepared(x) == post(x, "stmt")

-----------------------------------------------------------------------------
(* A worker: do if(run_one() == 0) break; while(!terminated.unique());      *)

\* run_one() takes the next task, whichever connection it is for.
TakeTask(t) ==
    /\ Running /\ thread[t] = "run_one" /\ ~stopped
    /\ queue # <<>>
    /\ thread' = [thread EXCEPT ![t] = "busy"]
    /\ doing' = [doing EXCEPT ![t] = Head(queue)]
    /\ queue' = Tail(queue)
    /\ fault' = IF Head(queue).uses = "conn" /\ conn[Head(queue).conn] = "gone"
                  THEN "use_after_free" ELSE "none"
    /\ UNCHANGED <<conn, group, stopped, phase, posted, done>>

\* The task ends by posting its handler to the client's io_service.
FinishTask(t) ==
    /\ Running /\ thread[t] = "busy"
    /\ thread' = [thread EXCEPT ![t] = "unique?"]
    /\ done' = done \cup {doing[t].id}
    /\ doing' = [doing EXCEPT ![t] = NoTask]
    /\ UNCHANGED <<conn, group, queue, stopped, phase, posted, fault>>

\* Mutant: the loop's condition the wrong way round.
CheckFlagInverted(t) ==
    /\ Running /\ thread[t] = "unique?"
    /\ thread' = [thread EXCEPT ![t] =
                    IF terminatedUnique(t) THEN "run_one" ELSE "stopped?"]
    /\ UNCHANGED <<conn, doing, group, queue, stopped, phase, posted, done, fault>>

\* Mutant: a thread leaves after each task.
CheckFlagNever(t) ==
    /\ Running /\ thread[t] = "unique?"
    /\ thread' = [thread EXCEPT ![t] = "stopped?"]
    /\ UNCHANGED <<conn, doing, group, queue, stopped, phase, posted, done, fault>>

\* while(!terminated.unique())
CheckFlag(t) ==
    /\ Running /\ thread[t] = "unique?"
    /\ thread' = [thread EXCEPT ![t] =
                    IF terminatedUnique(t) THEN "stopped?" ELSE "run_one"]
    /\ UNCHANGED <<conn, doing, group, queue, stopped, phase, posted, done, fault>>

\* run_one() of a stopped io_service returns 0.
StoppedOut(t) ==
    /\ Running /\ thread[t] = "run_one" /\ stopped
    /\ thread' = [thread EXCEPT ![t] = "stopped?"]
    /\ UNCHANGED <<conn, doing, group, queue, stopped, phase, posted, done, fault>>

\* if(!workIoService.stopped())
CheckStopped(t) ==
    /\ Running /\ thread[t] = "stopped?"
    /\ thread' = [thread EXCEPT ![t] = IF stopped THEN "ending" ELSE "removing"]
    /\ UNCHANGED <<conn, doing, group, queue, stopped, phase, posted, done, fault>>

\* thread_group::remove_thread, which join_all locks out while it joins.
RemoveThread(t) ==
    /\ Running /\ thread[t] = "removing"
    /\ phase # "joining"
    /\ group' = group \ {t}
    /\ thread' = [thread EXCEPT ![t] = "ending"]
    /\ UNCHANGED <<conn, doing, queue, stopped, phase, posted, done, fault>>

\* mysql_thread_end, and the thread is over.
EndThread(t) ==
    /\ Running /\ thread[t] = "ending"
    /\ thread' = [thread EXCEPT ![t] = "ended"]
    /\ UNCHANGED <<conn, doing, group, queue, stopped, phase, posted, done, fault>>

-----------------------------------------------------------------------------
(* Service::shutdown_service: workIoService.stop(), threadPool.join_all()   *)

\* Mutant: join_all without stop.
stopForgotten ==
    /\ Running /\ phase = "up"
    /\ phase' = "stopping"
    /\ UNCHANGED <<conn, thread, doing, group, queue, stopped, posted, done, fault>>

stop ==
    /\ Running /\ phase = "up"
    /\ stopped' = TRUE
    /\ phase' = "stopping"
    /\ UNCHANGED <<conn, thread, doing, group, queue, posted, done, fault>>

join_all ==
    /\ Running /\ phase = "stopping"
    /\ phase' = "joining"
    /\ UNCHANGED <<conn, thread, doing, group, queue, stopped, posted, done, fault>>

\* Mutant: the threads are only asked to stop, not joined.
NotJoined ==
    /\ Running /\ phase = "joining"
    /\ phase' = "down"
    /\ UNCHANGED <<conn, thread, doing, group, queue, stopped, posted, done, fault>>

Joined ==
    /\ Running /\ phase = "joining"
    /\ \A t \in group : thread[t] = "ended"
    /\ phase' = "down"
    /\ UNCHANGED <<conn, thread, doing, group, queue, stopped, posted, done, fault>>

\* join_all holds the group's lock and waits for a thread that waits for it.
JoinDeadlock == phase = "joining" /\ \E t \in group : thread[t] = "removing"

Over ==
    /\ ~Running \/ phase = "down" \/ JoinDeadlock
    /\ UNCHANGED vars

Worker(t) ==
    TakeTask(t) \/ FinishTask(t) \/ CheckFlag(t) \/ StoppedOut(t)
       \/ CheckStopped(t) \/ RemoveThread(t) \/ EndThread(t)

Next ==
    \/ \E x \in Conn :
         \/ construct(x)
         \/ destroy(x)
         \/ connect(x) \/ prepareQuery(x) \/ runPrepared(x)
         \/ Worker(x)
    \/ stop
    \/ join_all
    \/ Joined
    \/ Over

Spec == Init /\ [][Next]_vars

\* Threads are scheduled and MySQL answers; a shutdown that began goes on.
Fairness ==
    /\ \A t \in Conn : WF_vars(Worker(t))
    /\ WF_vars(join_all \/ Joined)

FairSpec == Spec /\ Fairness

-----------------------------------------------------------------------------
(* Properties *)

TypeOK ==
    /\ conn \in [Conn -> {"none", "live", "gone"}]
    /\ thread \in [Conn -> {"none", "run_one", "busy", "unique?", "stopped?",
                            "removing", "ending", "ended"}]
    /\ doing \in [Conn -> Task \cup {NoTask}]
    /\ group \subseteq Conn
    /\ queue \in Seq(Task)
    /\ stopped \in BOOLEAN
    /\ phase \in {"up", "stopping", "joining", "down"}
    /\ posted \in 0..MaxTasks /\ done \subseteq 1..MaxTasks
    /\ fault \in {"none", "use_after_free"}

\* "For each new connection, a new thread is added to the pool": until the
\* service stops, the thread of a connection that exists is in the pool and in
\* its loop, whatever tasks of other connections it ran before.
EveryConnectionHasAThread ==
    \A x \in Conn :
       conn[x] = "live" /\ ~stopped =>
          x \in group /\ thread[x] \in {"run_one", "busy", "unique?"}

\* Once shutdown_service has returned no thread uses the service: one that was
\* not joined, because it had removed itself, only has mysql_thread_end to call.
NoThreadAfterShutdown ==
    phase = "down" => \A t \in Conn : thread[t] \in {"none", "ending", "ended"}

\* "when the operation completes or fails the given handler is called": a task
\* of a connection that lives on is run, although the threads that could run
\* it come and go, unless the service is stopped.
TasksDone ==
    \A n \in 1..MaxTasks :
       (\E i \in DOMAIN queue : queue[i].id = n /\ conn[queue[i].conn] = "live")
          ~> \/ n \in done \/ stopped \/ ~Running
             \/ \E i \in DOMAIN queue : queue[i].id = n /\ conn[queue[i].conn] = "gone"

\* shutdown_service returns, but for the threads that had looked at stopped()
\* before it was set and had not yet removed themselves.
ShutdownEnds == phase = "stopping" ~> phase = "down" \/ JoinDeadlock \/ ~Running
=============================================================================
