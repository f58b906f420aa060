------------------------------ MODULE Scheduler ------------------------------
(***************************************************************************)
(* The timed tasks of otservpp/scheduler.hpp: DeferredTask and             *)
(* IntervalTask over a boost::asio::deadline_timer, the handlers the       *)
(* io_service has ready, the one handler its thread is running, and the    *)
(* shared_ptrs that keep a task object alive.                              *)
(*                                                                         *)
(* A task's timer and its methods are used from the thread that runs the   *)
(* io_service (deadline_timer is not thread safe), so a handler is never   *)
(* preempted by another one; what interleaves is the order in which        *)
(* timers expire, handlers are run and user code calls the methods.  A     *)
(* wait that has expired has a handler in the ready queue, which neither   *)
(* cancel() nor expires_from_now() can take back.                          *)
(***************************************************************************)
EXTENDS Integers, Sequences

CONSTANTS
    Deferred,     \* the DeferredTask objects
    Interval,     \* the IntervalTask objects
    Wrapped,      \* the tasks made by a Scheduler: user function in a Wrapper
    Millis,       \* the delays and intervals in use
    MaxReady      \* bound: user code arms no timer when that many are ready

Task == Deferred \cup Interval

ASSUME TaskAssumption ==
    /\ Deferred \cap Interval = {}
    /\ Wrapped \subseteq Task
    /\ "none" \notin Task
    /\ Millis # {}
    /\ MaxReady \in Nat

\* The codes a wait completes with: no error, operation_aborted, any other.
Code == {"ok", "aborted", "error"}

\* User code armed the task; a cancel() returned true and its function is yet
\* to be told; a cancel() was told, or returned false; a wait ended in error;
\* the function threw.
Outcome == {"armed", "cancelled", "told", "missed", "failed", "threw"}

\* The io_service is between two handlers.
Idle == [task |-> "none", ec |-> "none"]

VARIABLES
    alive,     \* the task objects that exist
    held,      \* those some client holds a DeferredTaskPtr/IntervalTaskPtr to
    ms,        \* IntervalTask::ms (the last delay, for a DeferredTask)
    expiry,    \* the expiry time set on the task's timer
    waits,     \* how many async_waits are pending on the task's timer
    ready,     \* the io_service's queue of timer handlers due to run
    running,   \* the handler being run, or Idle
    last,      \* history: what last happened to the task (see Outcome)
    final      \* history: tasks cancelled while no expired wait was queued

vars == <<alive, held, ms, expiry, waits, ready, running, last, final>>

Done(t, ec) == [task |-> t, ec |-> ec]

\* A wait of t that expired, and not one that was aborted, is ready to run.
ExpiredQueued(t) ==
    \E i \in DOMAIN ready : ready[i].task = t /\ ready[i].ec # "aborted"

-----------------------------------------------------------------------------
(* The timer: deadline_timer and the io_service's queue. *)

\* Mutant: a cancelled wait is forgotten, its handler is not queued.
ForgottenWaits(t) == <<>>

\* What cancelling the pending waits of t adds to the ready queue.
AbortedWaits(t) == [i \in 1..waits[t] |-> Done(t, "aborted")]

\* BaseDeferredTask::schedule: expires_from_now, which aborts the pending
\* waits, then one async_wait.
schedule(t, m, queue) ==
    /\ expiry' = [expiry EXCEPT ![t] = m]
    /\ waits' = [waits EXCEPT ![t] = 1]
    /\ ready' = queue \o AbortedWaits(t)

\* The lambda given to async_wait owns a shared_ptr to the task.
HandlerOwns(t) ==
    \/ waits'[t] > 0
    \/ \E i \in DOMAIN ready' : ready'[i].task = t
    \/ running'.task = t

\* The last shared_ptr to go deletes the task.
Collect(made) == alive' = {t \in made : t \in held' \/ HandlerOwns(t)}

\* User code can name t: it holds a pointer, or it is t's own binary handler,
\* which is passed one.  A Wrapper calls its function with no argument.
CanUse(t) ==
    /\ t \in alive
    /\ t \in held \/ (running.task = t /\ t \notin Wrapped)

-----------------------------------------------------------------------------
Init ==
    /\ alive = {} /\ held = {}
    /\ ms \in [Task -> Millis] /\ expiry = ms
    /\ waits = [t \in Task |-> 0]
    /\ ready = <<>> /\ running = Idle
    /\ last = [t \in Task |-> "armed"]
    /\ final = {}

\* What start(), reschedule() and the make functions have in common.
Arm(t, m) ==
    /\ Len(ready) < MaxReady
    /\ schedule(t, m, ready)
    /\ last' = [last EXCEPT ![t] = "armed"]
    /\ final' = final \ {t}
    /\ UNCHANGED running

\* makeDeferredTask and makeIntervalTask: construct, start, return a pointer.
Make(t, m) ==
    /\ t \notin alive
    /\ ms' = [ms EXCEPT ![t] = m]
    /\ held' = held \cup {t}
    /\ Arm(t, m)
    /\ Collect(alive \cup {t})

\* Scheduler::callAfter and callEvery, and the functions above by themselves.
callAfter(t, m) == t \in Deferred /\ Make(t, m)
callEvery(t, m) == t \in Interval /\ Make(t, m)

\* DeferredTask::start on an existing task.
Start(t, m) ==
    /\ t \in Deferred /\ CanUse(t)
    /\ ms' = [ms EXCEPT ![t] = m]
    /\ Arm(t, m)
    /\ UNCHANGED held
    /\ Collect(alive)

\* IntervalTask::reschedule() called by user code.
Reschedule(t) ==
    /\ t \in Interval /\ CanUse(t)
    /\ Arm(t, ms[t])
    /\ UNCHANGED <<held, ms>>
    /\ Collect(alive)

\* Mutant: reschedule() before the new interval is stored.
RescheduleThenStore(t, m) ==
    /\ t \in Interval /\ CanUse(t)
    /\ ms' = [ms EXCEPT ![t] = m]
    /\ Arm(t, ms[t])
    /\ UNCHANGED held
    /\ Collect(alive)

\* IntervalTask::reschedule(int).
RescheduleWith(t, m) ==
    /\ t \in Interval /\ CanUse(t)
    /\ ms' = [ms EXCEPT ![t] = m]
    /\ Arm(t, m)
    /\ UNCHANGED held
    /\ Collect(alive)

\* BaseDeferredTask::cancel, which returns waits[t] > 0.
Cancel(t) ==
    /\ CanUse(t)
    /\ ready' = ready \o AbortedWaits(t)
    /\ waits' = [waits EXCEPT ![t] = 0]
    /\ last' = [last EXCEPT ![t] =
                  IF waits[t] > 0 THEN "cancelled" ELSE "missed"]
    /\ final' = IF ExpiredQueued(t) THEN final ELSE final \cup {t}
    /\ UNCHANGED <<held, ms, expiry, running>>
    /\ Collect(alive)

\* A client lets its DeferredTaskPtr or IntervalTaskPtr go.
Release(t) ==
    /\ t \in held
    /\ held' = held \ {t}
    /\ UNCHANGED <<ms, expiry, waits, ready, running, last, final>>
    /\ Collect(alive)

\* The reactor, which the io_service polls between handlers, finds the
\* expiry time of t's timer passed (or its wait in error).
Expire(t, ec) ==
    /\ running = Idle
    /\ waits[t] > 0
    /\ ready' = ready \o [i \in 1..waits[t] |-> Done(t, ec)]
    /\ waits' = [waits EXCEPT ![t] = 0]
    /\ UNCHANGED <<held, ms, expiry, running, last, final>>
    /\ Collect(alive)

\* Mutants of the interval logic: it re-arms after an abort too; the test of
\* the error code is inverted.
ReArmsAlways(h) == h.task \in Interval
ReArmsInverted(h) == h.task \in Interval /\ h.ec = "error"

\* The handler of an IntervalTask reschedules itself before it calls the
\* user's function, unless its wait was aborted.
ReArms(h) == h.task \in Interval /\ h.ec # "aborted"

\* History: what running the handler h makes of the last thing that happened.
Noted(h) ==
    CASE h.ec = "error" -> "failed"
      [] h.ec = "aborted" /\ last[h.task] = "cancelled" -> "told"
      [] OTHER -> last[h.task]

\* The io_service runs the next ready handler.
Dispatch ==
    /\ running = Idle
    /\ ready # <<>>
    /\ LET h == Head(ready) IN
         /\ running' = h
         /\ IF ReArms(h)
              THEN schedule(h.task, ms[h.task], Tail(ready))
              ELSE /\ ready' = Tail(ready)
                   /\ UNCHANGED <<expiry, waits>>
         /\ last' = [last EXCEPT ![h.task] = Noted(h)]
    /\ UNCHANGED <<held, ms, final>>
    /\ Collect(alive)

\* The handler returns.  A Wrapper given another error cannot: it throws.
Return ==
    /\ running # Idle
    /\ ~(running.task \in Wrapped /\ running.ec = "error")
    /\ running' = Idle
    /\ UNCHANGED <<held, ms, expiry, waits, ready, last, final>>
    /\ Collect(alive)

\* The handler throws through io_service::run, which is then called again.
\* A Wrapper given operation_aborted calls nothing that could throw.
Throw ==
    /\ running # Idle
    /\ ~(running.task \in Wrapped /\ running.ec = "aborted")
    /\ running' = Idle
    /\ last' = [last EXCEPT ![running.task] = "threw"]
    /\ UNCHANGED <<held, ms, expiry, waits, ready, final>>
    /\ Collect(alive)

Next ==
    \/ \E t \in Task :
         \/ \E m \in Millis : \/ callAfter(t, m) \/ callEvery(t, m)
                              \/ Start(t, m) \/ RescheduleWith(t, m)
         \/ \E ec \in {"ok", "error"} : Expire(t, ec)
         \/ Reschedule(t)
         \/ Cancel(t)
         \/ Release(t)
    \/ Dispatch
    \/ Return
    \/ Throw

Spec == Init /\ [][Next]_vars

\* The io_service's thread keeps running handlers, a user function ends, and
\* the reactor is polled between handlers for as long as a timer is pending.
Fairness ==
    /\ WF_vars(Dispatch)
    /\ WF_vars(Return \/ Throw)
    /\ \A t \in Task : SF_vars(\E ec \in {"ok", "error"} : Expire(t, ec))

FairSpec == Spec /\ Fairness

-----------------------------------------------------------------------------
(* Properties *)

TypeOK ==
    /\ alive \subseteq Task /\ held \subseteq alive /\ final \subseteq Task
    /\ ms \in [Task -> Millis] /\ expiry \in [Task -> Millis]
    /\ waits \in [Task -> Nat]
    /\ ready \in Seq([task : Task, ec : Code])
    /\ running \in [task : Task, ec : Code] \cup {Idle}
    /\ last \in [Task -> Outcome]

\* A pending IntervalTask waits for the interval in force: reschedule(int)
\* also changes the wait that is already pending.
IntervalInForce == \A t \in Interval : waits[t] > 0 => expiry[t] = ms[t]

\* The user's function of t is called with no error.
RunsOk(t) == running = Idle /\ running' = Done(t, "ok")

\* A cancel() made while no expired wait of the task is queued is final: the
\* function is not run again (but with operation_aborted) unless user code
\* starts or reschedules the task.  That covers cancel() from inside the
\* task's own function.
CancelIsFinal == [][\A t \in final : ~RunsOk(t)]_vars

\* User code starts or restarts t.
UserArms(t) ==
    \/ \E m \in Millis : Make(t, m) \/ Start(t, m) \/ RescheduleWith(t, m)
    \/ Reschedule(t)

\* An IntervalTask that user code leaves armed keeps being run, with no error,
\* until a wait of it ends in error or its function throws: the class comment
\* lets those two stop it, and the property asks nothing of the task after
\* them.  Rescheduling before the function is called is what it rests on.
IntervalGoesOn ==
    \A t \in Interval :
       \/ []<><<UserArms(t)>>_vars
       \/ (t \in alive /\ last[t] = "armed")
             ~> (running = Done(t, "ok") \/ last[t] # "armed")

\* A cancel() that returned true is answered: the function is run with
\* operation_aborted (comment of BaseDeferredTask::cancel), even if every
\* client lets the task go, or it is started again, before the handler runs.
CancelAnswered ==
    \A t \in Task : last[t] = "cancelled" ~> running = Done(t, "aborted")

\* The class comments: once it has run, or its cancel() is final, a task that
\* no object holds a reference to is deleted (unless user code keeps arming it).
Reclaimed ==
    \A t \in Task :
       \/ []<><<UserArms(t)>>_vars
       \/ (t \in alive \ held /\ (t \in Deferred \/ t \in final))
             ~> (t \notin alive \ held \/ (t \in Interval /\ t \notin final))
=============================================================================
