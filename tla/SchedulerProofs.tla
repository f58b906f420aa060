--------------------------- MODULE SchedulerProofs ---------------------------
(***************************************************************************)
(* Theorems about Scheduler, for any number of tasks and any bound:        *)
(* its types, IntervalInForce, and that a cancel() found final is final.    *)
(***************************************************************************)
EXTENDS Scheduler, TLAPS

Completion == [task : Task, ec : Code]

\* A task whose cancel() was final has no pending wait, and only aborted
\* handlers of it are still queued.
FinalQuiet ==
    \A t \in final :
       /\ waits[t] = 0
       /\ \A i \in DOMAIN ready : ready[i].task = t => ready[i].ec = "aborted"

\* The inductive invariant.  FinalQuiet is what CancelIsFinal needs of every
\* state.
IInv ==
    /\ TypeOK
    /\ IntervalInForce
    /\ FinalQuiet

\* Every handler in the new ready queue was there before, or is one that t's
\* timer has just completed with ec.
Adds(t, ec) ==
    \A i \in DOMAIN ready' : \/ \E j \in DOMAIN ready : ready'[i] = ready[j]
                             \/ ready'[i] = Done(t, ec)

\* What a concatenation holds.
LEMMA ConcatElements ==
    ASSUME NEW S, NEW p \in Seq(S), NEW q \in Seq(S)
    PROVE  /\ p \o q \in Seq(S)
           /\ \A i \in DOMAIN (p \o q) :
                 \/ \E j \in DOMAIN p : (p \o q)[i] = p[j]
                 \/ \E j \in DOMAIN q : (p \o q)[i] = q[j]
OBVIOUS

\* What the tail of a queue holds.
LEMMA TailElements ==
    ASSUME NEW S, NEW p \in Seq(S), p # <<>>
    PROVE  /\ Tail(p) \in Seq(S)
           /\ Head(p) \in S /\ Head(p) = p[1] /\ 1 \in DOMAIN p
           /\ \A i \in DOMAIN Tail(p) : i + 1 \in DOMAIN p /\ Tail(p)[i] = p[i + 1]
OBVIOUS

\* The handlers of t's waits, completed with one code, as a queue.
LEMMA WaitsElements ==
    ASSUME TypeOK, NEW t \in Task, NEW ec \in Code
    PROVE  LET q == [i \in 1..waits[t] |-> Done(t, ec)] IN
           /\ q \in Seq(Completion)
           /\ \A i \in DOMAIN q : q[i] = Done(t, ec)
  <1>1. waits[t] \in Nat
    BY DEF TypeOK
  <1>2. Done(t, ec) \in Completion
    BY DEF Done, Completion
  <1> QED
    BY <1>1, <1>2

\* Appending t's completed waits to (the tail of) the ready queue.
LEMMA AppendWaits ==
    ASSUME TypeOK, NEW t \in Task, NEW ec \in Code,
           NEW p \in Seq(Completion),
           \A i \in DOMAIN p : \E j \in DOMAIN ready : p[i] = ready[j],
           ready' = p \o [i \in 1..waits[t] |-> Done(t, ec)]
    PROVE  ready' \in Seq(Completion) /\ Adds(t, ec)
  <1> DEFINE q == [i \in 1..waits[t] |-> Done(t, ec)]
  <1>1. q \in Seq(Completion) /\ \A i \in DOMAIN q : q[i] = Done(t, ec)
    BY WaitsElements
  <1> HIDE DEF q
  <1>2. /\ p \o q \in Seq(Completion)
        /\ \A i \in DOMAIN (p \o q) :
              \/ \E j \in DOMAIN p : (p \o q)[i] = p[j]
              \/ \E j \in DOMAIN q : (p \o q)[i] = q[j]
    BY <1>1, ConcatElements, SMTT(30)
  <1>3. ready' = p \o q
    BY DEF q
  <1> QED
    BY <1>1, <1>2, <1>3 DEF Adds

\* The invariants that do not speak of object lifetime, from what a step does
\* to the timers and to the queue: t's timer is left with n waits.
LEMMA TimerStep ==
    ASSUME IInv, TypeOK', NEW t \in Task, NEW ec \in Code, Adds(t, ec),
           NEW n \in 0..1, waits' = [waits EXCEPT ![t] = n],
           \A u \in Interval : u # t => ms'[u] = ms[u] /\ expiry'[u] = expiry[u],
           t \in Interval /\ n = 1 => expiry'[t] = ms'[t],
           final' \subseteq final \cup {t},
           t \in final' => /\ n = 0 /\ ec = "aborted"
                           /\ t \in final \/ ~ExpiredQueued(t)
    PROVE  IntervalInForce' /\ FinalQuiet'
  <1>2. IntervalInForce'
    BY DEF IInv, IntervalInForce, TypeOK, Task
  <1>3. ASSUME NEW u \in final'
        PROVE  /\ waits'[u] = 0
               /\ \A i \in DOMAIN ready' :
                     ready'[i].task = u => ready'[i].ec = "aborted"
    <2>1. CASE u = t
      <3>1. \A j \in DOMAIN ready : ready[j].task = t => ready[j].ec = "aborted"
        BY <1>3, <2>1 DEF IInv, FinalQuiet, ExpiredQueued
      <3>2. n = 0 /\ ec = "aborted"
        BY <1>3, <2>1
      <3>3. waits'[t] = 0
        BY <3>2 DEF IInv, TypeOK
      <3>4. \A i \in DOMAIN ready' :
               ready'[i].task = t => ready'[i].ec = "aborted"
        BY <3>1, <3>2 DEF Adds, Done
      <3> QED
        BY <2>1, <3>3, <3>4
    <2>2. CASE u # t
      <3>1. u \in final /\ u \in Task
        BY <1>3, <2>2 DEF IInv, TypeOK
      <3> QED
        BY <2>2, <3>1 DEF Adds, Done, IInv, FinalQuiet, TypeOK
    <2> QED
      BY <2>1, <2>2
  <1> QED
    BY <1>2, <1>3 DEF FinalQuiet

\* User code arms t's timer: makeX, start, reschedule.
LEMMA ArmStep ==
    ASSUME IInv, NEW t \in Task, NEW m \in Millis, Arm(t, m),
           ms' \in [Task -> Millis], ms'[t] = m,
           \A u \in Task : u # t => ms'[u] = ms[u],
           NEW made \in SUBSET Task, alive \subseteq made, t \in made,
           held' \subseteq made, Collect(made)
    PROVE  IInv'
  <1>1. ready' \in Seq(Completion) /\ Adds(t, "aborted")
    <2>1. ready \in Seq(Completion) /\ "aborted" \in Code /\ TypeOK
      BY DEF IInv, TypeOK, Completion, Code
    <2>2. ready' = ready \o [i \in 1..waits[t] |-> Done(t, "aborted")]
      BY DEF Arm, schedule, AbortedWaits
    <2> QED
      BY <2>1, <2>2, AppendWaits
  <1>2. TypeOK'
    BY <1>1 DEF IInv, TypeOK, Outcome, Arm, schedule, Collect, Completion
  <1>3. IntervalInForce' /\ FinalQuiet'
    <2>1. /\ waits' = [waits EXCEPT ![t] = 1]
          /\ expiry' = [expiry EXCEPT ![t] = m]
          /\ final' = final \ {t}
      BY DEF Arm, schedule
    <2>2. /\ \A u \in Interval : u # t => ms'[u] = ms[u] /\ expiry'[u] = expiry[u]
          /\ t \in Interval /\ 1 = 1 => expiry'[t] = ms'[t]
          /\ final' \subseteq final \cup {t} /\ t \notin final'
          /\ 1 \in 0..1 /\ "aborted" \in Code
      BY <2>1 DEF IInv, TypeOK, Task, Code
    <2> QED
      BY <1>1, <1>2, <2>1, <2>2, TimerStep
  <1> QED
    BY <1>2, <1>3 DEF IInv

\* What every action keeps true.
LEMMA Inductive == IInv /\ [Next]_vars => IInv'
  <1> SUFFICES ASSUME IInv, [Next]_vars PROVE IInv'
    OBVIOUS
  <1>0. TypeOK /\ ready \in Seq(Completion) /\ Code = {"ok", "aborted", "error"}
    BY DEF IInv, TypeOK, Completion, Code
  <1>1. ASSUME NEW t \in Task, NEW m \in Millis, Make(t, m) PROVE IInv'
    <2>1. /\ Arm(t, m) /\ ms' = [ms EXCEPT ![t] = m]
          /\ held' \subseteq alive \cup {t} /\ Collect(alive \cup {t})
      BY <1>1 DEF Make, IInv, TypeOK
    <2>2. /\ ms' \in [Task -> Millis] /\ ms'[t] = m
          /\ \A u \in Task : u # t => ms'[u] = ms[u]
          /\ alive \cup {t} \in SUBSET Task
      BY <2>1, <1>0 DEF TypeOK
    <2> QED
      BY <2>1, <2>2, ArmStep
  <1>2. ASSUME NEW t \in Task, NEW m \in Millis,
               Start(t, m) \/ RescheduleWith(t, m)
        PROVE  IInv'
    <2>1. /\ Arm(t, m) /\ ms' = [ms EXCEPT ![t] = m]
          /\ held' \subseteq alive /\ Collect(alive) /\ t \in alive
      BY <1>2 DEF Start, RescheduleWith, CanUse, IInv, TypeOK
    <2>2. /\ ms' \in [Task -> Millis] /\ ms'[t] = m
          /\ \A u \in Task : u # t => ms'[u] = ms[u]
          /\ alive \in SUBSET Task
      BY <2>1, <1>0 DEF TypeOK
    <2> QED
      BY <2>1, <2>2, ArmStep
  <1>3. ASSUME NEW t \in Task, Reschedule(t) PROVE IInv'
    <2>1. /\ Arm(t, ms[t]) /\ ms' = ms
          /\ held' \subseteq alive /\ Collect(alive) /\ t \in alive
      BY <1>3 DEF Reschedule, CanUse, IInv, TypeOK
    <2>2. /\ ms' \in [Task -> Millis] /\ ms'[t] = ms[t] /\ ms[t] \in Millis
          /\ \A u \in Task : u # t => ms'[u] = ms[u]
          /\ alive \in SUBSET Task
      BY <2>1, <1>0 DEF TypeOK
    <2> QED
      BY <2>1, <2>2, ArmStep
  <1>4. ASSUME NEW t \in Task, Cancel(t) PROVE IInv'
    <2>1. ready' \in Seq(Completion) /\ Adds(t, "aborted")
      BY <1>4, <1>0, AppendWaits DEF Cancel, AbortedWaits
    <2>2. TypeOK'
      BY <1>4, <2>1 DEF Cancel, Collect, IInv, TypeOK, Outcome, Completion
    <2>3. /\ waits' = [waits EXCEPT ![t] = 0] /\ 0 \in 0..1
          /\ \A u \in Interval : u # t => ms'[u] = ms[u] /\ expiry'[u] = expiry[u]
          /\ final' \subseteq final \cup {t}
          /\ t \in final' => t \in final \/ ~ExpiredQueued(t)
      BY <1>4 DEF Cancel
    <2>4. IntervalInForce' /\ FinalQuiet'
      <3>1. "aborted" \in Code /\ ~(0 = 1)
        BY <1>0
      <3> QED
        BY <2>1, <2>2, <2>3, <3>1, TimerStep
    <2> QED
      BY <2>2, <2>4 DEF IInv
  <1>5. ASSUME NEW t \in Task, Release(t) PROVE IInv'
    <2>1. /\ Collect(alive) /\ held' = held \ {t}
          /\ UNCHANGED <<ms, expiry, waits, ready, running, last, final>>
      BY <1>5 DEF Release
    <2>2. TypeOK'
      BY <2>1 DEF Collect, IInv, TypeOK
    <2>3. IntervalInForce' /\ FinalQuiet'
      BY <2>1 DEF IInv, IntervalInForce, FinalQuiet
    <2> QED
      BY <2>2, <2>3 DEF IInv
  <1>6. ASSUME NEW t \in Task, NEW ec \in {"ok", "error"}, Expire(t, ec)
        PROVE  IInv'
    <2>1. ready' \in Seq(Completion) /\ Adds(t, ec)
      BY <1>6, <1>0, AppendWaits DEF Expire
    <2>2. TypeOK'
      BY <1>6, <2>1 DEF Expire, Collect, IInv, TypeOK, Completion
    <2>3. /\ waits' = [waits EXCEPT ![t] = 0] /\ 0 \in 0..1
          /\ \A u \in Interval : u # t => ms'[u] = ms[u] /\ expiry'[u] = expiry[u]
          /\ final' = final /\ t \notin final
      BY <1>6 DEF Expire, IInv, FinalQuiet, TypeOK
    <2>4. IntervalInForce' /\ FinalQuiet'
      <3>1. ec \in Code /\ ~(0 = 1)
        BY <1>0
      <3> QED
        BY <2>1, <2>2, <2>3, <3>1, TimerStep
    <2> QED
      BY <2>2, <2>4 DEF IInv
  <1>7. ASSUME Dispatch PROVE IInv'
    <2> DEFINE h == Head(ready)
               t == h.task
    <2>0. /\ running = Idle /\ ready # <<>> /\ running' = h
          /\ UNCHANGED <<held, ms, final>> /\ Collect(alive)
          /\ last' = [last EXCEPT ![t] = Noted(h)]
      BY <1>7 DEF Dispatch
    <2>1. /\ Tail(ready) \in Seq(Completion)
          /\ h \in Completion /\ h = ready[1] /\ 1 \in DOMAIN ready
          /\ \A i \in DOMAIN Tail(ready) :
                \E j \in DOMAIN ready : Tail(ready)[i] = ready[j]
      BY <1>0, <2>0, TailElements
    <2>2. t \in Task
      BY <2>1 DEF Completion
    <2>2a. last' \in [Task -> Outcome]
      BY <1>0, <2>0, <2>2 DEF TypeOK, Noted, Outcome
    <2>3. CASE ReArms(h)
      <3>1. /\ waits' = [waits EXCEPT ![t] = 1] /\ 1 \in 0..1
            /\ expiry' = [expiry EXCEPT ![t] = ms[t]]
            /\ ready' = Tail(ready) \o [i \in 1..waits[t] |-> Done(t, "aborted")]
        <4>1. schedule(t, ms[t], Tail(ready))
          BY <1>7, <2>3 DEF Dispatch
        <4> QED
          BY <4>1 DEF schedule, AbortedWaits
      <3>2. t \notin final
        BY <2>1, <2>3 DEF IInv, FinalQuiet, ReArms
      <3>3. ready' \in Seq(Completion) /\ Adds(t, "aborted")
        BY <1>0, <2>1, <2>2, <3>1, AppendWaits
      <3>4. TypeOK'
        BY <2>0, <2>1, <2>2, <2>2a, <3>1, <3>3 DEF IInv, TypeOK, Collect, Completion
      <3>5. /\ \A u \in Interval :
                   u # t => ms'[u] = ms[u] /\ expiry'[u] = expiry[u]
            /\ expiry'[t] = ms'[t]
            /\ final' \subseteq final \cup {t} /\ t \notin final'
            /\ "aborted" \in Code
        BY <1>0, <2>0, <2>2, <3>1, <3>2 DEF TypeOK, Task
      <3>6. IntervalInForce' /\ FinalQuiet'
        BY <2>2, <3>1, <3>3, <3>4, <3>5, TimerStep
      <3> QED
        BY <3>4, <3>6 DEF IInv
    <2>4. CASE ~ReArms(h)
      <3>1. ready' = Tail(ready) /\ UNCHANGED <<expiry, waits>>
        BY <1>7, <2>4 DEF Dispatch
      <3>2. TypeOK'
        BY <2>0, <2>1, <2>2a, <3>1 DEF IInv, TypeOK, Collect, Completion
      <3>3. IntervalInForce'
        BY <2>0, <3>1 DEF IInv, IntervalInForce
      <3>4. FinalQuiet'
        BY <2>0, <2>1, <3>1 DEF IInv, FinalQuiet
      <3> QED
        BY <3>2, <3>3, <3>4 DEF IInv
    <2> QED
      BY <2>3, <2>4
  <1>8. ASSUME Return \/ Throw PROVE IInv'
    <2>1. /\ Collect(alive) /\ running # Idle /\ running' = Idle
          /\ UNCHANGED <<held, ms, expiry, waits, ready, final>>
      BY <1>8 DEF Return, Throw
    <2>2. last' \in [Task -> Outcome]
      BY <1>8 DEF Return, Throw, IInv, TypeOK, Outcome
    <2>3. TypeOK'
      BY <2>1, <2>2 DEF Collect, IInv, TypeOK
    <2>4. IntervalInForce' /\ FinalQuiet'
      BY <2>1 DEF IInv, IntervalInForce, FinalQuiet
    <2> QED
      BY <2>3, <2>4 DEF IInv
  <1>9. CASE UNCHANGED vars
    BY <1>9 DEF vars, IInv, TypeOK, IntervalInForce, FinalQuiet
  <1> QED
    BY <1>1, <1>2, <1>3, <1>4, <1>5, <1>6, <1>7, <1>8, <1>9 DEF Next, callAfter, callEvery

\* Every reachable state of the tasks, timers and ready queue satisfies IInv.
THEOREM Invariance == Spec => []IInv
  <1>1. Init => IInv
    BY TaskAssumption DEF Init, IInv, TypeOK, Outcome, IntervalInForce, FinalQuiet, Idle
  <1> QED
    BY <1>1, Inductive, PTL DEF Spec

\* The types of the variables hold for any sets of tasks and delays.
THEOREM TypeCorrect == Spec => []TypeOK
  BY Invariance, PTL DEF IInv

\* A pending interval task waits for the interval in force.
THEOREM InForce == Spec => []IntervalInForce
  BY Invariance, PTL DEF IInv

\* cancel() made while no expired wait of the task is queued is final.
THEOREM FinalCancel == Spec => CancelIsFinal
  <1>1. IInv /\ [Next]_vars => [\A t \in final : ~RunsOk(t)]_vars
    <2> SUFFICES ASSUME IInv, Next, NEW t \in final, RunsOk(t) PROVE FALSE
      BY DEF vars
    <2>1. running = Idle /\ running' = Done(t, "ok") /\ t \in Task
      BY DEF RunsOk, IInv, TypeOK
    <2>2. running' # running
      BY <2>1, TaskAssumption DEF Idle, Done
    <2>3. running' # Idle
      BY <2>1, <2>2
    <2>4. Dispatch
      BY <2>2, <2>3 DEF Next, callAfter, callEvery, Make, Start, RescheduleWith,
                        Reschedule, Arm, Cancel, Release, Expire, Return, Throw
    <2>5. Head(ready) = Done(t, "ok") /\ ready # <<>>
      BY <2>1, <2>4 DEF Dispatch
    <2>6. ready[1] = Done(t, "ok") /\ 1 \in DOMAIN ready
      BY <2>5, TailElements DEF IInv, TypeOK
    <2> QED
      BY <2>6 DEF IInv, FinalQuiet, Done
  <1> QED
    BY <1>1, Invariance, PTL DEF Spec, CancelIsFinal

=============================================================================
