-------------------------- MODULE ConnectionProofs --------------------------
(***************************************************************************)
(* Proofs about Connection, for any number of messages and of handlers in  *)
(* the strand's queue: one write at a time and in order, no read or write  *)
(* without its timeout, and no message delivered once reading is closed.   *)
(***************************************************************************)
EXTENDS Connection, FiniteSetTheorems, TLAPS

\* A handler is one of op's, completed with one of the codes; there is one in
\* queue q; there is no second.
Is(h, op, codes) == h.op = op /\ h.ec \in codes
Some(q, op, codes) == \E i \in DOMAIN q : Is(q[i], op, codes)
AtMostOne(q, op, codes) ==
    \A i, j \in DOMAIN q : Is(q[i], op, codes) /\ Is(q[j], op, codes) => i = j

\* The socket is in use: what the properties are about.
Good(s) == s.fault = "none" /\ s.open

\* A handler that pops the queue of messages finds one, closed socket or not.
OkWrites(s) ==
    /\ AtMostOne(s.ready, "write", {"ok"})
    /\ Some(s.ready, "write", {"ok"}) => s.queue # <<>>

\* What every method of the class leaves alone, called in whatever state.
Step(s, t) ==
    /\ t \in State
    /\ t.written = s.written
    /\ OkWrites(s) => OkWrites(t)
    /\ ~s.open => ~t.open
    /\ s.closed \subseteq t.closed

\* k's wait is pending, or has expired and its handler is queued.
Guard(s, k) == s.wait[k] = 1 \/ Some(s.ready, k, {"ok"})

\* One read at a time, under its timeout.
ReadIdle(s) == s.read = "none" /\ ~Some(s.ready, "read", Code)
ReadLive(s) ==
    /\ AtMostOne(s.ready, "read", Code)
    /\ s.read # "none" => ~Some(s.ready, "read", Code) /\ Guard(s, "readTimer")

\* The messages are numbered as they were enqueued, and those before the
\* front of the queue have been written, and the front one too if the handler
\* of its write is still to be run.
Numbering(s) ==
    /\ \A j \in DOMAIN s.queue : s.queue[j] = Len(s.asked) - Len(s.queue) + j
    /\ Len(s.written) = Len(s.asked) - Len(s.queue)
                          + IF Some(s.ready, "write", {"ok"}) THEN 1 ELSE 0

\* One write at a time, for the front of the queue, under its timeout.
WriteIdle(s) == s.writes = <<>> /\ ~Some(s.ready, "write", Code)
WriteLive(s) ==
    /\ \/ s.queue = <<>> /\ WriteIdle(s)
       \/ /\ s.queue # <<>> /\ ~Some(s.ready, "write", Code)
          /\ Len(s.writes) = 1 /\ s.writes[1].msg = s.queue[1]
       \/ /\ s.queue # <<>> /\ s.writes = <<>>
          /\ Some(s.ready, "write", Code) /\ AtMostOne(s.ready, "write", Code)
    /\ ~Some(s.ready, "write", {"aborted"})
    /\ s.writes # <<>> => Guard(s, "writeTimer")

Live(s) == ReadLive(s) /\ WriteLive(s) /\ Numbering(s)

\* What the methods keep while the socket is in use.
Kept(s, t) ==
    /\ Step(s, t)
    /\ Good(t) => /\ Good(s)
                  /\ Live(s) => Live(t)
                  /\ ReadIdle(s) => ReadIdle(t)

\* What the handlers keep that the strand runs, all but a write's.
Ran(s, t) ==
    /\ t \in State
    /\ t.written = s.written
    /\ OkWrites(s) => OkWrites(t)
    /\ s.closed \subseteq t.closed
    /\ Good(t) => Good(s) /\ (Live(s) /\ ReadIdle(s) => Live(t))

\* The inductive invariant.
Inv(s) ==
    /\ s \in State
    /\ \A i \in DOMAIN s.written : s.written[i] = i
    /\ OkWrites(s)
    /\ Good(s) => Live(s)

\* The handler that is past its check has the only read there is, and there is
\* none once reading has been closed before the check.
Cut ==
    /\ checked \in BOOLEAN /\ half \in Call /\ mute \in BOOLEAN
    /\ half # NoHalf => half.call \in Both
    /\ checked /\ Good(c) => ReadIdle(c)
    /\ mute => ~isReceiving(c) /\ ~checked
IInv == Inv(c) /\ Cut

\* What a step that runs beside such a handler keeps.
Calm(s, t) ==
    /\ s.closed \subseteq t.closed
    /\ Good(t) => Good(s) /\ (ReadIdle(s) => ReadIdle(t))

-----------------------------------------------------------------------------
(* The strand's queue *)

\* A handler is queued.
LEMMA Queue ==
    ASSUME NEW q \in Seq(Handler), NEW h \in Handler, NEW op, NEW codes
    PROVE  /\ Append(q, h) \in Seq(Handler)
           /\ Some(Append(q, h), op, codes) <=>
                 Some(q, op, codes) \/ Is(h, op, codes)
           /\ AtMostOne(q, op, codes) /\ ~(Some(q, op, codes) /\ Is(h, op, codes))
                 => AtMostOne(Append(q, h), op, codes)
<1>1. /\ DOMAIN q = 1..Len(q) /\ Len(q) \in Nat
      /\ DOMAIN Append(q, h) = 1..(Len(q) + 1)
      /\ \A i \in DOMAIN q : Append(q, h)[i] = q[i]
      /\ Append(q, h)[Len(q) + 1] = h
  OBVIOUS
<1>2. \A i \in 1..(Len(q) + 1) : i \in DOMAIN q \/ i = Len(q) + 1
  BY <1>1
<1>3. DOMAIN q \subseteq DOMAIN Append(q, h) /\ Len(q) + 1 \in DOMAIN Append(q, h)
  BY <1>1
<1>4. Some(Append(q, h), op, codes) <=>
         Some(q, op, codes) \/ Is(h, op, codes)
  BY <1>1, <1>2, <1>3 DEF Some
<1>5. ASSUME AtMostOne(q, op, codes),
             ~(Some(q, op, codes) /\ Is(h, op, codes))
      PROVE  AtMostOne(Append(q, h), op, codes)
  BY <1>1, <1>2, <1>5 DEF Some, AtMostOne
<1> QED
  BY <1>4, <1>5

\* The front handler is taken.
LEMMA Take ==
    ASSUME NEW q \in Seq(Handler), q # <<>>, NEW op, NEW codes
    PROVE  /\ Tail(q) \in Seq(Handler) /\ Head(q) \in Handler
           /\ Some(Tail(q), op, codes) => Some(q, op, codes)
           /\ Is(Head(q), op, codes) => Some(q, op, codes)
           /\ ~Is(Head(q), op, codes) =>
                 (Some(q, op, codes) => Some(Tail(q), op, codes))
           /\ AtMostOne(q, op, codes) =>
                 /\ AtMostOne(Tail(q), op, codes)
                 /\ Is(Head(q), op, codes) =>
                       ~Some(Tail(q), op, codes)
<1>1. /\ DOMAIN q = 1..Len(q) /\ Len(q) \in Nat /\ 1 \in DOMAIN q /\ Head(q) = q[1]
      /\ DOMAIN Tail(q) = 1..(Len(q) - 1)
      /\ \A i \in DOMAIN Tail(q) : i + 1 \in DOMAIN q /\ Tail(q)[i] = q[i + 1]
  OBVIOUS
<1>2. ASSUME NEW i \in DOMAIN q, i # 1
      PROVE  i - 1 \in DOMAIN Tail(q) /\ Tail(q)[i - 1] = q[i]
  BY <1>1, <1>2
<1>3. /\ Some(Tail(q), op, codes) => Some(q, op, codes)
      /\ Is(Head(q), op, codes) => Some(q, op, codes)
  BY <1>1 DEF Some
<1>4. ~Is(Head(q), op, codes) =>
         (Some(q, op, codes) => Some(Tail(q), op, codes))
  BY <1>1, <1>2 DEF Some
<1>5. ASSUME AtMostOne(q, op, codes)
      PROVE  AtMostOne(Tail(q), op, codes)
  BY <1>1, <1>5 DEF AtMostOne
<1>6. ASSUME AtMostOne(q, op, codes), Is(Head(q), op, codes)
      PROVE  ~Some(Tail(q), op, codes)
  BY <1>1, <1>6 DEF AtMostOne, Some
<1> QED
  BY <1>3, <1>4, <1>5, <1>6

\* Handlers that are none of those counted are queued.
LEMMA QueueOthers ==
    ASSUME NEW q \in Seq(Handler), NEW r \in Seq(Handler), NEW op, NEW codes,
           \A i \in DOMAIN r : ~Is(r[i], op, codes)
    PROVE  /\ q \o r \in Seq(Handler)
           /\ Some(q \o r, op, codes) <=> Some(q, op, codes)
           /\ AtMostOne(q, op, codes) => AtMostOne(q \o r, op, codes)
<1>1. /\ DOMAIN q = 1..Len(q) /\ Len(q) \in Nat /\ DOMAIN r = 1..Len(r) /\ Len(r) \in Nat
      /\ DOMAIN (q \o r) = 1..(Len(q) + Len(r))
      /\ \A i \in DOMAIN q : i \in DOMAIN (q \o r) /\ (q \o r)[i] = q[i]
  OBVIOUS
<1>2. ASSUME NEW i \in DOMAIN (q \o r), i \notin DOMAIN q
      PROVE  ~Is((q \o r)[i], op, codes)
  <2>1. i - Len(q) \in DOMAIN r /\ (q \o r)[i] = r[i - Len(q)]
    BY <1>1, <1>2
  <2> QED
    BY <2>1
<1>3. Some(q \o r, op, codes) <=> Some(q, op, codes)
  BY <1>1, <1>2 DEF Some
<1>4. ASSUME AtMostOne(q, op, codes)
      PROVE  AtMostOne(q \o r, op, codes)
  BY <1>1, <1>2, <1>4 DEF AtMostOne
<1> QED
  BY <1>3, <1>4

-----------------------------------------------------------------------------
(* The methods: types, what they leave alone, and how they end *)

\* The handlers the model queues.
LEMMA Handlers ==
    /\ \A k \in Timer, ec \in Code : H(k, ec, "live") \in Handler
    /\ \A ec \in Code, a \in {"header", "body"} : H("read", ec, a) \in Handler
    /\ \A ec \in Code, a \in Then : H("write", ec, a) \in Handler
    /\ \A ec \in Code, a \in Then : H("send", ec, a) \in Handler
    /\ \A ec \in Code : H("stop", ec, "live") \in Handler
BY DEF H, Handler, Timer, Then

\* The fields of a state.
LEMMA Fields ==
    ASSUME NEW s \in State
    PROVE  /\ s.closed \in SUBSET Both /\ s.open \in BOOLEAN /\ s.up \in BOOLEAN
           /\ s.alive \in BOOLEAN /\ s.protocol \in BOOLEAN /\ s.attached \in BOOLEAN
           /\ s.shared \in BOOLEAN /\ s.sthis \in BOOLEAN /\ s.wrapped \in BOOLEAN
           /\ s.read \in {"none", "header", "body"} /\ s.writes \in Seq(Write)
           /\ s.queue \in Seq(Nat) /\ s.wait \in [Timer -> 0..1]
           /\ s.ready \in Seq(Handler) /\ s.asked \in Seq(Then)
           /\ s.written \in Seq(Nat) /\ s.fault \in Fault
BY DEF State

\* All but the timers and the strand's queue.
Same(s, t) ==
    /\ t.closed = s.closed /\ t.open = s.open /\ t.up = s.up /\ t.alive = s.alive
    /\ t.protocol = s.protocol /\ t.attached = s.attached /\ t.shared = s.shared
    /\ t.sthis = s.sthis /\ t.wrapped = s.wrapped /\ t.read = s.read
    /\ t.writes = s.writes /\ t.queue = s.queue /\ t.asked = s.asked
    /\ t.written = s.written /\ t.fault = s.fault

\* r is q with, perhaps, aborted handlers of the timers.
SameHandlers(q, r) ==
    \A op, codes :
       codes = {"ok"} \/ op \notin Timer =>
          /\ Some(r, op, codes) <=> Some(q, op, codes)
          /\ AtMostOne(q, op, codes) => AtMostOne(r, op, codes)

\* Cancelling a timer queues an aborted handler if its wait was pending.
LEMMA CancelTimer ==
    ASSUME NEW s \in State, NEW k \in Timer
    PROVE  /\ cancelTimer(s, k) \in State
           /\ Same(s, cancelTimer(s, k))
           /\ cancelTimer(s, k).wait = [s.wait EXCEPT ![k] = 0]
           /\ SameHandlers(s.ready, cancelTimer(s, k).ready)
<1> DEFINE r == [i \in 1..s.wait[k] |-> H(k, "aborted", "live")]
           t == cancelTimer(s, k)
<1>0. s.wait \in [Timer -> 0..1] /\ s.ready \in Seq(Handler)
  BY Fields
<1>1. s.wait[k] \in Nat
  BY <1>0
<1>2. H(k, "aborted", "live") \in Handler
  BY Handlers DEF Code
<1>3. r \in Seq(Handler) /\ \A i \in DOMAIN r : r[i] = H(k, "aborted", "live")
  BY <1>1, <1>2
<1>4. s.ready \o r \in Seq(Handler)
  BY <1>0, <1>3
<1>5. [s.wait EXCEPT ![k] = 0] \in [Timer -> 0..1]
  BY <1>0
<1>6. t = [s EXCEPT !.ready = s.ready \o r, !.wait = [s.wait EXCEPT ![k] = 0]]
  BY DEF cancelTimer
<1> HIDE DEF r
<1>7. /\ t \in State /\ Same(s, t) /\ t.wait = [s.wait EXCEPT ![k] = 0]
      /\ t.ready = s.ready \o r
  BY <1>4, <1>5, <1>6 DEF State, Same
<1>8. ASSUME NEW op, NEW codes, codes = {"ok"} \/ op \notin Timer
      PROVE  /\ Some(t.ready, op, codes) <=> Some(s.ready, op, codes)
             /\ AtMostOne(s.ready, op, codes) => AtMostOne(t.ready, op, codes)
  <2>1. \A i \in DOMAIN r : ~Is(r[i], op, codes)
    BY <1>3, <1>8 DEF Is, H
  <2> QED
    BY <1>0, <1>3, <1>7, <2>1, QueueOthers
<1> QED
  BY <1>7, <1>8 DEF SameHandlers

\* Methods follow each other.
LEMMA StepTrans ==
    ASSUME NEW s, NEW t, NEW u, Step(s, t), Step(t, u)
    PROVE  Step(s, u)
BY DEF Step

\* Cancelling is such a method.
LEMMA CancelStep ==
    ASSUME NEW s \in State, NEW k \in Timer
    PROVE  Step(s, cancelTimer(s, k))
<1> DEFINE t == cancelTimer(s, k)
<1>1. t \in State /\ Same(s, t)
  BY CancelTimer
<1>2. /\ Some(t.ready, "write", {"ok"}) <=> Some(s.ready, "write", {"ok"})
      /\ AtMostOne(s.ready, "write", {"ok"}) => AtMostOne(t.ready, "write", {"ok"})
  BY CancelTimer DEF SameHandlers
<1> HIDE DEF t
<1>3. OkWrites(s) => OkWrites(t)
  BY <1>1, <1>2 DEF OkWrites, Same
<1>4. Step(s, t)
  BY <1>1, <1>3 DEF Step, Same
<1> QED
  BY <1>4 DEF t

\* Arming a timer: what was pending is aborted, and its wait is pending again.
LEMMA UpdateTimer ==
    ASSUME NEW s \in State, NEW k \in Timer
    PROVE  /\ Step(s, updateTimer(s, k))
           /\ Same(s, updateTimer(s, k))
           /\ updateTimer(s, k).wait = [s.wait EXCEPT ![k] = 1]
           /\ SameHandlers(s.ready, updateTimer(s, k).ready)
<1> DEFINE t == cancelTimer(s, k)
           u == updateTimer(s, k)
<1>1. t \in State /\ Same(s, t) /\ t.wait = [s.wait EXCEPT ![k] = 0] /\ Step(s, t)
  BY CancelTimer, CancelStep
<1>2. s.wait \in [Timer -> 0..1]
  BY Fields
<1>3. [t.wait EXCEPT ![k] = 1] = [s.wait EXCEPT ![k] = 1]
      /\ [s.wait EXCEPT ![k] = 1] \in [Timer -> 0..1]
  BY <1>1, <1>2
<1>4. u = [t EXCEPT !.wait = [s.wait EXCEPT ![k] = 1]]
  BY <1>3 DEF updateTimer
<1>5. SameHandlers(s.ready, t.ready)
  BY CancelTimer
<1> HIDE DEF t, u
<1>6. /\ u \in State /\ u.wait = [s.wait EXCEPT ![k] = 1] /\ u.ready = t.ready
      /\ Same(t, u)
  BY <1>1, <1>3, <1>4 DEF State, Same
<1>7. Same(s, u)
  BY <1>1, <1>6 DEF Same
<1>8. OkWrites(t) => OkWrites(u)
  BY <1>6 DEF OkWrites, Same
<1>9. Step(t, u)
  BY <1>6, <1>8 DEF Step, Same
<1>10. Step(s, u)
  BY <1>1, <1>9, StepTrans
<1> QED
  BY <1>5, <1>6, <1>7, <1>10 DEF u

\* Closing the socket aborts what is under way on it.
LEMMA CloseSocketEnds ==
    ASSUME NEW s \in State
    PROVE  Step(s, CloseSocket(s)) /\ ~CloseSocket(s).open
           /\ CloseSocket(s).fault = s.fault
<1> DEFINE r == (IF s.read = "none" THEN <<>> ELSE <<H("read", "aborted", s.read)>>)
           w == [i \in DOMAIN s.writes |-> H("write", "aborted", s.writes[i].then)]
           p == s.ready \o r
           q == p \o w
           t == CloseSocket(s)
<1>1. /\ s.ready \in Seq(Handler) /\ s.writes \in Seq(Write)
      /\ s.read \in {"none", "header", "body"}
  BY Fields
<1>2. r \in Seq(Handler) /\ \A i \in DOMAIN r : r[i].ec = "aborted"
  <2>1. s.read # "none" => H("read", "aborted", s.read) \in Handler
    BY <1>1, Handlers DEF Code
  <2> QED
    BY <1>1, <2>1 DEF H
<1>3. w \in Seq(Handler) /\ \A i \in DOMAIN w : w[i].ec = "aborted"
  <2>1. ASSUME NEW i \in DOMAIN s.writes
        PROVE  H("write", "aborted", s.writes[i].then) \in Handler
    <3>1. s.writes[i] \in Write
      BY <1>1
    <3>2. s.writes[i].then \in Then
      BY <3>1 DEF Write
    <3> QED
      BY <3>2, Handlers DEF Code
  <2>2. DOMAIN s.writes = 1..Len(s.writes) /\ Len(s.writes) \in Nat
    BY <1>1
  <2>3. w \in Seq(Handler)
    BY <2>1, <2>2
  <2> QED
    BY <2>3 DEF H
<1>4. t = [s EXCEPT !.open = FALSE, !.read = "none", !.writes = <<>>, !.ready = q]
  BY DEF CloseSocket
<1> HIDE DEF r, w, t
<1>5. p \in Seq(Handler) /\ q \in Seq(Handler)
  BY <1>1, <1>2, <1>3
<1> HIDE DEF p, q
<1>6. /\ t \in State /\ ~t.open /\ t.fault = s.fault
      /\ t.written = s.written /\ t.closed = s.closed /\ t.queue = s.queue
      /\ t.ready = q
  <2>1. <<>> \in Seq(Write)
    OBVIOUS
  <2> QED
    BY <1>4, <1>5, <2>1 DEF State
<1>7. /\ Some(t.ready, "write", {"ok"}) <=> Some(s.ready, "write", {"ok"})
      /\ AtMostOne(s.ready, "write", {"ok"}) => AtMostOne(t.ready, "write", {"ok"})
  <2>1. /\ \A i \in DOMAIN r : ~Is(r[i], "write", {"ok"})
        /\ \A i \in DOMAIN w : ~Is(w[i], "write", {"ok"})
    BY <1>2, <1>3 DEF Is
  <2>2. /\ Some(p, "write", {"ok"}) <=> Some(s.ready, "write", {"ok"})
        /\ AtMostOne(s.ready, "write", {"ok"}) => AtMostOne(p, "write", {"ok"})
    BY <1>1, <1>2, <2>1, QueueOthers DEF p
  <2>3. /\ Some(q, "write", {"ok"}) <=> Some(p, "write", {"ok"})
        /\ AtMostOne(p, "write", {"ok"}) => AtMostOne(q, "write", {"ok"})
    BY <1>3, <1>5, <2>1, QueueOthers DEF q
  <2> QED
    BY <1>6, <2>2, <2>3
<1>8. OkWrites(s) => OkWrites(t)
  BY <1>6, <1>7 DEF OkWrites
<1>9. Step(s, t)
  BY <1>6, <1>8 DEF Step
<1> QED
  BY <1>6, <1>9 DEF t

\* Steps that touch neither the queues nor the socket.
LEMMA ControlStep ==
    ASSUME NEW s \in State, NEW t \in State,
           t.ready = s.ready, t.queue = s.queue,
           t.written = s.written, t.open = s.open, s.closed \subseteq t.closed
    PROVE  Step(s, t)
BY DEF Step, OkWrites

\* The destructor closes the socket, or its assertion fails.
LEMMA DestroyEnds ==
    ASSUME NEW s \in State
    PROVE  Step(s, Destroy(s)) /\ ~Good(Destroy(s))
<1>1. CASE ~isStopped(s)
  <2> DEFINE t == [s EXCEPT !.fault = "assert"]
  <2>1. t \in State /\ t.fault = "assert" /\ Step(s, t)
    <3>1. /\ t \in State /\ t.fault = "assert" /\ t.ready = s.ready
          /\ t.queue = s.queue /\ t.written = s.written
          /\ t.open = s.open /\ t.closed = s.closed
      BY DEF State, Fault
    <3> HIDE DEF t
    <3> QED
      BY <3>1, ControlStep
  <2> HIDE DEF t
  <2>2. Destroy(s) = t
    BY <1>1 DEF Destroy, t
  <2> QED
    BY <2>1, <2>2 DEF Good
<1>2. CASE isStopped(s)
  <2> DEFINE a == cancelTimer(s, "readTimer")
             b == cancelTimer(a, "writeTimer")
             d == CloseSocket(b)
             t == [d EXCEPT !.alive = FALSE]
  <2>1. Step(s, a) /\ a \in State
    BY CancelStep DEF Timer, Step
  <2>2. Step(a, b) /\ b \in State
    BY <2>1, CancelStep DEF Timer, Step
  <2>3. Step(b, d) /\ d \in State /\ ~d.open
    BY <2>2, CloseSocketEnds DEF Step
  <2>4. Destroy(s) = t
    BY <1>2 DEF Destroy
  <2> HIDE DEF a, b, d
  <2>5. Step(d, t) /\ ~t.open
    <3>1. /\ t \in State /\ t.ready = d.ready
          /\ t.queue = d.queue /\ t.written = d.written
          /\ t.open = d.open /\ t.closed = d.closed
      BY <2>3 DEF State
    <3> HIDE DEF t
    <3> QED
      BY <2>3, <3>1, ControlStep
  <2> HIDE DEF t
  <2>6. Step(s, t)
    BY <2>1, <2>2, <2>3, <2>5, StepTrans
  <2> QED
    BY <2>4, <2>5, <2>6 DEF Good
<1> QED
  BY <1>1, <1>2

\* Letting a pointer go either changes nothing or destroys the connection.
LEMMA ReleasedEnds ==
    ASSUME NEW s \in State
    PROVE  /\ Step(s, Released(s))
           /\ Released(s) = s \/ ~Good(Released(s))
           /\ ~Good(s) => ~Good(Released(s))
<1>1. Step(s, s)
  BY DEF Step
<1>2. Released(s) = s \/ Released(s) = Destroy(s)
  BY DEF Released
<1> QED
  BY <1>1, <1>2, DestroyEnds

\* stop() closes the socket, or throws.
LEMMA StopEnds ==
    ASSUME NEW s \in State
    PROVE  Step(s, stop(s)) /\ ~Good(stop(s))
<1> DEFINE z == [s EXCEPT !.closed = Both]
           a == cancelTimer(z, "readTimer")
           b == cancelTimer(a, "writeTimer")
<1>1. Step(s, z) /\ z \in State
  <2>1. /\ z \in State /\ z.ready = s.ready
        /\ z.queue = s.queue /\ z.written = s.written
        /\ z.open = s.open /\ z.closed = Both
    BY DEF State
  <2>2. s.closed \subseteq Both
    BY Fields
  <2> HIDE DEF z
  <2> QED
    BY <2>1, <2>2, ControlStep
<1>2. Step(z, a) /\ a \in State
  BY <1>1, CancelStep DEF Timer, Step
<1>3. Step(a, b) /\ b \in State
  BY <1>2, CancelStep DEF Timer, Step
<1>4. stop(s) = IF ShutdownThrows(s) THEN [b EXCEPT !.fault = "throw"]
                ELSE Released([CloseSocket(b) EXCEPT !.protocol = FALSE,
                                                     !.attached = @ /\ s.wrapped])
  BY DEF stop
<1> HIDE DEF z, a, b
<1>5. Step(s, b)
  BY <1>1, <1>2, <1>3, StepTrans
<1>6. CASE ShutdownThrows(s)
  <2> DEFINE t == [b EXCEPT !.fault = "throw"]
  <2>1. /\ t \in State /\ t.fault = "throw" /\ t.ready = b.ready
        /\ t.queue = b.queue /\ t.written = b.written
        /\ t.open = b.open /\ t.closed = b.closed
    BY <1>3 DEF State, Fault
  <2> HIDE DEF t
  <2>2. Step(b, t) /\ ~Good(t)
    BY <1>3, <2>1, ControlStep DEF Good
  <2>3. stop(s) = t
    BY <1>4, <1>6 DEF t
  <2> QED
    BY <1>5, <2>2, <2>3, StepTrans
<1>7. CASE ~ShutdownThrows(s)
  <2> DEFINE d == CloseSocket(b)
             v == d.attached /\ s.wrapped
             t == [d EXCEPT !.protocol = FALSE, !.attached = v]
  <2>1. Step(b, d) /\ d \in State /\ ~d.open
    BY <1>3, CloseSocketEnds DEF Step
  <2>2. stop(s) = Released(t)
    BY <1>4, <1>7
  <2>3. v \in BOOLEAN
    OBVIOUS
  <2> HIDE DEF d, v
  <2>4. /\ t \in State /\ t.ready = d.ready
        /\ t.queue = d.queue /\ t.written = d.written
        /\ t.open = d.open /\ t.closed = d.closed
    BY <2>1, <2>3 DEF State
  <2> HIDE DEF t
  <2>5. Step(d, t) /\ ~Good(t)
    BY <2>1, <2>4, ControlStep DEF Good
  <2>6. Step(t, Released(t)) /\ ~Good(Released(t))
    BY <2>4, <2>5, ReleasedEnds
  <2>7. Step(s, Released(t))
    BY <1>5, <2>1, <2>5, <2>6, StepTrans
  <2> QED
    BY <2>2, <2>6, <2>7
<1> QED
  BY <1>6, <1>7

\* abort() ends in stop(), or goes wrong.
LEMMA AbortEnds ==
    ASSUME NEW s \in State
    PROVE  Step(s, abort(s)) /\ ~Good(abort(s))
<1> DEFINE z == [s EXCEPT !.attached = FALSE]
           t == Released(z)
           n == [s EXCEPT !.fault = "null_protocol"]
           u == [t EXCEPT !.fault = "use_after_free"]
<1>1. /\ z \in State /\ z.ready = s.ready
      /\ z.queue = s.queue /\ z.written = s.written
      /\ z.open = s.open /\ z.closed = s.closed
  BY DEF State
<1>2. /\ n \in State /\ n.ready = s.ready /\ n.fault = "null_protocol"
      /\ n.queue = s.queue /\ n.written = s.written
      /\ n.open = s.open /\ n.closed = s.closed
  BY DEF State, Fault
<1>3. \/ abort(s) = n
      \/ abort(s) = t /\ t.fault # "none"
      \/ abort(s) = u
      \/ abort(s) = stop(t)
  BY DEF abort
<1> HIDE DEF z, n
<1>4. Step(s, z) /\ Step(s, n)
  BY <1>1, <1>2, ControlStep
<1>5. Step(z, t) /\ t \in State
  BY <1>1, ReleasedEnds DEF Step
<1>6. Step(s, t)
  BY <1>4, <1>5, StepTrans
<1> HIDE DEF t
<1>7. /\ u \in State /\ u.ready = t.ready /\ u.fault = "use_after_free"
      /\ u.queue = t.queue /\ u.written = t.written
      /\ u.open = t.open /\ u.closed = t.closed
  BY <1>5 DEF State, Fault
<1> HIDE DEF u
<1>8. Step(t, u)
  BY <1>5, <1>7, ControlStep
<1>9. Step(s, u) /\ Step(s, stop(t)) /\ ~Good(stop(t))
  BY <1>5, <1>6, <1>8, StopEnds, StepTrans
<1> QED
  BY <1>2, <1>3, <1>4, <1>6, <1>7, <1>9 DEF Good

-----------------------------------------------------------------------------
(* What the methods keep while the socket is in use *)

\* Methods that keep it follow each other.
LEMMA KeptTrans ==
    ASSUME NEW s, NEW t, NEW u, Kept(s, t), Kept(t, u)
    PROVE  Kept(s, u)
<1>1. Step(s, u)
  BY StepTrans DEF Kept
<1> QED
  BY <1>1 DEF Kept

\* One that ends the use of the socket keeps it.
LEMMA KeptEnded ==
    ASSUME NEW s, NEW t, Step(s, t), ~Good(t)
    PROVE  Kept(s, t)
BY DEF Kept

\* So does one that changes flags only.
LEMMA KeptControl ==
    ASSUME NEW s \in State, NEW t \in State,
           t.ready = s.ready, t.queue = s.queue,
           t.written = s.written, t.open = s.open, s.closed \subseteq t.closed,
           t.read = s.read, t.writes = s.writes, t.wait = s.wait, t.asked = s.asked,
           t.fault = "none" => s.fault = "none"
    PROVE  Kept(s, t)
<1>1. Step(s, t)
  BY ControlStep
<1>2. Live(s) => Live(t)
  BY DEF Live, ReadLive, WriteLive, Numbering, WriteIdle, Guard
<1>3. ReadIdle(s) => ReadIdle(t)
  BY DEF ReadIdle
<1> QED
  BY <1>1, <1>2, <1>3 DEF Kept, Good

\* Letting a pointer go.
LEMMA ReleasedKept ==
    ASSUME NEW s \in State
    PROVE  Kept(s, Released(s))
<1>1. Step(s, s)
  BY DEF Step
<1>2. CASE Released(s) = s
  BY <1>1, <1>2 DEF Kept
<1>3. CASE ~Good(Released(s))
  BY <1>3, ReleasedEnds, KeptEnded
<1> QED
  BY <1>2, <1>3, ReleasedEnds

\* stopReceiving() and stopSending().
LEMMA HalfCloseKept ==
    ASSUME NEW s \in State, NEW way \in Both
    PROVE  Kept(s, halfClose(s, way))
<1> DEFINE f == IF ShutdownThrows(s) THEN "throw" ELSE s.fault
           d == s.closed \cup {way}
           t == [s EXCEPT !.closed = d, !.fault = f]
<1>1. d \in SUBSET Both /\ f \in Fault /\ (f = "none" => s.fault = "none")
  BY Fields DEF Fault
<1>2. halfClose(s, way) = t
  BY DEF halfClose
<1>3. s.closed \subseteq d
  OBVIOUS
<1> HIDE DEF f, d
<1>4. /\ t \in State /\ t.ready = s.ready /\ t.queue = s.queue
      /\ t.written = s.written /\ t.open = s.open
      /\ t.closed = d /\ t.read = s.read /\ t.writes = s.writes
      /\ t.wait = s.wait /\ t.asked = s.asked /\ t.fault = f
  BY <1>1 DEF State
<1> HIDE DEF t
<1> QED
  BY <1>1, <1>2, <1>3, <1>4, KeptControl

\* Arming or cancelling one timer leaves the other side's as it is.
LEMMA TimerKeeps ==
    ASSUME NEW s \in State, NEW k \in Timer, NEW n \in 0..1, NEW t \in State,
           Same(s, t), t.wait = [s.wait EXCEPT ![k] = n],
           SameHandlers(s.ready, t.ready)
    PROVE  /\ ReadIdle(s) => ReadIdle(t)
           /\ ReadLive(s) /\ (k = "writeTimer" \/ n = 1 \/ s.read = "none") => ReadLive(t)
           /\ WriteIdle(s) => WriteIdle(t)
           /\ WriteLive(s) /\ (k = "readTimer" \/ n = 1 \/ s.writes = <<>>) => WriteLive(t)
           /\ Numbering(s) => Numbering(t)
           /\ n = 1 => Guard(t, k)
<1>1. s.wait \in [Timer -> 0..1]
  BY Fields
<1>2. /\ "read" \notin Timer /\ "write" \notin Timer
      /\ "readTimer" \in Timer /\ "writeTimer" \in Timer
  BY DEF Timer
<1>3. \A j \in Timer : Guard(s, j) /\ (j # k \/ n = 1) => Guard(t, j)
  BY <1>1 DEF Guard, SameHandlers
<1>4. n = 1 => Guard(t, k)
  BY <1>1 DEF Guard
<1>5. \A codes :
         /\ Some(t.ready, "read", codes) <=> Some(s.ready, "read", codes)
         /\ Some(t.ready, "write", codes) <=> Some(s.ready, "write", codes)
         /\ AtMostOne(s.ready, "read", codes) => AtMostOne(t.ready, "read", codes)
         /\ AtMostOne(s.ready, "write", codes) => AtMostOne(t.ready, "write", codes)
  BY <1>2 DEF SameHandlers
<1>6. /\ ReadIdle(s) => ReadIdle(t)
      /\ ReadLive(s) /\ (k = "writeTimer" \/ n = 1 \/ s.read = "none") => ReadLive(t)
  BY <1>2, <1>3, <1>5 DEF ReadIdle, ReadLive, Same
<1>7. /\ WriteIdle(s) => WriteIdle(t)
      /\ Numbering(s) => Numbering(t)
  BY <1>5 DEF WriteIdle, Numbering, Same
<1>8. WriteLive(s) /\ (k = "readTimer" \/ n = 1 \/ s.writes = <<>>) => WriteLive(t)
  BY <1>2, <1>3, <1>5, <1>7 DEF WriteLive, Same
<1> QED
  BY <1>4, <1>6, <1>7, <1>8

\* doSend: the write of the front message is started, under its timeout, or
\* the connection is aborted.
LEMMA DoSend ==
    ASSUME NEW s \in State, NEW then \in Then, NEW enc \in BOOLEAN, s.queue # <<>>
    PROVE  /\ Step(s, doSend(s, then, enc))
           /\ Good(doSend(s, then, enc)) =>
                 /\ Good(s)
                 /\ ReadLive(s) => ReadLive(doSend(s, then, enc))
                 /\ ReadIdle(s) => ReadIdle(doSend(s, then, enc))
                 /\ WriteIdle(s) /\ Numbering(s) =>
                       /\ WriteLive(doSend(s, then, enc))
                       /\ Numbering(doSend(s, then, enc))
<1> DEFINE t == updateTimer(s, "writeTimer")
<1>1. /\ t \in State /\ Step(s, t) /\ Same(s, t)
      /\ t.wait = [s.wait EXCEPT !["writeTimer"] = 1]
      /\ ReadIdle(s) => ReadIdle(t)
      /\ ReadLive(s) => ReadLive(t)
      /\ WriteIdle(s) => WriteIdle(t)
      /\ Numbering(s) => Numbering(t)
      /\ Guard(t, "writeTimer")
  <2>1. "writeTimer" \in Timer
    BY DEF Timer
  <2>2. /\ t \in State /\ Step(s, t) /\ Same(s, t)
        /\ t.wait = [s.wait EXCEPT !["writeTimer"] = 1]
        /\ SameHandlers(s.ready, t.ready)
    BY <2>1, UpdateTimer DEF Step
  <2> HIDE DEF t
  <2>3. 1 \in 0..1
    OBVIOUS
  <2>4. /\ ReadIdle(s) => ReadIdle(t)
        /\ ReadLive(s) => ReadLive(t)
    BY <2>1, <2>2, <2>3, TimerKeeps
  <2>5. /\ WriteIdle(s) => WriteIdle(t)
        /\ Numbering(s) => Numbering(t)
        /\ Guard(t, "writeTimer")
    BY <2>1, <2>2, <2>3, TimerKeeps
  <2> QED
    BY <2>2, <2>4, <2>5
<1>2. CASE enc
  <2> DEFINE w == [msg |-> Head(s.queue), then |-> then]
             v == Append(t.writes, w)
             u == [t EXCEPT !.writes = v]
  <2>1. doSend(s, then, enc) = u
    BY <1>2 DEF doSend
  <2>2. s.queue \in Seq(Nat) /\ t.writes \in Seq(Write)
    BY <1>1, Fields
  <2>3. w \in Write
    BY <2>2 DEF Write
  <2>4. v \in Seq(Write) /\ (t.writes = <<>> => Len(v) = 1 /\ v[1] = w)
    BY <2>2, <2>3
  <2> HIDE DEF t, v
  <2>5. /\ u \in State /\ u.ready = t.ready /\ u.queue = t.queue
        /\ u.written = t.written /\ u.open = t.open
        /\ u.closed = t.closed /\ u.read = t.read /\ u.writes = v
        /\ u.wait = t.wait /\ u.asked = t.asked /\ u.fault = t.fault
    BY <1>1, <2>4 DEF State
  <2> HIDE DEF u
  <2>6. Step(s, u)
    BY <1>1, <2>5, ControlStep, StepTrans
  <2>7. Good(u) => Good(s)
    BY <1>1, <2>5 DEF Good, Same
  <2>8. /\ ReadLive(s) => ReadLive(u)
        /\ ReadIdle(s) => ReadIdle(u)
        /\ Numbering(s) => Numbering(u)
    BY <1>1, <2>5 DEF ReadLive, ReadIdle, Numbering, Guard
  <2>9. WriteIdle(s) => WriteLive(u)
    <3>1. ASSUME WriteIdle(s)
          PROVE  WriteLive(u)
      <4>1. t.writes = <<>> /\ ~Some(u.ready, "write", Code)
        BY <1>1, <2>5, <3>1 DEF WriteIdle
      <4>2. Len(u.writes) = 1 /\ u.writes[1].msg = u.queue[1] /\ u.queue # <<>>
        BY <1>1, <2>2, <2>4, <2>5, <4>1 DEF Same
      <4>3. ~Some(u.ready, "write", {"aborted"})
        BY <4>1 DEF Some, Is, Code
      <4>4. Guard(u, "writeTimer")
        BY <1>1, <2>5 DEF Guard
      <4> QED
        BY <4>1, <4>2, <4>3, <4>4 DEF WriteLive
    <3> QED
      BY <3>1
  <2> QED
    BY <2>1, <2>6, <2>7, <2>8, <2>9
<1>3. CASE ~enc
  <2> DEFINE b == [t EXCEPT !.sthis = TRUE]
             a == abort(b)
             u == [a EXCEPT !.sthis = s.sthis]
  <2>1. doSend(s, then, enc) = Released(u)
    BY <1>3 DEF doSend
  <2> HIDE DEF t
  <2>2. /\ b \in State /\ b.ready = t.ready /\ b.queue = t.queue
        /\ b.written = t.written /\ b.open = t.open
        /\ b.closed = t.closed
    BY <1>1 DEF State
  <2> HIDE DEF b
  <2>3. Step(t, b) /\ Step(b, a) /\ ~Good(a) /\ a \in State
    BY <1>1, <2>2, ControlStep, AbortEnds DEF Step
  <2>4. s.sthis \in BOOLEAN
    BY Fields
  <2> HIDE DEF a
  <2>5. /\ u \in State /\ u.ready = a.ready /\ u.queue = a.queue
        /\ u.written = a.written /\ u.open = a.open
        /\ u.closed = a.closed /\ u.fault = a.fault
    BY <2>3, <2>4 DEF State
  <2> HIDE DEF u
  <2>6. Step(a, u) /\ ~Good(u)
    BY <2>3, <2>5, ControlStep DEF Good
  <2>7. Step(u, Released(u)) /\ ~Good(Released(u))
    BY <2>5, <2>6, ReleasedEnds
  <2>8. Step(s, Released(u))
    BY <1>1, <2>3, <2>6, <2>7, StepTrans
  <2> QED
    BY <2>1, <2>7, <2>8
<1> QED
  BY <1>2, <1>3

\* A message enters the queue.
LEMMA EnqueuedEffect ==
    ASSUME NEW s \in State, NEW then \in Then
    PROVE  /\ Step(s, Enqueued(s, then))
           /\ Enqueued(s, then).queue # <<>>
           /\ Good(Enqueued(s, then)) => Good(s)
           /\ ReadIdle(s) => ReadIdle(Enqueued(s, then))
           /\ ReadLive(s) => ReadLive(Enqueued(s, then))
           /\ WriteIdle(s) => WriteIdle(Enqueued(s, then))
           /\ WriteLive(s) /\ s.queue # <<>> => WriteLive(Enqueued(s, then))
           /\ Numbering(s) => Numbering(Enqueued(s, then))
<1> DEFINE a == Append(s.asked, then)
           q == Append(s.queue, Len(s.asked) + 1)
           t == [s EXCEPT !.asked = a, !.queue = q]
<1>1. s.asked \in Seq(Then) /\ s.queue \in Seq(Nat)
  BY Fields
<1>2. /\ a \in Seq(Then) /\ Len(a) = Len(s.asked) + 1 /\ Len(s.asked) \in Nat
  BY <1>1
<1>3. /\ q \in Seq(Nat) /\ Len(q) = Len(s.queue) + 1 /\ Len(s.queue) \in Nat
      /\ DOMAIN q = 1..(Len(s.queue) + 1) /\ DOMAIN s.queue = 1..Len(s.queue)
      /\ \A j \in DOMAIN s.queue : q[j] = s.queue[j]
      /\ q[Len(s.queue) + 1] = Len(s.asked) + 1
      /\ q # <<>>
      /\ s.queue # <<>> => q[1] = s.queue[1]
  <2> DEFINE n == Len(s.asked) + 1
  <2>1. n \in Nat
    BY <1>2
  <2> HIDE DEF n
  <2>2. /\ Append(s.queue, n) \in Seq(Nat) /\ Len(Append(s.queue, n)) = Len(s.queue) + 1
        /\ Len(s.queue) \in Nat /\ DOMAIN s.queue = 1..Len(s.queue)
        /\ DOMAIN Append(s.queue, n) = 1..(Len(s.queue) + 1)
        /\ \A j \in DOMAIN s.queue : Append(s.queue, n)[j] = s.queue[j]
        /\ Append(s.queue, n)[Len(s.queue) + 1] = n
    BY <1>1, <2>1
  <2>3. /\ Append(s.queue, n) # <<>>
        /\ s.queue # <<>> => Append(s.queue, n)[1] = s.queue[1]
    <3>1. s.queue # <<>> => 1 \in DOMAIN s.queue
      BY <1>1
    <3>3. Append(s.queue, n) # <<>>
      BY <1>1, <2>1
    <3> QED
      BY <2>2, <3>1, <3>3
  <2> QED
    BY <2>2, <2>3 DEF n
<1>4. Enqueued(s, then) = t
  BY DEF Enqueued
<1> HIDE DEF a, q
<1>5. /\ t \in State /\ t.ready = s.ready /\ t.queue = q
      /\ t.written = s.written /\ t.open = s.open
      /\ t.closed = s.closed /\ t.read = s.read /\ t.writes = s.writes
      /\ t.wait = s.wait /\ t.asked = a /\ t.fault = s.fault
  BY <1>2, <1>3 DEF State
<1> HIDE DEF t
<1>6. Step(s, t)
  BY <1>3, <1>5 DEF Step, OkWrites
<1>7. /\ Good(t) => Good(s)
      /\ ReadIdle(s) => ReadIdle(t)
      /\ ReadLive(s) => ReadLive(t)
      /\ WriteIdle(s) => WriteIdle(t)
  BY <1>5 DEF Good, ReadIdle, ReadLive, WriteIdle, Guard
<1>8. WriteLive(s) /\ s.queue # <<>> => WriteLive(t)
  BY <1>3, <1>5 DEF WriteLive, Guard
<1>9. ASSUME Numbering(s)
      PROVE  Numbering(t)
  <2>1. Len(a) - Len(q) = Len(s.asked) - Len(s.queue)
    BY <1>2, <1>3
  <2>2. \A j \in DOMAIN s.queue : s.queue[j] = Len(s.asked) - Len(s.queue) + j
    BY <1>9 DEF Numbering
  <2>3. ASSUME NEW j \in DOMAIN q
        PROVE  q[j] = Len(a) - Len(q) + j
    <3>1. CASE j \in DOMAIN s.queue
      BY <1>3, <2>1, <2>2, <3>1
    <3>2. CASE j \notin DOMAIN s.queue
      <4>1. j = Len(s.queue) + 1
        BY <1>3, <2>3, <3>2
      <4>2. q[j] = Len(s.asked) + 1
        BY <1>3, <4>1
      <4> QED
        <5>1. \A m, l \in Nat : m + 1 = (m + 1) - (l + 1) + (l + 1)
          OBVIOUS
        <5> QED
          BY <1>2, <1>3, <4>1, <4>2, <5>1
    <3> QED
      BY <3>1, <3>2
  <2> QED
    BY <1>5, <1>9, <2>1, <2>3 DEF Numbering
<1> QED
  BY <1>3, <1>4, <1>5, <1>6, <1>7, <1>8, <1>9

\* send() and sendAndStop() on the strand.
LEMMA TrySendKept ==
    ASSUME NEW s \in State, NEW then \in Then, NEW enc \in BOOLEAN
    PROVE  Kept(s, trySendOrEnqueueThen(s, then, enc))
<1> DEFINE e == Enqueued(s, then)
           t == trySendOrEnqueueThen(s, then, enc)
<1> SUFFICES Kept(s, t)
  OBVIOUS
<1>1. \/ t = s
      \/ s.queue = <<>> /\ t = doSend(e, then, enc)
      \/ s.queue # <<>> /\ t = e
  BY DEF trySendOrEnqueueThen
<1>2. /\ Step(s, e) /\ e \in State
      /\ e.queue # <<>>
      /\ Good(e) => Good(s)
      /\ ReadIdle(s) => ReadIdle(e)
      /\ ReadLive(s) => ReadLive(e)
      /\ WriteIdle(s) => WriteIdle(e)
      /\ WriteLive(s) /\ s.queue # <<>> => WriteLive(e)
      /\ Numbering(s) => Numbering(e)
  BY EnqueuedEffect DEF Step
<1> HIDE DEF e, t
<1>3. CASE t = s
  <2>1. Step(s, s)
    BY DEF Step
  <2> QED
    BY <1>3, <2>1 DEF Kept
<1>4. CASE s.queue = <<>> /\ t = doSend(e, then, enc)
  <2>1. /\ Step(e, t)
        /\ Good(t) =>
              /\ Good(e)
              /\ ReadLive(e) => ReadLive(t)
              /\ ReadIdle(e) => ReadIdle(t)
              /\ WriteIdle(e) /\ Numbering(e) => WriteLive(t) /\ Numbering(t)
    BY <1>2, <1>4, DoSend
  <2>2. Step(s, t)
    BY <1>2, <2>1, StepTrans
  <2>3. WriteLive(s) => WriteIdle(s)
    BY <1>4 DEF WriteLive
  <2>4. Good(t) => Good(s)
    BY <1>2, <2>1
  <2>5. Good(t) /\ Live(s) => Live(t)
    BY <1>2, <2>1, <2>3 DEF Live
  <2>6. Good(t) /\ ReadIdle(s) => ReadIdle(t)
    BY <1>2, <2>1
  <2> QED
    BY <2>2, <2>4, <2>5, <2>6 DEF Kept
<1>5. CASE s.queue # <<>> /\ t = e
  <2>1. Live(s) => Live(t)
    BY <1>2, <1>5 DEF Live
  <2> QED
    BY <1>2, <1>5, <2>1 DEF Kept
<1> QED
  BY <1>1, <1>3, <1>4, <1>5 DEF t

\* The handler of a write goes on with the next message.
LEMMA KeepSending ==
    ASSUME NEW s \in State, NEW enc \in BOOLEAN
    PROVE  /\ Step(s, keepSending(s, enc))
           /\ Good(keepSending(s, enc)) =>
                 /\ Good(s)
                 /\ ReadLive(s) /\ WriteIdle(s) /\ Numbering(s) => Live(keepSending(s, enc))
<1> DEFINE t == keepSending(s, enc)
<1>1. CASE s.queue # <<>>
  <2>1. t = doSend(s, "keepSending", enc) /\ "keepSending" \in Then
    BY <1>1 DEF keepSending, Then
  <2> HIDE DEF t
  <2>2. /\ Step(s, t)
        /\ Good(t) =>
              /\ Good(s)
              /\ ReadLive(s) => ReadLive(t)
              /\ WriteIdle(s) /\ Numbering(s) => WriteLive(t) /\ Numbering(t)
    BY <1>1, <2>1, DoSend
  <2> QED
    BY <2>2 DEF Live, t
<1>2. CASE s.queue = <<>>
  <2>1. t = cancelTimer(s, "writeTimer") /\ "writeTimer" \in Timer /\ 0 \in 0..1
    BY <1>2 DEF keepSending, Timer
  <2> HIDE DEF t
  <2>2. /\ t \in State /\ Same(s, t) /\ Step(s, t)
        /\ t.wait = [s.wait EXCEPT !["writeTimer"] = 0]
        /\ SameHandlers(s.ready, t.ready)
    BY <2>1, CancelTimer, CancelStep
  <2>3. WriteIdle(s) => WriteLive(s) /\ s.writes = <<>>
    BY <1>2 DEF WriteIdle, WriteLive, Some, Is, Code
  <2>4. ReadLive(s) => ReadLive(t)
    BY <2>1, <2>2, TimerKeeps
  <2>5. WriteLive(s) /\ s.writes = <<>> => WriteLive(t)
    BY <2>1, <2>2, TimerKeeps
  <2>6. Numbering(s) => Numbering(t)
    BY <2>1, <2>2, TimerKeeps
  <2>7. Good(t) => Good(s)
    BY <2>2 DEF Good, Same
  <2> QED
    BY <2>2, <2>3, <2>4, <2>5, <2>6, <2>7 DEF Live, t
<1> QED
  BY <1>1, <1>2

\* A read is started where none is under way.
LEMMA AsyncRead ==
    ASSUME NEW s \in State, NEW what \in {"header", "body"}
    PROVE  /\ Step(s, asyncRead(s, what))
           /\ Good(asyncRead(s, what)) =>
                 Good(s) /\ (Live(s) /\ ReadIdle(s) => Live(asyncRead(s, what)))
<1> DEFINE t == updateTimer(s, "readTimer")
           u == [t EXCEPT !.read = what]
<1>1. "readTimer" \in Timer /\ 1 \in 0..1
  BY DEF Timer
<1>2. /\ t \in State /\ Step(s, t) /\ Same(s, t)
      /\ t.wait = [s.wait EXCEPT !["readTimer"] = 1]
      /\ SameHandlers(s.ready, t.ready)
  BY <1>1, UpdateTimer DEF Step
<1>3. asyncRead(s, what) = u
  BY DEF asyncRead
<1> HIDE DEF t
<1>4. ReadIdle(s) => ReadIdle(t)
  BY <1>1, <1>2, TimerKeeps
<1>5. /\ ReadLive(s) => ReadLive(t)
      /\ Guard(t, "readTimer")
  BY <1>1, <1>2, TimerKeeps
<1>6. /\ WriteLive(s) => WriteLive(t)
      /\ Numbering(s) => Numbering(t)
  BY <1>1, <1>2, TimerKeeps
<1>7. /\ u \in State /\ u.ready = t.ready /\ u.queue = t.queue
      /\ u.written = t.written /\ u.open = t.open
      /\ u.closed = t.closed /\ u.read = what /\ u.writes = t.writes
      /\ u.wait = t.wait /\ u.asked = t.asked /\ u.fault = t.fault
  BY <1>2 DEF State
<1> HIDE DEF u
<1>8. Step(s, u)
  BY <1>2, <1>7, ControlStep, StepTrans
<1>9. Good(u) => Good(s)
  BY <1>2, <1>7 DEF Good, Same
<1>10. WriteLive(t) /\ Numbering(t) => WriteLive(u) /\ Numbering(u)
  BY <1>7 DEF WriteLive, WriteIdle, Numbering, Guard
<1>11. ReadLive(t) /\ ReadIdle(t) => ReadLive(u)
  BY <1>5, <1>7 DEF ReadLive, ReadIdle, Guard
<1> QED
  BY <1>3, <1>4, <1>5, <1>6, <1>8, <1>9, <1>10, <1>11 DEF Live

\* Methods that the strand runs as they are.
LEMMA KeptRan ==
    ASSUME NEW s, NEW t, Kept(s, t)
    PROVE  Ran(s, t)
BY DEF Kept, Step, Ran

\* stop() and abort() keep what ends with the use of the socket.
LEMMA StopKept ==
    ASSUME NEW s \in State
    PROVE  Kept(s, stop(s)) /\ Kept(s, abort(s))
BY StopEnds, AbortEnds, KeptEnded

\* A method that does nothing.
LEMMA SelfKept ==
    ASSUME NEW s \in State
    PROVE  Kept(s, s)
<1>1. Step(s, s)
  BY DEF Step
<1> QED
  BY <1>1 DEF Kept

\* Something goes wrong.
LEMMA FaultKept ==
    ASSUME NEW s \in State, NEW f \in Fault, f # "none"
    PROVE  Kept(s, [s EXCEPT !.fault = f])
<1> DEFINE t == [s EXCEPT !.fault = f]
<1>1. /\ t \in State /\ t.ready = s.ready /\ t.queue = s.queue
      /\ t.written = s.written /\ t.open = s.open
      /\ t.closed = s.closed /\ t.fault = f
  BY DEF State
<1> SUFFICES Kept(s, t)
  OBVIOUS
<1> HIDE DEF t
<1>2. Step(s, t) /\ ~Good(t)
  BY <1>1, ControlStep DEF Good
<1> QED
  BY <1>2, KeptEnded

\* The wrapped handler stops the connection, or does nothing to it.
LEMMA WrappedHandlerKept ==
    ASSUME NEW s \in State
    PROVE  Kept(s, WrappedHandler(s)) /\ WrappedHandler(s) \in State
<1>1. \/ WrappedHandler(s) = [s EXCEPT !.fault = "null_connection"]
      \/ WrappedHandler(s) = stop(s)
      \/ WrappedHandler(s) = s
  BY DEF WrappedHandler
<1>2. "null_connection" \in Fault /\ "null_connection" # "none"
  BY DEF Fault
<1>3. Kept(s, WrappedHandler(s))
  BY <1>1, <1>2, FaultKept, StopKept, SelfKept
<1> QED
  BY <1>3 DEF Kept, Step

\* Its pointer to the protocol goes with it.
LEMMA ReleaseWrappedKept ==
    ASSUME NEW s \in State
    PROVE  Kept(s, releaseWrapped(s))
<1> DEFINE v == s.attached /\ s.protocol
           t == [s EXCEPT !.wrapped = FALSE, !.attached = v]
<1>1. releaseWrapped(s) = Released(t)
  BY DEF releaseWrapped
<1>2. v \in BOOLEAN
  OBVIOUS
<1> HIDE DEF v
<1>3. /\ t \in State /\ t.ready = s.ready /\ t.queue = s.queue
      /\ t.written = s.written /\ t.open = s.open
      /\ t.closed = s.closed /\ t.read = s.read /\ t.writes = s.writes
      /\ t.wait = s.wait /\ t.asked = s.asked /\ t.fault = s.fault
  BY <1>2 DEF State
<1> HIDE DEF t
<1> QED
  BY <1>1, <1>3, KeptControl, ReleasedKept, KeptTrans

\* A wrapped handler is given to an operation.
LEMMA WrapKept ==
    ASSUME NEW s \in State
    PROVE  Kept(s, [s EXCEPT !.wrapped = TRUE]) /\ [s EXCEPT !.wrapped = TRUE] \in State
<1> DEFINE t == [s EXCEPT !.wrapped = TRUE]
<1>1. /\ t \in State /\ t.ready = s.ready /\ t.queue = s.queue
      /\ t.written = s.written /\ t.open = s.open
      /\ t.closed = s.closed /\ t.read = s.read /\ t.writes = s.writes
      /\ t.wait = s.wait /\ t.asked = s.asked /\ t.fault = s.fault
  BY DEF State
<1> SUFFICES Kept(s, t) /\ t \in State
  OBVIOUS
<1> HIDE DEF t
<1> QED
  BY <1>1, KeptControl

\* The login protocol's only message.
LEMMA OnFirstMessageKept ==
    ASSUME NEW s \in State, NEW how \in Login
    PROVE  Kept(s, onFirstMessage(s, how))
<1> DEFINE t == halfClose(s, "ReadClosed")
           g == [t EXCEPT !.wrapped = TRUE]
           w == WrappedHandler(g)
<1>1. Kept(s, t) /\ t \in State
  BY HalfCloseKept DEF Both, Kept, Step
<1>2. \/ onFirstMessage(s, how) = t
      \/ onFirstMessage(s, how) = stop(t)
      \/ onFirstMessage(s, how) = releaseWrapped(w)
      \/ onFirstMessage(s, how) = w
      \/ onFirstMessage(s, how) = g
  BY DEF onFirstMessage
<1> HIDE DEF t
<1>3. Kept(t, g) /\ g \in State
  BY <1>1, WrapKept
<1> HIDE DEF g
<1>4. Kept(g, w) /\ w \in State
  BY <1>3, WrappedHandlerKept
<1> HIDE DEF w
<1>5. Kept(s, g) /\ Kept(s, stop(t))
  BY <1>1, <1>3, StopKept, KeptTrans
<1>6. Kept(s, w)
  BY <1>4, <1>5, KeptTrans
<1>7. Kept(s, releaseWrapped(w))
  BY <1>4, <1>6, ReleaseWrappedKept, KeptTrans
<1> QED
  BY <1>1, <1>2, <1>5, <1>6, <1>7

\* The protocol handles a message.
LEMMA SendInMsgKept ==
    ASSUME NEW s \in State, NEW act \in ProtocolAct, NEW enc \in BOOLEAN
    PROVE  Kept(s, sendInMsg(s, act, enc))
<1> DEFINE u == sendInMsg(s, act, enc)
<1> SUFFICES Kept(s, u)
  OBVIOUS
<1>1. s.protocol \in BOOLEAN
  BY Fields
<1>2. \/ u = s
      \/ u = trySendOrEnqueueThen(s, "keepSending", enc)
      \/ u = trySendOrEnqueueThen(s, "stop", enc)
      \/ u = stop(s)
      \/ u = halfClose(s, "ReadClosed")
      \/ u = halfClose(s, "WriteClosed")
      \/ act \in Login /\ u = onFirstMessage(s, act)
      \/ u = [s EXCEPT !.fault = "throw"]
      \/ u = [s EXCEPT !.fault = "null_protocol"]
  BY <1>1 DEF sendInMsg, ProtocolAct, Login
<1>3. /\ "keepSending" \in Then /\ "stop" \in Then
      /\ "ReadClosed" \in Both /\ "WriteClosed" \in Both
      /\ "throw" \in Fault /\ "throw" # "none"
      /\ "null_protocol" \in Fault /\ "null_protocol" # "none"
  BY DEF Then, Both, Fault
<1> HIDE DEF u
<1>4. CASE u = trySendOrEnqueueThen(s, "keepSending", enc)
           \/ u = trySendOrEnqueueThen(s, "stop", enc)
  BY <1>3, <1>4, TrySendKept
<1>5. CASE u = halfClose(s, "ReadClosed") \/ u = halfClose(s, "WriteClosed")
  BY <1>3, <1>5, HalfCloseKept
<1>6. CASE u = [s EXCEPT !.fault = "throw"] \/ u = [s EXCEPT !.fault = "null_protocol"]
  BY <1>3, <1>6, FaultKept
<1>7. CASE u = s \/ u = stop(s)
  BY <1>7, SelfKept, StopKept
<1>8. CASE act \in Login /\ u = onFirstMessage(s, act)
  BY <1>8, OnFirstMessageKept
<1> QED
  BY <1>2, <1>4, <1>5, <1>6, <1>7, <1>8

\* A whole message was read.
LEMMA OnBodyRan ==
    ASSUME NEW s \in State, NEW act \in ProtocolAct, NEW enc \in BOOLEAN
    PROVE  Ran(s, onBody(s, act, enc))
<1> DEFINE a == cancelTimer(s, "readTimer")
           p == sendInMsg(a, act, enc)
           z == [p EXCEPT !.fault = "none"]
           t == onBody(s, act, enc)
<1> SUFFICES Ran(s, t)
  OBVIOUS
<1>1. "readTimer" \in Timer /\ 0 \in 0..1
  BY DEF Timer
<1>2. /\ a \in State /\ Step(s, a) /\ Same(s, a)
      /\ a.wait = [s.wait EXCEPT !["readTimer"] = 0]
      /\ SameHandlers(s.ready, a.ready)
  BY <1>1, CancelTimer, CancelStep
<1>3. Kept(a, p)
  BY <1>2, SendInMsgKept
<1>4. \/ t = abort(z) /\ p.fault = "throw"
      \/ t = [p EXCEPT !.fault = "use_after_free"]
      \/ t = asyncRead(p, "header")
      \/ t = p
  BY DEF onBody
<1> HIDE DEF a, p, t
<1>6. p \in State /\ Step(a, p)
  BY <1>3 DEF Kept, Step
<1>7. ASSUME Live(s), ReadIdle(s)
      PROVE  Live(a) /\ ReadIdle(a)
  <2>1. ReadLive(s) /\ WriteLive(s) /\ Numbering(s) /\ s.read = "none"
    BY <1>7 DEF Live, ReadIdle
  <2>2. ReadLive(a) /\ ReadIdle(a)
    BY <1>1, <1>2, <1>7, <2>1, TimerKeeps
  <2>3. WriteLive(a) /\ Numbering(a)
    BY <1>1, <1>2, <2>1, TimerKeeps
  <2> QED
    BY <2>2, <2>3 DEF Live
<1>8. Good(a) => Good(s)
  BY <1>2 DEF Good, Same
<1>11. ASSUME Step(a, t), Good(t) => Good(a) /\ (Live(a) /\ ReadIdle(a) => Live(t))
       PROVE  Ran(s, t)
  BY <1>2, <1>7, <1>8, <1>11 DEF Ran, Step
<1>12. CASE t = abort(z) /\ p.fault = "throw"
  <2>1. /\ z \in State /\ z.ready = p.ready /\ z.queue = p.queue
        /\ z.written = p.written /\ z.open = p.open
        /\ z.closed = p.closed
    BY <1>6 DEF State, Fault
  <2> HIDE DEF z
  <2>2. Step(p, z) /\ Step(z, t) /\ ~Good(t)
    BY <1>6, <1>12, <2>1, ControlStep, AbortEnds
  <2>3. Step(a, t)
    BY <1>6, <2>2, StepTrans
  <2> QED
    BY <1>11, <2>2, <2>3
<1>13. CASE t = [p EXCEPT !.fault = "use_after_free"]
  <2>1. "use_after_free" \in Fault /\ "use_after_free" # "none"
    BY DEF Fault
  <2>2. Kept(p, t)
    BY <1>6, <1>13, <2>1, FaultKept
  <2>3. Kept(a, t)
    BY <1>3, <2>2, KeptTrans
  <2> QED
    BY <1>11, <2>3 DEF Kept
<1>14. CASE t = asyncRead(p, "header")
  <2>1. /\ Step(p, t)
        /\ Good(t) => Good(p) /\ (Live(p) /\ ReadIdle(p) => Live(t))
    BY <1>6, <1>14, AsyncRead
  <2>2. Step(a, t)
    BY <1>6, <2>1, StepTrans
  <2> QED
    BY <1>3, <1>11, <2>1, <2>2 DEF Kept
<1>15. CASE t = p
  BY <1>3, <1>11, <1>15 DEF Kept
<1> QED
  BY <1>4, <1>12, <1>13, <1>14, <1>15

\* The handler of a read.
LEMMA OnReadRan ==
    ASSUME NEW s \in State, NEW h \in Handler
    PROVE  Ran(s, onRead(s, h))
<1> DEFINE a == updateTimer(s, "readTimer")
           t == onRead(s, h)
<1> SUFFICES Ran(s, t)
  OBVIOUS
<1>1. "readTimer" \in Timer
  BY DEF Timer
<1>2. a \in State /\ Step(s, a)
  BY <1>1, UpdateTimer DEF Step
<1>3. \/ t = s
      \/ t = abort(a)
      \/ t = asyncRead(s, "body")
      \/ t = abort(s)
  BY DEF onRead
<1> HIDE DEF a, t
<1>4. CASE t = s \/ t = abort(s)
  BY <1>4, SelfKept, StopKept, KeptRan
<1>5. CASE t = abort(a)
  <2>1. Step(a, t) /\ ~Good(t)
    BY <1>2, <1>5, AbortEnds
  <2>2. Step(s, t)
    BY <1>2, <2>1, StepTrans
  <2> QED
    BY <2>1, <2>2, KeptEnded, KeptRan
<1>6. CASE t = asyncRead(s, "body")
  <2>1. /\ Step(s, t)
        /\ Good(t) => Good(s) /\ (Live(s) /\ ReadIdle(s) => Live(t))
    BY <1>6, AsyncRead
  <2> QED
    BY <2>1 DEF Ran, Step
<1> QED
  BY <1>3, <1>4, <1>5, <1>6

\* The handler of a timer's wait.
LEMMA OnTimerKept ==
    ASSUME NEW s \in State, NEW h
    PROVE  Kept(s, onTimer(s, h)) /\ (h.ec # "aborted" => ~Good(onTimer(s, h)))
<1>1. \/ h.ec = "aborted" /\ onTimer(s, h) = s
      \/ h.ec # "aborted" /\ onTimer(s, h) = abort(s)
  BY DEF onTimer
<1> QED
  BY <1>1, SelfKept, StopKept, AbortEnds

\* The handler of a write: the message at the front of the queue leaves it,
\* whose write was the only one.
LEMMA OnWrittenStep ==
    ASSUME NEW s \in State, NEW h \in Handler, NEW enc \in BOOLEAN,
           h.op = "write",
           h.ec = "ok" => s.queue # <<>> /\ ~Some(s.ready, "write", {"ok"})
    PROVE  LET t == onWritten(s, h, enc)
               q == [s EXCEPT !.queue = Tail(@)]
           IN  /\ t \in State
               /\ s.closed \subseteq t.closed /\ t.written = s.written
               /\ OkWrites(s) => OkWrites(t)
               /\ Good(t) =>
                     /\ Good(s)
                     /\ h.ec \in {"ok", "aborted"}
                     /\ h.ec = "aborted" /\ Live(s) => Live(t)
                     /\ h.ec = "ok" /\ ReadLive(q) /\ WriteIdle(q) /\ Numbering(q) => Live(t)
<1> DEFINE t == onWritten(s, h, enc)
           q == [s EXCEPT !.queue = Tail(@)]
           a == [s EXCEPT !.sthis = TRUE]
           b == [a EXCEPT !.queue = Tail(@)]
           u == CASE h.ec = "ok" /\ h.arg = "keepSending" -> keepSending(b, enc)
                  [] h.ec = "ok" /\ h.arg = "stop" -> stop(b)
                  [] h.ec = "aborted" -> a
                  [] OTHER -> abort(a)
           v == [u EXCEPT !.sthis = FALSE]
<1>1. t = Released(v)
  BY DEF onWritten
<1>2. \/ h.ec = "ok" /\ u = keepSending(b, enc)
      \/ h.ec = "ok" /\ u = stop(b)
      \/ h.ec = "aborted" /\ u = a
      \/ u = abort(a)
  OBVIOUS
<1>3. /\ a \in State /\ a.ready = s.ready /\ a.queue = s.queue
      /\ a.written = s.written /\ a.open = s.open
      /\ a.closed = s.closed /\ a.read = s.read /\ a.writes = s.writes
      /\ a.wait = s.wait /\ a.asked = s.asked /\ a.fault = s.fault
  BY DEF State
<1>4. s.queue \in Seq(Nat)
  BY Fields
<1>5. ASSUME h.ec = "ok"
      PROVE  /\ b \in State /\ b.ready = s.ready
             /\ b.written = s.written /\ b.open = s.open
             /\ b.closed = s.closed /\ b.fault = s.fault
             /\ ReadLive(q) => ReadLive(b)
             /\ WriteIdle(q) => WriteIdle(b)
             /\ Numbering(q) => Numbering(b)
  <2> DEFINE l == Tail(s.queue)
  <2>1. l \in Seq(Nat)
    BY <1>4, <1>5
  <2>2. b = [a EXCEPT !.queue = l] /\ q = [s EXCEPT !.queue = l]
    BY <1>3
  <2> HIDE DEF l, a, b, q
  <2>3. /\ b \in State /\ b.ready = s.ready
        /\ b.written = s.written /\ b.open = s.open
        /\ b.closed = s.closed /\ b.fault = s.fault
        /\ b.queue = l /\ b.read = s.read /\ b.writes = s.writes
        /\ b.wait = s.wait /\ b.asked = s.asked
    BY <1>3, <2>1, <2>2 DEF State
  <2>4. /\ q.ready = s.ready /\ q.written = s.written
        /\ q.queue = l /\ q.read = s.read /\ q.writes = s.writes
        /\ q.wait = s.wait /\ q.asked = s.asked
    BY <2>2 DEF State
  <2> QED
    BY <2>3, <2>4 DEF ReadLive, WriteIdle, Numbering, Guard
<1> SUFFICES /\ t \in State
             /\ s.closed \subseteq t.closed /\ t.written = s.written
             /\ OkWrites(s) => OkWrites(t)
             /\ Good(t) =>
                   /\ Good(s)
                   /\ h.ec \in {"ok", "aborted"}
                   /\ h.ec = "aborted" /\ Live(s) => Live(t)
                   /\ h.ec = "ok" /\ ReadLive(q) /\ WriteIdle(q) /\ Numbering(q)
                         => Live(t)
  OBVIOUS
<1> HIDE DEF a, b, q, u, t
\* What follows the handler's own call: sthis is let go.
<1>6. ASSUME NEW x \in State, Step(x, u)
      PROVE  Step(x, t) /\ (Good(t) => Good(u) /\ (Live(u) => Live(t)))
  <2>1. u \in State
    BY <1>6 DEF Step
  <2>2. /\ v \in State /\ v.ready = u.ready /\ v.queue = u.queue
        /\ v.written = u.written /\ v.open = u.open
        /\ v.closed = u.closed /\ v.read = u.read /\ v.writes = u.writes
        /\ v.wait = u.wait /\ v.asked = u.asked /\ v.fault = u.fault
    BY <2>1 DEF State
  <2> HIDE DEF v
  <2>3. Kept(u, v) /\ Kept(v, t)
    BY <1>1, <2>1, <2>2, KeptControl, ReleasedKept
  <2>4. Kept(u, t)
    BY <2>3, KeptTrans
  <2>5. Step(x, t)
    BY <1>6, <2>4, StepTrans DEF Kept
  <2> QED
    BY <2>4, <2>5 DEF Kept
<1>7. h.ec = "ok" => (OkWrites(s) => OkWrites(b))
  BY <1>5 DEF OkWrites
<1>8. Step(s, a) /\ (Good(a) => Good(s)) /\ (Live(s) => Live(a))
  <2>1. Kept(s, a)
    BY <1>3, KeptControl
  <2> QED
    BY <1>3, <2>1 DEF Kept, Live, ReadLive, WriteLive, WriteIdle, Numbering, Guard
<1>9. CASE h.ec = "ok" /\ u = keepSending(b, enc)
  <2>1. /\ Step(b, u)
        /\ Good(u) =>
              /\ Good(b)
              /\ ReadLive(b) /\ WriteIdle(b) /\ Numbering(b) => Live(u)
    BY <1>5, <1>9, KeepSending
  <2>2. Step(b, t) /\ (Good(t) => Good(u) /\ (Live(u) => Live(t)))
    BY <1>5, <1>6, <1>9, <2>1
  <2>3. Good(b) => Good(s)
    BY <1>5, <1>9 DEF Good
  <2>4. t \in State /\ b.closed \subseteq t.closed /\ t.written = b.written
        /\ (OkWrites(b) => OkWrites(t))
    BY <2>2 DEF Step
  <2> QED
    BY <1>5, <1>7, <1>9, <2>1, <2>2, <2>3, <2>4
<1>10. CASE h.ec = "ok" /\ u = stop(b)
  <2>1. Step(b, u) /\ ~Good(u)
    BY <1>5, <1>10, StopEnds
  <2>2. Step(b, t) /\ ~Good(t)
    BY <1>5, <1>6, <1>10, <2>1
  <2>3. t \in State /\ b.closed \subseteq t.closed /\ t.written = b.written
        /\ (OkWrites(b) => OkWrites(t))
    BY <2>2 DEF Step
  <2> QED
    BY <1>5, <1>7, <1>10, <2>2, <2>3
<1>11. CASE h.ec = "aborted" /\ u = a
  <2>1. Step(s, t) /\ (Good(t) => Good(a) /\ (Live(a) => Live(t)))
    BY <1>6, <1>8, <1>11
  <2>2. t \in State /\ s.closed \subseteq t.closed /\ t.written = s.written
        /\ (OkWrites(s) => OkWrites(t))
    BY <2>1 DEF Step
  <2> QED
    BY <1>8, <1>11, <2>1, <2>2
<1>12. CASE u = abort(a)
  <2>1. Step(a, u) /\ ~Good(u)
    BY <1>3, <1>12, AbortEnds
  <2>2. Step(a, t) /\ ~Good(t)
    BY <1>3, <1>6, <2>1
  <2>3. Step(s, t)
    BY <1>8, <2>2, StepTrans
  <2>4. t \in State /\ s.closed \subseteq t.closed /\ t.written = s.written
        /\ (OkWrites(s) => OkWrites(t))
    BY <2>3 DEF Step
  <2> QED
    BY <2>2, <2>4
<1> QED
  BY <1>2, <1>9, <1>10, <1>11, <1>12

-----------------------------------------------------------------------------
(* The steps *)

\* The strand takes a handler from its queue, to run it.
Taken(s) == [s EXCEPT !.ready = Tail(@)]

LEMMA TakenHandler ==
    ASSUME NEW s, Inv(s), s.ready # <<>>
    PROVE  LET h == Head(s.ready)
               t == Taken(s)
               q == [t EXCEPT !.queue = Tail(@)]
           IN  /\ h \in Handler /\ t \in State
               /\ t.written = s.written /\ t.closed = s.closed
               /\ t.alive = s.alive
               /\ OkWrites(t)
               /\ Is(h, "write", {"ok"}) =>
                     t.queue # <<>> /\ ~Some(t.ready, "write", {"ok"})
               /\ Good(t) =>
                     /\ h.op # "write" /\ (h.op \in Timer => h.ec = "aborted") => Live(t)
                     /\ h.op = "read" => ReadIdle(t)
                     /\ h.op = "write" => h.ec # "aborted"
                     /\ Is(h, "write", {"ok"}) =>
                           ReadLive(q) /\ WriteIdle(q) /\ Numbering(q)
<1> DEFINE h == Head(s.ready)
           t == Taken(s)
           q == [t EXCEPT !.queue = Tail(@)]
<1>1. s \in State /\ OkWrites(s) /\ (Good(s) => Live(s))
  BY DEF Inv
<1>2. s.ready \in Seq(Handler) /\ s.queue \in Seq(Nat)
  BY <1>1, Fields
<1>3. h \in Handler /\ Tail(s.ready) \in Seq(Handler)
  BY <1>2
<1>4. /\ t \in State /\ t.ready = Tail(s.ready) /\ t.queue = s.queue
      /\ t.written = s.written /\ t.open = s.open
      /\ t.closed = s.closed /\ t.read = s.read /\ t.writes = s.writes
      /\ t.wait = s.wait /\ t.asked = s.asked /\ t.fault = s.fault
      /\ t.alive = s.alive
  <2>1. Taken(s) = [s EXCEPT !.ready = Tail(s.ready)]
    BY <1>1 DEF Taken, State
  <2> QED
    BY <1>1, <1>3, <2>1 DEF State
<1>5. \A op, codes :
         /\ Some(t.ready, op, codes) => Some(s.ready, op, codes)
         /\ Is(h, op, codes) => Some(s.ready, op, codes)
         /\ ~Is(h, op, codes) => (Some(s.ready, op, codes) => Some(t.ready, op, codes))
         /\ AtMostOne(s.ready, op, codes) =>
               /\ AtMostOne(t.ready, op, codes)
               /\ Is(h, op, codes) => ~Some(t.ready, op, codes)
  BY <1>2, <1>4, Take
<1> HIDE DEF h, t
<1>6. OkWrites(t)
  BY <1>1, <1>4, <1>5 DEF OkWrites
<1>7. Is(h, "write", {"ok"}) => t.queue # <<>> /\ ~Some(t.ready, "write", {"ok"})
  BY <1>1, <1>4, <1>5 DEF OkWrites
<1>8. h.ec \in Code
  BY <1>3 DEF Handler
<1>9. ASSUME Good(t)
      PROVE  /\ h.op # "write" /\ (h.op \in Timer => h.ec = "aborted") => Live(t)
             /\ h.op = "read" => ReadIdle(t)
             /\ h.op = "write" => h.ec # "aborted"
             /\ Is(h, "write", {"ok"}) =>
                   ReadLive(q) /\ WriteIdle(q) /\ Numbering(q)
  <2>1. Good(s)
    BY <1>4, <1>9 DEF Good
  <2>2. ReadLive(s) /\ WriteLive(s) /\ Numbering(s)
    BY <1>1, <2>1 DEF Live
  <2>3. h.op = "read" => ReadIdle(t)
    <3>1. ASSUME h.op = "read"
          PROVE  ReadIdle(t)
      <4>1. Is(h, "read", Code)
        BY <1>8, <3>1 DEF Is
      <4> QED
        BY <1>4, <1>5, <2>2, <4>1 DEF ReadLive, ReadIdle
    <3> QED
      BY <3>1
  <2>4. \A k \in Timer : ~Is(h, k, {"ok"}) => (Guard(s, k) => Guard(t, k))
    BY <1>4, <1>5 DEF Guard
  <2>5. ~Is(h, "readTimer", {"ok"}) => ReadLive(t)
    <3>1. "readTimer" \in Timer
      BY DEF Timer
    <3> QED
      BY <1>4, <1>5, <2>2, <2>4, <3>1 DEF ReadLive
  <2>6. h.op = "write" => h.ec # "aborted"
    BY <1>5, <2>2 DEF WriteLive, Is
  <2>7. ASSUME h.op # "write", h.op \in Timer => h.ec = "aborted"
        PROVE  Live(t)
    <3>1. "readTimer" \in Timer /\ "writeTimer" \in Timer
      BY DEF Timer
    <3>2. \A k \in Timer : ~Is(h, k, {"ok"})
      BY <2>7 DEF Is
    <3>3. \A codes : /\ ~Is(h, "write", codes)
                     /\ Some(t.ready, "write", codes) <=> Some(s.ready, "write", codes)
                     /\ AtMostOne(s.ready, "write", codes) =>
                           AtMostOne(t.ready, "write", codes)
      BY <1>5, <2>7 DEF Is
    <3>4. Numbering(t)
      BY <1>4, <2>2, <3>3 DEF Numbering
    <3>5. WriteLive(t)
      BY <1>4, <2>2, <2>4, <3>1, <3>2, <3>3 DEF WriteLive, WriteIdle
    <3> QED
      BY <2>5, <3>1, <3>2, <3>4, <3>5 DEF Live
  <2>8. ASSUME Is(h, "write", {"ok"})
        PROVE  ReadLive(q) /\ WriteIdle(q) /\ Numbering(q)
    <3> DEFINE l == Tail(s.queue)
    <3>1. s.queue # <<>> /\ ~Some(t.ready, "write", {"ok"})
      BY <1>4, <1>7, <2>8
    <3>2. /\ l \in Seq(Nat) /\ Len(l) = Len(s.queue) - 1 /\ Len(s.queue) \in Nat
          /\ \A j \in DOMAIN l : j \in Nat /\ j + 1 \in DOMAIN s.queue
                                 /\ l[j] = s.queue[j + 1]
      BY <1>2, <3>1
    <3>3. q = [t EXCEPT !.queue = l]
      BY <1>4 DEF State
    <3> HIDE DEF l, q
    <3>4. /\ q.ready = t.ready /\ q.written = t.written
          /\ q.queue = l /\ q.read = t.read /\ q.writes = t.writes
          /\ q.wait = t.wait /\ q.asked = t.asked
      BY <1>4, <3>2, <3>3 DEF State
    <3>5. Is(h, "write", Code) /\ ~Is(h, "readTimer", {"ok"})
      BY <1>8, <2>8 DEF Is, Code
    <3>6. s.writes = <<>> /\ AtMostOne(s.ready, "write", Code)
      BY <1>5, <2>2, <3>5 DEF WriteLive, WriteIdle
    <3>7. WriteIdle(q)
      BY <1>4, <1>5, <3>4, <3>5, <3>6 DEF WriteIdle
    <3>8. ReadLive(q)
      BY <2>5, <3>4, <3>5 DEF ReadLive, Guard
    <3>9. Some(s.ready, "write", {"ok"})
      BY <1>5, <2>8
    <3>10. /\ \A j \in DOMAIN s.queue : s.queue[j] = Len(s.asked) - Len(s.queue) + j
           /\ Len(s.written) = Len(s.asked) - Len(s.queue) + 1
      BY <2>2, <3>9 DEF Numbering
    <3>11. Len(s.asked) \in Nat
      BY <1>1, Fields
    <3>12. ASSUME NEW j \in DOMAIN l
           PROVE  l[j] = Len(s.asked) - Len(l) + j
      <4>1. /\ j \in Nat /\ Len(l) = Len(s.queue) - 1
            /\ l[j] = Len(s.asked) - Len(s.queue) + (j + 1)
        BY <3>2, <3>10
      <4>2. \A m, n, i \in Nat : m - n + (i + 1) = m - (n - 1) + i
        OBVIOUS
      <4>3. Len(s.queue) \in Nat /\ Len(s.asked) \in Nat
        BY <3>2, <3>11
      <4>4. Len(s.asked) - Len(s.queue) + (j + 1) = Len(s.asked) - (Len(s.queue) - 1) + j
        BY <4>1, <4>2, <4>3
      <4> QED
        BY <4>1, <4>4
    <3>13. Len(s.written) = Len(s.asked) - Len(l) + 0
      BY <3>2, <3>10, <3>11
    <3>14. Numbering(q)
      BY <1>4, <3>1, <3>4, <3>12, <3>13 DEF Numbering
    <3> QED
      BY <3>7, <3>8, <3>14
  <2> QED
    BY <2>3, <2>6, <2>7, <2>8
<1> QED
  BY <1>3, <1>4, <1>6, <1>7, <1>9 DEF h, t

\* What is enough for the invariant to hold in the next state.
LEMMA InvNext ==
    ASSUME NEW s, NEW t, Inv(s), t \in State, t.written = s.written, OkWrites(t),
           Good(t) => Live(t)
    PROVE  Inv(t)
BY DEF Inv

\* Whatever the strand runs next keeps the invariant, opens nothing that is
\* closed, and leaves no read behind if it goes on to deliver a message.
LEMMA RunHandlerStep ==
    ASSUME Inv(c), RunHandler
    PROVE  /\ Inv(c') /\ c.closed \subseteq c'.closed
           /\ checked' /\ Good(c') => ReadIdle(c')
<1> DEFINE h == Head(c.ready)
           s == Taken(c)
           q == [s EXCEPT !.queue = Tail(@)]
<1>1. PICK enc \in BOOLEAN :
         c' = CASE ~s.alive /\ UsesThis(h) -> [s EXCEPT !.fault = "use_after_free"]
                [] ~s.alive /\ ~UsesThis(h) -> s
                [] s.alive /\ h.op = "read" -> onRead(s, h)
                [] s.alive /\ h.op = "write" -> onWritten(s, h, enc)
                [] s.alive /\ h.op \in Timer -> onTimer(s, h)
                [] s.alive /\ h.op = "send" -> trySendOrEnqueueThen(s, h.arg, enc)
                [] s.alive /\ h.op = "stop" -> stop(s)
  BY DEF RunHandler, Taken
<1>2. c.ready # <<>>
  BY DEF RunHandler
<1>3. checked' = Passes(c, h)
  BY DEF RunHandler
<1>4. /\ h \in Handler /\ s \in State
      /\ s.written = c.written /\ s.closed = c.closed
      /\ s.alive = c.alive /\ OkWrites(s)
      /\ Is(h, "write", {"ok"}) =>
            s.queue # <<>> /\ ~Some(s.ready, "write", {"ok"})
      /\ Good(s) =>
            /\ h.op # "write" /\ (h.op \in Timer => h.ec = "aborted") => Live(s)
            /\ h.op = "read" => ReadIdle(s)
            /\ h.op = "write" => h.ec # "aborted"
            /\ Is(h, "write", {"ok"}) => ReadLive(q) /\ WriteIdle(q) /\ Numbering(q)
  BY <1>2, TakenHandler
<1>5. /\ h.op \in {"read", "write", "send", "stop"} \cup Timer
      /\ h.op = "send" => h.arg \in Then
  BY <1>4 DEF Handler
<1>6. s.alive \in BOOLEAN
  BY <1>4, Fields
<1>7. \/ UsesThis(h) /\ c' = [s EXCEPT !.fault = "use_after_free"]
      \/ ~UsesThis(h) /\ c' = s
      \/ h.op = "read" /\ c' = onRead(s, h)
      \/ h.op = "write" /\ c' = onWritten(s, h, enc)
      \/ h.op \in Timer /\ c' = onTimer(s, h)
      \/ h.op = "send" /\ c' = trySendOrEnqueueThen(s, h.arg, enc)
      \/ h.op = "stop" /\ c' = stop(s)
  BY <1>1, <1>5, <1>6 DEF Timer
<1> HIDE DEF h, s, q
\* A handler that is past its check has done nothing yet.
<1>8. checked' => c' = s /\ h.op = "read"
  <2> SUFFICES ASSUME checked'
               PROVE  c' = s /\ h.op = "read"
    OBVIOUS
  <2>1. s.alive /\ h.op = "read" /\ h.arg = "body" /\ h.ec = "ok" /\ isReceiving(s)
    BY <1>3, <1>4 DEF Passes, isReceiving
  <2>2. c' = onRead(s, h)
    BY <1>1, <2>1 DEF Timer
  <2> QED
    BY <2>1, <2>2 DEF onRead
<1>18. checked' /\ Good(c') => ReadIdle(c')
  BY <1>4, <1>8
<1> SUFFICES Inv(c') /\ c.closed \subseteq c'.closed
  BY <1>18
<1>9. "read" \notin Timer /\ "send" \notin Timer /\ "stop" \notin Timer
      /\ "write" \notin Timer
  BY DEF Timer
\* A handler that keeps what the methods keep, or leaves the socket unused.
<1>10. ASSUME Kept(s, c'), Good(c') => Live(s)
       PROVE  Inv(c') /\ c.closed \subseteq c'.closed
  <2>1. /\ c' \in State /\ c'.written = c.written /\ OkWrites(c')
        /\ c.closed \subseteq c'.closed
    BY <1>4, <1>10 DEF Kept, Step
  <2>2. Good(c') => Live(c')
    BY <1>10 DEF Kept
  <2> QED
    BY <2>1, <2>2, InvNext
<1>11. CASE UsesThis(h) /\ c' = [s EXCEPT !.fault = "use_after_free"]
  <2>1. "use_after_free" \in Fault /\ "use_after_free" # "none"
    BY DEF Fault
  <2>2. Kept(s, c')
    BY <1>4, <1>11, <2>1, FaultKept
  <2>3. c'.fault = "use_after_free"
    BY <1>4, <1>11 DEF State
  <2> QED
    BY <1>10, <2>2, <2>3 DEF Good
<1>12. CASE ~UsesThis(h) /\ c' = s
  <2>1. Kept(s, c')
    BY <1>4, <1>12, SelfKept
  <2>2. Good(c') => Live(s)
    BY <1>4, <1>12 DEF UsesThis
  <2> QED
    BY <1>10, <2>1, <2>2
<1>13. CASE h.op = "read" /\ c' = onRead(s, h)
  <2>1. Ran(s, c')
    BY <1>4, <1>13, OnReadRan
  <2>2. /\ c' \in State /\ c'.written = c.written /\ OkWrites(c')
        /\ c.closed \subseteq c'.closed
        /\ Good(c') => Good(s) /\ (Live(s) /\ ReadIdle(s) => Live(c'))
    BY <1>4, <2>1 DEF Ran
  <2>3. Good(c') => Live(c')
    BY <1>4, <1>9, <1>13, <2>2
  <2> QED
    BY <2>2, <2>3, InvNext
<1>14. CASE h.op = "write" /\ c' = onWritten(s, h, enc)
  <2>1. h.ec = "ok" => s.queue # <<>> /\ ~Some(s.ready, "write", {"ok"})
    BY <1>4, <1>14 DEF Is
  <2>2. /\ c' \in State
        /\ s.closed \subseteq c'.closed /\ c'.written = s.written
        /\ OkWrites(s) => OkWrites(c')
        /\ Good(c') =>
              /\ Good(s)
              /\ h.ec \in {"ok", "aborted"}
              /\ h.ec = "ok" /\ ReadLive(q) /\ WriteIdle(q) /\ Numbering(q)
                    => Live(c')
    BY <1>4, <1>14, <2>1, OnWrittenStep DEF q
  <2>3. Good(c') => Live(c')
    BY <1>4, <1>14, <2>2 DEF Is
  <2> QED
    BY <1>4, <2>2, <2>3, InvNext
<1>15. CASE h.op \in Timer /\ c' = onTimer(s, h)
  <2>1. Kept(s, c') /\ (h.ec # "aborted" => ~Good(c'))
    BY <1>4, <1>15, OnTimerKept
  <2>2. Good(c') => Live(s)
    BY <1>4, <1>9, <1>15, <2>1 DEF Kept
  <2> QED
    BY <1>10, <2>1, <2>2
<1>16. CASE h.op = "send" /\ c' = trySendOrEnqueueThen(s, h.arg, enc)
  <2>1. Kept(s, c')
    BY <1>4, <1>5, <1>16, TrySendKept
  <2>2. Good(c') => Live(s)
    BY <1>4, <1>9, <1>16, <2>1 DEF Kept
  <2> QED
    BY <1>10, <2>1, <2>2
<1>17. CASE h.op = "stop" /\ c' = stop(s)
  <2>1. Kept(s, c') /\ ~Good(c')
    BY <1>4, <1>17, StopKept, StopEnds
  <2> QED
    BY <1>10, <2>1
<1> QED
  BY <1>7, <1>11, <1>12, <1>13, <1>14, <1>15, <1>16, <1>17

\* The message is handed to the protocol, by the handler of the only read.
LEMMA DeliverStep ==
    ASSUME Inv(c), Good(c) => ReadIdle(c), Deliver
    PROVE  Inv(c') /\ c.closed \subseteq c'.closed
<1>1. PICK act \in ProtocolAct, enc \in BOOLEAN :
         c' = IF c.alive THEN onBody(c, act, enc)
                         ELSE [c EXCEPT !.fault = "use_after_free"]
  BY DEF Deliver
<1>2. c \in State /\ OkWrites(c) /\ (Good(c) => Live(c))
  BY DEF Inv
<1>3. CASE c' = onBody(c, act, enc)
  <2>1. Ran(c, c')
    BY <1>2, <1>3, OnBodyRan
  <2> QED
    BY <1>2, <2>1, InvNext DEF Ran
<1>4. CASE c' = [c EXCEPT !.fault = "use_after_free"]
  <2>1. "use_after_free" \in Fault /\ "use_after_free" # "none"
    BY DEF Fault
  <2>2. Kept(c, c')
    BY <1>2, <1>4, <2>1, FaultKept
  <2> QED
    BY <1>2, <2>2, InvNext DEF Kept, Step
<1> QED
  BY <1>1, <1>3, <1>4

\* Flags change.
LEMMA FlagsStep ==
    ASSUME NEW s, NEW t, Inv(s), t \in State,
           t.ready = s.ready, t.queue = s.queue, t.written = s.written,
           t.open = s.open, t.read = s.read, t.writes = s.writes,
           t.wait = s.wait, t.asked = s.asked, t.fault = s.fault
    PROVE  Inv(t) /\ (s.closed \subseteq t.closed => Calm(s, t))
<1>1. OkWrites(s) /\ (Good(s) => Live(s))
  BY DEF Inv
<1>2. OkWrites(t)
  BY <1>1 DEF OkWrites
<1>3. Good(t) => Live(t)
  BY <1>1 DEF Good, Live, ReadLive, WriteLive, Numbering, WriteIdle, Guard
<1>4. s.closed \subseteq t.closed => Calm(s, t)
  BY DEF Calm, Good, ReadIdle
<1> QED
  BY <1>2, <1>3, <1>4, InvNext

\* A handler that is of no read or write is queued.
LEMMA PostedStep ==
    ASSUME NEW s, NEW t, NEW h \in Handler, Inv(s), t \in State,
           h.op # "read", h.op # "write", t.ready = Append(s.ready, h),
           t.queue = s.queue, t.written = s.written,
           t.open = s.open, t.read = s.read, t.writes = s.writes,
           \A k \in Timer : t.wait[k] = s.wait[k] \/ Is(h, k, {"ok"}),
           t.asked = s.asked, t.fault = s.fault, t.closed = s.closed
    PROVE  Inv(t) /\ Calm(s, t)
<1>1. s \in State /\ OkWrites(s) /\ (Good(s) => Live(s))
  BY DEF Inv
<1>2. s.ready \in Seq(Handler)
  BY <1>1, Fields
<1>3. \A op, codes :
         /\ Some(t.ready, op, codes) <=> Some(s.ready, op, codes) \/ Is(h, op, codes)
         /\ AtMostOne(s.ready, op, codes) /\ ~Is(h, op, codes) =>
               AtMostOne(t.ready, op, codes)
  BY <1>2, Queue
<1>4. \A codes : ~Is(h, "read", codes) /\ ~Is(h, "write", codes)
  BY DEF Is
<1>5. \A codes :
         /\ Some(t.ready, "read", codes) <=> Some(s.ready, "read", codes)
         /\ Some(t.ready, "write", codes) <=> Some(s.ready, "write", codes)
         /\ AtMostOne(s.ready, "read", codes) => AtMostOne(t.ready, "read", codes)
         /\ AtMostOne(s.ready, "write", codes) => AtMostOne(t.ready, "write", codes)
  BY <1>3, <1>4
<1>6. \A k \in Timer : Guard(s, k) => Guard(t, k)
  BY <1>3 DEF Guard
<1>7. "readTimer" \in Timer /\ "writeTimer" \in Timer
  BY DEF Timer
<1>8. OkWrites(t)
  BY <1>1, <1>5 DEF OkWrites
<1>9. ReadLive(s) => ReadLive(t)
  BY <1>5, <1>6, <1>7 DEF ReadLive
<1>10. Numbering(s) => Numbering(t)
  BY <1>5 DEF Numbering
<1>11. WriteLive(s) => WriteLive(t)
  BY <1>5, <1>6, <1>7 DEF WriteLive, WriteIdle
<1>12. Good(t) => Live(t)
  BY <1>1, <1>9, <1>10, <1>11 DEF Good, Live
<1>13. Calm(s, t)
  BY <1>5 DEF Calm, Good, ReadIdle
<1> QED
  BY <1>8, <1>12, <1>13, InvNext

\* A handler of another thread's call is queued.
LEMMA PostStep ==
    ASSUME NEW s, NEW h \in Handler, Inv(s), h.op # "read", h.op # "write"
    PROVE  /\ Inv([s EXCEPT !.ready = Append(@, h)])
           /\ Calm(s, [s EXCEPT !.ready = Append(@, h)])
<1> DEFINE r == Append(s.ready, h)
           t == [s EXCEPT !.ready = r]
<1>1. s \in State
  BY DEF Inv
<1>2. s.ready \in Seq(Handler)
  BY <1>1, Fields
<1>3. r \in Seq(Handler)
  BY <1>2
<1>4. [s EXCEPT !.ready = Append(@, h)] = t
  BY <1>1 DEF State
<1> HIDE DEF r
<1>5. /\ t \in State /\ t.ready = r /\ t.queue = s.queue /\ t.written = s.written
      /\ t.open = s.open /\ t.read = s.read /\ t.writes = s.writes
      /\ t.wait = s.wait /\ t.asked = s.asked /\ t.fault = s.fault
      /\ t.closed = s.closed
  BY <1>1, <1>3 DEF State
<1> HIDE DEF t
<1>6. Inv(t) /\ Calm(s, t)
  BY <1>5, PostedStep DEF r
<1> QED
  BY <1>4, <1>5, <1>6

\* A read completes: its handler is the only one, and none is under way.
LEMMA ReadCompletesStep ==
    ASSUME Inv(c), NEW ec \in Code, ReadCompletes(ec)
    PROVE  Inv(c') /\ Calm(c, c')
<1> DEFINE h == H("read", ec, c.read)
           r == Append(c.ready, h)
           u == c.up /\ ec # "reset"
           t == [c EXCEPT !.read = "none", !.up = u, !.ready = r]
<1>1. c \in State /\ OkWrites(c) /\ (Good(c) => Live(c))
  BY DEF Inv
<1>2. c.ready \in Seq(Handler) /\ c.read \in {"none", "header", "body"}
  BY <1>1, Fields
<1>3. c.read # "none"
  BY DEF ReadCompletes
<1>4. h \in Handler
  BY <1>2, <1>3, Handlers
<1>5. c' = t
  BY <1>1 DEF ReadCompletes, State
<1>6. u \in BOOLEAN /\ r \in Seq(Handler)
  BY <1>2, <1>4
<1>7. h.op = "read"
  BY DEF H
<1> HIDE DEF h, r, u
<1>8. /\ t \in State /\ t.ready = r /\ t.queue = c.queue /\ t.written = c.written
      /\ t.open = c.open /\ t.read = "none" /\ t.writes = c.writes
      /\ t.wait = c.wait /\ t.asked = c.asked /\ t.fault = c.fault
      /\ t.closed = c.closed
  BY <1>1, <1>6 DEF State
<1> HIDE DEF t
<1>9. \A op, codes :
         /\ Some(t.ready, op, codes) <=> Some(c.ready, op, codes) \/ Is(h, op, codes)
         /\ AtMostOne(c.ready, op, codes) /\ ~(Some(c.ready, op, codes) /\ Is(h, op, codes))
               => AtMostOne(t.ready, op, codes)
  BY <1>2, <1>4, <1>8, Queue DEF r
<1>10. \A codes : /\ ~Is(h, "write", codes)
                  /\ ~Is(h, "readTimer", codes) /\ ~Is(h, "writeTimer", codes)
  BY <1>7 DEF Is
<1>11. \A codes :
         /\ Some(t.ready, "write", codes) <=> Some(c.ready, "write", codes)
         /\ AtMostOne(c.ready, "write", codes) => AtMostOne(t.ready, "write", codes)
  BY <1>9, <1>10
<1>12. Guard(c, "writeTimer") => Guard(t, "writeTimer")
  BY <1>8, <1>9 DEF Guard
<1>13. OkWrites(t)
  BY <1>1, <1>8, <1>11 DEF OkWrites
<1>14. ReadLive(c) => ReadLive(t)
  BY <1>3, <1>8, <1>9 DEF ReadLive
<1>15. Numbering(c) => Numbering(t)
  BY <1>8, <1>11 DEF Numbering
<1>16. WriteLive(c) => WriteLive(t)
  BY <1>8, <1>11, <1>12 DEF WriteLive, WriteIdle
<1>17. Good(t) => Live(t)
  BY <1>1, <1>8, <1>14, <1>15, <1>16 DEF Good, Live
<1>18. Calm(c, t)
  BY <1>3, <1>8 DEF Calm, Good, ReadIdle
<1> QED
  BY <1>5, <1>8, <1>13, <1>17, <1>18, InvNext

\* A timer expires.
LEMMA TimerExpiresStep ==
    ASSUME Inv(c), NEW k \in Timer, TimerExpires(k)
    PROVE  Inv(c') /\ Calm(c, c')
<1> DEFINE h == H(k, "ok", "live")
           r == Append(c.ready, h)
           w == [c.wait EXCEPT ![k] = 0]
           t == [c EXCEPT !.wait = w, !.ready = r]
<1>1. c \in State
  BY DEF Inv
<1>2. c.ready \in Seq(Handler) /\ c.wait \in [Timer -> 0..1]
  BY <1>1, Fields
<1>3. h \in Handler
  BY Handlers DEF Code
<1>4. c.wait[k] = 1
  BY <1>2 DEF TimerExpires
<1>5. [i \in 1..c.wait[k] |-> h] = <<h>>
  BY <1>4
<1>6. c.ready \o <<h>> = r
  BY <1>2, <1>3
<1>7. c' = t
  BY <1>1, <1>5, <1>6 DEF TimerExpires, State
<1>8. w \in [Timer -> 0..1] /\ r \in Seq(Handler)
  BY <1>2, <1>3
<1>9. h.op = k /\ Is(h, k, {"ok"}) /\ k # "read" /\ k # "write"
  BY DEF H, Is, Timer
<1>10. \A j \in Timer : w[j] = c.wait[j] \/ Is(h, j, {"ok"})
  BY <1>2, <1>9
<1> HIDE DEF h, r, w
<1>11. /\ t \in State /\ t.ready = r /\ t.queue = c.queue /\ t.written = c.written
       /\ t.open = c.open /\ t.read = c.read /\ t.writes = c.writes
       /\ t.wait = w /\ t.asked = c.asked /\ t.fault = c.fault
       /\ t.closed = c.closed
  BY <1>1, <1>8 DEF State
<1> HIDE DEF t
<1>12. Inv(t) /\ Calm(c, t)
  BY <1>3, <1>9, <1>10, <1>11, PostedStep DEF r
<1> QED
  BY <1>7, <1>11, <1>12

\* The only write completes, the one of the front message; on a closed socket
\* it fails.
LEMMA WriteCompletesStep ==
    ASSUME Inv(c), NEW ec \in Code, WriteCompletes(ec)
    PROVE  Inv(c') /\ Calm(c, c')
<1> DEFINE w == Head(c.writes)
           h == H("write", ec, w.then)
           r == Append(c.ready, h)
           u == c.up /\ ec # "reset"
           l == Tail(c.writes)
           d == IF ec = "ok" THEN Append(c.written, w.msg) ELSE c.written
           t == [c EXCEPT !.writes = l, !.up = u,
                          !.written = d, !.ready = r]
<1>1. /\ c \in State /\ OkWrites(c) /\ (Good(c) => Live(c))
      /\ \A i \in DOMAIN c.written : c.written[i] = i
  BY DEF Inv
<1>2. /\ c.ready \in Seq(Handler) /\ c.writes \in Seq(Write)
      /\ c.written \in Seq(Nat) /\ c.queue \in Seq(Nat) /\ c.asked \in Seq(Then)
  BY <1>1, Fields
<1>3. /\ c.writes # <<>> /\ ec \in {"ok", "eof", "reset"} /\ c.fault = "none"
      /\ ec = "ok" => c.open
  BY DEF WriteCompletes, Running
<1>4. w \in Write /\ l \in Seq(Write) /\ w = c.writes[1]
      /\ (Len(c.writes) = 1 => l = <<>>)
  <2>1. w \in Write /\ l \in Seq(Write) /\ w = c.writes[1]
    BY <1>2, <1>3
  <2>2. Len(l) = Len(c.writes) - 1
    BY <1>2, <1>3
  <2>3. \A x \in Seq(Write) : Len(x) = 0 => x = <<>>
    OBVIOUS
  <2> HIDE DEF w, l
  <2>4. Len(c.writes) = 1 => l = <<>>
    BY <2>1, <2>2, <2>3
  <2> QED
    BY <2>1, <2>4
<1>5. w.then \in Then /\ w.msg \in Nat
  BY <1>4 DEF Write
<1>6. h \in Handler
  BY <1>5, Handlers
<1>7. c' = t
  BY <1>1 DEF WriteCompletes, State
<1>8. u \in BOOLEAN /\ r \in Seq(Handler) /\ d \in Seq(Nat)
  BY <1>2, <1>5, <1>6
<1>9. h.op = "write" /\ h.ec = ec
  BY DEF H
<1>10. ec # "ok" => d = c.written
  OBVIOUS
<1>11. ec = "ok" => d = Append(c.written, w.msg)
  OBVIOUS
<1> HIDE DEF h, r, u, w, l, d
<1>12. /\ t \in State /\ t.ready = r /\ t.queue = c.queue /\ t.written = d
       /\ t.open = c.open /\ t.read = c.read /\ t.writes = l
       /\ t.wait = c.wait /\ t.asked = c.asked /\ t.fault = c.fault
       /\ t.closed = c.closed
  BY <1>1, <1>4, <1>8 DEF State
<1> HIDE DEF t
<1>13. \A op, codes :
         /\ Some(t.ready, op, codes) <=> Some(c.ready, op, codes) \/ Is(h, op, codes)
         /\ AtMostOne(c.ready, op, codes) /\ ~(Some(c.ready, op, codes) /\ Is(h, op, codes))
               => AtMostOne(t.ready, op, codes)
  BY <1>2, <1>6, <1>12, Queue DEF r
<1>14. \A codes : /\ ~Is(h, "read", codes)
                  /\ ~Is(h, "readTimer", codes) /\ ~Is(h, "writeTimer", codes)
  BY <1>9 DEF Is
<1>15. ReadLive(c) => ReadLive(t)
  BY <1>12, <1>13, <1>14 DEF ReadLive, Guard
\* On an open socket.
<1>16. ASSUME c.open
       PROVE  /\ c.queue # <<>> /\ ~Some(c.ready, "write", Code)
              /\ Len(c.writes) = 1 /\ w.msg = c.queue[1]
              /\ Numbering(c) /\ ReadLive(c)
  <2>1. WriteLive(c) /\ Numbering(c) /\ ReadLive(c)
    BY <1>1, <1>3, <1>16 DEF Good, Live
  <2> QED
    BY <1>3, <1>4, <2>1 DEF WriteLive, WriteIdle
<1>17. ASSUME c.open
       PROVE  /\ ~Some(c.ready, "write", {"ok"}) /\ ~Some(c.ready, "write", {"aborted"})
              /\ w.msg = Len(c.written) + 1
  <2>1. ~Some(c.ready, "write", {"ok"}) /\ ~Some(c.ready, "write", {"aborted"})
    BY <1>16, <1>17 DEF Some, Is, Code
  <2>2. /\ Len(c.written) = Len(c.asked) - Len(c.queue) + 0
        /\ \A j \in DOMAIN c.queue : c.queue[j] = Len(c.asked) - Len(c.queue) + j
    BY <1>16, <1>17, <2>1 DEF Numbering
  <2>3. 1 \in DOMAIN c.queue
    BY <1>2, <1>16, <1>17
  <2>4. Len(c.asked) \in Nat /\ Len(c.queue) \in Nat
    BY <1>2
  <2>5. c.queue[1] = Len(c.asked) - Len(c.queue) + 1
    BY <2>2, <2>3
  <2>6. \A m, n \in Nat : m - n + 1 = (m - n + 0) + 1
    OBVIOUS
  <2>7. w.msg = Len(c.asked) - Len(c.queue) + 1
    BY <1>16, <1>17, <2>5
  <2>8. w.msg = Len(c.written) + 1
    BY <2>2, <2>4, <2>6, <2>7
  <2> QED
    BY <2>1, <2>8
<1>18. ASSUME ec = "ok"
       PROVE  /\ Len(d) = Len(c.written) + 1
              /\ \A i \in DOMAIN d : d[i] = i
  <2>1. w.msg = Len(c.written) + 1
    BY <1>3, <1>17, <1>18
  <2>2. /\ DOMAIN d = 1..(Len(c.written) + 1) /\ Len(d) = Len(c.written) + 1
        /\ DOMAIN c.written = 1..Len(c.written) /\ Len(c.written) \in Nat
        /\ \A i \in DOMAIN c.written : d[i] = c.written[i]
        /\ d[Len(c.written) + 1] = w.msg
    <3>1. d = Append(c.written, w.msg)
      BY <1>11, <1>18
    <3> QED
      BY <1>2, <1>5, <3>1
  <2>3. \A i \in DOMAIN d : i \in DOMAIN c.written \/ i = Len(c.written) + 1
    BY <2>2
  <2> QED
    BY <1>1, <2>1, <2>2, <2>3
<1>19. \A i \in DOMAIN t.written : t.written[i] = i
  BY <1>1, <1>10, <1>12, <1>18
<1>20. OkWrites(t)
  <2>1. CASE ec = "ok"
    BY <1>1, <1>3, <1>12, <1>13, <1>16, <1>17, <2>1 DEF OkWrites
  <2>2. CASE ec # "ok"
    <3>1. ~Is(h, "write", {"ok"})
      BY <1>9, <2>2 DEF Is
    <3> QED
      BY <1>1, <1>12, <1>13, <3>1 DEF OkWrites
  <2> QED
    BY <2>1, <2>2
<1>21. ASSUME c.open
       PROVE  Live(t)
  <2>1. Is(h, "write", Code) /\ ~Is(h, "write", {"aborted"})
        /\ (Is(h, "write", {"ok"}) <=> ec = "ok")
    BY <1>3, <1>9 DEF Is, Code
  <2>2. WriteLive(t)
    <3>1. Some(t.ready, "write", Code) /\ ~Some(t.ready, "write", {"aborted"})
      BY <1>13, <1>17, <1>21, <2>1
    <3>2. AtMostOne(t.ready, "write", Code)
      <4>1. AtMostOne(c.ready, "write", Code)
        BY <1>16, <1>21 DEF Some, AtMostOne
      <4> QED
        BY <1>13, <1>16, <1>21, <4>1
    <3>3. t.queue # <<>> /\ t.writes = <<>>
      BY <1>4, <1>12, <1>16, <1>21
    <3> QED
      BY <3>1, <3>2, <3>3 DEF WriteLive
  <2>3. Numbering(t)
    <3>1. /\ \A j \in DOMAIN t.queue : t.queue[j] = Len(t.asked) - Len(t.queue) + j
          /\ Len(c.written) = Len(t.asked) - Len(t.queue) + 0
      BY <1>12, <1>16, <1>17, <1>21 DEF Numbering
    <3>2. Some(t.ready, "write", {"ok"}) <=> ec = "ok"
      BY <1>13, <1>17, <1>21, <2>1
    <3>3. /\ Len(t.asked) \in Nat /\ Len(t.queue) \in Nat
      BY <1>2, <1>12
    <3>4. Len(t.written) = Len(t.asked) - Len(t.queue) + IF ec = "ok" THEN 1 ELSE 0
      <4>1. ec # "ok" => Len(t.written) = Len(c.written)
        BY <1>10, <1>12
      <4>2. ec = "ok" => Len(t.written) = Len(c.written) + 1
        BY <1>12, <1>18
      <4>3. \A m, n \in Nat : m - n + 1 = (m - n + 0) + 1
        OBVIOUS
      <4>4. ec = "ok" => Len(t.written) = Len(t.asked) - Len(t.queue) + 1
        BY <3>1, <3>3, <4>2, <4>3
      <4> QED
        BY <3>1, <4>1, <4>4
    <3> QED
      BY <3>1, <3>2, <3>4 DEF Numbering
  <2> QED
    BY <1>15, <1>16, <1>21, <2>2, <2>3 DEF Live
<1>22. Good(t) => Live(t)
  BY <1>12, <1>21 DEF Good
<1>23. Calm(c, t)
  BY <1>12, <1>13, <1>14 DEF Calm, Good, ReadIdle
<1> QED
  BY <1>7, <1>12, <1>19, <1>20, <1>22, <1>23 DEF Inv

\* stopReceiving() or stopSending() returns on another thread: whatever becomes
\* of closeStatus, reading and writing go on as they did.
LEMMA HalfCloseEndsStep ==
    ASSUME Inv(c), half.saw \in SUBSET Both, half.call \in Both, HalfCloseEnds
    PROVE  Inv(c') /\ (Good(c') => Good(c) /\ (ReadIdle(c) => ReadIdle(c')))
<1> DEFINE d == half.saw \cup {half.call}
           f == [c EXCEPT !.fault = "use_after_free"]
           t == [c EXCEPT !.closed = d]
<1>1. c \in State
  BY DEF Inv
<1>2. c' = f \/ c' = t \/ c' = c
  BY DEF HalfCloseEnds
<1>3. d \in SUBSET Both
  OBVIOUS
<1> HIDE DEF d
<1>4. /\ t \in State /\ t.ready = c.ready /\ t.queue = c.queue /\ t.written = c.written
      /\ t.open = c.open /\ t.read = c.read /\ t.writes = c.writes
      /\ t.wait = c.wait /\ t.asked = c.asked /\ t.fault = c.fault
  BY <1>1, <1>3 DEF State
<1>5. /\ f \in State /\ f.ready = c.ready /\ f.queue = c.queue /\ f.written = c.written
      /\ f.fault = "use_after_free"
  BY <1>1 DEF State, Fault
<1> HIDE DEF t, f
<1>6. CASE c' = f
  <2>1. OkWrites(f) /\ ~Good(f)
    BY <1>5 DEF Inv, OkWrites, Good
  <2> QED
    BY <1>5, <1>6, <2>1, InvNext
<1>7. CASE c' = t
  <2>1. Inv(t)
    BY <1>4, FlagsStep
  <2>2. Good(t) => Good(c) /\ (ReadIdle(c) => ReadIdle(t))
    BY <1>4 DEF Good, ReadIdle
  <2> QED
    BY <1>7, <2>1, <2>2
<1>8. CASE c' = c
  BY <1>8
<1> QED
  BY <1>2, <1>6, <1>7, <1>8

\* What the methods keep is the invariant.
LEMMA KeptStep ==
    ASSUME NEW s, NEW t, Inv(s), Kept(s, t)
    PROVE  Inv(t) /\ Calm(s, t) /\ t \in State
<1>1. OkWrites(s) /\ (Good(s) => Live(s))
  BY DEF Inv
<1>2. /\ t \in State /\ t.written = s.written /\ OkWrites(t) /\ s.closed \subseteq t.closed
  BY <1>1 DEF Kept, Step
<1>3. Good(t) => Live(t)
  BY <1>1 DEF Kept
<1>4. Calm(s, t)
  BY <1>2 DEF Kept, Calm
<1> QED
  BY <1>2, <1>3, <1>4, InvNext

\* Steps beside a handler follow each other.
LEMMA CalmTrans ==
    ASSUME NEW s, NEW t, NEW u, Calm(s, t), Calm(t, u)
    PROVE  Calm(s, u)
BY DEF Calm

\* The CryptoService calls the wrapped handler.
LEMMA RunWrappedStep ==
    ASSUME Inv(c), RunWrapped
    PROVE  Inv(c') /\ Calm(c, c')
<1> DEFINE w == WrappedHandler(c)
           h == H("stop", "ok", "live")
           p == [c EXCEPT !.ready = Append(@, h)]
<1>1. c \in State
  BY DEF Inv
<1>2. c' = releaseWrapped(w) \/ c' = w \/ c' = releaseWrapped(p)
  BY DEF RunWrapped
<1>3. h \in Handler /\ h.op = "stop"
  BY Handlers DEF Code, H
<1> HIDE DEF h
<1>5. Inv(p) /\ Calm(c, p) /\ p \in State
  BY <1>3, PostStep DEF Inv
<1>6. Inv(w) /\ Calm(c, w) /\ w \in State
  BY <1>1, WrappedHandlerKept, KeptStep
<1> HIDE DEF w, p
<1>7. Inv(releaseWrapped(w)) /\ Calm(c, releaseWrapped(w))
  BY <1>6, ReleaseWrappedKept, KeptStep, CalmTrans
<1>8. Inv(releaseWrapped(p)) /\ Calm(c, releaseWrapped(p))
  BY <1>5, ReleaseWrappedKept, KeptStep, CalmTrans
<1> QED
  BY <1>2, <1>6, <1>7, <1>8

\* A client lets its pointer go.
LEMMA UnshareStep ==
    ASSUME Inv(c), Unshare
    PROVE  Inv(c') /\ Calm(c, c')
<1> DEFINE t == [c EXCEPT !.shared = FALSE]
<1>1. c \in State
  BY DEF Inv
<1>2. c' = Released(t)
  BY DEF Unshare
<1>3. /\ t \in State /\ t.ready = c.ready /\ t.queue = c.queue /\ t.written = c.written
      /\ t.open = c.open /\ t.read = c.read /\ t.writes = c.writes
      /\ t.wait = c.wait /\ t.asked = c.asked /\ t.fault = c.fault
      /\ t.closed = c.closed
  BY <1>1 DEF State
<1> HIDE DEF t
<1>4. Inv(t) /\ Calm(c, t)
  BY <1>3, FlagsStep
<1> QED
  BY <1>2, <1>3, <1>4, ReleasedKept, KeptStep, CalmTrans

\* A new connection is idle, and start() reads the first header.
LEMMA InitInv ==
    ASSUME Init
    PROVE  Inv(c)
<1> DEFINE m == [[Made EXCEPT !.attached = TRUE] EXCEPT !.protocol = TRUE]
           t == asyncRead(m, "header")
<1>1. PICK b \in BOOLEAN : c = [t EXCEPT !.shared = b]
  BY DEF Init, start
<1>2. /\ m \in State /\ m.ready = <<>> /\ m.queue = <<>> /\ m.read = "none"
      /\ m.writes = <<>> /\ m.asked = <<>> /\ m.written = <<>>
  <2>1. /\ [k \in Timer |-> 0] \in [Timer -> 0..1]
        /\ <<>> \in Seq(Write) /\ <<>> \in Seq(Nat) /\ <<>> \in Seq(Handler)
        /\ <<>> \in Seq(Then)
    OBVIOUS
  <2> QED
    BY <2>1 DEF Made, State, Fault
<1> HIDE DEF m
<1>3. \A op, codes : ~Some(m.ready, op, codes) /\ AtMostOne(m.ready, op, codes)
  BY <1>2 DEF Some, AtMostOne
<1>4. ReadIdle(m) /\ ReadLive(m) /\ OkWrites(m) /\ WriteLive(m)
  BY <1>2, <1>3 DEF ReadIdle, ReadLive, OkWrites, WriteLive, WriteIdle
<1>5. Numbering(m)
  BY <1>2, <1>3 DEF Numbering
<1>6. /\ Step(m, t)
      /\ Good(t) => (Live(m) /\ ReadIdle(m) => Live(t))
  BY <1>2, AsyncRead
<1> HIDE DEF t
<1>7. t \in State /\ t.written = <<>> /\ OkWrites(t) /\ (Good(t) => Live(t))
  BY <1>2, <1>4, <1>5, <1>6 DEF Step, Live
<1>8. Inv(t)
  BY <1>7 DEF Inv
<1>9. /\ c \in State /\ c.ready = t.ready /\ c.queue = t.queue /\ c.written = t.written
      /\ c.open = t.open /\ c.read = t.read /\ c.writes = t.writes
      /\ c.wait = t.wait /\ c.asked = t.asked /\ c.fault = t.fault
  BY <1>1, <1>7 DEF State
<1> QED
  BY <1>8, <1>9, FlagsStep

\* A step that runs beside a handler keeps the cut, also if it closes reading.
LEMMA CutBeside ==
    ASSUME Cut, Calm(c, c'), UNCHANGED <<checked, half>>,
           (mute' = mute) \/ Noted
    PROVE  Cut'
<1>1. /\ checked \in BOOLEAN /\ half \in Call /\ mute \in BOOLEAN
      /\ half # NoHalf => half.call \in Both
      /\ checked /\ Good(c) => ReadIdle(c)
      /\ mute => ~isReceiving(c) /\ ~checked
  BY DEF Cut
<1>2. checked' = checked /\ half' = half
  OBVIOUS
<1>3. /\ ~isReceiving(c) => ~isReceiving(c')
      /\ Good(c') => Good(c) /\ (ReadIdle(c) => ReadIdle(c'))
  BY DEF Calm, isReceiving
<1>4. mute' \in BOOLEAN /\ (mute' => ~isReceiving(c') /\ ~checked')
  <2>0. mute \in BOOLEAN /\ (mute => ~isReceiving(c') /\ ~checked')
    BY <1>1, <1>2, <1>3
  <2>1. CASE mute' = mute
    BY <2>0, <2>1
  <2>2. CASE Noted
    BY <2>0, <2>2, Zenon DEF Noted
  <2> QED
    BY <2>1, <2>2
<1> QED
  BY <1>1, <1>2, <1>3, <1>4 DEF Cut

\* Every step keeps the invariant.
LEMMA NextStep ==
    ASSUME Inv(c), Cut, Next
    PROVE  Inv(c') /\ Cut'
<1>0. /\ checked \in BOOLEAN /\ half \in Call /\ mute \in BOOLEAN
      /\ half # NoHalf => half.call \in Both
      /\ checked /\ Good(c) => ReadIdle(c)
      /\ mute => ~isReceiving(c) /\ ~checked
  BY DEF Cut
<1>1. CASE RunHandler
  <2>1. /\ Inv(c') /\ c.closed \subseteq c'.closed
        /\ checked' /\ Good(c') => ReadIdle(c')
    BY <1>1, RunHandlerStep
  <2>2. half' = half /\ checked' = Passes(c, Head(c.ready)) /\ Noted
    BY <1>1 DEF RunHandler
  <2>3. Passes(c, Head(c.ready)) \in BOOLEAN /\ (checked' => isReceiving(c))
    <3>1. c.alive \in BOOLEAN
      BY Fields DEF Inv
    <3> QED
      BY <2>2, <3>1, Zenon DEF Passes
  <2>4. ~isReceiving(c) => ~isReceiving(c')
    BY <2>1 DEF isReceiving
  <2>5. mute' \in BOOLEAN /\ (mute' => ~isReceiving(c') /\ ~checked')
    BY <1>0, <2>2, <2>3, <2>4, Zenon DEF Noted
  <2> QED
    BY <1>0, <2>1, <2>2, <2>3, <2>5 DEF Cut
<1>2. CASE Deliver
  <2>1. checked /\ checked' = FALSE /\ Noted
    BY <1>2 DEF Deliver
  <2>2. Inv(c') /\ c.closed \subseteq c'.closed
    BY <1>0, <1>2, <2>1, DeliverStep
  <2>3. PICK act \in ProtocolAct :
           half' = [half EXCEPT !.raced = @ \/ (half.call # "none" /\ act \in HalfCloses)]
    BY <1>2 DEF Deliver
  <2> DEFINE b == half.raced \/ (half.call # "none" /\ act \in HalfCloses)
  <2>4. b \in BOOLEAN
    OBVIOUS
  <2>5. half' = [half EXCEPT !.raced = b]
    BY <1>0, <2>3 DEF Call
  <2> HIDE DEF b
  <2>6. half' \in Call /\ half'.call = half.call
    BY <1>0, <2>4, <2>5 DEF Call
  <2>7. half' # NoHalf => half'.call \in Both
    <3>1. CASE half # NoHalf
      BY <1>0, <2>6, <3>1
    <3>2. CASE half = NoHalf
      <4>1. half.call = "none" /\ half.raced = FALSE
        BY <3>2 DEF NoHalf
      <4>2. b = FALSE
        BY <4>1 DEF b
      <4>3. half' = half
        BY <1>0, <2>5, <4>1, <4>2 DEF Call
      <4> QED
        BY <3>2, <4>3
    <3> QED
      BY <3>1, <3>2
  <2>8. mute' \in BOOLEAN /\ (mute' => ~isReceiving(c') /\ ~checked')
    BY <1>0, <2>1, Zenon DEF Noted
  <2> QED
    BY <2>1, <2>2, <2>6, <2>7, <2>8 DEF Cut
<1>3. ASSUME Inv(c'), Calm(c, c'), UNCHANGED <<checked, half, mute>>
      PROVE  Inv(c') /\ Cut'
  BY <1>3, CutBeside
<1>4. ASSUME NEW ec \in Code, ReadCompletes(ec) \/ WriteCompletes(ec)
      PROVE  Inv(c') /\ Cut'
  <2>1. UNCHANGED <<checked, half, mute>>
    BY <1>4 DEF ReadCompletes, WriteCompletes
  <2> QED
    BY <1>3, <1>4, <2>1, ReadCompletesStep, WriteCompletesStep
<1>5. ASSUME NEW k \in Timer, TimerExpires(k)
      PROVE  Inv(c') /\ Cut'
  <2>1. UNCHANGED <<checked, half, mute>>
    BY <1>5 DEF TimerExpires
  <2> QED
    BY <1>3, <1>5, <2>1, TimerExpiresStep
<1>6. ASSUME NEW then \in Then, PostSend(then)
      PROVE  Inv(c') /\ Cut'
  <2> DEFINE h == H("send", "ok", then)
  <2>1. h \in Handler /\ h.op = "send"
    BY Handlers DEF Code, H
  <2>2. c' = [c EXCEPT !.ready = Append(@, h)] /\ UNCHANGED <<checked, half, mute>>
    BY <1>6 DEF PostSend
  <2> HIDE DEF h
  <2> QED
    BY <1>3, <2>1, <2>2, PostStep
<1>7. CASE PostStop
  <2> DEFINE h == H("stop", "ok", "live")
  <2>1. h \in Handler /\ h.op = "stop"
    BY Handlers DEF Code, H
  <2>2. c' = [c EXCEPT !.ready = Append(@, h)] /\ UNCHANGED <<checked, half, mute>>
    BY <1>7 DEF PostStop
  <2> HIDE DEF h
  <2> QED
    BY <1>3, <2>1, <2>2, PostStep
<1>8. CASE RunWrapped
  <2>1. UNCHANGED <<checked, half>> /\ Noted
    BY <1>8 DEF RunWrapped
  <2> QED
    BY <1>8, <2>1, RunWrappedStep, CutBeside
<1>9. ASSUME NEW way \in Both, HalfCloseBegins(way)
      PROVE  Inv(c') /\ Cut'
  <2>1. /\ c' = c /\ checked' = checked /\ mute' = mute
        /\ half' = [call |-> way, saw |-> c.closed, raced |-> FALSE]
    BY <1>9 DEF HalfCloseBegins
  <2>2. half' \in Call /\ half'.call \in Both
    <3>1. c.closed \in SUBSET Both
      BY Fields DEF Inv
    <3> QED
      BY <2>1, <3>1 DEF Call
  <2> QED
    BY <1>0, <2>1, <2>2 DEF Cut
<1>10. CASE HalfCloseEnds
  <2>1. half # NoHalf /\ half' = NoHalf /\ checked' = checked
        /\ mute' = (~isReceiving(c') /\ (mute \/ ~checked))
    BY <1>10 DEF HalfCloseEnds
  <2>2. half.saw \in SUBSET Both /\ half.call \in Both
    BY <1>0, <2>1 DEF Call
  <2>3. Inv(c') /\ (Good(c') => Good(c) /\ (ReadIdle(c) => ReadIdle(c')))
    BY <1>10, <2>2, HalfCloseEndsStep
  <2>4. mute' \in BOOLEAN /\ (mute' => ~isReceiving(c') /\ ~checked')
    BY <1>0, <2>1, Zenon
  <2>5. NoHalf \in Call
    BY DEF NoHalf, Call
  <2> QED
    BY <1>0, <2>1, <2>3, <2>4, <2>5 DEF Cut
<1>11. CASE Unshare
  <2>1. UNCHANGED <<checked, half, mute>>
    BY <1>11 DEF Unshare
  <2> QED
    BY <1>3, <1>11, <2>1, UnshareStep
<1>12. CASE Over
  BY <1>12 DEF Over, vars, Cut
<1> QED
  BY <1>1, <1>2, <1>4, <1>5, <1>6, <1>7, <1>8, <1>9, <1>10, <1>11, <1>12 DEF Next

\* The inductive invariant: one read and one write at a time, each under its
\* timeout, the write the one of the front of the queue, the messages numbered
\* as they were enqueued, and no read beside the handler past its check.
THEOREM Invariant == Spec => []IInv
<1>1. Init => IInv
  <2> SUFFICES ASSUME Init
               PROVE  IInv
    OBVIOUS
  <2>1. Cut
    BY DEF Init, Cut, NoHalf, Call
  <2> QED
    BY <2>1, InitInv DEF IInv
<1>2. IInv /\ [Next]_vars => IInv'
  <2> SUFFICES ASSUME IInv, [Next]_vars
               PROVE  IInv'
    OBVIOUS
  <2>1. CASE Next
    BY <2>1, NextStep DEF IInv
  <2>2. CASE UNCHANGED vars
    BY <2>2 DEF IInv, Cut, vars
  <2> QED
    BY <2>1, <2>2
<1> QED
  BY <1>1, <1>2, PTL DEF Spec

\* The connection's state keeps its types: every handler of the strand is one
\* of those the class starts or posts, and a timer has at most one wait.
THEOREM TypeCorrect == Spec => []TypeOK
<1>1. IInv => TypeOK
  BY DEF IInv, Inv, Cut, TypeOK
<1> QED
  BY <1>1, Invariant, PTL

\* trySendOrEnqueueThen and keepSending: on an open socket one async_write is
\* outstanding, for the front of the queue, exactly when the queue holds
\* messages, and messages are written in the order they were enqueued.
THEOREM WritesInTurn == Spec => []OneWriteOutstanding
<1>1. IInv => OneWriteOutstanding
  <2> SUFFICES ASSUME IInv
               PROVE  OneWriteOutstanding
    OBVIOUS
  <2>1. c \in State /\ \A i \in DOMAIN c.written : c.written[i] = i
    BY DEF IInv, Inv
  <2>2. c.ready \in Seq(Handler) /\ c.writes \in Seq(Write)
    BY <2>1, Fields
  <2>3. \A i \in DOMAIN c.ready : c.ready[i].ec \in Code
    <3>1. \A i \in DOMAIN c.ready : c.ready[i] \in Handler
      BY <2>2
    <3> QED
      BY <3>1 DEF Handler
  <2>4. \A i : i \in WriteHandlers <=> i \in DOMAIN c.ready /\ Is(c.ready[i], "write", Code)
    BY <2>3 DEF WriteHandlers, Is
  <2>5. ASSUME ~Some(c.ready, "write", Code)
        PROVE  Cardinality(WriteHandlers) = 0
    <3>1. WriteHandlers = {}
      BY <2>4, <2>5 DEF Some
    <3> QED
      BY <3>1, FS_EmptySet
  <2>6. ASSUME Some(c.ready, "write", Code), AtMostOne(c.ready, "write", Code)
        PROVE  Cardinality(WriteHandlers) = 1
    <3>1. PICK i \in DOMAIN c.ready : Is(c.ready[i], "write", Code)
      BY <2>6 DEF Some
    <3>2. WriteHandlers = {i}
      BY <2>4, <2>6, <3>1 DEF AtMostOne
    <3> QED
      BY <3>2, FS_Singleton
  <2>7. ASSUME Running, c.open
        PROVE  /\ Len(c.writes) + Cardinality(WriteHandlers) =
                     IF c.queue = <<>> THEN 0 ELSE 1
               /\ c.writes # <<>> => c.writes[1].msg = c.queue[1]
    <3>1. WriteLive(c)
      BY <2>7 DEF IInv, Inv, Good, Live, Running
    <3>2. Len(<<>>) = 0 /\ (c.writes = <<>> => Len(c.writes) = 0)
      OBVIOUS
    <3>3. CASE c.queue = <<>> /\ WriteIdle(c)
      BY <2>5, <3>2, <3>3 DEF WriteIdle
    <3>4. CASE /\ c.queue # <<>> /\ ~Some(c.ready, "write", Code)
               /\ Len(c.writes) = 1 /\ c.writes[1].msg = c.queue[1]
      BY <2>5, <3>4
    <3>5. CASE /\ c.queue # <<>> /\ c.writes = <<>>
               /\ Some(c.ready, "write", Code) /\ AtMostOne(c.ready, "write", Code)
      BY <2>6, <3>2, <3>5
    <3> QED
      BY <3>1, <3>3, <3>4, <3>5 DEF WriteLive
  <2> QED
    BY <2>1, <2>7 DEF OneWriteOutstanding
<1> QED
  BY <1>1, Invariant, PTL

\* updateReadTimer and updateWriteTimer: no read or write waits for the peer
\* without a timeout running, whatever was cancelled and restarted before.
THEOREM NoUntimedWait == Spec => []TimeoutsArmed
<1>1. IInv => TimeoutsArmed
  <2> SUFFICES ASSUME IInv, Running, c.open
               PROVE  /\ c.read # "none" => Guarded("readTimer")
                      /\ c.writes # <<>> => Guarded("writeTimer")
    BY DEF TimeoutsArmed
  <2>1. ReadLive(c) /\ WriteLive(c)
    BY DEF IInv, Inv, Good, Live, Running
  <2>2. \A k : Guard(c, k) => Guarded(k)
    BY DEF Guard, Guarded, Some, Is
  <2> QED
    BY <2>1, <2>2 DEF ReadLive, WriteLive
<1> QED
  BY <1>1, Invariant, PTL

\* Once stopReceiving() has returned, on whichever thread, or stop() has run on
\* the strand, no handler that has read a message goes on to deliver it, except
\* the one that was past its check then, and unless a half close on another
\* thread loses the bit again.
THEOREM NothingDeliveredLate == Spec => []NoDeliveryOnceClosed
<1>1. IInv => NoDeliveryOnceClosed
  BY DEF IInv, Cut, NoDeliveryOnceClosed
<1> QED
  BY <1>1, Invariant, PTL
=============================================================================
