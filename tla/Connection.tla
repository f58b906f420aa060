----------------------------- MODULE Connection -----------------------------
(***************************************************************************)
(* One Connection<Protocol> of otservpp/protocol/connection.hpp: the       *)
(* socket, its read loop and write queue, the two timeout timers, the      *)
(* strand that serialises their handlers, and the shared_ptr cycle with    *)
(* the protocol object that keeps the connection alive.                    *)
(*                                                                         *)
(* The state is one record and each method of the class an operator from   *)
(* state to state, so that calls nest as they do in the code; a handler    *)
(* run by the strand is one step, or two when it hands a message to the    *)
(* protocol.  Completed operations and calls made from other threads wait  *)
(* in the strand's queue, and once there they can no longer be cancelled:  *)
(* what happens between the completion of an operation and the run of its  *)
(* handler is what this module is about.                                   *)
(*                                                                         *)
(* stopReceiving() and stopSending() do not go through the strand: another *)
(* thread's call begins and ends around the strand's steps, closeStatus is *)
(* a plain char, and of two stores that overlap one is lost.  Only the     *)
(* body handler reads the same bit of closeStatus twice, at its check and  *)
(* after the protocol, and it is cut in two there: a half close that falls *)
(* inside any other handler has the effect it has before or after it.      *)
(*                                                                         *)
(* Logging is left out.  The constructor that switches protocols is        *)
(* not modelled: it calls start() without its argument and cannot be       *)
(* instantiated.                                                           *)
(***************************************************************************)
EXTENDS Integers, Sequences, FiniteSets

CONSTANTS
    MaxMsgs,    \* bound: messages given to send() and sendAndStop()
    MaxReady    \* bound: no read or write completes, and nothing is posted,
                \* when that many handlers are queued

ASSUME BoundAssumption == MaxMsgs \in Nat /\ MaxReady \in Nat

VARIABLES
    c,          \* the connection, and what is under way on it
    checked,    \* the strand is inside a body handler, past its check
    half,       \* another thread's stopReceiving() or stopSending()
    mute        \* history: reading has been closed, with no handler past
                \* its check, and the bit was not lost since

vars == <<c, checked, half, mute>>

Both == {"ReadClosed", "WriteClosed"}
Timer == {"readTimer", "writeTimer"}
Then == {"keepSending", "stop"}          \* what doSend() does afterwards
\* How an operation completes.  "bad": with bytes that are no valid header;
\* "aborted": operation_aborted; "eof" and "reset": any other error.
Code == {"ok", "bad", "aborted", "eof", "reset"}
\* What goes wrong in a step; nothing is claimed about what follows.
Fault == {"none", "assert", "null_protocol", "null_connection",
          "use_after_free", "throw"}

\* The half close another thread is in: which, the closeStatus it read, and
\* whether the strand has half closed the connection meanwhile.
NoHalf == [call |-> "none", saw |-> {}, raced |-> FALSE]

\* A handler in the strand's queue.
H(op, ec, arg) == [op |-> op, ec |-> ec, arg |-> arg]

-----------------------------------------------------------------------------
(* deadline_timer: cancelling aborts the pending waits, and leaves a wait   *)
(* that already expired where it is.                                        *)

cancelTimer(s, k) ==
    [s EXCEPT !.ready = @ \o
                          [i \in 1..s.wait[k] |-> H(k, "aborted", "live")],
              !.wait[k] = 0]

\* updateReadTimer and updateWriteTimer: expires_from_now and async_wait.
updateTimer(s, k) == [cancelTimer(s, k) EXCEPT !.wait[k] = 1]

-----------------------------------------------------------------------------
(* Lifetime *)

\* The ConnectionPtrs: a client's, the protocol's, and the sthis of doSend
\* and of the async_write handlers.  The read and timer handlers, and the
\* lambdas posted by stop() and send(), hold a plain this.
Refs(s) ==
    \/ s.shared
    \/ s.attached
    \/ s.sthis
    \/ s.writes # <<>>
    \/ \E i \in DOMAIN s.ready : s.ready[i].op = "write"

isStopped(s) == s.closed # {}
isReceiving(s) == "ReadClosed" \notin s.closed
isSendind(s) == "WriteClosed" \notin s.closed
isAlive(s) == ~isStopped(s) /\ s.open

\* The socket is closed: its operations complete with operation_aborted.
CloseSocket(s) ==
    [s EXCEPT !.open = FALSE,
              !.read = "none",
              !.writes = <<>>,
              !.ready = @ \o (IF s.read = "none" THEN <<>>
                              ELSE <<H("read", "aborted", s.read)>>)
                          \o [i \in DOMAIN s.writes |->
                                H("write", "aborted", s.writes[i].then)]]

\* ~Connection, with its assertion, then the destructors of the members.
Destroy(s) ==
    IF ~isStopped(s)
      THEN [s EXCEPT !.fault = "assert"]
      ELSE [CloseSocket(cancelTimer(cancelTimer(s, "readTimer"), "writeTimer"))
              EXCEPT !.alive = FALSE]

\* A ConnectionPtr has just been let go.
Released(s) == IF Refs(s) \/ ~s.alive \/ s.fault # "none" THEN s ELSE Destroy(s)

-----------------------------------------------------------------------------
(* stop, abort and the half closes *)

\* Socket::shutdown throws on a socket that is closed or lost its peer.
ShutdownThrows(s) == ~s.open \/ ~s.up

\* Mutant: stop without protocol.reset(): the protocol lives on and keeps
\* its pointer to the connection.
stopKeepingProtocol(s) ==
    LET t == cancelTimer(cancelTimer([s EXCEPT !.closed = Both],
                                     "readTimer"), "writeTimer")
    IN  IF ShutdownThrows(s)
          THEN [t EXCEPT !.fault = "throw"]
          ELSE Released([CloseSocket(t) EXCEPT !.protocol = FALSE])

\* protocol.reset() destroys the protocol, and with it the protocol's pointer
\* to the connection, unless a wrapped handler still holds the protocol.
stop(s) ==
    LET t == cancelTimer(cancelTimer([s EXCEPT !.closed = Both],
                                     "readTimer"), "writeTimer")
    IN  IF ShutdownThrows(s)
          THEN [t EXCEPT !.fault = "throw"]
          ELSE Released([CloseSocket(t) EXCEPT !.protocol = FALSE,
                                               !.attached = @ /\ s.wrapped])

halfClose(s, way) ==
    [s EXCEPT !.closed = @ \cup {way},
              !.fault = IF ShutdownThrows(s) THEN "throw" ELSE @]

\* abort(): protocol->connectionLost(), which drops the protocol's pointer
\* to the connection, then stop().
abort(s) ==
    LET t == Released([s EXCEPT !.attached = FALSE])
    IN  CASE ~s.protocol -> [s EXCEPT !.fault = "null_protocol"]
          [] s.protocol /\ t.fault # "none" -> t
          [] s.protocol /\ t.fault = "none" /\ ~t.alive ->
                [t EXCEPT !.fault = "use_after_free"]
          [] OTHER -> stop(t)

-----------------------------------------------------------------------------
(* Writing.  enc says whether OutgoingMessage::encode succeeds. *)

\* Mutant: doSend without updateWriteTimer.
doSendUntimed(s, then, enc) ==
    IF enc
      THEN [s EXCEPT !.writes = Append(@, [msg |-> Head(s.queue), then |-> then])]
      ELSE LET a == abort([s EXCEPT !.sthis = TRUE])
           IN  Released([a EXCEPT !.sthis = s.sthis])

doSend(s, then, enc) ==
    LET t == updateTimer(s, "writeTimer")
    IN  IF enc
          THEN [t EXCEPT !.writes =
                  Append(@, [msg |-> Head(s.queue), then |-> then])]
          ELSE LET a == abort([t EXCEPT !.sthis = TRUE])
               IN  Released([a EXCEPT !.sthis = s.sthis])

\* The message enters the queue; messages are numbered in that order.
Enqueued(s, then) ==
    [s EXCEPT !.asked = Append(@, then), !.queue = Append(@, Len(s.asked) + 1)]

\* Mutant: every message is sent at once.
SendAtOnce(s, then, enc) ==
    IF ~isSendind(s) THEN s ELSE doSend(Enqueued(s, then), then, enc)

trySendOrEnqueueThen(s, then, enc) ==
    CASE ~isSendind(s) -> s
      [] isSendind(s) /\ s.queue = <<>> -> doSend(Enqueued(s, then), then, enc)
      [] OTHER -> Enqueued(s, then)

keepSending(s, enc) ==
    IF s.queue # <<>> THEN doSend(s, "keepSending", enc)
                      ELSE cancelTimer(s, "writeTimer")

\* The handler of async_write, which owns sthis while it runs.
onWritten(s0, h, enc) ==
    LET s == [s0 EXCEPT !.sthis = TRUE]
        popped == [s EXCEPT !.queue = Tail(@)]
        t == CASE h.ec = "ok" /\ h.arg = "keepSending" -> keepSending(popped, enc)
               [] h.ec = "ok" /\ h.arg = "stop" -> stop(popped)
               [] h.ec = "aborted" -> s
               [] OTHER -> abort(s)
    IN  Released([t EXCEPT !.sthis = FALSE])

-----------------------------------------------------------------------------
(* The handlers a protocol gives to asynchronous operations, and the login  *)
(* protocol's only one: the answer to the decryption of its RSA block.      *)

\* WrappedHandler::operator().  The handler itself, which loads the account
\* and answers the client, is not modelled: onFirstMessage calls
\* stopReceiving() first, isAlive() is false from then on, and every wrapped
\* handler ends in stop().
WrappedHandler(s) ==
    CASE ~s.attached -> [s EXCEPT !.fault = "null_connection"]
      [] s.attached /\ ~isAlive(s) -> stop(s)
      [] OTHER -> s

\* The functor is destroyed, and the sthis in it.
releaseWrapped(s) ==
    Released([s EXCEPT !.wrapped = FALSE, !.attached = @ /\ s.protocol])

\* onFirstMessage: nothing more is read, and the RSA block goes to the
\* CryptoService, whose strand runs the decryption at once when it is idle
\* and later, on another thread, when it is not.  "bad": the message is too
\* short, and handlePacketException stops the connection.
onFirstMessage(s, how) ==
    LET t == halfClose(s, "ReadClosed")
        w == WrappedHandler([t EXCEPT !.wrapped = TRUE])
    IN  CASE t.fault # "none" -> t
          [] t.fault = "none" /\ how = "loginBad" -> stop(t)
          [] t.fault = "none" /\ how = "loginNow" ->
                IF w.fault = "none" THEN releaseWrapped(w) ELSE w
          [] OTHER -> [t EXCEPT !.wrapped = TRUE]

-----------------------------------------------------------------------------
(* Reading *)

\* What a protocol's message handler does to its connection before it returns;
\* the login protocol stops it (a bad checksum) or goes on to onFirstMessage.
Login == {"loginBad", "loginNow", "loginLater"}
ProtocolAct == {"nothing", "send", "sendAndStop", "stop", "stopReceiving",
                "stopSending", "throw"} \cup Login
HalfCloses == {"stopReceiving", "stopSending"} \cup Login

\* c->protocol->handleFirstMessage or handleMessage, on the strand: what it
\* calls runs inline.
sendInMsg(s, act, enc) ==
    CASE ~s.protocol -> [s EXCEPT !.fault = "null_protocol"]
      [] s.protocol /\ act = "nothing" -> s
      [] s.protocol /\ act = "send" -> trySendOrEnqueueThen(s, "keepSending", enc)
      [] s.protocol /\ act = "sendAndStop" -> trySendOrEnqueueThen(s, "stop", enc)
      [] s.protocol /\ act = "stop" -> stop(s)
      [] s.protocol /\ act = "stopReceiving" -> halfClose(s, "ReadClosed")
      [] s.protocol /\ act = "stopSending" -> halfClose(s, "WriteClosed")
      [] s.protocol /\ act \in Login -> onFirstMessage(s, act)
      [] s.protocol /\ act = "throw" -> [s EXCEPT !.fault = "throw"]

\* Mutant: the read loop restarts without its timeout.
readUntimed(s, what) == [s EXCEPT !.read = what]

\* updateReadTimer, then asyncRead of the header (parseIncomingMessage) or of
\* the body the header announces.
asyncRead(s, what) == [updateTimer(s, "readTimer") EXCEPT !.read = what]

\* A whole message was read: the protocol handles it, and unless it stopped
\* the reading the next header is waited for.  An exception aborts.
onBody(s, act, enc) ==
    LET p == sendInMsg(cancelTimer(s, "readTimer"), act, enc)
    IN  CASE p.fault = "throw" -> abort([p EXCEPT !.fault = "none"])
          [] p.fault = "none" /\ ~p.alive -> [p EXCEPT !.fault = "use_after_free"]
          [] p.fault = "none" /\ p.alive /\ isReceiving(p) -> asyncRead(p, "header")
          [] OTHER -> p

\* Mutant: asyncRead's handler does not ask isReceiving().
PassesUnasked(s, h) ==
    s.alive /\ h.op = "read" /\ h.arg = "body" /\ h.ec = "ok"

\* The handler of async_read has read a body and found that reading goes on:
\* nothing stands any more between the message and the protocol.
Passes(s, h) ==
    s.alive /\ h.op = "read" /\ h.arg = "body" /\ h.ec = "ok" /\ isReceiving(s)

\* The handler of async_read, up to the delivery.
onRead(s, h) ==
    CASE h.ec = "aborted" -> s
      [] h.ec \in {"ok", "bad"} /\ ~isReceiving(s) -> s
      [] h.ec = "bad" /\ isReceiving(s) -> abort(updateTimer(s, "readTimer"))
      [] h.ec = "ok" /\ isReceiving(s) /\ h.arg = "header" -> asyncRead(s, "body")
      [] h.ec = "ok" /\ isReceiving(s) /\ h.arg = "body" -> s
      [] OTHER -> abort(s)

\* The handlers of the timers' async_waits.
onTimer(s, h) == IF h.ec = "aborted" THEN s ELSE abort(s)

-----------------------------------------------------------------------------
\* The constructor: a connected socket, nothing read or sent.
Made == [closed |-> {}, open |-> TRUE, up |-> TRUE, alive |-> TRUE,
         protocol |-> FALSE, attached |-> FALSE, shared |-> TRUE, sthis |-> FALSE,
         wrapped |-> FALSE, read |-> "none", writes |-> <<>>, queue |-> <<>>,
         wait |-> [k \in Timer |-> 0], ready |-> <<>>, asked |-> <<>>,
         written |-> <<>>, fault |-> "none"]

\* start(protocol): the first header is read.
start(s) == asyncRead([s EXCEPT !.protocol = TRUE], "header")

\* BasicService::incomingConnection: the connection is made, its protocol is
\* given a pointer to it (and may have passed one on), and it is started.
Init ==
    /\ \E shared \in BOOLEAN :
          c = [start([Made EXCEPT !.attached = TRUE]) EXCEPT !.shared = shared]
    /\ checked = FALSE /\ half = NoHalf /\ mute = FALSE

Running == c.fault = "none"
Room == Len(c.ready) < MaxReady

\* The bound on messages, those posted and not yet enqueued included.
MaySend ==
    Len(c.asked) + Cardinality({i \in DOMAIN c.ready : c.ready[i].op = "send"})
       < MaxMsgs

\* Every handler but an aborted one uses the connection it was started on.
UsesThis(h) == h.ec # "aborted"

\* Whether a message is encoded, and so whether encoding can fail.
MayEncode(h) ==
    \/ h.op = "send"
    \/ h.op = "write" /\ h.ec = "ok" /\ h.arg = "keepSending"

\* Reading is closed and no handler is past its check.
Noted == mute' = (mute \/ (~isReceiving(c') /\ ~checked'))

\* The strand runs its next handler, one that has read a body as far as its
\* check.
RunHandler ==
    /\ Running /\ ~checked
    /\ c.ready # <<>>
    /\ \E enc \in BOOLEAN :
         /\ enc \/ MayEncode(Head(c.ready))
         /\ LET h == Head(c.ready)
                s == [c EXCEPT !.ready = Tail(@)]
            IN  c' = CASE ~s.alive /\ UsesThis(h) ->
                            [s EXCEPT !.fault = "use_after_free"]
                       [] ~s.alive /\ ~UsesThis(h) -> s
                       [] s.alive /\ h.op = "read" -> onRead(s, h)
                       [] s.alive /\ h.op = "write" -> onWritten(s, h, enc)
                       [] s.alive /\ h.op \in Timer -> onTimer(s, h)
                       [] s.alive /\ h.op = "send" -> trySendOrEnqueueThen(s, h.arg, enc)
                       [] s.alive /\ h.op = "stop" -> stop(s)
    /\ checked' = Passes(c, Head(c.ready))
    /\ Noted
    /\ UNCHANGED half

\* The handler goes on: body() hands the message to the protocol.
Deliver ==
    /\ Running /\ checked
    /\ \E act \in ProtocolAct, enc \in BOOLEAN :
         /\ enc \/ act \in {"send", "sendAndStop"}
         /\ act \in {"send", "sendAndStop"} => MaySend
         /\ c' = IF c.alive THEN onBody(c, act, enc)
                            ELSE [c EXCEPT !.fault = "use_after_free"]
         /\ half' = [half EXCEPT !.raced =
                        @ \/ (half.call # "none" /\ act \in HalfCloses)]
    /\ checked' = FALSE
    /\ Noted

\* The peer's bytes, its end of stream or its reset complete the read.
ReadCompletes(ec) ==
    /\ Running /\ Room
    /\ c.read # "none"
    /\ ec \in {"ok", "eof", "reset"} \cup (IF c.read = "header" THEN {"bad"} ELSE {})
    /\ c.up \/ ec = "reset"
    /\ ec \in {"ok", "bad"} => c.open
    /\ c' = [c EXCEPT !.read = "none",
                      !.up = @ /\ ec # "reset",
                      !.ready = Append(@, H("read", ec, c.read))]
    /\ UNCHANGED <<checked, half, mute>>

\* The oldest write completes; on a closed socket it can only fail.
WriteCompletes(ec) ==
    /\ Running /\ (Room \/ ~c.open)
    /\ c.writes # <<>>
    /\ ec \in {"ok", "eof", "reset"}
    /\ ec = "ok" => c.up /\ c.open
    /\ LET w == Head(c.writes) IN
         c' = [c EXCEPT !.writes = Tail(@),
                        !.up = @ /\ ec # "reset",
                        !.written = IF ec = "ok" THEN Append(@, w.msg) ELSE @,
                        !.ready = Append(@, H("write", ec, w.then))]
    /\ UNCHANGED <<checked, half, mute>>

\* A timer's thirty seconds are over.
TimerExpires(k) ==
    /\ Running
    /\ c.wait[k] > 0
    /\ c' = [c EXCEPT !.wait[k] = 0,
                      !.ready = @ \o [i \in 1..c.wait[k] |-> H(k, "ok", "live")]]
    /\ UNCHANGED <<checked, half, mute>>

\* Some other thread has a ConnectionPtr to call the connection with: a
\* client's own, or the protocol's, which its asynchronous handlers use.
Reachable == c.shared \/ c.attached

\* Such a thread calls send() or sendAndStop(): the lambda is posted to the
\* strand.
PostSend(then) ==
    /\ Running /\ Room /\ Reachable
    /\ MaySend
    /\ c' = [c EXCEPT !.ready = Append(@, H("send", "ok", then))]
    /\ UNCHANGED <<checked, half, mute>>

\* ... or stop().
PostStop ==
    /\ Running /\ Room /\ Reachable
    /\ c' = [c EXCEPT !.ready = Append(@, H("stop", "ok", "live"))]
    /\ UNCHANGED <<checked, half, mute>>

\* ... or stopReceiving() or stopSending(), which do not go through the
\* strand, and reads closeStatus (bound: one thread at a time is in such a
\* call).
HalfCloseBegins(way) ==
    /\ Running /\ Reachable
    /\ half = NoHalf
    /\ half' = [call |-> way, saw |-> c.closed, raced |-> FALSE]
    /\ UNCHANGED <<c, checked, mute>>

\* It stores closeStatus with its bit added, over what the strand stored in
\* the meantime, or else the strand's store comes last and the bit is lost.
\* What shutdown throws is thrown at that caller.
HalfCloseEnds ==
    /\ Running /\ half # NoHalf
    /\ \/ ~c.alive /\ c' = [c EXCEPT !.fault = "use_after_free"]
       \/ c.alive /\ c' = [c EXCEPT !.closed = half.saw \cup {half.call}]
       \/ c.alive /\ (half.raced \/ c.closed # half.saw) /\ c' = c
    /\ half' = NoHalf
    /\ mute' = (~isReceiving(c') /\ (mute \/ ~checked))
    /\ UNCHANGED checked

\* The CryptoService's strand comes to the decryption and calls the wrapped
\* handler.  What that dispatches to the connection's strand is run at once
\* when the strand is idle, and otherwise after the handler is gone.
RunWrapped ==
    /\ Running /\ c.wrapped
    /\ \/ /\ (c.ready = <<>> /\ ~checked) \/ ~c.attached
          /\ LET w == WrappedHandler(c)
             IN  c' = IF w.fault = "none" THEN releaseWrapped(w) ELSE w
       \/ /\ c.attached
          /\ c' = releaseWrapped([c EXCEPT !.ready =
                                    Append(@, H("stop", "ok", "live"))])
    /\ UNCHANGED <<checked, half>>
    /\ Noted

\* A client lets its pointer go, once its calls have returned.
Unshare ==
    /\ Running /\ c.shared
    /\ half = NoHalf
    /\ c' = Released([c EXCEPT !.shared = FALSE])
    /\ UNCHANGED <<checked, half, mute>>

\* Nothing is left to do, or nothing is known any more.
Over ==
    /\ ~Running \/ (~c.alive /\ c.ready = <<>> /\ ~c.wrapped)
    /\ UNCHANGED vars

Next ==
    \/ RunHandler
    \/ Deliver
    \/ \E ec \in Code : ReadCompletes(ec) \/ WriteCompletes(ec)
    \/ \E k \in Timer : TimerExpires(k)
    \/ \E then \in Then : PostSend(then)
    \/ PostStop
    \/ RunWrapped
    \/ \E way \in Both : HalfCloseBegins(way)
    \/ HalfCloseEnds
    \/ Unshare
    \/ Over

Spec == Init /\ [][Next]_vars

\* The strand has something to run; so has the CryptoService's.  These are
\* what enables RunHandler or Deliver, and RunWrapped.
StrandBusy == Running /\ (checked \/ c.ready # <<>>)
CryptoBusy == Running /\ c.wrapped

\* Both strands are run for as long as they have handlers, time passes, and a
\* write on a closed socket fails at once: weak fairness of each, spelled out
\* for the strands.
Fairness ==
    /\ <>[]StrandBusy => []<><<RunHandler \/ Deliver>>_vars
    /\ <>[]CryptoBusy => []<><<RunWrapped>>_vars
    /\ \A k \in Timer : WF_vars(TimerExpires(k))
    /\ WF_vars(~c.open /\ \E ec \in Code : WriteCompletes(ec))

FairSpec == Spec /\ Fairness

-----------------------------------------------------------------------------
(* Properties *)

Handler ==
    {h \in [op : {"read", "write", "send", "stop"} \cup Timer, ec : Code,
            arg : {"header", "body", "live"} \cup Then] :
       h.op = "send" => h.arg \in Then}

Write == [msg : Nat, then : Then]

State ==
    [closed : SUBSET Both, open : BOOLEAN, up : BOOLEAN, alive : BOOLEAN,
     protocol : BOOLEAN, attached : BOOLEAN, shared : BOOLEAN,
     sthis : BOOLEAN, wrapped : BOOLEAN, read : {"none", "header", "body"},
     writes : Seq(Write), queue : Seq(Nat), wait : [Timer -> 0..1],
     ready : Seq(Handler), asked : Seq(Then), written : Seq(Nat),
     fault : Fault]

Call == [call : Both \cup {"none"}, saw : SUBSET Both, raced : BOOLEAN]

\* The types of the state.
TypeOK == c \in State /\ checked \in BOOLEAN /\ half \in Call /\ mute \in BOOLEAN

WriteHandlers == {i \in DOMAIN c.ready : c.ready[i].op = "write"}

\* trySendOrEnqueueThen and keepSending start one async_write at a time, and
\* never lose the turn: while the socket is open a write is outstanding, in
\* progress or completed with its handler queued, exactly when the queue
\* holds messages, and it is for the message at the front.  "An outgoing
\* message queue is maintained in order to process messages sequentially":
\* messages reach the wire in the order they were enqueued, none twice and
\* none skipped.
OneWriteOutstanding ==
    /\ Running /\ c.open =>
          /\ Len(c.writes) + Cardinality(WriteHandlers) =
                IF c.queue = <<>> THEN 0 ELSE 1
          /\ c.writes # <<>> => c.writes[1].msg = c.queue[1]
    /\ \A i \in DOMAIN c.written : c.written[i] = i

\* k's wait is pending, or has expired and its handler is queued.
Guarded(k) ==
    \/ c.wait[k] = 1
    \/ \E i \in DOMAIN c.ready : c.ready[i].op = k /\ c.ready[i].ec = "ok"

\* updateReadTimer and updateWriteTimer: no read or write waits for the peer
\* without a timeout running.
TimeoutsArmed ==
    Running /\ c.open =>
       /\ c.read # "none" => Guarded("readTimer")
       /\ c.writes # <<>> => Guarded("writeTimer")

\* Once stopReceiving() has returned, on whichever thread, or stop() has run
\* on the strand, where another thread's is only posted, no handler goes on to
\* hand a message to the protocol, not even one whose bytes had been read
\* before.  Two cases are left out: the handler that was past its check at
\* that moment, whose message is still delivered, and reading that a half
\* close on another thread opens again, by storing a closeStatus it read
\* before.
NoDeliveryOnceClosed == ~(checked /\ mute)

\* No read outlives its timeout: a peer that stays silent is dropped.
ReadsEnd == c.read # "none" ~> (c.read = "none" \/ ~Running)

\* "This breaks the cyclic dependency on connection and protocol": once
\* stopped and let go by its clients, the connection is destroyed.
NoLeak == (~c.protocol /\ ~c.shared) ~> (~c.alive \/ ~Running)

\* ~Connection asserts isStopped().
DestroyedStopped == c.fault # "assert"
=============================================================================
