# Verification of otservpp

TLA+ models of the core of otservpp, a C++ game server library built on
Boost.Asio: its timed tasks, its network connections with the login's first
message, its SQL layer (the pool of connections, the MySQL service's threads, a
prepared query), its messages with their checksum, the hooks that scripts
implement, and amy, the MySQL connector kept in its tree. TLC checks every model
on small instances. Every safety property that a run finds to hold is also proved
with TLAPS, for every value of the constants. Paths below are relative to
`src/otservpp/`.

Contents: 1 inventory, 2 plan, 3 modules and the code they model, 4 runs,
5 findings and observations, 6 bounds, 7 fairness, 8 proofs, 9 what is not
modelled.

## 1. Inventory of the system

| Component | State it keeps | Operations | Interacts with | What is hard |
|---|---|---|---|---|
| Timed tasks (`scheduler.hpp`) | a `deadline_timer` per task, the interval `ms`, the user function, the `shared_ptr`s to the task | `start`, `reschedule`, `cancel`, the interval logic, the `Wrapper` around Lua functions | the `io_service` (handlers), scripts (callers) | a wait that expired and whose handler is queued can no longer be cancelled; the task owns itself through its handlers; user functions throw |
| `callInParallel` (`scheduler.hpp`) | one `io_service` and one thread | post a function, post its result back | scheduler users | order of results, thread start and stop |
| Connection (`protocol/connection.hpp`) | socket, `closeStatus`, message queue, read and write timers, strand, pointer to the protocol | `start`, `send`, `sendAndStop`, `stop`, `stopReceiving`, `stopSending`, `abort`, the read loop, the write chain | protocol (messages, `connectionLost`), clients on other threads | completed operations queued behind a stop, stale timeouts, cyclic ownership, destruction in the middle of a method |
| BasicProtocol, login protocols (`protocol/*`) | pointer to the connection; credentials and key of the session | `handleFirstMessage`, `handleMessage`, `connectionLost`, `WrappedHandler`, the character list | Connection, Crypto, SQL | a decryption on another strand ending after the connection is gone |
| Services (`service/*`) | services by port, acceptors | `registerService`, `start`, `acceptMore`, `incomingConnection` | Connection | an error in the accept loop ends it; several services on one port |
| ConnectionPool (`sql/connectionpool.*`) | deque of idle connections, queue of requests, strand | `getConnection`, `returnToPool`, the `ConnectionPtr` deleter, `connect` | clients on any thread, MySQL connections | reentrant handlers, handlers that throw inside a destructor, order of service |
| MySQL service (`sql/mysqlservice.*`, `sql/connection.hpp`) | work `io_service`, a thread per connection, connection ids | `construct`, `destroy`, `connect`, `prepareQuery`, `runPrepared`, `shutdown_service` | the client's `io_service` (results) | threads that must end with their connections, shutdown, tasks that name a destroyed connection |
| MySQL binding (`sql/mysqltypes.hpp`) | buffers for one statement | bind, fetch, store | MySQL C API | buffers bound before and used after a fetch |
| Messages (`message/*`) | fixed buffer and a cursor | get, add, header, checksum, XTEA framing | Connection, Crypto | lengths at the limits of the buffer and of 16 bits |
| Crypto (`crypto.*`) | RSA and XTEA keys | decrypt, encrypt, Adler-32 | messages | word arithmetic |
| Hooks (`hook/*`, `script/hook/*`) | a Lua function; the application's copy of the hook | hook up, unhook, call, translate the result | protocols, scripts | a value that does not convert in the middle of a table |
| amy (`lib/amy/*`) | a MySQL handle, its flags, the stored result, a cancelation token; one worker thread for all connectors | connect, query, store results, transactions, each blocking and some asynchronous; cancel, close, shutdown | the client's `io_service`, MySQL | cancelling and closing while the worker is about to use the handle; results that must be read in order; transactions that end by a destructor |

Stubs (`account`, `worldmap`, `io/account`, script environment, event
dispatcher), disabled code (`sql/query.h`), error tables, support templates and
the demonstration `main` have nothing to model.

What makes each part correct:

- **Timed tasks**: a task waits for the interval in force; after a `cancel()` that
  came in time the function does not run, but it is told; an armed interval goes
  on; a task nobody holds is deleted.
- **Connection**: one write in progress exactly when messages are queued;
  messages leave in order; no read or write without its timeout; nothing
  delivered once receiving is closed; a stopped connection is destroyed.
- **ConnectionPool**: exclusive lending, nothing lost, nobody waits while a
  connection is idle, first come first served, every request served.
- **MySQL service**: as many threads as connections, no task run on a destroyed
  connection, shutdown ends.
- **Login**: the decryption's handler keeps protocol and connection no longer
  than it needs them.
- **Messages**: reading never leaves the received bytes, what is written can be
  read back.
- **Crypto**: the checksum is exact at every length; decryption undoes encryption.
- **Hooks**: a call gives a whole result, each value in its place, or an
  exception that names the value at fault.
- **amy**: no call on a handle that is closed or was opened anew since the call
  was asked for; a stored result belongs to the query before it; each handler is
  called once; results come in order and none is missed; nothing is committed
  that nobody asked to commit.
- **Services**: one service per port; the accept loop goes on until it fails.
- **callInParallel**: every callback is posted once, and shutdown ends.

## 2. Plan

Modules are ordered by how much of the program rests on them and by how hard
their behaviour is to test.

| Order | Module | Models | State |
|---|---|---|---|
| 1 | `Scheduler`, `SchedulerProofs` | deferred and interval tasks | checked, proved |
| 2 | `Connection`, `ConnectionProofs` | one network connection with its strand, timers and protocol pointer | checked, proved |
| 3 | `ConnectionPool`, `PoolSpec`, `ConnectionPoolProofs` | lending of SQL connections, and what it promises | checked, proved, refinement proved |
| 4 | `MysqlService`, `MysqlProofs` | worker threads, tasks, shutdown | checked, proved |
| 5 | `PreparedQuery`, `MysqlProofs` | one prepared statement on a worker | checked, proved |
| 6 | `InMessage`, `OutMessage`, `MessageProofs` | messages | checked, proved |
| 7 | `Adler32`, `Adler32Proofs` | the checksum | checked, proved |
| 8 | login in `Connection` | the first message, the decryption on the crypto strand, `WrappedHandler` | checked, proved |
| 9 | `AmyService`, `AmyProofs` | amy's worker thread, cancelation and shutdown | checked, proved |
| 10 | `AmyResults`, `AmyProofs` | amy's results, iterators and scoped transactions | checked, proved |
| 11 | `ScriptHook`, `ScriptHookProofs` | hooks, and the translation of a script's results (`object2tuple.hpp`) | checked, proved |

Composition: `ConnectionPool` is refined against `PoolSpec` with
`INSTANCE ... WITH`. `InMessage` is composed with `Connection` by contract:
`Connection` hands over one whole message at a time (its actions
`ReadCompletes`, `RunHandler`, `Deliver`), and `InMessage` starts each message where that
contract leaves it. `Adler32`'s precondition, data that is not empty, is
`InMessage`'s property `SomethingToSum`. `PreparedQuery` is the inside of the
step `FinishTask` of `MysqlService`, and its property `AnsweredOnce` is what
justifies making that one step.

`AmyResults` models the connector's blocking calls, made by the client; `AmyService`
the asynchronous ones. The two share the client library's rules (results have to be
read before the next query) and not the code: the worker's `store_result_handler` is
not the blocking `store_result`, and has its own operator in `AmyService`. The login is not a
module beside `Connection` but part of it, because the wrapped handler, the
protocol and the connection share ownership.

No safety property of a passing run is without its theorem. What the proofs could
still say more about is what the inductive invariants already hold: lemmas on the
connection's nested methods stated as theorems about the class, and the contracts
between modules listed above.

## 3. Modules and the code they model

### Scheduler (`scheduler.hpp`)

| Variable | Code |
|---|---|
| `alive`, `held` | task objects; tasks some client has a `DeferredTaskPtr` or `IntervalTaskPtr` to |
| `ms`, `expiry` | `IntervalTask::ms`; the time set by `expires_from_now` |
| `waits` | pending `async_wait`s on the task's timer |
| `ready`, `running` | completed handlers in the `io_service`; the one that runs |
| `last`, `final` | history: what last happened to the task (armed, cancelled, told of its cancel, missed by a cancel, failed, threw); cancels made while no expired wait was queued |

`callAfter`, `callEvery`, `Start`, `Reschedule`, `RescheduleWith`, `Cancel` and `Release` are user
code's calls. `Expire` is the reactor, `Dispatch` the start of a handler with the
interval logic that re-arms before the user's function runs, `Return` and `Throw`
its ends. `schedule` is `expires_from_now` followed by `async_wait`: the pending
wait becomes an aborted handler, a wait that has already expired stays queued.
That difference is what the module is about. The whole task system runs on one
thread (a `deadline_timer` is not thread safe), so a handler is not preempted, but
user code may act inside it.

### Connection (`protocol/connection.hpp`, `protocol/basicprotocol.hpp`, `service/service.hpp`)

The state is one record `c` and every method of the class an operator from state
to state, so that nested calls (`abort` calls `connectionLost`, which drops the
last pointer, which runs the destructor) nest in the model as in the code. A step
is one handler run by the strand (`RunHandler`), the completion of an operation
(`ReadCompletes`, `WriteCompletes`, `TimerExpires`), a call from another thread
(`PostSend`, `PostStop`) or a client's pointer going away (`Unshare`).
`Refs` lists exactly the handlers that own the connection: the write handlers do,
the read and timer handlers hold a plain `this`. A step that would use a freed
object, dereference the empty protocol pointer, fail an assertion or let an
exception out ends in a `fault`; the properties speak of the behaviour up to it.

`stopReceiving()` and `stopSending()` do not go through the strand. Two things
follow. The handler of a body is cut in two, the check of `isReceiving()` (275, in
`RunHandler`, which sets `checked`) and the delivery (251, `Deliver`), and a half
close may fall between. And another thread's half close is two steps,
`HalfCloseBegins`, which reads the plain `char closeStatus`, and `HalfCloseEnds`,
which stores it with its bit: what the strand stored in between may be overwritten,
or the bit lost. `half` is the call that is under way and `mute` history: reading
has been closed with no handler past its check. No other handler needs the cut,
because it reads a bit of `closeStatus` once.

The login (`protocol/accountloginprotocol.cpp`, `basicloginprotocol.h`,
`crypto.h`) is one of the things a protocol does with a message
(`onFirstMessage`): it stops receiving and hands a wrapped handler to the crypto
service. `loginNow` is a crypto strand that is idle and runs it in place,
`loginLater` one that is not: the handler then runs as `RunWrapped`, at any later
moment, with `wrapped` recording that it holds the protocol. `WrappedHandler` asks
`isAlive()`, which after `stopReceiving()` is false, so its only outcome is
`stop()`; the lookup of the account behind it has no step in the model.

### ConnectionPool and PoolSpec (`sql/connectionpool.h`, `.cpp`)

`pool`, `requestQueue` and `strand` are the members of the class; `held` the
`ConnectionPtr` of each client; `active` the stack of client handlers running
inside the pool, because a handler may drop its connection, ask for another or
throw before it returns. `GetConnection` and `Release` are `strand.dispatch` with
both outcomes: in place or posted. `HandlerThrows` unwinds: the `ConnectionPtr`
gives its connection back, and a throw out of a deleter terminates (`fault`).
`PoolSpec` is the class comment as a specification: free connections, requests
first come first served, one owner each.

### MysqlService (`sql/mysqlservice.h`, `.cpp`)

`construct`, `destroy`, `connect`, `prepareQuery` and `runPrepared` are the clients'
operations, the last three a `post` that differs in what the task refers to. `TakeTask`,
`FinishTask`, `CheckFlag`, `StoppedOut`, `CheckStopped`, `RemoveThread` and
`EndThread` are the steps of a worker's loop between which other threads can act;
`stop`, `join_all` and `Joined` the shutdown. `terminatedUnique` is the
`shared_ptr` flag whose last copy tells a thread that its connection is gone.
`InUse` flags the destruction of a connection while any task of it runs, also one
that reaches its handle through the statement only.

### PreparedQuery (`sql/mysqlservice.h`, `sql/mysqltypes.hpp`)

One `runPrepared` on its worker: `Validate`, `Exec`, `BindOutput`, `Reserve`,
`FetchRow`, `FetchEnds`, each with the failures of the C calls it makes. `reg` are
the registers a fetch fills; `Stores` and `Stored` are `storeOneResult` and
`storeResult`, which work from the last column to the first. Cells are abstracted
to what the binding tells apart (a value, a null, a number that does not fit, a
text, an empty text). `StoreOutOfMemory` is `bad_alloc` while a text is stored, which
nothing but the worker's thread catches, and which ends the process.

### InMessage (`message/basicinmessage.hpp`, `standardinmessage.h`, `standarinmessage.cpp`)

`pos` and `size` are the members, `recv` how many bytes the socket has filled,
`chunk` the bytes the last member function touched. Each public member function is
an action that a protocol may call in any order; numbers taken from the bytes are
chosen from `Numbers`, the size the peer encrypts in front of its plain text
included: the code compares it with the buffer only (`standarinmessage.cpp:49`), and
`overstated` remembers that it went beyond the message. `rsaDecrypt` returns at once
and `rsa` counts the blocks that are with the crypto service. `RsaDone` is the end of
one, at any later moment, on whatever the message is then; every member function may
be called, and the next message received, while a block is away, which `disturbed`
remembers. `RsaRaces` is a block that ends at the same moment as a call on another
thread, a data race.

### OutMessage (`message/basicoutmessage.hpp`, `standardoutmessage.*`, `protocol/standardprotocol.hpp`)

`parts` is the set of everything written, with its place, which is below 0 for what
is written in front of the vector. `addHeader`, `xteaEncrypt` and `encode` come in
the order `StandardProtocol::send`, `sendUnencrypted` and the connection call them.
`Add`, `addString` and `addCString` may come at any time before `encode`, as in the
test `AddsDataAfterPrefixes`; `late` remembers one behind the header, which the
comment at `standardoutmessage.h:45` asks not to make.

### Adler32 (`crypto.cpp`)

The loops of `adler32`, one byte per step (`UnrolledByte`, `TailByte`), with the
block length, the modulus and the word width as constants. `sumA` and `sumB` are
history: the sums of the checksum's definition, never reduced and never cut.

### AmyService (`lib/amy/mysql_service.hpp`, `impl/mysql_service.ipp`, `basic_connector.hpp`)

`impl` holds what a connector's `implementation` decides by (open or not, and
which query's results it has), `ops` the operations asked for, `queue` and
`running` the worker's `io_service` and the call it is making, `posted` the
handlers waiting in the client's. `expired` is the weak pointer to the cancelation
token; `stale` is history and says that the handle was closed since. The worker
takes an operation in two steps, `WorkerBegins`, which looks at the token, and
`WorkerEnds`, which ends the blocking call and posts the handler; clients act in
between. So is a close: `CloseHandle` is `mysql_close`, `CloseReturns` the
`free_result()` and the `cancel()` that come after it, and the worker can look at the
token in between. A call that is under way when `mysql_close` is made, or begins
before the close has returned, is a data race and the model's only `fault`.
`store_result_handler` has the handler's outcomes: the first result of a query, an
error, `no_more_results`, or, where `mysql_store_result` stands for
`mysql_next_result`, an empty set with no error. Clients use a connector from one
thread at a time. `HasWork` is the `io_service::work` in every handler object, which keeps
the client's `run()` from returning.

### AmyResults (`impl/mysql_service.ipp`, `result_set.hpp`, `basic_results_iterator.hpp`, `basic_scoped_transaction.hpp`, `detail/mysql_ops.hpp`)

One connector used with blocking calls. The operators named `mysql_*` are the
client library with the wrappers of `mysql_ops`, modelled from the way amy uses
them (a result has to be read before the next command; a lost connection rolls
back). The service's functions are operators on the state with the `error_code`
in `e`; the actions are the connector's calls, in the form that takes an
`error_code` and the form that throws, with an iterator and a scoped transaction
around them. A command has one of three fates: carried out, refused on a session that
lives on, or the session is lost. Scopes may be nested: `outer` holds the `committed_`
of the scopes around the innermost. `clean` and `out` are history: no call has failed
since the last query, and the results it has delivered; so are `asked` (a commit was
asked for), `ended` (a scope inside another has ended) and `refused`. Clients follow
one rule: no connect or close inside a scope.

### ScriptHook (`script/hook/*`, `hook/hook.hpp`, `script/scriptexcep.hpp`)

`func` is the script hook's function, `app` the one in the application's
`hook::Hook`, which copies the script hook. `call` is a call: the script runs
(`ScriptReturns`, `ScriptFails`), then its value is translated
(`TranslateSimple`, `TranslateKeyed`). A table's values are put one per step, from
the last position to the first (`PutSingle`, `PutVector`, `PutRow`, `PutCol`),
with the position `pos` and the key recorder `krec` kept apart as in the
templates. An element of the result is the path of keys its value was read from. A
vector's rows are the sequence in which `luabind::iterator` visits them, each with its
key in the table; the index put into the exception is counted beside the iterator, as
in the code (`object2tuple.hpp:183`-`188`), and need not be that key.

## 4. Runs

Runs that pass:

| Run | Properties | What it shows |
|---|---|---|
| `scheduler_tasks` | `IntervalInForce`, `CancelIsFinal`, `IntervalGoesOn`, `CancelAnswered`, `Reclaimed` | under every order of calls, expiries and handlers a pending interval is the one in force, a cancel made while no expired wait is queued is final, an armed interval goes on until a wait ends in error or its function throws, a cancel that returned true is told to the function, and a task nobody holds is deleted |
| `connection` | `OneWriteOutstanding`, `TimeoutsArmed`, `NoDeliveryOnceClosed`, `ReadsEnd`, `NoLeak` | the write chain never doubles and never stalls and keeps messages in order, every pending read and write has a timeout, no handler passes its check once receiving was closed; a silent peer is dropped; a stopped connection its clients let go is destroyed, also with a login's decryption under way |
| `pool_lending` | `Exclusive`, `NoIdleWhileWaiting`, `PromiseKept`, `Served` | with nesting and throwing handlers on four clients and two connections the pool implements `PoolSpec` and serves every request |
| `mysql_threads` | `EveryConnectionHasAThread`, `NoThreadAfterShutdown`, `TasksDone`, `ShutdownEnds` | threads follow their connections, tasks of living connections are run, shutdown ends but for one race that the property names |
| `prepared_run` | `AnsweredOnce`, `ResultFreed`, `Complete` | one answer on every path of failures, no stored result left behind but by `ResultIsTooBig`, complete row sets |
| `in_message_cursor` | `OnlyReceived`, `BodyFits`, `SomethingToSum`, `NoReread` | over two messages in one object, with any numbers in the peer's bytes and RSA blocks coming back at any moment, no function leaves the buffer's body, nor the received bytes but in the two cases the property names; the body fits, the checksum has data, and a message is read forwards |
| `out_message_layout` | `Intact`, `Recoverable` | writes at both ends of the buffer do not overlap, whenever values are added, and all but `encode()`'s `size_t` lie in the vector; when nothing is added behind the header the receiver can tell the values from the padding, and what is encrypted is whole frames |
| `adler32_sum` | `NoWrap`, `InsideData`, `Checksum` | the deferred reduction is safe and the result is the checksum |
| `amy_service` | `OwnSession`, `PairsWithItsQuery`, `NoneLeftBehind`, `EveryOpAnswered` | with a connector closed, reopened, cancelled and destroyed at any moment, the worker makes no call of a session whose close has returned; a store finds its own query's results; `run()` returns after every handler was called; every operation is answered |
| `amy_results` | `InOrder`, `NoneMissed`, `UnaskedNotKept` | results of several statements come in order and none is missed; a transaction nobody committed keeps nothing, whichever call fails, but for a destructor's rollback that is refused and for scopes nested in it that have ended |
| `script_hook` | `AllOrError`, `Culprit` | for every table a script can return, a call gives the whole tuple with each value in its place, or throws and names the value that stopped it, a row by its turn in the iteration |

The runs with `FairSpec` check safety and liveness together. Type invariants are
proved. Deadlock is
checked in all runs but `script_hook`, where a hook that calls a null object ends
the process; the actions `Over`, `Done` and `Terminated` mark the states in which
the program has really ended.

One run shows a disagreement: `connection_dtor_assert` (`DestroyedStopped`).

## 5. Findings and observations

One finding has a run whose counterexample shows it. **A connection may be
destroyed while it is open** (`protocol/connection.hpp:331`): `abort()` tells the
protocol, which drops the last pointer, before it calls `stop()`. The destructor
asserts `isStopped()` (line 111), which is false.

Observations made while modelling, without a run of their own. The models contain
these behaviours unless the text says otherwise:

- Scheduler. `cancel()` returns true when it cancelled a newer wait although an
  expired one is still queued and will run (`scheduler.hpp:17`, `22`). An interval
  task is interrupted neither by an exception nor by an error of its wait (`101`-`103`
  say otherwise; the re-arming at `124` comes first and leaves out aborted waits
  only). `IntervalGoesOn` asks nothing after either.
- Connection. A timer's handler queued before the read that renews it still aborts
  the connection (`297`, `324`). `sendAndStop()` behind queued messages sends its
  message and does not stop, against its comment at `192` (`347`-`348` drop the
  continuation). `isStopped()` is true when only one direction is closed (`161`).
  A write handler that runs after `stop()` starts a write on the closed socket
  (`389`). `stop()` throws out of `shutdown()` when the peer has reset the
  connection, and then leaves the socket and the protocol as they are (`131`).
  A protocol that stops its connection inside a message handler, when nobody else
  holds it, destroys it, and the read loop then asks the freed object (`252`).
  `stopReceiving()` on another thread may return while a handler is past its check:
  one more message is then delivered (`275`, `251`). `closeStatus` is a plain `char`
  written from any thread (`137`-`148`): a half close that overlaps with one on the
  strand, or with `stop()`, can lose a bit, its own or the strand's, and so open a
  direction again. A thread that is in such a call when the strand drops the last
  pointer uses a freed object (`HalfCloseEnds`).
- Login. `onFirstMessage` calls `stopReceiving()`, after which `isAlive()` is
  false: no handler wrapped with `wrapHandler` runs its function, and every login
  ends in `stop()` unanswered (`basicprotocol.hpp:50`). When a timeout or a failed
  write detached the protocol meanwhile, the wrapped handler calls through a null
  pointer. `closeWithError` neither sends nor stops
  (`accountloginprotocol.cpp:83`). `loadAccount(msg.getString(), msg.getString())`
  leaves the order of the two reads open (`19`); not reached, so not modelled.
- ConnectionPool. A queued request's handler that throws inside a deleter
  terminates the process (`connectionpool.cpp:26`). `connect()` names a class
  template without its argument and cannot be instantiated.
- MySQL service. Two tasks of one connection may run at once, on two threads
  (`mysqlservice.h:70`-`76`). A thread whose connection is gone stays in
  `run_one()` until some task arrives. `join_all` can wait for a thread that
  waits for the group's lock in `remove_thread` (`JoinDeadlock`).
- Prepared query. A row that cannot be stored is answered with success: the code
  comes from `mysql_stmt_errno`, which is 0 because no MySQL call has failed
  (`mysqlservice.h:290`), while `mysqltypes.hpp:278` says it must be reported. The numbers of a `RowSet` are fetched into a holder and the new
  row's stay unset. The length of a null string is that of the row before, which
  stores zero bytes. After a `Row` is fetched the remaining rows stay unread.
  `ResultIsTooBig` keeps the stored result. Running out of memory while a text is
  stored ends the process.
- Messages. The message object is reused and nothing takes its cursor back to 0, so
  that the second message's size is read where the protocol stopped reading the
  first (`standarinmessage.cpp:11`). `encode()` prefixes the packet's size with the eight bytes of
  `size_t`, where `standardoutmessage.h:10` counts two, so that it begins six bytes
  in front of the vector; `addPrefix`'s assertion compares an unsigned number with
  0 (`Intact` names this write as its exception). The size a peer encrypts is not
  compared with the frames received (`standarinmessage.cpp:49`): bytes behind them,
  left in the buffer by an earlier message, can then be read as the message's. The
  end of an RSA block sets size and cursor of whatever the message is by then
  (`standardinmessage.h:45`). `setRemainingSize`'s assertion (`basicinmessage.hpp:131`) leaves out the
  header and fails for the two largest accepted sizes. A `std::string` of 2^16
  characters or more is copied whole behind a length cut to 16 bits. The smallest
  body by the comment at `standarinmessage.cpp:13`, a checksum and an XTEA frame,
  has 12 bytes and not 8.
- amy. `close()` and the destructor race with a call the worker is making, whose
  token was looked at before, and with one it begins meanwhile, because `cancel()`
  (`impl/mysql_service.ipp:333`) comes after `mysql_close` (`327`).
  `store_result_handler` calls `mysql_store_result` where `mysql_next_result` is
  needed (`493`), so asynchronously only a query's first result can be had, and a
  later store succeeds with an empty set when there is more. A failed query
  resets `first_result_stored` all the same: the next store delivers what an
  older query left unread. `store_result` trusts the `error_code` it is given for
  a query's first result. `connect()` on a connected handle fails and still
  replaces the flags `has_more_results()` decides by. `assign` leaves a result set
  without its vector when reading the rows fails.
  `basic_scoped_transaction::commit(ec)` sets `committed_` to whether there *was* an
  error (`29`): after a failed commit the destructor does not roll back, and its
  `autocommit(true)` commits. The destructor drops the error of its own rollback
  (`44`): when the server refuses it and the session lives on, `autocommit(true)`
  commits what should have been undone. The destructor of a scope inside another
  switches autocommit on for the rest of the outer one, whose later writes are kept
  at once. That call also throws out of the destructor when
  results are unread (`46`). The iterator is an end iterator when there *are* more
  results (`basic_results_iterator.hpp:51`). `execute_handler` asks for the
  affected rows when the query failed.
- Hooks. `hook::Hook` copies the script hook: functions hooked up, replaced or
  unhooked later do not reach the application, and a `Hook` made too early calls a
  null object. `objectCast` makes a `std::string` of `lua_tostring`'s result, which
  may be null: the `std::logic_error` carries no key and is not logged. A tuple in a
  vector that is not a table is reported under its last key. The index of a row in an
  exception is its turn in the iteration, in a table not keyed 1..n in that order
  another row's key or none (`object2tuple.hpp:185`).

## 6. Bounds

| Bound | Value | Why it is enough |
|---|---|---|
| `Scheduler`: `Deferred`, `Interval` | one each | tasks share only the ready queue, whose order two tasks already permute; the proofs hold for any sets |
| `Scheduler.MaxReady` | 2 | user code stops arming there; expired and aborted handlers of both tasks still queue behind each other |
| `Millis` | two delays | tells the interval in force from an older one |
| `Connection.MaxMsgs`, `MaxReady` | 2, 2 (the finding's run: 2, 3) | one other thread at a time is in a half close; two messages make the queue non-empty behind a write; two completed operations queue, with the aborted handlers that a stop or a renewed timer adds beyond the bound, in every order |
| pool: clients, connections | 4, 2 | two clients served, one waiting and one arriving |
| MySQL: connections, `MaxTasks` | 3, 2 | a thread can run another connection's task, with a third constructed or destroyed meanwhile |
| `PreparedQuery`: columns, `MaxRows`, `MaxSize` | 3, 2, 2 | number and text columns on both sides of a failing one; a row before the failing row; a set at its limit |
| `InMessage`: `MaxBody`, `Numbers`, `Widths`, `MaxMessages`, `MaxBlocks` | 160, eight numbers, one width, 2, 2 | room for one RSA block; numbers on both sides of each limit (7/8, 158/160/161) and short of a block (140), so that an encrypted size can understate and overstate a message; the second message meets a used cursor and blocks of the first; two blocks can end in turn |
| `OutMessage`: `Lengths`, `MaxAdds` | 0, 3, 65535, 65536; 3 | both sides of the 16 bit limit; values before the header, behind it and behind the padding |
| `Adler32`: `Base` 7, `Nmax` 4, bytes 0..3, 64-valued words, `Unroll` 3, `MaxLen` 13 | scaled | as in the code, `Nmax` is the largest block that fits the word; three full blocks and a rest, lengths with and without a tail |
| `AmyService`: `Conns`, `MaxOps` | 1, 3 | a query, its store and an operation before, between or of a later session, with every cancel, close and reopen around them; connectors share only the worker's queue, where another's operation delays and does nothing else, and the theorems hold for any number |
| `AmyResults`: `MaxResults`, `MaxScopes` | 2, 2 | a first and a later statement, each with rows, without, a write or an error: the code treats the first result and all others differently, and nothing else; a scope inside another; the theorems hold for any number |
| `ScriptHook`: `Keys`, `Inner`, `RowKeys`, `MaxRows` | single, vector, single; 2; {1, 2, 7}; 2 | a vector between single values, two rows of two columns: every neighbour a value could be confused with; rows keyed in turn, out of turn, and with a key that is no index |

No state constraint and no symmetry is used.

## 7. Fairness

- **Scheduler**: weak fairness of `Dispatch` and of a handler's end, because the
  thread runs `io_service::run` and user functions are expected to return; strong
  fairness of `Expire`, because the reactor is polled between handlers and time
  does not stop.
- **Connection**: weak fairness throughout: of the strand (`RunHandler` or
  `Deliver`) as long as it has handlers, of the crypto service's strand
  (`RunWrapped`), of `TimerExpires`, and of a write on a closed socket, which fails at
  once. For the two strands the formula is spelled out with the condition that
  enables them. None for the peer, which may stay silent for ever, and none for other
  threads.
- **ConnectionPool**: the strand is run, handlers return, and a client that has a
  connection gives it back ("must be returned to the pool").
- **MysqlService**: threads are scheduled and MySQL answers; a shutdown that began
  goes on. None for the clients.
- **AmyService**: the worker runs its queue and MySQL answers; the client's thread
  is in `run()` until it stops it. None for what clients ask.

## 8. Proofs

Assumptions are the `ASSUME`s of the modules. They say that bounds are natural
numbers, that constant sets are disjoint where the code's types are, that `Order`
lists each connection once and, for `Adler32`, how its numbers relate.

`MysqlProofs`, `MessageProofs` and `AmyProofs` each hold the proofs of two
components that work together and extend both of their modules. For that reason
`PreparedQuery`, `OutMessage` and `AmyResults` name their specifications
`QuerySpec`, `OutSpec` and `ResultsSpec`.

| Module | Theorems | Argument |
|---|---|---|
| `SchedulerProofs` | `TypeCorrect`, `InForce`, `FinalCancel` | the checked invariant with `FinalQuiet`: a task whose cancel was final has no pending wait and only aborted handlers queued. Without it `CancelIsFinal` depends on the past |
| `ConnectionProofs` | `TypeCorrect`, `WritesInTurn`, `NoUntimedWait`, `NothingDeliveredLate` | while the socket is in use (`Good`) the connection is `Live`: one read and one write at most, counting the handlers that are queued, each under a timer that waits or whose handler is queued, and the messages numbered without a gap. A write is counted in three places (the operation, its queued handler, the front of the queue), which the property does not tell apart. Because methods nest, each has a lemma relating the states before and after it (`Step`, `Kept`, `Ran`), and the lemmas nest as the calls do. `OkWrites` must hold on a closed socket too: the handler of a write that succeeded pops the queue whether the socket is open or not. `Cut` is for the handler that is past its check: it has the only read there is, and there is none while `mute` holds, which implies that reading is closed |
| `ConnectionPoolProofs` | `TypeCorrect`, `Safety`, `Busy`, `Refinement` | one invariant of a pool, a queue, posted lambdas and holders, parameterised by the connection in flight, because a lambda starts after its connection has left the strand or the client's hands; `RequestsIn` (a waiting client has no connection and no second request) makes it inductive. Refinement: a return posted and not run counts as free, and every step is one of `PoolSpec`'s or a stutter |
| `MysqlProofs`, of the service | `PoolTypeCorrect`, `ThreadKept`, `QuietShutdown` | a thread is in the group until it has removed itself or found the service stopped (`GroupInv`) |
| `MysqlProofs`, of a query | `TypeCorrect`, `OneAnswer`, `Freed`, `Completeness` | `PathInv` ties answers, failures and the stored result to the point reached, `RowsInv` the rows to what was fetched |
| `MessageProofs`, incoming | `Invariance`, `Reading`, `Filling`, `Summing`, `Forwards` | `Cursor`: where cursor and end lie in each phase, relative to the received bytes as long as nothing was overstated or disturbed and to the buffer always. `OnlyReceived` alone does not say why the next step stays inside |
| `MessageProofs`, outgoing | `OutTypeCorrect`, `NothingOverwritten`, `Decryptable` | while values are added the last one ends the vector (`Building`), and once there is a header its number is the vector's size without the prefix as long as nothing was added late (`Headed`). `Intact` says that the parts tile the buffer, so that two lemmas, on a part put behind the others and one put in front, carry it through every action. Neither property speaks of a sum of sizes, which would need an induction |
| `Adler32Proofs` | `CodeNumbers`, `NeverWraps`, `ReadsTheData`, `Exact`, `TypeCorrect` | after `n` bytes of a block a and b are below bounds linear and quadratic in `n`, which for `n = Nmax` is `BlockAssumption`; a and b differ from the definition's sums by multiples of `Base`. `CodeNumbers` shows that 5552, 65521 and 2^32 meet the assumption and that 5553 would not |
| `AmyProofs`, the service | `TypeCorrect`, `CallsInOwnSession`, `StoresPair`, `AllCalled` | `SessionInv`: an operation in the queue that was not cancelled belongs to the session its connector is in, or to one whose close has not returned, because close and destruction cancel what is queued before they return; `PlaceInv`: an operation is with the worker, completed or called, and in one place only; `PairsWithItsQuery` needs the order of the queue, and which operations the worker has served, to say that the last query asked for is the last one made |
| `AmyProofs`, blocking calls | `ResultsTypeCorrect`, `DeliveredInOrder`, `NoResultMissed`, `NothingKeptUnasked` | `Delivered`: how many results were delivered, relative to the library's current result and to `first_result_stored`, as long as no call failed; `Scope`: inside a scope autocommit is off. What keeps a write nobody asked for is autocommit, and a rollback that fails without being refused leaves a connection on which the destructor's `autocommit(true)` fails too |
| `ScriptHookProofs` | `TypeCorrect`, `WholeOrThrown`, `KeyOfTheCulprit` | `AllOrError` is about the end of a call: the invariant says at every point which positions, rows and columns were put, and that they hold what they should. The recorders are tied to the cursor of the loop they belong to, so that the key of an exception is that of the value being put |

Only model-checked: the liveness properties (`IntervalGoesOn`, `CancelAnswered`,
`Reclaimed`, `ReadsEnd`, `NoLeak`, `Served`, `TasksDone`, `ShutdownEnds`, `EveryOpAnswered`),
which rest on fairness, and the run that shows a disagreement, whose property does
not hold. In `ScriptHook` and `PreparedQuery` the proofs are about the loops of the
code, step by step; that the recursion of the C++ templates unrolls to these loops
is the model's.

## 9. What is not modelled

- `callInParallel`: threads that run posted functions, with nothing shared with the
  timed tasks; `AmyService` and `MysqlService` are the same pattern with more to go
  wrong.
- `ServiceManager`: registration and an accept loop that ends at its first error,
  sequential (a port whose accept fails once, or whose `incomingConnection` throws,
  accepts nothing any more). The XTEA rounds: word arithmetic without state.
- The account lookup and the character list of the login, which the code never
  reaches (section 5); `GameLoginProtocol` and `io::Account` are stubs.
- Of amy: `async_execute`, `set_option` (whose throwing form does not compile), the
  library's initialisation, value and row types, error tables.
- RSA is OpenSSL's; only the length of its block and its asynchronous end matter
  to `InMessage`.
- What the MySQL server answers, beyond which call fails and which rows come.
- Pool `connect()`, nullable wrappers, several parameters, batches and the
  connection's protocol switching constructor: templates that cannot be
  instantiated as written, or parts left unimplemented.
- Script adapters, stubs, disabled code, error code tables and `main`: glue without
  protocol state.
