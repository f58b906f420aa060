----------------------------- MODULE AmyResults -----------------------------
(***************************************************************************)
(* The blocking use of one amy connector (lib/amy): queries of several     *)
(* statements and the results they leave to be stored one by one, by       *)
(* store_result or through a basic_results_iterator, and the scoped        *)
(* transaction around them.                                                *)
(*                                                                         *)
(* The state is one record and each call an operator from state to state.  *)
(* The names that begin with mysql_ are the client library's calls with    *)
(* the wrappers of mysql_ops, modelled from the way amy uses them: a       *)
(* result has to be read, and every one after it, before another command   *)
(* can be sent ("commands out of sync"); a lost connection rolls its       *)
(* transaction back; autocommit switched on commits what is pending; a     *)
(* command may also be refused on a session that lives on.                 *)
(* Error codes are told apart as error and success, rows are counted as    *)
(* none and some.                                                          *)
(*                                                                         *)
(* Clients follow one rule: the connection is not closed or made anew      *)
(* inside the scope of a transaction.  Scopes may be nested.               *)
(***************************************************************************)
EXTENDS Integers, Sequences, Functions

CONSTANTS
    MaxResults,     \* bound: statements in a query
    MaxScopes       \* bound: scoped transactions inside each other

ASSUME ResultsBound == MaxResults \in Nat /\ MaxScopes \in Nat

VARIABLE a

\* What a statement leaves: a result set with or without rows, or none; an
\* error ends the query.
Outcome == {"rows", "empty", "write", "error"}
HasFields == {"rows", "empty"}

\* The statements of a query: several only with client_multi_statements.
Queries(multi) ==
    {s \in UNION {[1..n -> Outcome] : n \in 1..MaxResults} :
       /\ Len(s) = 1 \/ multi
       /\ \A i \in 1..(Len(s) - 1) : s[i] # "error"}

\* A result_set: its weak pointer to the stored result is live or expired; of,
\* which of the query's results it was; values, -1 for a null pointer.
\* empty_set and the default constructor:
EmptySet == [live |-> FALSE, of |-> 0, values |-> 0]

expired(rs) == ~rs.live

\* size(): mysql_num_rows of the stored result, 0 once that was freed.
size(s) == IF ~expired(s.rs) /\ s.q[s.rs.of] = "rows" THEN 1 ELSE 0

-----------------------------------------------------------------------------
(* The client library *)

mysql_more_results(s) == s.cur # 0 /\ s.cur < Len(s.q)
mysql_field_count(s) == s.cur # 0 /\ s.q[s.cur] \in HasFields

\* The server ends the session, and with it the transaction.
Lost(s) == [s EXCEPT !.up = FALSE, !.pending = FALSE, !.reading = FALSE,
                     !.q = <<>>, !.cur = 0, !.errno = TRUE]

\* What becomes of a command that can be sent: it is carried out, the server
\* refuses it and the session lives on, or the session is lost.
Fate == {"done", "refused", "lost"}

\* A command is sent and answered; the results of the query before it are over.
\* refused: history, the server has refused one in this call.
Command(s, fate) ==
    CASE ~s.up \/ s.reading \/ mysql_more_results(s) -> [s EXCEPT !.errno = TRUE]
      [] s.up /\ ~s.reading /\ ~mysql_more_results(s) /\ fate = "lost" -> Lost(s)
      [] OTHER -> [s EXCEPT !.errno = fate = "refused", !.refused = @ \/ fate = "refused",
                            !.q = <<>>, !.cur = 0, !.clean = FALSE, !.out = <<>>]

\* Writes become durable: kept says that the last step made some so.
Keep(s) == [s EXCEPT !.kept = s.kept \/ s.pending, !.pending = FALSE]

mysql_real_query(s, kinds, lost) ==
    LET t == Command(s, IF lost THEN "lost" ELSE "done")
        done == [t EXCEPT !.q = kinds, !.cur = 1, !.reading = kinds[1] \in HasFields,
                          !.pending = @ \/ "write" \in Range(kinds)]
    IN  CASE t.errno -> t
          [] ~t.errno /\ kinds[1] = "error" -> [t EXCEPT !.errno = TRUE]
          [] OTHER -> IF s.auto THEN Keep(done) ELSE done

mysql_commit(s, fate) ==
    LET t == Command(s, fate) IN IF t.errno THEN t ELSE Keep(t)

mysql_rollback(s, fate) ==
    LET t == Command(s, fate) IN IF t.errno THEN t ELSE [t EXCEPT !.pending = FALSE]

mysql_autocommit(s, mode, fate) ==
    LET t == Command(s, fate)
        set == [t EXCEPT !.auto = mode]
    IN  CASE t.errno -> t
          [] ~t.errno /\ mode -> Keep(set)
          [] OTHER -> set

\* Without a result to read it returns NULL and leaves mysql_errno alone.
mysql_store_result(s, lost) ==
    CASE ~s.reading -> [s EXCEPT !.last = 0]
      [] s.reading /\ lost -> [Lost(s) EXCEPT !.last = 0]
      [] OTHER -> [s EXCEPT !.reading = FALSE, !.last = s.cur]

mysql_next_result(s, lost) ==
    CASE s.reading -> [s EXCEPT !.errno = TRUE]
      [] ~s.reading /\ ~mysql_more_results(s) -> [s EXCEPT !.errno = FALSE]
      [] ~s.reading /\ mysql_more_results(s) /\ lost -> Lost(s)
      [] OTHER ->
            IF s.q[s.cur + 1] = "error"
              THEN [s EXCEPT !.errno = TRUE, !.q = SubSeq(@, 1, s.cur)]
              ELSE [s EXCEPT !.errno = FALSE, !.cur = @ + 1,
                             !.reading = s.q[s.cur + 1] \in HasFields]

-----------------------------------------------------------------------------
(* mysql_service; e is the error_code argument. *)

\* error_wrapper: the library's error becomes the error_code.
error_wrapper(s) == [s EXCEPT !.e = s.errno]

\* mysql_init fails for want of memory only.
mysql_init(s, ok) == [s EXCEPT !.initialized = ok, !.e = ~ok]

\* open does nothing on a handle that is open.
open(s, ok) == IF s.initialized THEN [s EXCEPT !.e = FALSE] ELSE mysql_init(s, ok)

\* mysql_real_connect; a handle is not connected twice.  session: the flags the
\* server knows.
mysql_real_connect(s, multi, ok) ==
    IF ok /\ ~s.up THEN [s EXCEPT !.up = TRUE, !.session = multi, !.auto = TRUE,
                                  !.q = <<>>, !.cur = 0, !.errno = FALSE]
                  ELSE [s EXCEPT !.errno = TRUE]

\* connect: the flags are taken whatever comes of it.
service_connect(s, multi, inited, ok) ==
    LET o == open(s, inited)
        t == mysql_real_connect(IF s.initialized THEN s ELSE o, multi, ok)
    IN  IF ~s.initialized /\ o.e THEN o ELSE [error_wrapper(t) EXCEPT !.multi = multi]

\* implementation::free_result: the weak pointer of a result set expires.
free_result(s) == [s EXCEPT !.last = 0, !.rs.live = FALSE]

\* close and implementation::close: nothing on a handle that is not open.
service_close(s) ==
    IF s.initialized THEN [free_result(Lost(s)) EXCEPT !.initialized = FALSE, !.first = FALSE]
    ELSE s

query(s, kinds, lost) ==
    LET t == mysql_real_query([free_result(s) EXCEPT !.first = FALSE], kinds, lost)
    IN  IF s.initialized THEN [error_wrapper(t) EXCEPT !.clean = ~t.errno, !.out = <<>>]
        ELSE [s EXCEPT !.e = TRUE]

\* autocommit, alone, does not ask whether the handle is open.
autocommit(s, mode, fate) ==
    error_wrapper(mysql_autocommit(s, mode, fate))

commit(s, fate) ==
    IF s.initialized THEN error_wrapper(mysql_commit(s, fate)) ELSE [s EXCEPT !.e = TRUE]

rollback(s, fate) ==
    IF s.initialized THEN error_wrapper(mysql_rollback(s, fate)) ELSE [s EXCEPT !.e = TRUE]

\* Mutant: only the server is asked, as if there were nothing before it.
asks_server(s) ==
    s.initialized /\ IF s.multi THEN mysql_more_results(s) ELSE FALSE

has_more_results(s) ==
    /\ s.initialized
    /\ IF s.multi THEN ~s.first \/ mysql_more_results(s)
                  ELSE ~s.first /\ mysql_field_count(s)

\* result_set::assign: the rows are copied from the stored result, unless there
\* is none, or it has none; when reading them leaves an error the set is left
\* without a vector.
assign(s) ==
    LET some == s.last # 0 /\ s.q[s.cur] = "rows"
    IN  [s EXCEPT !.rs = CASE s.last = 0 -> EmptySet
                           [] some /\ s.e -> [EmptySet EXCEPT !.values = -1]
                           [] OTHER -> [live |-> TRUE, of |-> s.cur,
                                        values |-> IF some THEN 1 ELSE 0],
                  !.out = IF s.clean /\ ~s.e THEN Append(@, s.cur) ELSE @]

\* Mutant: store_result with mysql_store_result in place of mysql_next_result.
store_again(s, lost) ==
    LET f == free_result(s)
        b == mysql_store_result(IF s.first THEN f ELSE [s EXCEPT !.first = TRUE], lost)
    IN  IF s.e THEN [s EXCEPT !.first = TRUE, !.rs = EmptySet]
        ELSE assign(error_wrapper(b))

\* Of a query's first result nothing has to be asked for, and an error the
\* caller passes in is taken for one of this call.
store_result(s, lost) ==
    LET f == free_result(s)
        n == mysql_next_result(f, lost)
        t == CASE ~s.first -> [s EXCEPT !.first = TRUE]
               [] s.first /\ ~has_more_results(f) -> [f EXCEPT !.e = TRUE]
               [] OTHER -> error_wrapper(n)
        b == mysql_store_result(t, lost)
    IN  IF t.e THEN [t EXCEPT !.rs = EmptySet] ELSE assign(error_wrapper(b))

-----------------------------------------------------------------------------
(* The client's calls.  A call with an error_code is given the client's own *)
(* one, which may hold an older error; one without makes its own, and       *)
(* throw_error throws it at the client.                                     *)

Form == {"ec", "throw"}

\* clean: the results of the last query are being read and no call has failed;
\* out: the ones delivered so far.
Called(form) == [a EXCEPT !.e = form = "ec" /\ a.ec, !.kept = FALSE, !.refused = FALSE]
Returned(s, form) ==
    [s EXCEPT !.ec = IF form = "ec" THEN s.e ELSE @, !.clean = @ /\ ~s.e, !.e = FALSE,
              !.out = IF s.e THEN <<>> ELSE @]

ResultsInit ==
    a = [initialized |-> FALSE, multi |-> FALSE, first |-> FALSE, last |-> 0,
         up |-> FALSE, session |-> FALSE, q |-> <<>>, cur |-> 0, reading |-> FALSE,
         errno |-> FALSE, auto |-> TRUE, pending |-> FALSE, kept |-> FALSE,
         rs |-> EmptySet, it |-> "none", tx |-> "none", committed |-> FALSE,
         outer |-> <<>>, asked |-> FALSE, ended |-> FALSE, refused |-> FALSE,
         e |-> FALSE, ec |-> FALSE, clean |-> FALSE, out |-> <<>>, fault |-> "none"]

Running == a.fault = "none"

connect(form, multi, inited, ok) ==
    /\ Running /\ a.tx = "none"
    /\ a' = Returned(service_connect(Called(form), multi, inited, ok), form)

close ==
    /\ Running /\ a.tx = "none"
    /\ a' = [service_close(Called("ec")) EXCEPT !.e = FALSE, !.clean = @ /\ ~a.initialized]

Query(form, kinds, lost) ==
    /\ Running
    /\ kinds \in Queries(a.session)
    /\ a' = Returned(query(Called(form), kinds, lost), form)

\* execute(): query() with the error_code and affected_rows(), which changes
\* nothing.
Execute(form, kind, lost) ==
    /\ Running
    /\ a' = Returned(query(Called(form), <<kind>>, lost), form)

\* store_result does not ask whether the handle is open: it has to be.
StoreResult(form, lost) ==
    /\ Running /\ a.initialized
    /\ a' = Returned(store_result(Called(form), lost), form)

\* basic_results_iterator(connector): the first result is stored; when there
\* are more the iterator is already at its end.
IteratorBegin(lost) ==
    /\ Running
    /\ LET s == store_result(Called("throw"), lost)
       IN  a' = CASE ~has_more_results(a) -> [Called("throw") EXCEPT !.it = "end"]
                  [] has_more_results(a) /\ s.e ->
                       [Returned(s, "throw") EXCEPT !.it = "none"]
                  [] OTHER -> [Returned(s, "throw") EXCEPT !.it =
                                 IF has_more_results(s) THEN "end" ELSE "at"]

\* operator++ of an iterator that is not at its end.
IteratorIncrement(lost) ==
    /\ Running /\ a.it = "at"
    /\ a' = IF has_more_results(a)
              THEN Returned(store_result(Called("throw"), lost), "throw")
              ELSE [Called("throw") EXCEPT !.it = "end"]

\* basic_scoped_transaction(connector): autocommit(false), which throws.
\* tx and committed are those of the innermost scope, outer the committed_ of
\* the scopes around it, the nearest first.  Histories of the outermost scope,
\* asked: a commit was asked for in it; ended: a scope inside another has ended.
TxBegin(fate) ==
    /\ Running /\ a.tx = "none" /\ a.initialized
    /\ LET s == autocommit(Called("throw"), FALSE, fate)
       IN  a' = Returned([s EXCEPT !.tx = IF s.e THEN "none" ELSE "open"], "throw")

\* The same inside a scope.
TxNest(fate) ==
    /\ Running /\ a.tx = "open" /\ a.initialized /\ Len(a.outer) + 1 < MaxScopes
    /\ LET s == autocommit(Called("throw"), FALSE, fate)
       IN  a' = Returned(IF s.e THEN s
                         ELSE [s EXCEPT !.outer = <<s.committed>> \o @, !.committed = FALSE],
                         "throw")

\* commit() sets committed_ when it does not throw, commit(ec) to !!ec: when
\* there was an error.
TxCommit(form, fate) ==
    /\ Running /\ a.tx = "open"
    /\ LET s == commit(Called(form), fate)
       IN  a' = Returned([s EXCEPT !.asked = TRUE,
                                   !.committed = IF form = "ec" THEN s.e
                                                 ELSE @ \/ ~s.e], form)

TxRollback(form, fate) ==
    /\ Running /\ a.tx = "open"
    /\ a' = Returned(rollback(Called(form), fate), form)

\* Mutant: no rollback in the destructor.
end_unrolled(s, fate, fateLater) == autocommit(s, TRUE, fateLater)

\* ~basic_scoped_transaction: a rollback unless committed_, whose error is
\* dropped, then autocommit.
end_scope(s, fate, fateLater) ==
    autocommit(IF s.committed THEN s ELSE rollback(s, fate), TRUE, fateLater)

\* What is left of the scopes when the innermost is gone.
Popped(s) ==
    IF s.outer = <<>> THEN [s EXCEPT !.tx = "none", !.committed = FALSE,
                                     !.asked = FALSE, !.ended = FALSE]
    ELSE [s EXCEPT !.committed = Head(s.outer), !.outer = Tail(@), !.ended = TRUE]

\* What autocommit(true) throws leaves a destructor.
TxEnd(fate, fateLater) ==
    /\ Running /\ a.tx = "open"
    /\ LET s == Popped(end_scope(Called("throw"), fate, fateLater))
       IN  a' = [s EXCEPT !.clean = @ /\ ~s.e, !.e = FALSE,
                          !.fault = IF s.e THEN "terminate" ELSE "none"]

ResultsOver == ~Running /\ UNCHANGED a

ResultsNext ==
    \/ \E form \in Form, multi, inited, ok \in BOOLEAN : connect(form, multi, inited, ok)
    \/ close
    \/ \E lost \in BOOLEAN :
         \/ \E form \in Form : \/ \E kinds \in Queries(a.session) : Query(form, kinds, lost)
                               \/ \E kind \in Outcome : Execute(form, kind, lost)
                               \/ StoreResult(form, lost)
         \/ IteratorBegin(lost) \/ IteratorIncrement(lost)
    \/ \E fate \in Fate :
         \/ \E form \in Form : TxCommit(form, fate) \/ TxRollback(form, fate)
         \/ TxBegin(fate) \/ TxNest(fate)
         \/ \E fateLater \in Fate : TxEnd(fate, fateLater)
    \/ ResultsOver

ResultsSpec == ResultsInit /\ [][ResultsNext]_a

-----------------------------------------------------------------------------
(* Properties *)

\* store_result after store_result, by whichever call: as long as none fails
\* the results of a query are delivered in order, none twice and none skipped,
\* and a result set that has not expired is the last of them, with its rows.
InOrder ==
    a.clean =>
       /\ \A i \in DOMAIN a.out : a.out[i] = i
       /\ ~expired(a.rs) =>
                       /\ a.rs.of = Len(a.out) /\ a.last = a.rs.of
                       /\ a.rs.values = size(a)

\* has_more_results() ends the loop no sooner than the query's result sets are
\* all delivered, provided that none of its calls failed and the flags are
\* those of the session: a connect() that fails changes them.
NoneMissed ==
    a.clean /\ a.multi = a.session /\ ~has_more_results(a) =>
       \A i \in DOMAIN a.q : a.q[i] \in HasFields => i \in Range(a.out)

\* basic_scoped_transaction: a scope that is left, or is still open, without
\* commit() having been called keeps none of the writes made in it, whether
\* calls fail, are out of sync, or the connection is lost on the way, and
\* scopes begun inside it included.  It takes a destructor's rollback that the
\* server refuses on a session that lives on (its error is dropped, and
\* autocommit(true) then commits), or a scope that has ended inside this one
\* (its destructor has switched autocommit on), to keep them.
UnaskedNotKept ==
    [][a.tx = "open" /\ ~a.ended /\ ~(a.asked \/ a'.asked) /\ ~a'.refused => ~a'.kept]_a
=============================================================================
