---------------------------- MODULE PreparedQuery ----------------------------
(***************************************************************************)
(* runPrepared() of sql::mysql::Service on its worker thread               *)
(* (otservpp/sql/mysqlservice.h) with the buffers of mysqltypes.hpp:       *)
(* the statement is executed, its rows are fetched into a Row (a tuple)    *)
(* or appended to a RowSet (a vector of tuples), and one handler is posted *)
(* with an error code.                                                     *)
(*                                                                         *)
(* Every call of the MySQL C API may fail.  A value is abstracted to what  *)
(* the binding tells apart.  A row the server sends has in each column     *)
(*    "num":  "value", "null" or "toobig" (does not fit the C++ type)      *)
(*    "str":  "text", "empty" or "null"                                    *)
(* and a stored row "unset" (a number nothing was written to), "value",    *)
(* "empty", "text" or "zeros" (a string of zero bytes).                    *)
(* Binding several parameters, nullable wrappers, batches and executeQuery *)
(* are left out: they cannot be instantiated or are not implemented.       *)
(***************************************************************************)
EXTENDS Integers, Sequences, FiniteSets

CONSTANTS
    Cols,      \* the types of the result's columns, "num" or "str"
    MaxRows,   \* bound: rows of the server's answer
    MaxSize    \* RowSet::max_size()

ASSUME QueryAssumption ==
    /\ Cols \in Seq({"num", "str"})
    /\ MaxRows \in Nat /\ MaxSize \in Nat

Col == DOMAIN Cols
Num == {k \in Col : Cols[k] = "num"}
Str == {k \in Col : Cols[k] = "str"}

\* The rows a server may send, and a default-constructed Row.
Sent == {r \in [Col -> {"value", "null", "toobig", "text", "empty"}] :
           \A k \in Col : r[k] \in IF k \in Num THEN {"value", "null", "toobig"}
                                                ELSE {"text", "empty", "null"}}
Fresh == [k \in Col |-> IF k \in Num THEN "unset" ELSE "empty"]

VARIABLES
    pc,        \* the next call of the C API
    kind,      \* which overload: "Row" or "RowSet"
    fields,    \* mysql_stmt_field_count matches the columns asked for
    server,    \* the rows not yet fetched
    reg,       \* BindOutReg of each column, which a fetch fills
    out,       \* the client's Row (one element) or RowSet
    before,    \* history: the length of out at the call
    got,       \* history: the rows fetched
    errno,     \* mysql_stmt_errno: whether the last call failed
    buffered,  \* a result set is stored in the statement
    bad,       \* history: a fetched row could not be stored
    answers    \* the codes posted to the client's handler

queryVars == <<pc, kind, fields, server, reg, out, before, got, errno, buffered, bad, answers>>

-----------------------------------------------------------------------------
\* BindOutHelperBase clears the registers.
Cleared == [k \in Col |-> [null |-> FALSE, error |-> FALSE, length |-> 0]]

QueryInit ==
    /\ pc = "validate"
    /\ kind \in {"Row", "RowSet"}
    /\ fields \in BOOLEAN
    /\ server \in UNION {[1..n -> Sent] : n \in 0..MaxRows}
    /\ reg = Cleared
    /\ out \in IF kind = "Row" THEN {<<Fresh>>}
               ELSE UNION {[1..n -> {Fresh}] : n \in 0..MaxSize}
    /\ before = Len(out) /\ got = <<>>
    /\ errno = FALSE /\ buffered = FALSE /\ bad = FALSE
    /\ answers = <<>>

\* postHandler and postError: the handler is posted with a code, and the
\* worker is done with the query.
Answer(code) ==
    /\ answers' = Append(answers, code)
    /\ pc' = "done"

\* postError(stmt): the code is mysql_stmt_errno.
ErrnoOf(failed) == IF failed THEN "mysql" ELSE "ok"

\* startExecStmt.
Validate ==
    /\ pc = "validate"
    /\ \/ /\ fields
          /\ pc' = "exec" /\ UNCHANGED answers
       \/ ~fields /\ Answer("BadFieldCount")
    /\ UNCHANGED <<kind, fields, server, reg, out, before, got, errno, buffered, bad>>

\* bindStmtInput, bindAndExecStmt.
Exec ==
    /\ pc = "exec"
    /\ \E fails \in BOOLEAN :
         /\ errno' = fails
         /\ \/ fails /\ Answer(ErrnoOf(fails))
            \/ ~fails /\ pc' = "bind" /\ UNCHANGED answers
    /\ UNCHANGED <<kind, fields, server, reg, out, before, got, buffered, bad>>

\* bindStmtOutput: mysql_stmt_bind_result and, for a RowSet, store_result.
BindOutput ==
    /\ pc = "bind"
    /\ \E fails \in BOOLEAN :
         /\ errno' = fails
         /\ \/ fails /\ Answer(ErrnoOf(fails)) /\ UNCHANGED buffered
            \/ /\ ~fails /\ kind = "Row"
               /\ pc' = "fetch" /\ UNCHANGED <<answers, buffered>>
            \/ /\ ~fails /\ kind = "RowSet"
               /\ buffered' = TRUE
               /\ pc' = "reserve" /\ UNCHANGED answers
    /\ UNCHANGED <<kind, fields, server, reg, out, before, got, bad>>

\* Mutant: no return after the failed reserve().
ReserveGoesOn ==
    /\ pc = "reserve"
    /\ \/ /\ Len(out) + Len(server) > MaxSize
          /\ Answer("ResultIsTooBig") /\ UNCHANGED buffered
       \/ /\ Len(out) + Len(server) <= MaxSize
          /\ answers' = Append(answers, "OutOfMemory")
          /\ buffered' = FALSE
          /\ pc' = "fetch"
       \/ /\ Len(out) + Len(server) <= MaxSize
          /\ pc' = "fetch" /\ UNCHANGED <<answers, buffered>>
    /\ UNCHANGED <<kind, fields, server, reg, out, before, got, errno, bad>>

\* The size check and reserve(), which may throw bad_alloc.
Reserve ==
    /\ pc = "reserve"
    /\ \/ /\ Len(out) + Len(server) > MaxSize
          /\ Answer("ResultIsTooBig") /\ UNCHANGED buffered
       \/ /\ Len(out) + Len(server) <= MaxSize
          /\ Answer("OutOfMemory") /\ buffered' = FALSE
       \/ /\ Len(out) + Len(server) <= MaxSize
          /\ pc' = "fetch" /\ UNCHANGED <<answers, buffered>>
    /\ UNCHANGED <<kind, fields, server, reg, out, before, got, errno, bad>>

\* What mysql_stmt_fetch writes to the registers: the length of a null column
\* stays as it was.  Strings are bound with an empty buffer, so a text is
\* always truncated.
Fetched(r) ==
    [k \in Col |->
       IF r[k] = "null" THEN [reg[k] EXCEPT !.null = TRUE, !.error = FALSE]
       ELSE [null |-> FALSE, error |-> r[k] \in {"toobig", "text"},
             length |-> IF r[k] = "empty" THEN 0 ELSE 1]]

\* bindResult: a Row's numbers are bound to the Row itself.  Those of a RowSet
\* are bound to holder; the fetch is over when store() makes the new row, and
\* bindResultBuffer then changes BindOutHelper's copy of the bindings only.
NumbersInto(row, r) ==
    IF kind = "RowSet" THEN row
    ELSE [k \in Col |-> IF k \in Num /\ r[k] # "null" THEN "value" ELSE row[k]]

\* storeOneResult of column k; lost: mysql_stmt_fetch_column fails on it.
Stores(k, g, lost) ==
    IF k \in Num THEN ~g[k].null /\ ~g[k].error
                 ELSE g[k].length = 0 \/ k \notin lost

\* storeResult works from the last column to the first and gives up at one
\* that fails.
Stored(row, r, g, lost) ==
    [k \in Col |->
       IF k \in Num \/ g[k].length = 0 \/ (\E j \in k..Len(Cols) : ~Stores(j, g, lost))
         THEN row[k]
         ELSE IF r[k] = "null" THEN "zeros" ELSE r[k]]

\* BindOutHelper::store for the row r just fetched, with the registers g.
Store(r, g, lost) ==
    /\ reg' = g
    /\ bad' = \E k \in Col : ~Stores(k, g, lost)
    /\ errno' = \E k \in Str \cap lost :
                   /\ g[k].length > 0
                   /\ \A j \in (k+1)..Len(Cols) : Stores(j, g, lost)
    /\ out' = IF kind = "Row"
                THEN <<Stored(NumbersInto(out[1], r), r, g, lost)>>
                ELSE Append(out, Stored(Fresh, r, g, lost))

\* Mutant: a RowSet is answered after its first row.
FetchRowOnce ==
    /\ pc = "fetch" /\ server # <<>>
    /\ \E lost \in SUBSET Str : Store(Head(server), Fetched(Head(server)), lost)
    /\ server' = Tail(server)
    /\ got' = Append(got, Head(server))
    /\ buffered' = FALSE
    /\ Answer(IF bad' THEN ErrnoOf(errno') ELSE "ok")
    /\ UNCHANGED <<kind, fields, before>>

\* A row is fetched and stored.  A Row is answered at once; a RowSet goes on
\* unless the row could not be stored: then mysql_stmt_free_result is called
\* before the error is read, and may clear it.
FetchRow ==
    /\ pc = "fetch" /\ server # <<>>
    /\ \E lost \in SUBSET Str : Store(Head(server), Fetched(Head(server)), lost)
    /\ server' = Tail(server)
    /\ got' = Append(got, Head(server))
    /\ \/ /\ kind = "RowSet" /\ ~bad'
          /\ UNCHANGED <<pc, answers, buffered>>
       \/ /\ kind = "RowSet" /\ bad'
          /\ buffered' = FALSE
          /\ \E code \in {ErrnoOf(errno'), "ok"} : Answer(code)
       \/ /\ kind = "Row"
          /\ Answer(IF bad' THEN ErrnoOf(errno') ELSE "ok")
          /\ UNCHANGED buffered
    /\ UNCHANGED <<kind, fields, before>>

\* storeOneResult of a string needs memory for its buffer and for the string;
\* nothing catches bad_alloc but the worker's thread, which ends the process.
StoreOutOfMemory ==
    /\ pc = "fetch" /\ server # <<>>
    /\ \E k \in Str : /\ Fetched(Head(server))[k].length > 0
                      /\ \A j \in (k+1)..Len(Cols) : Stores(j, Fetched(Head(server)), {})
    /\ pc' = "terminated"
    /\ UNCHANGED <<kind, fields, server, reg, out, before, got, errno, buffered, bad,
                   answers>>

\* Mutant: a RowSet's result is not freed at its end.
FetchEndsHeld ==
    /\ pc = "fetch"
    /\ \E fails \in BOOLEAN :
         /\ IF fails THEN kind = "Row" ELSE server = <<>>
         /\ errno' = fails
         /\ Answer(ErrnoOf(fails))
    /\ UNCHANGED <<kind, fields, server, reg, out, before, got, buffered, bad>>

\* mysql_stmt_fetch returns MYSQL_NO_DATA or, when it reads the row from the
\* server, an error: a stored result is read from memory.
FetchEnds ==
    /\ pc = "fetch"
    /\ \E fails \in BOOLEAN :
         /\ IF fails THEN kind = "Row" ELSE server = <<>>
         /\ errno' = fails
         /\ Answer(ErrnoOf(fails))
    /\ buffered' = FALSE
    /\ UNCHANGED <<kind, fields, server, reg, out, before, got, bad>>

Done == pc \in {"done", "terminated"} /\ UNCHANGED queryVars

QueryNext ==
    \/ Validate \/ Exec \/ BindOutput \/ Reserve
    \/ FetchRow \/ StoreOutOfMemory \/ FetchEnds \/ Done

QuerySpec == QueryInit /\ [][QueryNext]_queryVars

-----------------------------------------------------------------------------
(* Properties *)

Code == {"ok", "mysql", "BadFieldCount", "ResultIsTooBig", "OutOfMemory"}
Row == [Col -> {"unset", "value", "empty", "text", "zeros"}]

QueryTypeOK ==
    /\ pc \in {"validate", "exec", "bind", "reserve", "fetch", "done", "terminated"}
    /\ kind \in {"Row", "RowSet"}
    /\ fields \in BOOLEAN /\ errno \in BOOLEAN
    /\ buffered \in BOOLEAN /\ bad \in BOOLEAN
    /\ server \in Seq(Sent) /\ got \in Seq(Sent)
    /\ reg \in [Col -> [null : BOOLEAN, error : BOOLEAN, length : 0..1]]
    /\ out \in Seq(Row) /\ before \in 0..Len(out)
    /\ answers \in Seq(Code)

\* Whichever call of the C API fails, and if reserve() does, the client's
\* handler is posted exactly once, when the worker is done with the statement.
\* Only a process ended by a bad_alloc in storeOneResult posts none.
AnsweredOnce == Len(answers) = IF pc = "done" THEN 1 ELSE 0

\* bindStmtOutput of a RowSet frees the stored result on every path but the
\* one that answers ResultIsTooBig.
ResultFreed ==
    pc = "done" /\ buffered => answers = <<"ResultIsTooBig">>

\* A RowSet answered with no error, and with no row that could not be stored,
\* has every row of the server behind those it had before, in their order,
\* each with the texts the server sent.
Complete ==
    (pc = "done" /\ kind = "RowSet" /\ answers[1] = "ok" /\ ~bad) =>
       /\ server = <<>>
       /\ Len(out) = before + Len(got)
       /\ \A i \in DOMAIN got : \A k \in Str :
             got[i][k] # "null" => out[before + i][k] = got[i][k]
=============================================================================
