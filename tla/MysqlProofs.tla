---------------------------- MODULE MysqlProofs ----------------------------
(***************************************************************************)
(* Proofs about the MySQL service: PreparedQuery, for any columns, any     *)
(* number of rows and any limit of the RowSet; MysqlService, for any set   *)
(* of connections and any bound on the tasks.                              *)
(***************************************************************************)
EXTENDS MysqlService, PreparedQuery, TLAPS

-----------------------------------------------------------------------------
(* The query *)

\* The worker has answered when, and only when, it is done; no row has failed
\* before; a stored result is only held while a RowSet is being filled.
PathInv ==
    /\ pc # "done" => answers = <<>> /\ ~bad
    /\ pc = "done" => Len(answers) = 1
    /\ buffered /\ pc # "done" => pc \in {"reserve", "fetch", "terminated"}
    /\ buffered /\ pc = "done" => answers = <<"ResultIsTooBig">>
    /\ kind = "Row" => Len(out) = 1 /\ ~buffered

\* A RowSet holds the rows fetched, behind those it had, with their texts.
RowsInv ==
    kind = "RowSet" =>
       /\ Len(out) = before + Len(got)
       /\ ~bad => \A i \in DOMAIN got : \A k \in Str :
                     got[i][k] # "null" => out[before + i][k] = got[i][k]
       /\ pc = "done" /\ ~bad /\ answers[1] = "ok" => server = <<>>

IInv == QueryTypeOK /\ PathInv /\ RowsInv

\* A number column is not a string column, and they are all there are.
LEMMA Columns ==
    /\ Col = Num \cup Str
    /\ Num \cap Str = {}
    /\ \A k \in Str : k \in Col /\ k \notin Num
<1>1. \A k \in Col : Cols[k] \in {"num", "str"}
  BY QueryAssumption DEF Col
<1> QED
  BY <1>1 DEF Num, Str

\* What a fetch leaves in the registers.
LEMMA FetchedType ==
    ASSUME NEW r \in Sent, QueryTypeOK
    PROVE  Fetched(r) \in [Col -> [null : BOOLEAN, error : BOOLEAN, length : 0..1]]
<1> DEFINE Reg == [null : BOOLEAN, error : BOOLEAN, length : 0..1]
<1>1. ASSUME NEW k \in Col
      PROVE  Fetched(r)[k] \in Reg
  <2>1. reg[k] \in Reg
    BY DEF QueryTypeOK
  <2>2. CASE r[k] = "null"
    BY <2>1, <2>2 DEF Fetched
  <2>3. CASE r[k] # "null"
    BY <2>3 DEF Fetched
  <2> QED
    BY <2>2, <2>3
<1>2. Fetched(r) = [k \in Col |-> Fetched(r)[k]]
  BY DEF Fetched
<1> QED
  BY <1>1, <1>2

\* Every cell of a stored row is one of those a row may hold.
LEMMA StoredType ==
    ASSUME NEW r \in Sent, NEW row \in Row, NEW g, NEW lost
    PROVE  Stored(row, r, g, lost) \in Row
<1>1. \A k \in Str : r[k] \in {"text", "empty", "null"}
  BY Columns DEF Sent
<1>2. ASSUME NEW k \in Col
      PROVE  Stored(row, r, g, lost)[k] \in {"unset", "value", "empty", "text", "zeros"}
  <2>1. row[k] \in {"unset", "value", "empty", "text", "zeros"}
    BY DEF Row
  <2>2. k \notin Num => r[k] \in {"text", "empty", "null"}
    BY <1>1, Columns
  <2> QED
    BY <2>1, <2>2 DEF Stored
<1>3. Stored(row, r, g, lost) = [k \in Col |-> Stored(row, r, g, lost)[k]]
  BY DEF Stored
<1> QED
  BY <1>2, <1>3 DEF Row

\* A default row, and a Row whose numbers a fetch has written.
LEMMA FreshType == Fresh \in Row
BY DEF Fresh, Row

LEMMA NumbersType ==
    ASSUME NEW r, NEW row \in Row
    PROVE  NumbersInto(row, r) \in Row
<1>1. CASE kind = "RowSet"
  BY <1>1 DEF NumbersInto
<1>2. CASE kind # "RowSet"
  BY <1>2 DEF NumbersInto, Row
<1> QED
  BY <1>1, <1>2

\* When every column could be stored, the texts are the server's.
LEMMA TextsStored ==
    ASSUME NEW r \in Sent, QueryTypeOK, NEW lost, NEW k \in Str,
           r[k] # "null",
           \A j \in Col : Stores(j, Fetched(r), lost)
    PROVE  Stored(Fresh, r, Fetched(r), lost)[k] = r[k]
<1>1. k \in Col /\ k \notin Num /\ r[k] \in {"text", "empty"}
  BY Columns DEF Sent
<1>2. Fetched(r)[k].length = IF r[k] = "empty" THEN 0 ELSE 1
  BY <1>1 DEF Fetched
<1>3. ~ \E j \in k..Len(Cols) : ~Stores(j, Fetched(r), lost)
  BY <1>1, QueryAssumption DEF Col
<1>4. CASE r[k] = "empty"
  BY <1>1, <1>2, <1>4 DEF Stored, Fresh
<1>5. CASE r[k] = "text"
  BY <1>1, <1>2, <1>3, <1>5 DEF Stored
<1> QED
  BY <1>1, <1>4, <1>5

-----------------------------------------------------------------------------
\* The worker's answer, and what the calls before the first fetch do.
LEMMA EarlySteps ==
    ASSUME IInv, Validate \/ Exec \/ BindOutput \/ Reserve \/ FetchEnds \/ StoreOutOfMemory
    PROVE  IInv'
<1>1. answers = <<>> /\ ~bad
  BY DEF IInv, PathInv, Validate, Exec, BindOutput, Reserve, FetchEnds,
         StoreOutOfMemory
<1>2. ASSUME NEW code \in Code, Answer(code)
      PROVE  answers' = <<code>> /\ answers' \in Seq(Code) /\ Len(answers') = 1
             /\ answers'[1] = code /\ pc' = "done"
  BY <1>1, <1>2 DEF Answer
<1>3. "ok" \in Code /\ "mysql" \in Code /\ "BadFieldCount" \in Code
      /\ "ResultIsTooBig" \in Code /\ "OutOfMemory" \in Code
  BY DEF Code
<1>4. /\ UNCHANGED <<kind, fields, server, reg, out, before, got, bad>>
      /\ errno' \in BOOLEAN /\ buffered' \in BOOLEAN
  BY DEF IInv, QueryTypeOK, Validate, Exec, BindOutput, Reserve, FetchEnds,
         StoreOutOfMemory
<1>12. kind = "Row" => Len(out) = 1 /\ ~buffered'
  <2>1. kind = "Row" => Len(out) = 1 /\ ~buffered
    BY DEF IInv, PathInv
  <2>2. kind = "Row" => buffered' = buffered \/ buffered' = FALSE
    BY DEF Validate, Exec, BindOutput, Reserve, FetchEnds,
         StoreOutOfMemory
  <2> QED
    BY <2>1, <2>2
<1>5. ASSUME NEW code \in Code, Answer(code),
             buffered' => code = "ResultIsTooBig",
             code = "ok" /\ kind = "RowSet" => server = <<>>
      PROVE  IInv'
  <2>1. QueryTypeOK'
    BY <1>2, <1>4, <1>5 DEF IInv, QueryTypeOK
  <2>2. PathInv'
    BY <1>2, <1>4, <1>12, <1>5 DEF PathInv
  <2>3. RowsInv'
    BY <1>2, <1>4, <1>5 DEF IInv, RowsInv
  <2> QED
    BY <2>1, <2>2, <2>3 DEF IInv
<1>6. ASSUME UNCHANGED answers, pc' \in {"exec", "bind", "reserve", "fetch", "terminated"},
             buffered' => pc' \in {"reserve", "fetch", "terminated"}
      PROVE  IInv'
  <2>1. QueryTypeOK'
    BY <1>4, <1>6 DEF IInv, QueryTypeOK
  <2>2. PathInv'
    BY <1>1, <1>4, <1>12, <1>6 DEF PathInv
  <2>3. RowsInv'
    BY <1>4, <1>6 DEF IInv, RowsInv
  <2> QED
    BY <2>1, <2>2, <2>3 DEF IInv
<1>7. CASE Validate
  BY <1>3, <1>5, <1>6, <1>7 DEF Validate, IInv, PathInv
<1>8. CASE Exec
  <2>1. ~buffered
    BY <1>8 DEF Exec, IInv, PathInv
  <2> QED
    BY <1>3, <1>5, <1>6, <1>8, <2>1 DEF Exec, ErrnoOf
<1>9. CASE BindOutput
  <2>1. ~buffered
    BY <1>9 DEF BindOutput, IInv, PathInv
  <2> QED
    BY <1>3, <1>5, <1>6, <1>9, <2>1 DEF BindOutput, ErrnoOf
<1>10. CASE Reserve
  BY <1>3, <1>5, <1>6, <1>10 DEF Reserve
<1>11. CASE FetchEnds
  BY <1>3, <1>5, <1>11 DEF FetchEnds, ErrnoOf
<1>13. CASE StoreOutOfMemory
  BY <1>6, <1>13 DEF StoreOutOfMemory
<1> QED
  BY <1>7, <1>8, <1>9, <1>10, <1>11, <1>13

\* A fetched row is stored, and appended to a RowSet.
LEMMA FetchStep ==
    ASSUME IInv, FetchRow
    PROVE  IInv'
<1> DEFINE r == Head(server)
           g == Fetched(r)
<1>1. PICK lost \in SUBSET Str : Store(r, g, lost)
  BY DEF FetchRow
<1>2. /\ answers = <<>> /\ ~bad /\ pc = "fetch"
      /\ UNCHANGED <<kind, fields, before>>
      /\ server' = Tail(server) /\ got' = Append(got, r)
  BY DEF FetchRow, IInv, PathInv
<1>3. r \in Sent /\ server' \in Seq(Sent) /\ got \in Seq(Sent) /\ got' \in Seq(Sent)
  BY <1>2 DEF FetchRow, IInv, QueryTypeOK
<1>4. g \in [Col -> [null : BOOLEAN, error : BOOLEAN, length : 0..1]]
  BY <1>3, FetchedType DEF IInv
<1>5. bad' \in BOOLEAN /\ errno' \in BOOLEAN /\ reg' = g
  BY <1>1 DEF Store
<1>6. CASE kind = "RowSet"
  <2> DEFINE row == Stored(Fresh, r, g, lost)
  <2>1. row \in Row
    BY <1>3, StoredType, FreshType
  <2>2. out' = Append(out, row) /\ out \in Seq(Row)
    BY <1>1, <1>6 DEF Store, IInv, QueryTypeOK
  <2>3. out' \in Seq(Row) /\ Len(out') = Len(out) + 1 /\ before \in 0..Len(out')
        /\ before \in Nat
    <3> HIDE DEF row
    <3> QED
      BY <2>1, <2>2 DEF IInv, QueryTypeOK
  <2>4. \/ UNCHANGED <<pc, answers, buffered>> /\ ~bad'
        \/ /\ bad' /\ buffered' = FALSE /\ pc' = "done"
           /\ \E code \in Code : answers' = <<code>>
    <3>1. CASE ~bad'
      BY <1>2, <1>6, <3>1 DEF FetchRow
    <3>2. CASE bad'
      <4>1. buffered' = FALSE /\ \E code \in {ErrnoOf(errno'), "ok"} : Answer(code)
        BY <1>6, <3>2 DEF FetchRow
      <4>2. ErrnoOf(errno') \in Code /\ "ok" \in Code
        BY DEF ErrnoOf, Code
      <4> QED
        BY <1>2, <3>2, <4>1, <4>2 DEF Answer
    <3> QED
      BY <3>1, <3>2
  <2>5. buffered' \in BOOLEAN /\ answers' \in Seq(Code)
    <3>1. CASE UNCHANGED <<pc, answers, buffered>>
      BY <3>1 DEF IInv, QueryTypeOK
    <3>2. CASE buffered' = FALSE /\ \E code \in Code : answers' = <<code>>
      <4>1. PICK code \in Code : answers' = <<code>>
        BY <3>2
      <4>2. buffered' \in BOOLEAN
        BY <3>2, Zenon
      <4> QED
        BY <4>1, <4>2
    <3> QED
      BY <2>4, <3>1, <3>2
  <2>6. QueryTypeOK'
    BY <1>2, <1>3, <1>4, <1>5, <2>3, <2>4, <2>5 DEF IInv, QueryTypeOK
  <2>7. PathInv'
    <3>1. kind' # "Row"
      BY <1>2, <1>6
    <3>2. CASE UNCHANGED <<pc, answers, buffered>> /\ ~bad'
      BY <1>2, <3>1, <3>2 DEF IInv, PathInv
    <3>3. CASE /\ buffered' = FALSE /\ pc' = "done"
               /\ \E code \in Code : answers' = <<code>>
      BY <3>1, <3>3 DEF PathInv
    <3> QED
      BY <2>4, <3>2, <3>3
  <2>8. Len(out') = before + Len(got')
    BY <1>2, <1>3, <1>6, <2>3 DEF IInv, RowsInv, QueryTypeOK
  <2>9. ASSUME ~bad', NEW i \in DOMAIN got', NEW k \in Str, got'[i][k] # "null"
        PROVE  out'[before + i][k] = got'[i][k]
    <3>1. CASE i \in DOMAIN got
      <4>1. got'[i] = got[i] /\ i \in 1..Len(got)
        BY <1>2, <1>3, <3>1
      <4>2. before + i \in 1..Len(out)
        BY <1>6, <4>1, <2>3, SMTT(30) DEF IInv, RowsInv, QueryTypeOK
      <4>3. out'[before + i] = out[before + i]
        <5> HIDE DEF row
        <5> QED
          BY <2>2, <4>2
      <4> QED
        BY <1>2, <1>6, <2>9, <3>1, <4>1, <4>3 DEF IInv, RowsInv
    <3>2. CASE i \notin DOMAIN got
      <4>1. i = Len(got) + 1 /\ got'[i] = r
        BY <1>2, <1>3, <3>2
      <4>2. before + i = Len(out) + 1
        BY <1>3, <1>6, <2>3, <4>1 DEF IInv, RowsInv
      <4>3. out'[before + i] = row
        <5> HIDE DEF row
        <5> QED
          BY <2>2, <4>2
      <4>4. \A j \in Col : Stores(j, g, lost)
        BY <1>1, <2>9 DEF Store
      <4>5. row[k] = r[k]
        BY <1>3, <2>9, <4>1, <4>4, TextsStored DEF IInv
      <4> QED
        BY <4>1, <4>3, <4>5
    <3> QED
      BY <3>1, <3>2
  <2>10. RowsInv'
    BY <1>2, <1>6, <2>4, <2>8, <2>9 DEF IInv, RowsInv
  <2> QED
    BY <2>6, <2>7, <2>10 DEF IInv
<1>7. CASE kind = "Row"
  <2> DEFINE row == Stored(NumbersInto(out[1], r), r, g, lost)
  <2>1. out' = <<row>>
    BY <1>1, <1>7 DEF Store
  <2>2. out[1] \in Row /\ before \in 0..1 /\ ~buffered
    <3>1. out \in Seq(Row) /\ Len(out) = 1 /\ before \in 0..Len(out)
      BY <1>7 DEF IInv, QueryTypeOK, PathInv
    <3>2. ~buffered
      BY <1>7 DEF IInv, PathInv
    <3>3. out[1] \in Row /\ before \in 0..1
      BY <3>1
    <3> QED
      BY <3>2, <3>3
  <2>3. row \in Row
    BY <1>3, <2>2, NumbersType, StoredType
  <2>4. out' \in Seq(Row) /\ Len(out') = 1 /\ before \in 0..Len(out')
    <3> HIDE DEF row
    <3> QED
      BY <2>1, <2>2, <2>3
  <2>5. PICK code \in Code : answers' = <<code>> /\ pc' = "done" /\ UNCHANGED buffered
    <3>1. UNCHANGED buffered /\ Answer(IF bad' THEN ErrnoOf(errno') ELSE "ok")
      BY <1>7 DEF FetchRow
    <3>2. (IF bad' THEN ErrnoOf(errno') ELSE "ok") \in Code
      BY DEF ErrnoOf, Code
    <3> QED
      BY <1>2, <3>1, <3>2 DEF Answer
  <2>6. QueryTypeOK'
    BY <1>2, <1>3, <1>4, <1>5, <2>4, <2>5 DEF IInv, QueryTypeOK
  <2>7. PathInv'
    BY <1>2, <1>7, <2>2, <2>4, <2>5 DEF PathInv
  <2>8. RowsInv'
    BY <1>2, <1>7 DEF RowsInv
  <2> QED
    BY <2>6, <2>7, <2>8 DEF IInv
<1> QED
  BY <1>6, <1>7 DEF IInv, QueryTypeOK

-----------------------------------------------------------------------------
\* The inductive invariant holds from the call of runPrepared on.
THEOREM Invariance == QuerySpec => []IInv
<1>1. QueryInit => IInv
  <2> SUFFICES ASSUME QueryInit PROVE IInv
    OBVIOUS
  <2>1. server \in Seq(Sent)
    BY QueryAssumption DEF QueryInit
  <2>2. out \in Seq(Row)
    BY QueryAssumption, FreshType DEF QueryInit
  <2>3. before \in 0..Len(out) /\ got \in Seq(Sent) /\ Len(got) = 0 /\ DOMAIN got = {}
    BY <2>2 DEF QueryInit
  <2>4. reg \in [Col -> [null : BOOLEAN, error : BOOLEAN, length : 0..1]]
    BY DEF QueryInit, Cleared
  <2>5. QueryTypeOK
    <3>1. errno \in BOOLEAN /\ buffered \in BOOLEAN /\ bad \in BOOLEAN
      BY Zenon DEF QueryInit
    <3>2. answers \in Seq(Code)
      BY DEF QueryInit
    <3> QED
      BY <2>1, <2>2, <2>3, <2>4, <3>1, <3>2 DEF QueryInit, QueryTypeOK
  <2>6. PathInv
    BY DEF QueryInit, PathInv
  <2>7. RowsInv
    BY <2>2, <2>3 DEF QueryInit, RowsInv
  <2> QED
    BY <2>5, <2>6, <2>7 DEF IInv
<1>2. IInv /\ [QueryNext]_queryVars => IInv'
  <2>1. ASSUME IInv, UNCHANGED queryVars
        PROVE  IInv'
    BY <2>1 DEF queryVars, IInv, QueryTypeOK, PathInv, RowsInv
  <2> QED
    BY <2>1, EarlySteps, FetchStep DEF QueryNext, Done
<1> QED
  BY <1>1, <1>2, PTL DEF QuerySpec

\* The types of the query's state, for any result columns.
THEOREM TypeCorrect == QuerySpec => []QueryTypeOK
BY Invariance, PTL DEF IInv

\* The client's handler is posted exactly once, whichever call fails.
THEOREM OneAnswer == QuerySpec => []AnsweredOnce
<1>1. IInv => AnsweredOnce
  BY DEF IInv, PathInv, AnsweredOnce
<1> QED
  BY <1>1, Invariance, PTL

\* No path but ResultIsTooBig leaves a stored result in the statement.
THEOREM Freed == QuerySpec => []ResultFreed
<1>1. IInv => ResultFreed
  BY DEF IInv, PathInv, ResultFreed
<1> QED
  BY <1>1, Invariance, PTL

\* A RowSet answered without an error, and with no row that failed, has every
\* row of the server, in order, with its texts, however many there are.
THEOREM Completeness == QuerySpec => []Complete
<1>1. IInv => Complete
  BY DEF IInv, RowsInv, Complete
<1> QED
  BY <1>1, Invariance, PTL

-----------------------------------------------------------------------------
(* The thread pool *)

\* The states of a thread that is still in the hands of the service.
InService == {"run_one", "busy", "unique?", "stopped?", "removing"}

\* What NoThreadAfterShutdown needs: a thread is in the group until it has
\* removed itself or found the service stopped, and the shutdown began with
\* stop().
GroupInv ==
    /\ \A t \in Conn : thread[t] \in InService => t \in group
    /\ phase # "up" => stopped
    /\ \A t \in Conn : conn[t] = "none" => thread[t] = "none"

\* A busy thread has a task.
BusyInv == \A t \in Conn : thread[t] = "busy" => doing[t] # NoTask

PoolInv ==
    /\ TypeOK
    /\ BusyInv
    /\ GroupInv
    /\ EveryConnectionHasAThread
    /\ NoThreadAfterShutdown

\* A step of a worker, of the clients or of the shutdown keeps the types.
LEMMA PoolTypeStep ==
    ASSUME TypeOK, BusyInv, [Next]_vars
    PROVE  TypeOK'
<1> USE TasksAssumption DEF TypeOK
<1>1. CASE UNCHANGED vars
  BY <1>1 DEF vars
<1>2. ASSUME NEW x \in Conn, construct(x)
      PROVE  TypeOK'
  BY <1>2 DEF construct
<1>3. ASSUME NEW x \in Conn, destroy(x)
      PROVE  TypeOK'
  BY <1>3 DEF destroy
<1>4. ASSUME NEW x \in Conn, NEW uses \in {"conn", "stmt"}, post(x, uses)
      PROVE  TypeOK'
  <2>1. posted + 1 \in 1..MaxTasks
    BY <1>4 DEF post
  <2>2. [id |-> posted + 1, conn |-> x, uses |-> uses] \in Task
    BY <2>1 DEF Task
  <2>3. queue' \in Seq(Task)
    BY <1>4, <2>2 DEF post
  <2> QED
    BY <1>4, <2>1, <2>3 DEF post
<1>5. ASSUME NEW t \in Conn, TakeTask(t)
      PROVE  TypeOK'
  <2>1. Head(queue) \in Task /\ Tail(queue) \in Seq(Task)
    BY <1>5 DEF TakeTask
  <2> QED
    BY <1>5, <2>1 DEF TakeTask
<1>6. ASSUME NEW t \in Conn, FinishTask(t)
      PROVE  TypeOK'
  <2>1. doing[t].id \in 1..MaxTasks
    BY <1>6 DEF Task, BusyInv, FinishTask
  <2> QED
    BY <1>6, <2>1 DEF FinishTask
<1>7. ASSUME NEW t \in Conn,
             CheckFlag(t) \/ StoppedOut(t) \/ CheckStopped(t) \/ RemoveThread(t)
               \/ EndThread(t)
      PROVE  TypeOK'
  BY <1>7 DEF CheckFlag, StoppedOut, CheckStopped, RemoveThread, EndThread
<1>8. ASSUME stop \/ join_all \/ Joined \/ Over
      PROVE  TypeOK'
  BY <1>8 DEF stop, join_all, Joined, Over, vars
<1> QED
  BY <1>1, <1>2, <1>3, <1>4, <1>5, <1>6, <1>7, <1>8
  DEF Next, connect, prepareQuery, runPrepared, Worker

\* A busy thread took its task from the queue, and no task of the queue is
\* NoTask.
LEMMA PoolBusyStep ==
    ASSUME TypeOK, BusyInv, [Next]_vars
    PROVE  BusyInv'
<1> USE DEF TypeOK, BusyInv
<1>1. ASSUME NEW t \in Conn, TakeTask(t)
      PROVE  BusyInv'
  <2>1. Head(queue) \in Task
    BY <1>1 DEF TakeTask
  <2>2. Head(queue) # NoTask
    BY <2>1, TasksAssumption DEF Task, NoTask
  <2> QED
    BY <1>1, <2>2 DEF TakeTask
<1>2. ASSUME NEW x \in Conn,
             construct(x) \/ destroy(x)
               \/ \E uses \in {"conn", "stmt"} : post(x, uses)
      PROVE  BusyInv'
  BY <1>2 DEF construct, destroy, post
<1>3. ASSUME NEW t \in Conn, FinishTask(t)
      PROVE  BusyInv'
  BY <1>3 DEF FinishTask
<1>4. ASSUME NEW t \in Conn,
             CheckFlag(t) \/ StoppedOut(t) \/ CheckStopped(t) \/ RemoveThread(t)
               \/ EndThread(t)
      PROVE  BusyInv'
  BY <1>4 DEF CheckFlag, StoppedOut, CheckStopped, RemoveThread, EndThread
<1>5. ASSUME stop \/ join_all \/ Joined \/ Over \/ UNCHANGED vars
      PROVE  BusyInv'
  BY <1>5 DEF stop, join_all, Joined, Over, vars
<1> QED
  BY <1>1, <1>2, <1>3, <1>4, <1>5
  DEF Next, connect, prepareQuery, runPrepared, Worker

\* The clients' steps and a worker's keep the group's invariant and the two
\* safety properties.
LEMMA PoolSafetyStep ==
    ASSUME PoolInv, [Next]_vars
    PROVE  (GroupInv /\ EveryConnectionHasAThread /\ NoThreadAfterShutdown)'
<1> DEFINE Safe == GroupInv /\ EveryConnectionHasAThread /\ NoThreadAfterShutdown
<1> USE DEF PoolInv, TypeOK, GroupInv, InService, EveryConnectionHasAThread,
            NoThreadAfterShutdown
<1>1. ASSUME NEW x \in Conn, construct(x)
      PROVE  Safe'
  BY <1>1 DEF construct
<1>2. ASSUME NEW x \in Conn, destroy(x)
      PROVE  Safe'
  BY <1>2 DEF destroy
<1>3. ASSUME NEW x \in Conn, \E uses \in {"conn", "stmt"} : post(x, uses)
      PROVE  Safe'
  BY <1>3 DEF post
<1>4. ASSUME NEW t \in Conn, TakeTask(t) \/ FinishTask(t)
      PROVE  Safe'
  BY <1>4 DEF TakeTask, FinishTask
<1>5. ASSUME NEW t \in Conn, CheckFlag(t)
      PROVE  Safe'
  BY <1>5 DEF CheckFlag, terminatedUnique
<1>6. ASSUME NEW t \in Conn, StoppedOut(t) \/ CheckStopped(t)
      PROVE  Safe'
  BY <1>6 DEF StoppedOut, CheckStopped
<1>7. ASSUME NEW t \in Conn, RemoveThread(t)
      PROVE  Safe'
  BY <1>7 DEF RemoveThread
<1>8. ASSUME NEW t \in Conn, EndThread(t)
      PROVE  Safe'
  BY <1>8 DEF EndThread
<1>9. ASSUME stop \/ join_all
      PROVE  Safe'
  BY <1>9 DEF stop, join_all
<1>10. ASSUME Joined
       PROVE  Safe'
  BY <1>10 DEF Joined
<1>11. ASSUME Over \/ UNCHANGED vars
       PROVE  Safe'
  BY <1>11 DEF Over, vars
<1> QED
  BY <1>1, <1>2, <1>3, <1>4, <1>5, <1>6, <1>7, <1>8, <1>9, <1>10, <1>11
  DEF Next, connect, prepareQuery, runPrepared, Worker

\* The inductive invariant holds in every state of the service's behaviours.
THEOREM PoolInvariance == Spec => []PoolInv
<1>1. Init => PoolInv
  <2> SUFFICES ASSUME Init PROVE PoolInv
    OBVIOUS
  <2>1. queue \in Seq(Task)
    BY DEF Init
  <2>a. stopped \in BOOLEAN
    BY Zenon DEF Init
  <2>b. posted \in 0..MaxTasks /\ done \subseteq 1..MaxTasks /\ group \subseteq Conn
    BY TasksAssumption DEF Init
  <2>c. doing \in [Conn -> Task \cup {NoTask}]
    BY DEF Init
  <2>d. conn \in [Conn -> {"none", "live", "gone"}]
    BY DEF Init
  <2>2. TypeOK
    BY <2>a, <2>b, <2>c, <2>d, <2>1 DEF Init, TypeOK
  <2>3. BusyInv /\ GroupInv
    BY DEF Init, BusyInv, GroupInv, InService
  <2>4. EveryConnectionHasAThread /\ NoThreadAfterShutdown
    BY DEF Init, EveryConnectionHasAThread, NoThreadAfterShutdown
  <2> QED
    BY <2>2, <2>3, <2>4 DEF PoolInv
<1>2. PoolInv /\ [Next]_vars => PoolInv'
  BY PoolTypeStep, PoolBusyStep, PoolSafetyStep DEF PoolInv
<1> QED
  BY <1>1, <1>2, PTL DEF Spec

\* The service's state keeps its types, for any number of connections.
THEOREM PoolTypeCorrect == Spec => []TypeOK
BY PoolInvariance, PTL DEF PoolInv

\* Until the service stops every connection that exists has its thread in the
\* pool and in its loop, however many connections come and go.
THEOREM ThreadKept == Spec => []EveryConnectionHasAThread
BY PoolInvariance, PTL DEF PoolInv

\* Once shutdown_service has returned no thread uses the service.
THEOREM QuietShutdown == Spec => []NoThreadAfterShutdown
BY PoolInvariance, PTL DEF PoolInv
=============================================================================
