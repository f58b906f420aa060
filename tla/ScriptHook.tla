----------------------------- MODULE ScriptHook -----------------------------
(***************************************************************************)
(* Hooks implemented by Lua scripts (otservpp/script/hook): a script hook  *)
(* holds a Lua function, the application a hook::Hook made from the script *)
(* hook, and a call runs the function and translates what it returns: a    *)
(* single value (BasicHook), or a table whose values are put one by one    *)
(* into a tuple (BasicKeyedHook, ObjectToTuple), with the key of the       *)
(* offending value recorded in the exception.                              *)
(*                                                                         *)
(* Values are told apart by whether they convert to the type expected; an  *)
(* element of the tuple is named by the path of keys its value was read    *)
(* from.  Keys and Result mirror each other, as translate demands, and are *)
(* numbered alike.  A table of rows is the sequence of its rows in the     *)
(* order luabind::iterator (lua_next) visits them, which need not be that  *)
(* of their keys in the table.  Vectors of single values are left out (the *)
(* overload of put for them cannot be instantiated), as are the texts of   *)
(* the messages.                                                           *)
(***************************************************************************)
EXTENDS Integers, Sequences

CONSTANTS
    Scripts,     \* the functions scripts offer
    Keys,        \* HookKeys: "single" or "vector" for each element of the tuple
    Inner,       \* how many keys the tuples of a vector have
    RowKeys,     \* the keys rows may have in the script's table
    MaxRows      \* bound: tuples in a vector

ASSUME HookAssumption ==
    /\ Keys \in Seq({"single", "vector"}) /\ Keys # <<>>
    /\ Inner \in Nat \ {0} /\ MaxRows \in Nat /\ RowKeys \subseteq Nat

VARIABLES
    keyed,     \* the hook is a BasicKeyedHook, not a BasicHook
    func,      \* the script hook's function
    app,       \* the function of the application's Hook: "none", no such Hook
    call       \* the call being made

vars == <<keyed, func, app, call>>

\* One tuple of a vector as the script returns it, with its key in the table,
\* and all such vectors, in the order of the iterator.
Row == [key : RowKeys, table : BOOLEAN, cols : [1..Inner -> BOOLEAN]]
Rows == {rows \in UNION {[1..n -> Row] : n \in 0..MaxRows} :
            \A i, j \in DOMAIN rows : rows[i].key = rows[j].key => i = j}

\* The positions of the tuple that are vectors.
Vectors == {k \in DOMAIN Keys : Keys[k] = "vector"}

\* What the function returns: fits, it is of the BasicHook's type or a table.
\* Under each key of a table: fits, it is convertible (a vector: a table).
Value ==
    {[fits |-> t,
      fields |-> [k \in DOMAIN Keys |->
                    [fits |-> f[k], rows |-> IF k \in Vectors THEN r[k] ELSE <<>>]]] :
        t \in BOOLEAN, f \in [DOMAIN Keys -> BOOLEAN], r \in [Vectors -> Rows]}

\* phase: idle, script (the function runs), translate, fill (put of position
\* pos with the key recorder krec), rows and cols (inside a vector), returned,
\* thrown, crashed.
NoCall == [phase |-> "idle", value |-> "none", pos |-> 0, krec |-> 0, row |-> 0,
           col |-> 0, ckrec |-> 0, out |-> <<>>, thrown |-> "none", key |-> <<>>]

TypeOK ==
    /\ keyed \in BOOLEAN
    /\ func \in Scripts \cup {"null"} /\ app \in Scripts \cup {"null", "none"}
    /\ DOMAIN call = DOMAIN NoCall
    /\ call.phase \in {"idle", "script", "translate", "fill", "rows", "cols",
                       "returned", "thrown", "crashed"}
    /\ call.pos \in 0..Len(Keys) /\ call.krec \in 0..Len(Keys)
    /\ call.row \in 0..MaxRows + 1
    /\ call.col \in 0..Inner /\ call.ckrec \in 0..Inner

Init == keyed \in BOOLEAN /\ func = "null" /\ app = "none" /\ call = NoCall

----------------------------------------------------------------------------
(***************************************************************************)
(* Hooking up.  hook::Hook keeps its own copy of the script hook in a      *)
(* std::function, so what is hooked up or unhooked later does not reach    *)
(* it.  A script may do either while its function runs.                    *)
(***************************************************************************)
Loading == call.phase \in {"idle", "script"}

\* BaseBasicHook::hookUp; attach does nothing.
hookUp(f) == Loading /\ func' = f /\ UNCHANGED <<keyed, app, call>>

\* BaseBasicHook::unhook; detach does nothing.
unhook == Loading /\ func' = "null" /\ UNCHANGED <<keyed, app, call>>

\* hook::Hook's constructor and operator= from the script hook.
Assign == Loading /\ app' = func /\ UNCHANGED <<keyed, func, call>>

----------------------------------------------------------------------------
(***************************************************************************)
(* A call: hook::Hook::operator() and BaseBasicHook::operator().           *)
(***************************************************************************)

\* What leaves operator(): it logs an Exception and throws it again.
Throw(c, what, key) == [c EXCEPT !.phase = "thrown", !.thrown = what, !.key = key]

\* callScriptFunction; call_function uses the interpreter of a null object.
Call ==
    /\ call.phase = "idle" /\ app # "none"
    /\ call' = [NoCall EXCEPT !.phase = IF app = "null" THEN "crashed" ELSE "script"]
    /\ UNCHANGED <<keyed, func, app>>

\* The script raises an error: luabind::error, which is no Exception.
ScriptFails ==
    /\ call.phase = "script"
    /\ call' = Throw(call, "luabind", <<>>)
    /\ UNCHANGED <<keyed, func, app>>

ScriptReturns(v) ==
    /\ call.phase = "script"
    /\ call' = [call EXCEPT !.phase = "translate", !.value = v]
    /\ UNCHANGED <<keyed, func, app>>

\* objectCast of something that does not fit: an InvalidScriptArgument with
\* the text lua_tostring finds, or std::logic_error when it finds none.
Misfit(c, key) == {Throw(c, "argument", key), Throw(c, "logic_error", <<>>)}

\* BasicHook::translate.
TranslateSimple ==
    /\ call.phase = "translate" /\ ~keyed
    /\ IF call.value.fits
       THEN call' = [call EXCEPT !.phase = "returned", !.out = <<"value">>]
       ELSE call' \in Misfit(call, <<>>)
    /\ UNCHANGED <<keyed, func, app>>

\* expectTable and expectTableAndAppendKey, with what happens to a table.
expectTable(c, table, key, then) == IF table THEN then ELSE Throw(c, "argument", key)

\* BasicKeyedHook::translate and ObjectToTuple::translate: from the last
\* position, with the last key in the recorder.
StartFill(c) == [c EXCEPT !.phase = "fill", !.pos = Len(Keys), !.krec = Len(Keys),
                          !.out = [k \in DOMAIN Keys |-> <<>>]]

TranslateKeyed ==
    /\ call.phase = "translate" /\ keyed
    /\ call' = expectTable(call, call.value.fits, <<>>, StartFill(call))
    /\ UNCHANGED <<keyed, func, app>>

\* Mutant: fill<pos-1> with the recorder of the element just put.
FillSameKey(c) ==
    IF c.pos = 1 THEN [c EXCEPT !.phase = "returned"]
    ELSE [c EXCEPT !.phase = "fill", !.pos = @ - 1]

\* fill: after a put, the position and the recorder's key before it.
FillNext(c) ==
    IF c.pos = 1 THEN [c EXCEPT !.phase = "returned"]
    ELSE [c EXCEPT !.phase = "fill", !.pos = @ - 1, !.krec = c.pos - 1]

\* The value under the recorder's key.
Item == call.value.fields[call.krec]

\* put of a single element.
PutSingle ==
    /\ call.phase = "fill" /\ Keys[call.pos] = "single"
    /\ IF Item.fits
       THEN call' = FillNext([call EXCEPT !.out[call.pos] = <<call.krec>>])
       ELSE call' \in Misfit(call, <<call.krec>>)
    /\ UNCHANGED <<keyed, func, app>>

\* put of a vector of tuples: the value must be a table.
EnterVector(c) == [c EXCEPT !.phase = "rows", !.row = 1]

PutVector ==
    /\ call.phase = "fill" /\ Keys[call.pos] = "vector"
    /\ call' = expectTable(call, Item.fits, <<call.krec>>, EnterVector(call))
    /\ UNCHANGED <<keyed, func, app>>

\* Mutant: the index is not advanced with the iterator.
ChildOfFirst(c) == <<c.krec, 1, c.ckrec>>

\* IndexKeyRecorder: the vector's key, the index counted beside the iterator
\* and the inner key.
ChildKey(c) == <<c.krec, c.row, c.ckrec>>

\* The loop of put: the next row must be a table, a default tuple is added
\* for it, and filled from its last position.
StartRow(c) == [c EXCEPT !.phase = "cols", !.col = Inner, !.ckrec = Inner,
                         !.out[c.pos] = Append(@, [k \in 1..Inner |-> <<>>])]

PutRow ==
    /\ call.phase = "rows"
    /\ IF call.row > Len(Item.rows) THEN call' = FillNext(call)
       ELSE LET child == [call EXCEPT !.ckrec = Inner]
            IN  call' = expectTable(call, Item.rows[call.row].table, ChildKey(child),
                                    StartRow(child))
    /\ UNCHANGED <<keyed, func, app>>

\* fill inside a row.
ColNext(c) ==
    IF c.col = 1 THEN [c EXCEPT !.phase = "rows", !.row = @ + 1]
    ELSE [c EXCEPT !.col = @ - 1, !.ckrec = c.col - 1]

PutCol ==
    /\ call.phase = "cols"
    /\ IF Item.rows[call.row].cols[call.ckrec]
       THEN call' = ColNext([call EXCEPT !.out[call.pos][call.row][call.col] =
                                           ChildKey(call)])
       ELSE call' \in Misfit(call, ChildKey(call))
    /\ UNCHANGED <<keyed, func, app>>

\* The application goes on after the call.
Return ==
    /\ call.phase \in {"returned", "thrown"} /\ call' = NoCall
    /\ UNCHANGED <<keyed, func, app>>

Translate == TranslateSimple \/ TranslateKeyed \/ PutSingle \/ PutVector \/ PutRow \/ PutCol

Next ==
    \/ \E f \in Scripts : hookUp(f)
    \/ unhook \/ Assign \/ Call \/ ScriptFails \/ Return \/ Translate
    \/ \E v \in Value : ScriptReturns(v)

Spec == Init /\ [][Next]_vars

----------------------------------------------------------------------------
(***************************************************************************)
(* Properties.                                                             *)
(***************************************************************************)

\* A row that converts, and every value the keys name in v converts.
RowFits(row) == row.table /\ \A n \in 1..Inner : row.cols[n]

Fits(v) ==
    v.fits /\ \A k \in DOMAIN Keys :
        /\ v.fields[k].fits
        /\ \A i \in DOMAIN v.fields[k].rows : RowFits(v.fields[k].rows[i])

\* The tuple a table should give: under every key its own value.
Expected(v) ==
    [k \in DOMAIN Keys |->
        IF Keys[k] = "single" THEN <<k>>
        ELSE [i \in DOMAIN v.fields[k].rows |-> [n \in 1..Inner |-> <<k, i, n>>]]]

\* A call returns only when everything the keys name could be converted, and
\* then every element of the tuple, and of the tuples in its vectors, holds
\* the value found under its own key, every row of the script's table in its
\* place (hook.hpp: BasicKeyedHook::translate; object2tuple.hpp: fill, put).
AllOrError ==
    call.phase = "returned" =>
        IF keyed THEN Fits(call.value) /\ call.out = Expected(call.value)
                 ELSE call.value.fits

\* The rows have the keys 1..n and the iterator meets them in that order.
KeyedInTurn(rows) == \A i \in DOMAIN rows : rows[i].key = i

\* The rows an index in a recorded key names: the one that has it for a key in
\* a table keyed 1..n, else the one the iterator visits at that turn.
Named(rows, n) ==
    {i \in DOMAIN rows : IF KeyedInTurn(rows) THEN rows[i].key = n ELSE i = n}

\* A row that is no table is accused with its last key, of which the recorder
\* is made; a table with the last of its columns that does not convert.
RowCulprit(row, n) ==
    IF row.table THEN ~row.cols[n] /\ \A m \in (n + 1)..Inner : row.cols[m]
                 ELSE n = Inner

\* The key recorded in an InvalidScriptArgument leads to the value of the table
\* that stopped the translation: the value under the key, or under the inner
\* key of the row the index names, none of the rows before it being at fault;
\* without a key it is the returned value itself (object2tuple.hpp:
\* KeyRecorder, IndexKeyRecorder).  The index is the row's key only in a table
\* keyed 1..n and visited in that order: put counts it beside the iterator.
Culprit ==
    call.thrown = "argument" =>
        LET v == call.value  k == call.key
        IN  CASE Len(k) = 0 -> ~v.fits
              [] Len(k) = 1 -> v.fits /\ ~v.fields[k[1]].fits
              [] OTHER ->
                   LET rows == v.fields[k[1]].rows
                   IN  /\ v.fields[k[1]].fits /\ Named(rows, k[2]) # {}
                       /\ \A i \in Named(rows, k[2]) :
                             /\ RowCulprit(rows[i], k[3])
                             /\ \A j \in 1..(i - 1) : RowFits(rows[j])
=============================================================================
