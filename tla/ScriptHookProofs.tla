-------------------------- MODULE ScriptHookProofs --------------------------
(***************************************************************************)
(* Proofs about ScriptHook, for every tuple of keys and every table a      *)
(* script may return: a call returns the whole tuple or throws, and the    *)
(* key in the exception leads to a value that does not convert.            *)
(*                                                                         *)
(* AllOrError is about the end of a call only.  The invariant says what    *)
(* was converted at every point of it: fill goes from the last position to *)
(* the first, and inside a vector from the first row to the last, each row *)
(* from its last column.                                                   *)
(***************************************************************************)
EXTENDS ScriptHook, TLAPS

\* What the elements of the tuple hold: the path of a single value, or a
\* sequence of tuples of paths.
Path == Seq(Nat)
Tuple == [1..Inner -> Path]
Filling == [DOMAIN Keys -> Path \cup Seq(Tuple)]

Calls ==
    [phase : {"idle", "script", "translate", "fill", "rows", "cols",
              "returned", "thrown", "crashed"},
     value : Value \cup {"none"},
     pos : 0..Len(Keys), krec : 0..Len(Keys), row : 0..MaxRows + 1,
     col : 0..Inner, ckrec : 0..Inner,
     out : {<<>>, <<"value">>} \cup Filling,
     thrown : {"none", "luabind", "argument", "logic_error"}, key : Path]

\* A value that converts; position k of the tuple, once it was put.
FieldFits(f) == f.fits /\ \A i \in DOMAIN f.rows : RowFits(f.rows[i])
Done(c, k) == FieldFits(c.value.fields[k]) /\ c.out[k] = Expected(c.value)[k]

\* The key of an exception accuses a value that does not convert.
Accuses(key, v) ==
    \/ key = <<>> /\ ~v.fits
    \/ \E k \in DOMAIN Keys : key = <<k>> /\ v.fits /\ ~v.fields[k].fits
    \/ \E k \in DOMAIN Keys, n \in 1..Inner : \E i \in DOMAIN v.fields[k].rows :
          /\ key = <<k, i, n>>
          /\ v.fields[k].fits
          /\ RowCulprit(v.fields[k].rows[i], n)
          /\ \A j \in 1..(i - 1) : RowFits(v.fields[k].rows[j])

\* fill: the positions behind pos are done, those before it untouched, and the
\* recorder has the key of pos.
FillInv(c) ==
    /\ c.value \in Value /\ c.value.fits
    /\ c.pos \in DOMAIN Keys /\ c.krec = c.pos
    /\ c.out \in Filling
    /\ \A k \in DOMAIN Keys : k > c.pos => Done(c, k)

\* Inside a vector the rows before this one are in their places.
VectorInv(c) ==
    /\ Keys[c.pos] = "vector" /\ c.value.fields[c.pos].fits
    /\ c.out[c.pos] \in Seq(Tuple)
    /\ c.row \in 1..Len(c.value.fields[c.pos].rows) + 1
    /\ \A i \in 1..(c.row - 1) :
          /\ RowFits(c.value.fields[c.pos].rows[i])
          /\ c.out[c.pos][i] = [n \in 1..Inner |-> <<c.pos, i, n>>]

\* Inside a row the columns behind this one are.
RowInv(c) ==
    /\ c.row <= Len(c.value.fields[c.pos].rows)
    /\ c.value.fields[c.pos].rows[c.row].table
    /\ c.col \in 1..Inner /\ c.ckrec = c.col
    /\ \A n \in (c.col + 1)..Inner :
          /\ c.value.fields[c.pos].rows[c.row].cols[n]
          /\ c.out[c.pos][c.row][n] = <<c.pos, c.row, n>>

\* The tuple is whole.
Whole(c) == c.value \in Value /\ Fits(c.value) /\ c.out = Expected(c.value)

\* What holds of a call c of a hook that is keyed or not, in each phase.
PhaseInv(k, c) ==
    /\ c.phase = "translate" => c.value \in Value
    /\ c.phase \in {"fill", "rows", "cols"} => k /\ FillInv(c)
    /\ c.phase = "fill" => c.out[c.pos] = <<>>
    /\ c.phase \in {"fill", "rows", "cols"} =>
          \A j \in DOMAIN Keys : j < c.pos => c.out[j] = <<>>
    /\ c.phase \in {"rows", "cols"} => VectorInv(c)
    /\ c.phase = "rows" => Len(c.out[c.pos]) = c.row - 1
    /\ c.phase = "cols" => RowInv(c) /\ Len(c.out[c.pos]) = c.row
    /\ c.phase = "returned" => IF k THEN Whole(c) ELSE c.value.fits
    /\ c.thrown = "argument" => Accuses(c.key, c.value)
    /\ c.phase # "thrown" => c.thrown = "none"

Inv(k, c) == c \in Calls /\ PhaseInv(k, c)

IInv ==
    /\ keyed \in BOOLEAN /\ func \in Scripts \cup {"null"}
    /\ app \in Scripts \cup {"null", "none"}
    /\ Inv(keyed, call)

-----------------------------------------------------------------------------
(* What a script's value is made of *)

\* A function on 1..n is a sequence of length n.
LEMMA FunctionIsSeq ==
    ASSUME NEW S, NEW n \in Nat, NEW f \in [1..n -> S]
    PROVE  f \in Seq(S) /\ Len(f) = n /\ DOMAIN f = 1..n
OBVIOUS

\* The rows under a key are a sequence of rows, and none under a single one.
LEMMA FieldFacts ==
    ASSUME NEW v \in Value, NEW k \in DOMAIN Keys
    PROVE  /\ k \in 1..Len(Keys)
           /\ Keys[k] \in {"single", "vector"}
           /\ v.fields[k].fits \in BOOLEAN
           /\ v.fields[k].rows \in Seq(Row)
           /\ Len(v.fields[k].rows) \in 0..MaxRows
           /\ Keys[k] = "single" => v.fields[k].rows = <<>>
<1>1. k \in 1..Len(Keys) /\ Keys[k] \in {"single", "vector"}
  BY HookAssumption
<1>2. PICK t \in BOOLEAN, f \in [DOMAIN Keys -> BOOLEAN], r \in [Vectors -> Rows] :
        v = [fits |-> t,
             fields |-> [j \in DOMAIN Keys |->
               [fits |-> f[j], rows |-> IF j \in Vectors THEN r[j] ELSE <<>>]]]
  BY DEF Value
<1>3. /\ v.fields[k].fits = f[k]
      /\ v.fields[k].rows = IF k \in Vectors THEN r[k] ELSE <<>>
  BY <1>2
<1>4. v.fields[k].fits \in BOOLEAN
  BY <1>3
<1>5. CASE k \notin Vectors
  <2>1. v.fields[k].rows = <<>> /\ Keys[k] = "single"
    BY <1>1, <1>3, <1>5 DEF Vectors
  <2>2. <<>> \in Seq(Row) /\ Len(<<>>) = 0
    OBVIOUS
  <2>3. 0 \in 0..MaxRows
    BY HookAssumption
  <2> QED
    BY <1>1, <1>4, <2>1, <2>2, <2>3
<1>6. CASE k \in Vectors
  <2>1. v.fields[k].rows \in Rows /\ Keys[k] = "vector"
    BY <1>3, <1>6 DEF Vectors
  <2>2. PICK n \in 0..MaxRows : v.fields[k].rows \in [1..n -> Row]
    BY <2>1 DEF Rows
  <2>3. n \in Nat
    BY HookAssumption
  <2>4. v.fields[k].rows \in Seq(Row) /\ Len(v.fields[k].rows) = n
    BY <2>2, <2>3, FunctionIsSeq
  <2> QED
    BY <1>1, <1>4, <2>1, <2>4
<1> QED
  BY <1>5, <1>6

LEMMA ValueFacts ==
    ASSUME NEW v \in Value
    PROVE  v.fits \in BOOLEAN
BY DEF Value

\* A position that was put holds what it should; Fits and Expected are about
\* all of them.
LEMMA AllDone ==
    ASSUME NEW c \in Calls, c.value \in Value, c.value.fits,
           c.out \in Filling, \A k \in DOMAIN Keys : Done(c, k)
    PROVE  Whole(c)
<1>1. Fits(c.value)
  BY DEF Fits, Done, FieldFits, RowFits
<1>2. \A k \in DOMAIN Keys : c.out[k] = Expected(c.value)[k]
  BY DEF Done
<1>3. DOMAIN c.out = DOMAIN Keys /\ DOMAIN Expected(c.value) = DOMAIN Keys
  BY DEF Expected, Filling
<1>4. c.out = [k \in DOMAIN Keys |-> c.out[k]]
  BY DEF Filling
<1>5. Expected(c.value) = [k \in DOMAIN Keys |-> Expected(c.value)[k]]
  BY DEF Expected
<1>6. c.out = Expected(c.value)
  BY <1>2, <1>4, <1>5
<1> QED
  BY <1>1, <1>6 DEF Whole
-----------------------------------------------------------------------------
(* The steps of a call *)

\* Throwing ends a call; an InvalidScriptArgument carries a key that accuses.
LEMMA Throwing ==
    ASSUME NEW k \in BOOLEAN, NEW c, Inv(k, c),
           NEW what \in {"luabind", "argument", "logic_error"}, NEW key \in Path,
           what = "argument" => Accuses(key, c.value)
    PROVE  Inv(k, Throw(c, what, key))
<1> DEFINE d == Throw(c, what, key)
<1>1. c \in Calls
  BY DEF Inv
<1>2. /\ d \in Calls
      /\ d.phase = "thrown" /\ d.thrown = what /\ d.key = key /\ d.value = c.value
  BY <1>1 DEF Throw, Calls
<1> HIDE DEF d
<1>3. PhaseInv(k, d)
  BY <1>2 DEF PhaseInv
<1> QED
  BY <1>2, <1>3 DEF Inv, d

LEMMA Misfitting ==
    ASSUME NEW k \in BOOLEAN, NEW c, Inv(k, c), NEW key \in Path,
           Accuses(key, c.value), NEW d \in Misfit(c, key)
    PROVE  Inv(k, d)
<1>1. Inv(k, Throw(c, "argument", key))
  BY Throwing
<1>2. <<>> \in Path
  BY DEF Path
<1>3. Inv(k, Throw(c, "logic_error", <<>>))
  BY <1>2, Throwing
<1> QED
  BY <1>1, <1>3 DEF Misfit

\* The position pos has been put, and so have those behind it.
Put(c) ==
    /\ c \in Calls /\ c.thrown = "none"
    /\ FillInv(c) /\ Done(c, c.pos)
    /\ \A j \in DOMAIN Keys : j < c.pos => c.out[j] = <<>>

\* fill goes on with the position before, or returns when there is none.
LEMMA Filled ==
    ASSUME NEW c, Put(c)
    PROVE  Inv(TRUE, FillNext(c))
<1> DEFINE d == FillNext(c)
<1>1. c \in Calls /\ c.thrown = "none"
  BY DEF Put
<1>2. /\ c.value \in Value /\ c.value.fits /\ c.out \in Filling
      /\ c.pos \in 1..Len(Keys) /\ DOMAIN Keys = 1..Len(Keys) /\ Len(Keys) \in Nat
  BY HookAssumption DEF Put, FillInv
<1>3. \A j \in DOMAIN Keys : j >= c.pos => Done(c, j)
  BY <1>2 DEF Put, FillInv
<1>4. CASE c.pos = 1
  <2>1. \A j \in DOMAIN Keys : Done(c, j)
    BY <1>2, <1>3, <1>4
  <2>2. Whole(c)
    BY <1>1, <1>2, <2>1, AllDone
  <2>3. /\ d \in Calls /\ d.phase = "returned" /\ d.value = c.value /\ d.out = c.out
        /\ d.thrown = "none"
    BY <1>1, <1>4 DEF FillNext, Calls
  <2>4. Whole(d)
    BY <2>2, <2>3 DEF Whole
  <2> HIDE DEF d
  <2> QED
    BY <2>3, <2>4 DEF Inv, PhaseInv, d
<1>5. CASE c.pos # 1
  <2>1. c.pos - 1 \in DOMAIN Keys /\ c.pos - 1 \in 0..Len(Keys)
    BY <1>2, <1>5
  <2>2. /\ d \in Calls /\ d.phase = "fill" /\ d.value = c.value /\ d.out = c.out
        /\ d.pos = c.pos - 1 /\ d.krec = c.pos - 1 /\ d.thrown = "none"
    BY <1>1, <1>5, <2>1 DEF FillNext, Calls
  <2>h. d = FillNext(c)
    OBVIOUS
  <2> HIDE DEF d
  <2>3. \A j \in DOMAIN Keys : j > d.pos => Done(d, j)
    BY <1>2, <1>3, <2>2 DEF Done
  <2>4. \A j \in DOMAIN Keys : j <= d.pos => d.out[j] = <<>>
    BY <1>2, <2>2 DEF Put
  <2>5. FillInv(d)
    BY <1>2, <2>1, <2>2, <2>3 DEF FillInv
  <2>6. PhaseInv(TRUE, d)
    <3>1. d.out[d.pos] = <<>> /\ \A j \in DOMAIN Keys : j < d.pos => d.out[j] = <<>>
      BY <1>2, <2>1, <2>2, <2>4
    <3> QED
      BY <2>2, <2>5, <3>1 DEF PhaseInv
  <2> QED
    BY <2>2, <2>6, <2>h DEF Inv
<1> QED
  BY <1>4, <1>5

\* The first put: nothing is in the tuple yet.
LEMMA Starting ==
    ASSUME NEW c, Inv(TRUE, c), c.phase = "translate", c.value.fits
    PROVE  Inv(TRUE, StartFill(c))
<1> DEFINE d == StartFill(c)
<1>1. c \in Calls /\ c.thrown = "none" /\ c.value \in Value
  BY DEF Inv, PhaseInv
<1>2. DOMAIN Keys = 1..Len(Keys) /\ Len(Keys) \in Nat /\ Len(Keys) # 0
  BY HookAssumption
<1>3. <<>> \in Path
  BY DEF Path
<1>4. [k \in DOMAIN Keys |-> <<>>] \in Filling
  BY <1>3 DEF Filling
<1>5. /\ d \in Calls /\ d.phase = "fill" /\ d.value = c.value /\ d.thrown = "none"
      /\ d.pos = Len(Keys) /\ d.krec = Len(Keys)
      /\ d.out = [k \in DOMAIN Keys |-> <<>>]
  <2> DEFINE o == [k \in DOMAIN Keys |-> <<>>]
  <2>1. o \in Filling /\ Len(Keys) \in 0..Len(Keys)
    BY <1>2, <1>4
  <2>2. d = [c EXCEPT !.phase = "fill", !.pos = Len(Keys), !.krec = Len(Keys), !.out = o]
    BY DEF StartFill
  <2> HIDE DEF o, d
  <2>3. /\ d \in Calls /\ d.phase = "fill" /\ d.value = c.value /\ d.thrown = "none"
        /\ d.pos = Len(Keys) /\ d.krec = Len(Keys) /\ d.out = o
    BY <1>1, <2>1, <2>2 DEF Calls
  <2> QED
    BY <2>3 DEF o
<1>h. d = StartFill(c)
  OBVIOUS
<1> HIDE DEF d
<1>6. FillInv(d)
  <2>1. d.pos \in DOMAIN Keys /\ d.out \in Filling /\ d.krec = d.pos
    BY <1>2, <1>4, <1>5
  <2>2. \A j \in DOMAIN Keys : ~(j > d.pos)
    BY <1>2, <1>5
  <2> QED
    BY <1>1, <1>5, <2>1, <2>2 DEF FillInv
<1>7. PhaseInv(TRUE, d)
  BY <1>2, <1>5, <1>6 DEF PhaseInv
<1> QED
  BY <1>5, <1>7, <1>h DEF Inv

\* The facts every put starts from.
LEMMA AtPosition ==
    ASSUME NEW c, Inv(TRUE, c), c.phase \in {"fill", "rows", "cols"}
    PROVE  /\ c \in Calls /\ c.thrown = "none"
           /\ FillInv(c) /\ c.value \in Value /\ c.value.fits
           /\ c.pos \in DOMAIN Keys /\ c.pos \in 1..Len(Keys) /\ c.krec = c.pos
           /\ c.pos \in Nat /\ DOMAIN Keys = 1..Len(Keys)
           /\ c.out \in Filling
           /\ \A j \in DOMAIN Keys : j > c.pos => Done(c, j)
           /\ \A j \in DOMAIN Keys : j < c.pos => c.out[j] = <<>>
<1>1. c \in Calls /\ c.thrown = "none" /\ FillInv(c)
  BY DEF Inv, PhaseInv
<1>2. \A j \in DOMAIN Keys : j < c.pos => c.out[j] = <<>>
  BY DEF Inv, PhaseInv
<1>3. DOMAIN Keys = 1..Len(Keys) /\ Len(Keys) \in Nat
  BY HookAssumption
<1> QED
  BY <1>1, <1>2, <1>3 DEF FillInv

\* A position of which only the element of the tuple changes.
LEMMA OtherPositions ==
    ASSUME NEW c \in Calls, NEW d, c.out \in Filling, c.pos \in DOMAIN Keys, NEW x,
           d.value = c.value, d.out = [c.out EXCEPT ![c.pos] = x],
           NEW j \in DOMAIN Keys, j # c.pos
    PROVE  d.out[j] = c.out[j] /\ (Done(c, j) => Done(d, j))
<1>1. d.out[j] = c.out[j]
  BY DEF Filling
<1> QED
  BY <1>1 DEF Done

\* A single value, under its own key.
LEMMA SinglePut ==
    ASSUME NEW c, Inv(TRUE, c), c.phase = "fill", Keys[c.pos] = "single",
           c.value.fields[c.krec].fits
    PROVE  Put([c EXCEPT !.out[c.pos] = <<c.krec>>])
<1> DEFINE d == [c EXCEPT !.out[c.pos] = <<c.krec>>]
<1> SUFFICES Put(d)
  OBVIOUS
<1>1. /\ c \in Calls /\ c.thrown = "none" /\ c.value \in Value /\ c.value.fits
      /\ c.pos \in DOMAIN Keys /\ c.krec = c.pos /\ c.pos \in Nat
      /\ DOMAIN Keys = 1..Len(Keys) /\ c.out \in Filling
      /\ \A j \in DOMAIN Keys : j > c.pos => Done(c, j)
      /\ \A j \in DOMAIN Keys : j < c.pos => c.out[j] = <<>>
  BY AtPosition
<1>2. <<c.pos>> \in Path
  BY <1>1 DEF Path
<1>3. [c.out EXCEPT ![c.pos] = <<c.pos>>] \in Filling
  BY <1>1, <1>2 DEF Filling
<1>4. /\ d \in Calls /\ d.thrown = "none" /\ d.value = c.value
      /\ d.pos = c.pos /\ d.krec = c.pos
      /\ d.out = [c.out EXCEPT ![c.pos] = <<c.pos>>]
  BY <1>1, <1>3 DEF Calls
<1> HIDE DEF d
<1>5. \A j \in DOMAIN Keys : j # c.pos => d.out[j] = c.out[j] /\ (Done(c, j) => Done(d, j))
  BY <1>1, <1>4, OtherPositions
<1>6. Done(d, d.pos)
  <2>1. d.out[c.pos] = <<c.pos>>
    BY <1>1, <1>4 DEF Filling
  <2>2. Expected(c.value)[c.pos] = <<c.pos>>
    BY <1>1 DEF Expected
  <2>3. c.value.fields[c.pos].rows = <<>>
    BY <1>1, FieldFacts
  <2>4. FieldFits(c.value.fields[c.pos])
    BY <1>1, <2>3 DEF FieldFits
  <2> QED
    BY <1>4, <2>1, <2>2, <2>4 DEF Done
<1>7. FillInv(d)
  <2>1. \A j \in DOMAIN Keys : j > d.pos => Done(d, j)
    BY <1>1, <1>4, <1>5
  <2> QED
    BY <1>1, <1>3, <1>4, <2>1 DEF FillInv
<1>8. \A j \in DOMAIN Keys : j < d.pos => d.out[j] = <<>>
  BY <1>1, <1>4, <1>5
<1> QED
  BY <1>4, <1>6, <1>7, <1>8 DEF Put

\* A vector's table: before its first row.
LEMMA VectorEntered ==
    ASSUME NEW c, Inv(TRUE, c), c.phase = "fill", Keys[c.pos] = "vector",
           c.value.fields[c.krec].fits
    PROVE  Inv(TRUE, EnterVector(c))
<1> DEFINE d == EnterVector(c)
<1> SUFFICES Inv(TRUE, d)
  OBVIOUS
<1>1. /\ c \in Calls /\ c.thrown = "none" /\ FillInv(c) /\ c.value \in Value
      /\ c.pos \in DOMAIN Keys /\ c.krec = c.pos
      /\ \A j \in DOMAIN Keys : j < c.pos => c.out[j] = <<>>
  BY AtPosition
<1>2. c.out[c.pos] = <<>>
  BY DEF Inv, PhaseInv
<1>3. 1 \in 0..MaxRows + 1
  BY HookAssumption
<1>4. /\ d \in Calls /\ d.phase = "rows" /\ d.row = 1 /\ d.thrown = "none"
      /\ d.value = c.value /\ d.pos = c.pos /\ d.krec = c.krec /\ d.out = c.out
  BY <1>1, <1>3 DEF EnterVector, Calls
<1> HIDE DEF d
<1>5. FillInv(d)
  BY <1>1, <1>4 DEF FillInv, Done
<1>6. Len(c.value.fields[c.pos].rows) \in Nat
  BY <1>1, FieldFacts
<1>7. <<>> \in Seq(Tuple) /\ Len(<<>>) = 0
  OBVIOUS
<1>8. VectorInv(d)
  <2>1. d.row \in 1..Len(d.value.fields[d.pos].rows) + 1
    <3>1. \A m \in Nat : 1 \in 1..m + 1
      OBVIOUS
    <3> QED
      BY <1>4, <1>6, <3>1
  <2>3. \A i \in 1..(d.row - 1) : FALSE
    BY <1>4
  <2>2. Keys[d.pos] = "vector" /\ d.value.fields[d.pos].fits /\ d.out[d.pos] = <<>>
    BY <1>1, <1>2, <1>4
  <2> QED
    BY <1>7, <2>1, <2>2, <2>3 DEF VectorInv
<1>9. PhaseInv(TRUE, d)
  BY <1>1, <1>2, <1>4, <1>5, <1>7, <1>8 DEF PhaseInv
<1> QED
  BY <1>4, <1>9 DEF Inv

\* The facts inside a vector: its rows, and the tuples put so far.
LEMMA InVector ==
    ASSUME NEW c, Inv(TRUE, c), c.phase \in {"rows", "cols"}
    PROVE  /\ VectorInv(c) /\ Keys[c.pos] = "vector" /\ c.value.fields[c.pos].fits
           /\ c.value.fields[c.pos].rows \in Seq(Row)
           /\ Len(c.value.fields[c.pos].rows) \in Nat
           /\ Len(c.value.fields[c.pos].rows) <= MaxRows
           /\ DOMAIN c.value.fields[c.pos].rows = 1..Len(c.value.fields[c.pos].rows)
           /\ c.out[c.pos] \in Seq(Tuple)
           /\ c.row \in Nat /\ 1 <= c.row
           /\ c.row <= Len(c.value.fields[c.pos].rows) + 1
<1>1. VectorInv(c)
  BY DEF Inv, PhaseInv
<1>2. c.value \in Value /\ c.pos \in DOMAIN Keys
  BY AtPosition
<1>3. /\ c.value.fields[c.pos].rows \in Seq(Row)
      /\ Len(c.value.fields[c.pos].rows) \in 0..MaxRows
  BY <1>2, FieldFacts
<1>4. Len(c.value.fields[c.pos].rows) \in Nat /\ Len(c.value.fields[c.pos].rows) <= MaxRows
  BY <1>3, HookAssumption
<1>5. \A m \in Nat : \A r \in 1..m + 1 : r \in Nat /\ 1 <= r /\ r <= m + 1
  OBVIOUS
<1>6. c.row \in 1..Len(c.value.fields[c.pos].rows) + 1
  BY <1>1 DEF VectorInv
<1> QED
  BY <1>1, <1>3, <1>4, <1>5, <1>6 DEF VectorInv

\* Behind its last row the vector is put.
LEMMA VectorPut ==
    ASSUME NEW c, Inv(TRUE, c), c.phase = "rows",
           c.row > Len(c.value.fields[c.krec].rows)
    PROVE  Put(c)
<1> DEFINE rows == c.value.fields[c.pos].rows
           o == c.out[c.pos]
<1>1. /\ c \in Calls /\ c.thrown = "none" /\ FillInv(c)
      /\ c.pos \in DOMAIN Keys /\ c.krec = c.pos
      /\ \A j \in DOMAIN Keys : j < c.pos => c.out[j] = <<>>
  BY AtPosition
<1>2. /\ VectorInv(c) /\ Keys[c.pos] = "vector" /\ c.value.fields[c.pos].fits
      /\ Len(rows) \in Nat /\ DOMAIN rows = 1..Len(rows)
      /\ o \in Seq(Tuple) /\ c.row \in Nat /\ c.row <= Len(rows) + 1
  BY InVector
<1>3. c.row - 1 = Len(rows)
  <2>1. \A m, r \in Nat : r > m /\ r <= m + 1 => r - 1 = m
    OBVIOUS
  <2>2. c.row > Len(rows)
    BY <1>1
  <2> HIDE DEF rows
  <2> QED
    BY <1>2, <2>1, <2>2
<1>4. \A i \in DOMAIN rows : RowFits(rows[i]) /\ o[i] = [n \in 1..Inner |-> <<c.pos, i, n>>]
  BY <1>2, <1>3 DEF VectorInv
<1>5. Len(o) = c.row - 1
  BY DEF Inv, PhaseInv
<1>6. o = [i \in DOMAIN rows |-> [n \in 1..Inner |-> <<c.pos, i, n>>]]
  <2> HIDE DEF rows, o
  <2>1. o = [i \in 1..Len(o) |-> o[i]]
    BY <1>2
  <2>2. DOMAIN rows = 1..Len(o)
    BY <1>2, <1>3, <1>5
  <2> QED
    BY <1>4, <2>1, <2>2
<1>7. Expected(c.value)[c.pos] = [i \in DOMAIN rows |-> [n \in 1..Inner |-> <<c.pos, i, n>>]]
  BY <1>1, <1>2 DEF Expected
<1>8. FieldFits(c.value.fields[c.pos])
  BY <1>2, <1>4 DEF FieldFits
<1>9. Done(c, c.pos)
  BY <1>6, <1>7, <1>8 DEF Done
<1> QED
  BY <1>1, <1>9 DEF Put

\* A tuple appended to the ones before it leaves them as they are.
LEMMA TupleAppended ==
    ASSUME NEW o \in Seq(Tuple), NEW t \in Tuple
    PROVE  /\ Append(o, t) \in Seq(Tuple) /\ Len(Append(o, t)) = Len(o) + 1
           /\ \A i \in 1..Len(o) : Append(o, t)[i] = o[i]
OBVIOUS

\* A row's table: a default tuple is added, of which nothing is put yet.
LEMMA RowStarted ==
    ASSUME NEW c, Inv(TRUE, c), c.phase = "rows",
           c.row <= Len(c.value.fields[c.krec].rows),
           c.value.fields[c.krec].rows[c.row].table
    PROVE  Inv(TRUE, StartRow([c EXCEPT !.ckrec = Inner]))
<1> DEFINE b == [c EXCEPT !.ckrec = Inner]
           t == [k \in 1..Inner |-> <<>>]
           o == c.out[c.pos]
           x == Append(o, t)
           d == StartRow(b)
<1> SUFFICES Inv(TRUE, d)
  OBVIOUS
<1>1. /\ c \in Calls /\ c.thrown = "none" /\ c.value \in Value /\ c.value.fits
      /\ c.pos \in DOMAIN Keys /\ c.krec = c.pos /\ c.pos \in Nat
      /\ DOMAIN Keys = 1..Len(Keys) /\ c.out \in Filling
      /\ \A j \in DOMAIN Keys : j > c.pos => Done(c, j)
      /\ \A j \in DOMAIN Keys : j < c.pos => c.out[j] = <<>>
  BY AtPosition
<1>2. /\ VectorInv(c) /\ Keys[c.pos] = "vector" /\ c.value.fields[c.pos].fits
      /\ o \in Seq(Tuple) /\ c.row \in Nat
  BY InVector
<1>3. Len(o) = c.row - 1
  BY DEF Inv, PhaseInv
<1>4. t \in Tuple
  <2>1. <<>> \in Path
    BY DEF Path
  <2> QED
    BY <2>1 DEF Tuple
<1>5. Inner \in 0..Inner /\ Inner \in 1..Inner
  BY HookAssumption
<1>6. /\ x \in Seq(Tuple) /\ Len(x) = Len(o) + 1
      /\ \A i \in 1..Len(o) : x[i] = o[i]
  <2> HIDE DEF t, o
  <2> QED
    BY <1>2, <1>4, TupleAppended
<1>7. Len(x) = c.row /\ \A i \in 1..(c.row - 1) : x[i] = o[i]
  <2> HIDE DEF t, o, x
  <2> QED
    BY <1>2, <1>3, <1>6
<1>8. d = [c EXCEPT !.phase = "cols", !.col = Inner, !.ckrec = Inner,
                    !.out = [c.out EXCEPT ![c.pos] = x]]
  <2>1. b \in Calls /\ b.pos = c.pos /\ b.out = c.out
    BY <1>1, <1>5 DEF Calls
  <2> QED
    BY <1>1, <2>1 DEF StartRow, Calls
<1> HIDE DEF t, o, b, d, x
<1>9. [c.out EXCEPT ![c.pos] = x] \in Filling
  BY <1>1, <1>6 DEF Filling
<1>10. /\ d \in Calls /\ d.phase = "cols" /\ d.col = Inner /\ d.ckrec = Inner
       /\ d.out = [c.out EXCEPT ![c.pos] = x] /\ d.value = c.value /\ d.thrown = "none"
       /\ d.pos = c.pos /\ d.krec = c.pos /\ d.row = c.row
  BY <1>1, <1>5, <1>8, <1>9 DEF Calls
<1>11. \A j \in DOMAIN Keys : j # c.pos => d.out[j] = c.out[j] /\ (Done(c, j) => Done(d, j))
  BY <1>1, <1>10, OtherPositions
<1>12. d.out[c.pos] = x
  BY <1>1, <1>10 DEF Filling
<1>13. FillInv(d)
  <2>1. \A j \in DOMAIN Keys : j > d.pos => Done(d, j)
    BY <1>1, <1>10, <1>11
  <2> QED
    BY <1>1, <1>9, <1>10, <2>1 DEF FillInv
<1>14. VectorInv(d)
  BY <1>2, <1>6, <1>7, <1>10, <1>12 DEF VectorInv, o
<1>15. RowInv(d)
  <2>1. \A n \in (d.col + 1)..Inner : FALSE
    BY <1>10, HookAssumption
  <2>2. d.row <= Len(d.value.fields[d.pos].rows) /\ d.value.fields[d.pos].rows[d.row].table
    BY <1>1, <1>10
  <2> QED
    BY <1>5, <1>10, <2>1, <2>2 DEF RowInv
<1>16. \A j \in DOMAIN Keys : j < d.pos => d.out[j] = <<>>
  BY <1>1, <1>10, <1>11
<1>17. PhaseInv(TRUE, d)
  BY <1>7, <1>10, <1>12, <1>13, <1>14, <1>15, <1>16 DEF PhaseInv
<1> QED
  BY <1>10, <1>17 DEF Inv

\* A row that is no table is accused with its index.
LEMMA RowAccused ==
    ASSUME NEW c, Inv(TRUE, c), c.phase \in {"rows", "cols"},
           c.row <= Len(c.value.fields[c.krec].rows), NEW n \in 1..Inner,
           RowCulprit(c.value.fields[c.krec].rows[c.row], n)
    PROVE  /\ Accuses(<<c.krec, c.row, n>>, c.value)
           /\ <<c.krec, c.row, n>> \in Path
<1>1. c.pos \in DOMAIN Keys /\ c.krec = c.pos /\ c.pos \in Nat
  BY AtPosition
<1>2. /\ c.value.fields[c.pos].fits /\ c.row \in Nat /\ 1 <= c.row
      /\ DOMAIN c.value.fields[c.pos].rows = 1..Len(c.value.fields[c.pos].rows)
      /\ Len(c.value.fields[c.pos].rows) \in Nat
  BY InVector
<1>3. c.row \in DOMAIN c.value.fields[c.pos].rows
  <2>1. \A m, r \in Nat : 1 <= r /\ r <= m => r \in 1..m
    OBVIOUS
  <2>2. c.row <= Len(c.value.fields[c.pos].rows)
    BY <1>1
  <2> QED
    BY <1>2, <2>1, <2>2
<1>4. n \in Nat
  BY HookAssumption
<1>5. <<c.krec, c.row, n>> \in Path
  BY <1>1, <1>2, <1>4 DEF Path
<1>6. \A j \in 1..(c.row - 1) : RowFits(c.value.fields[c.pos].rows[j])
  BY DEF Inv, PhaseInv, VectorInv
<1>7. Accuses(<<c.krec, c.row, n>>, c.value)
  BY <1>1, <1>2, <1>3, <1>6 DEF Accuses
<1> QED
  BY <1>5, <1>7

\* Replacing one tuple of a sequence leaves the others as they are.
LEMMA TupleReplaced ==
    ASSUME NEW o \in Seq(Tuple), NEW r \in 1..Len(o), NEW t \in Tuple
    PROVE  /\ [o EXCEPT ![r] = t] \in Seq(Tuple) /\ Len([o EXCEPT ![r] = t]) = Len(o)
           /\ [o EXCEPT ![r] = t][r] = t
           /\ \A i \in 1..Len(o) : i # r => [o EXCEPT ![r] = t][i] = o[i]
OBVIOUS

ColFits(c) == c.value.fields[c.krec].rows[c.row].cols[c.ckrec]

\* A value of a row, under its own key; behind the first column the next row.
LEMMA ColPut ==
    ASSUME NEW c, Inv(TRUE, c), c.phase = "cols", ColFits(c)
    PROVE  Inv(TRUE, ColNext([c EXCEPT !.out[c.pos][c.row][c.col] = ChildKey(c)]))
<1> DEFINE v == c.value.fields[c.pos]
           o == c.out[c.pos]
           path == <<c.pos, c.row, c.col>>
           y == [o[c.row] EXCEPT ![c.col] = path]
           x == [o EXCEPT ![c.row] = y]
           e == [c EXCEPT !.out[c.pos][c.row][c.col] = ChildKey(c)]
           d == ColNext(e)
<1> SUFFICES Inv(TRUE, d)
  OBVIOUS
<1>1. /\ c \in Calls /\ c.thrown = "none" /\ c.value \in Value /\ c.value.fits
      /\ c.pos \in DOMAIN Keys /\ c.krec = c.pos /\ c.pos \in Nat
      /\ DOMAIN Keys = 1..Len(Keys) /\ c.out \in Filling
      /\ \A j \in DOMAIN Keys : j > c.pos => Done(c, j)
      /\ \A j \in DOMAIN Keys : j < c.pos => c.out[j] = <<>>
  BY AtPosition
<1>2. /\ VectorInv(c) /\ Keys[c.pos] = "vector" /\ v.fits
      /\ o \in Seq(Tuple) /\ c.row \in Nat /\ 1 <= c.row
      /\ Len(v.rows) \in Nat /\ Len(v.rows) <= MaxRows
  BY InVector
<1>3. RowInv(c) /\ Len(o) = c.row
  BY DEF Inv, PhaseInv
<1>4. /\ c.row <= Len(v.rows) /\ v.rows[c.row].table
      /\ c.col \in 1..Inner /\ c.ckrec = c.col
      /\ \A n \in (c.col + 1)..Inner :
            v.rows[c.row].cols[n] /\ o[c.row][n] = <<c.pos, c.row, n>>
  BY <1>3 DEF RowInv
<1>5. Inner \in Nat /\ MaxRows \in Nat /\ c.col \in Nat /\ 1 <= c.col /\ c.col <= Inner
  <2>1. c.col \in 1..Inner
    BY <1>4
  <2> QED
    BY <2>1, HookAssumption
<1>6. v.rows[c.row].cols[c.col]
  BY <1>1, <1>4 DEF ColFits
<1>7. o[c.row] \in Tuple /\ c.row \in 1..Len(o)
  <2> HIDE DEF o
  <2>1. c.row \in 1..Len(o)
    BY <1>2, <1>3
  <2> QED
    BY <1>2, <2>1
<1>8. path \in Path
  BY <1>1, <1>2, <1>5 DEF Path
<1>9. /\ y \in Tuple
      /\ \A n \in 1..Inner : y[n] = IF n = c.col THEN path ELSE o[c.row][n]
  <2> HIDE DEF o, path
  <2> QED
    BY <1>4, <1>7, <1>8 DEF Tuple
<1>10. /\ x \in Seq(Tuple) /\ Len(x) = c.row /\ x[c.row] = y
       /\ \A i \in 1..Len(o) : i # c.row => x[i] = o[i]
  <2> HIDE DEF o, y
  <2> QED
    BY <1>2, <1>3, <1>7, <1>9, TupleReplaced
<1>11. \A i \in 1..(c.row - 1) :
          RowFits(v.rows[i]) /\ x[i] = [n \in 1..Inner |-> <<c.pos, i, n>>]
  <2>1. \A i \in 1..(c.row - 1) : RowFits(v.rows[i]) /\ o[i] = [n \in 1..Inner |-> <<c.pos, i, n>>]
    BY <1>2 DEF VectorInv
  <2>2. \A i \in 1..(c.row - 1) : i \in 1..Len(o) /\ i # c.row
    BY <1>2, <1>3
  <2> HIDE DEF o, x, v
  <2> QED
    BY <1>10, <2>1, <2>2
<1>12. \A n \in c.col..Inner : v.rows[c.row].cols[n] /\ x[c.row][n] = <<c.pos, c.row, n>>
  <2> SUFFICES ASSUME NEW n \in c.col..Inner
               PROVE  v.rows[c.row].cols[n] /\ x[c.row][n] = <<c.pos, c.row, n>>
    OBVIOUS
  <2>1. n \in 1..Inner /\ (n = c.col \/ n \in (c.col + 1)..Inner)
    BY <1>5
  <2>2. x[c.row][n] = IF n = c.col THEN path ELSE o[c.row][n]
    BY <1>9, <1>10, <2>1
  <2> HIDE DEF v, x, o
  <2> QED
    BY <1>4, <1>5, <1>6, <2>1, <2>2
<1>13. e = [c EXCEPT !.out = [c.out EXCEPT ![c.pos] = x]]
  BY <1>1, <1>4 DEF ChildKey, Calls
<1> HIDE DEF path, y, x, o, v, e, d
<1>14. [c.out EXCEPT ![c.pos] = x] \in Filling
  BY <1>1, <1>10 DEF Filling
<1>15. /\ e \in Calls /\ e.phase = "cols" /\ e.col = c.col /\ e.ckrec = c.col
       /\ e.out = [c.out EXCEPT ![c.pos] = x] /\ e.value = c.value /\ e.thrown = "none"
       /\ e.pos = c.pos /\ e.krec = c.pos /\ e.row = c.row
  BY <1>1, <1>4, <1>13, <1>14 DEF Calls, Inv, PhaseInv
<1>16. /\ \A j \in DOMAIN Keys : j # c.pos => e.out[j] = c.out[j] /\ (Done(c, j) => Done(e, j))
       /\ e.out[c.pos] = x
  <2>1. e.out[c.pos] = x
    BY <1>1, <1>15 DEF Filling
  <2>2. /\ c \in Calls /\ c.out \in Filling /\ c.pos \in DOMAIN Keys
        /\ e.value = c.value /\ e.out = [c.out EXCEPT ![c.pos] = x]
    BY <1>1, <1>15
  <2>3. \A j \in DOMAIN Keys : j # c.pos => e.out[j] = c.out[j] /\ (Done(c, j) => Done(e, j))
    BY <2>2, OtherPositions
  <2> QED
    BY <2>1, <2>3
<1>17. /\ FillInv(e)
       /\ \A j \in DOMAIN Keys : j < e.pos => e.out[j] = <<>>
  <2>1. \A j \in DOMAIN Keys : j > e.pos => Done(e, j)
    BY <1>1, <1>15, <1>16
  <2>2. \A j \in DOMAIN Keys : j < e.pos => e.out[j] = <<>>
    BY <1>1, <1>15, <1>16
  <2> QED
    BY <1>1, <1>14, <1>15, <2>1, <2>2 DEF FillInv
<1>18. ASSUME c.col = 1
       PROVE  Inv(TRUE, d)
  <2>1. d = [e EXCEPT !.phase = "rows", !.row = c.row + 1]
    BY <1>15, <1>18 DEF d, ColNext, Calls
  <2>2. c.row + 1 \in 0..MaxRows + 1 /\ c.row + 1 \in 1..Len(v.rows) + 1
    BY <1>2, <1>4, <1>5
  <2>3. /\ d \in Calls /\ d.phase = "rows" /\ d.row = c.row + 1 /\ d.thrown = "none"
        /\ d.value = c.value /\ d.out = e.out /\ d.pos = c.pos /\ d.krec = c.pos
    BY <1>15, <2>1, <2>2 DEF Calls
  <2>4. FillInv(d)
    BY <1>15, <1>17, <2>3 DEF FillInv, Done
  <2>5. \A i \in 1..(d.row - 1) :
          RowFits(v.rows[i]) /\ x[i] = [n \in 1..Inner |-> <<c.pos, i, n>>]
    <3> SUFFICES ASSUME NEW i \in 1..(d.row - 1)
                 PROVE  RowFits(v.rows[i]) /\ x[i] = [n \in 1..Inner |-> <<c.pos, i, n>>]
      OBVIOUS
    <3>1. i \in 1..(c.row - 1) \/ i = c.row
      BY <1>2, <2>3
    <3>2. ASSUME i = c.row
          PROVE  RowFits(v.rows[i]) /\ x[i] = [n \in 1..Inner |-> <<c.pos, i, n>>]
      <4>1. \A n \in 1..Inner : v.rows[c.row].cols[n] /\ x[c.row][n] = <<c.pos, c.row, n>>
        BY <1>12, <1>18
      <4>2. x[c.row] \in Tuple
        BY <1>9, <1>10
      <4>3. x[c.row] = [n \in 1..Inner |-> <<c.pos, c.row, n>>]
        <5>1. x[c.row] = [n \in 1..Inner |-> x[c.row][n]]
          BY <4>2 DEF Tuple
        <5> QED
          BY <4>1, <5>1
      <4>4. RowFits(v.rows[c.row])
        BY <1>4, <4>1 DEF RowFits
      <4> QED
        BY <3>2, <4>3, <4>4
    <3> QED
      BY <1>11, <3>1, <3>2
  <2>6. VectorInv(d)
    BY <1>2, <1>10, <1>16, <2>2, <2>3, <2>5 DEF VectorInv, v
  <2>7. Len(d.out[d.pos]) = d.row - 1
    BY <1>2, <1>10, <1>16, <2>3
  <2>8. \A j \in DOMAIN Keys : j < d.pos => d.out[j] = <<>>
    BY <1>15, <1>17, <2>3
  <2>9. PhaseInv(TRUE, d)
    BY <2>3, <2>4, <2>6, <2>7, <2>8 DEF PhaseInv
  <2> QED
    BY <2>3, <2>9 DEF Inv
<1>19. ASSUME c.col # 1
       PROVE  Inv(TRUE, d)
  <2>1. d = [e EXCEPT !.col = c.col - 1, !.ckrec = c.col - 1]
    BY <1>15, <1>19 DEF d, ColNext, Calls
  <2>2. c.col - 1 \in 0..Inner /\ c.col - 1 \in 1..Inner /\ c.col - 1 + 1 = c.col
    BY <1>5, <1>19
  <2>3. /\ d \in Calls /\ d.phase = "cols" /\ d.col = c.col - 1 /\ d.ckrec = c.col - 1
        /\ d.value = c.value /\ d.out = e.out /\ d.pos = c.pos /\ d.krec = c.pos
        /\ d.row = c.row /\ d.thrown = "none"
    BY <1>15, <2>1, <2>2 DEF Calls
  <2>4. FillInv(d)
    BY <1>15, <1>17, <2>3 DEF FillInv, Done
  <2>5. VectorInv(d)
    <3>1. c.row \in 1..Len(v.rows) + 1
      BY <1>2 DEF VectorInv, v
    <3> QED
      BY <1>2, <1>10, <1>11, <1>16, <2>3, <3>1 DEF VectorInv, v
  <2>6. RowInv(d)
    BY <1>4, <1>12, <1>16, <2>2, <2>3 DEF RowInv, v
  <2>7. \A j \in DOMAIN Keys : j < d.pos => d.out[j] = <<>>
    BY <1>15, <1>17, <2>3
  <2>8. PhaseInv(TRUE, d)
    BY <1>10, <1>16, <2>3, <2>4, <2>5, <2>6, <2>7 DEF PhaseInv
  <2> QED
    BY <2>3, <2>8 DEF Inv
<1> QED
  BY <1>18, <1>19

-----------------------------------------------------------------------------
(* The inductive invariant *)

LEMMA NoCallInv ==
    ASSUME NEW k \in BOOLEAN
    PROVE  Inv(k, NoCall)
<1>1. <<>> \in Path
  BY DEF Path
<1>2. 0 \in 0..Len(Keys) /\ 0 \in 0..MaxRows + 1 /\ 0 \in 0..Inner
  BY HookAssumption
<1>3. NoCall \in Calls
  BY <1>1, <1>2 DEF NoCall, Calls
<1> QED
  BY <1>3 DEF Inv, PhaseInv, NoCall

\* A step before the translation: the script runs.
LEMMA CallStep ==
    ASSUME IInv, Call \/ ScriptFails \/ Return \/ (\E v \in Value : ScriptReturns(v))
    PROVE  Inv(keyed, call')
<1>1. keyed \in BOOLEAN /\ Inv(keyed, call) /\ call \in Calls
  BY DEF IInv, Inv
<1>2. CASE Call
  <2> DEFINE p == IF app = "null" THEN "crashed" ELSE "script"
  <2>1. Inv(keyed, NoCall)
    BY <1>1, NoCallInv
  <2>2. NoCall \in Calls /\ NoCall.thrown = "none"
    BY <2>1 DEF Inv, NoCall
  <2>3. call' = [NoCall EXCEPT !.phase = p] /\ p \in {"crashed", "script"}
    BY <1>2 DEF Call
  <2> HIDE DEF p
  <2>4. call' \in Calls /\ call'.phase = p /\ call'.thrown = "none"
    BY <2>2, <2>3 DEF Calls
  <2> QED
    BY <2>3, <2>4 DEF Inv, PhaseInv
<1>3. CASE ScriptFails
  <2>1. <<>> \in Path
    BY DEF Path
  <2> QED
    BY <1>1, <1>3, <2>1, Throwing DEF ScriptFails
<1>4. CASE Return
  BY <1>1, <1>4, NoCallInv DEF Return
<1>5. ASSUME NEW v \in Value, ScriptReturns(v)
      PROVE  Inv(keyed, call')
  <2>1. call.thrown = "none"
    BY <1>1, <1>5 DEF ScriptReturns, Inv, PhaseInv
  <2>2. /\ call' \in Calls /\ call'.phase = "translate" /\ call'.value = v
        /\ call'.thrown = "none"
    BY <1>1, <1>5, <2>1 DEF ScriptReturns, Calls
  <2> QED
    BY <2>2 DEF Inv, PhaseInv
<1> QED
  BY <1>2, <1>3, <1>4, <1>5

\* A step of the translation.
LEMMA TranslateStep ==
    ASSUME IInv, Translate
    PROVE  Inv(keyed, call')
<1>1. keyed \in BOOLEAN /\ Inv(keyed, call) /\ call \in Calls
  BY DEF IInv, Inv
<1>2. <<>> \in Path
  BY DEF Path
<1>3. ASSUME call.phase \in {"fill", "rows", "cols"}
      PROVE  /\ keyed = TRUE /\ Inv(TRUE, call)
             /\ call.pos \in DOMAIN Keys /\ call.krec = call.pos /\ call.pos \in Nat
             /\ Keys[call.pos] \in {"single", "vector"}
             /\ call.value.fields[call.krec].fits \in BOOLEAN
             /\ <<call.krec>> \in Path
             /\ ~call.value.fields[call.krec].fits => Accuses(<<call.krec>>, call.value)
  <2>1. keyed = TRUE
    BY <1>1, <1>3 DEF Inv, PhaseInv
  <2>2. Inv(TRUE, call)
    BY <1>1, <2>1
  <2>3. /\ call.pos \in DOMAIN Keys /\ call.krec = call.pos /\ call.pos \in Nat
        /\ call.value \in Value /\ call.value.fits
    BY <1>3, <2>2, AtPosition
  <2>4. /\ Keys[call.pos] \in {"single", "vector"}
        /\ call.value.fields[call.krec].fits \in BOOLEAN
    BY <2>3, FieldFacts
  <2>5. <<call.krec>> \in Path
    BY <2>3 DEF Path
  <2>6. ~call.value.fields[call.krec].fits => Accuses(<<call.krec>>, call.value)
    BY <2>3 DEF Accuses
  <2> QED
    BY <2>1, <2>2, <2>3, <2>4, <2>5, <2>6
<1>4. CASE TranslateSimple
  <2>1. call.phase = "translate" /\ keyed = FALSE
    BY <1>1, <1>4 DEF TranslateSimple
  <2>2. CASE call.value.fits
    <3>1. call' = [call EXCEPT !.phase = "returned", !.out = <<"value">>]
      BY <1>4, <2>2 DEF TranslateSimple
    <3>2. call.thrown = "none"
      BY <1>1, <2>1 DEF Inv, PhaseInv
    <3>3. /\ call' \in Calls /\ call'.phase = "returned" /\ call'.value = call.value
          /\ call'.thrown = "none"
      BY <1>1, <3>1, <3>2 DEF Calls
    <3> QED
      BY <2>1, <2>2, <3>3 DEF Inv, PhaseInv
  <2>3. CASE ~call.value.fits
    <3>1. call' \in Misfit(call, <<>>)
      BY <1>4, <2>3 DEF TranslateSimple
    <3>2. Accuses(<<>>, call.value)
      BY <2>3 DEF Accuses
    <3> QED
      BY <1>1, <1>2, <3>1, <3>2, Misfitting
  <2> QED
    BY <2>2, <2>3
<1>5. CASE TranslateKeyed
  <2>1. call.phase = "translate" /\ keyed = TRUE
    BY <1>1, <1>5 DEF TranslateKeyed
  <2>2. CASE call.value.fits
    BY <1>1, <1>5, <2>1, <2>2, Starting DEF TranslateKeyed, expectTable
  <2>3. CASE ~call.value.fits
    <3>1. Accuses(<<>>, call.value)
      BY <2>3 DEF Accuses
    <3>2. call' = Throw(call, "argument", <<>>)
      BY <1>5, <2>3 DEF TranslateKeyed, expectTable
    <3> QED
      BY <1>1, <1>2, <3>1, <3>2, Throwing
  <2> QED
    BY <2>2, <2>3
<1>6. CASE PutSingle
  <2>1. call.phase = "fill" /\ Keys[call.pos] = "single"
    BY <1>6 DEF PutSingle
  <2>2. keyed = TRUE /\ Inv(TRUE, call) /\ <<call.krec>> \in Path
    BY <1>3, <2>1
  <2>3. CASE call.value.fields[call.krec].fits
    <3>1. call' = FillNext([call EXCEPT !.out[call.pos] = <<call.krec>>])
      BY <1>6, <2>3 DEF PutSingle, Item
    <3>2. Put([call EXCEPT !.out[call.pos] = <<call.krec>>])
      BY <2>1, <2>2, <2>3, SinglePut
    <3> QED
      BY <2>2, <3>1, <3>2, Filled
  <2>4. CASE ~call.value.fields[call.krec].fits
    <3>1. call' \in Misfit(call, <<call.krec>>)
      BY <1>6, <2>4 DEF PutSingle, Item
    <3>2. Accuses(<<call.krec>>, call.value)
      BY <1>3, <2>1, <2>4
    <3> QED
      BY <2>2, <3>1, <3>2, Misfitting
  <2> QED
    BY <2>3, <2>4
<1>7. CASE PutVector
  <2>1. call.phase = "fill" /\ Keys[call.pos] = "vector"
    BY <1>7 DEF PutVector
  <2>2. keyed = TRUE /\ Inv(TRUE, call) /\ <<call.krec>> \in Path
    BY <1>3, <2>1
  <2>3. CASE call.value.fields[call.krec].fits
    <3>1. call' = EnterVector(call)
      BY <1>7, <2>3 DEF PutVector, Item, expectTable
    <3> QED
      BY <2>1, <2>2, <2>3, <3>1, VectorEntered
  <2>4. CASE ~call.value.fields[call.krec].fits
    <3>1. call' = Throw(call, "argument", <<call.krec>>)
      BY <1>7, <2>4 DEF PutVector, Item, expectTable
    <3>2. Accuses(<<call.krec>>, call.value)
      BY <1>3, <2>1, <2>4
    <3> QED
      BY <2>2, <3>1, <3>2, Throwing
  <2> QED
    BY <2>3, <2>4
<1>8. CASE PutRow
  <2> DEFINE rows == call.value.fields[call.krec].rows
  <2>1. call.phase = "rows"
    BY <1>8 DEF PutRow
  <2>2. keyed = TRUE /\ Inv(TRUE, call)
    BY <1>3, <2>1
  <2>3. CASE call.row > Len(rows)
    <3>1. call' = FillNext(call)
      BY <1>8, <2>3 DEF PutRow, Item
    <3>2. Put(call)
      BY <2>1, <2>2, <2>3, VectorPut
    <3> QED
      BY <2>2, <3>1, <3>2, Filled
  <2>4. CASE ~(call.row > Len(rows))
    <3>1. call.row <= Len(rows)
      <4>1. call.row \in Nat /\ Len(rows) \in Nat
        BY <1>3, <2>1, <2>2, InVector
      <4> HIDE DEF rows
      <4> QED
        BY <2>4, <4>1
    <3> DEFINE b == [call EXCEPT !.ckrec = Inner]
    <3>2. call' = expectTable(call, rows[call.row].table, ChildKey(b), StartRow(b))
      BY <1>8, <2>4 DEF PutRow, Item
    <3>3. CASE rows[call.row].table
      <4>1. call' = StartRow(b)
        BY <3>2, <3>3 DEF expectTable
      <4> QED
        BY <2>1, <2>2, <3>1, <3>3, <4>1, RowStarted
    <3>4. CASE ~rows[call.row].table
      <4>1. ChildKey(b) = <<call.krec, call.row, Inner>>
        BY <1>1 DEF ChildKey, Calls
      <4>2. call' = Throw(call, "argument", <<call.krec, call.row, Inner>>)
        BY <3>2, <3>4, <4>1 DEF expectTable
      <4>3. Inner \in 1..Inner
        BY HookAssumption
      <4>4. /\ Accuses(<<call.krec, call.row, Inner>>, call.value)
            /\ <<call.krec, call.row, Inner>> \in Path
        <5>1. RowCulprit(call.value.fields[call.krec].rows[call.row], Inner)
          BY <3>4 DEF RowCulprit
        <5> QED
          BY <2>1, <2>2, <3>1, <4>3, <5>1, RowAccused
      <4> QED
        BY <2>2, <4>2, <4>4, Throwing
    <3> QED
      BY <3>3, <3>4
  <2> QED
    BY <2>3, <2>4
<1>9. CASE PutCol
  <2>1. call.phase = "cols"
    BY <1>9 DEF PutCol
  <2>2. keyed = TRUE /\ Inv(TRUE, call)
    BY <1>3, <2>1
  <2>3. CASE ColFits(call)
    <3>1. call' = ColNext([call EXCEPT !.out[call.pos][call.row][call.col] = ChildKey(call)])
      BY <1>9, <2>3 DEF PutCol, Item, ColFits
    <3> QED
      BY <2>1, <2>2, <2>3, <3>1, ColPut
  <2>4. CASE ~ColFits(call)
    <3>1. call' \in Misfit(call, <<call.krec, call.row, call.ckrec>>)
      BY <1>9, <2>4 DEF PutCol, Item, ColFits, ChildKey
    <3>2. RowInv(call) /\ call.krec = call.pos
      BY <1>3, <2>1, <2>2 DEF Inv, PhaseInv
    <3>3. /\ call.ckrec \in 1..Inner
          /\ call.row <= Len(call.value.fields[call.krec].rows)
      BY <3>2 DEF RowInv
    <3>4. /\ Accuses(<<call.krec, call.row, call.ckrec>>, call.value)
          /\ <<call.krec, call.row, call.ckrec>> \in Path
      <4>1. RowCulprit(call.value.fields[call.krec].rows[call.row], call.ckrec)
        BY <2>4, <3>2 DEF ColFits, RowCulprit, RowInv
      <4> QED
        BY <2>1, <2>2, <3>3, <4>1, RowAccused
    <3> QED
      BY <2>2, <3>1, <3>4, Misfitting
  <2> QED
    BY <2>3, <2>4
<1> QED
  BY <1>4, <1>5, <1>6, <1>7, <1>8, <1>9 DEF Translate

\* The inductive invariant holds in every state of a hook's behaviours.
THEOREM Invariance == Spec => []IInv
<1>1. Init => IInv
  BY NoCallInv DEF Init, IInv
<1>2. IInv /\ [Next]_vars => IInv'
  <2> SUFFICES ASSUME IInv, [Next]_vars PROVE IInv'
    OBVIOUS
  <2>1. ASSUME Call \/ ScriptFails \/ Return \/ (\E v \in Value : ScriptReturns(v))
        PROVE  IInv'
    <3>1. UNCHANGED <<keyed, func, app>>
      BY <2>1 DEF Call, ScriptFails, Return, ScriptReturns
    <3>2. Inv(keyed, call')
      BY <2>1, CallStep
    <3> QED
      BY <3>1, <3>2 DEF IInv
  <2>2. ASSUME Translate
        PROVE  IInv'
    <3>1. UNCHANGED <<keyed, func, app>>
      BY <2>2 DEF Translate, TranslateSimple, TranslateKeyed, PutSingle, PutVector,
         PutRow, PutCol
    <3>2. Inv(keyed, call')
      BY <2>2, TranslateStep
    <3> QED
      BY <3>1, <3>2 DEF IInv
  <2>3. ASSUME NEW f \in Scripts, hookUp(f)
        PROVE  IInv'
    BY <2>3 DEF hookUp, IInv
  <2>4. ASSUME unhook \/ Assign
        PROVE  IInv'
    BY <2>4 DEF unhook, Assign, IInv
  <2>5. CASE UNCHANGED vars
    BY <2>5 DEF vars, IInv
  <2> QED
    BY <2>1, <2>2, <2>3, <2>4, <2>5 DEF Next
<1> QED
  BY <1>1, <1>2, PTL DEF Spec

\* The types of a hook and of a call, for any keys and any scripts.
THEOREM TypeCorrect == Spec => []TypeOK
<1>1. IInv => TypeOK
  BY DEF IInv, Inv, Calls, TypeOK, NoCall
<1> QED
  BY <1>1, Invariance, PTL

\* A call returns the whole tuple, each value from under its own key, or it
\* throws: BasicKeyedHook::translate never returns a tuple it filled in part.
THEOREM WholeOrThrown == Spec => []AllOrError
<1>1. IInv => AllOrError
  BY DEF IInv, Inv, PhaseInv, Whole, AllOrError
<1> QED
  BY <1>1, Invariance, PTL

\* The key recorded in an exception leads to the value that stopped the
\* translation: the key recorders keep up with fill and with the rows in the
\* order the iterator visits them.
THEOREM KeyOfTheCulprit == Spec => []Culprit
<1>1. IInv => Culprit
  <2> SUFFICES ASSUME IInv, call.thrown = "argument"
               PROVE  Culprit
    BY DEF Culprit
  <2>1. Accuses(call.key, call.value)
    BY DEF IInv, Inv, PhaseInv
  <2>2. CASE call.key = <<>> /\ ~call.value.fits
    BY <2>2 DEF Culprit
  <2>3. ASSUME NEW k \in DOMAIN Keys, call.key = <<k>>, call.value.fits,
               ~call.value.fields[k].fits
        PROVE  Culprit
    BY <2>3 DEF Culprit
  <2>4. ASSUME NEW k \in DOMAIN Keys, NEW n \in 1..Inner,
               NEW i \in DOMAIN call.value.fields[k].rows,
               call.key = <<k, i, n>>, call.value.fields[k].fits,
               RowCulprit(call.value.fields[k].rows[i], n),
               \A j \in 1..(i - 1) : RowFits(call.value.fields[k].rows[j])
        PROVE  Culprit
    <3> DEFINE rows == call.value.fields[k].rows
    <3>1. Named(rows, i) = {i}
      BY <2>4 DEF Named, KeyedInTurn
    <3>2. Len(call.key) = 3 /\ call.key[1] = k /\ call.key[2] = i /\ call.key[3] = n
      BY <2>4
    <3>3. /\ Named(rows, i) # {}
          /\ \A h \in Named(rows, i) :
                RowCulprit(rows[h], n) /\ \A j \in 1..(h - 1) : RowFits(rows[j])
      BY <2>4, <3>1
    <3> HIDE DEF rows
    <3> QED
      BY <2>4, <3>2, <3>3 DEF Culprit, rows
  <2> QED
    BY <2>1, <2>2, <2>3, <2>4 DEF Accuses
<1> QED
  BY <1>1, Invariance, PTL

=============================================================================
