--------------------------- MODULE Adler32Proofs ---------------------------
(***************************************************************************)
(* adler32 is exact for data of any length: with the code's numbers no sum *)
(* exceeds 32 bits before it is reduced, and the result is the definition. *)
(***************************************************************************)
EXTENDS Adler32, TLAPS

-----------------------------------------------------------------------------
(* Arithmetic *)

\* A sum that fits a word is not cut by it.
LEMMA ModSmall ==
    ASSUME NEW x \in Nat, NEW m \in Nat, x < m
    PROVE  x % m = x
  OBVIOUS

\* What %= leaves, and that it takes a multiple away.
LEMMA ModReduce ==
    ASSUME NEW x \in Nat, NEW m \in Nat, m > 0
    PROVE  /\ x % m \in Nat /\ x % m < m
           /\ \E q \in Nat : x = (x % m) + q * m
<1>1. x % m \in Nat /\ x % m < m
  OBVIOUS
<1>2. x \div m \in Nat
  OBVIOUS
<1>3. x = (x % m) + (x \div m) * m
  OBVIOUS
<1> QED
  BY <1>1, <1>2, <1>3

\* A remainder is known from any representation.
LEMMA ModUnique ==
    ASSUME NEW x \in Nat, NEW m \in Nat, NEW r \in Nat, NEW q \in Nat,
           r < m, x = r + q * m
    PROVE  x % m = r
  OBVIOUS

\* The largest a and twice the largest b after i bytes of a block.
BoundA(i) == (Base - 1) + ByteMax * i
BoundB(i) == 2 * ((i + 1) * (Base - 1)) + ByteMax * (i * (i + 1))

LEMMA BoundTypes ==
    ASSUME NEW i \in Nat
    PROVE  BoundA(i) \in Nat /\ BoundB(i) \in Nat
<1>1. Base - 1 \in Nat /\ ByteMax \in Nat
  BY NumberAssumption
<1>2. ByteMax * i \in Nat /\ (i + 1) * (Base - 1) \in Nat /\ i * (i + 1) \in Nat
  BY <1>1
<1>3. ByteMax * (i * (i + 1)) \in Nat
  BY <1>1, <1>2
<1> QED
  BY <1>1, <1>2, <1>3 DEF BoundA, BoundB

LEMMA BoundStep ==
    ASSUME NEW i \in Nat
    PROVE  /\ BoundA(i + 1) = BoundA(i) + ByteMax
           /\ BoundB(i + 1) = BoundB(i) + 2 * BoundA(i + 1)
<1> DEFINE c == Base - 1
<1>1. c \in Nat /\ ByteMax \in Nat
  BY NumberAssumption
<1> HIDE DEF c
<1>2. ByteMax * (i + 1) = ByteMax * i + ByteMax
  BY <1>1
<1>3. (i + 1 + 1) * c = (i + 1) * c + c
  BY <1>1
<1>4. (i + 1) * (i + 1 + 1) = i * (i + 1) + 2 * (i + 1)
  OBVIOUS
<1>5. ByteMax * ((i + 1) * (i + 1 + 1)) = ByteMax * (i * (i + 1)) + 2 * (ByteMax * (i + 1))
  <2> DEFINE y == i * (i + 1)
             z == i + 1
  <2>1. y \in Nat /\ z \in Nat
    OBVIOUS
  <2> HIDE DEF y, z
  <2>2. ByteMax * (y + 2 * z) = ByteMax * y + 2 * (ByteMax * z)
    BY <1>1, <2>1
  <2> QED
    BY <1>4, <2>2 DEF y, z
<1>6. /\ ByteMax * i \in Nat /\ (i + 1) * c \in Nat
      /\ ByteMax * (i * (i + 1)) \in Nat /\ ByteMax * (i + 1) \in Nat
  BY <1>1, BoundTypes
<1>7. BoundA(i + 1) = BoundA(i) + ByteMax
  BY <1>1, <1>2, <1>6 DEF BoundA, c
<1>8. BoundB(i + 1) = BoundB(i) + 2 * BoundA(i + 1)
  BY <1>1, <1>3, <1>5, <1>6 DEF BoundA, BoundB, c
<1> QED
  BY <1>7, <1>8

LEMMA BoundMonotone ==
    ASSUME NEW i \in Nat, NEW j \in Nat, i <= j
    PROVE  BoundB(i) <= BoundB(j)
<1> DEFINE c == Base - 1
<1>1. c \in Nat /\ ByteMax \in Nat
  BY NumberAssumption
<1> HIDE DEF c
<1>2. (i + 1) * c <= (j + 1) * c
  BY <1>1
<1>3. i * (i + 1) <= j * (j + 1)
  OBVIOUS
<1>4. ByteMax * (i * (i + 1)) <= ByteMax * (j * (j + 1))
  <2> DEFINE y == i * (i + 1)
             z == j * (j + 1)
  <2>1. y \in Nat /\ z \in Nat /\ y <= z
    BY <1>3
  <2> HIDE DEF y, z
  <2>2. ByteMax * y <= ByteMax * z
    BY <1>1, <2>1
  <2> QED
    BY <2>2 DEF y, z
<1>5. (i + 1) * c \in Nat /\ (j + 1) * c \in Nat
  BY <1>1
<1>6. i * (i + 1) \in Nat /\ j * (j + 1) \in Nat
  OBVIOUS
<1>7. ByteMax * (i * (i + 1)) \in Nat /\ ByteMax * (j * (j + 1)) \in Nat
  BY <1>1, <1>6
<1> QED
  BY <1>2, <1>4, <1>5, <1>7 DEF BoundB, c

\* Within the bounds of i bytes, and with a byte of the block left, any byte
\* can be added: the sums fit and are within the bounds of i + 1.
LEMMA ByteFits ==
    ASSUME NEW i \in Nat, i < Nmax, NEW x \in 0 .. ByteMax,
           NEW s \in Nat, s <= BoundA(i),
           NEW t \in Nat, 2 * t <= BoundB(i)
    PROVE  /\ s + x < Word /\ t + s + x < Word
           /\ s + x <= BoundA(i + 1) /\ 2 * (t + s + x) <= BoundB(i + 1)
<1>1. i + 1 \in Nat /\ i + 1 <= Nmax /\ Nmax \in Nat /\ ByteMax \in Nat /\ x \in Nat /\ x <= ByteMax
  BY NumberAssumption
<1>2. /\ BoundA(i) \in Nat /\ BoundA(i + 1) \in Nat
      /\ BoundB(i) \in Nat /\ BoundB(i + 1) \in Nat /\ BoundB(Nmax) \in Nat
  BY <1>1, BoundTypes
<1>3. s + x <= BoundA(i + 1) /\ 2 * (t + s + x) <= BoundB(i + 1)
  BY <1>1, <1>2, BoundStep
<1>4. BoundB(i + 1) <= BoundB(Nmax)
  BY <1>1, BoundMonotone
<1>5. BoundB(Nmax) < 2 * Word
  BY BlockAssumption DEF BoundB
<1>6. Word \in Nat
  BY WordAssumption
<1>7. 2 * (t + s + x) < 2 * Word
  BY <1>1, <1>2, <1>3, <1>4, <1>5, <1>6
<1> QED
  BY <1>1, <1>3, <1>6, <1>7

\* The code's own numbers meet the assumptions, and 5552 is the largest block
\* that does.
THEOREM CodeNumbers ==
    /\ 2 * ((5552 + 1) * (65521 - 1)) + 255 * (5552 * (5552 + 1)) < 2 * 4294967296
    /\ ~(2 * ((5553 + 1) * (65521 - 1)) + 255 * (5553 * (5553 + 1)) < 2 * 4294967296)
    /\ 65521 <= 65536 /\ 65536 * 65536 = 4294967296
  OBVIOUS

-----------------------------------------------------------------------------
(* The inductive invariant *)

\* The bytes of the block that are still to be added.
Left == IF pc = "unrolled" THEN k - (Unroll - u) ELSE k

Counters ==
    /\ pc \in {"outer", "inner", "unrolled", "tail", "reduce", "done"}
    /\ size \in 1 .. MaxLen
    /\ len \in Nat /\ k \in Nat /\ u \in 0 .. Unroll /\ pos \in Nat /\ n \in Nat
    /\ pc = "unrolled" => u > 0 /\ k >= Unroll
    /\ pc = "tail" => k > 0
    /\ pc \in {"outer", "reduce", "done"} => k = 0
    /\ pc \in {"outer", "done"} => n = 0
    /\ pc = "done" => len = 0
    /\ pos + Left + len = size
    /\ n + Left <= Nmax

Sums ==
    /\ a \in Nat /\ b \in Nat /\ sumA \in Nat /\ sumB \in Nat
    /\ a <= BoundA(n) /\ 2 * b <= BoundB(n)

\* The code's sums differ from the definition's by multiples of 65521.
Congruent ==
    /\ \E q \in Nat : sumA = a + q * Base
    /\ \E q \in Nat : sumB = b + q * Base

Returned ==
    /\ pc # "done" => result = 0
    /\ pc = "done" => result = b * Half + a

Inv == Counters /\ Sums /\ Congruent /\ Returned

\* What a byte does to the sums, in either loop.
LEMMA ByteAdded ==
    ASSUME Sums, Congruent, n \in Nat, n < Nmax, NEW x \in Byte, AddByte(x)
    PROVE  Sums' /\ Congruent'
<1> USE DEF Sums, Congruent
<1>1. x \in Nat
  BY NumberAssumption DEF Byte
<1>2. /\ a + x < Word /\ b + a + x < Word
      /\ a + x <= BoundA(n + 1) /\ 2 * (b + a + x) <= BoundB(n + 1)
  BY ByteFits DEF Byte
<1>3. Word \in Nat /\ a + x \in Nat /\ b + a + x \in Nat
  BY WordAssumption, <1>1
<1>4. (a + x) % Word = a + x
  BY <1>2, <1>3, ModSmall
<1>5. (b + (a + x)) % Word = b + a + x
  BY <1>1, <1>2, <1>3, ModSmall, SMTT(30)
<1>6. a' = a + x /\ b' = b + a + x /\ n' = n + 1
  BY <1>4, <1>5 DEF AddByte
<1>7. sumA' = sumA + x /\ sumB' = sumB + sumA + x
  BY DEF AddByte
<1>8. Sums'
  BY <1>1, <1>2, <1>6, <1>7 DEF BoundA, BoundB
<1>9. PICK q \in Nat : sumA = a + q * Base
  OBVIOUS
<1>10. PICK r \in Nat : sumB = b + r * Base
  OBVIOUS
<1>11. Base \in Nat /\ q * Base \in Nat /\ r * Base \in Nat
  BY NumberAssumption
<1>12. sumA' = a' + q * Base
  BY <1>1, <1>6, <1>7, <1>9, <1>11
<1>13. q + r \in Nat /\ (q + r) * Base = q * Base + r * Base
  BY <1>11
<1>14. sumB' = b' + (q + r) * Base
  BY <1>1, <1>6, <1>7, <1>9, <1>10, <1>11, <1>13
<1> QED
  BY <1>8, <1>12, <1>13, <1>14

LEMMA InitInv == Init => Inv
<1> SUFFICES ASSUME Init PROVE Inv
  OBVIOUS
<1>1. Counters
  BY NumberAssumption DEF Init, Counters, Left
<1>2. BoundA(0) = Base - 1 /\ BoundB(0) = 2 * (Base - 1)
  BY NumberAssumption DEF BoundA, BoundB
<1>3. Sums
  BY <1>2, NumberAssumption DEF Init, Sums
<1>4. Congruent
  <2>1. 0 \in Nat /\ 0 * Base = 0
    BY NumberAssumption
  <2> QED
    BY <2>1 DEF Init, Congruent
<1>5. Returned
  BY DEF Init, Returned
<1> QED
  BY <1>1, <1>3, <1>4, <1>5 DEF Inv

LEMMA NextInv == Inv /\ [Next]_vars => Inv'
<1> SUFFICES ASSUME Inv, [Next]_vars PROVE Inv'
  OBVIOUS
<1> USE DEF Inv
<1>0. Nmax \in Nat /\ Nmax > 0 /\ Unroll \in Nat /\ Unroll > 0 /\ Base \in Nat /\ Base > 1
  BY NumberAssumption
<1>1. CASE Outer
  <2>1. Counters'
    BY <1>0, <1>1 DEF Outer, Counters, Left, block
  <2> QED
    BY <2>1, <1>1 DEF Outer, Sums, Congruent, Returned, BoundA, BoundB
<1>2. CASE Inner
  <2>1. Counters'
    BY <1>0, <1>2 DEF Inner, Counters, Left, unrolls
  <2> QED
    BY <2>1, <1>2 DEF Inner, Sums, Congruent, Returned, BoundA, BoundB
<1>3. ASSUME NEW x \in Byte, UnrolledByte(x)
      PROVE  Inv'
  <2>1. n \in Nat /\ n < Nmax
    BY <1>0, <1>3 DEF UnrolledByte, Counters, Left
  <2>2. Sums' /\ Congruent'
    BY <2>1, <1>3, ByteAdded DEF UnrolledByte
  <2>3. Counters'
    BY <1>0, <1>3 DEF UnrolledByte, AddByte, Counters, Left
  <2>4. Returned'
    BY <1>3 DEF UnrolledByte, Returned
  <2> QED
    BY <2>2, <2>3, <2>4
<1>4. ASSUME NEW x \in Byte, TailByte(x)
      PROVE  Inv'
  <2>1. n \in Nat /\ n < Nmax
    BY <1>0, <1>4 DEF TailByte, Counters, Left
  <2>2. Sums' /\ Congruent'
    BY <2>1, <1>4, ByteAdded DEF TailByte
  <2>3. Counters'
    BY <1>0, <1>4 DEF TailByte, AddByte, Counters, Left
  <2>4. Returned'
    BY <1>4 DEF TailByte, Returned
  <2> QED
    BY <2>2, <2>3, <2>4
<1>5. CASE Reduce
  <2>1. Counters'
    BY <1>0, <1>5 DEF Reduce, Counters, Left
  <2>2. a \in Nat /\ b \in Nat /\ a' = a % Base /\ b' = b % Base
    BY <1>5 DEF Reduce, reduced, Sums
  <2>3. /\ a' \in Nat /\ a' < Base /\ b' \in Nat /\ b' < Base
        /\ \E q \in Nat : a = a' + q * Base
        /\ \E q \in Nat : b = b' + q * Base
    <3>0. Base \in Nat /\ Base > 0
      BY <1>0
    <3>1. /\ a % Base \in Nat /\ a % Base < Base
          /\ \E q \in Nat : a = (a % Base) + q * Base
      BY <2>2, <3>0, ModReduce, Zenon
    <3>2. /\ b % Base \in Nat /\ b % Base < Base
          /\ \E q \in Nat : b = (b % Base) + q * Base
      BY <2>2, <3>0, ModReduce, Zenon
    <3> QED
      BY <2>2, <3>1, <3>2, Zenon
  <2>4. BoundA(0) = Base - 1 /\ BoundB(0) = 2 * (Base - 1)
    BY NumberAssumption DEF BoundA, BoundB
  <2>5. Sums'
    <3>1. n' = 0 /\ sumA' = sumA /\ sumB' = sumB
      BY <1>5 DEF Reduce
    <3>2. a' <= BoundA(0) /\ 2 * b' <= BoundB(0)
      BY <2>3, <2>4, <1>0
    <3>3. BoundA(n)' = BoundA(0) /\ BoundB(n)' = BoundB(0)
      BY <3>1 DEF BoundA, BoundB
    <3> QED
      BY <2>3, <3>1, <3>2, <3>3 DEF Sums
  <2>6. Congruent'
    <3>1. PICK q1 \in Nat : sumA = a + q1 * Base
      BY DEF Congruent
    <3>2. PICK r1 \in Nat : sumB = b + r1 * Base
      BY DEF Congruent
    <3>3. PICK q2 \in Nat : a = a' + q2 * Base
      BY <2>3
    <3>4. PICK r2 \in Nat : b = b' + r2 * Base
      BY <2>3
    <3>5. /\ q1 + q2 \in Nat /\ (q1 + q2) * Base = q1 * Base + q2 * Base
          /\ r1 + r2 \in Nat /\ (r1 + r2) * Base = r1 * Base + r2 * Base
      BY <1>0
    <3>6. q1 * Base \in Nat /\ q2 * Base \in Nat /\ r1 * Base \in Nat /\ r2 * Base \in Nat
      BY <1>0
    <3>7. sumA = a' + (q1 + q2) * Base /\ sumB = b' + (r1 + r2) * Base
      BY <2>2, <2>3, <3>1, <3>2, <3>3, <3>4, <3>5, <3>6
    <3> QED
      BY <1>5, <3>5, <3>7 DEF Reduce, Congruent
  <2>7. Returned'
    BY <1>5 DEF Reduce, Returned
  <2> QED
    BY <2>1, <2>5, <2>6, <2>7
<1>6. CASE Return
  <2>1. Counters'
    BY <1>6 DEF Return, Counters, Left
  <2>2. Sums' /\ Congruent'
    BY <1>6 DEF Return, Sums, Congruent, BoundA, BoundB
  <2>3. n = 0 /\ b \in Nat /\ b < Base
    <3>1. n = 0 /\ b \in Nat /\ 2 * b <= BoundB(0)
      BY <1>6 DEF Return, Counters, Sums
    <3>2. BoundB(0) = 2 * (Base - 1)
      BY NumberAssumption DEF BoundB
    <3> QED
      BY <1>0, <3>1, <3>2
  <2>4. b * Half \in Nat /\ b * Half < Word
    <3>1. Half \in Nat /\ Half * Half = Word /\ b < Half /\ Half > 0
      BY <2>3, <1>0, WordAssumption
    <3>2. b * Half < Half * Half
      BY <2>3, <3>1
    <3> QED
      BY <2>3, <3>1, <3>2
  <2>5. (b * Half) % Word = b * Half
    BY <2>4, WordAssumption, ModSmall
  <2>6. Returned'
    BY <2>5, <1>6 DEF Return, Returned
  <2> QED
    BY <2>1, <2>2, <2>6
<1>7. CASE UNCHANGED vars
  BY <1>7 DEF vars, Counters, Left, Sums, Congruent, Returned, BoundA, BoundB
<1> QED
  BY <1>1, <1>2, <1>3, <1>4, <1>5, <1>6, <1>7 DEF Next, Done

\* The loops' bounds and sums, for data of any length.
THEOREM Invariance == Spec => []Inv
  BY InitInv, NextInv, PTL DEF Spec

-----------------------------------------------------------------------------
(* What follows *)

\* No sum of either loop is ever cut to 32 bits, for any data.
THEOREM NeverWraps == Spec => []NoWrap
<1>1. Inv => NoWrap
  <2> SUFFICES ASSUME Inv, Reading PROVE a + ByteMax < Word /\ b + a + ByteMax < Word
    BY DEF NoWrap
  <2>1. n \in Nat /\ n < Nmax
    BY NumberAssumption DEF Inv, Counters, Left, Reading
  <2>2. ByteMax \in 0 .. ByteMax
    BY NumberAssumption
  <2> QED
    BY <2>1, <2>2, ByteFits DEF Inv, Sums
<1> QED
  BY <1>1, Invariance, PTL

\* Both loops together read exactly the data.
THEOREM ReadsTheData == Spec => []InsideData
<1>1. Inv => InsideData
  BY NumberAssumption DEF Inv, Counters, Left, InsideData, Reading
<1> QED
  BY <1>1, Invariance, PTL

\* adler32 computes Adler-32, for data of any length.
THEOREM Exact == Spec => []Checksum
<1>1. Inv => Checksum
  <2> SUFFICES ASSUME Inv, pc = "done"
               PROVE  result = (sumB % Base) * Half + (sumA % Base)
    BY DEF Checksum
  <2>1. n = 0 /\ Base \in Nat /\ Base > 1
    BY NumberAssumption DEF Inv, Counters
  <2>2. BoundA(0) = Base - 1 /\ BoundB(0) = 2 * (Base - 1)
    BY NumberAssumption DEF BoundA, BoundB
  <2>3. a \in Nat /\ b \in Nat /\ a < Base /\ b < Base /\ sumA \in Nat /\ sumB \in Nat
    BY <2>1, <2>2 DEF Inv, Sums
  <2>4. sumA % Base = a
    BY <2>1, <2>3, ModUnique DEF Inv, Congruent
  <2>5. sumB % Base = b
    BY <2>1, <2>3, ModUnique DEF Inv, Congruent
  <2> QED
    BY <2>4, <2>5 DEF Inv, Returned
<1> QED
  BY <1>1, Invariance, PTL

\* The types of the loops' state, the words' width included.
THEOREM TypeCorrect == Spec => []TypeOK
<1>1. Inv => TypeOK
  <2> SUFFICES ASSUME Inv PROVE TypeOK
    OBVIOUS
  <2>1. n \in Nat /\ Nmax \in Nat /\ n <= Nmax
    BY NumberAssumption DEF Inv, Counters, Left
  <2>2. BoundB(n) <= BoundB(Nmax) /\ BoundB(n) \in Nat /\ BoundB(Nmax) \in Nat
    BY <2>1, BoundMonotone, BoundTypes
  <2>3. BoundB(Nmax) < 2 * Word /\ Word \in Nat
    BY BlockAssumption, WordAssumption DEF BoundB
  <2>4. b \in 0 .. Word - 1
    BY <2>2, <2>3 DEF Inv, Sums
  <2>5. a \in 0 .. Word - 1
    <3>1. 2 * BoundA(n) <= BoundB(n) /\ BoundA(n) \in Nat
      <4> DEFINE c == Base - 1
      <4>1. c \in Nat /\ ByteMax \in Nat /\ n \in Nat
        BY NumberAssumption, <2>1
      <4> HIDE DEF c
      <4>2. (n + 1) * c >= c
        BY <4>1
      <4>3. n * (n + 1) >= 2 * n /\ n * (n + 1) \in Nat
        BY <4>1
      <4>4. ByteMax * (n * (n + 1)) >= 2 * (ByteMax * n)
        <5> DEFINE y == n * (n + 1)
        <5>1. y \in Nat /\ y >= 2 * n
          BY <4>3
        <5> HIDE DEF y
        <5>2. ByteMax * y >= 2 * (ByteMax * n)
          BY <4>1, <5>1
        <5> QED
          BY <5>2 DEF y
      <4>5. (n + 1) * c \in Nat /\ ByteMax * n \in Nat /\ ByteMax * (n * (n + 1)) \in Nat
        BY <4>1, <4>3
      <4> QED
        BY <4>1, <4>2, <4>4, <4>5 DEF BoundA, BoundB, c
    <3> QED
      BY <2>2, <2>3, <3>1 DEF Inv, Sums
  <2>6. result \in 0 .. Word - 1
    <3>1. CASE pc # "done"
      <4>1. result = 0
        BY <3>1 DEF Inv, Returned
      <4> QED
        BY <4>1, <2>3, <2>4
    <3>2. CASE pc = "done"
      <4>1. n = 0 /\ Base \in Nat /\ Base > 1
        BY <3>2, NumberAssumption DEF Inv, Counters
      <4>2. BoundA(0) = Base - 1 /\ BoundB(0) = 2 * (Base - 1)
        BY NumberAssumption DEF BoundA, BoundB
      <4>3. /\ a \in Nat /\ b \in Nat /\ Half \in Nat
            /\ a <= Half - 1 /\ b <= Half - 1 /\ Half * Half = Word
        BY <4>1, <4>2, WordAssumption DEF Inv, Sums
      <4>4. b * Half <= (Half - 1) * Half
        BY <4>3
      <4>5. (Half - 1) * Half = Half * Half - Half
        BY <4>3
      <4>6. b * Half \in Nat /\ b * Half + a <= Word - 1
        BY <4>3, <4>4, <4>5
      <4> QED
        BY <3>2, <4>3, <4>6, <2>3 DEF Inv, Returned
    <3> QED
      BY <3>1, <3>2
  <2> QED
    BY <2>1, <2>4, <2>5, <2>6 DEF Inv, Counters, Sums, TypeOK
<1> QED
  BY <1>1, Invariance, PTL
=============================================================================
