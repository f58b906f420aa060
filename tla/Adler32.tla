------------------------------ MODULE Adler32 ------------------------------
(***************************************************************************)
(* crypto::adler32, the checksum behind doChecksum and encode.             *)
(*                                                                         *)
(* The sums a and b are reduced modulo 65521 only once in 5552 bytes, and  *)
(* the bytes of such a block are taken sixteen at a time and then one at a *)
(* time.  The code's numbers are parameters, so that TLC can check the     *)
(* loops with small ones and the proofs hold for the real ones.  The bytes *)
(* are arbitrary: each one is chosen when it is read.                      *)
(***************************************************************************)
EXTENDS Integers

CONSTANTS
    Base,       \* 65521
    Nmax,       \* 5552, the bytes of a block
    Unroll,     \* 16, the additions of the unrolled loop's body
    ByteMax,    \* 255
    Half,       \* 2^16, what the shift by 16 multiplies by
    Word,       \* 2^32, the values of the narrowest uint_fast32_t
    MaxLen      \* bound: the longest data

ASSUME NumberAssumption ==
    /\ Base \in Nat /\ Base > 1
    /\ Nmax \in Nat /\ Nmax > 0
    /\ Unroll \in Nat /\ Unroll > 0
    /\ ByteMax \in Nat
    /\ MaxLen \in Nat

ASSUME WordAssumption == Half \in Nat /\ Word \in Nat /\ Base <= Half /\ Half * Half = Word

\* What makes 5552 the right block: the largest b that a block can end with,
\* begun with a = b = Base - 1 and full of the largest bytes, fits a word.
ASSUME BlockAssumption ==
    2 * ((Nmax + 1) * (Base - 1)) + ByteMax * (Nmax * (Nmax + 1)) < 2 * Word

VARIABLES
    pc,         \* "outer", "inner", "unrolled", "tail", "reduce" or "done"
    len, k,     \* the code's: bytes after this block, bytes left of it
    u,          \* additions left of the unrolled loop's body
    a, b,       \* the code's
    result,     \* what was returned
    pos, size,  \* data's offset from the start, and the length of the data
    n,          \* bytes added since a and b were reduced
    sumA, sumB  \* the sums of Adler-32's definition, neither cut nor reduced

vars == <<pc, len, k, u, a, b, result, pos, size, n, sumA, sumB>>

Byte == 0 .. ByteMax

\* Called with a length that is not 0, as it asserts and InMessage's
\* SomethingToSum shows.
Init ==
    /\ pc = "outer"
    /\ size \in 1 .. MaxLen
    /\ len = size
    /\ a = 1 /\ b = 0
    /\ k = 0 /\ u = 0 /\ result = 0 /\ pos = 0 /\ n = 0
    /\ sumA = 1 /\ sumB = 0

\* Mutant: one byte too many before the sums are reduced.
blockTooLong(left) == IF left > Nmax + 1 THEN Nmax + 1 ELSE left

\* k = len > 5552? 5552 : len
block(left) == IF left > Nmax THEN Nmax ELSE left

\* while(len > 0): the next block.
Outer ==
    /\ pc = "outer" /\ len > 0
    /\ k' = block(len)
    /\ len' = len - block(len)
    /\ pc' = "inner"
    /\ UNCHANGED <<u, a, b, result, pos, size, n, sumA, sumB>>

\* Mutant: the unrolled loop goes on with one byte too few.
unrollsEarly(left) == left >= Unroll - 1

\* while(k >= 16)
unrolls(left) == left >= Unroll

\* The body of the unrolled loop is entered, or the rest is taken byte by byte.
Inner ==
    /\ pc = "inner"
    /\ \/ unrolls(k) /\ pc' = "unrolled" /\ u' = Unroll
       \/ ~unrolls(k) /\ k # 0 /\ pc' = "tail" /\ UNCHANGED u
       \/ ~unrolls(k) /\ k = 0 /\ pc' = "reduce" /\ UNCHANGED u
    /\ UNCHANGED <<len, k, a, b, result, pos, size, n, sumA, sumB>>

\* a += *data++; b += a
AddByte(x) ==
    /\ a' = (a + x) % Word
    /\ b' = (b + ((a + x) % Word)) % Word
    /\ pos' = pos + 1
    /\ n' = n + 1
    /\ sumA' = sumA + x
    /\ sumB' = sumB + sumA + x

\* One line of the unrolled body; after the last one, k -= 16.
UnrolledByte(x) ==
    /\ pc = "unrolled"
    /\ AddByte(x)
    /\ u' = u - 1
    /\ k' = IF u = 1 THEN k - Unroll ELSE k
    /\ pc' = IF u = 1 THEN "inner" ELSE "unrolled"
    /\ UNCHANGED <<len, result, size>>

\* do{ ... } while(--k)
TailByte(x) ==
    /\ pc = "tail"
    /\ AddByte(x)
    /\ k' = k - 1
    /\ pc' = IF k = 1 THEN "reduce" ELSE "tail"
    /\ UNCHANGED <<len, u, result, size>>

\* Mutant: b is reduced, a is not.
reducedHalf == a' = a /\ b' = b % Base

\* a %= 65521; b %= 65521
reduced == a' = a % Base /\ b' = b % Base

Reduce ==
    /\ pc = "reduce"
    /\ reduced
    /\ n' = 0
    /\ pc' = "outer"
    /\ UNCHANGED <<len, k, u, result, pos, size, sumA, sumB>>

\* return (uint32_t)(b << 16) | a: the shifted b has no bit of a's.
Return ==
    /\ pc = "outer" /\ len <= 0
    /\ result' = ((b * Half) % Word) + a
    /\ pc' = "done"
    /\ UNCHANGED <<len, k, u, a, b, pos, size, n, sumA, sumB>>

Done == pc = "done" /\ UNCHANGED vars

Next ==
    \/ Outer
    \/ Inner
    \/ \E x \in Byte : UnrolledByte(x) \/ TailByte(x)
    \/ Reduce
    \/ Return
    \/ Done

Spec == Init /\ [][Next]_vars

-----------------------------------------------------------------------------
(* Properties *)

TypeOK ==
    /\ pc \in {"outer", "inner", "unrolled", "tail", "reduce", "done"}
    /\ size \in 1 .. MaxLen
    /\ len \in Nat /\ k \in Nat /\ u \in 0 .. Unroll
    /\ a \in 0 .. Word - 1 /\ b \in 0 .. Word - 1
    /\ result \in 0 .. Word - 1
    /\ pos \in Nat /\ n \in 0 .. Nmax /\ sumA \in Nat /\ sumB \in Nat

Reading == pc \in {"unrolled", "tail"}

\* The deferred reduction is safe: whatever the next byte is, neither
\* addition of the unrolled loop or of the tail exceeds 32 bits.
NoWrap == Reading => a + ByteMax < Word /\ b + a + ByteMax < Word

\* No byte behind the data is read, by neither loop, and none is left out.
InsideData ==
    /\ Reading => pos < size
    /\ pc = "done" => pos = size

\* What adler32 returns is the checksum by its definition: the sum of the
\* bytes plus one below, the sum of those sums above, both modulo 65521.
Checksum ==
    pc = "done" => result = (sumB % Base) * Half + (sumA % Base)
=============================================================================
