--------------------------- MODULE MessageProofs ---------------------------
(***************************************************************************)
(* Proofs about the two kinds of message, for every buffer size, every     *)
(* number of values and every length.                                      *)
(*                                                                         *)
(* Incoming: OnlyReceived is not inductive: that a step stays inside the   *)
(* received bytes depends on where the cursor and the end of the message   *)
(* are, which the header and the body settle before the protocol sees the  *)
(* message.  Cursor adds that, phase by phase, and Away that a block with  *)
(* the crypto service still lies in a message nobody has used since.       *)
(*                                                                         *)
(* Outgoing: that no write lands on another follows from where the writes  *)
(* lie around the position the message was begun at, and what the size     *)
(* stored by addHeader counts from what was added when it was stored.      *)
(***************************************************************************)
EXTENDS InMessage, OutMessage, TLAPS

-----------------------------------------------------------------------------
(* The incoming message *)

\* The message ends where its bytes do.
Own == ~overstated /\ ~disturbed

\* The cursor and the end of the message in each phase.
Cursor ==
    /\ phase = "body" => HeaderSize < recv /\ recv <= MaxBody
    /\ phase \in {"body", "checksum"} => /\ HeaderSize <= pos
                                         /\ pos + MinBody <= size
                                         /\ size <= MaxBody
                                         /\ Own => size <= recv
    /\ Handled => /\ HeaderSize <= pos /\ pos <= size /\ size <= MaxBody
                  /\ Own => size <= recv

\* A block that is with the crypto service, of a message nobody has used since.
Away ==
    rsa > 0 /\ ~disturbed => /\ rsa = 1
                             /\ phase \in {"open", "thrown", "assert"}
                             /\ Handled => pos + RsaSize <= size

Inv == TypeOK /\ Cursor /\ Away /\ OnlyReceived

\* A function that is called with a block away disturbs it.
LEMMA CallDisturbs ==
    ASSUME Inv, Called
    PROVE  /\ disturbed' \in BOOLEAN /\ count' \in Nat
           /\ ~disturbed' => ~disturbed /\ rsa = 0
<1>1. disturbed' = (disturbed \/ rsa > 0) /\ count' = count
  BY DEF Called
<1>2. rsa \in Nat /\ count \in Nat /\ disturbed \in BOOLEAN
  BY DEF Inv, TypeOK
<1>3. ~(rsa > 0) => rsa = 0
  BY <1>2
<1> QED
  BY <1>1, <1>2, <1>3, Zenon

\* ... and one that only reads leaves the rest alone.
LEMMA ReadDisturbs ==
    ASSUME Inv, Reads
    PROVE  /\ disturbed' \in BOOLEAN /\ overstated' \in BOOLEAN
           /\ count' \in Nat /\ rsa' \in Nat /\ recv' \in Nat
           /\ rsa' = rsa /\ recv' = recv
           /\ Own' => Own
           /\ ~disturbed' => rsa' = 0
<1>1. Called /\ recv' = recv /\ rsa' = rsa /\ overstated' = overstated
  BY DEF Reads
<1>2. overstated \in BOOLEAN /\ rsa \in Nat /\ recv \in Nat
  BY DEF Inv, TypeOK
<1> QED
  BY <1>1, <1>2, CallDisturbs DEF Own

\* The shapes in which the member functions touch the message: a chunk taken
\* from some place behind the cursor, or the exception.
LEMMA TakeKeeps ==
    ASSUME Inv, phase = "open", NEW p \in Nat, NEW n \in Nat, pos <= p,
           Take(p, n), Reads
    PROVE  Inv'
<1> USE DEF HeaderSize, MinBody, RsaSize
<1>1. /\ disturbed' \in BOOLEAN /\ overstated' \in BOOLEAN
      /\ count' \in Nat /\ rsa' \in Nat /\ recv' \in Nat
      /\ rsa' = rsa /\ recv' = recv
      /\ Own' => Own
      /\ ~disturbed' => rsa' = 0
  BY ReadDisturbs
<1>2. Away'
  BY <1>1 DEF Away
<1>3. TypeOK'
  BY <1>1 DEF Inv, TypeOK, Take, Throw, movePos, Chunk, Phase
<1>4. /\ 2 <= pos /\ pos <= size /\ size <= MaxBody
      /\ Own => size <= recv
      /\ pos \in Nat /\ size \in Nat /\ recv \in Nat /\ MaxBody \in Nat
  BY InAssumption DEF Inv, TypeOK, Cursor, Handled
<1>5. CASE movePos(p, n)
  <2>1. pos' = p + n /\ chunk' = Chunk(p, p + n) /\ size' = size /\ phase' = "open"
    BY <1>5 DEF Take
  <2>2. chunk'.from = p /\ chunk'.to = p + n /\ p + n <= size
    BY <1>5, <2>1 DEF Chunk, movePos
  <2>3. Cursor'
    BY <1>1, <1>4, <2>1, <2>2 DEF Cursor, Handled
  <2>4. OnlyReceived'
    BY <1>1, <1>4, <2>1, <2>2 DEF OnlyReceived, Own
  <2> QED
    BY <1>2, <1>3, <2>3, <2>4 DEF Inv
<1>6. CASE ~movePos(p, n)
  <2>1. phase' = "thrown"
    BY <1>6 DEF Take, Throw
  <2> QED
    BY <1>2, <1>3, <2>1 DEF Inv, Cursor, OnlyReceived, Handled
<1> QED
  BY <1>5, <1>6

\* The exception, with whatever else the call leaves behind.
LEMMA ThrowKeeps ==
    ASSUME Inv, NEW p \in Nat, Throw(p), Called, recv' \in Nat,
           rsa' = rsa, overstated' = overstated
    PROVE  Inv'
<1>1. /\ disturbed' \in BOOLEAN /\ count' \in Nat
      /\ ~disturbed' => ~disturbed /\ rsa = 0
  BY CallDisturbs
<1>2. TypeOK'
  BY <1>1 DEF Inv, TypeOK, Throw, Phase
<1>3. Away'
  BY <1>1 DEF Away
<1> QED
  BY <1>2, <1>3 DEF Throw, Inv, Cursor, OnlyReceived, Handled

\* The number of the body is accepted: it is what is left.
LEMMA ParseKeeps ==
    ASSUME Inv, NEW n \in Nat, phase = "parse", Acceptable(n),
           pos' = pos + 2, chunk' = Chunk(pos, pos + 2),
           SetRemainingSize(pos + 2, n, "body"), recv' = size',
           Called, UNCHANGED <<rsa, overstated>>
    PROVE  Inv'
<1> USE DEF HeaderSize, MinBody, RsaSize
<1>1. /\ disturbed' \in BOOLEAN /\ count' \in Nat
      /\ ~disturbed' => ~disturbed /\ rsa = 0
  BY CallDisturbs
<1>2. pos \in Nat /\ size \in Nat /\ MaxBody \in Nat /\ rsa \in Nat
  BY InAssumption DEF Inv, TypeOK
<1>3. Away'
  BY <1>1 DEF Away
<1>4. phase' \in {"body", "assert"} /\ size' \in Nat
  BY <1>2 DEF SetRemainingSize
<1>5. TypeOK'
  BY <1>1, <1>2, <1>4 DEF Inv, TypeOK, Chunk, Phase
<1>6. OnlyReceived'
  BY <1>4 DEF OnlyReceived, Handled
<1>7. phase' = "body" => size' = pos + 2 + n /\ pos + 2 + n <= MaxBody
  BY DEF SetRemainingSize
<1>8. Cursor'
  BY <1>2, <1>4, <1>7 DEF Cursor, Handled, Acceptable
<1> QED
  BY <1>3, <1>5, <1>6, <1>8 DEF Inv

LEMMA ChecksumKeeps ==
    ASSUME Inv, doChecksum
    PROVE  Inv'
<1> USE DEF HeaderSize, MinBody, RsaSize
<1>1. /\ disturbed' \in BOOLEAN /\ overstated' \in BOOLEAN
      /\ count' \in Nat /\ rsa' \in Nat /\ recv' \in Nat
      /\ rsa' = rsa /\ recv' = recv
      /\ Own' => Own
      /\ ~disturbed' => rsa' = 0
  BY ReadDisturbs DEF doChecksum
<1>2. /\ pos \in Nat /\ size \in Nat /\ recv \in Nat /\ MaxBody \in Nat
      /\ chunk \in [from : Nat, to : Nat]
      /\ 2 <= pos /\ pos + 8 <= size /\ size <= MaxBody
      /\ Own => size <= recv
  BY InAssumption DEF Inv, TypeOK, Cursor, doChecksum
<1>3. movePos(pos, 4) /\ pos + 4 # size
  BY <1>2 DEF movePos
<1>4. Away'
  BY <1>1 DEF Away
<1>5. \/ Throw(pos + 4)
      \/ /\ phase' = "open" /\ pos' = pos + 4
         /\ chunk' = Chunk(pos + 4, size) /\ size' = size
  BY <1>3 DEF doChecksum
<1>6. CASE Throw(pos + 4)
  <2>1. TypeOK'
    BY <1>1, <1>2, <1>6 DEF TypeOK, Throw, Phase
  <2> QED
    BY <1>4, <1>6, <2>1 DEF Throw, Inv, Cursor, OnlyReceived, Handled
<1>7. CASE /\ phase' = "open" /\ pos' = pos + 4
           /\ chunk' = Chunk(pos + 4, size) /\ size' = size
  <2>1. chunk'.from = pos + 4 /\ chunk'.to = size
    BY <1>7 DEF Chunk
  <2>2. TypeOK'
    BY <1>1, <1>2, <1>7 DEF TypeOK, Chunk, Phase
  <2>3. Cursor'
    BY <1>1, <1>2, <1>7 DEF Cursor, Handled
  <2>4. OnlyReceived'
    BY <1>1, <1>2, <1>7, <2>1 DEF OnlyReceived, Own
  <2> QED
    BY <1>4, <2>2, <2>3, <2>4 DEF Inv
<1> QED
  BY <1>5, <1>6, <1>7

\* The plain text's size is any number.
LEMMA DecryptKeeps ==
    ASSUME Inv, xteaDecrypt
    PROVE  Inv'
<1> USE DEF HeaderSize, MinBody, RsaSize
<1>1. /\ disturbed' \in BOOLEAN /\ count' \in Nat
      /\ ~disturbed' => ~disturbed /\ rsa = 0
  BY CallDisturbs DEF xteaDecrypt
<1>2. /\ pos \in Nat /\ size \in Nat /\ recv \in Nat /\ MaxBody \in Nat /\ rsa \in Nat
      /\ chunk \in [from : Nat, to : Nat] /\ overstated \in BOOLEAN
      /\ 2 <= pos /\ pos <= size /\ size <= MaxBody
      /\ Own => size <= recv
  BY InAssumption DEF Inv, TypeOK, Cursor, Handled, xteaDecrypt
<1>3. recv' = recv /\ rsa' = rsa /\ Called
  BY DEF xteaDecrypt
<1>4. CASE ~(wholeFrames(getRemainingSize) /\ movePos(pos, 2))
  <2>1. PICK p \in {pos, pos + 2} : Throw(p)
    BY <1>4 DEF xteaDecrypt
  <2>2. p \in Nat /\ recv' \in Nat /\ overstated' = overstated
    BY <1>2, <1>3, <1>4 DEF xteaDecrypt
  <2> QED
    BY <1>3, <2>1, <2>2, ThrowKeeps
<1>5. CASE wholeFrames(getRemainingSize) /\ movePos(pos, 2)
  <2>1. PICK n \in Numbers :
          /\ pos' = pos + 2
          /\ chunk' = Chunk(pos, size)
          /\ SetRemainingSize(pos + 2, n, "open")
          /\ overstated' = (overstated \/ pos + 2 + n > size)
    BY <1>5 DEF xteaDecrypt
  <2>2. n \in Nat
    BY InAssumption
  <2>3. overstated' \in BOOLEAN /\ (~overstated' => ~overstated /\ ~(pos + 2 + n > size))
    BY <1>2, <2>1, Zenon
  <2>4. Own' => Own /\ pos + 2 + n <= size
    BY <1>1, <1>2, <2>2, <2>3 DEF Own
  <2>5. chunk'.from = pos /\ chunk'.to = size
    BY <2>1 DEF Chunk
  <2>6. phase' \in {"open", "assert"} /\ size' \in Nat
    BY <1>2, <2>1, <2>2 DEF SetRemainingSize, xteaDecrypt
  <2>7. TypeOK'
    BY <1>1, <1>2, <1>3, <2>1, <2>3, <2>6 DEF TypeOK, Chunk, Phase
  <2>8. phase' = "open" => size' = pos + 2 + n /\ pos + 2 + n <= MaxBody
    BY <2>1 DEF SetRemainingSize
  <2>9. Cursor'
    BY <1>2, <1>3, <2>1, <2>2, <2>4, <2>6, <2>8 DEF Cursor, Handled
  <2>10. OnlyReceived'
    BY <1>2, <1>3, <2>4, <2>5 DEF OnlyReceived, Own
  <2>11. Away'
    BY <1>1, <1>3 DEF Away
  <2> QED
    BY <2>7, <2>9, <2>10, <2>11 DEF Inv
<1> QED
  BY <1>4, <1>5

LEMMA BlockGiven ==
    ASSUME Inv, rsaDecrypt
    PROVE  Inv'
<1> USE DEF HeaderSize, MinBody, RsaSize
<1>1. /\ disturbed' \in BOOLEAN /\ count' \in Nat
      /\ ~disturbed' => ~disturbed /\ rsa = 0
  BY CallDisturbs DEF rsaDecrypt
<1>2. /\ pos \in Nat /\ size \in Nat /\ recv \in Nat /\ MaxBody \in Nat /\ rsa \in Nat
      /\ chunk \in [from : Nat, to : Nat] /\ overstated \in BOOLEAN
      /\ 2 <= pos /\ pos <= size /\ size <= MaxBody
      /\ Own => size <= recv
  BY InAssumption DEF Inv, TypeOK, Cursor, Handled, rsaDecrypt
<1>3. recv' = recv /\ overstated' = overstated /\ Called /\ phase = "open"
  BY DEF rsaDecrypt
<1>4. CASE ~movePos(pos, RsaSize)
  <2>1. Throw(pos) /\ rsa' = rsa
    BY <1>4 DEF rsaDecrypt
  <2> QED
    BY <1>2, <1>3, <2>1, ThrowKeeps
<1>5. CASE movePos(pos, RsaSize)
  <2>1. /\ chunk' = Chunk(pos, pos + 128) /\ rsa' = rsa + 1
        /\ pos' = pos /\ size' = size /\ phase' = phase
    BY <1>5 DEF rsaDecrypt
  <2>2. chunk'.from = pos /\ chunk'.to = pos + 128 /\ pos + 128 <= size
    BY <1>5, <2>1 DEF Chunk, movePos
  <2>3. Own' => Own
    BY <1>1, <1>3 DEF Own
  <2>4. TypeOK'
    BY <1>1, <1>2, <1>3, <2>1 DEF TypeOK, Chunk, Phase
  <2>5. Cursor'
    BY <1>2, <1>3, <2>1, <2>3 DEF Cursor, Handled
  <2>6. OnlyReceived'
    BY <1>2, <1>3, <2>2, <2>3 DEF OnlyReceived, Own
  <2>7. Away'
    BY <1>1, <1>2, <1>3, <2>1, <2>2 DEF Away
  <2> QED
    BY <2>4, <2>5, <2>6, <2>7 DEF Inv
<1> QED
  BY <1>4, <1>5

LEMMA BlockDone ==
    ASSUME Inv, RsaDone
    PROVE  Inv'
<1> USE DEF HeaderSize, MinBody, RsaSize
<1>1. /\ pos \in Nat /\ size \in Nat /\ recv \in Nat /\ MaxBody \in Nat /\ rsa \in Nat
      /\ count \in Nat /\ phase \in Phase
      /\ chunk \in [from : Nat, to : Nat]
      /\ overstated \in BOOLEAN /\ disturbed \in BOOLEAN
  BY InAssumption DEF Inv, TypeOK
<1>2. /\ recv' = recv /\ count' = count /\ rsa' = rsa - 1 /\ rsa > 0
      /\ overstated' = overstated /\ disturbed' = disturbed
  BY DEF RsaDone
<1>3. rsa' \in Nat /\ (Own' <=> Own)
  BY <1>1, <1>2 DEF Own
<1>4. ~disturbed => rsa' = 0
  BY <1>1, <1>2 DEF Inv, Away
<1>5. Away'
  BY <1>2, <1>4 DEF Away
<1>6. CASE UNCHANGED <<pos, size, phase, chunk>>
  <2>1. TypeOK'
    BY <1>1, <1>2, <1>3, <1>6 DEF TypeOK
  <2>2. Cursor'
    BY <1>2, <1>3, <1>6 DEF Cursor, Handled, Inv
  <2>3. OnlyReceived'
    BY <1>2, <1>3, <1>6 DEF OnlyReceived, Handled, Inv
  <2> QED
    BY <1>5, <2>1, <2>2, <2>3 DEF Inv
<1>7. CASE SetRemainingSize(pos, RsaSize, phase) /\ pos' = pos + 1
           /\ chunk' = Chunk(pos, pos + 1)
  <2>1. \/ size' = pos + 128 /\ phase' = phase /\ pos + 128 <= MaxBody
        \/ size' = size /\ phase' = "assert"
    BY <1>7 DEF SetRemainingSize
  <2>2. chunk'.from = pos /\ chunk'.to = pos + 1
    BY <1>7 DEF Chunk
  <2>3. TypeOK'
    BY <1>1, <1>2, <1>3, <1>7, <2>1 DEF TypeOK, Chunk, Phase
  <2>4. Handled /\ Own => pos + 128 <= size /\ size <= recv
    BY <1>2 DEF Inv, Away, Cursor, Own
  <2>5. phase \in {"body", "checksum"} => disturbed
    BY <1>2 DEF Inv, Away
  <2>6. Cursor'
    BY <1>1, <1>2, <1>3, <1>7, <2>1, <2>4, <2>5 DEF Inv, Cursor, Handled, Own
  <2>7. OnlyReceived'
    BY <1>1, <1>2, <1>3, <2>1, <2>2, <2>4 DEF Inv, Cursor, OnlyReceived, Handled, Own
  <2> QED
    BY <1>5, <2>3, <2>6, <2>7 DEF Inv
<1> QED
  BY <1>6, <1>7 DEF RsaDone

LEMMA NextKeeps ==
    ASSUME Inv, NextMessage
    PROVE  Inv'
<1>1. disturbed' = (rsa > 0) /\ overstated' = FALSE /\ rsa' = rsa /\ phase' = "header"
  BY DEF NextMessage
<1>2. disturbed' \in BOOLEAN /\ overstated' \in BOOLEAN /\ (rsa > 0 => disturbed')
  <2>1. overstated' \in BOOLEAN
    BY <1>1, Zenon
  <2>2. (rsa > 0) \in BOOLEAN
    BY SMT DEF Inv, TypeOK
  <2> QED
    BY <1>1, <2>1, <2>2, Zenon
<1>3. TypeOK'
  BY <1>2 DEF NextMessage, Inv, TypeOK, Phase, HeaderSize
<1>4. Away'
  BY <1>1, <1>2 DEF Away
<1> QED
  BY <1>1, <1>3, <1>4 DEF Inv, Cursor, OnlyReceived, Handled

\* Cursor and Away, with the type invariant and OnlyReceived, are kept by every
\* step.
LEMMA Inductive == Inv /\ [Next]_vars => Inv'
<1> SUFFICES ASSUME Inv, [Next]_vars PROVE Inv'
    OBVIOUS
<1>0. pos \in Nat /\ size \in Nat
    BY DEF Inv, TypeOK
<1>n. \A n \in Numbers : n \in Nat
    BY InAssumption
<1>1. CASE HeaderRead
    BY <1>1 DEF HeaderRead, Inv, TypeOK, Cursor, Away, OnlyReceived, Handled, Phase
<1>2. CASE parseHeaderAndGetBodyBuffer
    <2>1. PICK n \in Numbers :
            IF movePos(pos, 2) /\ Acceptable(n)
              THEN /\ pos' = pos + 2
                   /\ chunk' = Chunk(pos, pos + 2)
                   /\ SetRemainingSize(pos + 2, n, "body")
              ELSE Throw(pos + 2)
        BY <1>2 DEF parseHeaderAndGetBodyBuffer
    <2>2. phase = "parse" /\ recv' = size' /\ Called /\ UNCHANGED <<rsa, overstated>>
        BY <1>2 DEF parseHeaderAndGetBodyBuffer
    <2>3. CASE movePos(pos, 2) /\ Acceptable(n)
        BY <1>n, <2>1, <2>2, <2>3, ParseKeeps
    <2>4. CASE ~(movePos(pos, 2) /\ Acceptable(n))
        <3>1. Throw(pos + 2)
            BY <2>1, <2>4
        <3>2. recv' \in Nat
            BY <1>0, <2>2, <3>1 DEF Throw
        <3> QED
            BY <1>0, <2>2, <3>1, <3>2, ThrowKeeps
    <2> QED
        BY <2>3, <2>4
<1>3. CASE BodyRead
    <2>1. phase = "body" /\ phase' = "checksum"
          /\ UNCHANGED <<pos, size, recv, chunk, count, rsa, overstated, disturbed>>
        BY <1>3 DEF BodyRead
    <2>2. Own' <=> Own
        BY <2>1 DEF Own
    <2> QED
        BY <2>1, <2>2 DEF Inv, TypeOK, Cursor, Away, OnlyReceived, Handled, Phase
<1>4. CASE \E bytes \in Widths : Get(bytes)
    <2>1. PICK n \in Widths : Get(n)
        BY <1>4
    <2>2. n \in Nat
        BY InAssumption
    <2> QED
        BY <1>0, <2>1, <2>2, TakeKeeps DEF Get
<1>5. CASE getString
    <2>1. CASE movePos(pos, 2)
        <3>1. PICK n \in Numbers : Take(pos + 2, n)
            BY <1>5, <2>1 DEF getString
        <3>2. n \in Nat /\ pos + 2 \in Nat /\ pos <= pos + 2
            BY <1>0, <1>n
        <3> QED
            BY <1>5, <3>1, <3>2, TakeKeeps DEF getString
    <2>2. CASE ~movePos(pos, 2)
        <3>1. Throw(pos + 2) /\ Called /\ recv' = recv /\ rsa' = rsa
              /\ overstated' = overstated /\ recv \in Nat
            BY <1>5, <2>2 DEF getString, Reads, Inv, TypeOK
        <3> QED
            BY <1>0, <3>1, ThrowKeeps
    <2> QED
        BY <2>1, <2>2
<1>6. CASE getXtea
    <2>1. PICK k \in 0..3 : Take(pos + 4 * k, 4)
        BY <1>6 DEF getXtea
    <2>2. pos + 4 * k \in Nat /\ pos <= pos + 4 * k
        BY <1>0
    <2> QED
        BY <1>6, <2>1, <2>2, TakeKeeps DEF getXtea
<1>7. CASE RsaRaces
    <2>1. disturbed' \in BOOLEAN /\ disturbed'
        BY <1>7, Zenon DEF RsaRaces
    <2>2. rsa' \in Nat
        BY <1>7 DEF RsaRaces, Inv, TypeOK
    <2> QED
        BY <1>7, <2>1, <2>2 DEF RsaRaces, Inv, TypeOK, Cursor, Away, OnlyReceived,
           Handled, Phase
<1>8. CASE Over \/ UNCHANGED vars
    <2>1. UNCHANGED vars
        BY <1>8 DEF Over
    <2> QED
        BY <2>1 DEF vars, Inv, TypeOK, Cursor, Own, Away, OnlyReceived, Handled
<1> QED
    BY <1>1, <1>2, <1>3, <1>4, <1>5, <1>6, <1>7, <1>8, ChecksumKeeps, DecryptKeeps,
       BlockGiven, BlockDone, NextKeeps
       DEF Next

\* The inductive invariant holds in every reachable state.
THEOREM Invariance == Spec => []Inv
<1>1. Init => Inv
    <2> SUFFICES ASSUME Init PROVE Inv
        OBVIOUS
    <2>1. overstated \in BOOLEAN /\ disturbed \in BOOLEAN
        BY Zenon DEF Init
    <2> QED
        BY <2>1 DEF Init, Inv, TypeOK, Cursor, Away, OnlyReceived, Handled, Phase,
           HeaderSize
<1> QED
    BY <1>1, Inductive, PTL DEF Spec

\* Whatever the bytes announce, and whenever an RSA block comes back, no member
\* function of BasicInMessage or StandardInMessage leaves the buffer, nor, unless
\* a decrypted size went beyond the message or the message was used while a
\* block was away, the bytes the message brought.
THEOREM Reading == Spec => []OnlyReceived
<1>1. Inv => OnlyReceived
    BY DEF Inv
<1> QED
    BY <1>1, Invariance, PTL

\* getBodyBuffer's bytes lie inside the buffer and are not none.
THEOREM Filling == Spec => []BodyFits
<1>1. Inv => BodyFits
    BY InAssumption DEF Inv, TypeOK, Cursor, BodyFits, HeaderSize, MinBody
<1> QED
    BY <1>1, Invariance, PTL

\* doChecksum's read and adler32's assertion never fail.
THEOREM Summing == Spec => []SomethingToSum
<1>1. Inv => SomethingToSum
    BY DEF Inv, TypeOK, Cursor, SomethingToSum, HeaderSize, MinBody
<1> QED
    BY <1>1, Invariance, PTL

\* A message that is being handled is read forwards, and only the two ways
\* NoReread names make it longer, never longer than the buffer.
THEOREM Forwards == Spec => NoReread
<1> DEFINE Step == Handled /\ Handled' =>
                     /\ pos <= pos'
                     /\ size' <= size \/ overstated' \/ disturbed
                     /\ size' <= HeaderSize + MaxBody
<1>1. Inv /\ Inv' /\ [Next]_vars => [Step]_vars
    <2> SUFFICES ASSUME Inv, Inv', Next, Handled, Handled'
                 PROVE  /\ pos <= pos'
                        /\ size' <= size \/ overstated' \/ disturbed
                        /\ size' <= HeaderSize + MaxBody
        OBVIOUS
    <2> USE DEF HeaderSize, MinBody, RsaSize
    <2>0. pos \in Nat /\ size \in Nat /\ pos <= size /\ rsa \in Nat
        BY DEF Inv, TypeOK, Cursor
    <2>b. size' <= 2 + MaxBody
        BY InAssumption DEF Inv, TypeOK, Cursor
    <2>n. \A n \in Numbers : n \in Nat
        BY InAssumption
    <2>1. CASE \E bytes \in Widths : Get(bytes)
        BY <2>0, <2>b, <2>1, InAssumption DEF Get, Take, Throw
    <2>2. CASE getString \/ getXtea
        BY <2>0, <2>b, <2>n, <2>2 DEF getString, getXtea, Take, Throw
    <2>3. CASE xteaDecrypt
        <3>1. CASE ~(wholeFrames(getRemainingSize) /\ movePos(pos, 2))
            BY <2>3, <3>1 DEF xteaDecrypt, Throw, Handled
        <3>2. CASE wholeFrames(getRemainingSize) /\ movePos(pos, 2)
            <4>1. PICK n \in Numbers :
                    /\ pos' = pos + 2
                    /\ SetRemainingSize(pos + 2, n, "open")
                    /\ overstated' = (overstated \/ pos + 2 + n > size)
                BY <2>3, <3>2 DEF xteaDecrypt
            <4>2. ~overstated' => ~(pos + 2 + n > size)
                BY <4>1, Zenon
            <4>3. size' = pos + 2 + n
                BY <4>1 DEF SetRemainingSize, Handled
            <4> QED
                BY <2>0, <2>b, <2>n, <4>1, <4>2, <4>3
        <3> QED
            BY <3>1, <3>2
    <2>4. CASE rsaDecrypt
        BY <2>0, <2>b, <2>4 DEF rsaDecrypt, Throw, Handled
    <2>5. CASE RsaDone
        <3>1. ~disturbed => pos + 128 <= size
            BY <2>5 DEF RsaDone, Inv, Away
        <3> QED
            BY <2>0, <2>b, <2>5, <3>1 DEF RsaDone, SetRemainingSize, Handled
    <2>6. CASE HeaderRead \/ parseHeaderAndGetBodyBuffer \/ BodyRead \/ doChecksum
               \/ RsaRaces \/ NextMessage
        BY <2>6 DEF HeaderRead, parseHeaderAndGetBodyBuffer, BodyRead, doChecksum,
           RsaRaces, NextMessage, Handled
    <2>7. CASE Over
        BY <2>7 DEF Over, Handled
    <2> QED
        BY <2>1, <2>2, <2>3, <2>4, <2>5, <2>6, <2>7 DEF Next
<1> QED
    BY <1>1, Invariance, PTL DEF Spec, NoReread

-----------------------------------------------------------------------------
(* The outgoing message *)

OutParts == {"value", "length", "text", "cText"}

\* While values are added they are all there is, and the last of them ends the
\* vector; the header's size is of them.
Building ==
    /\ prefixPos = PrefixSize /\ ~late
    /\ \A p \in parts : p.kind \in OutParts
    /\ len = prefixPos \/ \E p \in parts : p.to = len

Headed ==
    /\ prefixPos = PrefixSize - 2
    /\ \A p \in parts : p.kind \in OutParts \cup {"decryptedSize"}
    /\ \A p \in parts : p.kind \in OutParts => PrefixSize <= p.from
    /\ \A p \in parts : p.kind = "decryptedSize" =>
          /\ p.from = prefixPos /\ p.to = PrefixSize
          /\ p.number = Stored(len - PrefixSize, 2)
    /\ len = PrefixSize \/ \E p \in parts : p.kind \in OutParts /\ p.to = len

OutInv ==
    /\ OutTypeOK
    /\ PrefixSize <= len
    /\ Intact
    /\ stage \in {"headed", "encrypted"} => prefixPos = PrefixSize - 2
    /\ stage = "building" => Building
    /\ stage = "headed" /\ ~late => Headed
    /\ stage \in {"encrypted", "encoded"} => Recoverable

\* A number cut to two bytes, and one that fits them.
LEMMA StoredInTwo ==
    ASSUME NEW n \in Nat
    PROVE  /\ Stored(n, 2) \in Nat /\ Stored(n, 2) < 2^16
           /\ n < 2^16 => Stored(n, 2) = n
<1>1. Stored(n, 2) = n % 65536 /\ 2^16 = 65536
  BY DEF Stored
<1> QED
  BY <1>1

\* The parts ps lie somewhere.
Placed(ps) == \A p \in ps : p.from \in Int /\ p.to \in Int

\* The parts ps are laid out one after the other from a to b.
Laid(ps, a, b) ==
    /\ \A p, q \in ps : p = q \/ p.to <= q.from \/ q.to <= p.from
    /\ \A p \in ps : a <= p.from /\ p.to <= b
    /\ \A x \in {a} \cup {p.to : p \in ps} :
          x = b \/ \E q \in ps : q.from = x /\ x < q.to

\* All but the packet's size lie in the vector.
Within(ps) == \A p \in ps : p.kind = "packetSize" \/ 0 <= p.from

LEMMA WithinMore ==
    ASSUME NEW ps, NEW r, Within(ps), r.kind = "packetSize" \/ 0 <= r.from
    PROVE  Within(ps \cup {r})
BY DEF Within

\* add: a part behind the others.
LEMMA LaidBehind ==
    ASSUME NEW ps, NEW a \in Int, NEW b \in Int, NEW r, Laid(ps, a, b), a <= b,
           Placed(ps),
           r.from = b, r.to \in Int, b <= r.to
    PROVE  Laid(ps \cup {r}, a, r.to)
<1>1. \A p, q \in ps \cup {r} : p = q \/ p.to <= q.from \/ q.to <= p.from
  BY DEF Laid, Placed
<1>2. \A p \in ps \cup {r} : a <= p.from /\ p.to <= r.to
  BY DEF Laid, Placed
<1>3. ASSUME NEW x \in {a} \cup {p.to : p \in ps \cup {r}}
      PROVE  x = r.to \/ \E q \in ps \cup {r} : q.from = x /\ x < q.to
  <2>1. x \in {a} \cup {p.to : p \in ps} \/ x = r.to
    OBVIOUS
  <2>2. ASSUME x \in {a} \cup {p.to : p \in ps}
        PROVE  x = b \/ \E q \in ps : q.from = x /\ x < q.to
    BY <2>2 DEF Laid
  <2>3. CASE x = b
    BY <2>3
  <2> QED
    BY <2>1, <2>2, <2>3
<1> QED
  BY <1>1, <1>2, <1>3 DEF Laid

\* addPrefix: a part in front of the others.
LEMMA LaidBefore ==
    ASSUME NEW ps, NEW a \in Int, NEW b \in Int, NEW r, Laid(ps, a, b), a <= b,
           Placed(ps),
           r.to = a, r.from \in Int, r.from < a
    PROVE  Laid(ps \cup {r}, r.from, b)
<1>1. \A p, q \in ps \cup {r} : p = q \/ p.to <= q.from \/ q.to <= p.from
  BY DEF Laid, Placed
<1>2. \A p \in ps \cup {r} : r.from <= p.from /\ p.to <= b
  BY DEF Laid, Placed
<1>3. ASSUME NEW x \in {r.from} \cup {p.to : p \in ps \cup {r}}
      PROVE  x = b \/ \E q \in ps \cup {r} : q.from = x /\ x < q.to
  <2>1. x \in {a} \cup {p.to : p \in ps} \/ x = r.from
    OBVIOUS
  <2>2. ASSUME x \in {a} \cup {p.to : p \in ps}
        PROVE  x = b \/ \E q \in ps : q.from = x /\ x < q.to
    BY <2>2 DEF Laid
  <2> QED
    BY <2>1, <2>2
<1> QED
  BY <1>1, <1>2, <1>3 DEF Laid

\* A new part of the right types.
Typed(p) ==
    /\ p.kind \in Kind /\ p.from \in Int /\ p.to \in Int /\ p.number \in Nat
    /\ p.to - p.from = 2 => p.number < 2^16

LEMMA PartFields ==
    ASSUME NEW kind, NEW from, NEW to, NEW number
    PROVE  LET p == Part(kind, from, to, number)
           IN  p.kind = kind /\ p.from = from /\ p.to = to /\ p.number = number
BY DEF Part

\* A value behind the header is late, and one in front of it is not.
LEMMA LateOnes ==
    ASSUME OutInv, Adding
    PROVE  /\ stage # "building" => late'
           /\ stage = "building" => ~late'
           /\ late' \in BOOLEAN
<1>1. late' = (late \/ stage # "building")
  BY DEF Adding
<1>2. stage = "building" => ~late
  BY DEF OutInv, Building
<1>3. CASE stage # "building"
  BY <1>1, <1>3, Zenon
<1>4. CASE stage = "building"
  BY <1>1, <1>2, <1>4, Zenon
<1> QED
  BY <1>3, <1>4

LEMMA OutStart == OutInit => OutInv
<1> SUFFICES ASSUME OutInit PROVE OutInv
  OBVIOUS
<1> USE DEF OutInit, PrefixSize
<1>1. OutTypeOK
  <2>1. late \in BOOLEAN
    BY Zenon
  <2> QED
    BY <2>1, OutAssumption DEF OutTypeOK, Stage
<1>2. Intact
  BY DEF Intact
<1>3. Building
  BY DEF Building
<1> QED
  BY <1>1, <1>2, <1>3 DEF OutInv

\* What the invariant says of the parts.
LEMMA OutFacts ==
    ASSUME OutInv
    PROVE  /\ len \in Nat /\ prefixPos \in Int /\ prefixPos <= len
           /\ \A p \in parts : Typed(p)
           /\ Placed(parts)
           /\ Laid(parts, prefixPos, len)
           /\ Within(parts)
<1>1. len \in Nat /\ prefixPos \in Int /\ \A p \in parts : Typed(p)
  BY DEF OutInv, OutTypeOK, Typed
<1>2. Laid(parts, prefixPos, len)
  BY DEF OutInv, Intact, Laid
<1>3. prefixPos <= len
  <2>1. \A p \in parts : prefixPos <= p.from /\ p.to <= len /\ p.from \in Int /\ p.to \in Int
    BY <1>1, <1>2 DEF Laid, Typed
  <2>2. prefixPos = len \/ \E q \in parts : q.from = prefixPos /\ prefixPos < q.to
    BY <1>2 DEF Laid
  <2> QED
    BY <1>1, <2>1, <2>2
<1>4. Placed(parts)
  BY <1>1 DEF Placed, Typed
<1>5. Within(parts)
  BY DEF OutInv, Intact, Within
<1> QED
  BY <1>1, <1>2, <1>3, <1>4, <1>5

\* A value is added.
LEMMA AddKeeps ==
    ASSUME OutInv, NEW bytes \in OutWidths, Add(bytes)
    PROVE  OutInv'
<1> DEFINE r == Part("value", len, len + bytes, 0)
<1>1. bytes \in Nat /\ bytes > 0 /\ MaxAdds \in Nat
  BY OutAssumption
<1>2. /\ len \in Nat /\ prefixPos \in Int /\ prefixPos <= len
      /\ \A p \in parts : Typed(p)
      /\ Placed(parts) /\ Laid(parts, prefixPos, len) /\ Within(parts)
  BY OutFacts
<1>3. /\ stage # "encoded" /\ stage' = stage /\ prefixPos' = prefixPos
      /\ parts' = parts \cup {r} /\ len' = len + bytes
      /\ adds' = adds + 1 /\ adds < MaxAdds
  BY DEF Add, Adding
<1>l. /\ stage # "building" => late'
      /\ stage = "building" => ~late'
      /\ late' \in BOOLEAN
  BY LateOnes DEF Add
<1>4. r.kind = "value" /\ r.from = len /\ r.to = len + bytes /\ r.number = 0
  BY PartFields
<1> HIDE DEF r
<1>5. Typed(r)
  BY <1>1, <1>2, <1>4 DEF Typed, Kind
<1>6. Laid(parts', prefixPos', len')
  <2>1. len \in Int /\ r.to \in Int /\ len <= r.to
    BY <1>1, <1>2, <1>4
  <2>2. Laid(parts \cup {r}, prefixPos, r.to)
    BY <1>2, <1>4, <2>1, LaidBehind
  <2> QED
    BY <1>3, <1>4, <2>2
<1>7. stage = "building" => Building'
  BY <1>3, <1>4, <1>l DEF Building, OutInv, OutParts
<1>8. OutTypeOK'
  <2>1. adds' \in 0..MaxAdds
    BY <1>1, <1>3 DEF OutInv, OutTypeOK
  <2>2. stage' \in Stage
    BY <1>3 DEF OutInv, OutTypeOK
  <2>3. len' \in Nat
    BY <1>1, <1>2, <1>3
  <2> QED
    BY <1>2, <1>3, <1>5, <1>l, <2>1, <2>2, <2>3 DEF OutTypeOK, Typed
<1>9. PrefixSize <= len'
  BY <1>1, <1>2, <1>3 DEF OutInv, PrefixSize
<1>10. Within(parts')
  BY <1>2, <1>3, <1>4 DEF Within
<1>11. Intact'
  BY <1>6, <1>10 DEF Laid, Within, Intact
<1>12. /\ stage' \in {"headed", "encrypted"} => prefixPos' = PrefixSize - 2
       /\ stage' = "headed" /\ ~late' => Headed'
       /\ stage' \in {"encrypted", "encoded"} => Recoverable'
  <2>1. stage' \in {"encrypted", "encoded"} => Recoverable'
    BY <1>3, <1>l DEF Recoverable
  <2>2. stage' \in {"headed", "encrypted"} => prefixPos' = PrefixSize - 2
    BY <1>3 DEF OutInv
  <2> QED
    BY <1>3, <1>l, <2>1, <2>2
<1> QED
  BY <1>3, <1>7, <1>8, <1>9, <1>11, <1>12 DEF OutInv

\* A text is added, behind its length.
LEMMA AddTextKeeps ==
    ASSUME OutInv, NEW kind \in {"text", "cText"},
           NEW length \in Nat, NEW chars \in Nat, AddText(kind, length, chars)
    PROVE  OutInv'
<1> DEFINE r == Part("length", len, len + 2, Stored(length, 2))
           t == Part(kind, len + 2, len + 2 + chars, 0)
<1>1. MaxAdds \in Nat
  BY OutAssumption
<1>2. /\ len \in Nat /\ prefixPos \in Int /\ prefixPos <= len
      /\ \A p \in parts : Typed(p)
      /\ Placed(parts) /\ Laid(parts, prefixPos, len) /\ Within(parts)
  BY OutFacts
<1>3. /\ stage # "encoded" /\ stage' = stage /\ prefixPos' = prefixPos
      /\ parts' = parts \cup {r, t} /\ len' = len + 2 + chars
      /\ adds' = adds + 1 /\ adds < MaxAdds
  BY DEF AddText, Adding
<1>l. /\ stage # "building" => late'
      /\ stage = "building" => ~late'
      /\ late' \in BOOLEAN
  BY LateOnes DEF AddText
<1>4. /\ r.kind = "length" /\ r.from = len /\ r.to = len + 2
      /\ r.number = Stored(length, 2)
      /\ t.kind = kind /\ t.from = len + 2 /\ t.to = len + 2 + chars /\ t.number = 0
  BY PartFields
<1> HIDE DEF r, t
<1>5. Typed(r) /\ Typed(t)
  <2>1. r.number \in Nat /\ r.number < 2^16
    BY <1>4, StoredInTwo
  <2>2. 0 < 2^16
    OBVIOUS
  <2>3. Typed(r)
    BY <1>2, <1>4, <2>1 DEF Typed, Kind
  <2>4. /\ t.kind \in Kind /\ t.from \in Int /\ t.to \in Int /\ t.number \in Nat
        /\ t.number < 2^16
    BY <1>2, <1>4, <2>2 DEF Kind
  <2> QED
    BY <2>3, <2>4 DEF Typed
<1>6. Laid(parts', prefixPos', len')
  <2> DEFINE m == len + 2
             ps == parts \cup {r}
  <2>1. len \in Int /\ m \in Int /\ len <= m /\ t.to \in Int /\ m <= t.to /\ prefixPos <= m
    BY <1>2, <1>4
  <2>2. r.to = m /\ t.from = m
    BY <1>4
  <2> HIDE DEF m
  <2>3. Laid(ps, prefixPos, m)
    <3>1. r.from = len /\ r.to \in Int /\ len <= r.to
      BY <1>4, <2>1, <2>2
    <3>2. Laid(parts \cup {r}, prefixPos, r.to)
      BY <1>2, <2>1, <3>1, LaidBehind
    <3> QED
      BY <2>2, <3>2
  <2>4. Placed(ps)
    BY <1>2, <1>4, <2>1, <2>2 DEF Placed
  <2>5. ps \cup {t} = parts'
    BY <1>3
  <2> HIDE DEF ps
  <2>6. Laid(ps \cup {t}, prefixPos, t.to)
    BY <1>2, <2>1, <2>2, <2>3, <2>4, LaidBehind
  <2> QED
    BY <1>3, <1>4, <2>5, <2>6
<1>7. stage = "building" => Building'
  BY <1>3, <1>4, <1>l DEF Building, OutInv, OutParts
<1>8. OutTypeOK'
  <2>1. adds' \in 0..MaxAdds
    BY <1>1, <1>3 DEF OutInv, OutTypeOK
  <2>2. stage' \in Stage
    BY <1>3 DEF OutInv, OutTypeOK
  <2>3. len' \in Nat
    BY <1>2, <1>3
  <2> QED
    BY <1>2, <1>3, <1>5, <1>l, <2>1, <2>2, <2>3 DEF OutTypeOK, Typed
<1>9. PrefixSize <= len'
  BY <1>2, <1>3 DEF OutInv, PrefixSize
<1>10. Within(parts')
  BY <1>2, <1>3, <1>4 DEF Within
<1>11. Intact'
  BY <1>6, <1>10 DEF Laid, Within, Intact
<1>12. /\ stage' \in {"headed", "encrypted"} => prefixPos' = PrefixSize - 2
       /\ stage' = "headed" /\ ~late' => Headed'
       /\ stage' \in {"encrypted", "encoded"} => Recoverable'
  <2>1. stage' \in {"encrypted", "encoded"} => Recoverable'
    BY <1>3, <1>l DEF Recoverable
  <2>2. stage' \in {"headed", "encrypted"} => prefixPos' = PrefixSize - 2
    BY <1>3 DEF OutInv
  <2> QED
    BY <1>3, <1>l, <2>1, <2>2
<1> QED
  BY <1>3, <1>7, <1>8, <1>9, <1>11, <1>12 DEF OutInv

\* The size goes in front of the values.
LEMMA HeaderKeeps ==
    ASSUME OutInv, addHeader
    PROVE  OutInv'
<1> DEFINE n == len - prefixPos
           r == Part("decryptedSize", prefixPos - 2, prefixPos, Stored(n, 2))
<1>2. /\ len \in Nat /\ prefixPos \in Int /\ prefixPos <= len
      /\ \A p \in parts : Typed(p)
      /\ Placed(parts) /\ Laid(parts, prefixPos, len) /\ Within(parts)
  BY OutFacts
<1>3. /\ stage = "building" /\ stage' = "headed" /\ prefixPos' = prefixPos - 2
      /\ parts' = parts \cup {r} /\ len' = len /\ adds' = adds /\ late' = late
  BY DEF addHeader, PrefixPart, getSize
<1>4. /\ r.kind = "decryptedSize" /\ r.from = prefixPos - 2 /\ r.to = prefixPos
      /\ r.number = Stored(n, 2)
  BY PartFields
<1>5. n \in Nat
  BY <1>2
<1>6. Typed(r)
  <2>1. r.number \in Nat /\ r.number < 2^16
    BY <1>4, <1>5, StoredInTwo
  <2> HIDE DEF r
  <2> QED
    BY <1>2, <1>4, <2>1 DEF Typed, Kind
<1> HIDE DEF r
<1>7. Building
  BY <1>3 DEF OutInv
<1>8. Laid(parts', prefixPos', len')
  <2>1. r.from \in Int /\ r.from < prefixPos /\ len \in Int
    BY <1>2, <1>4
  <2>2. Laid(parts \cup {r}, r.from, len)
    BY <1>2, <1>4, <2>1, LaidBefore
  <2> QED
    BY <1>3, <1>4, <2>2
<1>9. Headed'
  <2>1. /\ prefixPos = PrefixSize /\ \A p \in parts : p.kind \in OutParts
        /\ len = prefixPos \/ \E p \in parts : p.to = len
        /\ \A p \in parts : prefixPos <= p.from
    BY <1>2, <1>7 DEF Building, Laid
  <2>2. "decryptedSize" \notin OutParts
    BY DEF OutParts
  <2>3. n = len' - PrefixSize
    BY <1>3, <2>1
  <2> HIDE DEF n
  <2> QED
    BY <1>3, <1>4, <2>1, <2>2, <2>3 DEF Headed
<1>10. OutTypeOK'
  <2>1. adds' \in 0..MaxAdds
    BY <1>3 DEF OutInv, OutTypeOK
  <2> QED
    BY <1>2, <1>3, <1>6, <2>1 DEF OutTypeOK, Typed, Stage, OutInv
<1>11. PrefixSize <= len'
  BY <1>3 DEF OutInv
<1>12. prefixPos' = PrefixSize - 2
  BY <1>3, <1>7 DEF Building
<1>13. Within(parts')
  <2>1. 0 <= r.from
    BY <1>3, <1>4, <1>12 DEF PrefixSize
  <2> QED
    BY <1>2, <1>3, <2>1, WithinMore
<1>14. Intact'
  BY <1>8, <1>13 DEF Laid, Within, Intact
<1> QED
  BY <1>3, <1>9, <1>10, <1>11, <1>12, <1>14 DEF OutInv

\* What the header says of the values, once it is there.
LEMMA HeadedRecoverable ==
    ASSUME OutInv, Headed
    PROVE  /\ Recoverable
           /\ \A p \in parts : p.kind # "padding"
           /\ \A h \in parts : h.kind = "decryptedSize" =>
                 /\ len \in {h.to} \cup {p.to : p \in Payload}
                 /\ \A p \in Payload : h.to <= p.from /\ p.to <= len
                 /\ len - h.to < 2^16 => h.number = len - h.to
                 /\ h.from = prefixPos
<1>1. /\ len \in Nat /\ Laid(parts, prefixPos, len) /\ PrefixSize <= len
      /\ PrefixSize = 8
  BY OutFacts DEF OutInv, PrefixSize
<1>2. \A p \in parts : p.kind # "padding"
  BY DEF Headed, OutParts
<1>3. \A p : p \in Payload <=> p \in parts /\ p.kind \in OutParts
  BY DEF Payload, OutParts
<1>4. ASSUME NEW h \in parts, h.kind = "decryptedSize"
      PROVE  /\ len \in {h.to} \cup {p.to : p \in Payload}
             /\ \A p \in Payload : h.to <= p.from /\ p.to <= len
             /\ len - h.to < 2^16 => h.number = len - h.to
             /\ h.from = prefixPos
  <2>1. h.to = PrefixSize /\ h.from = prefixPos
        /\ h.number = Stored(len - PrefixSize, 2)
    BY <1>4 DEF Headed
  <2>2. len \in {h.to} \cup {p.to : p \in Payload}
    BY <1>3, <2>1 DEF Headed
  <2>3. \A p \in Payload : h.to <= p.from /\ p.to <= len
    BY <1>1, <1>3, <2>1 DEF Headed, Laid
  <2>4. len - PrefixSize \in Nat
    BY <1>1
  <2>5. len - h.to < 2^16 => h.number = len - h.to
    BY <2>1, <2>4, StoredInTwo
  <2> QED
    BY <2>1, <2>2, <2>3, <2>5
<1>5. Recoverable
  BY <1>2, <1>4 DEF Recoverable
<1> QED
  BY <1>2, <1>4, <1>5

\* Padding to whole frames, then the encryption.
LEMMA EncryptKeeps ==
    ASSUME OutInv, xteaEncrypt
    PROVE  OutInv'
<1> DEFINE n == len - prefixPos
           m == 8 - (n % 8)
           r == Part("padding", len, len + m, 0)
<1>2. /\ len \in Nat /\ prefixPos \in Int /\ prefixPos <= len
      /\ \A p \in parts : Typed(p)
      /\ Placed(parts) /\ Laid(parts, prefixPos, len) /\ Within(parts)
  BY OutFacts
<1>3. /\ stage = "headed" /\ stage' = "encrypted" /\ prefixPos' = prefixPos
      /\ parts' = parts \cup {r} /\ len' = len + m /\ adds' = adds /\ late' = late
  BY DEF xteaEncrypt, padding, getSize, Frame
<1>4. r.kind = "padding" /\ r.from = len /\ r.to = len + m /\ r.number = 0
  BY PartFields
<1>5. n \in Nat /\ m \in 1..8 /\ (n + m) % 8 = 0
  <2>1. n \in Nat
    BY <1>2
  <2> HIDE DEF n
  <2> QED
    BY <2>1
<1>6. (len + m) - prefixPos = n + m /\ len + m \in Nat
  BY <1>2, <1>5
<1> HIDE DEF r, m, n
<1>7. Typed(r)
  <2>1. 0 < 2^16
    OBVIOUS
  <2>2. /\ r.kind \in Kind /\ r.from \in Int /\ r.to \in Int /\ r.number \in Nat
        /\ r.number < 2^16
    BY <1>2, <1>4, <1>5, <2>1 DEF Kind
  <2> QED
    BY <2>2 DEF Typed
<1>8. ~late => Headed
  BY <1>3 DEF OutInv
<1>9. Laid(parts', prefixPos', len')
  <2>1. len \in Int /\ r.to \in Int /\ len <= r.to
    BY <1>2, <1>4, <1>5
  <2>2. Laid(parts \cup {r}, prefixPos, r.to)
    BY <1>2, <1>4, <2>1, LaidBehind
  <2> QED
    BY <1>3, <1>4, <2>2
<1>10. Recoverable'
  <2> SUFFICES ASSUME ~late PROVE Recoverable'
    BY <1>3 DEF Recoverable
  <2>1. /\ \A p \in parts : p.kind # "padding"
        /\ \A h \in parts : h.kind = "decryptedSize" =>
              /\ len \in {h.to} \cup {p.to : p \in Payload}
              /\ \A p \in Payload : h.to <= p.from /\ p.to <= len
              /\ len - h.to < 2^16 => h.number = len - h.to
              /\ h.from = prefixPos
    BY <1>8, HeadedRecoverable
  <2>2. Payload' = Payload
    BY <1>3, <1>4 DEF Payload
  <2> SUFFICES ASSUME NEW h \in parts', h.kind = "decryptedSize"
               PROVE  \E end \in {h.to} \cup {p.to : p \in Payload} :
                         /\ \A p \in Payload : h.to <= p.from /\ p.to <= end
                         /\ end - h.to < 2^16 => h.number = end - h.to
                         /\ \A p \in parts' : p.kind = "padding" =>
                               /\ p.from = end
                               /\ (p.to - h.from) % Frame = 0
                               /\ SizeOf(p) <= Frame
    BY <2>2 DEF Recoverable
  <2>3. h \in parts
    BY <1>3, <1>4
  <2>4. /\ len \in {h.to} \cup {p.to : p \in Payload}
        /\ \A p \in Payload : h.to <= p.from /\ p.to <= len
        /\ len - h.to < 2^16 => h.number = len - h.to
        /\ h.from = prefixPos
    BY <2>1, <2>3
  <2>5. ASSUME NEW p \in parts', p.kind = "padding"
        PROVE  /\ p.from = len
               /\ (p.to - h.from) % Frame = 0
               /\ SizeOf(p) <= Frame
    <3>1. p = r
      BY <1>3, <2>1, <2>5
    <3>2. p.to - h.from = n + m
      BY <1>4, <1>6, <2>4, <3>1
    <3>3. p.to - p.from = m
      BY <1>2, <1>4, <1>5, <3>1
    <3> QED
      BY <1>4, <1>5, <3>1, <3>2, <3>3 DEF Frame, SizeOf
  <2> QED
    BY <2>4, <2>5
<1>11. OutTypeOK'
  <2>1. adds' \in 0..MaxAdds
    BY <1>3 DEF OutInv, OutTypeOK
  <2> QED
    BY <1>2, <1>3, <1>6, <1>7, <2>1 DEF OutTypeOK, Typed, Stage, OutInv
<1>12. PrefixSize <= len'
  BY <1>2, <1>3, <1>5 DEF OutInv, PrefixSize
<1>13. prefixPos' = PrefixSize - 2
  BY <1>3 DEF OutInv
<1>14. Within(parts')
  BY <1>2, <1>3, <1>4, WithinMore
<1>15. Intact'
  BY <1>9, <1>14 DEF Laid, Within, Intact
<1> QED
  BY <1>3, <1>10, <1>11, <1>12, <1>13, <1>15 DEF OutInv

\* The checksum and the packet's size.
LEMMA EncodeKeeps ==
    ASSUME OutInv, encode
    PROVE  OutInv'
<1> DEFINE n == len - prefixPos
           r == Part("checksum", prefixPos - 4, prefixPos, Stored(0, 4))
           t == Part("packetSize", prefixPos - 4 - 8, prefixPos - 4,
                         Stored(n + 4, 8))
<1>2. /\ len \in Nat /\ prefixPos \in Int /\ prefixPos <= len
      /\ \A p \in parts : Typed(p)
      /\ Placed(parts) /\ Laid(parts, prefixPos, len) /\ Within(parts)
  BY OutFacts
<1>3. /\ stage \in {"headed", "encrypted"} /\ stage' = "encoded"
      /\ prefixPos' = prefixPos - 4 - 8
      /\ parts' = parts \cup {r, t} /\ len' = len /\ adds' = adds /\ late' = late
  BY DEF encode, PrefixPart, getSize, SizeT
<1>4. /\ r.kind = "checksum" /\ r.from = prefixPos - 4 /\ r.to = prefixPos
      /\ r.number = 0
      /\ t.kind = "packetSize" /\ t.from = prefixPos - 4 - 8 /\ t.to = prefixPos - 4
      /\ t.number = n + 4
  <2>1. Stored(0, 4) = 0 /\ Stored(n + 4, 8) = n + 4
    BY DEF Stored
  <2> QED
    BY <2>1, PartFields
<1>5. n \in Nat
  BY <1>2
<1> HIDE DEF r, t, n
<1>6. Typed(r) /\ Typed(t)
  <2>1. r.to - r.from = 4 /\ t.to - t.from = 8
    BY <1>2, <1>4
  <2>2. /\ r.kind \in Kind /\ r.from \in Int /\ r.to \in Int /\ r.number \in Nat
        /\ t.kind \in Kind /\ t.from \in Int /\ t.to \in Int /\ t.number \in Nat
    BY <1>2, <1>4, <1>5 DEF Kind
  <2> QED
    BY <2>1, <2>2 DEF Typed
<1>7. Laid(parts', prefixPos', len')
  <2> DEFINE m == prefixPos - 4
             ps == parts \cup {r}
  <2>1. m \in Int /\ m < prefixPos /\ t.from \in Int /\ t.from < m /\ m <= len /\ len \in Int
    BY <1>2, <1>4
  <2>2. r.from = m /\ t.to = m /\ t.from = prefixPos'
    BY <1>3, <1>4
  <2> HIDE DEF m
  <2>3. Laid(ps, m, len)
    BY <1>2, <1>4, <2>1, <2>2, LaidBefore
  <2>4. Placed(ps)
    BY <1>2, <1>4, <2>1, <2>2 DEF Placed
  <2>5. ps \cup {t} = parts'
    BY <1>3
  <2> HIDE DEF ps
  <2>6. Laid(ps \cup {t}, t.from, len)
    BY <1>2, <2>1, <2>2, <2>3, <2>4, LaidBefore
  <2> QED
    BY <1>3, <2>2, <2>5, <2>6
<1>8. Recoverable'
  <2>1. Recoverable
    BY <1>3, HeadedRecoverable DEF OutInv, Recoverable
  <2>2. /\ Payload' = Payload
        /\ \A h \in parts' : h.kind \in {"decryptedSize", "padding"} => h \in parts
    BY <1>3, <1>4 DEF Payload
  <2> SUFFICES ASSUME ~late PROVE Recoverable'
    BY <1>3 DEF Recoverable
  <2> QED
    BY <2>1, <2>2 DEF Recoverable
<1>9. OutTypeOK'
  <2>1. adds' \in 0..MaxAdds
    BY <1>3 DEF OutInv, OutTypeOK
  <2> QED
    BY <1>2, <1>3, <1>6, <2>1 DEF OutTypeOK, Typed, Stage, OutInv
<1>10. PrefixSize <= len'
  BY <1>3 DEF OutInv
<1>11. Within(parts')
  <2>1. prefixPos = 6
    BY <1>3 DEF OutInv, PrefixSize
  <2>2. 0 <= r.from /\ t.kind = "packetSize"
    BY <1>4, <2>1
  <2> QED
    BY <1>2, <1>3, <2>2 DEF Within
<1>12. Intact'
  BY <1>7, <1>11 DEF Laid, Within, Intact
<1> QED
  BY <1>3, <1>8, <1>9, <1>10, <1>12 DEF OutInv

\* The outgoing message's invariant, for any widths and texts of any length:
\* the parts are laid out without a gap, all but the packet's size inside the
\* vector, and the size in front of the values is that of the values unless
\* more of them were added behind it.
THEOREM OutInvariance == OutSpec => []OutInv
<1>1. OutInit => OutInv
  BY OutStart
<1>2. OutInv /\ [OutNext]_outVars => OutInv'
  <2> SUFFICES ASSUME OutInv, [OutNext]_outVars
               PROVE  OutInv'
    OBVIOUS
  <2>1. ASSUME NEW n \in Lengths, addString(n) \/ addCString(n)
        PROVE  OutInv'
    <3>1. n \in Nat
      BY OutAssumption
    <3>2. Stored(n, 2) \in Nat
      BY <3>1, StoredInTwo
    <3> QED
      BY <2>1, <3>1, <3>2, AddTextKeeps DEF addString, addCString
  <2>2. CASE UNCHANGED outVars
    BY <2>2 DEF outVars, OutInv, Building, Headed, OutTypeOK, Intact, Recoverable,
                Payload
  <2> QED
    BY <2>1, <2>2, AddKeeps, HeaderKeeps, EncryptKeeps, EncodeKeeps DEF OutNext, Encoded
<1> QED
  BY <1>1, <1>2, PTL DEF OutSpec

\* Every number of an outgoing message fits the bytes it is stored in.
THEOREM OutTypeCorrect == OutSpec => []OutTypeOK
<1>1. OutInv => OutTypeOK
  BY DEF OutInv
<1> QED
  BY <1>1, OutInvariance, PTL

\* add and addPrefix: whatever is added, before or behind the header and the
\* padding, no write lands on another, getBuffer() holds all of them and nothing
\* else, and each but the packet's size encode() writes lies in the vector.
THEOREM NothingOverwritten == OutSpec => []Intact
<1>1. OutInv => Intact
  BY DEF OutInv
<1> QED
  BY <1>1, OutInvariance, PTL

\* addHeader and xteaEncrypt: when nothing is added behind the header, the
\* receiver finds by the size where the values end, if that fits 16 bits, and
\* nothing but padding to whole frames behind.
THEOREM Decryptable == OutSpec => []Recoverable
<1>1. OutInv => Recoverable
  <2> SUFFICES ASSUME OutInv PROVE Recoverable
    OBVIOUS
  <2>1. stage \in Stage
    BY DEF OutInv, OutTypeOK
  <2>2. CASE stage = "building"
    BY <2>2 DEF OutInv, Building, OutParts, Recoverable
  <2>3. CASE stage = "headed"
    BY <2>3, HeadedRecoverable DEF OutInv, Recoverable
  <2>4. CASE stage \in {"encrypted", "encoded"}
    BY <2>4 DEF OutInv
  <2> QED
    BY <2>1, <2>2, <2>3, <2>4 DEF Stage
<1> QED
  BY <1>1, OutInvariance, PTL
=============================================================================
