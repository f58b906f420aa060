----------------------------- MODULE InMessage -----------------------------
(***************************************************************************)
(* The incoming message of a Connection: BasicInMessage and                *)
(* StandardInMessage of otservpp/message.  One object lives as long as its *)
(* connection; the read loop fills its header, has it parsed, fills the    *)
(* body it announces and hands the object to the protocol, which moves the *)
(* read cursor over it.  StandardProtocol verifies the checksum first;     *)
(* what a protocol does next is its own affair, so that every sequence of  *)
(* member functions is a behaviour.                                        *)
(*                                                                         *)
(* The buffer's bytes are abstracted to positions: what matters is which   *)
(* bytes a function touches.  A number taken from the bytes is any of      *)
(* Numbers.  A PacketException leaves the message to its connection, which *)
(* drops the peer; assertions are on, and one that fails ends the program. *)
(*                                                                         *)
(* rsaDecrypt returns at once; the block is decrypted on the crypto        *)
(* strand, and what it does to the message then, it does to the message as *)
(* it is then.  Nothing keeps the protocol or the connection from using    *)
(* the message meanwhile.  A function on another thread that does so at    *)
(* the very moment is a data race, after which nothing is known: phase     *)
(* "raced".                                                                *)
(***************************************************************************)
EXTENDS Integers

CONSTANTS
    MaxBody,     \* MAX_BODY_SIZE, 15340 in the code
    Numbers,     \* the 16 bit numbers the peer's bytes may hold
    Widths,      \* the lengths protocols read or skip at once
    MaxMessages, \* bound: messages read by the connection
    MaxBlocks    \* bound: RSA blocks with the crypto service at once

ASSUME InAssumption ==
    /\ MaxBody \in Nat \ {0}
    /\ Numbers \subseteq Nat
    /\ Widths \subseteq Nat
    /\ MaxMessages \in Nat
    /\ MaxBlocks \in Nat

ASSUME U16Assumption == \A n \in Numbers : n < 2^16

HeaderSize == 2
MinBody == 8     \* what parseHeaderAndGetBodyBuffer accepts at least
RsaSize == 128   \* the bytes of an RSA block

VARIABLES
    pos,       \* the read cursor
    size,      \* where the message ends, the header included
    phase,     \* what is done with the message
    recv,      \* where the bytes end that the socket fills, or has filled
    chunk,     \* the bytes a member function last touched: [from, to)
    count,     \* messages begun
    rsa,       \* blocks with the crypto service
    overstated, \* history: a decrypted size went beyond its message's end
    disturbed  \* history: the message was used while a block was away

vars == <<pos, size, phase, recv, chunk, count, rsa, overstated, disturbed>>

Phase == {"header", "parse", "body", "checksum", "open", "thrown", "assert", "raced"}

Init ==
    /\ pos = 0
    /\ size = HeaderSize
    /\ phase = "header"
    /\ recv = HeaderSize
    /\ chunk = [from |-> 0, to |-> 0]
    /\ count = 1
    /\ rsa = 0
    /\ overstated = FALSE
    /\ disturbed = FALSE

-----------------------------------------------------------------------------
(* BasicInMessage *)

Chunk(from, to) == [from |-> from, to |-> to]

\* A PacketException, thrown with the cursor at p.
Throw(p) == /\ phase' = "thrown"
            /\ pos' = p
            /\ UNCHANGED <<size, chunk>>

\* Mutant: movePos lets one byte too many pass.
movePosLax(p, bytes) == p + bytes <= size + 1

\* movePos: the cursor is moved first and compared afterwards; peekRawChunckAs
\* compares alike and leaves the cursor.
movePos(p, bytes) == p + bytes <= size

\* getRawChunckAs from p, the way all the getters end.
Take(p, bytes) ==
    IF movePos(p, bytes)
      THEN /\ pos' = p + bytes
           /\ chunk' = Chunk(p, p + bytes)
           /\ UNCHANGED <<size, phase>>
      ELSE Throw(p + bytes)

\* Mutant: setRemainingSize without its assertion.
SetSizeUnchecked(p, bytes, next) ==
    /\ size' = p + bytes
    /\ phase' = next

\* setRemainingSize(bytes) with the cursor at p, then phase next.  The
\* assertion leaves the header out of the buffer's size.
SetRemainingSize(p, bytes, next) ==
    IF p + bytes <= MaxBody
      THEN /\ size' = p + bytes
           /\ phase' = next
      ELSE /\ phase' = "assert"
           /\ UNCHANGED size

\* A member function is called by the connection or by its protocol.
Called == /\ disturbed' = (disturbed \/ rsa > 0)
          /\ UNCHANGED count

\* ... and touches neither what is asked of the socket nor a block.
Reads == Called /\ UNCHANGED <<recv, rsa, overstated>>

\* getByte, getU16, getU32, getU64, getRawChunck, getStrChunck, skipBytes.
Get(bytes) ==
    /\ phase = "open"
    /\ Take(pos, bytes)
    /\ Reads

-----------------------------------------------------------------------------
(* StandardInMessage *)

\* The read of the header completes: two bytes at the start of the buffer.
HeaderRead ==
    /\ phase = "header"
    /\ phase' = "parse"
    /\ UNCHANGED <<pos, size, recv, chunk, count, rsa, overstated, disturbed>>

\* Mutant: room for the checksum is enough.
AcceptableChecksum(n) == n >= 4 /\ n <= MaxBody

Acceptable(n) == n >= MinBody /\ n <= MaxBody

\* parseHeaderAndGetBodyBuffer, called when the header buffer is filled: the
\* socket is to fill the bytes from the header to size.
parseHeaderAndGetBodyBuffer ==
    /\ phase = "parse"
    /\ \E n \in Numbers :
         IF movePos(pos, 2) /\ Acceptable(n)
           THEN /\ pos' = pos + 2
                /\ chunk' = Chunk(pos, pos + 2)
                /\ SetRemainingSize(pos + 2, n, "body")
           ELSE Throw(pos + 2)
    /\ recv' = size'
    /\ Called /\ UNCHANGED <<rsa, overstated>>

\* The read of getBodyBuffer's bytes completes.
BodyRead ==
    /\ phase = "body"
    /\ phase' = "checksum"
    /\ UNCHANGED <<pos, size, recv, chunk, count, rsa, overstated, disturbed>>

\* doChecksum: everything behind the four bytes of the checksum is summed;
\* adler32 asserts that this is not nothing.
doChecksum ==
    /\ phase = "checksum"
    /\ CASE ~movePos(pos, 4) -> Throw(pos + 4)
         [] movePos(pos, 4) /\ pos + 4 = size ->
              /\ phase' = "assert"
              /\ pos' = pos + 4
              /\ UNCHANGED <<size, chunk>>
         [] OTHER ->
              \/ Throw(pos + 4)
              \/ /\ phase' = "open"
                 /\ pos' = pos + 4
                 /\ chunk' = Chunk(pos + 4, size)
                 /\ UNCHANGED size
    /\ Reads

\* getString: a length, then as many bytes.
getString ==
    /\ phase = "open"
    /\ IF movePos(pos, 2)
         THEN \E n \in Numbers : Take(pos + 2, n)
         ELSE Throw(pos + 2)
    /\ Reads

\* getXtea: four getU32, of which the first that does not fit throws.
getXtea ==
    /\ phase = "open"
    /\ \E k \in 0..3 :
         /\ k > 0 => movePos(pos, 4 * k)
         /\ k < 3 => ~movePos(pos, 4 * (k + 1))
         /\ Take(pos + 4 * k, 4)
    /\ Reads

getRemainingSize == size - pos

wholeFrames(n) == n % 8 = 0

\* xteaDecrypt: the rest of the message is decrypted in place, and the first
\* number of the plain text says how much of what follows is the message.  It
\* is the peer's, and compared with nothing but the buffer.
xteaDecrypt ==
    /\ phase = "open"
    /\ IF wholeFrames(getRemainingSize) /\ movePos(pos, 2)
         THEN \E n \in Numbers :
                /\ pos' = pos + 2
                /\ chunk' = Chunk(pos, size)
                /\ SetRemainingSize(pos + 2, n, "open")
                /\ overstated' = (overstated \/ pos + 2 + n > size)
         ELSE /\ Throw(IF wholeFrames(getRemainingSize) THEN pos + 2 ELSE pos)
              /\ UNCHANGED overstated
    /\ Called /\ UNCHANGED <<recv, rsa>>

\* rsaDecrypt: one block behind the cursor is given to the crypto service.
rsaDecrypt ==
    /\ phase = "open" /\ rsa < MaxBlocks
    /\ IF movePos(pos, RsaSize)
         THEN /\ chunk' = Chunk(pos, pos + RsaSize)
              /\ rsa' = rsa + 1
              /\ UNCHANGED <<pos, size, phase>>
         ELSE Throw(pos) /\ UNCHANGED rsa
    /\ Called /\ UNCHANGED <<recv, overstated>>

\* Mutant: the byte is read first, and the size counted from behind it.
RsaDoneLate ==
    /\ rsa > 0 /\ phase \notin {"assert", "raced"}
    /\ \/ /\ SetRemainingSize(pos + 1, RsaSize, phase)
          /\ pos' = pos + 1
          /\ chunk' = Chunk(pos, pos + 1)
       \/ UNCHANGED <<pos, size, phase, chunk>>
    /\ rsa' = rsa - 1
    /\ UNCHANGED <<recv, count, overstated, disturbed>>

\* The service is done, whatever the message is by now.  A block that could be
\* decrypted has the length of the cipher text; it becomes the message, from
\* where the cursor is, and its first byte is read.
RsaDone ==
    /\ rsa > 0 /\ phase \notin {"assert", "raced"}
    /\ \/ /\ SetRemainingSize(pos, RsaSize, phase)
          /\ pos' = pos + 1
          /\ chunk' = Chunk(pos, pos + 1)
       \/ UNCHANGED <<pos, size, phase, chunk>>
    /\ rsa' = rsa - 1
    /\ UNCHANGED <<recv, count, overstated, disturbed>>

\* ... in the middle of a member function that another thread has called.
RsaRaces ==
    /\ rsa > 0 /\ phase \in {"parse", "checksum", "open"}
    /\ phase' = "raced"
    /\ rsa' = rsa - 1
    /\ disturbed' = TRUE
    /\ UNCHANGED <<pos, size, recv, chunk, count, overstated>>

\* The protocol's handler returns and the connection waits for the next
\* header, in the same object: nothing resets the cursor or the size.
NextMessage ==
    /\ phase = "open"
    /\ count < MaxMessages
    /\ phase' = "header"
    /\ recv' = HeaderSize
    /\ count' = count + 1
    /\ overstated' = FALSE
    /\ disturbed' = (rsa > 0)
    /\ UNCHANGED <<pos, size, chunk, rsa>>

\* The message was refused, or the program has ended.
Over == phase \in {"thrown", "assert", "raced"} /\ UNCHANGED vars

Next ==
    \/ HeaderRead
    \/ parseHeaderAndGetBodyBuffer
    \/ BodyRead
    \/ doChecksum
    \/ \E bytes \in Widths : Get(bytes)
    \/ getString
    \/ getXtea
    \/ xteaDecrypt
    \/ rsaDecrypt
    \/ RsaDone
    \/ RsaRaces
    \/ NextMessage
    \/ Over

Spec == Init /\ [][Next]_vars

-----------------------------------------------------------------------------
(* Properties *)

TypeOK ==
    /\ pos \in Nat
    /\ size \in Nat
    /\ phase \in Phase
    /\ recv \in Nat
    /\ chunk \in [from : Nat, to : Nat]
    /\ count \in Nat
    /\ rsa \in Nat
    /\ overstated \in BOOLEAN
    /\ disturbed \in BOOLEAN

\* A protocol has the message.
Handled == phase = "open"

\* movePos, peekRawChunckAs and setRemainingSize: whatever lengths the bytes
\* announce for a string, for the body or for the plain text, and whenever an
\* RSA block comes back, no function touches the header or a byte outside the
\* buffer.  Nor does one touch a byte that this message did not bring, with two
\* exceptions the code leaves open: the size in the plain text goes beyond the
\* message, which standarinmessage.cpp:49 does not compare, and the message was
\* used while a block was with the crypto service, which rsaDecrypt does not
\* forbid (the login protocols stop receiving and leave the message alone).
OnlyReceived ==
    Handled =>
      /\ HeaderSize <= chunk.from /\ chunk.from <= chunk.to
      /\ chunk.to <= HeaderSize + MaxBody
      /\ ~overstated /\ ~disturbed => chunk.to <= recv

\* parseHeaderAndGetBodyBuffer and setRemainingSize: the body that
\* getBodyBuffer has the socket fill ends inside the buffer, and is not empty
\* (its assertion), however often the object was used before.
BodyFits == phase = "body" => HeaderSize < recv /\ recv <= HeaderSize + MaxBody

\* doChecksum reads four bytes and adler32 asserts that there are more: the
\* sizes accepted by parseHeaderAndGetBodyBuffer, one function and one read
\* earlier, see to it.
SomethingToSum == phase = "checksum" => pos + 4 < size

\* While it is handled, the cursor of a message never goes back, and the message
\* never grows back over bytes that a decryption cut off: no byte is read twice
\* as two different things.  Only the peer's size in xteaDecrypt, and the end of
\* an RSA block whose message was used meanwhile, may make it longer, and never
\* longer than the buffer.
NoReread ==
    [][Handled /\ Handled' =>
         /\ pos <= pos'
         /\ size' <= size \/ overstated' \/ disturbed
         /\ size' <= HeaderSize + MaxBody]_vars
=============================================================================
