----------------------------- MODULE OutMessage -----------------------------
(***************************************************************************)
(* An outgoing message: BasicOutMessage and StandardOutMessage of          *)
(* otservpp/message, from its constructor to the bytes that are sent.      *)
(* Values are added at the end of the buffer, prefixes in front of it, in  *)
(* the room the constructor has set aside; StandardProtocol::send and      *)
(* sendUnencrypted add the size, encrypt, and leave the checksum and the   *)
(* size of the packet to encode(), which the connection calls when the     *)
(* message's turn has come.  Nothing keeps the protocol from adding values *)
(* behind the header, though its comment asks not to (standardoutmessage.h *)
(* 45-46), and test AddsDataAfterPrefixes does so; late remembers it.      *)
(* The room of 8 bytes is for the three prefixes of StandardOutMessage,    *)
(* so no other prefix is added.                                            *)
(*                                                                         *)
(* Bytes are abstracted to positions: a part is what one write put at      *)
(* [from, to), with its number where it is a size.  The vector's storage   *)
(* begins at 0; a prefix below it is written outside.                      *)
(***************************************************************************)
EXTENDS Integers

CONSTANTS
    OutWidths,  \* sizes of the numbers and raw bytes that are added
    Lengths,    \* lengths of the strings that are added
    MaxAdds     \* bound: values added by the protocol

ASSUME OutAssumption ==
    /\ OutWidths \subseteq Nat \ {0}
    /\ Lengths \subseteq Nat
    /\ MaxAdds \in Nat

PrefixSize == 8   \* STANDARD_OUT_MESSAGE_PREFIX_SIZE
Frame == 8        \* an XTEA frame: two words
SizeT == 8        \* sizeof(std::size_t), the type of getSize()

VARIABLES
    len,        \* buffer.size()
    prefixPos,  \* where the message begins
    parts,      \* what has been written
    stage,      \* how far the message is
    adds,       \* values added
    late        \* history: a value was added after addHeader

outVars == <<len, prefixPos, parts, stage, adds, late>>

Stage == {"building", "headed", "encrypted", "encoded"}
Kind == {"value", "length", "text", "cText", "padding", "decryptedSize",
         "checksum", "packetSize"}

Part(kind, from, to, number) ==
    [kind |-> kind, from |-> from, to |-> to, number |-> number]

\* The constructor: the room for prefixes, and nothing in it.
OutInit ==
    /\ len = PrefixSize
    /\ prefixPos = PrefixSize
    /\ parts = {}
    /\ stage = "building"
    /\ adds = 0
    /\ late = FALSE

getSize == len - prefixPos

\* A number stored in an unsigned type of so many bytes.
Stored(number, bytes) == IF bytes >= 4 THEN number ELSE number % 2^(8 * bytes)

-----------------------------------------------------------------------------
(* BasicOutMessage *)

\* Another value, until the connection has encoded the message.
Adding ==
    /\ stage # "encoded" /\ adds < MaxAdds
    /\ adds' = adds + 1
    /\ late' = (late \/ stage # "building")
    /\ UNCHANGED <<prefixPos, stage>>

\* addByte, addU16, ..., addRaw and operator<<: a value behind the others.
Add(bytes) ==
    /\ Adding
    /\ parts' = parts \cup {Part("value", len, len + bytes, 0)}
    /\ len' = len + bytes

\* A length, stored in two bytes, then the characters.
AddText(kind, length, chars) ==
    /\ Adding
    /\ parts' = parts \cup {Part("length", len, len + 2, Stored(length, 2)),
                            Part(kind, len + 2, len + 2 + chars, 0)}
    /\ len' = len + 2 + chars

\* addString(const std::string&): the size is cut to two bytes where it is
\* stored, and the whole string is copied.
addString(n) == AddText("text", n, n)

\* addString(const char*): strlen becomes a uint16_t on its way to add, which
\* stores it and copies so many characters.
addCString(n) == AddText("cText", n, Stored(n, 2))

\* Mutant: the prefix is written where the message begins.
PrefixPartInside(p, kind, bytes, number) ==
    Part(kind, p, p + bytes, Stored(number, bytes))

\* What addPrefix writes in front of position p.  Its assertion compares an
\* unsigned number with 0 and never fails.
PrefixPart(p, kind, bytes, number) ==
    Part(kind, p - bytes, p, Stored(number, bytes))

-----------------------------------------------------------------------------
(* StandardOutMessage *)

\* Mutant: the size counts its own two bytes.
addHeaderCounted ==
    /\ stage = "building"
    /\ prefixPos' = prefixPos - 2
    /\ parts' = parts \cup {PrefixPart(prefixPos, "decryptedSize", 2, getSize + 2)}
    /\ stage' = "headed"
    /\ UNCHANGED <<len, adds, late>>

\* addHeader: the size of what has been added.
addHeader ==
    /\ stage = "building"
    /\ prefixPos' = prefixPos - 2
    /\ parts' = parts \cup {PrefixPart(prefixPos, "decryptedSize", 2, getSize)}
    /\ stage' = "headed"
    /\ UNCHANGED <<len, adds, late>>

\* addPadding(8 - getSize()%8, 0x33): at least one byte.
padding == Frame - (getSize % Frame)

\* xteaEncrypt: everything from prefixPos on, in whole frames.
xteaEncrypt ==
    /\ stage = "headed"
    /\ parts' = parts \cup {Part("padding", len, len + padding, 0)}
    /\ len' = len + padding
    /\ stage' = "encrypted"
    /\ UNCHANGED <<prefixPos, adds, late>>

\* encode: the checksum of the message as it is, then its size, of the type
\* that getSize() returns: 8 bytes where the room is for 2.
encode ==
    /\ stage \in {"headed", "encrypted"}
    /\ prefixPos' = prefixPos - 4 - SizeT
    /\ parts' = parts \cup
         {PrefixPart(prefixPos, "checksum", 4, 0),
          PrefixPart(prefixPos - 4, "packetSize", SizeT, getSize + 4)}
    /\ stage' = "encoded"
    /\ UNCHANGED <<len, adds, late>>

\* The connection writes it.
Encoded == stage = "encoded" /\ UNCHANGED outVars

OutNext ==
    \/ \E bytes \in OutWidths : Add(bytes)
    \/ \E n \in Lengths : addString(n) \/ addCString(n)
    \/ addHeader
    \/ xteaEncrypt
    \/ encode
    \/ Encoded

OutSpec == OutInit /\ [][OutNext]_outVars

-----------------------------------------------------------------------------
(* Properties *)

\* Every number fits the bytes it is stored in.
OutTypeOK ==
    /\ len \in Nat
    /\ prefixPos \in Int
    /\ \A p \in parts : /\ p.kind \in Kind
                        /\ p.from \in Int /\ p.to \in Int
                        /\ p.number \in Nat
                        /\ p.to - p.from = 2 => p.number < 2^16
    /\ stage \in Stage
    /\ adds \in 0..MaxAdds
    /\ late \in BOOLEAN

SizeOf(p) == p.to - p.from

\* add and addPrefix work on the two ends of one vector.  Whatever is added,
\* before or behind the header and the padding, no write lands on another, and
\* getBuffer() holds all of them and nothing else: from where the message
\* begins, and from where one write ends, the next goes on, up to the end of
\* the vector.  Each of them lies in the vector, in the room set aside, but
\* one: encode() prepends getSize() as a size_t, six bytes more than the
\* RawPacketLen(2) of standardoutmessage.h:10, and writes those in front of
\* the vector, which the assertion of basicoutmessage.hpp:42 does not stop.
Intact ==
    /\ \A p, q \in parts : p = q \/ p.to <= q.from \/ q.to <= p.from
    /\ \A p \in parts : prefixPos <= p.from /\ p.to <= len
    /\ \A p \in parts : p.kind = "packetSize" \/ 0 <= p.from
    /\ \A x \in {prefixPos} \cup {p.to : p \in parts} :
          x = len \/ \E q \in parts : q.from = x /\ x < q.to

Payload == {p \in parts : p.kind \in {"value", "length", "text", "cText"}}

\* addHeader and xteaEncrypt: when no value was added behind the header, and as
\* long as the values fit the 16 bits of the size, whoever decrypts the message
\* finds by it where the values end, and nothing but padding behind them.
\* What is encrypted is whole frames, with no more than one of padding, as
\* StandardInMessage::xteaDecrypt expects.
Recoverable ==
    \A h \in parts : h.kind = "decryptedSize" /\ ~late =>
       \E end \in {h.to} \cup {p.to : p \in Payload} :
          /\ \A p \in Payload : h.to <= p.from /\ p.to <= end
          /\ end - h.to < 2^16 => h.number = end - h.to
          /\ \A p \in parts : p.kind = "padding" =>
                /\ p.from = end
                /\ (p.to - h.from) % Frame = 0 /\ SizeOf(p) <= Frame
=============================================================================
