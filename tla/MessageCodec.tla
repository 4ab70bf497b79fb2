---------------------------- MODULE MessageCodec ----------------------------
(***************************************************************************)
(* The frames of infra/message/message_codec.cpp as operators on sequences *)
(* of bytes:                                                               *)
(*                                                                         *)
(*    magic 2 | version 1 | flags 1 | type 2 | length 4 | payload | crc 4  *)
(*                                                                         *)
(* with the numbers' high byte first.  A payload is a sequence of bytes,   *)
(* as the codec takes it.  (Message::payload() is a vector of strings in   *)
(* message.hpp; the two files do not go together yet.)  The size           *)
(* computations are those of a size_t wider than the 32-bit length field.  *)
(*                                                                         *)
(* A 32-bit word of the checksum is the set of its 1 bits.                 *)
(***************************************************************************)
EXTENDS Integers, Sequences

CONSTANT MaxPayload     \* kMaxPayload

\* Its length fits the 32 bits of the length field.
ASSUME MaxPayloadAssumption == MaxPayload \in Nat /\ MaxPayload \div 65536 < 65536

Byte == 0..255
MaxType == 65535     \* of the two bytes of the type field
Type == 0..MaxType
kHeaderSize == 10
kFooterSize == 4
kMinFrame == kHeaderSize + kFooterSize
Preamble == <<77, 67, 1>>       \* kMagic, kVersion
kFlags == 0

-----------------------------------------------------------------------------
(* crc32() *)

Bits(byte) ==
    LET power == <<1, 2, 4, 8, 16, 32, 64, 128>>
    IN  {i \in 0..7 : (byte \div power[i + 1]) % 2 = 1}

Xor(a, b) == (a \ b) \cup (b \ a)
ShiftRight(word) == {i - 1 : i \in word \ {0}}

\* 0xEDB88320
Polynomial == {5, 8, 9, 15, 19, 20, 21, 23, 24, 26, 27, 29, 30, 31}

CrcBit(crc) == IF 0 \in crc THEN Xor(ShiftRight(crc), Polynomial) ELSE ShiftRight(crc)
TwoBits(crc) == CrcBit(CrcBit(crc))
CrcByte(crc, byte) == TwoBits(TwoBits(TwoBits(TwoBits(Xor(crc, Bits(byte))))))

\* The checksum after each byte.
CrcAfter(data) ==
    LET after[i \in 0..Len(data)] ==
            IF i = 0 THEN 0..31 ELSE CrcByte(after[i - 1], data[i])
    IN  after

crc32(data) == 0..31 \ CrcAfter(data)[Len(data)]

-----------------------------------------------------------------------------
(* Numbers *)

U16(v) == <<v \div 256, v % 256>>
U32(v) == U16(v \div 65536) \o U16(v % 65536)

\* The eight bits of a word from position low on, as a number.
WordByte(word, low) ==
    LET bit(i) == IF low + i \in word THEN 1 ELSE 0
    IN  bit(0) + 2 * bit(1) + 4 * bit(2) + 8 * bit(3)
            + 16 * bit(4) + 32 * bit(5) + 64 * bit(6) + 128 * bit(7)

\* The four bytes append_u32() writes for a word.
WordBytes(word) ==
    <<WordByte(word, 24), WordByte(word, 16), WordByte(word, 8), WordByte(word, 0)>>

\* Mutant: the length's low byte first.
read_u32_little(data, pos) ==
    data[pos + 3] * 16777216 + data[pos + 2] * 65536 + data[pos + 1] * 256 + data[pos]

read_u16(data, pos) == data[pos] * 256 + data[pos + 1]
read_u32(data, pos) == read_u16(data, pos) * 65536 + read_u16(data, pos + 2)

-----------------------------------------------------------------------------
(* encode() *)

\* encode() throws for a longer payload.
Encodable(msg) == Len(msg.payload) <= MaxPayload

Body(msg) ==
    Preamble \o <<kFlags>> \o U16(msg.type) \o U32(Len(msg.payload)) \o msg.payload

encode(msg) == Body(msg) \o WordBytes(crc32(Body(msg)))

-----------------------------------------------------------------------------
(* decode() *)

\* Where the payload ends, by the length field.
BodySize(data) == kHeaderSize + read_u32(data, 7)

Message(data) ==
    [type |-> read_u16(data, 5), payload |-> SubSeq(data, kHeaderSize + 1, BodySize(data))]

\* Mutant: the checksum is not compared.
AcceptedUnchecked(data) ==
    /\ Len(data) >= kMinFrame
    /\ SubSeq(data, 1, 3) = Preamble
    /\ Len(data) >= BodySize(data) + kFooterSize

\* Mutant: of the checksum only the low half is compared.
AcceptedByHalf(data) ==
    /\ Len(data) >= kMinFrame
    /\ SubSeq(data, 1, 3) = Preamble
    /\ Len(data) >= BodySize(data) + kFooterSize
    /\ SubSeq(data, BodySize(data) + 3, BodySize(data) + kFooterSize)
           = SubSeq(WordBytes(crc32(SubSeq(data, 1, BodySize(data)))), 3, 4)

\* The tests decode() makes, in their order; it throws at the first that fails.  The
\* flags and what follows the frame are not looked at.
Accepted(data) ==
    /\ Len(data) >= kMinFrame
    /\ SubSeq(data, 1, 3) = Preamble
    /\ Len(data) >= BodySize(data) + kFooterSize
    /\ SubSeq(data, BodySize(data) + 1, BodySize(data) + kFooterSize)
           = WordBytes(crc32(SubSeq(data, 1, BodySize(data))))
=============================================================================
