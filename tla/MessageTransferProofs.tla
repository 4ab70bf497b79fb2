----------------------- MODULE MessageTransferProofs -----------------------
(***************************************************************************)
(* Proofs about MessageTransfer for any messages, any change of a byte and *)
(* any bytes after a frame: what arrives undamaged is what was sent, and   *)
(* the checksum gives away an altered byte in a frame of any length.       *)
(***************************************************************************)
EXTENDS MessageTransfer, SequenceTheorems, WellFoundedInduction, TLAPS

Word == SUBSET (0..31)

-----------------------------------------------------------------------------
(* The checksum *)

\* The bits of a byte are its bits: two bytes with the same ones are the same.
LEMMA BitsTellBytes ==
  ASSUME NEW a \in Byte, NEW b \in Byte, Bits(a) = Bits(b)
  PROVE  a = b
<1>1. ASSUME NEW byte \in Byte
      PROVE  /\ 0 \in Bits(byte) <=> byte % 2 = 1
             /\ 1 \in Bits(byte) <=> (byte \div 2) % 2 = 1
             /\ 2 \in Bits(byte) <=> (byte \div 4) % 2 = 1
             /\ 3 \in Bits(byte) <=> (byte \div 8) % 2 = 1
             /\ 4 \in Bits(byte) <=> (byte \div 16) % 2 = 1
             /\ 5 \in Bits(byte) <=> (byte \div 32) % 2 = 1
             /\ 6 \in Bits(byte) <=> (byte \div 64) % 2 = 1
             /\ 7 \in Bits(byte) <=> (byte \div 128) % 2 = 1
  BY DEF Bits, Byte
<1>2. ASSUME NEW byte \in Byte
      PROVE  byte = (byte % 2) + 2 * ((byte \div 2) % 2) + 4 * ((byte \div 4) % 2)
                    + 8 * ((byte \div 8) % 2) + 16 * ((byte \div 16) % 2)
                    + 32 * ((byte \div 32) % 2) + 64 * ((byte \div 64) % 2)
                    + 128 * ((byte \div 128) % 2)
  <2>1. byte \in Nat /\ byte < 256
    BY DEF Byte
  <2>2. byte = 2 * (byte \div 2) + (byte % 2)
    BY <2>1
  <2>3. byte \div 2 = 2 * (byte \div 4) + ((byte \div 2) % 2)
    BY <2>1
  <2>4. byte \div 4 = 2 * (byte \div 8) + ((byte \div 4) % 2)
    BY <2>1
  <2>5. byte \div 8 = 2 * (byte \div 16) + ((byte \div 8) % 2)
    BY <2>1
  <2>6. byte \div 16 = 2 * (byte \div 32) + ((byte \div 16) % 2)
    BY <2>1
  <2>7. byte \div 32 = 2 * (byte \div 64) + ((byte \div 32) % 2)
    BY <2>1
  <2>8. byte \div 64 = 2 * (byte \div 128) + ((byte \div 64) % 2)
    BY <2>1
  <2>9. byte \div 128 = (byte \div 128) % 2
    BY <2>1
  <2>10. /\ byte \div 2 \in Nat /\ byte \div 4 \in Nat /\ byte \div 8 \in Nat
         /\ byte \div 16 \in Nat /\ byte \div 32 \in Nat /\ byte \div 64 \in Nat
         /\ byte \div 128 \in Nat
    BY <2>1
  <2> QED BY <2>1, <2>2, <2>3, <2>4, <2>5, <2>6, <2>7, <2>8, <2>9, <2>10
<1>3. ASSUME NEW byte \in Byte
      PROVE  /\ byte % 2 \in {0, 1} /\ (byte \div 2) % 2 \in {0, 1}
             /\ (byte \div 4) % 2 \in {0, 1} /\ (byte \div 8) % 2 \in {0, 1}
             /\ (byte \div 16) % 2 \in {0, 1} /\ (byte \div 32) % 2 \in {0, 1}
             /\ (byte \div 64) % 2 \in {0, 1} /\ (byte \div 128) % 2 \in {0, 1}
  BY DEF Byte
<1>4. a % 2 = b % 2
  BY <1>1, <1>3
<1>5. (a \div 2) % 2 = (b \div 2) % 2
  BY <1>1, <1>3
<1>6. (a \div 4) % 2 = (b \div 4) % 2
  BY <1>1, <1>3
<1>7. (a \div 8) % 2 = (b \div 8) % 2
  BY <1>1, <1>3
<1>8. (a \div 16) % 2 = (b \div 16) % 2
  BY <1>1, <1>3
<1>9. (a \div 32) % 2 = (b \div 32) % 2
  BY <1>1, <1>3
<1>10. (a \div 64) % 2 = (b \div 64) % 2
  BY <1>1, <1>3
<1>11. (a \div 128) % 2 = (b \div 128) % 2
  BY <1>1, <1>3
<1> QED
  <2>1. a = (b % 2) + 2 * ((b \div 2) % 2) + 4 * ((b \div 4) % 2)
            + 8 * ((b \div 8) % 2) + 16 * ((b \div 16) % 2)
            + 32 * ((b \div 32) % 2) + 64 * ((b \div 64) % 2)
            + 128 * ((b \div 128) % 2)
    BY <1>2, <1>4, <1>5, <1>6, <1>7, <1>8, <1>9, <1>10, <1>11
  <2> QED BY <2>1, <1>2

LEMMA BitsInWord == ASSUME NEW byte PROVE Bits(byte) \in Word
BY DEF Bits, Word

LEMMA XorInWord ==
  ASSUME NEW a \in Word, NEW b \in Word
  PROVE  Xor(a, b) \in Word
BY DEF Xor, Word

LEMMA XorCancels ==
  ASSUME NEW a, NEW b, NEW c, Xor(a, c) = Xor(b, c)
  PROVE  a = b
<1>1. ASSUME NEW x PROVE x \in a <=> x \in b
  <2>1. x \in Xor(a, c) <=> x \in Xor(b, c)
    OBVIOUS
  <2> QED BY <2>1 DEF Xor
<1> QED BY <1>1

LEMMA XorCancelsLeft ==
  ASSUME NEW a, NEW b, NEW c, Xor(c, a) = Xor(c, b)
  PROVE  a = b
<1>1. ASSUME NEW x PROVE x \in a <=> x \in b
  <2>1. x \in Xor(c, a) <=> x \in Xor(c, b)
    OBVIOUS
  <2> QED BY <2>1 DEF Xor
<1> QED BY <1>1

LEMMA ShiftRightInWord ==
  ASSUME NEW word \in Word
  PROVE  ShiftRight(word) \in Word /\ 31 \notin ShiftRight(word)
BY DEF ShiftRight, Word

LEMMA ShiftRightCancels ==
  ASSUME NEW a \in Word, NEW b \in Word, ShiftRight(a) = ShiftRight(b),
         0 \in a <=> 0 \in b
  PROVE  a = b
<1>1. ASSUME NEW word \in Word, NEW i \in 1..31
      PROVE  i \in word <=> i - 1 \in ShiftRight(word)
  BY DEF ShiftRight, Word
<1>2. ASSUME NEW i \in 0..31 PROVE i \in a <=> i \in b
  <2>1. CASE i = 0 BY <2>1
  <2>2. CASE i \in 1..31 BY <1>1, <2>2
  <2> QED BY <2>1, <2>2
<1> QED BY <1>2 DEF Word

\* One step of the loop over the bits loses nothing: the polynomial has its highest
\* bit set, which tells whether it was added.
LEMMA CrcBitOneToOne ==
  ASSUME NEW a \in Word, NEW b \in Word
  PROVE  /\ CrcBit(a) \in Word
         /\ CrcBit(a) = CrcBit(b) => a = b
<1>1. Polynomial \in Word /\ 31 \in Polynomial
  BY DEF Polynomial, Word
<1>2. CrcBit(a) \in Word
  BY <1>1, ShiftRightInWord, XorInWord DEF CrcBit
<1>3. ASSUME NEW word \in Word PROVE 0 \in word <=> 31 \in CrcBit(word)
  BY <1>1, ShiftRightInWord DEF CrcBit, Xor
<1>4. ASSUME CrcBit(a) = CrcBit(b) PROVE a = b
  <2>1. 0 \in a <=> 0 \in b
    BY <1>3, <1>4
  <2>2. ShiftRight(a) = ShiftRight(b)
    BY <1>4, <2>1, XorCancels DEF CrcBit
  <2> QED BY <2>1, <2>2, ShiftRightCancels
<1> QED BY <1>2, <1>4

LEMMA TwoBitsOneToOne ==
  ASSUME NEW a \in Word, NEW b \in Word
  PROVE  /\ TwoBits(a) \in Word
         /\ TwoBits(a) = TwoBits(b) => a = b
<1>1. CrcBit(a) \in Word /\ CrcBit(b) \in Word
  BY CrcBitOneToOne
<1> QED BY <1>1, CrcBitOneToOne DEF TwoBits

LEMMA EightBitsOneToOne ==
  ASSUME NEW a \in Word, NEW b \in Word
  PROVE  /\ TwoBits(TwoBits(TwoBits(TwoBits(a)))) \in Word
         /\ TwoBits(TwoBits(TwoBits(TwoBits(a)))) = TwoBits(TwoBits(TwoBits(TwoBits(b))))
                => a = b
<1>1. TwoBits(a) \in Word /\ TwoBits(b) \in Word
  BY TwoBitsOneToOne
<1>2. TwoBits(TwoBits(a)) \in Word /\ TwoBits(TwoBits(b)) \in Word
  BY <1>1, TwoBitsOneToOne
<1>3. TwoBits(TwoBits(TwoBits(a))) \in Word /\ TwoBits(TwoBits(TwoBits(b))) \in Word
  BY <1>2, TwoBitsOneToOne
<1> QED BY <1>1, <1>2, <1>3, TwoBitsOneToOne

\* A byte is taken into the checksum without loss, of the checksum or of the byte.
LEMMA CrcByteOneToOne ==
  ASSUME NEW a \in Word, NEW b \in Word, NEW x \in Byte, NEW y \in Byte
  PROVE  /\ CrcByte(a, x) \in Word
         /\ CrcByte(a, x) = CrcByte(b, x) => a = b
         /\ CrcByte(a, x) = CrcByte(a, y) => x = y
<1>1. Xor(a, Bits(x)) \in Word /\ Xor(b, Bits(x)) \in Word /\ Xor(a, Bits(y)) \in Word
  BY BitsInWord, XorInWord
<1>2. CrcByte(a, x) \in Word
  BY <1>1, EightBitsOneToOne DEF CrcByte
<1>3. ASSUME CrcByte(a, x) = CrcByte(b, x) PROVE a = b
  <2>1. Xor(a, Bits(x)) = Xor(b, Bits(x))
    BY <1>1, <1>3, EightBitsOneToOne DEF CrcByte
  <2> QED BY <2>1, XorCancels
<1>4. ASSUME CrcByte(a, x) = CrcByte(a, y) PROVE x = y
  <2>1. Xor(a, Bits(x)) = Xor(a, Bits(y))
    BY <1>1, <1>4, EightBitsOneToOne DEF CrcByte
  <2>2. Bits(x) = Bits(y)
    BY <2>1, XorCancelsLeft
  <2> QED BY <2>2, BitsTellBytes
<1> QED BY <1>2, <1>3, <1>4

LEMMA CrcByteKeeps ==
  ASSUME NEW a \in Word, NEW b \in Word, NEW x \in Byte, CrcByte(a, x) = CrcByte(b, x)
  PROVE  a = b
BY CrcByteOneToOne

\* A set of natural numbers that is not empty has a smallest one.
LEMMA SmallestExists ==
  ASSUME NEW S \in SUBSET Nat, S # {}
  PROVE  \E i \in S : \A j \in S : i <= j
<1> DEFINE Less == {ss \in Nat \X Nat : ss[1] < ss[2]}
<1>1. IsWellFoundedOn(Less, Nat)
  BY NatLessThanWellFounded DEF OpToRel
<1>2. \A i, j \in Nat : <<j, i>> \in Less <=> j < i
  OBVIOUS
<1> HIDE DEF Less
<1>3. PICK i \in S : \A j \in S : <<j, i>> \notin Less
  BY <1>1, WFMin
<1>4. ASSUME NEW j \in S PROVE i <= j
  <2>1. ~ (j < i)
    BY <1>2, <1>3
  <2> QED BY <2>1
<1> QED BY <1>4

\* f holds the checksum after each of the first n bytes.
CrcUpTo(f, data, n) ==
    f = [i \in 0..n |-> IF i = 0 THEN 0..31 ELSE CrcByte(f[i - 1], data[i])]

\* One byte more can be taken in.
LEMMA CrcExtends ==
  ASSUME NEW data, NEW n \in Nat, NEW f, CrcUpTo(f, data, n)
  PROVE  \E g : CrcUpTo(g, data, n + 1)
<1> DEFINE g == [i \in 0..(n + 1) |-> IF i = n + 1 THEN CrcByte(f[n], data[n + 1]) ELSE f[i]]
<1>1. ASSUME NEW i \in 0..(n + 1)
      PROVE  g[i] = IF i = 0 THEN 0..31 ELSE CrcByte(g[i - 1], data[i])
  <2>1. CASE i = n + 1
    <3>1. i - 1 = n /\ n \in 0..(n + 1) /\ n # n + 1 /\ i # 0
      BY <2>1
    <3> QED BY <3>1, <2>1
  <2>2. CASE i \in 0..n /\ i # 0
    <3>1. i - 1 \in 0..(n + 1) /\ i - 1 # n + 1 /\ i # n + 1
      BY <2>2
    <3>2. g[i] = f[i] /\ g[i - 1] = f[i - 1]
      BY <3>1
    <3>3. f[i] = CrcByte(f[i - 1], data[i])
      BY <2>2 DEF CrcUpTo
    <3> QED BY <2>2, <3>2, <3>3
  <2>3. CASE i = 0
    <3>1. i \in 0..n /\ i # n + 1
      BY <2>3
    <3>2. f[i] = 0..31
      BY <2>3, <3>1 DEF CrcUpTo
    <3> QED BY <2>3, <3>1, <3>2
  <2> QED BY <2>1, <2>2, <2>3
<1>2. g = [i \in 0..(n + 1) |-> IF i = 0 THEN 0..31 ELSE CrcByte(g[i - 1], data[i])]
  <2>1. \A i \in 0..(n + 1) : g[i] = IF i = 0 THEN 0..31 ELSE CrcByte(g[i - 1], data[i])
    BY <1>1
  <2>2. g = [i \in 0..(n + 1) |-> g[i]]
    OBVIOUS
  <2> HIDE DEF g
  <2> QED BY <2>1, <2>2
<1> QED BY <1>2 DEF CrcUpTo

\* The recursion is well defined: a shortest data for which it is not cannot be.
LEMMA CrcDefined ==
  ASSUME NEW data, NEW n \in Nat
  PROVE  \E f : CrcUpTo(f, data, n)
<1> DEFINE Bad == {k \in Nat : ~ \E f : CrcUpTo(f, data, k)}
<1>1. SUFFICES ASSUME Bad # {} PROVE FALSE
  OBVIOUS
<1>2. PICK k \in Bad : \A j \in Bad : k <= j
  BY <1>1, SmallestExists
<1>3. CASE k = 0
  <2> DEFINE f == [i \in 0..0 |-> 0..31]
  <2>1. f = [i \in 0..0 |-> IF i = 0 THEN 0..31 ELSE CrcByte(f[i - 1], data[i])]
    OBVIOUS
  <2>2. CrcUpTo(f, data, 0)
    BY <2>1 DEF CrcUpTo
  <2> HIDE DEF f
  <2> QED BY <1>3, <2>2
<1>4. CASE k # 0
  <2>1. k - 1 \in Nat /\ (k - 1) + 1 = k /\ k - 1 \notin Bad
    BY <1>2, <1>4
  <2>2. PICK f : CrcUpTo(f, data, k - 1)
    BY <2>1
  <2>3. \E g : CrcUpTo(g, data, k)
    BY <2>1, <2>2, CrcExtends
  <2> QED BY <2>3
<1> QED BY <1>3, <1>4

\* What crc32() has computed after each byte.
LEMMA CrcAfterIs ==
  ASSUME NEW data \in Seq(Byte)
  PROVE  /\ CrcAfter(data)[0] = 0..31
         /\ \A i \in 1..Len(data) :
                CrcAfter(data)[i] = CrcByte(CrcAfter(data)[i - 1], data[i])
<1>1. Len(data) \in Nat
  OBVIOUS
<1>2. CrcUpTo(CrcAfter(data), data, Len(data))
  BY <1>1, CrcDefined DEF CrcAfter, CrcUpTo
<1> DEFINE f == CrcAfter(data)
<1> HIDE DEF f
<1>3. f = [i \in 0..Len(data) |-> IF i = 0 THEN 0..31 ELSE CrcByte(f[i - 1], data[i])]
  BY <1>2 DEF CrcUpTo, f
<1>4. f[0] = 0..31
  <2>1. 0 \in 0..Len(data)
    BY <1>1
  <2> QED BY <1>3, <2>1
<1>5. ASSUME NEW i \in 1..Len(data) PROVE f[i] = CrcByte(f[i - 1], data[i])
  <2>1. i \in 0..Len(data) /\ i # 0
    BY <1>1
  <2> QED BY <1>3, <2>1
<1> QED BY <1>4, <1>5 DEF f

LEMMA CrcAfterInWord ==
  ASSUME NEW data \in Seq(Byte), NEW n \in 0..Len(data)
  PROVE  CrcAfter(data)[n] \in Word
<1> DEFINE Bad == {k \in 0..Len(data) : CrcAfter(data)[k] \notin Word}
<1>1. SUFFICES ASSUME Bad # {} PROVE FALSE
  OBVIOUS
<1>2. Bad \in SUBSET Nat
  OBVIOUS
<1> HIDE DEF Bad
<1>3. PICK k \in Bad : \A j \in Bad : k <= j
  BY <1>1, <1>2, SmallestExists
<1> USE DEF Bad
<1>4. CrcAfter(data)[0] \in Word
  BY CrcAfterIs DEF Word
<1>5. k \in 1..Len(data) /\ k - 1 \in 0..Len(data) /\ k - 1 \notin Bad
  BY <1>3, <1>4
<1>6. CrcAfter(data)[k - 1] \in Word /\ data[k] \in Byte
  BY <1>5
<1>7. CrcAfter(data)[k] = CrcByte(CrcAfter(data)[k - 1], data[k])
  BY <1>5, CrcAfterIs
<1> QED BY <1>3, <1>6, <1>7, CrcByteOneToOne

LEMMA Crc32InWord ==
  ASSUME NEW data \in Seq(Byte)
  PROVE  crc32(data) \in Word
BY DEF crc32, Word

\* Two sequences of bytes of one length that differ in a single byte have different
\* checksums.
LEMMA OneByteChangesCrc ==
  ASSUME NEW a \in Seq(Byte), NEW b \in Seq(Byte), Len(a) = Len(b),
         NEW p \in 1..Len(a), a[p] # b[p],
         \A i \in 1..Len(a) : i # p => a[i] = b[i]
  PROVE  crc32(a) # crc32(b)
<1> DEFINE f == CrcAfter(a)
           g == CrcAfter(b)
<1>1. Len(a) \in Nat
  OBVIOUS
<1>2. \A i \in 0..Len(a) : f[i] \in Word /\ g[i] \in Word
  BY CrcAfterInWord
<1>3. /\ f[0] = 0..31 /\ g[0] = 0..31
      /\ \A i \in 1..Len(a) : f[i] = CrcByte(f[i - 1], a[i]) /\ g[i] = CrcByte(g[i - 1], b[i])
  BY CrcAfterIs
<1>4. \A i \in 1..Len(a) : a[i] \in Byte /\ b[i] \in Byte
  OBVIOUS
<1> HIDE DEF f, g
\* Up to the byte they agree.
<1>5. \A i \in 0..(p - 1) : f[i] = g[i]
  <2> DEFINE Bad == {k \in 0..(p - 1) : f[k] # g[k]}
  <2>1. SUFFICES ASSUME Bad # {} PROVE FALSE
    OBVIOUS
  <2>2. Bad \in SUBSET Nat
    BY <1>1
  <2>3. PICK k \in Bad : \A j \in Bad : k <= j
    BY <2>1, <2>2, SmallestExists
  <2>4. k \in 1..Len(a) /\ k # p /\ k - 1 \in 0..(p - 1) /\ k - 1 \notin Bad
    <3>1. k \in 0..(p - 1) /\ k # 0
      BY <1>3, <2>3
    <3>2. k - 1 \in 0..(p - 1) /\ ~ (k <= k - 1)
      BY <3>1
    <3> QED BY <2>3, <3>1, <3>2, <1>1
  <2>5. f[k - 1] = g[k - 1] /\ a[k] = b[k]
    BY <2>4
  <2> QED BY <1>3, <2>3, <2>4, <2>5
\* From the byte on they differ.
<1>6. f[p] # g[p]
  <2>1. p - 1 \in 0..(p - 1) /\ p - 1 \in 0..Len(a)
    BY <1>1
  <2>2. f[p] = CrcByte(f[p - 1], a[p]) /\ g[p] = CrcByte(f[p - 1], b[p])
    BY <1>3, <1>5, <2>1
  <2>3. f[p - 1] \in Word /\ a[p] \in Byte /\ b[p] \in Byte
    BY <1>2, <1>4, <2>1
  <2> QED BY <2>2, <2>3, CrcByteOneToOne
<1>7. \A i \in p..Len(a) : f[i] # g[i]
  <2> DEFINE Bad == {k \in p..Len(a) : f[k] = g[k]}
  <2>1. SUFFICES ASSUME Bad # {} PROVE FALSE
    OBVIOUS
  <2>2. Bad \in SUBSET Nat
    BY <1>1
  <2>3. PICK k \in Bad : \A j \in Bad : k <= j
    BY <2>1, <2>2, SmallestExists
  <2>4. k \in 1..Len(a) /\ k # p /\ k - 1 \in 0..Len(a) /\ k - 1 \in p..Len(a) /\ k - 1 \notin Bad
    BY <1>1, <1>6, <2>3
  <2>5. f[k - 1] # g[k - 1] /\ a[k] = b[k]
    BY <2>4
  <2>6. f[k] = CrcByte(f[k - 1], a[k]) /\ g[k] = CrcByte(g[k - 1], a[k])
    BY <1>3, <2>4, <2>5
  <2>7. f[k - 1] \in Word /\ g[k - 1] \in Word /\ a[k] \in Byte
    BY <1>2, <1>4, <2>4
  <2>8. f[k] # g[k]
    BY ONLY <2>5, <2>6, <2>7, CrcByteKeeps
  <2> QED BY <2>3, <2>8
<1>8. f[Len(a)] # g[Len(a)] /\ f[Len(a)] \in Word /\ g[Len(a)] \in Word
  BY <1>1, <1>2, <1>7
<1> QED
  <2>1. \A v, w \in Word : 0..31 \ v = 0..31 \ w => v = w
    BY DEF Word
  <2>2. crc32(a) = 0..31 \ f[Len(a)] /\ crc32(b) = 0..31 \ g[Len(a)]
    BY DEF crc32, f, g
  <2> QED BY <1>8, <2>1, <2>2

-----------------------------------------------------------------------------
(* Numbers *)

LEMMA BitsOfSum ==
  ASSUME NEW b \in [0..7 -> 0..1], NEW c \in [0..7 -> 0..1],
         b[0] + 2 * b[1] + 4 * b[2] + 8 * b[3]
                 + 16 * b[4] + 32 * b[5] + 64 * b[6] + 128 * b[7]
             = c[0] + 2 * c[1] + 4 * c[2] + 8 * c[3]
                 + 16 * c[4] + 32 * c[5] + 64 * c[6] + 128 * c[7]
  PROVE  \A i \in 0..7 : b[i] = c[i]
<1>1. /\ b[0] \in 0..1 /\ b[1] \in 0..1 /\ b[2] \in 0..1 /\ b[3] \in 0..1
      /\ b[4] \in 0..1 /\ b[5] \in 0..1 /\ b[6] \in 0..1 /\ b[7] \in 0..1
      /\ c[0] \in 0..1 /\ c[1] \in 0..1 /\ c[2] \in 0..1 /\ c[3] \in 0..1
      /\ c[4] \in 0..1 /\ c[5] \in 0..1 /\ c[6] \in 0..1 /\ c[7] \in 0..1
  OBVIOUS
<1>2. b[7] = c[7]
  BY <1>1, SMTT(30)
<1>3. b[6] = c[6]
  BY <1>1, <1>2
<1>4. b[5] = c[5]
  BY <1>1, <1>2, <1>3
<1>5. b[4] = c[4]
  BY <1>1, <1>2, <1>3, <1>4
<1>6. b[3] = c[3]
  BY <1>1, <1>2, <1>3, <1>4, <1>5
<1>7. b[2] = c[2]
  BY <1>1, <1>2, <1>3, <1>4, <1>5, <1>6
<1>8. b[1] = c[1]
  BY <1>1, <1>2, <1>3, <1>4, <1>5, <1>6, <1>7
<1>9. b[0] = c[0]
  BY <1>1, <1>2, <1>3, <1>4, <1>5, <1>6, <1>7, <1>8
<1> QED BY <1>2, <1>3, <1>4, <1>5, <1>6, <1>7, <1>8, <1>9

\* Eight bits and the number they make tell each other.
LEMMA WordByteTellsBits ==
  ASSUME NEW v, NEW w, NEW low \in Nat
  PROVE  /\ WordByte(v, low) \in Byte
         /\ WordByte(v, low) = WordByte(w, low) =>
                \A i \in 0..7 : low + i \in v <=> low + i \in w
<1> DEFINE bits(word) == [i \in 0..7 |-> IF low + i \in word THEN 1 ELSE 0]
           b == bits(v)
           c == bits(w)
<1>1. /\ b \in [0..7 -> 0..1] /\ c \in [0..7 -> 0..1]
      /\ \A i \in 0..7 : b[i] = c[i] => (low + i \in v <=> low + i \in w)
  OBVIOUS
<1>2. /\ WordByte(v, low) = b[0] + 2 * b[1] + 4 * b[2] + 8 * b[3]
                                + 16 * b[4] + 32 * b[5] + 64 * b[6] + 128 * b[7]
      /\ WordByte(w, low) = c[0] + 2 * c[1] + 4 * c[2] + 8 * c[3]
                                + 16 * c[4] + 32 * c[5] + 64 * c[6] + 128 * c[7]
  BY DEF WordByte
<1> HIDE DEF b, c
<1>3. WordByte(v, low) \in Byte
  <2>1. /\ b[0] \in 0..1 /\ b[1] \in 0..1 /\ b[2] \in 0..1 /\ b[3] \in 0..1
        /\ b[4] \in 0..1 /\ b[5] \in 0..1 /\ b[6] \in 0..1 /\ b[7] \in 0..1
    BY <1>1
  <2> QED BY <1>2, <2>1 DEF Byte
<1>4. ASSUME WordByte(v, low) = WordByte(w, low) PROVE \A i \in 0..7 : b[i] = c[i]
  <2>1. b \in [0..7 -> 0..1] /\ c \in [0..7 -> 0..1]
    BY <1>1
  <2>2. b[0] + 2 * b[1] + 4 * b[2] + 8 * b[3]
                + 16 * b[4] + 32 * b[5] + 64 * b[6] + 128 * b[7]
            = c[0] + 2 * c[1] + 4 * c[2] + 8 * c[3]
                + 16 * c[4] + 32 * c[5] + 64 * c[6] + 128 * c[7]
    BY <1>2, <1>4
  <2> QED BY ONLY <2>1, <2>2, BitsOfSum
<1> QED BY <1>1, <1>3, <1>4

LEMMA WordBytesTellWord ==
  ASSUME NEW v \in Word, NEW w \in Word
  PROVE  /\ WordBytes(v) \in Seq(Byte) /\ Len(WordBytes(v)) = 4
         /\ WordBytes(v) = WordBytes(w) => v = w
<1>1. WordBytes(v) \in Seq(Byte) /\ Len(WordBytes(v)) = 4
  BY WordByteTellsBits DEF WordBytes
<1>2. ASSUME WordBytes(v) = WordBytes(w) PROVE v = w
  <2>1. /\ WordByte(v, 24) = WordByte(w, 24) /\ WordByte(v, 16) = WordByte(w, 16)
        /\ WordByte(v, 8) = WordByte(w, 8) /\ WordByte(v, 0) = WordByte(w, 0)
    BY <1>2 DEF WordBytes
  <2>2. \A i \in 0..7 : /\ 24 + i \in v <=> 24 + i \in w
                        /\ 16 + i \in v <=> 16 + i \in w
                        /\ 8 + i \in v <=> 8 + i \in w
                        /\ 0 + i \in v <=> 0 + i \in w
    BY <2>1, WordByteTellsBits
  <2>3. ASSUME NEW k \in 0..31 PROVE k \in v <=> k \in w
    <3>1. CASE k \in 0..7 BY <2>2, <3>1
    <3>2. CASE k \in 8..15
      <4>1. k - 8 \in 0..7 /\ 8 + (k - 8) = k BY <3>2
      <4> QED BY <2>2, <4>1
    <3>3. CASE k \in 16..23
      <4>1. k - 16 \in 0..7 /\ 16 + (k - 16) = k BY <3>3
      <4> QED BY <2>2, <4>1
    <3>4. CASE k \in 24..31
      <4>1. k - 24 \in 0..7 /\ 24 + (k - 24) = k BY <3>4
      <4> QED BY <2>2, <4>1
    <3> QED BY <3>1, <3>2, <3>3, <3>4
  <2> QED BY <2>3 DEF Word
<1> QED BY <1>1, <1>2

LEMMA TypeIsU16 ==
  ASSUME NEW v \in Int
  PROVE  v \in Type <=> 0 <= v /\ v <= 65535
<1>1. MaxType \in Int
  BY DEF MaxType
<1>2. v \in Type <=> 0 <= v /\ v <= MaxType
  BY <1>1 DEF Type
<1> QED BY <1>2 DEF MaxType

LEMMA TypeIsInt == ASSUME NEW v \in Type PROVE v \in Int
<1>1. MaxType \in Int
  BY DEF MaxType
<1> QED BY <1>1 DEF Type

LEMMA ByteIsU8 ==
  ASSUME NEW v \in Byte
  PROVE  v \in Int /\ 0 <= v /\ v <= 255
BY DEF Byte

\* read_u16() of the two bytes that append_u16() writes.
LEMMA U16IsRead ==
  ASSUME NEW v \in Int, 0 <= v, v <= 65535
  PROVE  /\ v \div 256 \in Byte /\ v % 256 \in Byte
         /\ (v \div 256) * 256 + (v % 256) = v
<1>1. v \div 256 \in Int /\ 0 <= v \div 256 /\ v \div 256 <= 255
  OBVIOUS
<1>2. v % 256 \in 0..255
  OBVIOUS
<1>3. (v \div 256) * 256 + (v % 256) = v
  OBVIOUS
<1> QED BY <1>1, <1>2, <1>3 DEF Byte

\* What read_u16() makes of two bytes.
LEMMA TwoBytes ==
  ASSUME NEW x \in Byte, NEW y \in Byte
  PROVE  x * 256 + y \in Nat /\ x * 256 + y <= 65535
<1>1. x \in Nat /\ y \in Nat /\ x <= 255 /\ y <= 255
  BY DEF Byte
<1> QED BY <1>1

LEMMA TwoBytesRead ==
  ASSUME NEW data, NEW pos, data[pos] \in Byte, data[pos + 1] \in Byte
  PROVE  read_u16(data, pos) \in Nat /\ read_u16(data, pos) <= 65535
<1> DEFINE x == data[pos]
           y == data[pos + 1]
<1>1. x \in Byte /\ y \in Byte
  OBVIOUS
<1>2. read_u16(data, pos) = x * 256 + y
  BY DEF read_u16
<1> HIDE DEF x, y
<1> QED BY ONLY <1>1, <1>2, TwoBytes

\* append_u32() writes its two halves.
LEMMA U32Halves ==
  ASSUME NEW v \in Nat, v \div 65536 < 65536
  PROVE  /\ v \div 65536 \in Int /\ 0 <= v \div 65536 /\ v \div 65536 <= 65535
         /\ v % 65536 \in Int /\ 0 <= v % 65536 /\ v % 65536 <= 65535
         /\ (v \div 65536) * 65536 + (v % 65536) = v
<1>1. v \div 65536 \in Int /\ 0 <= v \div 65536
  OBVIOUS
<1>2. v \div 65536 <= 65535
  BY <1>1
<1>3. v % 65536 \in Int /\ 0 <= v % 65536 /\ v % 65536 <= 65535
  OBVIOUS
<1>4. (v \div 65536) * 65536 + (v % 65536) = v
  OBVIOUS
<1> QED BY <1>1, <1>2, <1>3, <1>4

LEMMA PayloadFits ==
  ASSUME NEW n \in Nat, n <= MaxPayload
  PROVE  n \div 65536 < 65536
BY MaxPayloadAssumption

LEMMA ByteDistinct ==
  ASSUME NEW b \in Byte, NEW change \in 1..255
  PROVE  (b + change) % 256 \in Byte /\ (b + change) % 256 # b
<1>1. b \in Int /\ 0 <= b /\ b <= 255
  BY ByteIsU8
<1>2. change \in Int /\ 1 <= change /\ change <= 255
  OBVIOUS
<1> DEFINE c == (b + change) % 256
<1>3. c \in Int /\ 0 <= c /\ c <= 255
  BY <1>1, <1>2
<1>4. c # b
  BY <1>1, <1>2
<1> HIDE DEF c
<1>5. c \in Byte
  BY <1>3 DEF Byte
<1> QED BY <1>4, <1>5 DEF c

-----------------------------------------------------------------------------
(* Frames *)

Sendable == {m \in [type : Type, payload : Seq(Byte)] : Encodable(m)}

\* Where the bytes of two sequences are when the second is put after the first.
LEMMA Appended ==
  ASSUME NEW h \in Seq(Byte), NEW p \in Seq(Byte)
  PROVE  /\ h \o p \in Seq(Byte) /\ Len(h \o p) = Len(h) + Len(p)
         /\ \A i \in 1..Len(h) : (h \o p)[i] = h[i]
         /\ \A i \in 1..Len(p) : (h \o p)[Len(h) + i] = p[i]
OBVIOUS

\* A payload after the ten bytes of a header.
LEMMA HeaderLayout ==
  ASSUME NEW t1 \in Byte, NEW t2 \in Byte, NEW h1 \in Byte, NEW h2 \in Byte,
         NEW l1 \in Byte, NEW l2 \in Byte, NEW p \in Seq(Byte)
  PROVE  LET q == <<77, 67, 1>> \o <<0>> \o <<t1, t2>> \o (<<h1, h2>> \o <<l1, l2>>) \o p
         IN  /\ q \in Seq(Byte) /\ Len(q) = 10 + Len(p)
             /\ q[1] = 77 /\ q[2] = 67 /\ q[3] = 1 /\ q[5] = t1 /\ q[6] = t2
             /\ q[7] = h1 /\ q[8] = h2 /\ q[9] = l1 /\ q[10] = l2
             /\ \A i \in 1..Len(p) : q[10 + i] = p[i]
<1>1. 77 \in Byte /\ 67 \in Byte /\ 1 \in Byte /\ 0 \in Byte
  BY DEF Byte
<1> DEFINE header == <<77, 67, 1>> \o <<0>> \o <<t1, t2>> \o (<<h1, h2>> \o <<l1, l2>>)
<1>2. /\ header \in Seq(Byte) /\ Len(header) = 10
      /\ header[1] = 77 /\ header[2] = 67 /\ header[3] = 1
      /\ header[5] = t1 /\ header[6] = t2
      /\ header[7] = h1 /\ header[8] = h2 /\ header[9] = l1 /\ header[10] = l2
  BY <1>1
<1> HIDE DEF header
<1> DEFINE q == header \o p
<1>3. /\ q \in Seq(Byte) /\ Len(q) = Len(header) + Len(p)
      /\ \A i \in 1..Len(header) : q[i] = header[i]
      /\ \A i \in 1..Len(p) : q[Len(header) + i] = p[i]
  <2>1. header \in Seq(Byte) /\ p \in Seq(Byte)
    BY <1>2
  <2> QED BY ONLY <2>1, Appended
<1> HIDE DEF q
<1>4. q \in Seq(Byte) /\ Len(q) = 10 + Len(p) /\ \A i \in 1..Len(p) : q[10 + i] = p[i]
  BY <1>2, <1>3
<1>5. /\ q[1] = header[1] /\ q[2] = header[2] /\ q[3] = header[3] /\ q[5] = header[5]
      /\ q[6] = header[6] /\ q[7] = header[7] /\ q[8] = header[8] /\ q[9] = header[9]
      /\ q[10] = header[10]
  BY <1>2, <1>3
<1> QED BY <1>2, <1>4, <1>5 DEF header, q

\* The bytes before the checksum, one by one.
LEMMA BodyLayout ==
  ASSUME NEW m \in Sendable
  PROVE  /\ Body(m) \in Seq(Byte) /\ Len(m.payload) \in Nat
         /\ Len(Body(m)) = 10 + Len(m.payload)
         /\ Body(m)[1] = 77 /\ Body(m)[2] = 67 /\ Body(m)[3] = 1
         /\ read_u16(Body(m), 5) = m.type
         /\ read_u32(Body(m), 7) = Len(m.payload)
         /\ \A i \in 1..Len(m.payload) : Body(m)[10 + i] = m.payload[i]
<1> DEFINE n == Len(m.payload)
           high == n \div 65536
           low == n % 65536
<1>1. m.payload \in Seq(Byte) /\ n \in Nat /\ n <= MaxPayload /\ m.type \in Type
  BY DEF Sendable, Encodable
<1>2. /\ m.type \div 256 \in Byte /\ m.type % 256 \in Byte
      /\ (m.type \div 256) * 256 + (m.type % 256) = m.type
  BY <1>1, TypeIsInt, TypeIsU16, U16IsRead
<1> HIDE DEF n
<1>3. /\ high \in Int /\ 0 <= high /\ high <= 65535
      /\ low \in Int /\ 0 <= low /\ low <= 65535
      /\ high * 65536 + low = n
  <2>1. n \div 65536 < 65536
    BY <1>1, PayloadFits
  <2> QED BY <1>1, <2>1, U32Halves
<1> HIDE DEF high, low
<1>4. /\ high \div 256 \in Byte /\ high % 256 \in Byte
      /\ (high \div 256) * 256 + (high % 256) = high
  BY <1>3, U16IsRead
<1>5. /\ low \div 256 \in Byte /\ low % 256 \in Byte
      /\ (low \div 256) * 256 + (low % 256) = low
  BY <1>3, U16IsRead
<1> DEFINE t1 == m.type \div 256
           t2 == m.type % 256
           h1 == high \div 256
           h2 == high % 256
           l1 == low \div 256
           l2 == low % 256
           p == m.payload
<1>6. Body(m) = <<77, 67, 1>> \o <<0>> \o <<t1, t2>> \o (<<h1, h2>> \o <<l1, l2>>) \o p
  BY DEF Body, Preamble, kFlags, U16, U32, n, high, low
<1>7. /\ t1 \in Byte /\ t2 \in Byte /\ h1 \in Byte /\ h2 \in Byte
      /\ l1 \in Byte /\ l2 \in Byte /\ p \in Seq(Byte) /\ Len(p) = n
      /\ t1 * 256 + t2 = m.type /\ h1 * 256 + h2 = high /\ l1 * 256 + l2 = low
  BY <1>1, <1>2, <1>4, <1>5 DEF n
<1> HIDE DEF t1, t2, h1, h2, l1, l2, p
<1> DEFINE q == <<77, 67, 1>> \o <<0>> \o <<t1, t2>> \o (<<h1, h2>> \o <<l1, l2>>) \o p
<1>8. /\ q \in Seq(Byte) /\ Len(q) = 10 + Len(p)
      /\ q[1] = 77 /\ q[2] = 67 /\ q[3] = 1 /\ q[5] = t1 /\ q[6] = t2
      /\ q[7] = h1 /\ q[8] = h2 /\ q[9] = l1 /\ q[10] = l2
      /\ \A i \in 1..Len(p) : q[10 + i] = p[i]
  <2>1. /\ t1 \in Byte /\ t2 \in Byte /\ h1 \in Byte /\ h2 \in Byte
        /\ l1 \in Byte /\ l2 \in Byte /\ p \in Seq(Byte)
    BY <1>7
  <2> QED BY ONLY <2>1, HeaderLayout, SMTT(30)
<1>9. Body(m) = q
  BY <1>6
<1> HIDE DEF q
<1>10. /\ Body(m) \in Seq(Byte) /\ Len(Body(m)) = 10 + n
       /\ Body(m)[1] = 77 /\ Body(m)[2] = 67 /\ Body(m)[3] = 1
       /\ Body(m)[5] = t1 /\ Body(m)[6] = t2
       /\ Body(m)[7] = h1 /\ Body(m)[8] = h2 /\ Body(m)[9] = l1 /\ Body(m)[10] = l2
       /\ \A i \in 1..n : Body(m)[10 + i] = p[i]
  BY <1>7, <1>8, <1>9
<1>11. n \in Nat
  BY <1>1
<1>12. read_u16(Body(m), 5) = m.type
  BY <1>7, <1>10 DEF read_u16
<1>13. read_u32(Body(m), 7) = n
  <2>1. read_u16(Body(m), 7) = high /\ read_u16(Body(m), 9) = low
    BY <1>7, <1>10 DEF read_u16
  <2>2. read_u32(Body(m), 7) = read_u16(Body(m), 7) * 65536 + read_u16(Body(m), 9)
    BY DEF read_u32
  <2> QED BY <1>3, <2>1, <2>2
<1> QED BY <1>10, <1>11, <1>12, <1>13 DEF n, p

\* The frame is these bytes and the four of their checksum.
LEMMA FrameLayout ==
  ASSUME NEW m \in Sendable
  PROVE  LET n == Len(m.payload)
             crc == WordBytes(crc32(Body(m)))
         IN  /\ encode(m) \in Seq(Byte) /\ Len(encode(m)) = 14 + n
             /\ FrameSize(m) = 14 + n
             /\ crc \in Seq(Byte) /\ Len(crc) = 4
             /\ \A i \in 1..(10 + n) : encode(m)[i] = Body(m)[i]
             /\ \A i \in 1..4 : encode(m)[10 + n + i] = crc[i]
<1> DEFINE n == Len(m.payload)
           body == Body(m)
           crc == WordBytes(crc32(Body(m)))
<1>1. n \in Nat /\ body \in Seq(Byte) /\ Len(body) = 10 + n
  BY BodyLayout
<1>2. crc \in Seq(Byte) /\ Len(crc) = 4
  BY <1>1, Crc32InWord, WordBytesTellWord
<1> HIDE DEF n, body, crc
<1> DEFINE q == body \o crc
<1>3. /\ q \in Seq(Byte) /\ Len(q) = Len(body) + Len(crc)
      /\ \A i \in 1..Len(body) : q[i] = body[i]
      /\ \A i \in 1..Len(crc) : q[Len(body) + i] = crc[i]
  BY ONLY <1>1, <1>2, Appended
<1>4. FrameSize(m) = 14 + n
  BY <1>1 DEF FrameSize, kHeaderSize, kFooterSize, n
<1>5. encode(m) = q
  BY DEF encode, body, crc
<1> HIDE DEF q
<1>6. /\ encode(m) \in Seq(Byte) /\ Len(encode(m)) = 14 + n
      /\ \A i \in 1..(10 + n) : encode(m)[i] = body[i]
      /\ \A i \in 1..4 : encode(m)[10 + n + i] = crc[i]
  BY <1>1, <1>2, <1>3, <1>5
<1> QED BY <1>2, <1>4, <1>6 DEF n, body, crc

\* A part of a sequence of bytes.
LEMMA Part ==
  ASSUME NEW s \in Seq(Byte), NEW a \in 1..Len(s) + 1, NEW b \in (a - 1)..Len(s)
  PROVE  /\ SubSeq(s, a, b) \in Seq(Byte) /\ Len(SubSeq(s, a, b)) = b - a + 1
         /\ \A i \in 1..(b - a + 1) : SubSeq(s, a, b)[i] = s[a + i - 1]
OBVIOUS

LEMMA Prefix ==
  ASSUME NEW s \in Seq(Byte), NEW n \in Nat, n <= Len(s)
  PROVE  /\ SubSeq(s, 1, n) \in Seq(Byte) /\ Len(SubSeq(s, 1, n)) = n
         /\ \A i \in 1..n : SubSeq(s, 1, n)[i] = s[i]
OBVIOUS

\* Two sequences with the same bytes are the same.
LEMMA SameBytes ==
  ASSUME NEW s \in Seq(Byte), NEW t \in Seq(Byte), Len(s) = Len(t),
         \A i \in 1..Len(s) : s[i] = t[i]
  PROVE  s = t
OBVIOUS

LEMMA LengthIsRead ==
  ASSUME NEW m \in Sendable, NEW data \in Seq(Byte),
         \A i \in LengthField : data[i] = encode(m)[i]
  PROVE  BodySize(data) = 10 + Len(m.payload)
<1>1. \A i \in LengthField : data[i] = Body(m)[i]
  <2> DEFINE n == Len(m.payload)
  <2>1. n \in Nat /\ \A i \in 1..(10 + n) : encode(m)[i] = Body(m)[i]
    BY FrameLayout, BodyLayout
  <2> HIDE DEF n
  <2>2. LengthField \subseteq 1..(10 + n)
    BY <2>1 DEF LengthField
  <2> QED BY <2>1, <2>2
<1>2. /\ data[7] = Body(m)[7] /\ data[8] = Body(m)[8]
      /\ data[9] = Body(m)[9] /\ data[10] = Body(m)[10]
  BY <1>1 DEF LengthField
<1>3. read_u16(data, 7) = read_u16(Body(m), 7) /\ read_u16(data, 9) = read_u16(Body(m), 9)
  BY <1>2 DEF read_u16
<1>4. read_u32(data, 7) = read_u32(Body(m), 7)
  BY <1>3 DEF read_u32
<1> QED BY <1>4, BodyLayout DEF BodySize, kHeaderSize

\* What decode() asks of data whose length it has read, byte by byte.
LEMMA AcceptedBytes ==
  ASSUME NEW data \in Seq(Byte), NEW n \in Nat, BodySize(data) = 10 + n
  PROVE  LET crc == WordBytes(crc32(SubSeq(data, 1, 10 + n)))
         IN  Accepted(data) <=> /\ Len(data) >= 14 + n
                                /\ data[1] = 77 /\ data[2] = 67 /\ data[3] = 1
                                /\ \A i \in 1..4 : data[10 + n + i] = crc[i]
<1> DEFINE body == SubSeq(data, 1, 10 + n)
           crc == WordBytes(crc32(body))
           foot == SubSeq(data, 10 + n + 1, 14 + n)
<1>1. /\ kMinFrame = 14 /\ BodySize(data) + kFooterSize = 14 + n /\ Len(data) \in Nat
      /\ Preamble = <<77, 67, 1>>
  BY DEF kMinFrame, kHeaderSize, kFooterSize, Preamble
<1>2. Accepted(data) <=> /\ Len(data) >= 14 + n
                         /\ SubSeq(data, 1, 3) = <<77, 67, 1>>
                         /\ foot = crc
  <2>1. SubSeq(data, BodySize(data) + 1, BodySize(data) + kFooterSize) = foot
    BY <1>1
  <2>2. WordBytes(crc32(SubSeq(data, 1, BodySize(data)))) = crc
    OBVIOUS
  <2> HIDE DEF foot, crc
  <2>3. Accepted(data) <=> /\ Len(data) >= kMinFrame
                           /\ SubSeq(data, 1, 3) = Preamble
                           /\ Len(data) >= BodySize(data) + kFooterSize
                           /\ foot = crc
    BY <2>1, <2>2 DEF Accepted
  <2> QED BY <1>1, <2>3
<1>3. SUFFICES ASSUME Len(data) >= 14 + n
               PROVE  /\ SubSeq(data, 1, 3) = <<77, 67, 1>>
                              <=> data[1] = 77 /\ data[2] = 67 /\ data[3] = 1
                      /\ foot = crc <=> \A i \in 1..4 : data[10 + n + i] = crc[i]
  BY <1>2
<1>4. SubSeq(data, 1, 3) = <<77, 67, 1>> <=> data[1] = 77 /\ data[2] = 67 /\ data[3] = 1
  <2> DEFINE first == SubSeq(data, 1, 3)
             pre == <<77, 67, 1>>
  <2>1. /\ first \in Seq(Byte) /\ Len(first) = 3
        /\ first[1] = data[1] /\ first[2] = data[2] /\ first[3] = data[3]
    BY <1>3, Part
  <2>2. /\ pre \in Seq(Byte) /\ Len(pre) = 3 /\ pre[1] = 77 /\ pre[2] = 67 /\ pre[3] = 1
    BY DEF Byte
  <2> HIDE DEF first, pre
  <2>3. ASSUME \A i \in 1..3 : first[i] = pre[i] PROVE first = pre
    BY <2>1, <2>2, <2>3, SameBytes
  <2>4. first = pre <=> data[1] = 77 /\ data[2] = 67 /\ data[3] = 1
    BY <2>1, <2>2, <2>3
  <2> QED BY <2>4 DEF first, pre
<1>5. foot = crc <=> \A i \in 1..4 : data[10 + n + i] = crc[i]
  <2>1. /\ foot \in Seq(Byte) /\ Len(foot) = 4
        /\ \A i \in 1..4 : foot[i] = data[10 + n + i]
    BY <1>3, Part
  <2>2. body \in Seq(Byte)
    BY <1>3, Part
  <2>3. crc \in Seq(Byte) /\ Len(crc) = 4
    BY <2>2, Crc32InWord, WordBytesTellWord
  <2> HIDE DEF foot, crc
  <2>4. ASSUME \A i \in 1..4 : foot[i] = crc[i] PROVE foot = crc
    BY <2>1, <2>3, <2>4, SameBytes
  <2> QED BY <2>1, <2>4
<1> QED BY <1>4, <1>5

\* decode() undoes encode(), whatever follows the frame.
LEMMA IntactIsAccepted ==
  ASSUME NEW m \in Sendable, NEW data \in Seq(Byte), Len(data) >= FrameSize(m),
         \A i \in Frame(m) : data[i] = encode(m)[i]
  PROVE  Accepted(data) /\ Message(data) = m
<1> DEFINE n == Len(m.payload)
           body == SubSeq(data, 1, 10 + n)
           crc == WordBytes(crc32(Body(m)))
<1>1. /\ n \in Nat /\ FrameSize(m) = 14 + n /\ Len(data) \in Nat
      /\ m.payload \in Seq(Byte)
  BY BodyLayout, FrameLayout DEF Sendable
<1>2. /\ \A i \in 1..(10 + n) : encode(m)[i] = Body(m)[i]
      /\ \A i \in 1..4 : encode(m)[10 + n + i] = crc[i]
  BY FrameLayout
<1>3. /\ Body(m) \in Seq(Byte) /\ Len(Body(m)) = 10 + n
      /\ Body(m)[1] = 77 /\ Body(m)[2] = 67 /\ Body(m)[3] = 1
      /\ read_u16(Body(m), 5) = m.type
      /\ \A i \in 1..n : Body(m)[10 + i] = m.payload[i]
  BY BodyLayout
<1> HIDE DEF n
<1>4. \A i \in 1..(14 + n) : data[i] = encode(m)[i]
  BY <1>1 DEF Frame
<1>5. BodySize(data) = 10 + n
  <2>1. \A i \in LengthField : data[i] = encode(m)[i]
    BY <1>1, <1>4 DEF LengthField
  <2> QED BY <2>1, LengthIsRead DEF n
<1>6. \A i \in 1..(10 + n) : data[i] = Body(m)[i]
  <2>1. 1..(10 + n) \subseteq 1..(14 + n)
    BY <1>1
  <2> HIDE DEF body, crc
  <2> QED BY <1>2, <1>4, <2>1
<1>7. body = Body(m)
  <2>1. /\ body \in Seq(Byte) /\ Len(body) = 10 + n
        /\ \A i \in 1..(10 + n) : body[i] = data[i]
    <3>1. 10 + n \in Nat /\ 10 + n <= Len(data)
      BY <1>1
    <3> QED BY <3>1, Prefix
  <2> HIDE DEF body
  <2> QED BY <1>3, <1>6, <2>1, SameBytes
<1>8. Accepted(data)
  <2>1. data[1] = 77 /\ data[2] = 67 /\ data[3] = 1
    BY <1>1, <1>3, <1>6
  <2>2. \A i \in 1..4 : data[10 + n + i] = crc[i]
    <3>1. \A i \in 1..4 : 10 + n + i \in 1..(14 + n)
      BY <1>1
    <3> QED BY <1>2, <1>4, <3>1
  <2> DEFINE own == WordBytes(crc32(body))
  <2>3. Accepted(data) <=> /\ Len(data) >= 14 + n
                           /\ data[1] = 77 /\ data[2] = 67 /\ data[3] = 1
                           /\ \A i \in 1..4 : data[10 + n + i] = own[i]
    BY <1>1, <1>5, AcceptedBytes
  <2>4. own = crc
    BY <1>7
  <2> HIDE DEF own, crc
  <2> QED BY <1>1, <2>1, <2>2, <2>3, <2>4
<1>9. read_u16(data, 5) = m.type
  <2> HIDE DEF body, crc
  <2>1. 5 \in 1..(10 + n) /\ 5 + 1 \in 1..(10 + n)
    BY <1>1
  <2>2. data[5] = Body(m)[5] /\ data[5 + 1] = Body(m)[5 + 1]
    BY <1>6, <2>1
  <2> QED BY <1>3, <2>2 DEF read_u16
<1>10. SubSeq(data, kHeaderSize + 1, BodySize(data)) = m.payload
  <2> DEFINE load == SubSeq(data, 11, 10 + n)
  <2>1. load \in Seq(Byte) /\ Len(load) = n /\ \A i \in 1..n : load[i] = data[10 + i]
    BY <1>1, Part
  <2>2. \A i \in 1..n : data[10 + i] = Body(m)[10 + i]
    BY <1>1, <1>6
  <2>3. \A i \in 1..n : load[i] = m.payload[i]
    BY <1>3, <2>1, <2>2
  <2> HIDE DEF load
  <2>4. load = m.payload
    BY <1>1, <2>1, <2>3, SameBytes DEF n
  <2> QED BY <1>5, <2>4 DEF kHeaderSize, load
<1>11. m = [type |-> m.type, payload |-> m.payload]
  BY DEF Sendable
<1> QED BY <1>8, <1>9, <1>10, <1>11 DEF Message

\* A byte that is altered outside the length field is noticed, in the header by its
\* value or by the checksum, in the payload by the checksum, in the checksum itself.
LEMMA AlteredIsRejected ==
  ASSUME NEW m \in Sendable, NEW data \in Seq(Byte), Len(data) >= FrameSize(m),
         NEW p \in Frame(m) \ LengthField, data[p] # encode(m)[p],
         \A i \in Frame(m) : i # p => data[i] = encode(m)[i]
  PROVE  ~ Accepted(data)
<1> DEFINE n == Len(m.payload)
           body == SubSeq(data, 1, 10 + n)
           crc == WordBytes(crc32(Body(m)))
<1>1. n \in Nat /\ FrameSize(m) = 14 + n /\ Len(data) \in Nat
  BY BodyLayout, FrameLayout
<1>2. /\ \A i \in 1..(10 + n) : encode(m)[i] = Body(m)[i]
      /\ \A i \in 1..4 : encode(m)[10 + n + i] = crc[i]
      /\ crc \in Seq(Byte) /\ Len(crc) = 4
  BY FrameLayout
<1>3. Body(m) \in Seq(Byte) /\ Len(Body(m)) = 10 + n
  BY BodyLayout
<1> HIDE DEF n
<1>4. \A i \in 1..(14 + n) : i # p => data[i] = encode(m)[i]
  BY <1>1 DEF Frame
<1>5. p \in 1..(14 + n) /\ p \notin LengthField
  BY <1>1 DEF Frame
<1>6. BodySize(data) = 10 + n
  <2>1. \A i \in LengthField : data[i] = encode(m)[i]
    BY <1>1, <1>4, <1>5 DEF LengthField
  <2> QED BY <2>1, LengthIsRead DEF n
<1>7. /\ body \in Seq(Byte) /\ Len(body) = 10 + n
      /\ \A i \in 1..(10 + n) : body[i] = data[i]
  <2>1. 10 + n \in Nat /\ 10 + n <= Len(data)
    BY <1>1
  <2> QED BY <2>1, Prefix
<1>8. SUFFICES ASSUME \A i \in 1..4 : data[10 + n + i] = WordBytes(crc32(body))[i]
               PROVE  FALSE
  <2> HIDE DEF body
  <2> QED BY <1>1, <1>6, AcceptedBytes DEF body
<1> HIDE DEF body, crc
<1>9. CASE p \in 1..(10 + n)
  <2>1. p \in 1..Len(body) /\ body[p] # Body(m)[p]
    BY <1>2, <1>7, <1>9
  <2>2. ASSUME NEW i \in 1..Len(body), i # p PROVE body[i] = Body(m)[i]
    <3>1. i \in 1..(10 + n) /\ i \in 1..(14 + n)
      BY <1>1, <1>7
    <3> QED BY <1>2, <1>4, <1>7, <2>2, <3>1
  <2>3. crc32(body) # crc32(Body(m))
    BY <1>3, <1>7, <2>1, <2>2, OneByteChangesCrc
  <2>4. WordBytes(crc32(body)) # crc
    BY <1>3, <1>7, <2>3, Crc32InWord, WordBytesTellWord DEF crc
  <2>5. \A i \in 1..4 : data[10 + n + i] = crc[i]
    <3>1. \A i \in 1..4 : 10 + n + i \in 1..(14 + n) /\ 10 + n + i # p
      BY <1>1, <1>9
    <3> QED BY <1>2, <1>4, <3>1
  <2> DEFINE own == WordBytes(crc32(body))
  <2>6. own \in Seq(Byte) /\ Len(own) = 4
    BY <1>7, Crc32InWord, WordBytesTellWord
  <2>7. own # crc /\ \A i \in 1..4 : own[i] = crc[i]
    BY <1>8, <2>4, <2>5
  <2> HIDE DEF own
  <2>8. own = crc
    BY <1>2, <2>6, <2>7, SameBytes
  <2> QED BY <2>7, <2>8
<1>10. CASE p \in (11 + n)..(14 + n)
  <2>1. ASSUME NEW i \in 1..(10 + n) PROVE body[i] = Body(m)[i]
    <3>1. i \in 1..(14 + n) /\ i # p
      BY <1>1, <1>10
    <3> QED BY <1>2, <1>4, <1>7, <3>1
  <2>2. body = Body(m)
    BY <1>3, <1>7, <2>1, SameBytes
  <2>3. p - (10 + n) \in 1..4 /\ 10 + n + (p - (10 + n)) = p
    BY <1>1, <1>10
  <2>4. data[p] = crc[p - (10 + n)]
    BY <1>8, <2>2, <2>3 DEF crc
  <2> QED BY <1>2, <2>3, <2>4
<1> QED BY <1>1, <1>5, <1>9, <1>10

\* The beginning of a frame is not accepted.
LEMMA ShortIsRejected ==
  ASSUME NEW m \in Sendable, NEW data \in Seq(Byte), Len(data) < FrameSize(m),
         \A i \in 1..Len(data) : data[i] = encode(m)[i]
  PROVE  ~ Accepted(data)
<1> DEFINE n == Len(m.payload)
<1>1. n \in Nat /\ FrameSize(m) = 14 + n /\ Len(data) \in Nat
  BY BodyLayout, FrameLayout
<1> HIDE DEF n
<1>2. CASE Len(data) < 14
  BY <1>1, <1>2 DEF Accepted, kMinFrame, kHeaderSize, kFooterSize
<1>3. CASE Len(data) >= 14
  <2>1. \A i \in LengthField : data[i] = encode(m)[i]
    BY <1>1, <1>3 DEF LengthField
  <2>2. BodySize(data) = 10 + n
    BY <2>1, LengthIsRead DEF n
  <2> QED BY <1>1, <2>2 DEF Accepted, kFooterSize
<1> QED BY <1>1, <1>2, <1>3

\* Where decode() takes the payload to end, the checksum still fits.
LEMMA AcceptedSize ==
  ASSUME NEW data \in Seq(Byte), Accepted(data)
  PROVE  /\ BodySize(data) \in Int /\ 10 <= BodySize(data)
         /\ BodySize(data) + 4 <= Len(data)
<1>1. Len(data) \in Nat /\ Len(data) >= 14
  BY DEF Accepted, kMinFrame, kHeaderSize, kFooterSize
<1>2. /\ data[7] \in Byte /\ data[7 + 1] \in Byte
      /\ data[9] \in Byte /\ data[9 + 1] \in Byte
  BY <1>1
<1>3. read_u16(data, 7) \in Nat
  BY ONLY <1>2, TwoBytesRead
<1>4. read_u16(data, 9) \in Nat
  BY ONLY <1>2, TwoBytesRead
<1>5. read_u32(data, 7) \in Nat
  BY <1>3, <1>4 DEF read_u32
<1> QED BY <1>1, <1>5 DEF BodySize, kHeaderSize, kFooterSize, Accepted

\* What decode() accepts has the bytes of the frame where it still has them, and no
\* payload that reaches beyond the data.
LEMMA AcceptedKeeps ==
  ASSUME NEW m \in Sendable, NEW data \in Seq(Byte), Accepted(data), NEW gone,
         \A i \in Frame(m) \ gone : i <= Len(data) /\ data[i] = encode(m)[i]
  PROVE  /\ Message(data).payload \in Seq(Byte)
         /\ Len(Message(data).payload) + 14 <= Len(data)
         /\ gone \cap TypeField = {} => Message(data).type = m.type
         /\ \A i \in 1..Len(Message(data).payload) \cap 1..Len(m.payload) :
                10 + i \notin gone => Message(data).payload[i] = m.payload[i]
<1> DEFINE n == Len(m.payload)
           size == BodySize(data)
           load == SubSeq(data, 11, size)
<1>1. /\ n \in Nat /\ FrameSize(m) = 14 + n /\ Len(data) \in Nat
      /\ read_u16(Body(m), 5) = m.type
      /\ \A i \in 1..n : Body(m)[10 + i] = m.payload[i]
      /\ \A i \in 1..(10 + n) : encode(m)[i] = Body(m)[i]
  BY BodyLayout, FrameLayout
<1>2. size \in Int /\ 10 <= size /\ size + 4 <= Len(data)
  BY AcceptedSize
<1>3. Message(data).type = read_u16(data, 5) /\ Message(data).payload = load
  <2>1. kHeaderSize + 1 = 11
    BY DEF kHeaderSize
  <2> QED BY <2>1 DEF Message
<1> HIDE DEF n, size
<1>4. /\ load \in Seq(Byte) /\ Len(load) = size - 10
      /\ \A i \in 1..(size - 10) : load[i] = data[10 + i]
  <2>1. 11 \in 1..Len(data) + 1 /\ size \in (11 - 1)..Len(data)
    BY <1>1, <1>2
  <2>2. /\ load \in Seq(Byte) /\ Len(load) = size - 11 + 1
        /\ \A i \in 1..(size - 11 + 1) : load[i] = data[11 + i - 1]
    BY ONLY <2>1, Part, data \in Seq(Byte)
  <2>3. size - 11 + 1 = size - 10 /\ \A i \in 1..(size - 10) : 11 + i - 1 = 10 + i
    BY <1>2
  <2> HIDE DEF load
  <2> QED BY <2>2, <2>3
<1> HIDE DEF load
<1>5. \A i \in 1..(10 + n) : i \notin gone => data[i] = Body(m)[i]
  <2>1. \A i \in 1..(10 + n) : i \in Frame(m)
    BY <1>1 DEF Frame
  <2> QED BY <1>1, <2>1
<1>6. ASSUME gone \cap TypeField = {} PROVE read_u16(data, 5) = m.type
  <2>1. 5 \in 1..(10 + n) /\ 5 \notin gone /\ 5 + 1 \in 1..(10 + n) /\ 5 + 1 \notin gone
    BY <1>1, <1>6 DEF TypeField
  <2>2. data[5] = Body(m)[5] /\ data[5 + 1] = Body(m)[5 + 1]
    BY <1>5, <2>1
  <2> QED BY <1>1, <2>2 DEF read_u16
<1>7. ASSUME NEW i \in 1..Len(load) \cap 1..n, 10 + i \notin gone
      PROVE  load[i] = m.payload[i]
  <2>1. i \in 1..(size - 10) /\ i \in 1..n /\ 10 + i \in 1..(10 + n)
    BY <1>1, <1>2, <1>4, <1>7
  <2> QED BY <1>1, <1>4, <1>5, <1>7, <2>1
<1>8. Len(load) + 14 <= Len(data)
  BY <1>1, <1>2, <1>4
<1> QED BY <1>3, <1>4, <1>6, <1>7, <1>8 DEF n

-----------------------------------------------------------------------------
(* The inductive invariant *)

\* The bytes on their way, against the frame that was sent: where it is not cut they are
\* its bytes, but for one that has another value; or it is cut short, and unless other
\* bytes follow, what is there is its beginning.
Travels ==
    phase = "sent" =>
        /\ Encodable(msg) /\ queue = <<>>
        /\ altered = {} \/ (lost = {} /\ \E p \in DOMAIN bytes : altered = {p})
        /\ lost \cap Frame(msg) = {} =>
               /\ Len(bytes) >= FrameSize(msg)
               /\ \A i \in Frame(msg) : bytes[i] = encode(msg)[i] <=> i \notin altered
        /\ \A i \in Frame(msg) \ (altered \cup lost) :
               i <= Len(bytes) /\ bytes[i] = encode(msg)[i]
        /\ ~followed => Len(bytes) <= FrameSize(msg)
        /\ lost \cap Frame(msg) # {} /\ ~followed =>
               /\ Len(bytes) < FrameSize(msg)
               /\ \A i \in 1..Len(bytes) : bytes[i] = encode(msg)[i]

Inductive ==
    TypeOK /\ Travels /\ IntactArrives /\ DamageIsRejected /\ DamageMovesOnlyTheEnd

\* What decode() returns is a message.
LEMMA MessageIsTyped ==
  ASSUME NEW data \in Seq(Byte), Accepted(data)
  PROVE  Message(data) \in [type : Type, payload : Seq(Byte)]
<1>1. Len(data) \in Nat /\ Len(data) >= 14
  BY DEF Accepted, kMinFrame, kHeaderSize, kFooterSize
<1>2. data[5] \in Byte /\ data[5 + 1] \in Byte
  BY <1>1
<1>3. read_u16(data, 5) \in Type
  <2>1. read_u16(data, 5) \in Nat /\ read_u16(data, 5) <= 65535
    BY ONLY <1>2, TwoBytesRead
  <2> QED BY ONLY <2>1, TypeIsU16
<1>4. SubSeq(data, kHeaderSize + 1, BodySize(data)) \in Seq(Byte)
  <2> DEFINE size == BodySize(data)
  <2>1. size \in Int /\ 10 <= size /\ size + 4 <= Len(data)
    BY AcceptedSize
  <2> HIDE DEF size
  <2>2. 11 \in 1..Len(data) + 1 /\ size \in (11 - 1)..Len(data)
    BY <1>1, <2>1
  <2>3. SubSeq(data, 11, size) \in Seq(Byte)
    BY <2>2, Part
  <2> QED BY <2>3 DEF size, kHeaderSize
<1> QED BY <1>3, <1>4 DEF Message

LEMMA MessagesAreTyped ==
  ASSUME NEW m \in Messages
  PROVE  m \in [type : Type, payload : Seq(Byte)] /\ (Encodable(m) => m \in Sendable)
BY MessagesAssumption DEF Sendable

\* A frame that send() has just handed to the transport, and a message it refused.
Handed ==
    /\ phase = "sent" /\ Encodable(msg) /\ bytes = encode(msg)
    /\ msg \in Messages /\ altered = {} /\ lost = {} /\ followed = FALSE /\ queue = <<>>

Refused ==
    /\ phase = "refused" /\ bytes = <<>>
    /\ msg \in Messages /\ altered = {} /\ lost = {} /\ followed = FALSE /\ queue = <<>>

LEMMA HandedInductive == Handed => Inductive
<1> SUFFICES ASSUME Handed PROVE Inductive
  OBVIOUS
<1>1. msg \in Sendable
  BY MessagesAreTyped DEF Handed
<1>2. /\ Len(msg.payload) \in Nat /\ encode(msg) \in Seq(Byte)
      /\ Len(encode(msg)) = FrameSize(msg)
  BY <1>1, BodyLayout, FrameLayout
<1>3. TypeOK
  <2>1. phase = "sent" => Len(msg.payload) <= MaxPayload
    BY DEF Handed, Encodable
  <2>2. followed \in BOOLEAN
    BY Zenon DEF Handed
  <2>3. queue \in Seq([type : Type, payload : Seq(Byte)])
    BY DEF Handed
  <2> QED BY <1>2, <2>1, <2>2, <2>3 DEF Handed, TypeOK
<1>4. Travels
  <2>1. \A i \in Frame(msg) : i <= FrameSize(msg)
    BY DEF Frame
  <2> QED BY <1>2, <2>1 DEF Travels, Handed
<1> QED BY <1>3, <1>4 DEF Inductive, IntactArrives, DamageIsRejected,
    DamageMovesOnlyTheEnd, Handed

LEMMA RefusedInductive == Refused => Inductive
<1> SUFFICES ASSUME Refused PROVE Inductive
  OBVIOUS
<1>1. TypeOK
  <2>1. followed \in BOOLEAN
    BY Zenon DEF Refused
  <2>2. bytes \in Seq(Byte) /\ queue \in Seq([type : Type, payload : Seq(Byte)])
    BY DEF Refused
  <2> QED BY <2>1, <2>2 DEF Refused, TypeOK
<1> QED BY <1>1 DEF Inductive, Travels, IntactArrives, DamageIsRejected,
    DamageMovesOnlyTheEnd, Refused

LEMMA InitInductive == Init => Inductive
BY HandedInductive DEF Init, Handed

\* Send puts either on its way, whatever was there.
LEMMA SendInductive == Send => Inductive'
<1>1. Send => Handed' \/ Refused'
  BY DEF Send, Handed, Refused
<1>2. Handed' => Inductive'
  BY HandedInductive, PTL
<1>3. Refused' => Inductive'
  BY RefusedInductive, PTL
<1> QED BY <1>1, <1>2, <1>3

LEMMA AlterInductive == Inductive /\ Alter => Inductive'
<1> SUFFICES ASSUME Inductive, Alter PROVE Inductive'
  OBVIOUS
<1>1. PICK p \in DOMAIN bytes, change \in 1..255 :
          bytes' = [bytes EXCEPT ![p] = (@ + change) % 256] /\ altered' = {p}
  <2>1. PICK c \in Changes :
            /\ c[1] \in DOMAIN bytes /\ altered' = {c[1]}
            /\ bytes' = [bytes EXCEPT ![c[1]] = (@ + c[2]) % 256]
    BY DEF Alter
  <2>2. c[2] \in 1..255
    BY MessagesAssumption
  <2> QED BY <2>1, <2>2
<1>2. /\ phase = "sent" /\ phase' = "sent" /\ altered = {} /\ lost = {} /\ lost' = {}
      /\ msg' = msg /\ followed' = followed /\ queue' = queue
  BY DEF Alter, Undamaged
<1>3. bytes \in Seq(Byte) /\ TypeOK /\ Travels
  BY DEF Inductive, TypeOK
<1>4. p \in 1..Len(bytes) /\ Len(bytes) \in Nat /\ bytes[p] \in Byte
  BY <1>3
<1> DEFINE b == (bytes[p] + change) % 256
<1>5. b \in Byte /\ b # bytes[p]
  BY <1>4, ByteDistinct
<1>6. bytes' = [bytes EXCEPT ![p] = b]
  BY <1>1
<1> HIDE DEF b
<1>7. /\ bytes' \in Seq(Byte) /\ Len(bytes') = Len(bytes) /\ bytes'[p] = b
      /\ \A i \in 1..Len(bytes) : i # p => bytes'[i] = bytes[i]
  BY <1>3, <1>4, <1>5, <1>6
<1>8. TypeOK'
  BY <1>1, <1>2, <1>3, <1>4, <1>7 DEF TypeOK
<1>9. Travels'
  <2>1. /\ Encodable(msg) /\ queue = <<>> /\ Len(bytes) >= FrameSize(msg)
        /\ \A i \in Frame(msg) : bytes[i] = encode(msg)[i]
    BY <1>2, <1>3 DEF Travels
  <2>2. Frame(msg) \subseteq 1..Len(bytes)
    <3>1. FrameSize(msg) \in Int
      <4>1. msg \in Sendable
        BY <1>3, <2>1, MessagesAreTyped DEF TypeOK
      <4>2. Len(msg.payload) \in Nat
        BY <4>1, BodyLayout
      <4> QED BY <4>1, <4>2, FrameLayout
    <3> QED BY <1>4, <2>1, <3>1 DEF Frame
  <2>3. \A i \in Frame(msg) : bytes'[i] = encode(msg)[i] <=> i \notin {p}
    BY <1>5, <1>7, <2>1, <2>2
  <2>4. p \in DOMAIN bytes'
    BY <1>4, <1>7
  <2>5. ASSUME NEW i \in Frame(msg) \ {p}
        PROVE  i <= Len(bytes') /\ bytes'[i] = encode(msg)[i]
    <3>1. i \in 1..Len(bytes)
      BY <2>2
    <3> QED BY <1>4, <1>7, <2>3, <3>1
  <2>6. ~ followed => Len(bytes) <= FrameSize(msg)
    BY <1>2, <1>3 DEF Travels
  <2> QED BY <1>1, <1>2, <1>7, <2>1, <2>3, <2>4, <2>5, <2>6 DEF Travels
<1> QED BY <1>2, <1>8, <1>9 DEF Inductive, IntactArrives, DamageIsRejected,
    DamageMovesOnlyTheEnd

LEMMA CutInductive == Inductive /\ Cut => Inductive'
<1> SUFFICES ASSUME Inductive, Cut PROVE Inductive'
  OBVIOUS
<1>1. PICK n \in 0..(Len(bytes) - 1) :
          /\ bytes' = SubSeq(bytes, 1, n) /\ lost' = (n + 1)..Len(bytes)
          /\ followed' = (followed /\ n > FrameSize(msg))
  BY DEF Cut
<1>2. /\ phase = "sent" /\ phase' = "sent" /\ altered = {} /\ lost = {} /\ altered' = {}
      /\ msg' = msg /\ queue' = queue
  BY DEF Cut, Undamaged
<1>3. TypeOK /\ Travels /\ bytes \in Seq(Byte) /\ Len(bytes) \in Nat /\ n \in Nat /\ n < Len(bytes)
  BY DEF Inductive, TypeOK
<1>4. /\ bytes' \in Seq(Byte) /\ Len(bytes') = n
      /\ \A i \in 1..n : bytes'[i] = bytes[i]
  BY <1>1, <1>3, Part
<1>5. followed' \in BOOLEAN
  BY Zenon, <1>1
<1>6. TypeOK'
  BY <1>1, <1>2, <1>3, <1>4, <1>5 DEF TypeOK
<1>7. /\ Encodable(msg) /\ queue = <<>> /\ Len(bytes) >= FrameSize(msg)
      /\ \A i \in Frame(msg) : bytes[i] = encode(msg)[i]
  BY <1>2, <1>3 DEF Travels
<1>8. FrameSize(msg) \in Nat /\ Frame(msg) = 1..FrameSize(msg)
  <2>1. msg \in Sendable
    BY <1>3, <1>7, MessagesAreTyped DEF TypeOK
  <2>2. Len(msg.payload) \in Nat
    BY <2>1, BodyLayout
  <2> QED BY <2>1, <2>2, FrameLayout DEF Frame
<1>9. ASSUME NEW i \in Frame(msg) \ lost'
      PROVE  i <= Len(bytes') /\ bytes'[i] = encode(msg)[i]
  <2>1. i \in 1..n
    BY <1>1, <1>3, <1>7, <1>8, <1>9
  <2> QED BY <1>3, <1>4, <1>7, <1>9, <2>1
<1>10. ~ followed' => Len(bytes') <= FrameSize(msg)
  <2>1. CASE n > FrameSize(msg)
    <3>1. followed' = followed
      BY <1>1, <1>3, <2>1, Zenon DEF TypeOK
    <3>2. ~ followed => Len(bytes) <= FrameSize(msg)
      BY <1>2, <1>3 DEF Travels
    <3>3. ~ (Len(bytes) <= FrameSize(msg))
      BY <1>3, <1>8, <2>1
    <3> QED BY <3>1, <3>2, <3>3, Zenon
  <2>2. CASE n <= FrameSize(msg)
    BY <1>4, <2>2
  <2> QED BY <1>3, <1>8, <2>1, <2>2
<1>11. CASE n >= FrameSize(msg)
  <2>1. \A i \in Frame(msg) : bytes'[i] = encode(msg)[i]
    BY <1>3, <1>4, <1>7, <1>8, <1>11
  <2>2. lost' \cap Frame(msg) = {}
    BY <1>1, <1>3, <1>8, <1>11
  <2>3. Travels'
    BY <1>2, <1>4, <1>7, <1>9, <1>10, <1>11, <2>1, <2>2 DEF Travels
  <2> QED BY <1>2, <1>6, <2>3 DEF Inductive, IntactArrives, DamageIsRejected,
      DamageMovesOnlyTheEnd
<1>12. CASE n < FrameSize(msg)
  <2>1. \A i \in 1..n : bytes'[i] = encode(msg)[i]
    BY <1>3, <1>4, <1>7, <1>8, <1>12
  <2>2. n + 1 \in lost' \cap Frame(msg)
    BY <1>1, <1>3, <1>7, <1>8, <1>12
  <2>3. Travels'
    BY <1>2, <1>4, <1>7, <1>9, <1>10, <1>12, <2>1, <2>2 DEF Travels
  <2> QED BY <1>2, <1>6, <2>3 DEF Inductive, IntactArrives, DamageIsRejected,
      DamageMovesOnlyTheEnd
<1> QED BY <1>3, <1>8, <1>11, <1>12

LEMMA FollowInductive == Inductive /\ Follow => Inductive'
<1> SUFFICES ASSUME Inductive, Follow PROVE Inductive'
  OBVIOUS
<1>1. PICK tail \in Tails : bytes' = bytes \o tail
  BY DEF Follow
<1>2. /\ phase = "sent" /\ phase' = "sent" /\ followed' = TRUE /\ altered' = altered
      /\ lost' = lost /\ msg' = msg /\ queue' = queue
  BY DEF Follow
<1>3. TypeOK /\ Travels /\ bytes \in Seq(Byte) /\ Len(bytes) \in Nat
  BY DEF Inductive, TypeOK
<1>4. tail \in Seq(Byte) /\ Len(tail) \in Nat
  BY MessagesAssumption
<1>5. /\ bytes' \in Seq(Byte) /\ Len(bytes') = Len(bytes) + Len(tail)
      /\ \A i \in 1..Len(bytes) : bytes'[i] = bytes[i]
  BY <1>1, <1>3, <1>4, Appended
<1>6. followed' \in BOOLEAN
  BY <1>2, Zenon
<1>7. TypeOK'
  BY <1>2, <1>3, <1>5, <1>6 DEF TypeOK
<1>8. /\ Encodable(msg) /\ queue = <<>>
      /\ altered = {} \/ (lost = {} /\ \E p \in DOMAIN bytes' : altered = {p})
  <2>1. DOMAIN bytes \subseteq DOMAIN bytes'
    BY <1>3, <1>4, <1>5
  <2> QED BY <1>2, <1>3, <2>1 DEF Travels
<1>9. FrameSize(msg) \in Nat /\ Frame(msg) = 1..FrameSize(msg)
  <2>1. msg \in Sendable
    BY <1>3, <1>8, MessagesAreTyped DEF TypeOK
  <2>2. Len(msg.payload) \in Nat
    BY <2>1, BodyLayout
  <2> QED BY <2>1, <2>2, FrameLayout DEF Frame
<1>10. ASSUME lost \cap Frame(msg) = {}
       PROVE  /\ Len(bytes') >= FrameSize(msg)
              /\ \A i \in Frame(msg) : bytes'[i] = encode(msg)[i] <=> i \notin altered
  <2>1. /\ Len(bytes) >= FrameSize(msg)
        /\ \A i \in Frame(msg) : bytes[i] = encode(msg)[i] <=> i \notin altered
    BY <1>2, <1>3, <1>10 DEF Travels
  <2>2. Len(bytes') >= FrameSize(msg)
    BY <1>3, <1>4, <1>5, <1>9, <2>1
  <2>3. ASSUME NEW i \in Frame(msg) PROVE bytes'[i] = bytes[i]
    <3>1. i \in 1..Len(bytes)
      BY <1>3, <1>9, <2>1
    <3> QED BY <1>5, <3>1
  <2> QED BY <2>1, <2>2, <2>3
<1>11. ASSUME NEW i \in Frame(msg) \ (altered \cup lost)
       PROVE  i <= Len(bytes') /\ bytes'[i] = encode(msg)[i]
  <2>1. i <= Len(bytes) /\ bytes[i] = encode(msg)[i]
    BY <1>2, <1>3, <1>11 DEF Travels
  <2>2. i \in 1..Len(bytes)
    BY <1>3, <1>9, <1>11, <2>1
  <2> QED BY <1>3, <1>4, <1>5, <2>1, <2>2
<1>12. Travels'
  BY <1>2, <1>8, <1>10, <1>11 DEF Travels
<1> QED BY <1>2, <1>7, <1>12 DEF Inductive, IntactArrives, DamageIsRejected,
    DamageMovesOnlyTheEnd

\* What decode() makes of the bytes is what the two invariants ask for.
LEMMA ReceiveInductive == Inductive /\ Receive => Inductive'
<1> SUFFICES ASSUME Inductive, Receive PROVE Inductive'
  OBVIOUS
<1>1. /\ phase = "sent" /\ bytes' = <<>> /\ msg' = msg /\ altered' = altered
      /\ lost' = lost /\ followed' = followed
  BY DEF Receive
<1>2. TypeOK /\ Travels /\ bytes \in Seq(Byte) /\ Len(bytes) \in Nat
  BY DEF Inductive, TypeOK
<1>3. msg \in Sendable /\ queue = <<>>
  BY <1>1, <1>2, MessagesAreTyped DEF TypeOK, Travels
<1>4. FrameSize(msg) \in Nat
  <2>1. Len(msg.payload) \in Nat
    BY <1>3, BodyLayout
  <2> QED BY <1>3, <2>1, FrameLayout
<1>5. \/ Accepted(bytes) /\ phase' = "received" /\ queue' = <<Message(bytes)>>
      \/ ~ Accepted(bytes) /\ phase' = "rejected" /\ queue' = <<>>
  BY <1>3 DEF Receive
<1>6. TypeOK'
  <2>1. queue' \in Seq([type : Type, payload : Seq(Byte)])
    <3>1. CASE Accepted(bytes)
      <4>1. Message(bytes) \in [type : Type, payload : Seq(Byte)]
        BY <1>2, <3>1, MessageIsTyped
      <4>2. queue' = <<Message(bytes)>>
        BY <1>5, <3>1, Zenon
      <4> QED BY <4>1, <4>2
    <3>2. CASE ~ Accepted(bytes)
      <4>1. queue' = <<>>
        BY <1>5, <3>2, Zenon
      <4> QED BY <4>1
    <3> QED BY <3>1, <3>2
  <2> QED BY <1>1, <1>2, <1>5, <2>1 DEF TypeOK
<1>7. ASSUME (altered \cup lost) \cap Frame(msg) = {}
      PROVE  phase' = "received" /\ queue' = <<msg>>
  <2>1. /\ Len(bytes) >= FrameSize(msg)
        /\ \A i \in Frame(msg) : bytes[i] = encode(msg)[i]
    BY <1>1, <1>2, <1>7 DEF Travels
  <2>2. Accepted(bytes) /\ Message(bytes) = msg
    BY <1>2, <1>3, <2>1, IntactIsAccepted
  <2> QED BY <1>5, <2>2
<1>8. ASSUME Accepted(bytes), NEW p \in altered \cap Frame(msg)
      PROVE  p \in LengthField
  <2>1. altered = {p} /\ lost = {}
    BY <1>1, <1>2 DEF Travels
  <2>2. /\ Len(bytes) >= FrameSize(msg) /\ bytes[p] # encode(msg)[p]
        /\ \A i \in Frame(msg) : i # p => bytes[i] = encode(msg)[i]
    BY <1>1, <1>2, <2>1 DEF Travels
  <2> QED BY <1>2, <1>3, <1>8, <2>2, AlteredIsRejected
<1>9. ASSUME Accepted(bytes), lost \cap Frame(msg) # {} PROVE followed
  <2>1. SUFFICES ASSUME ~ followed PROVE FALSE
    OBVIOUS
  <2>2. /\ Len(bytes) < FrameSize(msg)
        /\ \A i \in 1..Len(bytes) : bytes[i] = encode(msg)[i]
    BY <1>1, <1>2, <1>9, <2>1 DEF Travels
  <2> QED BY <1>2, <1>3, <1>9, <2>2, ShortIsRejected
<1>10. ASSUME Accepted(bytes)
       PROVE  LET got == Message(bytes)
              IN  /\ lost \cap TypeField = {} => got.type = msg.type
                  /\ \A i \in DOMAIN got.payload \cap DOMAIN msg.payload :
                         kHeaderSize + i \notin lost => got.payload[i] = msg.payload[i]
                  /\ Len(got.payload) > Len(msg.payload) => followed
  <2> DEFINE got == Message(bytes)
             gone == altered \cup lost
  <2>1. \A i \in Frame(msg) \ gone : i <= Len(bytes) /\ bytes[i] = encode(msg)[i]
    BY <1>1, <1>2 DEF Travels
  <2>2. /\ got.payload \in Seq(Byte) /\ Len(got.payload) + 14 <= Len(bytes)
        /\ gone \cap TypeField = {} => got.type = msg.type
        /\ \A i \in 1..Len(got.payload) \cap 1..Len(msg.payload) :
               10 + i \notin gone => got.payload[i] = msg.payload[i]
    <3> HIDE DEF gone
    <3> QED BY <1>2, <1>3, <1>10, <2>1, AcceptedKeeps
  <2>3. Len(msg.payload) \in Nat /\ FrameSize(msg) = 14 + Len(msg.payload)
    BY <1>3, BodyLayout, FrameLayout
  <2>4. msg.payload \in Seq(Byte) /\ Len(got.payload) \in Nat
    BY <1>3, <2>2 DEF Sendable
  <2> HIDE DEF got
  <2>5. altered \cap TypeField = {}
    <3>1. TypeField \subseteq Frame(msg) \ LengthField
      BY <2>3 DEF TypeField, LengthField, Frame
    <3> QED BY <1>8, <1>10, <3>1
  <2>6. \A i \in 1..Len(msg.payload) : 10 + i \notin altered
    <3>1. \A i \in 1..Len(msg.payload) : 10 + i \in Frame(msg) \ LengthField
      BY <2>3 DEF LengthField, Frame
    <3> QED BY <1>8, <1>10, <3>1
  <2>7. ~ followed => Len(bytes) <= FrameSize(msg)
    BY <1>1, <1>2 DEF Travels
  <2>8. Len(got.payload) > Len(msg.payload) => followed
    BY <1>2, <2>2, <2>3, <2>4, <2>7
  <2>9. lost \cap TypeField = {} => got.type = msg.type
    BY <2>2, <2>5
  <2>10. \A i \in DOMAIN got.payload \cap DOMAIN msg.payload :
             kHeaderSize + i \notin lost => got.payload[i] = msg.payload[i]
    <3>1. DOMAIN got.payload = 1..Len(got.payload) /\ DOMAIN msg.payload = 1..Len(msg.payload)
      BY <2>2, <2>4
    <3>2. \A i \in 1..Len(msg.payload) : kHeaderSize + i = 10 + i
      BY DEF kHeaderSize
    <3> QED BY <2>2, <2>6, <3>1, <3>2
  <2> QED BY <2>8, <2>9, <2>10 DEF got
<1>11. Travels' /\ IntactArrives' /\ DamageIsRejected' /\ DamageMovesOnlyTheEnd'
  <2>1. phase' # "sent"
    BY <1>5
  <2>2. IntactArrives'
    BY <1>1, <1>5, <1>7 DEF IntactArrives
  <2>3. DamageIsRejected'
    BY <1>1, <1>5, <1>8, <1>9 DEF DamageIsRejected
  <2>4. DamageMovesOnlyTheEnd'
    <3>1. CASE Accepted(bytes)
      <4>1. queue'[1] = Message(bytes)
        BY <1>5, <3>1
      <4> QED BY <1>1, <1>10, <3>1, <4>1 DEF DamageMovesOnlyTheEnd
    <3>2. CASE ~ Accepted(bytes)
      BY <1>5, <3>2 DEF DamageMovesOnlyTheEnd
    <3> QED BY <3>1, <3>2
  <2> QED BY <2>1, <2>2, <2>3, <2>4 DEF Travels
<1> QED BY <1>6, <1>11 DEF Inductive

LEMMA NextInductive == Inductive /\ [Next]_vars => Inductive'
<1>1. Inductive /\ UNCHANGED vars => Inductive'
  BY DEF vars, Inductive, TypeOK, Travels, IntactArrives, DamageIsRejected,
         DamageMovesOnlyTheEnd
<1> QED BY <1>1, SendInductive, AlterInductive, CutInductive, FollowInductive,
           ReceiveInductive DEF Next

LEMMA Invariant == Spec => []Inductive
BY InitInductive, NextInductive, PTL DEF Spec

-----------------------------------------------------------------------------
(* The theorems *)

\* Only bytes travel, and what is queued is a message of 16 bits of type and a payload
\* of bytes, whatever the transport delivers (message_codec.cpp:69-71, 86-94, 126-144).
THEOREM TypeCorrect == Spec => []TypeOK
<1>1. Inductive => TypeOK
  BY DEF Inductive
<1> QED BY <1>1, Invariant, PTL

\* A frame that arrives whole is accepted and gives the message that was sent, for every
\* type and every payload encode() takes and whatever follows it: the layouts of
\* encode() and decode() agree (message_codec.cpp:83-94, 112-143).
THEOREM IntactFramesArrive == Spec => []IntactArrives
<1>1. Inductive => IntactArrives
  BY DEF Inductive
<1> QED BY <1>1, Invariant, PTL

\* One altered byte outside the length field is noticed in a frame of any length, and so
\* is a frame that ends early, unless other bytes take the place of the lost ones
\* (message_codec.cpp:49-58, 108-141).
THEOREM DamagedFramesAreRejected == Spec => []DamageIsRejected
<1>1. Inductive => DamageIsRejected
  BY DEF Inductive
<1> QED BY <1>1, Invariant, PTL

\* What is accepted all the same differs from what was sent only in where it ends: the
\* type and the bytes both payloads have are the sender's, lost ones apart, and a longer
\* payload needs bytes after the frame (message_codec.cpp:112-143).
THEOREM DamageKeepsTheRest == Spec => []DamageMovesOnlyTheEnd
<1>1. Inductive => DamageMovesOnlyTheEnd
  BY DEF Inductive
<1> QED BY <1>1, Invariant, PTL

\* Another message than the one sent arrives only if the length was altered, or if other
\* bytes take the place of lost ones, and the checksum happens to fit
\* (message_codec.cpp:126-141).
THEOREM OtherMessagesNeedLength ==
  Spec => [](phase = "received" =>
                 \/ queue = <<msg>>
                 \/ altered \cap Frame(msg) \cap LengthField # {}
                 \/ lost \cap Frame(msg) # {} /\ followed)
<1>1. Inductive => (phase = "received" =>
                        \/ queue = <<msg>>
                        \/ altered \cap Frame(msg) \cap LengthField # {}
                        \/ lost \cap Frame(msg) # {} /\ followed)
  BY DEF Inductive, IntactArrives, DamageIsRejected
<1> QED BY <1>1, Invariant, PTL
=============================================================================
