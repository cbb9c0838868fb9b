----------------------------- MODULE WireProofs -----------------------------
(***************************************************************************)
(* What is written to a buffer is what is read from it, for every id,      *)
(* bitset and text, however many values are waiting.                       *)
(***************************************************************************)
EXTENDS Wire, SequenceTheorems, TLAPS

----------------------------------------------------------------------------
(* Bytes and the integers they stand for. *)

LEMMA Weights ==
  /\ ByteWeight(1) = 1 /\ ByteWeight(2) = 256
  /\ ByteWeight(3) = 65536 /\ ByteWeight(4) = 16777216
BY DEF ByteWeight

LEMMA BytesType ==
  ASSUME NEW value \in Nat, NEW size \in {1, 2, 4}
  PROVE  /\ Bytes(value, size) \in Seq(Octet)
         /\ Len(Bytes(value, size)) = size
         /\ \A n \in 1 .. size :
              Bytes(value, size)[n] = (value \div ByteWeight(n)) % 256
<1>1. \A n \in 1 .. size : (value \div ByteWeight(n)) % 256 \in 0 .. 255
  BY Weights
<1>2. QED
  BY <1>1 DEF Bytes, Octet

\* An integer is the sum of its bytes, each by its weight.
LEMMA ByteIsItself ==
  ASSUME NEW value \in Nat, value < 256
  PROVE  value = value % 256
OBVIOUS

LEMMA TwoBytes ==
  ASSUME NEW value \in Nat, value < 65536
  PROVE  value = (value % 256) + 256 * ((value \div 256) % 256)
OBVIOUS

LEMMA FourBytes ==
  ASSUME NEW value \in Nat, FitsWord(value)
  PROVE  value = (value % 256) + 256 * ((value \div 256) % 256)
                 + 65536 * ((value \div 65536) % 256)
                 + 16777216 * ((value \div 16777216) % 256)
BY DEF FitsWord

\* What an integer of a size can be.
Fits(value, size) ==
  /\ value \in Nat
  /\ size = 1 => value < 256
  /\ size = 2 => value < 65536
  /\ size = 4 => FitsWord(value)

Holds(bytes, value, size) == \A n \in 1 .. size : bytes[n] = Bytes(value, size)[n]

LEMMA ValueOfBytes ==
  ASSUME NEW size \in {1, 2, 4}, NEW value, Fits(value, size),
         NEW bytes \in Seq(Octet), Len(bytes) = size, Holds(bytes, value, size)
  PROVE  Value(bytes) = value
<1>1. value \in Nat /\ DOMAIN bytes = 1 .. size
  BY DEF Fits
<1>2. \A n \in 1 .. size : bytes[n] = (value \div ByteWeight(n)) % 256
  BY <1>1, BytesType DEF Holds
<1>3. CASE size = 1
  <2>1. bytes[1] = value % 256
    BY <1>1, <1>2, <1>3, Weights
  <2>2. Value(bytes) = bytes[1] * 1 + 0 + 0 + 0
    BY <1>1, <1>3, Weights DEF Value
  <2>3. QED
    <3>1. value < 256
      BY <1>3 DEF Fits
    <3>2. bytes[1] = value
      BY <1>1, <2>1, <3>1, ByteIsItself
    <3>3. QED
      BY <1>1, <2>2, <3>2
<1>4. CASE size = 2
  <2>1. bytes[1] = value % 256 /\ bytes[2] = (value \div 256) % 256
    BY <1>1, <1>2, <1>4, Weights
  <2>2. Value(bytes) = bytes[1] * 1 + bytes[2] * 256 + 0 + 0
    BY <1>1, <1>4, Weights DEF Value
  <2>3. QED
    BY <1>1, <1>4, <2>1, <2>2, TwoBytes DEF Fits
<1>5. CASE size = 4
  <2>1. /\ bytes[1] = value % 256 /\ bytes[2] = (value \div 256) % 256
        /\ bytes[3] = (value \div 65536) % 256 /\ bytes[4] = (value \div 16777216) % 256
    BY <1>1, <1>2, <1>5, Weights
  <2>2. Value(bytes) = bytes[1] * 1 + bytes[2] * 256 + bytes[3] * 65536
                       + bytes[4] * 16777216
    BY <1>1, <1>5, Weights DEF Value
  <2>3. FitsWord(value)
    BY <1>5 DEF Fits
  <2>4. QED
    BY <1>1, <2>1, <2>2, <2>3, FourBytes
<1>6. QED
  BY <1>3, <1>4, <1>5

----------------------------------------------------------------------------
(* Fields of a payload. *)

\* The value stands in the bytes from position i on.
StandsAt(bytes, i, value, size) ==
  /\ i \in Nat \ {0} /\ i + size - 1 <= Len(bytes)
  /\ \A n \in 1 .. size : bytes[i + n - 1] = Bytes(value, size)[n]

LEMMA FieldStands ==
  ASSUME NEW size \in {1, 2, 4}, NEW value, Fits(value, size),
         NEW bytes \in Seq(Octet), NEW i, StandsAt(bytes, i, value, size)
  PROVE  Field(bytes, i, size) = value
<1> DEFINE part == SubSeq(bytes, i, i + size - 1)
<1>1. /\ part \in Seq(Octet) /\ Len(part) = size
      /\ \A n \in 1 .. size : part[n] = bytes[i + n - 1]
  <2> DEFINE last == i + size - 1
  <2>1. /\ i \in Int /\ i >= 1 /\ last \in Int /\ i <= last /\ last <= Len(bytes)
        /\ last - i + 1 = size
    BY DEF StandsAt
  <2> HIDE DEF last
  <2>2. bytes \in [1 .. Len(bytes) -> Octet] /\ Len(bytes) \in Nat
    OBVIOUS
  <2>3. \A k \in i .. last : bytes[k] \in Octet
    <3>1. \A k \in i .. last : k \in 1 .. Len(bytes)
      BY <2>1, <2>2
    <3>2. QED
      BY <2>2, <3>1
  <2> DEFINE slice == SubSeq(bytes, i, last)
  <2>4. /\ slice \in Seq(Octet)
        /\ Len(slice) = IF i <= last THEN last - i + 1 ELSE 0
        /\ \A n \in 1 .. last - i + 1 : slice[n] = bytes[i + n - 1]
    BY <2>1, <2>3, SubSeqProperties
  <2>5. QED
    BY <2>1, <2>4 DEF last
<1>2. \A n \in 1 .. size : part[n] = Bytes(value, size)[n]
  BY <1>1 DEF StandsAt
<1>3. Value(part) = value
  <2> HIDE DEF part
  <2>1. part \in Seq(Octet) /\ Len(part) = size
    BY <1>1
  <2>2. \A other \in Seq(Octet) :
          Len(other) = size /\ Holds(other, value, size) => Value(other) = value
    BY ValueOfBytes
  <2>3. QED
    BY <1>2, <2>1, <2>2 DEF Holds
<1>4. QED
  BY <1>3 DEF Field

LEMMA StandsAlone ==
  ASSUME NEW value \in Nat, NEW size \in {1, 2, 4}
  PROVE  StandsAt(Bytes(value, size), 1, value, size)
BY BytesType DEF StandsAt

\* What stands in a sequence stands in any that begins with it.
LEMMA StandsInLonger ==
  ASSUME NEW value, NEW size \in {1, 2, 4}, NEW i, NEW bytes \in Seq(Octet),
         NEW rest \in Seq(Octet), StandsAt(bytes, i, value, size)
  PROVE  StandsAt(bytes \o rest, i, value, size)
<1>1. /\ i \in Nat \ {0} /\ i + size - 1 <= Len(bytes)
      /\ Len(bytes) \in Nat /\ Len(rest) \in Nat /\ Len(bytes \o rest) = Len(bytes) + Len(rest)
      /\ \A n \in 1 .. Len(bytes) : (bytes \o rest)[n] = bytes[n]
  BY DEF StandsAt
<1>2. \A n \in 1 .. size : i + n - 1 \in 1 .. Len(bytes)
  BY <1>1
<1>3. \A n \in 1 .. size : (bytes \o rest)[i + n - 1] = bytes[i + n - 1]
  BY <1>1, <1>2
<1>4. i + size - 1 <= Len(bytes \o rest)
  BY <1>1
<1>5. QED
  BY <1>1, <1>3, <1>4 DEF StandsAt

LEMMA StandsAfter ==
  ASSUME NEW value, NEW size \in {1, 2, 4}, NEW i, NEW bytes \in Seq(Octet),
         NEW first \in Seq(Octet), StandsAt(bytes, i, value, size)
  PROVE  StandsAt(first \o bytes, Len(first) + i, value, size)
<1>1. /\ i \in Nat \ {0} /\ i + size - 1 <= Len(bytes)
      /\ Len(first) \in Nat /\ Len(bytes) \in Nat
      /\ Len(first \o bytes) = Len(first) + Len(bytes)
      /\ \A n \in 1 .. Len(bytes) : (first \o bytes)[Len(first) + n] = bytes[n]
  BY DEF StandsAt
<1>2. \A n \in 1 .. size : /\ i + n - 1 \in 1 .. Len(bytes)
                           /\ (Len(first) + i) + n - 1 = Len(first) + (i + n - 1)
  BY <1>1
<1>3. \A n \in 1 .. size : (first \o bytes)[(Len(first) + i) + n - 1] = bytes[i + n - 1]
  BY <1>1, <1>2
<1>4. /\ (Len(first) + i) + size - 1 <= Len(first \o bytes)
      /\ Len(first) + i \in Nat \ {0}
  BY <1>1
<1>5. QED
  BY <1>3, <1>4 DEF StandsAt

\* A text stands behind its length.
TextStandsAt(bytes, i, text) ==
  /\ StandsAt(bytes, i, Len(text), 4)
  /\ i + 3 + Len(text) <= Len(bytes)
  /\ \A n \in 1 .. Len(text) : bytes[i + 3 + n] = text[n]

LEMMA SecondPart ==
  ASSUME NEW first \in Seq(Octet), NEW second \in Seq(Octet)
  PROVE  /\ first \o second \in Seq(Octet)
         /\ Len(first \o second) = Len(first) + Len(second)
         /\ \A n \in 1 .. Len(second) : (first \o second)[Len(first) + n] = second[n]
OBVIOUS

LEMMA FirstPart ==
  ASSUME NEW first \in Seq(Octet), NEW second \in Seq(Octet)
  PROVE  \A n \in 1 .. Len(first) : (first \o second)[n] = first[n]
OBVIOUS

LEMMA TextStands ==
  ASSUME NEW text \in Seq(Octet)
  PROVE  /\ TextStandsAt(LengthAndBytes(text), 1, text)
         /\ LengthAndBytes(text) \in Seq(Octet)
         /\ Len(LengthAndBytes(text)) = 4 + Len(text)
<1> DEFINE length == Bytes(Len(text), 4)
<1>1. Len(text) \in Nat
  OBVIOUS
<1>2. length \in Seq(Octet) /\ Len(length) = 4 /\ StandsAt(length, 1, Len(text), 4)
  BY <1>1, BytesType, StandsAlone
<1>3. StandsAt(length \o text, 1, Len(text), 4)
  <2> HIDE DEF length
  <2> QED
    BY <1>2, StandsInLonger
<1>4. /\ length \o text \in Seq(Octet) /\ Len(length \o text) = 4 + Len(text)
      /\ \A n \in 1 .. Len(text) : (length \o text)[4 + n] = text[n]
  <2> HIDE DEF length
  <2>1. /\ length \o text \in Seq(Octet) /\ Len(length \o text) = Len(length) + Len(text)
        /\ \A n \in 1 .. Len(text) : (length \o text)[Len(length) + n] = text[n]
    BY <1>2, SecondPart
  <2>2. QED
    BY <1>2, <2>1
<1>5. QED
  BY <1>1, <1>3, <1>4 DEF TextStandsAt, LengthAndBytes

LEMMA TextStandsInLonger ==
  ASSUME NEW text \in Seq(Octet), NEW i, NEW bytes \in Seq(Octet),
         NEW rest \in Seq(Octet), TextStandsAt(bytes, i, text)
  PROVE  TextStandsAt(bytes \o rest, i, text)
<1>1. /\ i \in Nat \ {0} /\ i + 3 + Len(text) <= Len(bytes) /\ Len(text) \in Nat
      /\ Len(bytes) \in Nat /\ Len(rest) \in Nat /\ Len(bytes \o rest) = Len(bytes) + Len(rest)
      /\ \A n \in 1 .. Len(bytes) : (bytes \o rest)[n] = bytes[n]
      /\ \A n \in 1 .. Len(text) : bytes[i + 3 + n] = text[n]
  BY DEF TextStandsAt, StandsAt
<1>2. \A n \in 1 .. Len(text) : i + 3 + n \in 1 .. Len(bytes)
  BY <1>1
<1>3. StandsAt(bytes \o rest, i, Len(text), 4)
  BY StandsInLonger DEF TextStandsAt
<1>4. \A n \in 1 .. Len(text) : (bytes \o rest)[i + 3 + n] = text[n]
  BY <1>1, <1>2
<1>5. i + 3 + Len(text) <= Len(bytes \o rest)
  BY <1>1
<1>6. QED
  BY <1>3, <1>4, <1>5 DEF TextStandsAt

LEMMA TextStandsAfter ==
  ASSUME NEW text \in Seq(Octet), NEW i, NEW bytes \in Seq(Octet),
         NEW first \in Seq(Octet), TextStandsAt(bytes, i, text)
  PROVE  TextStandsAt(first \o bytes, Len(first) + i, text)
<1>1. /\ i \in Nat \ {0} /\ i + 3 + Len(text) <= Len(bytes) /\ Len(text) \in Nat
      /\ Len(first) \in Nat /\ Len(bytes) \in Nat
      /\ Len(first \o bytes) = Len(first) + Len(bytes)
      /\ \A n \in 1 .. Len(bytes) : (first \o bytes)[Len(first) + n] = bytes[n]
      /\ \A n \in 1 .. Len(text) : bytes[i + 3 + n] = text[n]
  BY DEF TextStandsAt, StandsAt
<1>2. \A n \in 1 .. Len(text) :
        /\ i + 3 + n \in 1 .. Len(bytes)
        /\ (Len(first) + i) + 3 + n = Len(first) + (i + 3 + n)
  BY <1>1
<1>3. StandsAt(first \o bytes, Len(first) + i, Len(text), 4)
  BY StandsAfter DEF TextStandsAt
<1>4. \A n \in 1 .. Len(text) : (first \o bytes)[(Len(first) + i) + 3 + n] = text[n]
  BY <1>1, <1>2
<1>5. (Len(first) + i) + 3 + Len(text) <= Len(first \o bytes)
  BY <1>1
<1>6. QED
  BY <1>3, <1>4, <1>5 DEF TextStandsAt

LEMMA TextIsRead ==
  ASSUME NEW text \in Seq(Octet), FitsSigned(Len(text)), NEW i, NEW bytes \in Seq(Octet),
         TextStandsAt(bytes, i, text)
  PROVE  Length(bytes, i) = Len(text) /\ TextAt(bytes, i) = text
<1>1. /\ i \in Nat \ {0} /\ i + 3 + Len(text) <= Len(bytes) /\ Len(text) \in Nat
      /\ Len(bytes) \in Nat
      /\ \A n \in 1 .. Len(text) : bytes[i + 3 + n] = text[n]
  BY DEF TextStandsAt, StandsAt
<1>2. Length(bytes, i) = Len(text)
  <2>1. Fits(Len(text), 4)
    BY <1>1 DEF Fits, FitsWord, FitsSigned
  <2>2. StandsAt(bytes, i, Len(text), 4)
    BY DEF TextStandsAt
  <2>3. Field(bytes, i, 4) = Len(text)
    BY <2>1, <2>2, FieldStands
  <2>4. QED
    BY <2>3 DEF Length
<1> DEFINE from == i + 4  to == i + 3 + Len(text)
<1>3. /\ from \in Int /\ to \in Int /\ to - from + 1 = Len(text)
      /\ \A k \in from .. to : k \in 1 .. Len(bytes)
      /\ \A n \in 1 .. Len(text) : from + n - 1 = i + 3 + n
  <2>1. from = i + 4 /\ to = i + 3 + Len(text)
    OBVIOUS
  <2> HIDE DEF from, to
  <2>2. /\ from \in Int /\ to \in Int /\ to - from + 1 = Len(text)
        /\ 1 <= from /\ to <= Len(bytes)
    BY <1>1, <2>1
  <2>3. \A k \in from .. to : k \in 1 .. Len(bytes)
    BY <1>1, <2>2
  <2>4. \A n \in 1 .. Len(text) : from + n - 1 = i + 3 + n
    BY <1>1, <2>1
  <2>5. QED
    BY <2>2, <2>3, <2>4
<1>4. \A k \in from .. to : bytes[k] \in Octet
  <2> HIDE DEF from, to
  <2> QED
    BY <1>3, LenProperties
<1> DEFINE part == SubSeq(bytes, from, to)
<1>5. /\ part \in Seq(Octet)
      /\ Len(part) = IF from <= to THEN to - from + 1 ELSE 0
      /\ \A n \in 1 .. to - from + 1 : part[n] = bytes[from + n - 1]
  <2> HIDE DEF from, to
  <2> QED
    BY <1>3, <1>4, SubSeqProperties
<1>6. Len(part) = Len(text)
  <2> HIDE DEF part
  <2> QED
    BY <1>1, <1>3, <1>5
<1>7. \A n \in 1 .. Len(text) : part[n] = text[n]
  <2> HIDE DEF part, from, to
  <2> QED
    BY <1>1, <1>3, <1>5
<1>8. part = text
  <2> HIDE DEF part
  <2> QED
    BY <1>5, <1>6, <1>7, SeqEqual
<1>9. QED
  BY <1>2, <1>8 DEF TextAt

----------------------------------------------------------------------------
(* The header byte. *)

LEMMA BitWeights ==
  /\ BitWeight(0) = 1 /\ BitWeight(1) = 2 /\ BitWeight(2) = 4 /\ BitWeight(3) = 8
  /\ BitWeight(4) = 16 /\ BitWeight(5) = 32 /\ BitWeight(6) = 64 /\ BitWeight(7) = 128
BY DEF BitWeight

LEMMA HeaderBits ==
  ASSUME NEW header \in Headers
  PROVE  header \in {{}, {0}, {1}, {4}, {0, 4}, {1, 4}}
BY DEF Headers, Types

LEMMA HeaderIsRead ==
  ASSUME NEW header \in Headers
  PROVE  Byte(header) \in 0 .. 255 /\ Bits(Byte(header)) = header
<1>1. CASE header = {}
  <2>1. Byte(header) = 0
    BY <1>1 DEF Byte
  <2>2. QED
    BY <1>1, <2>1, BitWeights DEF Bits
<1>2. CASE header = {0}
  <2>1. Byte(header) = 1
    BY <1>2, BitWeights DEF Byte
  <2>2. QED
    BY <1>2, <2>1, BitWeights DEF Bits
<1>3. CASE header = {1}
  <2>1. Byte(header) = 2
    BY <1>3, BitWeights DEF Byte
  <2>2. QED
    BY <1>3, <2>1, BitWeights DEF Bits
<1>4. CASE header = {4}
  <2>1. Byte(header) = 16
    BY <1>4, BitWeights DEF Byte
  <2>2. QED
    BY <1>4, <2>1, BitWeights DEF Bits
<1>5. CASE header = {0, 4}
  <2>1. Byte(header) = 17
    BY <1>5, BitWeights DEF Byte
  <2>2. QED
    BY <1>5, <2>1, BitWeights DEF Bits
<1>6. CASE header = {1, 4}
  <2>1. Byte(header) = 18
    BY <1>6, BitWeights DEF Byte
  <2>2. QED
    BY <1>6, <2>1, BitWeights DEF Bits
<1>7. QED
  BY <1>1, <1>2, <1>3, <1>4, <1>5, <1>6, HeaderBits

----------------------------------------------------------------------------
(* Values: what is written and what is read. *)

LEMMA ZeroFits == FitsWord(0) /\ FitsSigned(0)
BY DEF FitsWord, FitsSigned

LEMMA IdFits ==
  ASSUME NEW id \in Ids \cup {0}
  PROVE  id \in Nat /\ id < 65536 /\ Fits(id, 2) /\ Fits(id, 4)
<1>1. id \in Nat /\ id < 65536
  BY WireAssumption
<1>2. FitsWord(id)
  BY <1>1 DEF FitsWord
<1>3. QED
  BY <1>1, <1>2 DEF Fits

LEMMA BitsetFits ==
  ASSUME NEW acks \in Bitsets \cup {0}
  PROVE  acks \in Nat /\ Fits(acks, 4)
<1>1. acks \in Nat
  BY WireAssumption
<1>2. FitsWord(acks)
  <2>1. CASE acks \in Bitsets
    BY <2>1, WireAssumption
  <2>2. CASE acks = 0
    BY <2>2, ZeroFits
  <2>3. QED
    BY <2>1, <2>2
<1>3. QED
  BY <1>1, <1>2 DEF Fits

LEMMA TextFits ==
  ASSUME NEW text \in Texts \cup {<<>>}
  PROVE  text \in Seq(Octet) /\ FitsSigned(Len(text)) /\ Len(text) \in Nat
<1>1. CASE text \in Texts
  <2>1. text \in Seq(Octet) /\ FitsSigned(Len(text))
    BY <1>1, WireAssumption
  <2>2. QED
    BY <2>1, LenProperties
<1>2. CASE text = <<>>
  <2>1. text \in Seq(Octet) /\ Len(text) = 0
    BY <1>2, EmptySeq
  <2>2. QED
    BY <2>1, ZeroFits
<1>3. QED
  BY <1>1, <1>2

LEMMA PacketFits ==
  ASSUME NEW p \in Packets
  PROVE  /\ p.header \in Headers /\ Fits(Byte(p.header), 1)
         /\ Fits(p.id, 2) /\ Fits(p.ackId, 2) /\ Fits(p.acks, 4)
         /\ p.payload \in Seq(Octet) /\ FitsSigned(Len(p.payload)) /\ Len(p.payload) \in Nat
<1>1. /\ p.header \in Headers /\ p.id \in Ids \cup {0} /\ p.ackId \in Ids \cup {0}
      /\ p.acks \in Bitsets \cup {0} /\ p.payload \in Texts \cup {<<>>}
  BY DEF Packets
<1>2. p.payload \in Seq(Octet) /\ FitsSigned(Len(p.payload)) /\ Len(p.payload) \in Nat
  BY <1>1, TextFits
<1>3. Fits(Byte(p.header), 1)
  <2>1. Byte(p.header) \in Nat /\ Byte(p.header) < 256
    <3>1. Byte(p.header) \in 0 .. 255
      BY <1>1, HeaderIsRead
    <3>2. QED
      BY <3>1
  <2>2. QED
    BY <2>1 DEF Fits
<1>4. Fits(p.id, 2) /\ Fits(p.ackId, 2)
  BY <1>1, IdFits
<1>5. Fits(p.acks, 4)
  BY <1>1, BitsetFits
<1>6. QED
  BY <1>1, <1>2, <1>3, <1>4, <1>5

\* Where the fields of a packet stand.
PacketStands(bytes, p) ==
  /\ StandsAt(bytes, 1, Byte(p.header), 1)
  /\ StandsAt(bytes, 2, p.id, 2) /\ StandsAt(bytes, 4, p.ackId, 2)
  /\ StandsAt(bytes, 6, p.acks, 4)
  /\ TextStandsAt(bytes, 10, p.payload)

LEMMA PacketIsWritten ==
  ASSUME NEW p \in Packets
  PROVE  /\ PacketStands(WritePacket(p), p)
         /\ WritePacket(p) \in Seq(Octet)
         /\ Len(WritePacket(p)) = 13 + Len(p.payload)
<1> DEFINE header == Bytes(Byte(p.header), 1)
           id     == Bytes(p.id, 2)
           ackId  == Bytes(p.ackId, 2)
           acks   == Bytes(p.acks, 4)
           text   == LengthAndBytes(p.payload)
           one    == header \o id
           two    == one \o ackId
           three  == two \o acks
           four   == three \o text
<1>1. /\ Byte(p.header) \in Nat /\ p.id \in Nat /\ p.ackId \in Nat /\ p.acks \in Nat
      /\ p.payload \in Seq(Octet) /\ Len(p.payload) \in Nat
  BY PacketFits DEF Fits
<1>2. /\ header \in Seq(Octet) /\ Len(header) = 1 /\ StandsAt(header, 1, Byte(p.header), 1)
      /\ id \in Seq(Octet) /\ Len(id) = 2 /\ StandsAt(id, 1, p.id, 2)
      /\ ackId \in Seq(Octet) /\ Len(ackId) = 2 /\ StandsAt(ackId, 1, p.ackId, 2)
      /\ acks \in Seq(Octet) /\ Len(acks) = 4 /\ StandsAt(acks, 1, p.acks, 4)
  <2>1. /\ header \in Seq(Octet) /\ Len(header) = 1
        /\ StandsAt(header, 1, Byte(p.header), 1)
    BY <1>1, BytesType, StandsAlone
  <2>2. id \in Seq(Octet) /\ Len(id) = 2 /\ StandsAt(id, 1, p.id, 2)
    BY <1>1, BytesType, StandsAlone
  <2>3. ackId \in Seq(Octet) /\ Len(ackId) = 2 /\ StandsAt(ackId, 1, p.ackId, 2)
    BY <1>1, BytesType, StandsAlone
  <2>4. acks \in Seq(Octet) /\ Len(acks) = 4 /\ StandsAt(acks, 1, p.acks, 4)
    BY <1>1, BytesType, StandsAlone
  <2>5. QED
    BY <2>1, <2>2, <2>3, <2>4
<1>3. /\ text \in Seq(Octet) /\ Len(text) = 4 + Len(p.payload)
      /\ TextStandsAt(text, 1, p.payload)
  BY <1>1, TextStands
<1>4. WritePacket(p) = four
  BY DEF WritePacket
<1> HIDE DEF header, id, ackId, acks, text
<1>5. /\ one \in Seq(Octet) /\ Len(one) = 3
      /\ StandsAt(one, 1, Byte(p.header), 1) /\ StandsAt(one, 2, p.id, 2)
  <2>1. one \in Seq(Octet) /\ Len(one) = 3
    <3>1. one \in Seq(Octet) /\ Len(one) = Len(header) + Len(id)
      BY <1>2, SecondPart
    <3>2. QED
      BY <1>2, <3>1
  <2>2. StandsAt(one, 1, Byte(p.header), 1)
    BY <1>2, StandsInLonger
  <2>3. StandsAt(one, Len(header) + 1, p.id, 2)
    BY <1>2, StandsAfter
  <2>4. QED
    BY <1>2, <2>1, <2>2, <2>3
<1> HIDE DEF one
<1>6. /\ two \in Seq(Octet) /\ Len(two) = 5
      /\ StandsAt(two, 1, Byte(p.header), 1) /\ StandsAt(two, 2, p.id, 2)
      /\ StandsAt(two, 4, p.ackId, 2)
  <2>1. two \in Seq(Octet) /\ Len(two) = 5
    <3>1. two \in Seq(Octet) /\ Len(two) = Len(one) + Len(ackId)
      BY <1>2, <1>5, SecondPart
    <3>2. QED
      BY <1>2, <1>5, <3>1
  <2>2. StandsAt(two, 1, Byte(p.header), 1) /\ StandsAt(two, 2, p.id, 2)
    BY <1>2, <1>5, StandsInLonger
  <2>3. StandsAt(two, Len(one) + 1, p.ackId, 2)
    BY <1>2, <1>5, StandsAfter
  <2>4. QED
    BY <1>5, <2>1, <2>2, <2>3
<1> HIDE DEF two
<1>7. /\ three \in Seq(Octet) /\ Len(three) = 9
      /\ StandsAt(three, 1, Byte(p.header), 1) /\ StandsAt(three, 2, p.id, 2)
      /\ StandsAt(three, 4, p.ackId, 2) /\ StandsAt(three, 6, p.acks, 4)
  <2>1. three \in Seq(Octet) /\ Len(three) = 9
    <3>1. three \in Seq(Octet) /\ Len(three) = Len(two) + Len(acks)
      BY <1>2, <1>6, SecondPart
    <3>2. QED
      BY <1>2, <1>6, <3>1
  <2>2. /\ StandsAt(three, 1, Byte(p.header), 1) /\ StandsAt(three, 2, p.id, 2)
        /\ StandsAt(three, 4, p.ackId, 2)
    BY <1>2, <1>6, StandsInLonger
  <2>3. StandsAt(three, Len(two) + 1, p.acks, 4)
    BY <1>2, <1>6, StandsAfter
  <2>4. QED
    BY <1>6, <2>1, <2>2, <2>3
<1> HIDE DEF three
<1>8. /\ four \in Seq(Octet) /\ Len(four) = 13 + Len(p.payload)
      /\ PacketStands(four, p)
  <2>1. four \in Seq(Octet) /\ Len(four) = Len(three) + Len(text)
    BY <1>3, <1>7, SecondPart
  <2>2. Len(four) = 13 + Len(p.payload)
    BY <1>1, <1>3, <1>7, <2>1
  <2>3. /\ StandsAt(four, 1, Byte(p.header), 1) /\ StandsAt(four, 2, p.id, 2)
        /\ StandsAt(four, 4, p.ackId, 2) /\ StandsAt(four, 6, p.acks, 4)
    BY <1>3, <1>7, StandsInLonger
  <2>4. TextStandsAt(four, Len(three) + 1, p.payload)
    BY <1>1, <1>3, <1>7, TextStandsAfter
  <2>5. TextStandsAt(four, 10, p.payload)
    BY <1>7, <2>4
  <2>6. QED
    BY <2>1, <2>2, <2>3, <2>5 DEF PacketStands
<1>9. QED
  BY <1>4, <1>8

LEMMA PacketIsRead ==
  ASSUME NEW p \in Packets, NEW bytes \in Seq(Octet), PacketStands(bytes, p)
  PROVE  ReadPacket(bytes) = p /\ Length(bytes, 10) = Len(p.payload)
<1>1. /\ Field(bytes, 1, 1) = Byte(p.header)
      /\ Field(bytes, 2, 2) = p.id /\ Field(bytes, 4, 2) = p.ackId
      /\ Field(bytes, 6, 4) = p.acks
  BY PacketFits, FieldStands DEF PacketStands
<1>2. Length(bytes, 10) = Len(p.payload) /\ TextAt(bytes, 10) = p.payload
  BY PacketFits, TextIsRead DEF PacketStands
<1>3. Bits(Field(bytes, 1, 1)) = p.header
  BY <1>1, PacketFits, HeaderIsRead
<1>4. ReadPacket(bytes) = [header |-> p.header, id |-> p.id, ackId |-> p.ackId,
                           acks |-> p.acks, payload |-> p.payload]
  BY <1>1, <1>2, <1>3 DEF ReadPacket
<1>5. p = [header |-> p.header, id |-> p.id, ackId |-> p.ackId,
           acks |-> p.acks, payload |-> p.payload]
  BY DEF Packets
<1>6. QED
  BY <1>2, <1>4, <1>5

LEMMA PacketStandsInLonger ==
  ASSUME NEW p \in Packets, NEW bytes \in Seq(Octet), NEW rest \in Seq(Octet),
         PacketStands(bytes, p)
  PROVE  PacketStands(bytes \o rest, p)
BY PacketFits, StandsInLonger, TextStandsInLonger DEF PacketStands

\* A value that is written comes out as it went in, and takes its bytes with it,
\* whatever follows.
LEMMA ValueIsRead ==
  ASSUME NEW type, NEW value, <<type, value>> \in Values, NEW rest \in Seq(Octet)
  PROVE  /\ Encoded(type, value) \in Seq(Octet) /\ Len(Encoded(type, value)) > 0
         /\ Decoded(type, Encoded(type, value) \o rest) = value
         /\ Extracted(type, Encoded(type, value) \o rest) = Len(Encoded(type, value))
<1>1. CASE type = "int32" /\ value \in Ids
  <2>1. Encoded(type, value) = Bytes(value, 4)
    BY <1>1 DEF Encoded
  <2>2. Fits(value, 4) /\ value \in Nat
    BY <1>1, IdFits
  <2> DEFINE bytes == Bytes(value, 4)
  <2>3. bytes \in Seq(Octet) /\ Len(bytes) = 4 /\ StandsAt(bytes, 1, value, 4)
    BY <2>2, BytesType, StandsAlone
  <2>4. bytes \o rest \in Seq(Octet) /\ Field(bytes \o rest, 1, 4) = value
    <3> HIDE DEF bytes
    <3> QED
      BY <2>2, <2>3, StandsInLonger, FieldStands, SecondPart
  <2>5. QED
    BY <1>1, <2>1, <2>3, <2>4 DEF Decoded, Extracted
<1>2. CASE type = "string" /\ value \in Texts
  <2>1. Encoded(type, value) = LengthAndBytes(value)
    BY <1>2 DEF Encoded
  <2>2. value \in Seq(Octet) /\ FitsSigned(Len(value)) /\ Len(value) \in Nat
    BY <1>2, TextFits
  <2> DEFINE bytes == LengthAndBytes(value)
  <2>3. bytes \in Seq(Octet) /\ Len(bytes) = 4 + Len(value) /\ TextStandsAt(bytes, 1, value)
    BY <2>2, TextStands
  <2>4. /\ bytes \o rest \in Seq(Octet)
        /\ Length(bytes \o rest, 1) = Len(value) /\ TextAt(bytes \o rest, 1) = value
    <3> HIDE DEF bytes
    <3> QED
      BY <2>2, <2>3, TextStandsInLonger, TextIsRead, SecondPart
  <2>5. QED
    BY <1>2, <2>1, <2>2, <2>3, <2>4 DEF Decoded, Extracted
<1>3. CASE type = "Packet" /\ value \in Packets
  <2>1. Encoded(type, value) = WritePacket(value)
    BY <1>3 DEF Encoded
  <2>2. value.payload \in Seq(Octet) /\ Len(value.payload) \in Nat
    BY <1>3, PacketFits
  <2> DEFINE bytes == WritePacket(value)
  <2>3. /\ bytes \in Seq(Octet) /\ Len(bytes) = 13 + Len(value.payload)
        /\ PacketStands(bytes, value)
    BY <1>3, PacketIsWritten
  <2>4. /\ bytes \o rest \in Seq(Octet)
        /\ ReadPacket(bytes \o rest) = value
        /\ Length(bytes \o rest, 10) = Len(value.payload)
    <3> HIDE DEF bytes
    <3> QED
      BY <1>3, <2>3, PacketStandsInLonger, PacketIsRead, SecondPart
  <2>5. QED
    BY <1>3, <2>1, <2>2, <2>3, <2>4 DEF Decoded, Extracted
<1>4. QED
  BY <1>1, <1>2, <1>3 DEF Values

----------------------------------------------------------------------------
(* The payload, cut up into the values that are left. *)

Laid(cut, bytes, values) ==
  cut \in [0 .. Len(values) -> 0 .. Len(bytes)] /\ CutUp(cut, bytes, values)

\* The ends between the values are all there is to choose.
EndsOf(ends, bytes, values) ==
  [i \in 0 .. Len(values) |-> IF i = 0 THEN 0
                             ELSE IF i = Len(values) THEN Len(bytes)
                             ELSE ends[i]]

MatchOf(bytes, values) ==
  \E ends \in [1 .. Len(values) - 1 -> 0 .. Len(bytes)] :
    CutUp(EndsOf(ends, bytes, values), bytes, values)

LEMMA MatchIsLaid ==
  ASSUME NEW bytes \in Seq(Octet), NEW values \in Seq(Values)
  PROVE  MatchOf(bytes, values) <=> \E cut : Laid(cut, bytes, values)
<1>1. Len(bytes) \in Nat /\ Len(values) \in Nat
  BY LenProperties
<1>2. ASSUME NEW ends \in [1 .. Len(values) - 1 -> 0 .. Len(bytes)],
             CutUp(EndsOf(ends, bytes, values), bytes, values)
      PROVE  \E cut : Laid(cut, bytes, values)
  <2>1. EndsOf(ends, bytes, values) \in [0 .. Len(values) -> 0 .. Len(bytes)]
    BY <1>1 DEF EndsOf
  <2>2. QED
    BY <1>2, <2>1 DEF Laid
<1>3. ASSUME NEW cut, Laid(cut, bytes, values)
      PROVE  MatchOf(bytes, values)
  <2> DEFINE ends == [i \in 1 .. Len(values) - 1 |-> cut[i]]
  <2>1. /\ cut \in [0 .. Len(values) -> 0 .. Len(bytes)]
        /\ cut[0] = 0 /\ cut[Len(values)] = Len(bytes)
    BY <1>3 DEF Laid, CutUp
  <2>2. ends \in [1 .. Len(values) - 1 -> 0 .. Len(bytes)]
    BY <1>1, <2>1
  <2>3. EndsOf(ends, bytes, values) = cut
    <3>1. \A i \in 0 .. Len(values) : EndsOf(ends, bytes, values)[i] = cut[i]
      BY <1>1, <2>1 DEF EndsOf
    <3>2. cut = [i \in 0 .. Len(values) |-> cut[i]]
      BY <2>1
    <3>3. EndsOf(ends, bytes, values)
            = [i \in 0 .. Len(values) |-> EndsOf(ends, bytes, values)[i]]
      BY DEF EndsOf
    <3> HIDE DEF ends
    <3>4. QED
      BY <3>1, <3>2, <3>3
  <2>4. QED
    <3> HIDE DEF ends
    <3> QED
      BY <1>3, <2>2, <2>3 DEF MatchOf, Laid
<1>4. QED
  BY <1>2, <1>3 DEF MatchOf

LEMMA Slice ==
  ASSUME NEW bytes \in Seq(Octet), NEW from \in Nat \ {0}, NEW to \in Nat,
         from <= to + 1, to <= Len(bytes)
  PROVE  /\ SubSeq(bytes, from, to) \in Seq(Octet)
         /\ Len(SubSeq(bytes, from, to)) = to - from + 1
         /\ \A k \in 1 .. to - from + 1 : SubSeq(bytes, from, to)[k] = bytes[from + k - 1]
<1>1. \A k \in from .. to : bytes[k] \in Octet
  <2>1. \A k \in from .. to : k \in 1 .. Len(bytes)
    BY LenProperties
  <2>2. QED
    BY <2>1, LenProperties
<1>2. /\ SubSeq(bytes, from, to) \in Seq(Octet)
      /\ Len(SubSeq(bytes, from, to)) = IF from <= to THEN to - from + 1 ELSE 0
      /\ \A k \in 1 .. to - from + 1 : SubSeq(bytes, from, to)[k] = bytes[from + k - 1]
  BY <1>1, SubSeqProperties
<1>3. QED
  BY <1>2

LEMMA SliceOfFirst ==
  ASSUME NEW first \in Seq(Octet), NEW second \in Seq(Octet),
         NEW from \in Nat \ {0}, NEW to \in Nat, from <= to + 1, to <= Len(first)
  PROVE  SubSeq(first \o second, from, to) = SubSeq(first, from, to)
<1> DEFINE both == first \o second
<1>1. /\ both \in Seq(Octet) /\ Len(first) \in Nat /\ to <= Len(both)
      /\ \A k \in 1 .. Len(first) : both[k] = first[k]
  OBVIOUS
<1> HIDE DEF both
<1>2. /\ SubSeq(both, from, to) \in Seq(Octet)
      /\ Len(SubSeq(both, from, to)) = to - from + 1
      /\ \A k \in 1 .. to - from + 1 : SubSeq(both, from, to)[k] = both[from + k - 1]
  BY <1>1, Slice
<1>3. /\ SubSeq(first, from, to) \in Seq(Octet)
      /\ Len(SubSeq(first, from, to)) = to - from + 1
      /\ \A k \in 1 .. to - from + 1 : SubSeq(first, from, to)[k] = first[from + k - 1]
  BY Slice
<1>4. \A k \in 1 .. to - from + 1 : both[from + k - 1] = first[from + k - 1]
  BY <1>1
<1>5. SubSeq(both, from, to) = SubSeq(first, from, to)
  BY <1>2, <1>3, <1>4, SeqEqual
<1>6. QED
  BY <1>5 DEF both

LEMMA SliceOfSecond ==
  ASSUME NEW first \in Seq(Octet), NEW second \in Seq(Octet)
  PROVE  SubSeq(first \o second, Len(first) + 1, Len(first) + Len(second)) = second
<1> DEFINE both == first \o second  from == Len(first) + 1  to == Len(first) + Len(second)
<1>1. /\ both \in Seq(Octet) /\ from \in Nat \ {0} /\ to \in Nat /\ from <= to + 1
      /\ to <= Len(both) /\ to - from + 1 = Len(second)
      /\ \A k \in 1 .. Len(second) : both[from + k - 1] = second[k]
  OBVIOUS
<1> HIDE DEF both, from, to
<1>2. /\ SubSeq(both, from, to) \in Seq(Octet)
      /\ Len(SubSeq(both, from, to)) = to - from + 1
      /\ \A k \in 1 .. to - from + 1 : SubSeq(both, from, to)[k] = both[from + k - 1]
  BY <1>1, Slice
<1>3. SubSeq(both, from, to) = second
  BY <1>1, <1>2, SeqEqual
<1>4. QED
  BY <1>3 DEF both, from, to

LEMMA WholeIsParts ==
  ASSUME NEW bytes \in Seq(Octet), NEW n \in Nat, n <= Len(bytes)
  PROVE  bytes = SubSeq(bytes, 1, n) \o SubSeq(bytes, n + 1, Len(bytes))
<1> DEFINE l == Len(bytes)  g == n + 1
           front == SubSeq(bytes, 1, n)  back == SubSeq(bytes, g, l)  whole == front \o back
<1>1. /\ l \in Nat /\ g \in Nat \ {0} /\ g <= l + 1 /\ l <= Len(bytes) /\ l - g + 1 = l - n
      /\ n - 1 + 1 = n /\ n <= l
  BY LenProperties
<1>2. /\ front \in Seq(Octet) /\ Len(front) = n
      /\ \A k \in 1 .. n : front[k] = bytes[1 + k - 1]
  <2> HIDE DEF l, g
  <2>1. /\ front \in Seq(Octet) /\ Len(front) = n - 1 + 1
        /\ \A k \in 1 .. n - 1 + 1 : front[k] = bytes[1 + k - 1]
    BY Slice
  <2> HIDE DEF front
  <2>2. QED
    BY <1>1, <2>1
<1>3. /\ back \in Seq(Octet) /\ Len(back) = l - n
      /\ \A k \in 1 .. l - n : back[k] = bytes[g + k - 1]
  <2> HIDE DEF l, g
  <2>1. /\ back \in Seq(Octet) /\ Len(back) = l - g + 1
        /\ \A k \in 1 .. l - g + 1 : back[k] = bytes[g + k - 1]
    BY <1>1, Slice
  <2> HIDE DEF back
  <2>2. QED
    BY <1>1, <2>1
<1> HIDE DEF front, back, l
<1>4. /\ whole \in Seq(Octet) /\ Len(whole) = n + (l - n)
      /\ \A k \in 1 .. n : whole[k] = front[k]
      /\ \A k \in 1 .. l - n : whole[n + k] = back[k]
  <2>1. /\ whole \in Seq(Octet) /\ Len(whole) = Len(front) + Len(back)
        /\ \A k \in 1 .. Len(front) : whole[k] = front[k]
        /\ \A k \in 1 .. Len(back) : whole[Len(front) + k] = back[k]
    BY <1>2, <1>3, FirstPart, SecondPart
  <2> HIDE DEF whole
  <2>2. QED
    BY <1>2, <1>3, <2>1
<1> HIDE DEF whole
<1>5. ASSUME NEW k \in 1 .. l
      PROVE  whole[k] = bytes[k]
  <2>1. CASE k <= n
    <3>1. k \in 1 .. n /\ 1 + k - 1 = k
      BY <1>1, <2>1
    <3>2. QED
      BY <1>2, <1>4, <3>1
  <2>2. CASE ~ (k <= n)
    <3>1. k - n \in 1 .. l - n /\ n + (k - n) = k /\ g + (k - n) - 1 = k
      BY <1>1, <2>2
    <3>2. whole[n + (k - n)] = back[k - n] /\ back[k - n] = bytes[g + (k - n) - 1]
      BY <1>3, <1>4, <3>1
    <3>3. QED
      BY <3>1, <3>2
  <2>3. QED
    BY <2>1, <2>2
<1>6. Len(whole) = l /\ l = Len(bytes)
  BY <1>1, <1>4 DEF l
<1>7. whole = bytes
  BY <1>4, <1>5, <1>6, SeqEqual
<1>8. QED
  BY <1>7 DEF whole, front, back, l

LEMMA SliceOfSlice ==
  ASSUME NEW bytes \in Seq(Octet), NEW n \in Nat, n <= Len(bytes),
         NEW from \in Nat \ {0}, NEW to \in Nat, from <= to + 1, n + to <= Len(bytes)
  PROVE  SubSeq(SubSeq(bytes, n + 1, Len(bytes)), from, to) = SubSeq(bytes, n + from, n + to)
<1> DEFINE rest == SubSeq(bytes, n + 1, Len(bytes))  f == n + from  t == n + to
<1>1. Len(bytes) \in Nat
  BY LenProperties
<1>2. /\ n + 1 \in Nat \ {0} /\ n + 1 <= Len(bytes) + 1
      /\ Len(bytes) - (n + 1) + 1 = Len(bytes) - n
      /\ f \in Nat \ {0} /\ t \in Nat /\ f <= t + 1 /\ t <= Len(bytes)
      /\ t - f + 1 = to - from + 1 /\ to <= Len(bytes) - n
  BY <1>1
<1>3. /\ rest \in Seq(Octet) /\ Len(rest) = Len(bytes) - n
      /\ \A k \in 1 .. Len(bytes) - n : rest[k] = bytes[(n + 1) + k - 1]
  <2> DEFINE g == n + 1  l == Len(bytes)
  <2>1. g \in Nat \ {0} /\ l \in Nat /\ g <= l + 1 /\ l <= Len(bytes) /\ l - g + 1 = l - n
    BY <1>1, <1>2
  <2>2. rest = SubSeq(bytes, g, l)
    OBVIOUS
  <2> HIDE DEF g, l, rest
  <2>3. /\ rest \in Seq(Octet) /\ Len(rest) = l - g + 1
        /\ \A k \in 1 .. l - g + 1 : rest[k] = bytes[g + k - 1]
    BY <2>1, <2>2, Slice
  <2>4. /\ rest \in Seq(Octet) /\ Len(rest) = l - n
        /\ \A k \in 1 .. l - n : rest[k] = bytes[g + k - 1]
    BY <2>1, <2>3
  <2>5. QED
    BY <2>4 DEF g, l
<1> HIDE DEF rest, f, t
<1>4. /\ SubSeq(rest, from, to) \in Seq(Octet)
      /\ Len(SubSeq(rest, from, to)) = to - from + 1
      /\ \A k \in 1 .. to - from + 1 : SubSeq(rest, from, to)[k] = rest[from + k - 1]
  BY <1>2, <1>3, Slice
<1>5. /\ SubSeq(bytes, f, t) \in Seq(Octet)
      /\ Len(SubSeq(bytes, f, t)) = to - from + 1
      /\ \A k \in 1 .. to - from + 1 : SubSeq(bytes, f, t)[k] = bytes[f + k - 1]
  BY <1>2, Slice
<1>6. \A k \in 1 .. to - from + 1 : rest[from + k - 1] = bytes[f + k - 1]
  <2>1. \A k \in 1 .. to - from + 1 :
          from + k - 1 \in 1 .. Len(bytes) - n /\ (n + 1) + (from + k - 1) - 1 = f + k - 1
    BY <1>1, <1>2 DEF f
  <2>2. QED
    BY <1>3, <2>1
<1>7. SubSeq(rest, from, to) = SubSeq(bytes, f, t)
  BY <1>4, <1>5, <1>6, SeqEqual
<1>8. QED
  BY <1>7 DEF rest, f, t

\* A value that is written comes after all the others.
LEMMA WrittenLast ==
  ASSUME NEW bytes \in Seq(Octet), NEW values \in Seq(Values), NEW cut,
         Laid(cut, bytes, values), NEW type, NEW value, <<type, value>> \in Values
  PROVE  \E longer : Laid(longer, bytes \o Encoded(type, value),
                         Append(values, <<type, value>>))
<1> DEFINE e      == Encoded(type, value)
           all    == Append(values, <<type, value>>)
           both   == bytes \o e
           n      == Len(values)
           longer == [i \in 0 .. n + 1 |-> IF i <= n THEN cut[i] ELSE Len(bytes) + Len(e)]
<1>1. e \in Seq(Octet) /\ Len(e) \in Nat
  <2>1. <<>> \in Seq(Octet)
    OBVIOUS
  <2>2. e \in Seq(Octet)
    BY <2>1, ValueIsRead
  <2>3. QED
    BY <2>2, LenProperties
<1>2. /\ n \in Nat /\ Len(bytes) \in Nat /\ Len(all) = n + 1
      /\ all[n + 1] = <<type, value>>
      /\ \A i \in 1 .. n : all[i] = values[i]
  <2> HIDE DEF e
  <2> QED
    OBVIOUS
<1>3. /\ cut \in [0 .. n -> 0 .. Len(bytes)] /\ cut[0] = 0 /\ cut[n] = Len(bytes)
      /\ \A i, j \in 0 .. n : i <= j => cut[i] <= cut[j]
      /\ \A i \in 1 .. n :
           SubSeq(bytes, cut[i - 1] + 1, cut[i]) = Encoded(values[i][1], values[i][2])
  BY DEF Laid, CutUp
<1> HIDE DEF e, all, n
<1>4. both \in Seq(Octet) /\ Len(both) = Len(bytes) + Len(e)
  BY <1>1
<1> HIDE DEF both
<1>5. /\ \A i \in 0 .. n : longer[i] = cut[i] /\ cut[i] \in 0 .. Len(bytes)
      /\ longer[n + 1] = Len(both)
      /\ longer \in [0 .. n + 1 -> 0 .. Len(both)]
  <2>1. \A i \in 0 .. n : longer[i] = cut[i] /\ cut[i] \in 0 .. Len(bytes)
    BY <1>2, <1>3
  <2>2. longer[n + 1] = Len(both)
    BY <1>2, <1>4
  <2>3. longer \in [0 .. n + 1 -> 0 .. Len(both)]
    BY <1>1, <1>2, <1>3, <1>4
  <2>4. QED
    BY <2>1, <2>2, <2>3
<1> HIDE DEF longer
<1>6. longer[0] = 0
  BY <1>2, <1>3, <1>5
<1>7. ASSUME NEW i \in 0 .. n + 1, NEW j \in 0 .. n + 1, i <= j
      PROVE  longer[i] <= longer[j]
  <2>1. CASE j = n + 1
    BY <1>1, <1>2, <1>4, <1>5, <2>1
  <2>2. CASE j # n + 1
    <3>1. i \in 0 .. n /\ j \in 0 .. n
      BY <1>2, <1>7, <2>2
    <3>2. QED
      BY <1>3, <1>5, <1>7, <3>1
  <2>3. QED
    BY <2>1, <2>2
<1>8. ASSUME NEW i \in 1 .. n + 1
      PROVE  SubSeq(both, longer[i - 1] + 1, longer[i]) = Encoded(all[i][1], all[i][2])
  <2>1. CASE i \in 1 .. n
    <3>1. i - 1 \in 0 .. n /\ i \in 0 .. n /\ i - 1 <= i
      BY <1>2, <2>1
    <3>2. longer[i - 1] = cut[i - 1] /\ longer[i] = cut[i]
      BY <1>5, <3>1
    <3>3. /\ cut[i - 1] + 1 \in Nat \ {0} /\ cut[i] \in Nat
          /\ cut[i - 1] + 1 <= cut[i] + 1 /\ cut[i] <= Len(bytes)
      <4>1. cut[i - 1] \in 0 .. Len(bytes) /\ cut[i] \in 0 .. Len(bytes)
        BY <1>5, <3>1
      <4>2. cut[i - 1] <= cut[i]
        BY <1>3, <3>1
      <4>3. QED
        BY <1>2, <4>1, <4>2
    <3>4. SubSeq(both, cut[i - 1] + 1, cut[i]) = SubSeq(bytes, cut[i - 1] + 1, cut[i])
      BY <1>1, <3>3, SliceOfFirst DEF both
    <3>5. QED
      BY <1>2, <1>3, <2>1, <3>2, <3>4
  <2>2. CASE i = n + 1
    <3>1. longer[i - 1] = Len(bytes) /\ longer[i] = Len(bytes) + Len(e)
      BY <1>2, <1>3, <1>4, <1>5, <2>2
    <3>2. SubSeq(both, Len(bytes) + 1, Len(bytes) + Len(e)) = e
      BY <1>1, SliceOfSecond DEF both
    <3>3. all[i][1] = type /\ all[i][2] = value
      BY <1>2, <2>2
    <3>4. QED
      BY <3>1, <3>2, <3>3 DEF e
  <2>3. QED
    BY <1>2, <2>1, <2>2
<1>9. Laid(longer, both, all)
  BY <1>2, <1>5, <1>6, <1>7, <1>8 DEF Laid, CutUp
<1>10. QED
  BY <1>9 DEF both, all, e

\* The first value is read, with its bytes; the others stay as they are.
LEMMA ReadFirst ==
  ASSUME NEW bytes \in Seq(Octet), NEW values \in Seq(Values), NEW cut,
         Laid(cut, bytes, values), values # <<>>
  PROVE  LET type  == Head(values)[1]
             value == Head(values)[2]
             n     == Extracted(type, bytes)
         IN  /\ <<type, value>> \in Values
             /\ Decoded(type, bytes) = value
             /\ SubSeq(bytes, n + 1, Len(bytes)) \in Seq(Octet)
             /\ \E shorter : Laid(shorter, SubSeq(bytes, n + 1, Len(bytes)), Tail(values))
<1> DEFINE type  == Head(values)[1]
           value == Head(values)[2]
           e     == Encoded(type, value)
           n     == Len(e)
           rest  == SubSeq(bytes, n + 1, Len(bytes))
           m     == Len(values)
           others == Tail(values)
           shorter == [i \in 0 .. m - 1 |-> cut[i + 1] - n]
<1>1. /\ m \in Nat \ {0} /\ Len(bytes) \in Nat /\ Head(values) \in Values
      /\ Head(values) = values[1]
      /\ Len(others) = m - 1 /\ \A i \in 1 .. m - 1 : others[i] = values[i + 1]
  BY EmptySeq, LenProperties
<1>2. <<type, value>> = Head(values)
  BY <1>1 DEF Values
<1>3. /\ cut \in [0 .. m -> 0 .. Len(bytes)] /\ cut[0] = 0 /\ cut[m] = Len(bytes)
      /\ \A i, j \in 0 .. m : i <= j => cut[i] <= cut[j]
      /\ \A i \in 1 .. m :
           SubSeq(bytes, cut[i - 1] + 1, cut[i]) = Encoded(values[i][1], values[i][2])
  BY DEF Laid, CutUp
<1>4. e \in Seq(Octet) /\ n \in Nat
  <2>1. <<>> \in Seq(Octet)
    OBVIOUS
  <2>2. e \in Seq(Octet)
    BY <1>1, <1>2, <2>1, ValueIsRead
  <2>3. QED
    BY <2>2, LenProperties
<1>5. SubSeq(bytes, 1, cut[1]) = e /\ cut[1] = n /\ n <= Len(bytes)
  <2>1. /\ 1 \in 1 .. m /\ 1 \in 0 .. m /\ 1 - 1 = 0 /\ 0 + 1 = 1
    BY <1>1
  <2>2. SubSeq(bytes, cut[1 - 1] + 1, cut[1]) = e
    BY <1>1, <1>3, <2>1
  <2>3. SubSeq(bytes, 1, cut[1]) = e
    BY <1>3, <2>1, <2>2
  <2>4. cut[1] \in Nat /\ cut[1] <= Len(bytes)
    BY <1>1, <1>3, <2>1
  <2>5. Len(SubSeq(bytes, 1, cut[1])) = cut[1] - 1 + 1
    BY <2>4, Slice
  <2>6. QED
    BY <2>3, <2>4, <2>5
<1> HIDE DEF type, value, e, n, m, others
<1>6. rest \in Seq(Octet) /\ Len(rest) = Len(bytes) - n
  <2> DEFINE from == n + 1  to == Len(bytes)
  <2>1. /\ from \in Nat \ {0} /\ to \in Nat /\ from <= to + 1 /\ to <= Len(bytes)
        /\ to - from + 1 = Len(bytes) - n
    BY <1>1, <1>4, <1>5
  <2>2. rest = SubSeq(bytes, from, to)
    OBVIOUS
  <2> HIDE DEF rest, from, to
  <2>3. QED
    BY <2>1, <2>2, Slice
<1>7. bytes = e \o rest
  <2>1. bytes = SubSeq(bytes, 1, n) \o SubSeq(bytes, n + 1, Len(bytes))
    BY <1>1, <1>4, <1>5, WholeIsParts
  <2>2. QED
    BY <1>5, <2>1
<1>8. Decoded(type, bytes) = value /\ Extracted(type, bytes) = n
  <2> HIDE DEF rest
  <2>1. Decoded(type, e \o rest) = value /\ Extracted(type, e \o rest) = Len(e)
    BY <1>1, <1>2, <1>6, ValueIsRead DEF e
  <2>2. QED
    BY <1>7, <2>1 DEF n
<1>9. ASSUME NEW i \in 0 .. m - 1
      PROVE  /\ i + 1 \in 0 .. m /\ cut[i + 1] \in Nat
             /\ n <= cut[i + 1] /\ cut[i + 1] <= Len(bytes)
             /\ shorter[i] = cut[i + 1] - n /\ shorter[i] \in 0 .. Len(rest)
  <2>1. 1 \in 0 .. m /\ i + 1 \in 0 .. m /\ 1 <= i + 1
    BY <1>1
  <2>2. cut[i + 1] \in Nat /\ n <= cut[i + 1] /\ cut[i + 1] <= Len(bytes)
    <3>1. cut[i + 1] \in 0 .. Len(bytes) /\ cut[1] <= cut[i + 1]
      BY <1>3, <2>1
    <3>2. QED
      BY <1>1, <1>5, <3>1
  <2>3. shorter[i] = cut[i + 1] - n
    OBVIOUS
  <2> HIDE DEF shorter, rest
  <2>4. shorter[i] \in 0 .. Len(rest)
    BY <1>1, <1>4, <1>6, <2>2, <2>3
  <2>5. QED
    BY <2>1, <2>2, <2>3, <2>4
<1>10. shorter \in [0 .. m - 1 -> 0 .. Len(rest)]
  <2>1. shorter = [i \in 0 .. m - 1 |-> shorter[i]]
    OBVIOUS
  <2> HIDE DEF shorter, rest
  <2>2. QED
    BY <1>9, <2>1
<1>11. shorter[0] = 0 /\ shorter[m - 1] = Len(rest)
  <2>1. 0 \in 0 .. m - 1 /\ m - 1 \in 0 .. m - 1 /\ 0 + 1 = 1 /\ (m - 1) + 1 = m
    BY <1>1
  <2>2. shorter[0] = cut[1] - n /\ shorter[m - 1] = cut[m] - n
    BY <1>9, <2>1
  <2> HIDE DEF shorter, rest
  <2>3. QED
    BY <1>3, <1>4, <1>5, <1>6, <2>2
<1>12. ASSUME NEW i \in 0 .. m - 1, NEW j \in 0 .. m - 1, i <= j
       PROVE  shorter[i] <= shorter[j]
  <2> HIDE DEF shorter, rest
  <2>1. i + 1 \in 0 .. m /\ j + 1 \in 0 .. m /\ i + 1 <= j + 1
    BY <1>9, <1>12
  <2>2. cut[i + 1] <= cut[j + 1]
    BY <1>3, <2>1
  <2>3. QED
    BY <1>4, <1>9, <2>2
<1>13. ASSUME NEW i \in 1 .. m - 1
       PROVE  SubSeq(rest, shorter[i - 1] + 1, shorter[i])
                = Encoded(others[i][1], others[i][2])
  <2>1. /\ i - 1 \in 0 .. m - 1 /\ i \in 0 .. m - 1 /\ i - 1 <= i
        /\ (i - 1) + 1 = i /\ i + 1 \in 1 .. m /\ (i + 1) - 1 = i
    BY <1>1
  <2>2. shorter[i - 1] = cut[i] - n /\ shorter[i] = cut[i + 1] - n
    BY <1>9, <2>1
  <2>3. shorter[i - 1] \in Nat /\ shorter[i] \in Nat /\ shorter[i - 1] <= shorter[i]
    BY <1>9, <1>12, <2>1
  <2>4. /\ cut[i] \in Nat /\ cut[i + 1] \in Nat /\ cut[i + 1] <= Len(bytes)
    BY <1>9, <2>1
  <2> DEFINE from == shorter[i - 1] + 1  to == shorter[i]
  <2>5. /\ from \in Nat \ {0} /\ to \in Nat /\ from <= to + 1 /\ n + to <= Len(bytes)
        /\ n + from = cut[i] + 1 /\ n + to = cut[i + 1]
    <3>1. from = cut[i] - n + 1 /\ to = cut[i + 1] - n
      BY <2>2
    <3>2. from \in Nat \ {0} /\ to \in Nat /\ from <= to + 1
      <4> HIDE DEF shorter
      <4> QED
        BY <2>3
    <3> HIDE DEF from, to, shorter
    <3>3. n + from = cut[i] + 1 /\ n + to = cut[i + 1]
      <4>1. \A a, b \in Nat : b + ((a - b) + 1) = a + 1 /\ b + (a - b) = a
        OBVIOUS
      <4>2. n + ((cut[i] - n) + 1) = cut[i] + 1 /\ n + (cut[i + 1] - n) = cut[i + 1]
        BY <1>4, <2>4, <4>1
      <4>3. QED
        BY <3>1, <4>2
    <3>4. n + to <= Len(bytes)
      BY <2>4, <3>3
    <3>5. QED
      BY <3>2, <3>3, <3>4
  <2> HIDE DEF from, to
  <2>6. SubSeq(rest, from, to) = SubSeq(bytes, n + from, n + to)
    BY <1>4, <1>5, <2>5, SliceOfSlice
  <2>7. SubSeq(bytes, cut[i] + 1, cut[i + 1])
          = Encoded(values[i + 1][1], values[i + 1][2])
    BY <1>3, <2>1
  <2>8. SubSeq(rest, from, to) = Encoded(others[i][1], others[i][2])
    <3> HIDE DEF rest, shorter
    <3> QED
      BY <1>1, <2>5, <2>6, <2>7
  <2>9. QED
    BY <2>8 DEF from, to
<1>14. Laid(shorter, rest, others)
  <2> HIDE DEF shorter, rest
  <2> QED
    BY <1>1, <1>10, <1>11, <1>12, <1>13 DEF Laid, CutUp, others
<1>15. QED
  <2> HIDE DEF shorter
  <2>1. rest = SubSeq(bytes, Extracted(type, bytes) + 1, Len(bytes))
    BY <1>8
  <2>2. QED
    BY <1>1, <1>2, <1>6, <1>8, <1>14, <2>1 DEF type, value, others

----------------------------------------------------------------------------
(* The header has the type and the flags the constructor was given. *)

LEMMA HeaderMade ==
  ASSUME NEW type \in DOMAIN Types, NEW flags \in {{}, Reliable}
  PROVE  /\ SetFlags(Types[type], flags) \in Headers
         /\ GetType(SetFlags(Types[type], flags)) = Types[type]
         /\ GetFlags(SetFlags(Types[type], flags)) = flags
<1> DEFINE header == SetFlags(Types[type], flags)
<1>1. Types[type] \in {{}, {0}, {1}}
  BY DEF Types
<1>2. \A bit \in Types[type] : bit \in Nat /\ bit < 4
  BY <1>1
<1>3. CASE flags = {}
  <2>1. Shifted(flags) = {}
    BY <1>3 DEF Shifted
  <2>2. header = Types[type] /\ header = Types[type] \cup {}
    BY <2>1 DEF SetFlags
  <2>3. GetType(header) = Types[type]
    BY <1>2, <2>2 DEF GetType, FlagsOffset
  <2>4. \A bit \in header : ~ (bit >= FlagsOffset)
    BY <1>2, <2>2 DEF FlagsOffset
  <2>5. GetFlags(header) = {}
    BY <2>4 DEF GetFlags
  <2>6. QED
    BY <1>3, <2>2, <2>3, <2>5 DEF Headers
<1>4. CASE flags = Reliable
  <2>1. Shifted(flags) = {4}
    BY <1>4 DEF Shifted, Reliable, FlagsOffset
  <2>2. header = Types[type] \cup {4}
    BY <2>1 DEF SetFlags
  <2>3. GetType(header) = Types[type]
    BY <1>2, <2>2 DEF GetType, FlagsOffset
  <2>4. {bit \in header : bit >= FlagsOffset} = {4}
    BY <1>2, <2>2 DEF FlagsOffset
  <2>5. GetFlags(header) = {0}
    BY <2>4 DEF GetFlags, FlagsOffset
  <2>6. QED
    BY <1>4, <2>2, <2>3, <2>5 DEF Headers, Reliable
<1>5. QED
  BY <1>3, <1>4

----------------------------------------------------------------------------
(* The theorems. *)

WireInv == WireTypeOK /\ BytesMatch /\ ReadsBack /\ HeaderAsAsked

LEMMA WireInvInit == Init => WireInv
<1> SUFFICES ASSUME Init
             PROVE  WireInv
  OBVIOUS
<1>1. packet \in Packets
  <2>1. {} \in Headers
    BY DEF Headers, Types
  <2>2. QED
    BY <2>1 DEF Init, Packets
<1>2. payload = <<>> /\ payload \in Seq(Octet) /\ Len(payload) = 0
  BY DEF Init
<1>3. unread = <<>> /\ unread \in Seq(Values) /\ Len(unread) = 0
  BY DEF Init
<1>4. Laid([i \in 0 .. 0 |-> 0], payload, unread)
  BY <1>2, <1>3 DEF Laid, CutUp
<1>5. BytesMatch
  <2>1. MatchOf(payload, unread)
    BY <1>2, <1>3, <1>4, MatchIsLaid
  <2>2. QED
    BY <2>1 DEF MatchOf, EndsOf, BytesMatch
<1>6. HeaderAsAsked
  BY DEF Init, HeaderAsAsked, GetType, GetFlags
<1>7. QED
  BY <1>1, <1>2, <1>3, <1>5, <1>6 DEF Init, WireInv, WireTypeOK, ReadsBack

\* What every step has to leave as it is, or to show anew.
LEMMA PacketStep ==
  ASSUME WireInv,
         \/ \E type \in DOMAIN Types, flags \in {{}, Reliable}, text \in Texts :
              Construct(type, flags, text)
         \/ \E id \in Ids, ackId \in Ids, acks \in Bitsets : Fill(id, ackId, acks)
  PROVE  WireInv'
<1>1. packet \in Packets /\ HeaderAsAsked
  BY DEF WireInv, WireTypeOK
<1>2. packet' \in Packets /\ HeaderAsAsked' /\ UNCHANGED <<payload, unread, intact>>
  <2>1. ASSUME NEW type \in DOMAIN Types, NEW flags \in {{}, Reliable}, NEW text \in Texts,
               Construct(type, flags, text)
        PROVE  packet' \in Packets /\ HeaderAsAsked' /\ UNCHANGED <<payload, unread, intact>>
    <3>1. packet' \in Packets /\ UNCHANGED <<payload, unread, intact>>
      BY <2>1, HeaderMade DEF Construct, Packets
    <3>2. /\ packet'.header = SetFlags(Types[type], flags)
          /\ asked'.type = Types[type] /\ asked'.flags = flags
      BY <2>1 DEF Construct
    <3>3. HeaderAsAsked'
      BY <3>2, HeaderMade DEF HeaderAsAsked
    <3>4. QED
      BY <3>1, <3>3
  <2>2. ASSUME NEW id \in Ids, NEW ackId \in Ids, NEW acks \in Bitsets,
               Fill(id, ackId, acks)
        PROVE  packet' \in Packets /\ HeaderAsAsked' /\ UNCHANGED <<payload, unread, intact>>
    <3>1. /\ packet' \in Packets /\ packet'.header = packet.header
          /\ UNCHANGED <<asked, payload, unread, intact>>
      BY <1>1, <2>2 DEF Fill, Packets
    <3>2. HeaderAsAsked'
      BY <1>1, <3>1 DEF HeaderAsAsked
    <3>3. QED
      BY <3>1, <3>2
  <2>3. QED
    BY <2>1, <2>2
<1>3. WireTypeOK' /\ ReadsBack'
  BY <1>2 DEF WireInv, WireTypeOK, ReadsBack
<1>4. BytesMatch'
  BY <1>2 DEF WireInv, BytesMatch
<1>5. QED
  BY <1>2, <1>3, <1>4 DEF WireInv

LEMMA WriteStep ==
  ASSUME WireInv, NEW type, NEW value, <<type, value>> \in Values, Write(type, value)
  PROVE  WireInv'
<1>1. /\ packet \in Packets /\ payload \in Seq(Octet) /\ unread \in Seq(Values)
      /\ intact \in BOOLEAN /\ BytesMatch
  BY DEF WireInv, WireTypeOK
<1>2. /\ payload' = payload \o Encoded(type, value)
      /\ unread' = Append(unread, <<type, value>>)
      /\ UNCHANGED <<packet, asked, intact>>
  BY DEF Write
<1>3. Encoded(type, value) \in Seq(Octet)
  <2>1. <<>> \in Seq(Octet)
    OBVIOUS
  <2>2. QED
    BY <2>1, ValueIsRead
<1>4. payload' \in Seq(Octet) /\ unread' \in Seq(Values)
  BY <1>1, <1>2, <1>3
<1>5. BytesMatch'
  <2>1. MatchOf(payload, unread)
    BY <1>1 DEF MatchOf, EndsOf, BytesMatch
  <2>2. PICK cut : Laid(cut, payload, unread)
    BY <1>1, <2>1, MatchIsLaid
  <2>3. \E longer : Laid(longer, payload', unread')
    BY <1>1, <1>2, <2>2, WrittenLast
  <2>4. MatchOf(payload', unread')
    BY <1>4, <2>3, MatchIsLaid
  <2>5. QED
    BY <2>4 DEF MatchOf, EndsOf, BytesMatch
<1>6. HeaderAsAsked'
  BY <1>2 DEF WireInv, HeaderAsAsked
<1>7. QED
  BY <1>1, <1>2, <1>4, <1>5, <1>6 DEF WireInv, WireTypeOK, ReadsBack

LEMMA ReadStep ==
  ASSUME WireInv, Read
  PROVE  WireInv'
<1>1. /\ packet \in Packets /\ payload \in Seq(Octet) /\ unread \in Seq(Values)
      /\ intact = TRUE /\ BytesMatch
  BY DEF WireInv, WireTypeOK, ReadsBack
<1> DEFINE type  == Head(unread)[1]
           value == Head(unread)[2]
           n     == Extracted(type, payload)
<1>2. /\ unread # <<>>
      /\ intact' = (intact /\ Decoded(type, payload) = value)
      /\ payload' = SubSeq(payload, n + 1, Len(payload))
      /\ unread' = Tail(unread)
      /\ UNCHANGED <<packet, asked>>
  BY DEF Read
<1>3. MatchOf(payload, unread)
  BY <1>1 DEF MatchOf, EndsOf, BytesMatch
<1>4. PICK cut : Laid(cut, payload, unread)
  BY <1>1, <1>3, MatchIsLaid
<1>5. /\ Decoded(type, payload) = value
      /\ payload' \in Seq(Octet)
      /\ \E shorter : Laid(shorter, payload', unread')
  BY <1>1, <1>2, <1>4, ReadFirst
<1>6. unread' \in Seq(Values)
  BY <1>1, <1>2
<1>7. BytesMatch'
  <2>1. MatchOf(payload', unread')
    BY <1>5, <1>6, MatchIsLaid
  <2>2. QED
    BY <2>1 DEF MatchOf, EndsOf, BytesMatch
<1>8. intact' = TRUE
  BY <1>1, <1>2, <1>5
<1>9. HeaderAsAsked' /\ packet' \in Packets
  BY <1>1, <1>2 DEF WireInv, HeaderAsAsked
<1>10. QED
  BY <1>5, <1>6, <1>7, <1>8, <1>9 DEF WireInv, WireTypeOK, ReadsBack

LEMMA WireInvStep == WireInv /\ [Next]_vars => WireInv'
<1> SUFFICES ASSUME WireInv, [Next]_vars
             PROVE  WireInv'
  OBVIOUS
<1>1. packet \in Packets
  BY DEF WireInv, WireTypeOK
<1>2. CASE Write("Packet", packet)
  BY <1>1, <1>2, WriteStep DEF Values
<1>3. ASSUME NEW text \in Texts, Write("string", text)
      PROVE  WireInv'
  BY <1>3, WriteStep DEF Values
<1>4. ASSUME NEW id \in Ids, Write("int32", id)
      PROVE  WireInv'
  BY <1>4, WriteStep DEF Values
<1>5. CASE UNCHANGED vars
  BY <1>5 DEF vars, WireInv, WireTypeOK, BytesMatch, ReadsBack, HeaderAsAsked
<1>6. QED
  BY <1>2, <1>3, <1>4, <1>5, PacketStep, ReadStep DEF Next

\* All of the below at once, and the type of the packet, of the bytes of the
\* buffer (Buffer.h:23) and of what is left to read.
THEOREM WireTypeCorrect == Spec => []WireTypeOK
<1>1. WireInv => WireTypeOK
  BY DEF WireInv
<1>2. QED
  BY <1>1, WireInvInit, WireInvStep, PTL DEF Spec

\* Every integer, string and packet is read from a buffer as it was written to
\* it, whatever their contents and the order of writes and reads, as long as the
\* length of a string is not negative as an int32_t (Buffer.cpp).
THEOREM ReadsWhatWasWritten == Spec => []ReadsBack
<1>1. WireInv => ReadsBack
  BY DEF WireInv
<1>2. QED
  BY <1>1, WireInvInit, WireInvStep, PTL DEF Spec

\* The payload always is the bytes of the values left, one after the other, so
\* that no read takes another value's bytes or asks for bytes that are not there
\* (Buffer.cpp:47-55).
THEOREM BytesAlwaysMatch == Spec => []BytesMatch
<1>1. WireInv => BytesMatch
  BY DEF WireInv
<1>2. QED
  BY <1>1, WireInvInit, WireInvStep, PTL DEF Spec

\* The header of a packet keeps the type and the flags that the constructor was
\* given apart (Packet.cpp:27-62).
THEOREM HeadersAsAsked == Spec => []HeaderAsAsked
<1>1. WireInv => HeaderAsAsked
  BY DEF WireInv
<1>2. QED
  BY <1>1, WireInvInit, WireInvStep, PTL DEF Spec
=============================================================================
