------------------------------- MODULE Wire -------------------------------
(***************************************************************************)
(* What goes over the wire: the header byte of a packet (Packet.cpp) and   *)
(* the buffer that values are written to at one end and read from at the   *)
(* other (Buffer.cpp, Buffer.h).  A byte of the header is the set of its   *)
(* bits that are on; a buffer is a sequence of bytes.                      *)
(***************************************************************************)
EXTENDS Integers, Sequences

CONSTANTS
  Ids,       \* values that ids and ack ids take
  Bitsets,   \* values that ack bitsets take
  Texts,     \* contents of strings and payloads, as sequences of bytes
  MaxUnread  \* bound: values written and not yet read

Octet == 0 .. 255

\* Fits in four bytes (TLC's integers do not).
FitsWord(n) == n \div 65536 < 65536

\* Is not negative as an int32_t.
FitsSigned(n) == n \div 65536 < 32768

ASSUME WireAssumption ==
  /\ Ids \subseteq Nat /\ \A id \in Ids : id < 65536
  /\ Bitsets \subseteq Nat /\ \A acks \in Bitsets : FitsWord(acks)
  /\ Texts \subseteq Seq(Octet) /\ \A text \in Texts : FitsSigned(Len(text))
  /\ MaxUnread \in Nat

VARIABLES
  packet,   \* the packet that is being made
  asked,    \* history: the type and flags it should have
  payload,  \* the bytes of the buffer
  unread,   \* history: the values written and not yet read, with their types
  intact    \* history: every value was read as it had been written

vars == <<packet, asked, payload, unread, intact>>

----------------------------------------------------------------------------
(* The header: type in bits 0 to 3, flags in bits 4 to 7. *)

FlagsOffset == 4

Types == [Connect |-> {}, Data |-> {0}, Ping |-> {1}]

Reliable == {0}

Shifted(flags) == {bit + FlagsOffset : bit \in flags}

GetType(header) == {bit \in header : bit < FlagsOffset}

GetFlags(header) == {bit - FlagsOffset : bit \in {b \in header : b >= FlagsOffset}}

HasFlags(header, flags) == header \cap Shifted(flags) # {}

\* Slip: the flags are not shifted.
SetFlagsSlip(header, flags) == header \cup flags

\* Flags are set by the constructor; no caller clears one.
SetFlags(header, flags) == header \cup Shifted(flags)

\* What a bit counts in a byte, and a byte in an integer.
BitWeight(n) == <<1, 2, 4, 8, 16, 32, 64, 128>>[n + 1]
ByteWeight(n) == <<1, 256, 65536, 16777216>>[n]

Bits(byte) == {n \in 0 .. 7 : (byte \div BitWeight(n)) % 2 = 1}

Byte(bits) == LET On(n) == IF n \in bits THEN BitWeight(n) ELSE 0
              IN  On(0) + On(1) + On(2) + On(3) + On(4) + On(5) + On(6) + On(7)

----------------------------------------------------------------------------
(* Bytes.  Read takes what it returns from the front of the payload. *)

\* WriteBytes of an unsigned integer of up to four bytes, on a little-endian
\* machine.
Bytes(value, size) == [n \in 1 .. size |-> (value \div ByteWeight(n)) % 256]

Value(bytes) == LET Part(n) == IF n \in DOMAIN bytes THEN bytes[n] * ByteWeight(n) ELSE 0
                IN  Part(1) + Part(2) + Part(3) + Part(4)

\* Write of a string, of a string_view and of a Buffer.
LengthAndBytes(text) == Bytes(Len(text), 4) \o text

\* Slip: id and ackId change places.
WritePacketSlip(p) ==
  Bytes(Byte(p.header), 1) \o Bytes(p.ackId, 2) \o Bytes(p.id, 2)
    \o Bytes(p.acks, 4) \o LengthAndBytes(p.payload)

WritePacket(p) ==
  Bytes(Byte(p.header), 1) \o Bytes(p.id, 2) \o Bytes(p.ackId, 2)
    \o Bytes(p.acks, 4) \o LengthAndBytes(p.payload)

Encoded(type, value) == CASE type = "int32"  -> Bytes(value, 4)
                          [] type = "string" -> LengthAndBytes(value)
                          [] type = "Packet" -> WritePacket(value)

\* The n bytes from position i on: Read of a trivial type.
Field(bytes, i, n) == Value(SubSeq(bytes, i, i + n - 1))

\* The length of a text is an int32_t: nothing is read of one that is negative.
Length(bytes, i) == LET n == Field(bytes, i, 4) IN IF FitsSigned(n) THEN n ELSE 0

TextAt(bytes, i) == SubSeq(bytes, i + 4, i + 3 + Length(bytes, i))

ReadPacket(bytes) ==
  [header  |-> Bits(Field(bytes, 1, 1)),
   id      |-> Field(bytes, 2, 2),
   ackId   |-> Field(bytes, 4, 2),
   acks    |-> Field(bytes, 6, 4),
   payload |-> TextAt(bytes, 10)]

Decoded(type, bytes) == CASE type = "int32"  -> Field(bytes, 1, 4)
                          [] type = "string" -> TextAt(bytes, 1)
                          [] type = "Packet" -> ReadPacket(bytes)

\* Slip: the length of a string is read and stays in the payload.
ExtractedSlip(type, bytes) == CASE type = "int32"  -> 4
                                [] type = "string" -> Length(bytes, 1)
                                [] type = "Packet" -> 13 + Length(bytes, 10)

\* How many bytes Read takes out of the payload.
Extracted(type, bytes) == CASE type = "int32"  -> 4
                            [] type = "string" -> 4 + Length(bytes, 1)
                            [] type = "Packet" -> 13 + Length(bytes, 10)

----------------------------------------------------------------------------

Init ==
  /\ packet = [header |-> {}, id |-> 0, ackId |-> 0, acks |-> 0, payload |-> <<>>]
  /\ asked = [type |-> {}, flags |-> {}]
  /\ payload = <<>> /\ unread = <<>>
  /\ intact = TRUE

\* The constructor of Packet.
Construct(type, flags, text) ==
  /\ packet' = [header |-> SetFlags(Types[type], flags),
                id |-> 0, ackId |-> 0, acks |-> 0, payload |-> text]
  /\ asked' = [type |-> Types[type], flags |-> flags]
  /\ UNCHANGED <<payload, unread, intact>>

\* Schedule gives the packet its id, if it is reliable, and AddAckHeader the rest.
Fill(id, ackId, acks) ==
  /\ packet' = [packet EXCEPT
                 !.id = IF HasFlags(packet.header, Reliable) THEN id ELSE 0,
                 !.ackId = ackId, !.acks = acks]
  /\ UNCHANGED <<asked, payload, unread, intact>>

Write(type, value) ==
  /\ Len(unread) < MaxUnread
  /\ payload' = payload \o Encoded(type, value)
  /\ unread'  = Append(unread, <<type, value>>)
  /\ UNCHANGED <<packet, asked, intact>>

\* Its reader knows the type of what comes next.
Read ==
  /\ unread # <<>>
  /\ LET type  == Head(unread)[1]
         value == Head(unread)[2]
         n     == Extracted(type, payload)
     IN  /\ intact'  = (intact /\ Decoded(type, payload) = value)
         /\ payload' = SubSeq(payload, n + 1, Len(payload))
         /\ unread'  = Tail(unread)
  /\ UNCHANGED <<packet, asked>>

Next ==
  \/ \E type \in DOMAIN Types, flags \in {{}, Reliable}, text \in Texts :
       Construct(type, flags, text)
  \/ \E id \in Ids, ackId \in Ids, acks \in Bitsets : Fill(id, ackId, acks)
  \/ Write("Packet", packet)
  \/ \E text \in Texts : Write("string", text)
  \/ \E id \in Ids : Write("int32", id)
  \/ Read

Spec == Init /\ [][Next]_vars

----------------------------------------------------------------------------
(* Properties. *)

Headers == {Types[type] \cup flags : type \in DOMAIN Types, flags \in {{}, {4}}}

Packets == [header  : Headers,
            id      : Ids \cup {0},
            ackId   : Ids \cup {0},
            acks    : Bitsets \cup {0},
            payload : Texts \cup {<<>>}]

Values == ({"int32"} \X Ids) \cup ({"string"} \X Texts) \cup ({"Packet"} \X Packets)

WireTypeOK ==
  /\ packet \in Packets
  /\ payload \in Seq(Octet)
  /\ unread \in Seq(Values)
  /\ intact \in BOOLEAN

\* Whatever is written between the reads, each value comes out as it went in,
\* and in the same order (BufferSerializationTests.cpp).
ReadsBack == intact

\* The bytes are those of the values, one value after the other, cut as given.
CutUp(cut, bytes, values) ==
  /\ cut[0] = 0 /\ cut[Len(values)] = Len(bytes)
  /\ \A i, j \in 0 .. Len(values) : i <= j => cut[i] <= cut[j]
  /\ \A i \in 1 .. Len(values) :
       SubSeq(bytes, cut[i - 1] + 1, cut[i]) = Encoded(values[i][1], values[i][2])

\* The bytes left are those of the values left: none is read twice or left over,
\* and the assertion of ExtractBytesFromPayload (Buffer.cpp:52) holds.
BytesMatch ==
  \E ends \in [1 .. Len(unread) - 1 -> 0 .. Len(payload)] :
    CutUp([i \in 0 .. Len(unread) |-> IF i = 0 THEN 0
                                     ELSE IF i = Len(unread) THEN Len(payload)
                                     ELSE ends[i]],
          payload, unread)

\* "ASSERT_EQ(type, packet.GetType()); ASSERT_EQ(packet.GetFlags(), flags)"
\* (PacketTests.cpp:10-11).
HeaderAsAsked ==
  /\ GetType(packet.header) = asked.type
  /\ GetFlags(packet.header) = asked.flags
==========================================================================
