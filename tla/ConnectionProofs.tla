------------------------- MODULE ConnectionProofs -------------------------
(***************************************************************************)
(* Type correctness of Connection, and the facts about packet ids and      *)
(* sequences its proofs rest on.                                           *)
(***************************************************************************)
EXTENDS ConnectionProperties, SequenceTheorems, TLAPS

----------------------------------------------------------------------------
(* Sequences. *)

\* A function over 1 .. n is a sequence of length n.
LEMMA FunctionIsSeq ==
  ASSUME NEW S, NEW n \in Nat, NEW f \in [1 .. n -> S]
  PROVE  f \in Seq(S) /\ Len(f) = n
<1>1. f \in Seq(S)
  BY SeqDef
<1>2. Len(f) \in Nat /\ DOMAIN f = 1 .. Len(f) /\ DOMAIN f = 1 .. n
  BY <1>1, LenProperties
<1>3. QED
  BY <1>1, <1>2, SMT

\* The elements of a sequence one element is appended to.
LEMMA AppendElements ==
  ASSUME NEW S, NEW s \in Seq(S), NEW e
  PROVE  /\ DOMAIN Append(s, e) = 1 .. Len(s) + 1
         /\ Len(s) \in Nat /\ DOMAIN s = 1 .. Len(s)
         /\ Append(s, e)[Len(s) + 1] = e
         /\ \A i \in DOMAIN s : Append(s, e)[i] = s[i]
OBVIOUS

\* The elements of a sequence its first element is taken from.
LEMMA PopElements ==
  ASSUME NEW S, NEW s \in Seq(S), s # <<>>
  PROVE  /\ Len(s) \in Nat \ {0} /\ DOMAIN s = 1 .. Len(s) /\ Head(s) = s[1]
         /\ DOMAIN Tail(s) = 1 .. Len(s) - 1
         /\ \A i \in 1 .. Len(s) - 1 : Tail(s)[i] = s[i + 1]
<1>1. Len(s) \in Nat \ {0} /\ DOMAIN s = 1 .. Len(s) /\ Head(s) = s[1]
  BY EmptySeq, LenProperties
<1>2. /\ Tail(s) \in Seq(S) /\ Len(Tail(s)) = Len(s) - 1
      /\ \A i \in 1 .. Len(Tail(s)) : Tail(s)[i] = s[i + 1]
  BY HeadTailProperties
<1>3. QED
  BY <1>1, <1>2, LenProperties

----------------------------------------------------------------------------
(* Packet ids. *)

\* The arithmetic of ids stays among the ids: NextId and IdAfter never give
\* InvalidId (GetIndexForNextPacket, EnqueueProcessablePackets).
LEMMA IdArithmetic ==
  ASSUME NEW id \in Id
  PROVE  /\ NextId(id) \in ValidId
         /\ \A n \in 1 .. MaxPossibleId : IdAfter(id, n) \in ValidId
         /\ \A n \in 0 .. MaxPossibleId : IdAfter(id, n) \in Id
         /\ \A n \in Id : Minus(id, n) \in Id
BY MaxPossibleIdAssumption, SMT DEF Id, ValidId, NextId, IdAfter, Minus

----------------------------------------------------------------------------
(* Types. *)

\* What AddAckHeader puts in front of a packet is a datagram.
LEMMA AddAckHeaderType ==
  ASSUME TypeOK, NEW h \in Host, NEW p \in Packet
  PROVE  AddAckHeader(h, p) \in Datagram
BY DEF TypeOK, AddAckHeader, Packet, Datagram

\* ProcessAcks keeps the types of what it changes.
LEMMA ProcessAcksType ==
  ASSUME TypeOK, NEW h \in Host, NEW d \in Datagram, ProcessAcks(h, d)
  PROVE  /\ outReliable' \in [Host -> [Id -> Nat]]
         /\ outReady' \in [Host -> Seq(Packet)]
<1>1. \A n \in 1 .. AckCount : Resend(h, d, n) \in Seq(Packet)
  <2> SUFFICES ASSUME NEW n \in 1 .. AckCount
               PROVE  Resend(h, d, n) \in Seq(Packet)
    OBVIOUS
  <2> DEFINE id == Minus(d.ackId, n)
  <2>1. id \in Id
    <3>1. d.ackId \in Id
      BY DEF Datagram
    <3>2. n \in Id
      BY ConnectionAssumption, MaxPossibleIdAssumption DEF AckCount, Id
    <3>3. QED
      BY <3>1, <3>2, IdArithmetic
  <2>2. [reliable |-> TRUE, id |-> id, msg |-> outReliable[h][id]] \in Packet
    BY <2>1 DEF TypeOK, Packet
  <2>3. QED
    BY <2>2 DEF Resend
<1>2. outReady' \in [Host -> Seq(Packet)]
  BY <1>1, SMT DEF TypeOK, ProcessAcks, AckCount
<1>3. outReliable' \in [Host -> [Id -> Nat]]
  BY DEF TypeOK, ProcessAcks, Absent
<1>4. QED
  BY <1>2, <1>3

\* The packets the loop of EnqueueProcessablePackets releases are messages.
LEMMA ReleasedType ==
  ASSUME NEW seq \in Id, NEW stored \in [Id -> Nat], NEW n \in 0 .. MaxPossibleId
  PROVE  /\ [i \in 1 .. n |-> stored[IdAfter(seq, i)]] \in Seq(Nat)
         /\ Len([i \in 1 .. n |-> stored[IdAfter(seq, i)]]) = n
<1>1. n \in Nat
  BY MaxPossibleIdAssumption
<1>2. \A i \in 1 .. n : IdAfter(seq, i) \in Id
  BY IdArithmetic, MaxPossibleIdAssumption
<1>3. [i \in 1 .. n |-> stored[IdAfter(seq, i)]] \in [1 .. n -> Nat]
  BY <1>2
<1>4. QED
  BY <1>1, <1>3, FunctionIsSeq

\* StoreAndEnqueue keeps the types of what it changes.
LEMMA StoreAndEnqueueType ==
  ASSUME TypeOK, NEW h \in Host, NEW d \in Datagram, StoreAndEnqueue(h, d)
  PROVE  /\ inReliable' \in [Host -> [Id -> Nat]]
         /\ inReady' \in [Host -> Seq(Nat)]
         /\ inSeq' \in [Host -> Id]
         /\ ackId' \in [Host -> Id]
<1> DEFINE latest == UpdatedAckId(h, d.id)
           stored == [inReliable[h] EXCEPT ![d.id] = d.msg]
<1>1. latest \in Id /\ stored \in [Id -> Nat] /\ inSeq[h] \in Id
  BY DEF TypeOK, Datagram, UpdatedAckId
<1>2. PICK n \in 0 .. MaxPossibleId :
        /\ inSeq'   = [inSeq EXCEPT ![h] = IdAfter(@, n)]
        /\ inReady' = [inReady EXCEPT ![h] =
             @ \o [i \in 1 .. n |-> stored[IdAfter(inSeq[h], i)]]]
  BY DEF StoreAndEnqueue
<1>3. inSeq' \in [Host -> Id]
  BY <1>1, <1>2, IdArithmetic DEF TypeOK
<1>4. inReady' \in [Host -> Seq(Nat)]
  <2> DEFINE released == [i \in 1 .. n |-> stored[IdAfter(inSeq[h], i)]]
  <2>1. released \in Seq(Nat)
    BY <1>1, ReleasedType
  <2>2. inReady' = [inReady EXCEPT ![h] = @ \o released]
    BY <1>2
  <2> HIDE DEF released
  <2>3. QED
    BY <2>1, <2>2 DEF TypeOK
<1>5. QED
  BY <1>1, <1>3, <1>4 DEF StoreAndEnqueue, TypeOK

\* Every step keeps the types.
LEMMA TypeStep ==
  ASSUME TypeOK, [Next]_vars
  PROVE  TypeOK'
<1>1. CASE UNCHANGED vars
  BY <1>1 DEF TypeOK, vars, outVars, inVars
<1>2. CASE Next
  <2> SUFFICES ASSUME NEW h \in Host, HostStep(h)
               PROVE  TypeOK'
    BY <1>2 DEF Next
  <2>1. CASE ScheduleReliable(h)
    <3> DEFINE p == [reliable |-> TRUE, id |-> NextId(outSeq[h]),
                     msg |-> scheduled[h] + 1]
    <3>1. NextId(outSeq[h]) \in Id
      BY IdArithmetic, SMTT(30) DEF TypeOK, Id, ValidId
    <3>2. p \in Packet
      BY <3>1 DEF TypeOK, Packet
    <3>3. outReady' = [outReady EXCEPT ![h] = Append(@, p)]
      BY <2>1 DEF ScheduleReliable
    <3>4. outReady' \in [Host -> Seq(Packet)]
      BY <3>2, <3>3 DEF TypeOK
    <3>5. /\ scheduled' \in [Host -> Nat]
          /\ outSeq' \in [Host -> Id]
      <4>1. scheduled[h] + 1 \in Nat
        BY DEF TypeOK
      <4>2. /\ scheduled' = [scheduled EXCEPT ![h] = scheduled[h] + 1]
            /\ outSeq' = [outSeq EXCEPT ![h] = NextId(outSeq[h])]
        BY <2>1 DEF ScheduleReliable
      <4>3. QED
        BY <3>1, <4>1, <4>2 DEF TypeOK
    <3>6. outReliable' \in [Host -> [Id -> Nat]]
      <4>1. scheduled[h] + 1 \in Nat
        BY DEF TypeOK
      <4>2. [outReliable[h] EXCEPT ![NextId(outSeq[h])] = scheduled[h] + 1]
              \in [Id -> Nat]
        BY <4>1 DEF TypeOK
      <4>3. outReliable' = [outReliable EXCEPT ![h] =
              [outReliable[h] EXCEPT ![NextId(outSeq[h])] = scheduled[h] + 1]]
        BY <2>1 DEF ScheduleReliable
      <4>4. QED
        BY <4>2, <4>3 DEF TypeOK
    <3>7. QED
      BY <2>1, <3>4, <3>5, <3>6 DEF ScheduleReliable, TypeOK, inVars
  <2>2. CASE ScheduleUnreliable(h)
    <3> DEFINE p == [reliable |-> FALSE, id |-> InvalidId, msg |-> Unsequenced]
    <3>1. p \in Packet
      BY MaxPossibleIdAssumption DEF Packet, Id, InvalidId, Unsequenced
    <3>2. outReady' = [outReady EXCEPT ![h] = Append(@, p)]
      BY <2>2 DEF ScheduleUnreliable
    <3>3. outReady' \in [Host -> Seq(Packet)]
      BY <3>1, <3>2 DEF TypeOK
    <3>4. QED
      BY <2>2, <3>3 DEF ScheduleUnreliable, TypeOK, inVars
  <2>3. CASE PopReadyOutgoingPacket(h)
    <3>1. Head(outReady[h]) \in Packet /\ Tail(outReady[h]) \in Seq(Packet)
      BY <2>3 DEF PopReadyOutgoingPacket, TypeOK
    <3>2. AddAckHeader(h, Head(outReady[h])) \in Datagram
      BY <3>1, AddAckHeaderType
    <3>3. QED
      BY <2>3, <3>1, <3>2 DEF PopReadyOutgoingPacket, TypeOK, inVars
  <2>4. CASE PopReadyIncomingPacket(h)
    <3>1. Head(inReady[h]) \in Nat /\ Tail(inReady[h]) \in Seq(Nat)
      BY <2>4 DEF PopReadyIncomingPacket, TypeOK
    <3>2. inReady' \in [Host -> Seq(Nat)]
      BY <2>4, <3>1 DEF PopReadyIncomingPacket, TypeOK
    <3>3. delivered' \in [Host -> Seq(Nat)]
      <4>1. Append(delivered[h], Head(inReady[h])) \in Seq(Nat)
        BY <3>1 DEF TypeOK
      <4>2. QED
        BY <2>4, <4>1 DEF PopReadyIncomingPacket, TypeOK
    <3>4. QED
      BY <2>4, <3>2, <3>3 DEF PopReadyIncomingPacket, TypeOK, outVars
  <2>5. ASSUME NEW d \in net[h], Received(h, d)
        PROVE  TypeOK'
    <3>1. d \in Datagram
      BY DEF TypeOK
    <3>2. /\ outReliable' \in [Host -> [Id -> Nat]]
          /\ outReady' \in [Host -> Seq(Packet)]
      BY <2>5, <3>1, ProcessAcksType DEF Received
    <3>3. /\ inReliable' \in [Host -> [Id -> Nat]]
          /\ inReady' \in [Host -> Seq(Nat)]
          /\ inSeq' \in [Host -> Id]
          /\ ackId' \in [Host -> Id]
      <4>1. CASE d.reliable
        BY <2>5, <3>1, <4>1, StoreAndEnqueueType DEF Received
      <4>2. CASE ~ d.reliable
        <5>1. Append(inReady[h], d.msg) \in Seq(Nat)
          BY <3>1 DEF TypeOK, Datagram
        <5>2. /\ inReady' = [inReady EXCEPT ![h] = Append(inReady[h], d.msg)]
              /\ UNCHANGED <<inReliable, inSeq, ackId>>
          BY <2>5, <4>2 DEF Received
        <5>3. QED
          BY <5>1, <5>2 DEF TypeOK
      <4>3. QED
        BY <4>1, <4>2
    <3>4. net' \in [Host -> SUBSET Datagram]
      <4>1. net' = [net EXCEPT ![h] = @ \ {d}] \/ net' = net
        BY <2>5 DEF Received
      <4>2. net \in [Host -> SUBSET Datagram]
        BY DEF TypeOK
      <4>3. QED
        BY <4>1, <4>2
    <3>5. UNCHANGED <<scheduled, outSeq, delivered>>
      BY <2>5 DEF Received
    <3>6. QED
      BY <3>2, <3>3, <3>4, <3>5 DEF TypeOK
  <2>6. ASSUME NEW d \in net[h], Lose(h, d)
        PROVE  TypeOK'
    BY <2>6 DEF Lose, TypeOK, outVars, inVars
  <2>7. QED
    BY <2>1, <2>2, <2>3, <2>4, <2>5, <2>6 DEF HostStep
<1>3. QED
  BY <1>1, <1>2

\* Every variable keeps its type, whatever the network does and however often
\* the ids wrap: sequence numbers and ack ids never leave the id type.
THEOREM TypeCorrect == Spec => []TypeOK
<1>1. Init => TypeOK
  BY MaxPossibleIdAssumption
     DEF Init, TypeOK, Id, InvalidId, Absent
<1>2. TypeOK /\ [Next]_vars => TypeOK'
  BY TypeStep
<1>3. QED
  BY <1>1, <1>2, PTL DEF Spec
==========================================================================
