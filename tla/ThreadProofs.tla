--------------------------- MODULE ThreadProofs ---------------------------
(***************************************************************************)
(* The theorems of ConnectionProofs, DeliveryProofs and AckProofs carried  *)
(* over to ConnectionThreads, where the calls of two threads interleave at *)
(* the locks of Connection.cpp.                                            *)
(***************************************************************************)
EXTENDS ThreadInvariants, AckProofs

----------------------------------------------------------------------------
(* The steps of a host. *)

\* What is not a step inside a call is a call of Connection.tla, during which
\* the threads stay where they are.
LEMMA CallOrThreadStep ==
  ASSUME ThreadNext
  PROVE  \E h \in Host :
           \/ ThreadStep(h)
           \/ HostStep(h) /\ UNCHANGED <<listenVars, sendVars>>
<1>1. \A h \in Host : CallStep(h) => HostStep(h) /\ UNCHANGED <<listenVars, sendVars>>
  BY DEF CallStep, HostStep
<1>2. QED
  BY <1>1 DEF ThreadNext

----------------------------------------------------------------------------
(* Types. *)

LEMMA ThreadInitType == ThreadInit => ThreadTypeOK
<1> SUFFICES ASSUME ThreadInit
             PROVE  ThreadTypeOK
  OBVIOUS
<1>1. TypeOK
  BY MaxPossibleIdAssumption
     DEF ThreadInit, Init, TypeOK, Id, InvalidId, Absent
<1>2. Blank \in Datagram
  BY MaxPossibleIdAssumption DEF Blank, Datagram, Id, InvalidId, Unsequenced
<1>3. QED
  BY <1>1, <1>2, SMT
     DEF ThreadInit, ThreadTypeOK, ListenPoint, SendPoint, AckCount

\* A step inside a call keeps the types.
LEMMA ThreadStepType ==
  ASSUME ThreadTypeOK, NEW h \in Host, ThreadStep(h)
  PROVE  ThreadTypeOK'
<1>1. /\ TypeOK
      /\ listenAt \in [Host -> ListenPoint] /\ inHand \in [Host -> Datagram]
      /\ turn \in [Host -> 0 .. AckCount]
      /\ sendAt \in [Host -> SendPoint] /\ making \in [Host -> Datagram]
      /\ bit \in [Host -> 1 .. AckCount]
  BY DEF ThreadTypeOK
<1>2. Blank \in Datagram
  BY MaxPossibleIdAssumption DEF Blank, Datagram, Id, InvalidId, Unsequenced
<1>3. TypeOK /\ UNCHANGED vars => TypeOK'
  BY DEF TypeOK, vars, outVars, inVars
<1>4. ASSUME NEW d \in net[h], BeginReceived(h, d)
      PROVE  ThreadTypeOK'
  <2>1. d \in Datagram /\ net \in [Host -> SUBSET Datagram]
    BY <1>1 DEF TypeOK
  <2>2. net' \in [Host -> SUBSET Datagram]
    BY <1>4, <2>1 DEF BeginReceived
  <2>3. TypeOK'
    BY <1>1, <1>4, <2>2 DEF BeginReceived, TypeOK, outVars, inVars
  <2>4. /\ listenAt' \in [Host -> ListenPoint] /\ inHand' \in [Host -> Datagram]
        /\ turn' \in [Host -> 0 .. AckCount]
    BY <1>1, <1>4, <2>1, SMT DEF BeginReceived, ListenPoint, AckCount
  <2>5. QED
    BY <1>1, <1>4, <2>3, <2>4 DEF BeginReceived, sendVars, ThreadTypeOK
<1>5. CASE ProcessAck(h)
  <2> DEFINE n  == turn[h]
             id == Minus(inHand[h].ackId, n)
  <2>1. n \in 0 .. AckCount /\ inHand[h] \in Datagram
    BY <1>1
  <2>2. id \in Id
    <3>1. inHand[h].ackId \in Id
      BY <2>1 DEF Datagram
    <3>2. n \in Id
      BY <2>1, ConnectionAssumption, MaxPossibleIdAssumption DEF AckCount, Id
    <3> HIDE DEF n
    <3>3. QED
      BY <3>1, <3>2, IdArithmetic
  <2>3. /\ outReliable' \in [Host -> [Id -> Nat]]
        /\ outReady' \in [Host -> Seq(Packet)]
    <3>1. CASE n = 0 \/ n \in inHand[h].acks
      <4>1. /\ outReliable' = [outReliable EXCEPT ![h] = [@ EXCEPT ![id] = Absent]]
            /\ UNCHANGED outReady
        BY <1>5, <3>1 DEF ProcessAck
      <4>2. Absent \in Nat
        BY DEF Absent
      <4> HIDE DEF id
      <4>3. QED
        BY <1>1, <4>1, <4>2 DEF TypeOK
    <3>2. CASE ~ (n = 0 \/ n \in inHand[h].acks)
      <4>1. /\ outReady' = [outReady EXCEPT ![h] = @ \o Resend(h, inHand[h], n)]
            /\ UNCHANGED outReliable
        BY <1>5, <3>2 DEF ProcessAck
      <4>2. Resend(h, inHand[h], n) \in Seq(Packet)
        <5>1. [reliable |-> TRUE, id |-> id, msg |-> outReliable[h][id]] \in Packet
          BY <1>1, <2>2 DEF TypeOK, Packet
        <5>2. QED
          BY <5>1 DEF Resend
      <4>3. QED
        BY <1>1, <4>1, <4>2 DEF TypeOK
    <3>3. QED
      BY <3>1, <3>2
  <2>4. UNCHANGED <<scheduled, outSeq, inVars, net, inHand, sendVars>>
    BY <1>5 DEF ProcessAck
  <2>5. TypeOK'
    BY <1>1, <2>3, <2>4 DEF TypeOK, inVars
  <2>6. listenAt' \in [Host -> ListenPoint] /\ turn' \in [Host -> 0 .. AckCount]
    <3>1. CASE n < LastTurn
      <4>1. turn' = [turn EXCEPT ![h] = n + 1] /\ UNCHANGED listenAt
        BY <1>5, <3>1 DEF ProcessAck
      <4>2. n + 1 \in 0 .. AckCount
        BY <2>1, <3>1 DEF LastTurn, AckCount
      <4>3. QED
        BY <1>1, <4>1, <4>2
    <3>2. CASE ~ n < LastTurn
      <4>1. UNCHANGED turn /\ \E p \in {"update", "store"} :
              listenAt' = [listenAt EXCEPT ![h] = p]
        BY <1>5, <3>2 DEF ProcessAck
      <4>2. QED
        BY <1>1, <4>1 DEF ListenPoint
    <3>3. QED
      BY <3>1, <3>2
  <2>7. QED
    BY <1>1, <2>4, <2>5, <2>6 DEF sendVars, ThreadTypeOK
<1>6. CASE UpdateAckId(h)
  <2>1. UpdatedAckId(h, inHand[h].id) \in Id
    BY <1>1 DEF UpdatedAckId, TypeOK, Datagram
  <2>2. ackId' \in [Host -> Id] /\ listenAt' \in [Host -> ListenPoint]
    BY <1>1, <1>6, <2>1 DEF UpdateAckId, TypeOK, ListenPoint
  <2>3. TypeOK'
    BY <1>1, <1>6, <2>2 DEF UpdateAckId, TypeOK, outVars
  <2>4. QED
    BY <1>1, <1>6, <2>2, <2>3 DEF UpdateAckId, sendVars, ThreadTypeOK
<1>7. CASE EndReceived(h)
  <2> DEFINE d == inHand[h]
  <2>1. d \in Datagram
    BY <1>1
  <2>2. /\ inReliable' \in [Host -> [Id -> Nat]]
        /\ inReady' \in [Host -> Seq(Nat)]
        /\ inSeq' \in [Host -> Id]
        /\ ackId' \in [Host -> Id]
    <3>1. CASE d.reliable
      BY <1>1, <1>7, <2>1, <3>1, StoreAndEnqueueType DEF EndReceived
    <3>2. CASE ~ d.reliable
      <4>1. Append(inReady[h], d.msg) \in Seq(Nat)
        BY <1>1, <2>1 DEF TypeOK, Datagram
      <4>2. /\ inReady' = [inReady EXCEPT ![h] = Append(inReady[h], d.msg)]
            /\ UNCHANGED <<inReliable, inSeq, ackId>>
        BY <1>7, <3>2 DEF EndReceived
      <4>3. QED
        BY <1>1, <4>1, <4>2 DEF TypeOK
    <3>3. QED
      BY <3>1, <3>2
  <2>3. /\ UNCHANGED <<outVars, delivered, net, turn, sendVars>>
        /\ listenAt' = [listenAt EXCEPT ![h] = "idle"]
        /\ inHand' = [inHand EXCEPT ![h] = Blank]
    BY <1>7 DEF EndReceived
  <2>4. TypeOK'
    BY <1>1, <2>2, <2>3 DEF TypeOK, outVars
  <2>5. listenAt' \in [Host -> ListenPoint] /\ inHand' \in [Host -> Datagram]
    BY <1>1, <1>2, <2>3 DEF ListenPoint
  <2>6. QED
    BY <1>1, <2>3, <2>4, <2>5 DEF sendVars, ThreadTypeOK
<1>8. CASE BeginPop(h)
  <2>1. sendAt' \in [Host -> SendPoint]
    BY <1>1, <1>8 DEF BeginPop, SendPoint
  <2>2. QED
    BY <1>1, <1>3, <1>8, <2>1 DEF BeginPop, listenVars, ThreadTypeOK
<1>9. CASE Pop(h)
  <2>1. /\ outReady' \in [Host -> Seq(Packet)] /\ making' \in [Host -> Datagram]
        /\ sendAt' \in [Host -> SendPoint]
    <3>1. CASE outReady[h] = <<>>
      BY <1>1, <1>9, <3>1 DEF Pop, TypeOK, SendPoint
    <3>2. CASE outReady[h] # <<>>
      <4> DEFINE p == Head(outReady[h])
                 d == [Blank EXCEPT !.reliable = p.reliable, !.id = p.id,
                                    !.msg = p.msg]
      <4>1. p \in Packet /\ Tail(outReady[h]) \in Seq(Packet)
        BY <1>1, <3>2 DEF TypeOK
      <4>2. d \in Datagram
        BY <1>2, <4>1 DEF Packet, Datagram, Blank
      <4>3. /\ sendAt' = [sendAt EXCEPT ![h] = "ackId"]
            /\ outReady' = [outReady EXCEPT ![h] = Tail(@)]
            /\ making' = [making EXCEPT ![h] = d]
        BY <1>9, <3>2 DEF Pop
      <4> HIDE DEF d
      <4>4. QED
        BY <1>1, <4>1, <4>2, <4>3 DEF TypeOK, SendPoint
    <3>3. QED
      BY <3>1, <3>2
  <2>2. UNCHANGED <<scheduled, outReliable, outSeq, inVars, net, listenVars, bit>>
    BY <1>9 DEF Pop
  <2>3. TypeOK'
    BY <1>1, <2>1, <2>2 DEF TypeOK, inVars
  <2>4. QED
    BY <1>1, <2>1, <2>2, <2>3 DEF listenVars, ThreadTypeOK
<1>10. CASE LoadAckId(h)
  <2>1. [making[h] EXCEPT !.ackId = ackId[h]] \in Datagram
    <3>1. making[h] \in Datagram /\ ackId[h] \in Id
      BY <1>1 DEF TypeOK
    <3>2. QED
      BY <3>1 DEF Datagram
  <2>2. /\ making' = [making EXCEPT ![h] = [making[h] EXCEPT !.ackId = ackId[h]]]
        /\ sendAt' = [sendAt EXCEPT ![h] = "bits"]
        /\ bit' = [bit EXCEPT ![h] = 1]
        /\ UNCHANGED <<vars, listenVars>>
    BY <1>10 DEF LoadAckId
  <2>3. making' \in [Host -> Datagram]
    BY <1>1, <2>1, <2>2
  <2>4. sendAt' \in [Host -> SendPoint] /\ bit' \in [Host -> 1 .. AckCount]
    BY <1>1, <2>2 DEF SendPoint, AckCount
  <2>5. QED
    BY <1>1, <1>3, <2>2, <2>3, <2>4 DEF listenVars, ThreadTypeOK
<1>11. CASE ReadBit(h)
  <2> DEFINE n == bit[h]
  <2>1. n \in 1 .. AckCount /\ making[h] \in Datagram
    BY <1>1
  <2>2. [making[h] EXCEPT !.acks = @ \cup {n}] \in Datagram
    BY <2>1 DEF Datagram
  <2>3. making' \in [Host -> Datagram]
    BY <1>1, <1>11, <2>2 DEF ReadBit
  <2>4. sendAt' \in [Host -> SendPoint] /\ bit' \in [Host -> 1 .. AckCount]
    <3>1. CASE n < AckCount
      <4>1. n + 1 \in 1 .. AckCount
        BY <2>1, <3>1 DEF AckCount
      <4>2. QED
        BY <1>1, <1>11, <3>1, <4>1 DEF ReadBit
    <3>2. CASE ~ n < AckCount
      BY <1>1, <1>11, <3>2 DEF ReadBit, SendPoint
    <3>3. QED
      BY <3>1, <3>2
  <2>5. QED
    BY <1>1, <1>3, <1>11, <2>3, <2>4 DEF ReadBit, listenVars, ThreadTypeOK
<1>12. CASE SendTo(h)
  <2>1. net' \in [Host -> SUBSET Datagram]
    BY <1>1, <1>12 DEF SendTo, TypeOK
  <2>2. making' \in [Host -> Datagram] /\ sendAt' \in [Host -> SendPoint]
    BY <1>1, <1>2, <1>12 DEF SendTo, SendPoint
  <2>3. TypeOK'
    BY <1>1, <1>12, <2>1 DEF SendTo, TypeOK, outVars, inVars
  <2>4. QED
    BY <1>1, <1>12, <2>2, <2>3 DEF SendTo, listenVars, ThreadTypeOK
<1>13. QED
  BY <1>4, <1>5, <1>6, <1>7, <1>8, <1>9, <1>10, <1>11, <1>12 DEF ThreadStep

LEMMA ThreadTypeStep ==
  ASSUME ThreadTypeOK, [ThreadNext]_allVars
  PROVE  ThreadTypeOK'
<1>1. ASSUME [Next]_vars, UNCHANGED <<listenVars, sendVars>>
      PROVE  ThreadTypeOK'
  BY <1>1, TypeStep DEF ThreadTypeOK, listenVars, sendVars
<1>2. ASSUME NEW h \in Host, HostStep(h)
      PROVE  [Next]_vars
  BY <1>2 DEF Next
<1>3. QED
  BY <1>1, <1>2, CallOrThreadStep, ThreadStepType DEF allVars

\* The variables keep their types in every interleaving of the threads, however
\* often the ids wrap: the loop of ProcessAcks and the offset of AddAckHeader
\* stay within the ack bits.
THEOREM ThreadTypeCorrect == ThreadSpec => []ThreadTypeOK
<1>1. ThreadInit => ThreadTypeOK
  BY ThreadInitType
<1>2. ThreadTypeOK /\ [ThreadNext]_allVars => ThreadTypeOK'
  BY ThreadTypeStep
<1>3. QED
  BY <1>1, <1>2, PTL DEF ThreadSpec

----------------------------------------------------------------------------
(* What a step inside a call does to the packets.  *)

LEMMA BlankFacts ==
  /\ Blank.reliable = FALSE /\ Blank.msg = Unsequenced
  /\ Blank.ackId = InvalidId /\ Blank.acks = {}
BY DEF Blank

\* Inside a call nothing is scheduled or delivered.
LEMMA ThreadStepFrame ==
  ASSUME NEW h \in Host, ThreadStep(h)
  PROVE  UNCHANGED <<scheduled, outSeq, delivered>>
BY DEF ThreadStep, BeginReceived, ProcessAck, UpdateAckId, EndReceived,
       StoreAndEnqueue, BeginPop, Pop, LoadAckId, ReadBit, SendTo,
       vars, outVars, inVars

\* One turn of the loop of ProcessAcks erases the copy under the id of that
\* turn, or sends it once more.
LEMMA ProcessAckGenuine ==
  ASSUME ThreadTypeOK, NEW h \in Host, SenderInv(h), ProcessAck(h)
  PROVE  /\ HoldsUnderId(h, outReliable'[h])
         /\ \A i \in DOMAIN outReady'[h] : Genuine(h, outReady'[h][i])
<1> DEFINE n  == turn[h]
           id == Minus(inHand[h].ackId, n)
<1>1. /\ TypeOK /\ inHand[h] \in Datagram /\ n \in 0 .. AckCount
      /\ outReliable[h] \in [Id -> Nat] /\ outReady[h] \in Seq(Packet)
      /\ scheduled[h] \in Nat
  BY DEF ThreadTypeOK, TypeOK
<1>2. /\ HoldsUnderId(h, outReliable[h])
      /\ \A i \in DOMAIN outReady[h] : Genuine(h, outReady[h][i])
  BY DEF SenderInv
<1>3. CASE n = 0 \/ n \in inHand[h].acks
  <2>1. /\ outReliable'[h] = [outReliable[h] EXCEPT ![id] = Absent]
        /\ outReady' = outReady
    BY <1>1, <1>3 DEF ProcessAck, TypeOK
  <2> HIDE DEF id
  <2>2. \A i \in Id : \/ outReliable'[h][i] = outReliable[h][i]
                      \/ outReliable'[h][i] = Absent
    BY <1>1, <2>1
  <2>3. HoldsUnderId(h, outReliable'[h])
    BY <1>1, <1>2, <2>2 DEF HoldsUnderId, Absent
  <2>4. QED
    BY <1>2, <2>1, <2>3
<1>4. CASE ~ (n = 0 \/ n \in inHand[h].acks)
  <2> DEFINE r == Resend(h, inHand[h], n)
  <2>1. outReady'[h] = outReady[h] \o r /\ outReliable' = outReliable
    BY <1>1, <1>4 DEF ProcessAck, TypeOK
  <2>2. n \in 1 .. AckCount
    BY <1>1, <1>4 DEF AckCount
  <2>3. r \in Seq(Packet) /\ \A i \in DOMAIN r : Genuine(h, r[i])
    <3> HIDE DEF n
    <3>1. QED
      BY <1>1, <1>2, <2>2, ResendIsGenuine
  <2> HIDE DEF r
  <2>4. \A i \in DOMAIN (outReady[h] \o r) : Genuine(h, (outReady[h] \o r)[i])
    <3> SUFFICES ASSUME NEW i \in DOMAIN (outReady[h] \o r)
                 PROVE  Genuine(h, (outReady[h] \o r)[i])
      OBVIOUS
    <3>1. /\ Len(outReady[h]) \in Nat /\ DOMAIN outReady[h] = 1 .. Len(outReady[h])
          /\ Len(r) \in Nat /\ DOMAIN r = 1 .. Len(r)
          /\ DOMAIN (outReady[h] \o r) = 1 .. Len(outReady[h]) + Len(r)
          /\ (outReady[h] \o r)[i] = IF i <= Len(outReady[h]) THEN outReady[h][i]
                                     ELSE r[i - Len(outReady[h])]
      BY <1>1, <2>3, ConcatProperties, LenProperties
    <3>2. CASE i <= Len(outReady[h])
      BY <1>2, <3>1, <3>2
    <3>3. CASE ~ i <= Len(outReady[h])
      <4>1. i - Len(outReady[h]) \in DOMAIN r
        BY <3>1, <3>3
      <4>2. QED
        BY <2>3, <3>1, <3>3, <4>1
    <3>4. QED
      BY <3>2, <3>3
  <2>5. QED
    BY <1>2, <2>1, <2>4
<1>5. QED
  BY <1>3, <1>4

\* What a sender has sent, and what is on its way, stays genuine.
LEMMA SenderThreadStep ==
  ASSUME ThreadTypeOK, ThreadInv, NEW h \in Host, ThreadStep(h), NEW g \in Host
  PROVE  SenderInv(g)'
<1>1. /\ TypeOK /\ SenderInv(g) /\ Peer(g) \in Host
      /\ Genuine(h, making[h])
      /\ UNCHANGED <<scheduled, outSeq>>
  BY PeerFacts, ThreadStepFrame
     DEF ThreadTypeOK, ThreadInv, DeliveryInv, HandsGenuine
<1>2. ASSUME HoldsUnderId(g, outReliable'[g]),
             \A i \in DOMAIN outReady'[g] : Genuine(g, outReady'[g][i]),
             \A d \in net'[Peer(g)] : Genuine(g, d)
      PROVE  SenderInv(g)'
  BY <1>1, <1>2 DEF SenderInv, HoldsUnderId, Genuine
<1>3. /\ HoldsUnderId(g, outReliable[g])
      /\ \A i \in DOMAIN outReady[g] : Genuine(g, outReady[g][i])
      /\ \A d \in net[Peer(g)] : Genuine(g, d)
  BY <1>1 DEF SenderInv
<1>4. ASSUME UNCHANGED <<outReliable, outReady, net>>
      PROVE  SenderInv(g)'
  BY <1>2, <1>3, <1>4
<1>5. ASSUME NEW d \in net[h], BeginReceived(h, d)
      PROVE  SenderInv(g)'
  <2>1. UNCHANGED <<outReliable, outReady>>
    BY <1>5 DEF BeginReceived, outVars
  <2>2. net'[Peer(g)] \subseteq net[Peer(g)]
    <3>1. net' = [net EXCEPT ![h] = @ \ {d}] \/ net' = net
      BY <1>5 DEF BeginReceived
    <3>2. DOMAIN net = Host
      BY <1>1 DEF TypeOK
    <3>3. QED
      BY <1>1, <3>1, <3>2
  <2>3. QED
    BY <1>2, <1>3, <2>1, <2>2
<1>6. CASE ProcessAck(h)
  <2>1. UNCHANGED net
    BY <1>6 DEF ProcessAck
  <2>2. CASE g = h
    BY <1>1, <1>2, <1>3, <1>6, <2>1, <2>2, ProcessAckGenuine
  <2>3. CASE g # h
    <3>1. UNCHANGED <<outReliable[g], outReady[g]>>
      BY <1>1, <1>6, <2>3 DEF ProcessAck, TypeOK
    <3>2. QED
      BY <1>2, <1>3, <2>1, <3>1
  <2>4. QED
    BY <2>2, <2>3
<1>7. CASE Pop(h)
  <2>1. UNCHANGED <<outReliable, net>>
    BY <1>7 DEF Pop
  <2>2. CASE UNCHANGED outReady
    BY <1>4, <2>1, <2>2
  <2>3. CASE outReady[h] # <<>> /\ outReady' = [outReady EXCEPT ![h] = Tail(@)]
    <3>1. DOMAIN outReady = Host /\ outReady[h] \in Seq(Packet)
      BY <1>1 DEF TypeOK
    <3>2. \A i \in DOMAIN Tail(outReady[h]) :
            i + 1 \in DOMAIN outReady[h] /\ Tail(outReady[h])[i] = outReady[h][i + 1]
      BY <2>3, <3>1, PopElements
    <3>3. outReady'[g] = IF g = h THEN Tail(outReady[h]) ELSE outReady[g]
      BY <2>3, <3>1
    <3>4. \A i \in DOMAIN outReady'[g] : Genuine(g, outReady'[g][i])
      BY <1>3, <3>2, <3>3
    <3>5. QED
      BY <1>2, <1>3, <2>1, <3>4
  <2>4. QED
    BY <1>7, <2>2, <2>3 DEF Pop
<1>8. CASE SendTo(h)
  <2>1. /\ UNCHANGED <<outReliable, outReady>>
        /\ net' = [net EXCEPT ![Peer(h)] = @ \cup {making[h]}]
    BY <1>8 DEF SendTo, outVars
  <2>2. Peer(g) = Peer(h) => g = h
    BY PeerFacts
  <2>3. \A d \in net'[Peer(g)] : Genuine(g, d)
    BY <1>1, <1>3, <2>1, <2>2 DEF TypeOK
  <2>4. QED
    BY <1>2, <1>3, <2>1, <2>3
<1>9. CASE UpdateAckId(h) \/ EndReceived(h) \/ BeginPop(h) \/ LoadAckId(h) \/ ReadBit(h)
  BY <1>4, <1>9 DEF UpdateAckId, EndReceived, BeginPop, LoadAckId, ReadBit, vars, outVars
<1>10. QED
  BY <1>5, <1>6, <1>7, <1>8, <1>9 DEF ThreadStep

\* What a host has received changes at the end of Received, which stores a
\* genuine packet.
LEMMA ReceiverThreadStep ==
  ASSUME NoIdReuse, ThreadTypeOK, ThreadInv, NEW h \in Host, ThreadStep(h),
         NEW g \in Host
  PROVE  ReceiverInv(g)' /\ ReadyInv(g)'
<1>1. /\ TypeOK /\ SenderInv(Peer(g)) /\ ReceiverInv(g) /\ ReadyInv(g)
      /\ Genuine(Peer(h), inHand[h]) /\ inHand[h] \in Datagram
      /\ UNCHANGED <<scheduled, delivered>>
  BY PeerFacts, ThreadStepFrame
     DEF ThreadTypeOK, ThreadInv, DeliveryInv, HandsGenuine
<1>2. ASSUME UNCHANGED <<inReliable[g], inSeq[g], inReady[g]>>
      PROVE  ReceiverInv(g)' /\ ReadyInv(g)'
  BY <1>1, <1>2 DEF ReceiverInv, HoldsUnderId, HasReceivedPacket, ReadyInv, HoldsInOrder
<1>3. CASE EndReceived(h)
  <2>1. CASE g = h /\ inHand[h].reliable
    BY <1>1, <1>3, <2>1, ReceiveReliable DEF EndReceived
  <2>2. CASE g = h /\ ~ inHand[h].reliable
    <3>1. /\ inReady'[g] = Append(inReady[g], Unsequenced) /\ inReady[g] \in Seq(Nat)
          /\ UNCHANGED <<inReliable, inSeq>>
      BY <1>1, <1>3, <2>2 DEF EndReceived, Genuine, TypeOK
    <3>2. HoldsInOrder(inReady'[g], Len(delivered[g]) + 1, inSeq[g])
      BY <1>1, <3>1, AppendUnsequenced DEF ReadyInv
    <3>3. ReceiverInv(g)'
      BY <1>1, <3>1 DEF ReceiverInv, HoldsUnderId, HasReceivedPacket
    <3>4. QED
      BY <1>1, <3>1, <3>2, <3>3 DEF ReadyInv, HoldsInOrder
  <2>3. CASE g # h
    <3>1. UNCHANGED <<inReliable[g], inSeq[g], inReady[g]>>
      BY <1>1, <1>3, <2>3, StoresAtOneHost DEF EndReceived, TypeOK
    <3>2. QED
      BY <1>2, <3>1
  <2>4. QED
    BY <2>1, <2>2, <2>3
<1>4. CASE ~ EndReceived(h)
  <2>1. UNCHANGED <<inReliable, inSeq, inReady>>
    BY <1>4 DEF ThreadStep, BeginReceived, ProcessAck, UpdateAckId, BeginPop, Pop,
                LoadAckId, ReadBit, SendTo, vars, inVars
  <2>2. QED
    BY <1>2, <2>1
<1>5. QED
  BY <1>3, <1>4

\* What the threads take in hand is genuine.
LEMMA HandsThreadStep ==
  ASSUME ThreadTypeOK, ThreadInv, NEW h \in Host, ThreadStep(h), NEW g \in Host
  PROVE  HandsGenuine(g)' /\ PointsInv(g)'
<1>1. /\ TypeOK /\ HandsGenuine(g) /\ PointsInv(g) /\ UNCHANGED scheduled
      /\ Peer(h) \in Host /\ SenderInv(h) /\ SenderInv(Peer(h))
      /\ DOMAIN inHand = Host /\ DOMAIN making = Host
      /\ DOMAIN listenAt = Host /\ DOMAIN sendAt = Host
  BY PeerFacts, ThreadStepFrame DEF ThreadTypeOK, ThreadInv, DeliveryInv
<1>2. ASSUME Genuine(Peer(g), inHand'[g]), Genuine(g, making'[g]), PointsInv(g)'
      PROVE  HandsGenuine(g)' /\ PointsInv(g)'
  BY <1>1, <1>2 DEF HandsGenuine, Genuine
<1>3. Genuine(Peer(g), inHand[g]) /\ Genuine(g, making[g])
  BY <1>1 DEF HandsGenuine
<1>4. \A f : Genuine(f, Blank)
  BY BlankFacts DEF Genuine
<1>5. ASSUME NEW d \in net[h], BeginReceived(h, d)
      PROVE  HandsGenuine(g)' /\ PointsInv(g)'
  <2>1. /\ inHand' = [inHand EXCEPT ![h] = d]
        /\ listenAt' = [listenAt EXCEPT ![h] = "acks"]
        /\ UNCHANGED <<sendAt, making>>
    BY <1>5 DEF BeginReceived, sendVars
  <2>2. Genuine(Peer(h), d)
    BY <1>1, PeerFacts DEF SenderInv
  <2>3. PointsInv(g)'
    BY <1>1, <2>1 DEF PointsInv
  <2>4. Genuine(Peer(g), inHand'[g])
    BY <1>1, <1>3, <2>1, <2>2
  <2>5. QED
    BY <1>2, <1>3, <2>1, <2>3, <2>4
<1>6. CASE ProcessAck(h)
  <2>1. /\ UNCHANGED <<inHand, sendAt, making>>
        /\ \/ UNCHANGED listenAt
           \/ listenAt' = [listenAt EXCEPT ![h] =
                             IF inHand[h].reliable THEN "update" ELSE "store"]
    BY <1>6 DEF ProcessAck, sendVars
  <2>2. PointsInv(g)'
    BY <1>1, <2>1 DEF PointsInv
  <2>3. QED
    BY <1>2, <1>3, <2>1, <2>2
<1>7. CASE UpdateAckId(h)
  <2>1. /\ listenAt' = [listenAt EXCEPT ![h] = "store"]
        /\ UNCHANGED <<inHand, sendAt, making>>
    BY <1>7 DEF UpdateAckId, sendVars
  <2>2. PointsInv(g)'
    BY <1>1, <2>1 DEF PointsInv
  <2>3. QED
    BY <1>2, <1>3, <2>1, <2>2
<1>8. CASE EndReceived(h)
  <2>1. /\ listenAt' = [listenAt EXCEPT ![h] = "idle"]
        /\ inHand' = [inHand EXCEPT ![h] = Blank]
        /\ UNCHANGED <<sendAt, making>>
    BY <1>8 DEF EndReceived, sendVars
  <2>2. PointsInv(g)'
    BY <1>1, <2>1 DEF PointsInv
  <2>3. Genuine(Peer(g), inHand'[g])
    BY <1>1, <1>3, <1>4, <2>1
  <2>4. QED
    BY <1>2, <1>3, <2>1, <2>2, <2>3
<1>9. CASE BeginPop(h)
  <2>1. /\ sendAt[h] = "idle" /\ sendAt' = [sendAt EXCEPT ![h] = "pop"]
        /\ UNCHANGED <<listenAt, inHand, making>>
    BY <1>9 DEF BeginPop, listenVars
  <2>2. PointsInv(g)'
    BY <1>1, <2>1 DEF PointsInv
  <2>3. QED
    BY <1>2, <1>3, <2>1, <2>2
<1>10. CASE Pop(h)
  <2>1. sendAt[h] = "pop" /\ UNCHANGED <<listenAt, inHand>>
    BY <1>10 DEF Pop, listenVars
  <2>2. CASE outReady[h] = <<>>
    <3>1. sendAt' = [sendAt EXCEPT ![h] = "idle"] /\ UNCHANGED making
      BY <1>10, <2>2 DEF Pop
    <3>2. PointsInv(g)'
      BY <1>1, <2>1, <3>1 DEF PointsInv
    <3>3. QED
      BY <1>2, <1>3, <2>1, <3>1, <3>2
  <2>3. CASE outReady[h] # <<>>
    <3> DEFINE p == Head(outReady[h])
               d == [Blank EXCEPT !.reliable = p.reliable, !.id = p.id, !.msg = p.msg]
    <3>1. /\ sendAt' = [sendAt EXCEPT ![h] = "ackId"]
          /\ making' = [making EXCEPT ![h] = d]
      BY <1>10, <2>3 DEF Pop
    <3>2. /\ d.reliable = p.reliable /\ d.id = p.id /\ d.msg = p.msg
          /\ d.acks = {}
      BY DEF Blank
    <3>3. Genuine(h, p)
      <4>1. 1 \in DOMAIN outReady[h] /\ p = outReady[h][1]
        <5>1. outReady[h] \in Seq(Packet)
          BY <1>1 DEF TypeOK
        <5>2. QED
          BY <2>3, <5>1, PopElements
      <4>2. QED
        BY <1>1, <4>1 DEF SenderInv
    <3> HIDE DEF d, p
    <3>4. Genuine(h, d)
      BY <3>2, <3>3 DEF Genuine
    <3>5. Genuine(g, making'[g])
      BY <1>1, <1>3, <3>1, <3>4
    <3>6. PointsInv(g)'
      BY <1>1, <2>1, <3>1, <3>2 DEF PointsInv
    <3>7. QED
      BY <1>2, <1>3, <2>1, <3>5, <3>6
  <2>4. QED
    BY <2>2, <2>3
<1>11. CASE LoadAckId(h)
  <2> DEFINE d == [making[h] EXCEPT !.ackId = ackId[h]]
  <2>1. /\ making' = [making EXCEPT ![h] = d]
        /\ sendAt' = [sendAt EXCEPT ![h] = "bits"]
        /\ UNCHANGED <<listenAt, inHand>>
    BY <1>11 DEF LoadAckId, listenVars
  <2>2. making[h] \in Datagram
    BY DEF ThreadTypeOK
  <2>3. d.reliable = making[h].reliable /\ d.id = making[h].id /\ d.msg = making[h].msg
    BY <2>2 DEF Datagram
  <2> HIDE DEF d
  <2>4. Genuine(g, making'[g])
    BY <1>1, <1>3, <2>1, <2>3 DEF Genuine
  <2>5. PointsInv(g)'
    BY <1>1, <2>1 DEF PointsInv
  <2>6. QED
    BY <1>2, <1>3, <2>1, <2>4, <2>5
<1>12. CASE ReadBit(h)
  <2> DEFINE d == [making[h] EXCEPT !.acks = @ \cup {bit[h]}]
  <2>1. /\ sendAt[h] = "bits" /\ UNCHANGED <<listenAt, inHand>>
        /\ making' = [making EXCEPT ![h] = d] \/ making' = making
        /\ sendAt' = [sendAt EXCEPT ![h] = "send"] \/ sendAt' = sendAt
    BY <1>12 DEF ReadBit, listenVars
  <2>2. making[h] \in Datagram
    BY DEF ThreadTypeOK
  <2>3. d.reliable = making[h].reliable /\ d.id = making[h].id /\ d.msg = making[h].msg
    BY <2>2 DEF Datagram
  <2> HIDE DEF d
  <2>4. Genuine(g, making'[g])
    BY <1>1, <1>3, <2>1, <2>3 DEF Genuine
  <2>5. PointsInv(g)'
    BY <1>1, <2>1 DEF PointsInv
  <2>6. QED
    BY <1>2, <1>3, <2>1, <2>4, <2>5
<1>13. CASE SendTo(h)
  <2>1. /\ sendAt' = [sendAt EXCEPT ![h] = "idle"]
        /\ making' = [making EXCEPT ![h] = Blank]
        /\ UNCHANGED <<listenAt, inHand>>
    BY <1>13 DEF SendTo, listenVars
  <2>2. PointsInv(g)'
    BY <1>1, <2>1, BlankFacts DEF PointsInv
  <2>3. Genuine(g, making'[g])
    BY <1>1, <1>3, <1>4, <2>1
  <2>4. QED
    BY <1>2, <1>3, <2>1, <2>2, <2>3
<1>14. QED
  BY <1>5, <1>6, <1>7, <1>8, <1>9, <1>10, <1>11, <1>12, <1>13 DEF ThreadStep

----------------------------------------------------------------------------
(* What a host acks. *)

\* The packet in the hands of a listen thread is a message under its ordinal.
LEMMA InHandIsGenuine ==
  ASSUME ThreadTypeOK, ThreadInv, NEW h \in Host, inHand[h].reliable
  PROVE  /\ inHand[h].msg = inHand[h].id /\ inHand[h].id \in Id
         /\ inHand[h].msg # Absent
<1>1. Genuine(Peer(h), inHand[h]) /\ inHand[h] \in Datagram
  BY DEF ThreadInv, HandsGenuine, ThreadTypeOK
<1>2. scheduled[Peer(h)] \in Nat
  BY PeerFacts DEF ThreadTypeOK, TypeOK
<1>3. QED
  BY <1>1, <1>2 DEF Genuine, Datagram, Absent

\* What a host has received, or is about to store, it has received afterwards or
\* is still about to store.
LEMMA HasOrStoresGrows ==
  ASSUME ThreadTypeOK, ThreadInv, NEW h \in Host, NEW g \in Host,
         \/ ThreadStep(h)
         \/ HostStep(h) /\ UNCHANGED <<listenVars, sendVars>>
  PROVE  \A id \in Id : HasOrStores(g, id) => HasOrStores(g, id)'
<1>1. CASE HostStep(h) /\ UNCHANGED <<listenVars, sendVars>>
  <2>1. \A id \in Id : HasReceivedPacket(g, id) => HasReceivedPacket(g, id)'
    BY <1>1, ReceivedGrows DEF ThreadTypeOK, ThreadInv
  <2>2. QED
    BY <1>1, <2>1 DEF HasOrStores, listenVars
<1>2. CASE ThreadStep(h) /\ g = h /\ EndReceived(h)
  <2>1. inReliable[g] \in [Id -> Nat] /\ DOMAIN inReliable = Host
    BY DEF ThreadTypeOK, TypeOK
  <2>2. CASE inHand[h].reliable
    <3>1. inReliable'[g] = [inReliable[g] EXCEPT ![inHand[h].id] = inHand[h].msg]
      BY <1>2, <2>1, <2>2 DEF EndReceived, StoreAndEnqueue
    <3>2. QED
      BY <1>2, <2>1, <2>2, <3>1, InHandIsGenuine DEF HasOrStores, HasReceivedPacket
  <2>3. CASE ~ inHand[h].reliable
    BY <1>2, <2>3 DEF EndReceived, HasOrStores, HasReceivedPacket
  <2>4. QED
    BY <2>2, <2>3
<1>3. CASE ThreadStep(h) /\ ~ (g = h /\ EndReceived(h))
  <2>1. inReliable'[g] = inReliable[g]
    <3>1. DOMAIN inReliable = Host
      BY DEF ThreadTypeOK, TypeOK
    <3>2. QED
      BY <1>3, <3>1
         DEF ThreadStep, BeginReceived, ProcessAck, UpdateAckId, EndReceived,
             StoreAndEnqueue, BeginPop, Pop, LoadAckId, ReadBit, SendTo, vars, inVars
  <2>2. listenAt[g] = "store" => listenAt'[g] = "store" /\ inHand'[g] = inHand[g]
    <3>1. DOMAIN listenAt = Host /\ DOMAIN inHand = Host
      BY DEF ThreadTypeOK
    <3>2. QED
      BY <1>3, <3>1
         DEF ThreadStep, BeginReceived, ProcessAck, UpdateAckId, EndReceived,
             BeginPop, Pop, LoadAckId, ReadBit, SendTo, listenVars
  <2>3. QED
    BY <2>1, <2>2 DEF HasOrStores, HasReceivedPacket
<1>4. QED
  BY <1>1, <1>2, <1>3

\* An ack id that moves becomes that of a packet received, or about to be stored.
LEMMA AckIdThreadStep ==
  ASSUME ThreadTypeOK, ThreadInv, NEW h \in Host, NEW g \in Host,
         \/ ThreadStep(h)
         \/ HostStep(h) /\ UNCHANGED <<listenVars, sendVars>>
  PROVE  MayAck(g, ackId[g])'
<1>1. /\ TypeOK /\ ackId[g] \in Id /\ DOMAIN ackId = Host
      /\ MayAck(g, ackId[g]) /\ PointsInv(g)
      /\ DOMAIN listenAt = Host
  BY DEF ThreadTypeOK, ThreadInv, TypeOK
<1>2. \A id \in Id : HasOrStores(g, id) => HasOrStores(g, id)'
  BY HasOrStoresGrows
<1>3. ASSUME ackId'[g] = ackId[g]
      PROVE  MayAck(g, ackId[g])'
  <2>1. ackId[g] # InvalidId => HasOrStores(g, ackId[g])'
    BY <1>1, <1>2, <1>3 DEF MayAck, HasOrStores, HasReceivedPacket
  <2>2. QED
    BY <1>3, <2>1 DEF MayAck
<1>4. ASSUME HostStep(h), UNCHANGED <<listenVars, sendVars>>
      PROVE  MayAck(g, ackId[g])'
  <2>1. ackId'[g] = ackId[g] \/ HasReceivedPacket(g, ackId[g])'
    BY <1>1, <1>4, ReceivedGrows DEF ThreadInv
  <2>2. QED
    BY <1>3, <2>1 DEF MayAck, HasOrStores
<1>5. CASE UpdateAckId(h) /\ g = h
  <2>1. /\ listenAt'[g] = "store" /\ inHand'[g] = inHand[g] /\ inHand[g].reliable
        /\ ackId'[g] = inHand[g].id \/ ackId'[g] = ackId[g]
    BY <1>1, <1>5 DEF UpdateAckId, UpdatedAckId, PointsInv
  <2>2. QED
    BY <1>3, <2>1 DEF MayAck, HasOrStores
<1>6. CASE EndReceived(h) /\ g = h
  <2>1. CASE inHand[h].reliable
    <3>1. /\ ackId'[g] = inHand[h].id \/ ackId'[g] = ackId[g]
          /\ inReliable'[g] = [inReliable[g] EXCEPT ![inHand[h].id] = inHand[h].msg]
          /\ inReliable[g] \in [Id -> Nat]
      BY <1>1, <1>6, <2>1 DEF EndReceived, StoreAndEnqueue, UpdatedAckId, TypeOK
    <3>2. inReliable'[g][inHand[h].id] # Absent
      BY <1>6, <2>1, <3>1, InHandIsGenuine
    <3>3. QED
      BY <1>3, <3>1, <3>2 DEF MayAck, HasOrStores, HasReceivedPacket
  <2>2. CASE ~ inHand[h].reliable
    BY <1>3, <1>6, <2>2 DEF EndReceived
  <2>3. QED
    BY <2>1, <2>2
<1>7. ASSUME ThreadStep(h), ~ (UpdateAckId(h) /\ g = h), ~ (EndReceived(h) /\ g = h)
      PROVE  ackId'[g] = ackId[g]
  BY <1>1, <1>7
     DEF ThreadStep, BeginReceived, ProcessAck, UpdateAckId, EndReceived,
         StoreAndEnqueue, BeginPop, Pop, LoadAckId, ReadBit, SendTo, vars, inVars
<1>8. QED
  BY <1>3, <1>4, <1>5, <1>6, <1>7

\* The headers in flight and in the hands of the threads after a step ack what
\* the host might ack before it.
LEMMA HeadersMayAck ==
  ASSUME ThreadTypeOK, ThreadInv, NEW h \in Host, NEW g \in Host,
         \/ ThreadStep(h)
         \/ HostStep(h) /\ UNCHANGED <<listenVars, sendVars>>,
         NEW d \in net'[Peer(g)] \cup {inHand'[Peer(g)], making'[g]},
         NEW id \in AckedIds(d)
  PROVE  MayAck(g, id)
<1> DEFINE Sound(e) == \A i \in AckedIds(e) : MayAck(g, i)
<1>1. /\ TypeOK /\ Peer(g) \in Host /\ MayAck(g, ackId[g]) /\ PointsInv(g)
      /\ DOMAIN net = Host /\ DOMAIN inHand = Host /\ DOMAIN making = Host
      /\ making[g] \in Datagram
      /\ Peer(g) = Peer(h) => g = h
  BY PeerFacts DEF ThreadTypeOK, ThreadInv, TypeOK
<1>2. \A e \in net[Peer(g)] \cup {inHand[Peer(g)], making[g]} : Sound(e)
  BY DEF ThreadInv, AcksReceived, MayAck
<1>3. \A e : e.ackId = InvalidId /\ e.acks = {} => Sound(e)
  BY DEF AckedIds, MayAck
<1>4. Sound(Blank)
  BY <1>3, BlankFacts
<1> HIDE DEF Sound
<1>5. CASE HostStep(h) /\ UNCHANGED <<listenVars, sendVars>>
  <2>1. UNCHANGED <<inHand, making>>
    BY <1>5 DEF listenVars, sendVars
  <2>2. CASE d \in net'[Peer(g)]
    <3>1. d \in net[Peer(g)] \/ \E p : d = AddAckHeader(g, p)
      BY <1>1, <1>5, <2>2, NewDatagrams
    <3>2. \A p : Sound(AddAckHeader(g, p))
      <4> SUFFICES ASSUME NEW p, NEW i \in AckedIds(AddAckHeader(g, p))
                   PROVE  MayAck(g, i)
        BY DEF Sound
      <4>1. i = ackId[g] \/ HasReceivedPacket(g, i)
        BY DEF AckedIds, AddAckHeader
      <4>2. QED
        BY <1>1, <4>1 DEF MayAck, HasOrStores
    <3>3. QED
      BY <1>2, <3>1, <3>2 DEF Sound
  <2>3. CASE d \in {inHand'[Peer(g)], making'[g]}
    BY <1>2, <2>1, <2>3 DEF Sound
  <2>4. QED
    BY <2>2, <2>3
<1>6. ASSUME net'[Peer(g)] \subseteq net[Peer(g)] \cup {making[g]},
             inHand'[Peer(g)] \in {inHand[Peer(g)], Blank} \cup net[Peer(g)],
             Sound(making'[g])
      PROVE  MayAck(g, id)
  BY <1>2, <1>4, <1>6 DEF Sound
<1>7. ASSUME NEW e \in net[h], BeginReceived(h, e)
      PROVE  MayAck(g, id)
  <2>1. /\ net' = [net EXCEPT ![h] = @ \ {e}] \/ net' = net
        /\ inHand' = [inHand EXCEPT ![h] = e] /\ UNCHANGED making
    BY <1>7 DEF BeginReceived, sendVars
  <2>2. QED
    BY <1>1, <1>2, <1>6, <2>1
<1>8. CASE ProcessAck(h) \/ UpdateAckId(h) \/ BeginPop(h)
  <2>1. UNCHANGED <<net, inHand, making>>
    BY <1>8 DEF ProcessAck, UpdateAckId, BeginPop, vars, listenVars, sendVars
  <2>2. QED
    BY <1>2, <1>6, <2>1
<1>9. CASE EndReceived(h)
  <2>1. inHand' = [inHand EXCEPT ![h] = Blank] /\ UNCHANGED <<net, making>>
    BY <1>9 DEF EndReceived, sendVars
  <2>2. QED
    BY <1>1, <1>2, <1>6, <2>1
<1>10. CASE Pop(h)
  <2>1. UNCHANGED <<net, inHand>>
    BY <1>10 DEF Pop, listenVars
  <2>2. CASE outReady[h] = <<>>
    BY <1>2, <1>6, <1>10, <2>1, <2>2 DEF Pop
  <2>3. CASE outReady[h] # <<>>
    <3> DEFINE p == Head(outReady[h])
               e == [Blank EXCEPT !.reliable = p.reliable, !.id = p.id, !.msg = p.msg]
    <3>1. making' = [making EXCEPT ![h] = e]
      BY <1>10, <2>3 DEF Pop
    <3>2. e.ackId = InvalidId /\ e.acks = {}
      BY DEF Blank
    <3> HIDE DEF e
    <3>3. Sound(making'[g])
      BY <1>1, <1>2, <1>3, <3>1, <3>2
    <3>4. QED
      BY <1>6, <2>1, <3>3
  <2>4. QED
    BY <2>2, <2>3
<1>11. CASE LoadAckId(h)
  <2> DEFINE e == [making[h] EXCEPT !.ackId = ackId[h]]
  <2>1. /\ UNCHANGED <<net, inHand>> /\ sendAt[h] = "ackId"
        /\ making' = [making EXCEPT ![h] = e]
    BY <1>11 DEF LoadAckId, vars, listenVars
  <2>2. CASE g = h
    <3>1. e.ackId = ackId[g] /\ e.acks = {}
      BY <1>1, <2>1, <2>2 DEF PointsInv, Datagram
    <3>2. making'[g] = e
      BY <1>1, <2>1, <2>2
    <3> HIDE DEF e
    <3>3. Sound(making'[g])
      BY <1>1, <3>1, <3>2 DEF Sound, AckedIds
    <3>4. QED
      BY <1>6, <2>1, <3>3
  <2>3. CASE g # h
    BY <1>1, <1>2, <1>6, <2>1, <2>3
  <2>4. QED
    BY <2>2, <2>3
<1>12. CASE ReadBit(h)
  <2> DEFINE e == [making[h] EXCEPT !.acks = @ \cup {bit[h]}]
  <2>1. UNCHANGED <<net, inHand>>
    BY <1>12 DEF ReadBit, vars, listenVars
  <2>2. CASE making' = making
    BY <1>2, <1>6, <2>1, <2>2
  <2>3. CASE g = h /\ making' # making
    <3>1. making' = [making EXCEPT ![h] = e] /\ HasReceivedPacket(h, AckedByBit(h))
      BY <1>12, <2>3 DEF ReadBit
    <3>2. e.ackId = making[g].ackId /\ e.acks = making[g].acks \cup {bit[g]}
      BY <1>1, <2>3 DEF Datagram
    <3>3. making'[g] = e
      BY <1>1, <2>3, <3>1
    <3> HIDE DEF e
    <3>4. AckedIds(e) = AckedIds(making[g]) \cup {AckedByBit(g)}
      BY <3>2 DEF AckedIds, AckedByBit
    <3>5. Sound(making'[g])
      BY <1>2, <2>3, <3>1, <3>3, <3>4 DEF Sound, MayAck, HasOrStores
    <3>6. QED
      BY <1>6, <2>1, <3>5
  <2>4. CASE g # h
    <3>1. making'[g] = making[g]
      BY <1>1, <1>12, <2>4 DEF ReadBit
    <3>2. QED
      BY <1>2, <1>6, <2>1, <3>1
  <2>5. QED
    BY <2>2, <2>3, <2>4
<1>13. CASE SendTo(h)
  <2>1. /\ net' = [net EXCEPT ![Peer(h)] = @ \cup {making[h]}]
        /\ making' = [making EXCEPT ![h] = Blank] /\ UNCHANGED inHand
    BY <1>13 DEF SendTo, listenVars
  <2>2. QED
    BY <1>1, <1>2, <1>4, <1>6, <2>1
<1>14. QED
  BY <1>5, <1>7, <1>8, <1>9, <1>10, <1>11, <1>12, <1>13 DEF ThreadStep

\* The copy of a message is erased only by a header that acks its id.
LEMMA CopiesThreadStep ==
  ASSUME NoIdReuse, ThreadTypeOK, ThreadInv, NEW h \in Host, NEW g \in Host,
         \/ ThreadStep(h)
         \/ HostStep(h) /\ UNCHANGED <<listenVars, sendVars>>
  PROVE  CopiesKeptOrStored(g)'
<1>1. /\ TypeOK /\ Peer(g) \in Host /\ Peer(Peer(g)) = g
      /\ scheduled[g] \in Nat /\ outReliable[g] \in [Id -> Nat]
      /\ DOMAIN outReliable = Host
      /\ SenderInv(g) /\ CopiesKeptOrStored(g)
  BY PeerFacts DEF ThreadTypeOK, TypeOK, ThreadInv, DeliveryInv
<1>2. \A m \in 1 .. scheduled[g] : m \in Id /\ m # InvalidId
  <2>1. MaxReliable[g] \in Nat /\ MaxReliable[g] < MaxPossibleId
    BY ConnectionAssumption DEF NoIdReuse
  <2>2. QED
    BY <1>1, <2>1, MaxPossibleIdAssumption DEF SenderInv, Id, InvalidId
<1>3. \A id \in Id : HasOrStores(Peer(g), id) => HasOrStores(Peer(g), id)'
  BY <1>1, HasOrStoresGrows
<1>4. ASSUME UNCHANGED <<scheduled[g], outReliable[g]>>
      PROVE  CopiesKeptOrStored(g)'
  BY <1>1, <1>2, <1>3, <1>4 DEF CopiesKeptOrStored
<1>5. ASSUME UNCHANGED scheduled[g], NEW d \in net[g] \cup {inHand[g]},
             \A id \in Id : \/ outReliable'[g][id] = outReliable[g][id]
                            \/ id \in AckedIds(d)
      PROVE  CopiesKeptOrStored(g)'
  <2>1. \A id \in AckedIds(d) : id = InvalidId \/ HasOrStores(Peer(g), id)
    BY <1>1, <1>5 DEF ThreadInv, AcksReceived
  <2>2. ASSUME NEW m \in 1 .. scheduled[g]
        PROVE  outReliable'[g][m] = m \/ HasOrStores(Peer(g), m)'
    <3>1. m \in Id /\ m # InvalidId
      BY <1>2
    <3>2. outReliable[g][m] = m \/ HasOrStores(Peer(g), m)
      BY <1>1 DEF CopiesKeptOrStored
    <3>3. QED
      BY <1>3, <1>5, <2>1, <3>1, <3>2
  <2>3. QED
    BY <1>5, <2>2 DEF CopiesKeptOrStored
<1>6. CASE ScheduleReliable(h) /\ g = h
  <2> DEFINE id == scheduled[g] + 1
  <2>1. NextId(outSeq[g]) = id /\ id \in Id
    BY <1>1, <1>6, NextIdIsNextMessage DEF ScheduleReliable
  <2>2. /\ scheduled'[g] = id
        /\ outReliable'[g] = [outReliable[g] EXCEPT ![id] = id]
    BY <1>1, <1>6, <2>1 DEF ScheduleReliable, TypeOK
  <2>3. ASSUME NEW m \in 1 .. id
        PROVE  outReliable'[g][m] = m \/ HasOrStores(Peer(g), m)'
    <3>1. CASE m = id
      BY <1>1, <2>1, <2>2, <3>1
    <3>2. CASE m # id
      <4>1. m \in 1 .. scheduled[g]
        BY <1>1, <3>2
      <4>2. m \in Id
        BY <1>2, <4>1
      <4>3. outReliable'[g][m] = outReliable[g][m]
        BY <1>1, <2>1, <2>2, <3>2, <4>2
      <4>4. QED
        BY <1>1, <1>3, <4>1, <4>2, <4>3 DEF CopiesKeptOrStored
    <3>3. QED
      BY <3>1, <3>2
  <2>4. QED
    BY <2>2, <2>3 DEF CopiesKeptOrStored
<1>7. ASSUME NEW d \in net[h], Received(h, d), g = h
      PROVE  CopiesKeptOrStored(g)'
  <2>1. /\ outReliable'[g] =
             [id \in Id |-> IF id \in AckedIds(d) THEN Absent ELSE outReliable[g][id]]
        /\ UNCHANGED scheduled
    BY <1>1, <1>7 DEF Received, ProcessAcks
  <2>2. \A id \in Id : outReliable'[g][id] = outReliable[g][id] \/ id \in AckedIds(d)
    BY <2>1
  <2>3. QED
    BY <1>5, <1>7, <2>1, <2>2
<1>8. CASE ProcessAck(h) /\ g = h
  <2> DEFINE n  == turn[g]
             id == Minus(inHand[g].ackId, n)
  <2>1. UNCHANGED scheduled
    BY <1>8 DEF ProcessAck
  <2>2. CASE UNCHANGED outReliable
    BY <1>4, <2>1, <2>2
  <2>3. CASE /\ n = 0 \/ n \in inHand[g].acks
             /\ outReliable' = [outReliable EXCEPT ![g][id] = Absent]
    <3>1. id \in AckedIds(inHand[g])
      <4>1. CASE n = 0
        <5>1. inHand[g].ackId \in Nat
          BY MaxPossibleIdAssumption DEF ThreadTypeOK, Datagram, Id
        <5>2. id = inHand[g].ackId
          BY <4>1, <5>1 DEF Minus
        <5>3. QED
          BY <5>2 DEF AckedIds
      <4>2. CASE n \in inHand[g].acks
        BY <4>2 DEF AckedIds
      <4>3. QED
        BY <2>3, <4>1, <4>2
    <3> HIDE DEF id
    <3>2. outReliable'[g] = [outReliable[g] EXCEPT ![id] = Absent]
      BY <1>1, <2>3
    <3>3. \A i \in Id : outReliable'[g][i] = outReliable[g][i] \/ i \in AckedIds(inHand[g])
      BY <1>1, <3>1, <3>2
    <3>4. QED
      BY <1>5, <2>1, <3>3
  <2>4. QED
    BY <1>8, <2>2, <2>3 DEF ProcessAck
<1>9. ASSUME ThreadStep(h), ~ (ProcessAck(h) /\ g = h)
      PROVE  UNCHANGED <<scheduled[g], outReliable[g]>>
  BY <1>1, <1>9, ThreadStepFrame
     DEF ThreadStep, BeginReceived, ProcessAck, UpdateAckId, EndReceived,
         BeginPop, Pop, LoadAckId, ReadBit, SendTo, vars, outVars
<1>10. ASSUME HostStep(h), ~ (ScheduleReliable(h) /\ g = h),
              ~ (g = h /\ \E d \in net[h] : Received(h, d))
       PROVE  UNCHANGED <<scheduled[g], outReliable[g]>>
  BY <1>1, <1>10 DEF HostStep, ScheduleReliable, ScheduleUnreliable,
       PopReadyOutgoingPacket, PopReadyIncomingPacket, Received, ProcessAcks,
       Lose, outVars, TypeOK
<1>11. QED
  BY <1>4, <1>6, <1>7, <1>8, <1>9, <1>10

----------------------------------------------------------------------------
(* The invariant of the threads. *)

LEMMA ThreadInvInit == ThreadInit => ThreadInv
<1> SUFFICES ASSUME ThreadInit
             PROVE  ThreadInv
  OBVIOUS
<1>1. DeliveryInv
  BY DeliveryInit DEF ThreadInit
<1>2. ASSUME NEW h \in Host
      PROVE  /\ inHand[h] = Blank /\ making[h] = Blank /\ listenAt[h] = "idle"
             /\ scheduled[h] = 0 /\ ackId[h] = InvalidId /\ net[h] = {}
  BY DEF ThreadInit, Init
<1>3. ASSUME NEW h \in Host
      PROVE  /\ HandsGenuine(h) /\ PointsInv(h)
             /\ MayAck(h, ackId[h]) /\ CopiesKeptOrStored(h)
  BY <1>2, BlankFacts DEF HandsGenuine, Genuine, PointsInv, MayAck, CopiesKeptOrStored
<1>4. AckedIds(Blank) = {InvalidId}
  BY BlankFacts DEF AckedIds
<1>5. AcksReceived
  BY <1>2, <1>4, PeerFacts DEF AcksReceived
<1>6. QED
  BY <1>1, <1>3, <1>5 DEF ThreadInv

LEMMA ThreadInvStep ==
  ASSUME NoIdReuse, ThreadTypeOK, ThreadInv, [ThreadNext]_allVars
  PROVE  ThreadInv'
<1>1. CASE UNCHANGED allVars
  BY <1>1 DEF allVars, vars, outVars, inVars, listenVars, sendVars, ThreadInv,
       DeliveryInv, SenderInv, ReceiverInv, ReadyInv, HoldsUnderId, HasReceivedPacket,
       Genuine, HandsGenuine, PointsInv, MayAck, HasOrStores, CopiesKeptOrStored,
       AcksReceived
<1>2. CASE ThreadNext
  <2>1. PICK h \in Host :
          ThreadStep(h) \/ (HostStep(h) /\ UNCHANGED <<listenVars, sendVars>>)
    BY <1>2, CallOrThreadStep
  <2>2. DeliveryInv'
    <3>1. CASE ThreadStep(h)
      BY <3>1, SenderThreadStep, ReceiverThreadStep DEF DeliveryInv
    <3>2. CASE HostStep(h)
      BY <3>2, DeliveryStep DEF Next, ThreadTypeOK, ThreadInv
    <3>3. QED
      BY <2>1, <3>1, <3>2
  <2>3. ASSUME NEW g \in Host
        PROVE  HandsGenuine(g)' /\ PointsInv(g)'
    <3>1. CASE ThreadStep(h)
      BY <3>1, HandsThreadStep
    <3>2. CASE HostStep(h) /\ UNCHANGED <<listenVars, sendVars>>
      <4>1. \A f \in Host : /\ scheduled[f] \in Nat /\ scheduled'[f] \in Nat
                            /\ scheduled[f] <= scheduled'[f]
        <5>1. scheduled' = scheduled \/ scheduled' = [scheduled EXCEPT ![h] = @ + 1]
          BY <3>2 DEF HostStep, ScheduleReliable, ScheduleUnreliable,
               PopReadyOutgoingPacket, PopReadyIncomingPacket, Received, Lose, outVars
        <5>2. scheduled \in [Host -> Nat]
          BY DEF ThreadTypeOK, TypeOK
        <5>3. \A f \in Host : scheduled[f] + 1 \in Nat /\ scheduled[f] <= scheduled[f] + 1
          BY <5>2
        <5>4. CASE scheduled' = scheduled
          BY <5>2, <5>4
        <5>5. CASE scheduled' = [scheduled EXCEPT ![h] = scheduled[h] + 1]
          <6>1. \A f \in Host : \/ scheduled'[f] = scheduled[f]
                                \/ scheduled'[f] = scheduled[f] + 1
            BY <5>2, <5>5
          <6>2. QED
            BY <5>2, <5>3, <6>1
        <5>6. QED
          BY <5>1, <5>4, <5>5
      <4>2. /\ HandsGenuine(g) /\ PointsInv(g) /\ Peer(g) \in Host
            /\ UNCHANGED <<listenAt, inHand, sendAt, making>>
        BY <3>2, PeerFacts DEF ThreadInv, listenVars, sendVars
      <4>3. Genuine(Peer(g), inHand[g])' /\ Genuine(g, making[g])'
        BY <4>1, <4>2 DEF HandsGenuine, Genuine
      <4>4. QED
        BY <4>2, <4>3 DEF HandsGenuine, PointsInv
    <3>3. QED
      BY <2>1, <3>1, <3>2
  <2>4. ASSUME NEW g \in Host
        PROVE  MayAck(g, ackId[g])' /\ CopiesKeptOrStored(g)'
    BY <2>1, AckIdThreadStep, CopiesThreadStep
  <2>5. AcksReceived'
    <3> SUFFICES ASSUME NEW g \in Host,
                        NEW d \in net'[Peer(g)] \cup {inHand'[Peer(g)], making'[g]},
                        NEW id \in AckedIds(d)
                 PROVE  id = InvalidId \/ HasOrStores(g, id)'
      BY DEF AcksReceived
    <3>1. MayAck(g, id)
      BY <2>1, HeadersMayAck
    <3>2. id \in Id
      <4>1. ThreadTypeOK'
        BY ThreadTypeStep
      <4>2. /\ net'[Peer(g)] \subseteq Datagram
            /\ inHand'[Peer(g)] \in Datagram /\ making'[g] \in Datagram
        BY <4>1, PeerFacts DEF ThreadTypeOK, TypeOK
      <4>3. d \in Datagram
        BY <4>2
      <4>4. QED
        BY <4>3, AckedIdsType
    <3>3. QED
      BY <2>1, <3>1, <3>2, HasOrStoresGrows DEF MayAck
  <2>6. QED
    BY <2>2, <2>3, <2>4, <2>5 DEF ThreadInv
<1>3. QED
  BY <1>1, <1>2

\* However the threads of a host interleave inside Received and
\* PopReadyOutgoingPacket, what they have in hand is genuine and the headers they
\* make are sound: the inductive invariant behind the theorems below.
THEOREM ThreadInvariant ==
  ASSUME NoIdReuse
  PROVE  ThreadSpec => []ThreadInv
<1>1. ThreadInit => ThreadInv
  BY ThreadInvInit
<1>2. ThreadTypeOK /\ ThreadInv /\ [ThreadNext]_allVars => ThreadInv'
  BY ThreadInvStep
<1>3. QED
  BY <1>1, <1>2, ThreadTypeCorrect, PTL DEF ThreadSpec

----------------------------------------------------------------------------
(* What follows for the running program. *)

\* Reliable messages are delivered in order, each once and with none left out,
\* though the send thread looks at what is received while the listen thread is
\* inside Received.
THEOREM ThreadsDeliverInOrder ==
  ASSUME NoIdReuse
  PROVE  ThreadSpec => []InOrder
<1>1. ThreadInv => InOrder
  BY DEF ThreadInv, DeliveryInv, ReceiverInv, InOrder
<1>2. QED
  BY <1>1, ThreadInvariant, PTL

\* Every header acks only what its host has received or is about to store, also
\* one gathered while UpdateAckId has run and the packet is not stored yet, or
\* over several packets.
THEOREM ThreadsAckReceived ==
  ASSUME NoIdReuse
  PROVE  ThreadSpec => []AcksReceived
<1>1. ThreadInv => AcksReceived
  BY DEF ThreadInv
<1>2. QED
  BY <1>1, ThreadInvariant, PTL

\* PacketAcked never erases the only copy of a message: its peer has it, or holds
\* incoming.lock and is about to store it.
THEOREM ThreadsNeverForget ==
  ASSUME NoIdReuse
  PROVE  ThreadSpec => []ForgottenIsStored
<1>1. ThreadTypeOK /\ ThreadInv => ForgottenIsStored
  <2> SUFFICES ASSUME ThreadTypeOK, ThreadInv, NEW h \in Host,
                      NEW m \in 1 .. scheduled[h]
               PROVE  m \in Range(outReliable[h]) \cup MessagesAt(Peer(h))
                              \cup BeingStored(Peer(h))
    BY DEF ForgottenIsStored
  <2>1. m \in Id
    <3>1. /\ MaxReliable[h] \in Nat /\ MaxReliable[h] < MaxPossibleId
          /\ scheduled[h] \in Nat /\ scheduled[h] <= MaxReliable[h]
      BY ConnectionAssumption
         DEF NoIdReuse, ThreadTypeOK, TypeOK, ThreadInv, DeliveryInv, SenderInv
    <3>2. QED
      BY <3>1, MaxPossibleIdAssumption DEF Id
  <2>2. /\ Peer(h) \in Host
        /\ DOMAIN outReliable[h] = Id /\ DOMAIN inReliable[Peer(h)] = Id
    BY PeerFacts DEF ThreadTypeOK, TypeOK
  <2>3. CASE outReliable[h][m] = m
    BY <2>1, <2>2, <2>3 DEF Range
  <2>4. CASE HasReceivedPacket(Peer(h), m)
    <3>1. inReliable[Peer(h)][m] = m
      BY <2>1, <2>2, <2>4
         DEF ThreadInv, DeliveryInv, ReceiverInv, HoldsUnderId, HasReceivedPacket
    <3>2. QED
      BY <2>1, <2>2, <3>1 DEF Range, MessagesAt
  <2>5. CASE /\ listenAt[Peer(h)] = "store" /\ inHand[Peer(h)].reliable
             /\ inHand[Peer(h)].id = m
    BY <2>2, <2>5, InHandIsGenuine DEF BeingStored
  <2>6. QED
    BY <2>3, <2>4, <2>5 DEF ThreadInv, CopiesKeptOrStored, HasOrStores
<1>2. QED
  BY <1>1, ThreadTypeCorrect, ThreadInvariant, PTL

\* The messages of the client make an ordered stream without gaps: a step inside
\* a call is no step of the stream.
THEOREM ThreadsImplementStream ==
  ASSUME NoIdReuse
  PROVE  ThreadSpec => StreamToServer
<1>1. ThreadInit => ToServer!Init
  BY ClientAndServer DEF ThreadInit, Init, ToServer!Init
<1>2. ThreadTypeOK /\ ThreadInv /\ [ThreadNext]_allVars
        => [ToServer!Next]_(ToServer!vars)
  <2> SUFFICES ASSUME ThreadTypeOK, ThreadInv, [ThreadNext]_allVars
               PROVE  [ToServer!Next]_(ToServer!vars)
    OBVIOUS
  <2>1. CASE UNCHANGED <<scheduled, delivered>>
    BY <2>1 DEF ToServer!vars
  <2>2. CASE [Next]_vars
    <3>1. TypeOK /\ DeliveryInv
      BY <2>2 DEF ThreadTypeOK, ThreadInv
    <3>2. QED
      BY <2>2, <3>1, PopIncomingDelivers, StreamStep, ClientAndServer
         DEF DeliveryInv, ToServer!Next, ToServer!Send, ToServer!Deliver,
             ToServer!vars
  <2>3. [Next]_vars \/ UNCHANGED <<scheduled, delivered>>
    BY CallOrThreadStep, ThreadStepFrame DEF Next, allVars, vars
  <2>4. QED
    BY <2>1, <2>2, <2>3
<1>3. QED
  BY <1>1, <1>2, ThreadTypeCorrect, ThreadInvariant, PTL
     DEF ThreadSpec, StreamToServer, ToServer!Spec

----------------------------------------------------------------------------
(* The latest id, and nothing held back.  *)

\* The id of a packet received or in hand is that of a message of the peer.
LEMMA HasOrStoresIsSent ==
  ASSUME NoIdReuse, ThreadTypeOK, ThreadInv, NEW g \in Host, NEW id \in Id,
         HasOrStores(g, id)
  PROVE  id \in 1 .. scheduled[Peer(g)]
<1>1. /\ Peer(g) \in Host /\ scheduled[Peer(g)] \in Nat /\ id \in Nat
      /\ ReceiverInv(g) /\ HandsGenuine(g)
  <2>1. Peer(g) \in Host /\ scheduled[Peer(g)] \in Nat
    BY PeerFacts DEF ThreadTypeOK, TypeOK
  <2>2. id \in Nat
    BY MaxPossibleIdAssumption DEF Id
  <2>3. ReceiverInv(g) /\ HandsGenuine(g)
    BY DEF ThreadInv, DeliveryInv
  <2>4. QED
    BY <2>1, <2>2, <2>3
<1>2. CASE HasReceivedPacket(g, id)
  <2>1. /\ inReliable[g][id] \in {Absent, id} /\ inReliable[g][id] # Absent
        /\ inReliable[g][id] <= scheduled[Peer(g)]
    BY <1>1, <1>2 DEF ReceiverInv, HoldsUnderId, HasReceivedPacket
  <2>2. QED
    BY <1>1, <2>1 DEF Absent
<1>3. CASE inHand[g].reliable /\ inHand[g].id = id
  BY <1>1, <1>3 DEF HandsGenuine, Genuine
<1>4. QED
  BY <1>2, <1>3 DEF HasOrStores

\* Among the ids of messages at most HalfId apart, UpdateAckId takes the greater.
LEMMA UpdateTakesGreater ==
  ASSUME NoHalfwaySpread, ThreadTypeOK, ThreadInv, NEW g \in Host,
         NEW id \in 1 .. scheduled[Peer(g)]
  PROVE  /\ ackId[g] \in Nat /\ id \in Nat
         /\ UpdatedAckId(g, id) = IF id >= ackId[g] THEN id ELSE ackId[g]
<1>1. /\ Peer(g) \in Host /\ scheduled[Peer(g)] \in Nat /\ ackId[g] \in Id
      /\ MaxReliable[Peer(g)] \in Nat /\ MaxReliable[Peer(g)] <= HalfId
      /\ scheduled[Peer(g)] <= MaxReliable[Peer(g)]
      /\ NoIdReuse /\ HalfId \in Nat
  BY PeerFacts, ConnectionAssumption, HalfwayIsNoReuse
     DEF NoHalfwaySpread, ThreadTypeOK, TypeOK, ThreadInv, DeliveryInv, SenderInv
<1>2. id \in 1 .. HalfId /\ ackId[g] \in Nat
  BY <1>1, MaxPossibleIdAssumption DEF Id
<1>3. ackId[g] = 0 \/ ackId[g] \in 1 .. scheduled[Peer(g)]
  BY <1>1, HasOrStoresIsSent DEF ThreadInv, MayAck, InvalidId
<1>4. ackId[g] \in 0 .. HalfId
  BY <1>1, <1>3
<1>5. QED
  BY <1>2, <1>4, LaterIsGreater DEF UpdatedAckId

\* A step publishes an id, and the ack id is then the greater of the two, or it
\* leaves the ack id and what is received or in hand alone.
LEMMA AckIdMoves ==
  ASSUME ThreadTypeOK, ThreadInv, NEW h \in Host, NEW g \in Host,
         \/ ThreadStep(h)
         \/ HostStep(h) /\ UNCHANGED <<listenVars, sendVars>>
  PROVE  \/ /\ ackId'[g] = ackId[g]
            /\ \A id \in Id : HasOrStores(g, id)' => HasOrStores(g, id)
         \/ \E new \in 1 .. scheduled[Peer(g)] :
              /\ ackId'[g] = UpdatedAckId(g, new)
              /\ \A id \in Id : HasOrStores(g, id)' => HasOrStores(g, id) \/ id = new
<1> DEFINE Stays == /\ ackId'[g] = ackId[g]
                    /\ \A id \in Id : HasOrStores(g, id)' => HasOrStores(g, id)
           Takes(new) ==
             /\ ackId'[g] = UpdatedAckId(g, new)
             /\ \A id \in Id : HasOrStores(g, id)' => HasOrStores(g, id) \/ id = new
<1> SUFFICES Stays \/ \E new \in 1 .. scheduled[Peer(g)] : Takes(new)
  OBVIOUS
<1> HIDE DEF Stays, Takes
<1>1. /\ TypeOK /\ DeliveryInv /\ PointsInv(g) /\ HandsGenuine(g)
      /\ inReliable[g] \in [Id -> Nat]
      /\ DOMAIN inReliable = Host /\ DOMAIN ackId = Host
      /\ DOMAIN listenAt = Host /\ DOMAIN inHand = Host
  BY DEF ThreadTypeOK, TypeOK, ThreadInv
<1>2. ASSUME HostStep(h), UNCHANGED <<listenVars, sendVars>>
      PROVE  Stays \/ \E new \in 1 .. scheduled[Peer(g)] : Takes(new)
  <2>1. UNCHANGED <<listenAt, inHand>>
    BY <1>2 DEF listenVars
  <2>2. CASE UNCHANGED <<inReliable[g], ackId[g]>>
    BY <2>1, <2>2 DEF HasOrStores, HasReceivedPacket, Stays
  <2>3. ASSUME NEW d \in net[h], Received(h, d), g = h, d.reliable
        PROVE  \E new \in 1 .. scheduled[Peer(g)] : Takes(new)
    <3>1. d.id \in 1 .. scheduled[Peer(g)] /\ d.id \in Id
      BY <1>1, <2>3, ReceivedIsGenuine
    <3>2. /\ inReliable'[g] = [inReliable[g] EXCEPT ![d.id] = d.msg]
          /\ ackId'[g] = UpdatedAckId(g, d.id)
      BY <1>1, <2>3 DEF Received, StoreAndEnqueue
    <3>3. Takes(d.id)
      BY <1>1, <2>1, <3>1, <3>2 DEF HasOrStores, HasReceivedPacket, Takes
    <3>4. QED
      BY <3>1, <3>3
  <2>4. ASSUME ~ \E d \in net[h] : Received(h, d) /\ g = h /\ d.reliable
        PROVE  UNCHANGED <<inReliable[g], ackId[g]>>
    BY <1>1, <1>2, <2>4 DEF HostStep, ScheduleReliable, ScheduleUnreliable,
       StoreAndEnqueue, PopReadyOutgoingPacket, PopReadyIncomingPacket, Received,
       Lose, inVars
  <2>5. QED
    BY <2>2, <2>3, <2>4
<1>3. ASSUME inHand[g].reliable
      PROVE  inHand[g].id \in 1 .. scheduled[Peer(g)]
  BY <1>1, <1>3 DEF HandsGenuine, Genuine
<1>4. CASE UpdateAckId(h) /\ g = h
  <2>1. /\ UNCHANGED <<inReliable, inHand>> /\ listenAt[g] = "update"
        /\ ackId'[g] = UpdatedAckId(g, inHand[g].id)
    BY <1>1, <1>4 DEF UpdateAckId
  <2>2. Takes(inHand[g].id)
    BY <2>1 DEF HasOrStores, HasReceivedPacket, Takes
  <2>3. inHand[g].reliable
    BY <1>1, <2>1 DEF PointsInv
  <2>4. QED
    BY <1>3, <2>2, <2>3
<1>5. CASE EndReceived(h) /\ g = h
  <2>1. listenAt'[g] = "idle"
    BY <1>1, <1>5 DEF EndReceived
  <2>2. CASE inHand[h].reliable
    <3>1. /\ ackId'[g] = UpdatedAckId(g, inHand[g].id)
          /\ inReliable'[g] = [inReliable[g] EXCEPT ![inHand[g].id] = inHand[g].msg]
      BY <1>1, <1>5, <2>2 DEF EndReceived, StoreAndEnqueue
    <3>2. Takes(inHand[g].id)
      BY <1>1, <2>1, <3>1 DEF HasOrStores, HasReceivedPacket, Takes
    <3>3. QED
      BY <1>3, <1>5, <2>2, <3>2
  <2>3. CASE ~ inHand[h].reliable
    BY <1>5, <2>1, <2>3 DEF EndReceived, HasOrStores, HasReceivedPacket, Stays
  <2>4. QED
    BY <2>2, <2>3
<1>6. ASSUME ThreadStep(h), ~ (UpdateAckId(h) /\ g = h), ~ (EndReceived(h) /\ g = h)
      PROVE  Stays
  <2>1. ackId'[g] = ackId[g] /\ inReliable'[g] = inReliable[g]
    BY <1>1, <1>6
       DEF ThreadStep, BeginReceived, ProcessAck, UpdateAckId, EndReceived,
           StoreAndEnqueue, BeginPop, Pop, LoadAckId, ReadBit, SendTo, vars, inVars
  <2>2. listenAt'[g] = "store" /\ inHand'[g].reliable =>
          inHand'[g] = inHand[g] /\ (listenAt[g] = "store" \/ ProcessAck(h))
    BY <1>1, <1>6
       DEF ThreadStep, BeginReceived, ProcessAck, UpdateAckId, EndReceived,
           BeginPop, Pop, LoadAckId, ReadBit, SendTo, listenVars
  <2>3. ASSUME ProcessAck(h), listenAt'[g] = "store", inHand'[g].reliable
        PROVE  listenAt[g] = "store"
    BY <1>1, <2>3 DEF ProcessAck
  <2>4. QED
    BY <2>1, <2>2, <2>3 DEF HasOrStores, HasReceivedPacket, Stays
<1>7. QED
  BY <1>2, <1>4, <1>5, <1>6

LEMMA LatestThreadStep ==
  ASSUME NoHalfwaySpread, ThreadTypeOK, ThreadInv, LatestInv, [ThreadNext]_allVars
  PROVE  LatestInv'
<1>1. CASE UNCHANGED allVars
  BY <1>1 DEF allVars, vars, inVars, listenVars, LatestInv, HasOrStores,
              HasReceivedPacket
<1>2. CASE ThreadNext
  <2> SUFFICES ASSUME NEW g \in Host, NEW id \in Id, HasOrStores(g, id)'
               PROVE  id <= ackId'[g]
    BY DEF LatestInv
  <2>1. PICK h \in Host :
          ThreadStep(h) \/ (HostStep(h) /\ UNCHANGED <<listenVars, sendVars>>)
    BY <1>2, CallOrThreadStep
  <2>2. HasOrStores(g, id) => id <= ackId[g]
    BY DEF LatestInv
  <2>3. id \in Nat
    BY MaxPossibleIdAssumption DEF Id
  <2>4. ASSUME NEW new \in 1 .. scheduled[Peer(g)],
               ackId'[g] = UpdatedAckId(g, new),
               HasOrStores(g, id) \/ id = new
        PROVE  id <= ackId'[g]
    BY <2>2, <2>3, <2>4, UpdateTakesGreater
  <2>5. \/ ackId'[g] = ackId[g] /\ HasOrStores(g, id)
        \/ \E new \in 1 .. scheduled[Peer(g)] :
             ackId'[g] = UpdatedAckId(g, new) /\ (HasOrStores(g, id) \/ id = new)
    BY <2>1, AckIdMoves
  <2>6. QED
    BY <2>2, <2>4, <2>5
<1>3. QED
  BY <1>1, <1>2

\* While no two ids of a host are HalfId or more apart, the ack id that the send
\* thread reads without a lock is never below the id of a packet that is stored,
\* or whose Received has passed UpdateAckId.
THEOREM ThreadsAckLatest ==
  ASSUME NoHalfwaySpread
  PROVE  ThreadSpec => []LatestInv
<1>1. NoIdReuse
  BY HalfwayIsNoReuse
<1>2. ThreadInit => LatestInv
  BY DEF ThreadInit, Init, LatestInv, HasOrStores, HasReceivedPacket
<1>3. ThreadTypeOK /\ ThreadInv /\ LatestInv /\ [ThreadNext]_allVars => LatestInv'
  BY LatestThreadStep
<1>4. QED
  BY <1>1, <1>2, <1>3, ThreadTypeCorrect, ThreadInvariant, PTL DEF ThreadSpec

LEMMA StallThreadStep ==
  ASSUME NoHalfwaySpread, ThreadTypeOK, ThreadInv, LatestInv, NoStall,
         [ThreadNext]_allVars
  PROVE  NoStall'
<1>1. /\ ThreadTypeOK' /\ ThreadInv' /\ LatestInv'
      /\ TypeOK /\ DeliveryInv /\ TypeOK' /\ DeliveryInv'
  BY ThreadTypeStep, ThreadInvStep, LatestThreadStep, HalfwayIsNoReuse
     DEF ThreadTypeOK, ThreadInv
<1>2. NothingAboveAckId'
  BY <1>1 DEF LatestInv, HasOrStores, NothingAboveAckId
<1>3. CASE [Next]_vars
  BY <1>1, <1>2, <1>3, StallStep
<1>4. ASSUME NEW h \in Host, ThreadStep(h)
      PROVE  NoStall'
  <2> SUFFICES ASSUME NEW g \in Host
               PROVE  ~ HasReceivedPacket(g, NextId(inSeq[g]))'
    BY DEF NoStall
  <2>1. CASE UNCHANGED <<inReliable[g], inSeq[g]>>
    BY <2>1 DEF NoStall, HasReceivedPacket, NextId
  <2>2. CASE EndReceived(h) /\ g = h /\ inHand[h].reliable
    <3>1. StoreAndEnqueue(h, inHand[h]) /\ UNCHANGED scheduled
      BY <2>2 DEF EndReceived, outVars
    <3>2. QED
      BY <1>1, <1>2, <2>2, <3>1, LoopLeavesNothing
  <2>3. ASSUME ~ (EndReceived(h) /\ g = h /\ inHand[h].reliable)
        PROVE  UNCHANGED <<inReliable[g], inSeq[g]>>
    <3>1. CASE EndReceived(h) /\ inHand[h].reliable
      BY <1>1, <2>3, <3>1, StoresAtOneHost DEF EndReceived
    <3>2. CASE ~ (EndReceived(h) /\ inHand[h].reliable)
      BY <1>4, <3>2
         DEF ThreadStep, BeginReceived, ProcessAck, UpdateAckId, EndReceived, BeginPop,
             Pop, LoadAckId, ReadBit, SendTo, vars, inVars
    <3>3. QED
      BY <3>1, <3>2
  <2>4. QED
    BY <2>1, <2>2, <2>3
<1>5. QED
  BY <1>3, <1>4, CallOrThreadStep DEF Next, allVars

\* Publishing the ack id before the packet is stored costs nothing: when Received
\* ends, no message is left behind whose predecessors have all been released.
THEOREM ThreadsNeverStall ==
  ASSUME NoHalfwaySpread
  PROVE  ThreadSpec => []NoStall
<1>1. NoIdReuse
  BY HalfwayIsNoReuse
<1>2. ThreadInit => NoStall
  BY StallInit DEF ThreadInit
<1>3. ThreadTypeOK /\ ThreadInv /\ LatestInv /\ NoStall /\ [ThreadNext]_allVars
        => NoStall'
  BY StallThreadStep
<1>4. QED
  BY <1>1, <1>2, <1>3, ThreadTypeCorrect, ThreadInvariant, ThreadsAckLatest, PTL
     DEF ThreadSpec

----------------------------------------------------------------------------
(* What a header asks for.  *)

\* A message the peer lacks is above the sequence number of the peer, and so
\* within MaxAhead of every ack id.
LEMMA MissingIsAskedFor ==
  ASSUME NoIdReuse, MaxAhead <= AckCount + 1, ThreadTypeOK, ThreadInv, AheadInv,
         NEW h \in Host, NEW d \in net[h] \cup {inHand[h]},
         NEW m \in 1 .. d.ackId, ~ HasOrStores(Peer(h), m)
  PROVE  /\ outReliable[h][m] = m
         /\ \E n \in (1 .. AckCount) \ d.acks : Minus(d.ackId, n) = m
<1> DEFINE peer == Peer(h)
           n    == d.ackId - m
<1>1. /\ peer \in Host /\ Peer(peer) = h /\ d \in Datagram
      /\ d.ackId \in Id /\ d.ackId \in Nat /\ m \in Id /\ m # InvalidId
  <2>1. peer \in Host /\ Peer(peer) = h
    BY PeerFacts
  <2>2. d \in Datagram
    BY DEF ThreadTypeOK, TypeOK
  <2>3. d.ackId \in Id
    BY <2>2 DEF Datagram
  <2>4. QED
    BY <2>1, <2>2, <2>3, MaxPossibleIdAssumption DEF Id, InvalidId
<1>2. \A id \in AckedIds(d) : id = InvalidId \/ HasOrStores(peer, id)
  BY <1>1 DEF ThreadInv, AcksReceived
<1>3. HasOrStores(peer, d.ackId) /\ d.ackId # m
  <2>1. d.ackId # InvalidId
    BY <1>1 DEF InvalidId
  <2>2. QED
    BY <1>2, <2>1 DEF AckedIds
<1>4. d.ackId <= scheduled[h]
  BY <1>1, <1>3, HasOrStoresIsSent
<1>5. m > inSeq[peer]
  <2>1. inSeq[peer] \in Nat
    BY <1>1, MaxPossibleIdAssumption DEF ThreadTypeOK, TypeOK, Id
  <2>2. \A id \in 1 .. inSeq[peer] : HasReceivedPacket(peer, id)
    BY <1>1 DEF ThreadInv, DeliveryInv, ReceiverInv
  <2>3. QED
    BY <1>1, <2>1, <2>2 DEF HasOrStores
<1>6. n \in 1 .. AckCount /\ m = d.ackId - n /\ m \in 1 .. scheduled[h]
  <2>1. /\ scheduled[h] \in Nat /\ inSeq[peer] \in Nat /\ MaxAhead \in Nat
        /\ Len(delivered[peer]) \in Nat
    <3>1. delivered[peer] \in Seq(Nat)
      BY <1>1 DEF ThreadTypeOK, TypeOK
    <3>2. inSeq[peer] \in Nat
      BY <1>1, MaxPossibleIdAssumption DEF ThreadTypeOK, TypeOK, Id
    <3>3. QED
      BY <3>1, <3>2, LenProperties, ConnectionAssumption DEF ThreadTypeOK, TypeOK
  <2>2. Len(delivered[peer]) <= inSeq[peer]
    BY <1>1 DEF ThreadInv, DeliveryInv, ReceiverInv
  <2>3. scheduled[h] <= Len(delivered[peer]) + MaxAhead
    BY DEF AheadInv
  <2>4. d.ackId \in Nat /\ m \in 1 .. d.ackId /\ d.ackId # m
    BY <1>1, <1>3
  <2> HIDE DEF peer
  <2>5. d.ackId <= inSeq[peer] + MaxAhead
    BY <1>4, <2>1, <2>2, <2>3, <2>4 DEF peer
  <2>6. n \in 1 .. AckCount
    BY <1>5, <2>1, <2>4, <2>5, SMTT(30) DEF AckCount
  <2>7. m = d.ackId - n /\ m \in 1 .. scheduled[h]
    BY <1>4, <2>1, <2>4
  <2>8. QED
    BY <2>6, <2>7
<1>7. Minus(d.ackId, n) = m
  BY <1>1, <1>6 DEF Minus, AckCount
<1>8. n \notin d.acks
  BY <1>1, <1>2, <1>7 DEF AckedIds
<1>9. outReliable[h][m] = m
  BY <1>6 DEF ThreadInv, CopiesKeptOrStored
<1> HIDE DEF n
<1>10. QED
  BY <1>6, <1>7, <1>8, <1>9

\* With at most AckCount + 1 messages ahead of the application, no header is too
\* old to make its receiver resend what the peer lacks below the ack id: neither
\* the bits gathered one by one, nor the packets stored meanwhile, hide a message.
THEOREM ThreadsAskForMissing ==
  ASSUME NoIdReuse, MaxAhead <= AckCount + 1
  PROVE  ThreadSpec => []AsksForMissing
<1>1. ThreadInit => AheadInv
  BY AheadInit DEF ThreadInit
<1>2. ThreadTypeOK /\ ThreadInv /\ AheadInv /\ [ThreadNext]_allVars => AheadInv'
  <2> SUFFICES ASSUME ThreadTypeOK, ThreadInv, AheadInv, [ThreadNext]_allVars
               PROVE  AheadInv'
    OBVIOUS
  <2>1. CASE [Next]_vars
    BY <2>1, AheadStep DEF ThreadTypeOK, ThreadInv
  <2>2. CASE UNCHANGED <<scheduled, delivered>>
    BY <2>2 DEF AheadInv
  <2>3. [Next]_vars \/ UNCHANGED <<scheduled, delivered>>
    BY CallOrThreadStep, ThreadStepFrame DEF Next, allVars, vars
  <2>4. QED
    BY <2>1, <2>2, <2>3
<1>3. ThreadTypeOK /\ ThreadInv /\ AheadInv => AsksForMissing
  BY MissingIsAskedFor DEF AsksForMissing
<1>4. QED
  BY <1>1, <1>2, <1>3, ThreadTypeCorrect, ThreadInvariant, PTL DEF ThreadSpec
============================================================================
