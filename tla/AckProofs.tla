---------------------------- MODULE AckProofs ----------------------------
(***************************************************************************)
(* Acks are sound: a host erases its copy of a reliable message only when  *)
(* its peer has the message.                                               *)
(***************************************************************************)
EXTENDS DeliveryProofs

----------------------------------------------------------------------------
(* What a step changes. *)

\* A datagram to h is a packet of its peer: a reliable one carries a message
\* under the id that is its ordinal.
LEMMA ReceivedIsGenuine ==
  ASSUME TypeOK, DeliveryInv, NEW h \in Host, NEW d \in net[h], d.reliable
  PROVE  d.msg = d.id /\ d.id \in 1 .. scheduled[Peer(h)] /\ d.id \in Id
<1>1. Genuine(Peer(h), d)
  BY PeerFacts DEF DeliveryInv, SenderInv
<1>2. scheduled[Peer(h)] \in Nat /\ d.id \in Id
  BY PeerFacts DEF TypeOK, Datagram
<1>3. QED
  BY <1>1, <1>2 DEF Genuine

\* The store of received packets only grows, and an ack id that moves is the id
\* of a packet just stored.
LEMMA ReceivedGrows ==
  ASSUME TypeOK, DeliveryInv, NEW h \in Host, HostStep(h), NEW g \in Host
  PROVE  /\ \A id \in Id : HasReceivedPacket(g, id) => HasReceivedPacket(g, id)'
         /\ \/ ackId'[g] = ackId[g]
            \/ HasReceivedPacket(g, ackId[g])'
<1>1. ASSUME UNCHANGED <<inReliable[g], ackId[g]>>
      PROVE  /\ \A id \in Id : HasReceivedPacket(g, id) => HasReceivedPacket(g, id)'
             /\ ackId'[g] = ackId[g]
  BY <1>1 DEF HasReceivedPacket
<1>2. ASSUME NEW d \in net[h], Received(h, d), g = h, d.reliable
      PROVE  /\ \A id \in Id : HasReceivedPacket(g, id) => HasReceivedPacket(g, id)'
             /\ ackId'[g] = ackId[g] \/ HasReceivedPacket(g, ackId[g])'
  <2>1. /\ inReliable'[g] = [inReliable[g] EXCEPT ![d.id] = d.msg]
        /\ ackId'[g] = UpdatedAckId(g, d.id)
    BY <1>2 DEF Received, StoreAndEnqueue, TypeOK
  <2>2. d.msg # Absent /\ d.id \in Id
    <3>1. scheduled[Peer(h)] \in Nat
      BY PeerFacts DEF TypeOK
    <3>2. QED
      BY <1>2, <3>1, ReceivedIsGenuine DEF Absent
  <2>3. inReliable[g] \in [Id -> Nat]
    BY DEF TypeOK
  <2>4. \A id \in Id : HasReceivedPacket(g, id) => HasReceivedPacket(g, id)'
    BY <2>1, <2>2, <2>3 DEF HasReceivedPacket
  <2>5. ackId'[g] = d.id \/ ackId'[g] = ackId[g]
    BY <2>1 DEF UpdatedAckId
  <2>6. inReliable'[g][d.id] # Absent
    BY <2>1, <2>2, <2>3
  <2>7. QED
    BY <2>4, <2>5, <2>6 DEF HasReceivedPacket
<1>3. ASSUME NEW d \in net[h], Received(h, d), ~ (g = h /\ d.reliable)
      PROVE  UNCHANGED <<inReliable[g], ackId[g]>>
  BY <1>3 DEF Received, StoreAndEnqueue, TypeOK
<1>4. ASSUME ~ \E d \in net[h] : Received(h, d)
      PROVE  UNCHANGED <<inReliable[g], ackId[g]>>
  BY <1>4 DEF HostStep, ScheduleReliable, ScheduleUnreliable,
              PopReadyOutgoingPacket, PopReadyIncomingPacket, Lose, inVars
<1>5. QED
  BY <1>1, <1>2, <1>3, <1>4

\* The ids a header acks are ids.
LEMMA AckedIdsType ==
  ASSUME NEW d \in Datagram
  PROVE  AckedIds(d) \subseteq Id
<1>1. d.ackId \in Id
  BY DEF Datagram
<1>2. \A n \in d.acks : n \in Id
  BY ConnectionAssumption, MaxPossibleIdAssumption DEF Datagram, AckCount, Id
<1>3. QED
  BY <1>1, <1>2, IdArithmetic DEF AckedIds

\* A header made by AddAckHeader is sound.
LEMMA NewHeaderIsSound ==
  ASSUME NEW h \in Host, NEW p,
         ackId[h] = InvalidId \/ HasReceivedPacket(h, ackId[h])
  PROVE  SoundHeader(h, AddAckHeader(h, p))
<1> DEFINE d == AddAckHeader(h, p)
<1>1. /\ d.ackId = ackId[h]
      /\ d.acks = {n \in 1 .. AckCount : HasReceivedPacket(h, Minus(ackId[h], n))}
  BY DEF AddAckHeader
<1> HIDE DEF d
<1>2. QED
  BY <1>1 DEF SoundHeader, AckedIds, d

----------------------------------------------------------------------------
(* The invariant. *)

\* A datagram in flight after a step was in flight before it, or has just been
\* made by AddAckHeader.
LEMMA NewDatagrams ==
  ASSUME TypeOK, NEW h \in Host, HostStep(h), NEW g \in Host,
         NEW d \in net'[Peer(g)]
  PROVE  d \in net[Peer(g)] \/ \E p : d = AddAckHeader(g, p)
<1>1. CASE PopReadyOutgoingPacket(h)
  <2>1. net' = [net EXCEPT ![Peer(h)] = @ \cup {AddAckHeader(h, Head(outReady[h]))}]
    BY <1>1 DEF PopReadyOutgoingPacket
  <2>2. Peer(g) = Peer(h) => g = h
    BY PeerFacts
  <2>3. QED
    BY <2>1, <2>2, PeerFacts DEF TypeOK
<1>2. CASE ~ PopReadyOutgoingPacket(h)
  <2>1. net'[Peer(g)] \subseteq net[Peer(g)]
    <3>1. CASE ScheduleReliable(h) \/ ScheduleUnreliable(h) \/ PopReadyIncomingPacket(h)
      BY <3>1 DEF ScheduleReliable, ScheduleUnreliable, PopReadyIncomingPacket
    <3>2. ASSUME NEW e \in net[h], Received(h, e) \/ Lose(h, e)
          PROVE  net'[Peer(g)] \subseteq net[Peer(g)]
      <4>1. net' = net \/ net' = [net EXCEPT ![h] = @ \ {e}]
        BY <3>2 DEF Received, Lose
      <4>2. Peer(g) \in Host /\ DOMAIN net = Host
        BY PeerFacts DEF TypeOK
      <4>3. QED
        BY <4>1, <4>2
    <3>3. QED
      BY <1>2, <3>1, <3>2 DEF HostStep
  <2>2. QED
    BY <2>1
<1>3. QED
  BY <1>1, <1>2

\* A copy is erased only by a header that acks its id.
LEMMA CopiesStayKept ==
  ASSUME NoIdReuse, TypeOK, DeliveryInv, AckInv,
         NEW h \in Host, HostStep(h), NEW g \in Host
  PROVE  CopiesKept(g)'
<1>1. /\ Peer(g) \in Host /\ CopiesKept(g) /\ scheduled[g] \in Nat
      /\ outReliable[g] \in [Id -> Nat] /\ SenderInv(g)
  BY PeerFacts DEF AckInv, TypeOK, DeliveryInv
<1>2. \A m \in 1 .. scheduled[g] : m \in Id /\ m # InvalidId
  <2>1. MaxReliable[g] \in Nat /\ MaxReliable[g] < MaxPossibleId
    BY ConnectionAssumption DEF NoIdReuse
  <2>2. QED
    BY <1>1, <2>1, MaxPossibleIdAssumption DEF SenderInv, Id, InvalidId
<1>3. \A id \in Id : HasReceivedPacket(Peer(g), id) => HasReceivedPacket(Peer(g), id)'
  BY <1>1, ReceivedGrows
<1>4. ASSUME UNCHANGED <<scheduled[g], outReliable[g]>>
      PROVE  CopiesKept(g)'
  BY <1>1, <1>2, <1>3, <1>4 DEF CopiesKept
<1>5. CASE ScheduleReliable(h) /\ g = h
  <2> DEFINE id == scheduled[g] + 1
  <2>1. NextId(outSeq[g]) = id /\ id \in Id
    BY <1>1, <1>5, NextIdIsNextMessage DEF ScheduleReliable
  <2>2. /\ scheduled'[g] = id
        /\ outReliable'[g] = [outReliable[g] EXCEPT ![id] = id]
    BY <1>5, <2>1 DEF ScheduleReliable, TypeOK
  <2>3. ASSUME NEW m \in 1 .. id
        PROVE  outReliable'[g][m] = m \/ HasReceivedPacket(Peer(g), m)'
    <3>1. CASE m = id
      BY <1>1, <2>1, <2>2, <3>1
    <3>2. CASE m # id
      <4>1. m \in 1 .. scheduled[g]
        BY <1>1, <3>2
      <4>2. m \in Id
        BY <1>2, <4>1
      <4>3. outReliable'[g][m] = outReliable[g][m]
        BY <1>1, <2>1, <2>2, <3>2, <4>2
      <4>4. QED
        BY <1>1, <1>3, <4>1, <4>2, <4>3 DEF CopiesKept
    <3>3. QED
      BY <3>1, <3>2
  <2>4. QED
    BY <2>2, <2>3 DEF CopiesKept
<1>6. ASSUME NEW d \in net[h], Received(h, d), g = h
      PROVE  CopiesKept(g)'
  <2>1. /\ outReliable'[g] =
             [id \in Id |-> IF id \in AckedIds(d) THEN Absent ELSE outReliable[g][id]]
        /\ UNCHANGED scheduled
    BY <1>6 DEF Received, ProcessAcks, TypeOK
  <2>2. SoundHeader(Peer(g), d)
    BY <1>1, <1>6, PeerFacts DEF AckInv
  <2>3. ASSUME NEW m \in 1 .. scheduled[g]
        PROVE  outReliable'[g][m] = m \/ HasReceivedPacket(Peer(g), m)'
    <3>1. m \in Id /\ m # InvalidId
      BY <1>2
    <3>2. CASE m \in AckedIds(d)
      BY <1>3, <2>2, <3>1, <3>2 DEF SoundHeader
    <3>3. CASE m \notin AckedIds(d)
      BY <1>1, <1>3, <2>1, <3>1, <3>3 DEF CopiesKept
    <3>4. QED
      BY <3>2, <3>3
  <2>4. QED
    BY <2>1, <2>3 DEF CopiesKept
<1>7. ASSUME ~ (ScheduleReliable(h) /\ g = h),
             ~ (g = h /\ \E d \in net[h] : Received(h, d))
      PROVE  UNCHANGED <<scheduled[g], outReliable[g]>>
  BY <1>7 DEF HostStep, ScheduleReliable, ScheduleUnreliable,
       PopReadyOutgoingPacket, PopReadyIncomingPacket, Received, ProcessAcks,
       Lose, outVars, TypeOK
<1>8. QED
  BY <1>4, <1>5, <1>6, <1>7

LEMMA AckInit == Init => AckInv
<1> SUFFICES ASSUME Init, NEW h \in Host
             PROVE  /\ ackId[h] = InvalidId
                    /\ net[Peer(h)] = {}
                    /\ CopiesKept(h)
  BY DEF AckInv
<1>1. QED
  BY PeerFacts DEF Init, CopiesKept

LEMMA AckStep ==
  ASSUME NoIdReuse, TypeOK, DeliveryInv, AckInv, [Next]_vars
  PROVE  AckInv'
<1>1. CASE UNCHANGED vars
  BY <1>1 DEF vars, outVars, inVars, AckInv, SoundHeader, AckedIds, CopiesKept,
              HasReceivedPacket
<1>2. CASE Next
  <2> SUFFICES ASSUME NEW h \in Host, HostStep(h), NEW g \in Host
               PROVE  /\ (ackId[g] = InvalidId \/ HasReceivedPacket(g, ackId[g]))'
                      /\ (\A d \in net[Peer(g)] : SoundHeader(g, d))'
                      /\ CopiesKept(g)'
    BY <1>2 DEF Next, AckInv
  <2>1. /\ \A id \in Id : HasReceivedPacket(g, id) => HasReceivedPacket(g, id)'
        /\ ackId'[g] = ackId[g] \/ HasReceivedPacket(g, ackId[g])'
    BY ReceivedGrows
  <2>2. /\ ackId[g] = InvalidId \/ HasReceivedPacket(g, ackId[g])
        /\ \A d \in net[Peer(g)] : SoundHeader(g, d)
    BY DEF AckInv
  <2>3. (ackId[g] = InvalidId \/ HasReceivedPacket(g, ackId[g]))'
    <3>1. ackId[g] \in Id
      BY DEF TypeOK
    <3>2. CASE ackId'[g] = ackId[g]
      <4>1. HasReceivedPacket(g, ackId[g]) => inReliable'[g][ackId[g]] # Absent
        BY <2>1, <3>1 DEF HasReceivedPacket
      <4>2. QED
        BY <2>2, <3>2, <4>1 DEF HasReceivedPacket
    <3>3. QED
      BY <2>1, <3>2
  <2>4. (\A d \in net[Peer(g)] : SoundHeader(g, d))'
    <3> SUFFICES ASSUME NEW d \in net'[Peer(g)]
                 PROVE  SoundHeader(g, d)'
      OBVIOUS
    <3>1. SoundHeader(g, d)
      BY <2>2, NewDatagrams, NewHeaderIsSound
    <3>2. AckedIds(d) \subseteq Id
      <4>1. d \in Datagram
        BY TypeStep, PeerFacts, <1>2 DEF TypeOK
      <4>2. QED
        BY <4>1, AckedIdsType
    <3>3. QED
      BY <2>1, <3>1, <3>2 DEF SoundHeader, AckedIds
  <2>5. CopiesKept(g)'
    BY CopiesStayKept
  <2>6. QED
    BY <2>3, <2>4, <2>5
<1>3. QED
  BY <1>1, <1>2

\* No header acks a message its sender lacks, however old, duplicated or
\* overtaken the header is: the inductive invariant behind NeverForgotten.
THEOREM AckInvariant ==
  ASSUME NoIdReuse
  PROVE  Spec => []AckInv
<1>1. Init => AckInv
  BY AckInit
<1>2. TypeOK /\ DeliveryInv /\ AckInv /\ [Next]_vars => AckInv'
  BY AckStep
<1>3. QED
  BY <1>1, <1>2, TypeCorrect, DeliveryInvariant, PTL DEF Spec

\* PacketAcked never erases the only copy of a reliable message.
THEOREM NeverForgotten ==
  ASSUME NoIdReuse
  PROVE  Spec => []NothingForgotten
<1>1. TypeOK /\ DeliveryInv /\ AckInv => NothingForgotten
  <2> SUFFICES ASSUME TypeOK, DeliveryInv, AckInv, NEW h \in Host,
                      NEW m \in 1 .. scheduled[h]
               PROVE  m \in Range(outReliable[h]) \cup MessagesAt(Peer(h))
    BY DEF NothingForgotten
  <2>1. m \in Id
    <3>1. /\ MaxReliable[h] \in Nat /\ MaxReliable[h] < MaxPossibleId
          /\ scheduled[h] \in Nat /\ scheduled[h] <= MaxReliable[h]
      BY ConnectionAssumption DEF NoIdReuse, TypeOK, DeliveryInv, SenderInv
    <3>2. QED
      BY <3>1, MaxPossibleIdAssumption DEF Id
  <2>2. /\ Peer(h) \in Host
        /\ DOMAIN outReliable[h] = Id /\ DOMAIN inReliable[Peer(h)] = Id
    BY PeerFacts DEF TypeOK
  <2>3. CASE outReliable[h][m] = m
    BY <2>1, <2>2, <2>3 DEF Range
  <2>4. CASE HasReceivedPacket(Peer(h), m)
    <3>1. inReliable[Peer(h)][m] = m
      BY <2>1, <2>2, <2>4
         DEF DeliveryInv, ReceiverInv, HoldsUnderId, HasReceivedPacket
    <3>2. QED
      BY <2>1, <2>2, <3>1 DEF Range, MessagesAt
  <2>5. QED
    BY <2>3, <2>4 DEF AckInv, CopiesKept
<1>2. QED
  BY <1>1, TypeCorrect, DeliveryInvariant, AckInvariant, PTL

----------------------------------------------------------------------------
(* The latest id. *)

\* Among ids up to HalfId, later means greater.
LEMMA LaterIsGreater ==
  ASSUME NEW current \in 0 .. HalfId, NEW new \in 1 .. HalfId
  PROVE  IsLater(current, new) <=> new >= current
<1>1. HalfId \in Nat
  BY MaxPossibleIdAssumption DEF HalfId
<1>2. QED
  BY <1>1 DEF IsLater, InvalidId

LEMMA HalfwayIsNoReuse ==
  ASSUME NoHalfwaySpread
  PROVE  NoIdReuse /\ HalfId \in Nat
<1>1. MaxPossibleId \in Nat /\ MaxPossibleId > 4
  BY ConnectionAssumption, MaxPossibleIdAssumption DEF AckCount
<1>2. HalfId \in Nat /\ HalfId < MaxPossibleId
  BY <1>1 DEF HalfId
<1>3. \A h \in Host : MaxReliable[h] \in Nat
  BY ConnectionAssumption
<1>4. QED
  BY <1>1, <1>2, <1>3 DEF NoHalfwaySpread, NoIdReuse

\* A stored packet of g is a message of its peer, and its id is at most HalfId.
LEMMA StoredBelowHalf ==
  ASSUME NoHalfwaySpread, TypeOK, DeliveryInv, NEW g \in Host, NEW id \in Id,
         HasReceivedPacket(g, id)
  PROVE  id \in 1 .. HalfId
<1>1. /\ MaxReliable[Peer(g)] \in Nat /\ MaxReliable[Peer(g)] <= HalfId
      /\ scheduled[Peer(g)] \in Nat /\ scheduled[Peer(g)] <= MaxReliable[Peer(g)]
  BY PeerFacts, ConnectionAssumption
     DEF NoHalfwaySpread, TypeOK, DeliveryInv, SenderInv
<1>2. /\ inReliable[g][id] # Absent
      /\ inReliable[g][id] \in {Absent, id} /\ inReliable[g][id] <= scheduled[Peer(g)]
  BY DEF HasReceivedPacket, DeliveryInv, ReceiverInv, HoldsUnderId
<1>3. id \in Nat /\ HalfId \in Nat
  BY MaxPossibleIdAssumption, HalfwayIsNoReuse DEF Id
<1>4. QED
  BY <1>1, <1>2, <1>3 DEF Absent

LEMMA LatestStep ==
  ASSUME NoHalfwaySpread, TypeOK, DeliveryInv, AckIdIsLatest, [Next]_vars
  PROVE  AckIdIsLatest'
<1>1. CASE UNCHANGED vars
  BY <1>1 DEF vars, inVars, AckIdIsLatest, HasReceivedPacket
<1>2. CASE Next
  <2> SUFFICES ASSUME NEW h \in Host, HostStep(h), NEW g \in Host
               PROVE  /\ (ackId[g] # InvalidId => HasReceivedPacket(g, ackId[g]))'
                      /\ \A id \in Id : HasReceivedPacket(g, id)' => id <= ackId'[g]
    BY <1>2 DEF Next, AckIdIsLatest
  <2>1. CASE UNCHANGED <<inReliable[g], ackId[g]>>
    BY <2>1 DEF AckIdIsLatest, HasReceivedPacket
  <2>2. ASSUME NEW d \in net[h], Received(h, d), g = h, d.reliable
        PROVE  /\ (ackId[g] # InvalidId => HasReceivedPacket(g, ackId[g]))'
               /\ \A id \in Id : HasReceivedPacket(g, id)' => id <= ackId'[g]
    <3>1. /\ inReliable'[g] = [inReliable[g] EXCEPT ![d.id] = d.msg]
          /\ ackId'[g] = UpdatedAckId(g, d.id)
          /\ inReliable[g] \in [Id -> Nat] /\ ackId[g] \in Id
      BY <2>2 DEF Received, StoreAndEnqueue, TypeOK
    <3>2. d.msg = d.id /\ d.id \in 1 .. scheduled[Peer(h)] /\ d.id \in Id
      BY <2>2, ReceivedIsGenuine
    <3>3. d.id \in 1 .. HalfId /\ ackId[g] \in 0 .. HalfId /\ HalfId \in Nat
      <4>1. HalfId \in Nat /\ MaxReliable[Peer(h)] \in Nat
            /\ MaxReliable[Peer(h)] <= HalfId
            /\ scheduled[Peer(h)] \in Nat /\ scheduled[Peer(h)] <= MaxReliable[Peer(h)]
        BY PeerFacts, ConnectionAssumption, HalfwayIsNoReuse
           DEF NoHalfwaySpread, TypeOK, DeliveryInv, SenderInv
      <4>2. ackId[g] \in 0 .. HalfId
        BY <3>1, <4>1, StoredBelowHalf DEF AckIdIsLatest, InvalidId
      <4>3. QED
        BY <3>2, <4>1, <4>2
    <3>4. ackId'[g] = IF d.id >= ackId[g] THEN d.id ELSE ackId[g]
      BY <2>2, <3>1, <3>3, LaterIsGreater DEF UpdatedAckId
    <3>5. \A id \in Id : HasReceivedPacket(g, id) => id <= ackId[g]
      BY DEF AckIdIsLatest
    <3>6. \A id \in Id : HasReceivedPacket(g, id)' =>
                           id = d.id \/ HasReceivedPacket(g, id)
      BY <3>1, <3>2 DEF HasReceivedPacket
    <3>7. \A id \in Id : id \in Nat
      BY MaxPossibleIdAssumption DEF Id
    <3>8. \A id \in Id : HasReceivedPacket(g, id)' => id <= ackId'[g]
      BY <3>1, <3>2, <3>4, <3>5, <3>6, <3>7
    <3>9. \/ ackId'[g] = ackId[g] /\ \A id \in Id :
                 HasReceivedPacket(g, id) => HasReceivedPacket(g, id)'
          \/ HasReceivedPacket(g, ackId[g])'
      BY ReceivedGrows
    <3>10. (ackId[g] # InvalidId => HasReceivedPacket(g, ackId[g]))'
      BY <3>1, <3>9 DEF AckIdIsLatest, HasReceivedPacket
    <3>11. QED
      BY <3>8, <3>10
  <2>3. ASSUME ~ \E d \in net[h] : Received(h, d) /\ g = h /\ d.reliable
        PROVE  UNCHANGED <<inReliable[g], ackId[g]>>
    BY <2>3 DEF HostStep, ScheduleReliable, ScheduleUnreliable, StoreAndEnqueue,
       PopReadyOutgoingPacket, PopReadyIncomingPacket, Received, Lose, inVars, TypeOK
  <2>4. QED
    BY <2>1, <2>2, <2>3
<1>3. QED
  BY <1>1, <1>2

\* While no two ids of a host are HalfId or more apart, the ack id is the
\* greatest id received, in whatever order the packets arrive.
THEOREM AckIdLatest ==
  ASSUME NoHalfwaySpread
  PROVE  Spec => []AckIdIsLatest
<1>1. NoIdReuse
  BY HalfwayIsNoReuse
<1>2. Init => AckIdIsLatest
  BY DEF Init, AckIdIsLatest, HasReceivedPacket
<1>3. TypeOK /\ DeliveryInv /\ AckIdIsLatest /\ [Next]_vars => AckIdIsLatest'
  BY LatestStep
<1>4. QED
  BY <1>1, <1>2, <1>3, TypeCorrect, DeliveryInvariant, PTL DEF Spec

----------------------------------------------------------------------------
(* Nothing is held back. *)

NothingAboveAckId ==
  \A h \in Host : \A id \in Id : HasReceivedPacket(h, id) => id <= ackId[h]

\* The loop stops only in front of a packet that is not stored: when it stops
\* at the ack id, nothing is stored above it.
LEMMA LoopLeavesNothing ==
  ASSUME NoHalfwaySpread, TypeOK, DeliveryInv, NEW h \in Host,
         TypeOK', DeliveryInv', NothingAboveAckId',
         NEW d, StoreAndEnqueue(h, d), UNCHANGED scheduled
  PROVE  ~ HasReceivedPacket(h, NextId(inSeq[h]))'
<1> DEFINE top    == scheduled[Peer(h)]
           seq    == inSeq[h]
           stored == [inReliable[h] EXCEPT ![d.id] = d.msg]
           latest == UpdatedAckId(h, d.id)
<1>1. stored = inReliable'[h] /\ latest = ackId'[h]
  BY DEF StoreAndEnqueue, TypeOK
<1>2. PICK n \in 0 .. MaxPossibleId :
        Enqueues(n, seq, latest, stored) /\ inSeq' = [inSeq EXCEPT ![h] = IdAfter(@, n)]
  BY DEF StoreAndEnqueue
<1>3. inSeq'[h] = IdAfter(seq, n)
  BY <1>2 DEF TypeOK
<1> HIDE DEF stored, latest
<1>4. /\ top \in Nat /\ top < MaxPossibleId /\ seq \in Nat /\ seq <= top
      /\ stored \in [Id -> Nat]
      /\ \A id \in Id : stored[id] \in {Absent, id} /\ stored[id] <= top
  <2>1. /\ Peer(h) \in Host /\ MaxReliable[Peer(h)] \in Nat
        /\ MaxReliable[Peer(h)] < MaxPossibleId
    BY PeerFacts, ConnectionAssumption, HalfwayIsNoReuse DEF NoIdReuse
  <2>2. top \in Nat /\ top <= MaxReliable[Peer(h)]
    BY <2>1 DEF TypeOK, DeliveryInv, SenderInv
  <2>3. seq \in Nat /\ seq <= top
    BY <2>1, MaxPossibleIdAssumption DEF TypeOK, DeliveryInv, ReceiverInv, Id
  <2>4. inReliable'[h] \in [Id -> Nat]
    BY DEF TypeOK
  <2>5. \A id \in Id : inReliable'[h][id] \in {Absent, id} /\ inReliable'[h][id] <= top
    BY DEF DeliveryInv, ReceiverInv, HoldsUnderId
  <2>6. QED
    BY <1>1, <2>1, <2>2, <2>3, <2>4, <2>5, MaxPossibleIdAssumption
<1> HIDE DEF top, seq
<1>5. seq + n <= top /\ \A i \in 0 .. n : IdAfter(seq, i) = seq + i
  <2>1. Enqueues(n, seq, latest, stored)
    BY <1>2
  <2>2. stored \in [Id -> Nat]
    BY <1>4
  <2>3. top \in Nat /\ top < MaxPossibleId /\ seq \in Nat /\ seq <= top
    BY <1>4
  <2>4. \A id \in Id : stored[id] \in {Absent, id} /\ stored[id] <= top
    BY <1>4
  <2>5. QED
    BY <2>1, <2>2, <2>3, <2>4, LoopReleasesInOrder
<1>6. n \in Nat /\ IdAfter(seq, n) = seq + n
  BY <1>5, MaxPossibleIdAssumption
<1>7. /\ NextId(seq + n) = seq + n + 1 /\ IdAfter(seq, n + 1) = seq + n + 1
      /\ seq + n + 1 \in Id
  BY <1>4, <1>5, <1>6, MaxPossibleIdAssumption DEF NextId, IdAfter, Id
<1>8. stored[seq + n + 1] = Absent
  <2>1. StopsAt(n, seq, latest, stored)
    BY <1>2 DEF Enqueues
  <2>2. CASE latest = seq + n
    <3>1. inReliable'[h][seq + n + 1] # Absent => seq + n + 1 <= ackId'[h]
      BY <1>7 DEF NothingAboveAckId, HasReceivedPacket
    <3>2. QED
      BY <1>1, <1>4, <1>6, <2>2, <3>1
  <2>3. CASE stored[IdAfter(seq, n + 1)] = Absent
    BY <1>7, <2>3
  <2>4. QED
    BY <1>6, <2>1, <2>2, <2>3 DEF StopsAt
<1>9. QED
  BY <1>1, <1>3, <1>6, <1>7, <1>8 DEF HasReceivedPacket, NextId

LEMMA StallInit == Init => NoStall
<1> SUFFICES ASSUME Init, NEW h \in Host
             PROVE  inReliable[h][NextId(inSeq[h])] = Absent
  BY DEF NoStall, HasReceivedPacket
<1>1. inSeq[h] = 0 /\ 0 \in Id
  BY MaxPossibleIdAssumption DEF Init, InvalidId, Id
<1>2. NextId(inSeq[h]) \in Id
  BY <1>1, IdArithmetic DEF ValidId, Id
<1>3. QED
  BY <1>2 DEF Init

LEMMA StallStep ==
  ASSUME NoHalfwaySpread, TypeOK, DeliveryInv, NoStall, [Next]_vars,
         NothingAboveAckId'
  PROVE  NoStall'
<1>1. TypeOK' /\ DeliveryInv'
  BY TypeStep, DeliveryStep, HalfwayIsNoReuse
<1>2. CASE UNCHANGED vars
  BY <1>2 DEF vars, inVars, NoStall, HasReceivedPacket, NextId
<1>3. CASE Next
  <2> SUFFICES ASSUME NEW h \in Host, HostStep(h), NEW g \in Host
               PROVE  ~ HasReceivedPacket(g, NextId(inSeq[g]))'
    BY <1>3 DEF Next, NoStall
  <2>1. CASE UNCHANGED <<inReliable[g], inSeq[g]>>
    BY <2>1 DEF NoStall, HasReceivedPacket, NextId
  <2>2. ASSUME NEW d \in net[h], Received(h, d), g = h, d.reliable
        PROVE  ~ HasReceivedPacket(g, NextId(inSeq[g]))'
    BY <1>1, <2>2, LoopLeavesNothing DEF Received
  <2>3. ASSUME ~ \E d \in net[h] : Received(h, d) /\ g = h /\ d.reliable
        PROVE  UNCHANGED <<inReliable[g], inSeq[g]>>
    BY <2>3 DEF HostStep, ScheduleReliable, ScheduleUnreliable, StoreAndEnqueue,
       PopReadyOutgoingPacket, PopReadyIncomingPacket, Received, Lose, inVars, TypeOK
  <2>4. QED
    BY <2>1, <2>2, <2>3
<1>4. QED
  BY <1>2, <1>3

\* EnqueueProcessablePackets never leaves a message behind whose predecessors
\* have all been released.
THEOREM NeverStalls ==
  ASSUME NoHalfwaySpread
  PROVE  Spec => []NoStall
<1>1. NoIdReuse
  BY HalfwayIsNoReuse
<1>2. Init => NoStall
  BY StallInit
<1>3. TypeOK /\ DeliveryInv /\ AckIdIsLatest /\ NoStall /\ [Next]_vars => NoStall'
  BY LatestStep, StallStep DEF AckIdIsLatest, NothingAboveAckId
<1>4. QED
  BY <1>1, <1>2, <1>3, TypeCorrect, DeliveryInvariant, AckIdLatest, PTL DEF Spec

----------------------------------------------------------------------------
(* Resending. *)

LEMMA AheadInit == Init => AheadInv
<1>1. ASSUME Init, NEW h \in Host
      PROVE  scheduled[h] = 0 /\ Len(delivered[Peer(h)]) = 0
  BY <1>1, PeerFacts DEF Init
<1>2. QED
  BY <1>1, ConnectionAssumption DEF AheadInv

LEMMA AheadStep ==
  ASSUME TypeOK, DeliveryInv, AheadInv, [Next]_vars
  PROVE  AheadInv'
<1> SUFFICES ASSUME NEW g \in Host
             PROVE  (scheduled[g] <= Len(delivered[Peer(g)]) + MaxAhead)'
  BY DEF AheadInv
<1>1. /\ Peer(g) \in Host /\ scheduled[g] \in Nat /\ MaxAhead \in Nat
      /\ scheduled[g] <= Len(delivered[Peer(g)]) + MaxAhead
      /\ delivered[Peer(g)] \in Seq(Nat) /\ Len(delivered[Peer(g)]) \in Nat
  BY PeerFacts, ConnectionAssumption, LenProperties DEF AheadInv, TypeOK
<1>2. CASE UNCHANGED <<scheduled[g], delivered[Peer(g)]>>
  BY <1>1, <1>2
<1>3. CASE ScheduleReliable(g)
  <2>1. /\ scheduled'[g] = scheduled[g] + 1 /\ UNCHANGED delivered
        /\ scheduled[g] - Len(delivered[Peer(g)]) < MaxAhead
    BY <1>3 DEF ScheduleReliable, TypeOK, inVars
  <2>2. QED
    BY <1>1, <2>1
<1>4. CASE PopReadyIncomingPacket(Peer(g))
  <2>1. /\ UNCHANGED scheduled
        /\ \/ delivered'[Peer(g)] = delivered[Peer(g)]
           \/ delivered'[Peer(g)] = Append(delivered[Peer(g)], Len(delivered[Peer(g)]) + 1)
    BY <1>1, <1>4, PopIncomingDelivers
       DEF DeliveryInv, PopReadyIncomingPacket, outVars
  <2>2. Len(delivered'[Peer(g)]) >= Len(delivered[Peer(g)])
        /\ Len(delivered'[Peer(g)]) \in Nat
    BY <1>1, <2>1
  <2>3. QED
    BY <1>1, <2>1, <2>2
<1>5. ASSUME ~ ScheduleReliable(g), ~ PopReadyIncomingPacket(Peer(g))
      PROVE  UNCHANGED <<scheduled[g], delivered[Peer(g)]>>
  <2>1. CASE UNCHANGED vars
    BY <2>1 DEF vars, outVars, inVars
  <2>2. ASSUME NEW h \in Host, HostStep(h)
        PROVE  UNCHANGED <<scheduled[g], delivered[Peer(g)]>>
    BY <1>1, <1>5, <2>2 DEF HostStep, ScheduleReliable, ScheduleUnreliable,
       PopReadyOutgoingPacket, PopReadyIncomingPacket, Received, Lose, inVars,
       outVars, TypeOK
  <2>3. QED
    BY <2>1, <2>2 DEF Next
<1>6. QED
  BY <1>2, <1>3, <1>4, <1>5

\* What ProcessAcks reschedules is in the ready queue afterwards.
LEMMA ResentIsReady ==
  ASSUME TypeOK, NEW h \in Host, HoldsUnderId(h, outReliable[h]),
         NEW d \in Datagram, ProcessAcks(h, d),
         NEW n \in 1 .. AckCount, NEW p, Resend(h, d, n) = <<p>>
  PROVE  \E i \in DOMAIN outReady'[h] : outReady'[h][i] = p
<1> DEFINE Has(s)   == s \in Seq(Packet) /\ \E i \in DOMAIN s : s[i] = p
           Queue(s) == s \in Seq(Packet)
<1>1. ASSUME NEW s, NEW t, Queue(s), Queue(t)
      PROVE  Queue(s \o t) /\ (Has(s) \/ Has(t) => Has(s \o t))
  <2>1. /\ s \o t \in Seq(Packet) /\ DOMAIN (s \o t) = 1 .. Len(s) + Len(t)
        /\ \A i \in 1 .. Len(s) + Len(t) :
             (s \o t)[i] = IF i <= Len(s) THEN s[i] ELSE t[i - Len(s)]
    BY <1>1, ConcatProperties, LenProperties
  <2>2. /\ Len(s) \in Nat /\ DOMAIN s = 1 .. Len(s)
        /\ Len(t) \in Nat /\ DOMAIN t = 1 .. Len(t)
    BY <1>1, LenProperties
  <2>3. ASSUME Has(s)
        PROVE  Has(s \o t)
    <3>1. PICK i \in DOMAIN s : s[i] = p
      BY <2>3
    <3>2. i \in DOMAIN (s \o t) /\ (s \o t)[i] = p
      BY <2>1, <2>2, <3>1
    <3>3. QED
      BY <2>1, <3>2
  <2>4. ASSUME Has(t)
        PROVE  Has(s \o t)
    <3>1. PICK i \in DOMAIN t : t[i] = p
      BY <2>4
    <3> DEFINE j == Len(s) + i
    <3>2. j \in 1 .. Len(s) + Len(t) /\ ~ j <= Len(s) /\ j - Len(s) = i
      BY <2>2, <3>1
    <3>3. (s \o t)[j] = p
      BY <2>1, <3>1, <3>2
    <3>4. QED
      BY <2>1, <3>2, <3>3
  <2>5. QED
    BY <2>1, <2>3, <2>4
<1> DEFINE r1 == Resend(h, d, 1)
           r2 == Resend(h, d, 2)
           r3 == Resend(h, d, 3)
           r4 == Resend(h, d, 4)
<1>2. /\ Queue(outReady[h])
      /\ Queue(r1) /\ Queue(r2) /\ Queue(r3) /\ Queue(r4)
  <2>1. 1 \in 1 .. AckCount /\ 2 \in 1 .. AckCount /\ 3 \in 1 .. AckCount
        /\ 4 \in 1 .. AckCount
    BY DEF AckCount
  <2>2. \A m \in 1 .. AckCount : Resend(h, d, m) \in Seq(Packet)
    BY ResendIsGenuine
  <2>3. outReady[h] \in Seq(Packet)
    BY DEF TypeOK
  <2>4. QED
    BY <2>1, <2>2, <2>3
<1>3. Has(r1) \/ Has(r2) \/ Has(r3) \/ Has(r4)
  <2>1. n = 1 \/ n = 2 \/ n = 3 \/ n = 4
    BY DEF AckCount
  <2>2. 1 \in DOMAIN <<p>> /\ <<p>>[1] = p
    OBVIOUS
  <2>3. Resend(h, d, n) \in Seq(Packet)
    BY ResendIsGenuine
  <2>4. Has(Resend(h, d, n))
    BY <2>2, <2>3
  <2> HIDE DEF Has
  <2>5. QED
    BY <2>1, <2>4
<1>4. outReady'[h] = outReady[h] \o r1 \o r2 \o r3 \o r4
  BY DEF ProcessAcks, TypeOK
<1> HIDE DEF Has, Queue, r1, r2, r3, r4
<1>5. Has(outReady'[h])
  <2>1. Queue(outReady[h] \o r1) /\ (Has(r1) => Has(outReady[h] \o r1))
    BY <1>1, <1>2
  <2>2. /\ Queue(outReady[h] \o r1 \o r2)
        /\ Has(r1) \/ Has(r2) => Has(outReady[h] \o r1 \o r2)
    BY <1>1, <1>2, <2>1
  <2>3. /\ Queue(outReady[h] \o r1 \o r2 \o r3)
        /\ Has(r1) \/ Has(r2) \/ Has(r3) => Has(outReady[h] \o r1 \o r2 \o r3)
    BY <1>1, <1>2, <2>2
  <2>4. Has(outReady[h] \o r1 \o r2 \o r3 \o r4)
    BY <1>1, <1>2, <1>3, <2>3
  <2>5. QED
    BY <1>4, <2>4
<1>6. QED
  BY <1>5 DEF Has

\* A missing message is within reach of every header above it.
LEMMA MissingIsResent ==
  ASSUME NoIdReuse, MaxAhead <= AckCount + 1,
         TypeOK, DeliveryInv, AckInv, AheadInv,
         NEW h \in Host, NEW d \in net[h], Received(h, d),
         NEW m \in 1 .. d.ackId, ~ HasReceivedPacket(Peer(h), m)
  PROVE  \E i \in DOMAIN outReady'[h] : outReady'[h][i].msg = m
<1> DEFINE peer == Peer(h)
           n    == d.ackId - m
           p    == [reliable |-> TRUE, id |-> m, msg |-> m]
<1>1. /\ peer \in Host /\ Peer(peer) = h /\ d \in Datagram
      /\ d.ackId \in Id /\ d.ackId \in Nat /\ m \in Id /\ m # InvalidId
  <2>1. peer \in Host /\ Peer(peer) = h
    BY PeerFacts
  <2>2. d \in Datagram
    BY DEF TypeOK
  <2>3. d.ackId \in Id
    BY <2>2 DEF Datagram
  <2>4. QED
    BY <2>1, <2>2, <2>3, MaxPossibleIdAssumption DEF Id, InvalidId
<1>2. \A id \in AckedIds(d) : id = InvalidId \/ HasReceivedPacket(peer, id)
  BY <1>1 DEF AckInv, SoundHeader
<1>3. HasReceivedPacket(peer, d.ackId) /\ d.ackId # m
  <2>1. d.ackId # InvalidId
    BY <1>1 DEF InvalidId
  <2>2. QED
    BY <1>2, <2>1 DEF AckedIds
<1>4. d.ackId <= scheduled[h]
  BY <1>1, <1>3 DEF HasReceivedPacket, DeliveryInv, ReceiverInv, HoldsUnderId
<1>5. m > inSeq[peer]
  <2>1. inSeq[peer] \in Nat
    BY <1>1, MaxPossibleIdAssumption DEF TypeOK, Id
  <2>2. \A id \in 1 .. inSeq[peer] : HasReceivedPacket(peer, id)
    BY <1>1 DEF DeliveryInv, ReceiverInv
  <2>3. QED
    BY <1>1, <2>1, <2>2
<1>6. n \in 1 .. AckCount /\ m = d.ackId - n /\ m \in 1 .. scheduled[h]
  <2>1. /\ scheduled[h] \in Nat /\ inSeq[peer] \in Nat /\ MaxAhead \in Nat
        /\ Len(delivered[peer]) \in Nat
    <3>1. delivered[peer] \in Seq(Nat)
      BY <1>1 DEF TypeOK
    <3>2. inSeq[peer] \in Nat
      BY <1>1, MaxPossibleIdAssumption DEF TypeOK, Id
    <3>3. QED
      BY <3>1, <3>2, LenProperties, ConnectionAssumption DEF TypeOK
  <2>2. Len(delivered[peer]) <= inSeq[peer]
    BY <1>1 DEF DeliveryInv, ReceiverInv
  <2>3. scheduled[h] <= Len(delivered[peer]) + MaxAhead
    BY DEF AheadInv
  <2>4. d.ackId \in Nat /\ m \in 1 .. d.ackId /\ d.ackId # m
    BY <1>1, <1>3
  <2> HIDE DEF peer
  <2>5. d.ackId <= inSeq[peer] + MaxAhead
    BY <1>4, <2>1, <2>2, <2>3, <2>4 DEF peer
  <2>6. n \in 1 .. AckCount
    BY <1>5, <2>1, <2>4, <2>5, SMTT(30) DEF AckCount
  <2>7. m = d.ackId - n /\ m \in 1 .. scheduled[h]
    BY <1>4, <2>1, <2>4
  <2>8. QED
    BY <2>6, <2>7
<1>7. Minus(d.ackId, n) = m
  BY <1>1, <1>6 DEF Minus, AckCount
<1>8. n \notin d.acks
  BY <1>1, <1>2, <1>7 DEF AckedIds
<1>9. outReliable[h][m] = m
  BY <1>6 DEF AckInv, CopiesKept
<1>10. Resend(h, d, n) = <<p>>
  BY <1>1, <1>7, <1>8, <1>9 DEF Resend, Absent, InvalidId
<1>11. ProcessAcks(h, d) /\ HoldsUnderId(h, outReliable[h])
  BY DEF Received, DeliveryInv, SenderInv
<1> HIDE DEF n, p
<1>12. \E i \in DOMAIN outReady'[h] : outReady'[h][i] = p
  BY <1>1, <1>6, <1>10, <1>11, ResentIsReady
<1>13. QED
  BY <1>12 DEF p

\* With at most AckCount + 1 messages ahead of the receiver, whichever header
\* arrives makes the sender reschedule all the receiver lacks below its ack id.
THEOREM WindowSuffices ==
  ASSUME NoIdReuse, MaxAhead <= AckCount + 1
  PROVE  Spec => MissingRescheduled
<1>1. Init => AheadInv
  BY AheadInit
<1>2. TypeOK /\ DeliveryInv /\ AheadInv /\ [Next]_vars => AheadInv'
  BY AheadStep
<1>3. TypeOK /\ DeliveryInv /\ AckInv /\ AheadInv /\ [Next]_vars =>
        [\A h \in Host : \A d \in net[h] : Received(h, d) =>
           \A m \in 1 .. d.ackId : Missing(h, m) =>
             \E i \in DOMAIN outReady'[h] : outReady'[h][i].msg = m]_vars
  BY MissingIsResent DEF Missing
<1>4. QED
  BY <1>1, <1>2, <1>3, TypeCorrect, DeliveryInvariant, AckInvariant, PTL
     DEF Spec, MissingRescheduled
==========================================================================
