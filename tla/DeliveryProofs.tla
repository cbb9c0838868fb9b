-------------------------- MODULE DeliveryProofs --------------------------
(***************************************************************************)
(* As long as no packet id is used twice, reliable messages are delivered  *)
(* in order, each once and with none left out, whatever the network loses, *)
(* duplicates or reorders.                                                 *)
(***************************************************************************)
EXTENDS ConnectionInvariants, ConnectionProofs

----------------------------------------------------------------------------
(* The loop of EnqueueProcessablePackets. *)

\* While the stored ids are those of messages up to top, and top is not the
\* last id, the loop does not wrap: it releases the messages seq + 1, seq + 2
\* and so on, and none above top.
LEMMA LoopReleasesInOrder ==
  ASSUME NEW seq \in Nat, NEW top \in Nat, seq <= top, top < MaxPossibleId,
         NEW stored \in [Id -> Nat],
         \A id \in Id : stored[id] \in {Absent, id} /\ stored[id] <= top,
         NEW latest, NEW n \in 0 .. MaxPossibleId,
         Enqueues(n, seq, latest, stored)
  PROVE  /\ seq + n <= top
         /\ \A i \in 0 .. n : IdAfter(seq, i) = seq + i
         /\ \A i \in 1 .. n : stored[seq + i] = seq + i
<1>1. \A i \in 1 .. n : stored[IdAfter(seq, i)] # Absent
  <2> SUFFICES ASSUME NEW i \in 1 .. n
               PROVE  stored[IdAfter(seq, i)] # Absent
    OBVIOUS
  <2>1. i - 1 \in 0 .. n - 1 /\ (i - 1) + 1 = i
    BY MaxPossibleIdAssumption
  <2>2. ~ StopsAt(i - 1, seq, latest, stored)
    BY <2>1 DEF Enqueues
  <2>3. QED
    BY <2>1, <2>2 DEF StopsAt
<1>2. seq + n < MaxPossibleId
  <2> SUFFICES ASSUME seq + n >= MaxPossibleId
               PROVE  FALSE
    BY MaxPossibleIdAssumption
  <2> DEFINE i == MaxPossibleId - seq
  <2>1. i \in 1 .. n /\ seq + i = MaxPossibleId
    BY MaxPossibleIdAssumption
  <2>2. IdAfter(seq, i) = MaxPossibleId
    BY <2>1 DEF IdAfter
  <2>3. stored[MaxPossibleId] # Absent
    BY <1>1, <2>1, <2>2
  <2>4. MaxPossibleId \in Id
    BY MaxPossibleIdAssumption DEF Id
  <2>5. QED
    BY <2>3, <2>4, MaxPossibleIdAssumption DEF Absent
<1>3. \A i \in 0 .. n : IdAfter(seq, i) = seq + i /\ seq + i \in Id
  BY <1>2, MaxPossibleIdAssumption DEF IdAfter, Id
<1>4. \A i \in 1 .. n : stored[seq + i] = seq + i /\ seq + i <= top
  <2> SUFFICES ASSUME NEW i \in 1 .. n
               PROVE  stored[seq + i] = seq + i /\ seq + i <= top
    OBVIOUS
  <2>1. i \in 0 .. n
    BY MaxPossibleIdAssumption
  <2>2. IdAfter(seq, i) = seq + i /\ seq + i \in Id
    BY <1>3, <2>1
  <2>3. stored[seq + i] # Absent
    BY <1>1, <2>2
  <2>4. QED
    BY <2>2, <2>3
<1>5. seq + n <= top
  BY <1>4, MaxPossibleIdAssumption
<1>6. QED
  BY <1>3, <1>4, <1>5

----------------------------------------------------------------------------
(* The sender. *)

\* There are two hosts, each the peer of the other.
LEMMA PeerFacts ==
  ASSUME NEW h \in Host
  PROVE  /\ Peer(h) \in Host /\ Peer(h) # h /\ Peer(Peer(h)) = h
         /\ \A g \in Host : g = h \/ g = Peer(h)
BY ConnectionAssumption DEF Host, Peer

\* Without id reuse the next id is the ordinal of the next message.
LEMMA NextIdIsNextMessage ==
  ASSUME NoIdReuse, TypeOK, NEW h \in Host, SenderInv(h),
         scheduled[h] < MaxReliable[h]
  PROVE  NextId(outSeq[h]) = scheduled[h] + 1 /\ scheduled[h] + 1 \in Id
<1>1. scheduled[h] \in Nat /\ MaxReliable[h] \in Nat /\ MaxReliable[h] < MaxPossibleId
  BY ConnectionAssumption DEF TypeOK, NoIdReuse
<1>2. QED
  BY <1>1, MaxPossibleIdAssumption DEF SenderInv, NextId, Id

\* What Resend puts into the ready queue was made by the host.
LEMMA ResendIsGenuine ==
  ASSUME TypeOK, NEW h \in Host, HoldsUnderId(h, outReliable[h]),
         NEW d \in Datagram, NEW n \in 1 .. AckCount
  PROVE  /\ Resend(h, d, n) \in Seq(Packet)
         /\ \A i \in DOMAIN Resend(h, d, n) : Genuine(h, Resend(h, d, n)[i])
<1> DEFINE id == Minus(d.ackId, n)
           p  == [reliable |-> TRUE, id |-> id, msg |-> outReliable[h][id]]
<1>1. id \in Id
  <2>1. d.ackId \in Id
    BY DEF Datagram
  <2>2. n \in Id
    BY ConnectionAssumption, MaxPossibleIdAssumption DEF AckCount, Id
  <2>3. QED
    BY <2>1, <2>2, IdArithmetic
<1>2. p \in Packet
  BY <1>1 DEF TypeOK, Packet
<1>3. outReliable[h][id] # Absent => Genuine(h, p)
  <2>1. outReliable[h][id] \in {Absent, id} /\ outReliable[h][id] <= scheduled[h]
    BY <1>1 DEF HoldsUnderId
  <2>2. scheduled[h] \in Nat /\ id \in Nat
    BY <1>1, MaxPossibleIdAssumption DEF TypeOK, Id
  <2> HIDE DEF id
  <2>3. outReliable[h][id] # Absent =>
          id \in 1 .. scheduled[h] /\ outReliable[h][id] = id
    BY <2>1, <2>2 DEF Absent
  <2>4. p.reliable /\ p.id = id /\ p.msg = outReliable[h][id]
    OBVIOUS
  <2> HIDE DEF p
  <2>5. QED
    BY <2>3, <2>4 DEF Genuine
<1>4. Resend(h, d, n) = <<>> \/ (Resend(h, d, n) = <<p>> /\ outReliable[h][id] # Absent)
  BY DEF Resend
<1> HIDE DEF p, id
<1>5. CASE Resend(h, d, n) = <<>>
  BY <1>5
<1>6. CASE Resend(h, d, n) = <<p>> /\ outReliable[h][id] # Absent
  <2>1. Genuine(h, p)
    BY <1>3, <1>6
  <2>2. <<p>> \in Seq(Packet) /\ DOMAIN <<p>> = {1} /\ <<p>>[1] = p
    BY <1>2
  <2>3. QED
    BY <1>6, <2>1, <2>2
<1>7. QED
  BY <1>4, <1>5, <1>6

\* The ready queue of a sender that processes acks stays genuine.
LEMMA ProcessAcksGenuine ==
  ASSUME TypeOK, NEW h \in Host, SenderInv(h), NEW d \in Datagram,
         ProcessAcks(h, d)
  PROVE  /\ HoldsUnderId(h, outReliable'[h])
         /\ \A i \in DOMAIN outReady'[h] : Genuine(h, outReady'[h][i])
         /\ \A g \in Host \ {h} : UNCHANGED <<outReliable[g], outReady[g]>>
<1>1. \A n \in 1 .. AckCount :
        /\ Resend(h, d, n) \in Seq(Packet)
        /\ \A i \in DOMAIN Resend(h, d, n) : Genuine(h, Resend(h, d, n)[i])
  BY ResendIsGenuine DEF SenderInv
<1>2. HoldsUnderId(h, outReliable'[h])
  <2>1. outReliable'[h] =
          [id \in Id |-> IF id \in AckedIds(d) THEN Absent ELSE outReliable[h][id]]
    BY DEF ProcessAcks, TypeOK
  <2>2. scheduled[h] \in Nat
    BY DEF TypeOK
  <2>3. QED
    BY <2>1, <2>2 DEF HoldsUnderId, SenderInv, Absent
<1>3. \A i \in DOMAIN outReady'[h] : Genuine(h, outReady'[h][i])
  <2> DEFINE GenuineSeq(s) == s \in Seq(Packet) /\ \A i \in DOMAIN s : Genuine(h, s[i])
  <2>1. ASSUME NEW s, NEW t, GenuineSeq(s), GenuineSeq(t)
        PROVE  GenuineSeq(s \o t)
    <3>1. /\ s \o t \in Seq(Packet)
          /\ DOMAIN (s \o t) = 1 .. Len(s) + Len(t)
          /\ \A i \in 1 .. Len(s) + Len(t) :
               (s \o t)[i] = IF i <= Len(s) THEN s[i] ELSE t[i - Len(s)]
      BY <2>1, ConcatProperties, LenProperties
    <3>2. /\ Len(s) \in Nat /\ DOMAIN s = 1 .. Len(s)
          /\ Len(t) \in Nat /\ DOMAIN t = 1 .. Len(t)
      BY <2>1, LenProperties
    <3>3. ASSUME NEW i \in DOMAIN (s \o t)
          PROVE  Genuine(h, (s \o t)[i])
      <4>1. CASE i <= Len(s)
        BY <2>1, <3>1, <3>2, <4>1
      <4>2. CASE ~ i <= Len(s)
        <5>1. i - Len(s) \in DOMAIN t
          BY <3>1, <3>2, <4>2
        <5>2. QED
          BY <2>1, <3>1, <4>2, <5>1
      <4>3. QED
        BY <4>1, <4>2
    <3>4. QED
      BY <3>1, <3>3
  <2>2. GenuineSeq(outReady[h])
    BY DEF TypeOK, SenderInv
  <2>3. GenuineSeq(Resend(h, d, 1)) /\ GenuineSeq(Resend(h, d, 2))
    BY <1>1, SMT DEF AckCount
  <2>4. GenuineSeq(Resend(h, d, 3)) /\ GenuineSeq(Resend(h, d, 4))
    BY <1>1, SMT DEF AckCount
  <2>5. outReady'[h] = outReady[h] \o Resend(h, d, 1) \o Resend(h, d, 2)
                                   \o Resend(h, d, 3) \o Resend(h, d, 4)
    BY DEF ProcessAcks, TypeOK
  <2> HIDE DEF GenuineSeq
  <2>6. GenuineSeq(outReady'[h])
    BY <2>1, <2>2, <2>3, <2>4, <2>5
  <2>7. QED
    BY <2>6 DEF GenuineSeq
<1>4. \A g \in Host \ {h} : UNCHANGED <<outReliable[g], outReady[g]>>
  BY DEF ProcessAcks, TypeOK
<1>5. QED
  BY <1>2, <1>3, <1>4

\* No step of a host h spoils what the sender g = h or its peer has sent.
LEMMA SenderStep ==
  ASSUME NoIdReuse, TypeOK, \A g \in Host : SenderInv(g),
         NEW h \in Host, HostStep(h), NEW g \in Host
  PROVE  SenderInv(g)'
<1>1. CASE ScheduleReliable(h)
  <2> DEFINE id == scheduled[h] + 1
             p  == [reliable |-> TRUE, id |-> id, msg |-> id]
  <2>1. NextId(outSeq[h]) = id /\ id \in Id /\ id <= MaxReliable[h]
    <3>1. scheduled[h] < MaxReliable[h]
      BY <1>1 DEF ScheduleReliable
    <3>2. scheduled[h] \in Nat /\ MaxReliable[h] \in Nat
      BY ConnectionAssumption DEF TypeOK
    <3>3. QED
      BY <3>1, <3>2, NextIdIsNextMessage
  <2>2. /\ scheduled'   = [scheduled EXCEPT ![h] = id]
        /\ outSeq'      = [outSeq EXCEPT ![h] = id]
        /\ outReliable' = [outReliable EXCEPT ![h] = [@ EXCEPT ![id] = id]]
        /\ outReady'    = [outReady EXCEPT ![h] = Append(@, p)]
        /\ UNCHANGED net
    BY <1>1, <2>1 DEF ScheduleReliable
  <2>3. scheduled[h] \in Nat /\ scheduled'[h] = id /\ scheduled[h] <= scheduled'[h]
    BY <2>2 DEF TypeOK
  <2>4. CASE g = h
    <3>1. outSeq'[g] = scheduled'[g] /\ scheduled'[g] <= MaxReliable[g]
      BY <2>1, <2>2, <2>4 DEF TypeOK
    <3>2. HoldsUnderId(g, outReliable[g])'
      <4>1. outReliable'[g] = [outReliable[g] EXCEPT ![id] = id]
        BY <2>2, <2>4 DEF TypeOK
      <4>2. HoldsUnderId(g, outReliable[g])
        BY DEF SenderInv
      <4>3. outReliable[g] \in [Id -> Nat]
        BY DEF TypeOK
      <4> HIDE DEF id
      <4>4. ASSUME NEW i \in Id
            PROVE  /\ outReliable'[g][i] \in {Absent, i}
                   /\ outReliable'[g][i] <= scheduled'[g]
        <5>1. CASE i = id
          <6>1. outReliable'[g][i] = id
            BY <4>1, <4>3, <5>1
          <6>2. QED
            BY <2>1, <2>3, <2>4, <5>1, <6>1, MaxPossibleIdAssumption DEF Id
        <5>2. CASE i # id
          <6>1. outReliable'[g][i] = outReliable[g][i] /\ outReliable[g][i] \in Nat
            BY <4>1, <4>3, <5>2
          <6>2. scheduled'[g] \in Nat
            BY <2>1, <2>3, <2>4, MaxPossibleIdAssumption DEF Id
          <6>3. QED
            BY <2>3, <2>4, <4>2, <6>1, <6>2 DEF HoldsUnderId
        <5>3. QED
          BY <5>1, <5>2
      <4>5. QED
        BY <4>4 DEF HoldsUnderId
    <3>3. \A q : Genuine(g, q) \/ q = p => Genuine(g, q)'
      BY <2>3, <2>4 DEF Genuine
    <3>4. \A i \in DOMAIN outReady'[g] :
            outReady'[g][i] = p \/ Genuine(g, outReady'[g][i])
      <4>1. outReady'[g] = Append(outReady[g], p) /\ outReady[g] \in Seq(Packet)
        BY <2>2, <2>4 DEF TypeOK
      <4>2. \A i \in DOMAIN outReady[g] : Genuine(g, outReady[g][i])
        BY DEF SenderInv
      <4> HIDE DEF p
      <4>3. QED
        BY <4>1, <4>2, AppendElements
    <3>5. \A i \in DOMAIN outReady'[g] : Genuine(g, outReady[g][i])'
      BY <3>3, <3>4 DEF Genuine
    <3>6. \A d \in net'[Peer(g)] : Genuine(g, d)'
      BY <2>2, <3>3 DEF SenderInv, Genuine
    <3>7. QED
      BY <3>1, <3>2, <3>5, <3>6 DEF SenderInv
  <2>5. CASE g # h
    BY <2>2, <2>5 DEF SenderInv, HoldsUnderId, Genuine, TypeOK
  <2>6. QED
    BY <2>4, <2>5
<1>2. CASE ScheduleUnreliable(h)
  <2> DEFINE p == [reliable |-> FALSE, id |-> InvalidId, msg |-> Unsequenced]
  <2>1. /\ outReady' = [outReady EXCEPT ![h] = Append(@, p)]
        /\ UNCHANGED <<scheduled, outReliable, outSeq, net>>
    BY <1>2 DEF ScheduleUnreliable
  <2>2. Genuine(g, p)
    BY DEF Genuine
  <2> HIDE DEF p
  <2>3. \A i \in DOMAIN outReady'[g] : Genuine(g, outReady'[g][i])
    <3>1. \A i \in DOMAIN outReady[g] : Genuine(g, outReady[g][i])
      BY DEF SenderInv
    <3>2. CASE g = h
      <4>1. outReady'[g] = Append(outReady[g], p) /\ outReady[g] \in Seq(Packet)
        BY <2>1, <3>2 DEF TypeOK
      <4>2. QED
        BY <2>2, <3>1, <3>2, <4>1, AppendElements
    <3>3. CASE g # h
      BY <2>1, <3>1, <3>3 DEF TypeOK
    <3>4. QED
      BY <3>2, <3>3
  <2>4. QED
    BY <2>1, <2>3 DEF SenderInv, HoldsUnderId, Genuine
<1>3. CASE PopReadyOutgoingPacket(h)
  <2> DEFINE p == Head(outReady[h])
             d == AddAckHeader(h, p)
  <2>1. /\ outReady[h] # <<>>
        /\ outReady' = [outReady EXCEPT ![h] = Tail(@)]
        /\ net' = [net EXCEPT ![Peer(h)] = @ \cup {d}]
        /\ UNCHANGED <<scheduled, outReliable, outSeq>>
    BY <1>3 DEF PopReadyOutgoingPacket
  <2>2. /\ 1 \in DOMAIN outReady[h] /\ p = outReady[h][1]
        /\ \A i \in DOMAIN Tail(outReady[h]) :
             i + 1 \in DOMAIN outReady[h] /\ Tail(outReady[h])[i] = outReady[h][i + 1]
    <3>1. outReady[h] \in Seq(Packet)
      BY DEF TypeOK
    <3>2. QED
      BY <2>1, <3>1, PopElements
  <2>3. Genuine(h, d)
    BY <2>2 DEF SenderInv, Genuine, AddAckHeader
  <2> HIDE DEF d, p
  <2>4. \A i \in DOMAIN outReady'[g] : Genuine(g, outReady'[g][i])
    <3>1. \A i \in DOMAIN outReady[g] : Genuine(g, outReady[g][i])
      BY DEF SenderInv
    <3>2. DOMAIN outReady = Host
      BY DEF TypeOK
    <3>3. CASE g = h
      <4>1. outReady'[g] = Tail(outReady[g])
        BY <2>1, <3>2, <3>3
      <4>2. QED
        BY <2>2, <3>1, <3>3, <4>1
    <3>4. CASE g # h
      <4>1. outReady'[g] = outReady[g]
        BY <2>1, <3>2, <3>4
      <4>2. QED
        BY <3>1, <4>1
    <3>5. QED
      BY <3>3, <3>4
  <2>5. \A e \in net'[Peer(g)] : Genuine(g, e)
    <3>1. CASE g = h
      BY <2>1, <2>3, <3>1, PeerFacts DEF TypeOK, SenderInv
    <3>2. CASE g # h
      <4>1. Peer(g) # Peer(h)
        BY <3>2, PeerFacts
      <4>2. QED
        BY <2>1, <4>1, PeerFacts DEF TypeOK, SenderInv
    <3>3. QED
      BY <3>1, <3>2
  <2>6. QED
    BY <2>1, <2>4, <2>5 DEF SenderInv, HoldsUnderId, Genuine
<1>4. CASE PopReadyIncomingPacket(h)
  BY <1>4 DEF PopReadyIncomingPacket, outVars, SenderInv, HoldsUnderId, Genuine
<1>5. ASSUME NEW d \in net[h], Received(h, d)
      PROVE  SenderInv(g)'
  <2>1. d \in Datagram
    BY DEF TypeOK
  <2>2. ProcessAcks(h, d) /\ UNCHANGED <<scheduled, outSeq>>
    BY <1>5 DEF Received
  <2>3. /\ HoldsUnderId(h, outReliable'[h])
        /\ \A i \in DOMAIN outReady'[h] : Genuine(h, outReady'[h][i])
        /\ \A f \in Host \ {h} : UNCHANGED <<outReliable[f], outReady[f]>>
    BY <2>1, <2>2, ProcessAcksGenuine
  <2>4. /\ HoldsUnderId(g, outReliable'[g])
        /\ \A i \in DOMAIN outReady'[g] : Genuine(g, outReady'[g][i])
    BY <2>3 DEF SenderInv
  <2>5. \A e \in net'[Peer(g)] : Genuine(g, e)
    <3>1. net' = [net EXCEPT ![h] = @ \ {d}] \/ net' = net
      BY <1>5 DEF Received
    <3>2. DOMAIN net = Host /\ Peer(g) \in Host
      BY PeerFacts DEF TypeOK
    <3>3. net'[Peer(g)] \subseteq net[Peer(g)]
      BY <3>1, <3>2
    <3>4. QED
      BY <3>3 DEF SenderInv
  <2>6. QED
    BY <2>2, <2>4, <2>5 DEF SenderInv, HoldsUnderId, Genuine
<1>6. ASSUME NEW d \in net[h], Lose(h, d)
      PROVE  SenderInv(g)'
  <2>1. net'[Peer(g)] \subseteq net[Peer(g)]
    <3>1. net' = [net EXCEPT ![h] = @ \ {d}]
      BY <1>6 DEF Lose
    <3>2. DOMAIN net = Host /\ Peer(g) \in Host
      BY PeerFacts DEF TypeOK
    <3>3. QED
      BY <3>1, <3>2
  <2>2. QED
    BY <1>6, <2>1 DEF Lose, outVars, SenderInv, HoldsUnderId, Genuine
<1>7. QED
  BY <1>1, <1>2, <1>3, <1>4, <1>5, <1>6 DEF HostStep

----------------------------------------------------------------------------
(* The ready queue of a receiver. *)

\* Appending the messages that follow the last one of the queue.
LEMMA AppendMessages ==
  ASSUME NEW q \in Seq(Nat), NEW r \in Seq(Nat),
         NEW first \in Nat, NEW last \in Nat, first <= last + 1,
         HoldsInOrder(q, first, last),
         \A i \in 1 .. Len(r) : r[i] = last + i
  PROVE  HoldsInOrder(q \o r, first, last + Len(r))
<1> DEFINE s == q \o r
<1>1. /\ s \in Seq(Nat)
      /\ DOMAIN s = 1 .. Len(q) + Len(r)
      /\ \A i \in 1 .. Len(q) + Len(r) :
           s[i] = IF i <= Len(q) THEN q[i] ELSE r[i - Len(q)]
  BY ConcatProperties, LenProperties
<1>2. /\ Len(q) \in Nat /\ DOMAIN q = 1 .. Len(q)
      /\ Len(r) \in Nat /\ DOMAIN r = 1 .. Len(r)
      /\ \A i \in DOMAIN q : q[i] \in Nat
  BY LenProperties, ElementOfSeq
<1> HIDE DEF s
<1>3. \A i \in DOMAIN s : \/ i \in DOMAIN q /\ s[i] = q[i]
                          \/ i > Len(q) /\ s[i] = last + (i - Len(q))
  <2> SUFFICES ASSUME NEW i \in DOMAIN s, ~ i <= Len(q)
               PROVE  s[i] = last + (i - Len(q))
    BY <1>1, <1>2
  <2>1. i - Len(q) \in 1 .. Len(r)
    BY <1>1, <1>2
  <2>2. QED
    BY <1>1, <2>1
<1>4. ASSUME NEW i \in DOMAIN s, s[i] # Unsequenced
      PROVE  s[i] \in first .. last + Len(r)
  <2>1. CASE i \in DOMAIN q /\ s[i] = q[i]
    <3>1. q[i] \in first .. last
      BY <1>4, <2>1 DEF HoldsInOrder
    <3>2. QED
      BY <1>2, <2>1, <3>1
  <2>2. CASE i > Len(q) /\ s[i] = last + (i - Len(q))
    BY <1>1, <1>2, <2>2, SMTT(30)
  <2>3. QED
    BY <1>3, <2>1, <2>2
<1>5. ASSUME NEW i \in DOMAIN s, NEW j \in DOMAIN s, i < j,
             s[i] # Unsequenced, s[j] # Unsequenced
      PROVE  s[i] < s[j]
  <2>1. CASE j <= Len(q)
    <3>1. i \in DOMAIN q /\ s[i] = q[i] /\ j \in DOMAIN q /\ s[j] = q[j]
      BY <1>1, <1>2, <1>5, <2>1
    <3>2. QED
      BY <1>5, <3>1 DEF HoldsInOrder
  <2>2. CASE i <= Len(q) /\ j > Len(q)
    <3>1. s[i] <= last
      BY <1>1, <1>2, <1>5, <2>2 DEF HoldsInOrder
    <3>2. s[j] = last + (j - Len(q)) /\ j - Len(q) >= 1
      BY <1>1, <1>2, <1>3, <2>2, SMTT(30)
    <3>3. s[i] \in Nat
      BY <1>1, ElementOfSeq, LenProperties
    <3>4. QED
      BY <1>1, <1>2, <3>1, <3>2, <3>3
  <2>3. CASE i > Len(q)
    <3>1. i \notin DOMAIN q /\ j \notin DOMAIN q /\ i \in Nat /\ j \in Nat
      BY <1>1, <1>2, <1>5, <2>3
    <3>2. s[i] = last + (i - Len(q)) /\ s[j] = last + (j - Len(q))
      BY <1>3, <3>1
    <3>3. QED
      BY <1>2, <1>5, <3>1, <3>2
  <2>4. QED
    BY <1>1, <1>2, <2>1, <2>2, <2>3
<1>6. ASSUME NEW m \in first .. last + Len(r)
      PROVE  \E i \in DOMAIN s : s[i] = m
  <2>1. CASE m <= last
    <3>1. PICK i \in DOMAIN q : q[i] = m
      BY <1>2, <2>1 DEF HoldsInOrder
    <3>2. i \in DOMAIN s /\ s[i] = q[i]
      BY <1>1, <1>2, SMTT(30)
    <3>3. QED
      BY <3>1, <3>2
  <2>2. CASE m > last
    <3> DEFINE i == Len(q) + (m - last)
    <3>1. i \in DOMAIN s /\ ~ i <= Len(q) /\ i - Len(q) = m - last
      BY <1>1, <1>2, <2>2
    <3>2. i \notin DOMAIN q
      BY <1>2, <3>1
    <3>3. s[i] = last + (i - Len(q))
      BY <1>3, <3>1, <3>2
    <3>4. s[i] = m
      BY <1>2, <3>3
    <3>5. QED
      BY <3>1, <3>4
  <2>3. QED
    BY <2>1, <2>2
<1>7. QED
  BY <1>4, <1>5, <1>6 DEF HoldsInOrder, s

\* Appending an unreliable message.
LEMMA AppendUnsequenced ==
  ASSUME NEW q \in Seq(Nat), NEW first, NEW last, HoldsInOrder(q, first, last)
  PROVE  HoldsInOrder(Append(q, Unsequenced), first, last)
<1> DEFINE s == Append(q, Unsequenced)
<1>1. /\ DOMAIN s = 1 .. Len(q) + 1
      /\ Len(q) \in Nat /\ DOMAIN q = 1 .. Len(q)
      /\ s[Len(q) + 1] = Unsequenced
      /\ \A i \in DOMAIN q : s[i] = q[i]
  BY AppendElements
<1> HIDE DEF s
<1>2. \A i \in DOMAIN s : s[i] # Unsequenced => i \in DOMAIN q /\ s[i] = q[i]
  BY <1>1
<1>3. DOMAIN q \subseteq DOMAIN s
  BY <1>1
<1>4. HoldsInOrder(s, first, last)
  BY <1>1, <1>2, <1>3 DEF HoldsInOrder
<1>5. QED
  BY <1>4 DEF s

\* Taking the first packet: a reliable one is the first message of the queue.
LEMMA PopMessage ==
  ASSUME NEW q \in Seq(Nat), q # <<>>, NEW first \in Nat \ {0}, NEW last \in Nat,
         HoldsInOrder(q, first, last)
  PROVE  /\ Head(q) = Unsequenced => HoldsInOrder(Tail(q), first, last)
         /\ Head(q) # Unsequenced => /\ Head(q) = first /\ first <= last
                                     /\ HoldsInOrder(Tail(q), first + 1, last)
<1> DEFINE t == Tail(q)
<1>1. /\ Len(q) \in Nat \ {0} /\ DOMAIN q = 1 .. Len(q) /\ Head(q) = q[1]
      /\ DOMAIN t = 1 .. Len(q) - 1
      /\ \A i \in DOMAIN t : i + 1 \in DOMAIN q /\ t[i] = q[i + 1]
      /\ \A i \in DOMAIN q : i # 1 => i - 1 \in DOMAIN t /\ t[i - 1] = q[i]
      /\ \A i \in DOMAIN q : q[i] \in Nat
  <2>1. /\ Len(q) \in Nat \ {0} /\ DOMAIN q = 1 .. Len(q) /\ Head(q) = q[1]
        /\ DOMAIN t = 1 .. Len(q) - 1
        /\ \A i \in 1 .. Len(q) - 1 : t[i] = q[i + 1]
    BY PopElements
  <2>2. \A i \in DOMAIN q : q[i] \in Nat
    BY <2>1, ElementOfSeq
  <2> HIDE DEF t
  <2>3. QED
    BY <2>1, <2>2, SMTT(30)
<1> HIDE DEF t
<1>2. \A i, j \in DOMAIN t : i < j => i + 1 < j + 1
  BY <1>1
<1>3. \A i, j \in DOMAIN t :
        i < j /\ t[i] # Unsequenced /\ t[j] # Unsequenced => t[i] < t[j]
  BY <1>1, <1>2 DEF HoldsInOrder
<1>4. ASSUME Head(q) = Unsequenced
      PROVE  HoldsInOrder(t, first, last)
  <2>1. \A m \in first .. last : \E i \in DOMAIN t : t[i] = m
    <3> SUFFICES ASSUME NEW m \in first .. last
                 PROVE  \E i \in DOMAIN t : t[i] = m
      OBVIOUS
    <3>1. PICK i \in DOMAIN q : q[i] = m
      BY DEF HoldsInOrder
    <3>2. i # 1
      BY <1>1, <1>4, <3>1 DEF Unsequenced
    <3>3. QED
      BY <1>1, <3>1, <3>2
  <2>2. \A i \in DOMAIN t : t[i] # Unsequenced => t[i] \in first .. last
    BY <1>1 DEF HoldsInOrder
  <2>3. QED
    BY <1>3, <2>1, <2>2 DEF HoldsInOrder
<1>5. ASSUME Head(q) # Unsequenced
      PROVE  /\ Head(q) = first /\ first <= last
             /\ HoldsInOrder(t, first + 1, last)
  <2>1. q[1] \in first .. last
    BY <1>1, <1>5 DEF HoldsInOrder
  <2>2. \A i \in DOMAIN q : i # 1 /\ q[i] # Unsequenced => q[1] < q[i]
    <3>1. 1 \in DOMAIN q /\ q[1] # Unsequenced
      BY <1>1, <1>5
    <3>2. \A i \in DOMAIN q : i # 1 => 1 < i
      BY <1>1
    <3>3. QED
      BY <3>1, <3>2 DEF HoldsInOrder
  <2>3. q[1] = first
    <3>1. PICK i \in DOMAIN q : q[i] = first
      BY <2>1 DEF HoldsInOrder
    <3>2. QED
      BY <2>1, <2>2, <3>1 DEF Unsequenced
  <2>4. \A i \in DOMAIN t : t[i] # Unsequenced => t[i] \in first + 1 .. last
    <3> SUFFICES ASSUME NEW i \in DOMAIN t, t[i] # Unsequenced
                 PROVE  t[i] \in first + 1 .. last
      OBVIOUS
    <3>1. i + 1 \in DOMAIN q /\ t[i] = q[i + 1] /\ i + 1 # 1
      BY <1>1
    <3>2. q[i + 1] \in first .. last /\ q[1] < q[i + 1]
      BY <2>2, <3>1 DEF HoldsInOrder
    <3>3. QED
      BY <2>3, <3>1, <3>2
  <2>5. \A m \in first + 1 .. last : \E i \in DOMAIN t : t[i] = m
    <3> SUFFICES ASSUME NEW m \in first + 1 .. last
                 PROVE  \E i \in DOMAIN t : t[i] = m
      OBVIOUS
    <3>1. PICK i \in DOMAIN q : q[i] = m
      BY DEF HoldsInOrder
    <3>2. i # 1
      BY <2>3, <3>1
    <3>3. QED
      BY <1>1, <3>1, <3>2
  <2>6. HoldsInOrder(t, first + 1, last)
    BY <1>3, <2>4, <2>5 DEF HoldsInOrder
  <2>7. QED
    BY <1>1, <2>1, <2>3, <2>6
<1>6. QED
  BY <1>4, <1>5 DEF t

----------------------------------------------------------------------------
(* The receiver. *)

\* Receiving a reliable packet: it is stored, and whatever the loop releases
\* continues the messages released so far.
LEMMA ReceiveReliable ==
  ASSUME NoIdReuse, TypeOK, NEW h \in Host, SenderInv(Peer(h)),
         ReceiverInv(h), ReadyInv(h),
         NEW d \in Datagram, Genuine(Peer(h), d), d.reliable,
         StoreAndEnqueue(h, d), UNCHANGED <<scheduled, delivered>>
  PROVE  ReceiverInv(h)' /\ ReadyInv(h)'
<1> DEFINE top    == scheduled[Peer(h)]
           seq    == inSeq[h]
           stored == [inReliable[h] EXCEPT ![d.id] = d.msg]
           latest == UpdatedAckId(h, d.id)
<1>1. /\ top \in Nat /\ top < MaxPossibleId /\ seq \in Nat /\ seq <= top
      /\ Len(delivered[h]) \in Nat /\ Len(delivered[h]) <= seq
  <2>1. Peer(h) \in Host /\ MaxReliable[Peer(h)] \in Nat
    BY PeerFacts, ConnectionAssumption
  <2>2. top \in Nat /\ seq \in Nat /\ Len(delivered[h]) \in Nat
    BY <2>1, LenProperties DEF TypeOK, Id
  <2>3. QED
    BY <2>1, <2>2, MaxPossibleIdAssumption DEF SenderInv, ReceiverInv, NoIdReuse
<1>2. d.id \in 1 .. top /\ d.msg = d.id /\ d.id \in Id
  BY <1>1, MaxPossibleIdAssumption DEF Genuine, Id
<1>3. /\ inReliable[h] \in [Id -> Nat] /\ stored \in [Id -> Nat]
      /\ stored[d.id] = d.id
      /\ \A id \in Id : id # d.id => stored[id] = inReliable[h][id]
  <2>1. inReliable[h] \in [Id -> Nat]
    BY DEF TypeOK
  <2>2. d.msg \in Nat /\ d.id \in Id
    BY DEF Datagram
  <2>3. QED
    BY <1>2, <2>1, <2>2
<1>4. \A id \in Id : stored[id] \in {Absent, id} /\ stored[id] <= top
  BY <1>1, <1>2, <1>3 DEF ReceiverInv, HoldsUnderId
<1>5. /\ inReliable'[h] = stored
      /\ UNCHANGED <<scheduled, delivered>>
  BY DEF StoreAndEnqueue, TypeOK
<1>6. PICK n \in 0 .. MaxPossibleId :
        /\ Enqueues(n, seq, latest, stored)
        /\ inSeq'   = [inSeq EXCEPT ![h] = IdAfter(@, n)]
        /\ inReady' = [inReady EXCEPT ![h] =
             @ \o [i \in 1 .. n |-> stored[IdAfter(inSeq[h], i)]]]
  BY DEF StoreAndEnqueue
<1> DEFINE released == [i \in 1 .. n |-> stored[IdAfter(inSeq[h], i)]]
<1>7. inSeq'[h] = IdAfter(seq, n) /\ inReady'[h] = inReady[h] \o released
  BY <1>6 DEF TypeOK
<1>8. released \in Seq(Nat) /\ Len(released) = n
  <2>1. inSeq[h] \in Id
    BY DEF TypeOK
  <2>2. QED
    BY <1>3, <2>1, ReleasedType
<1> HIDE DEF stored, latest, top, seq
<1>9. /\ seq + n <= top
      /\ \A i \in 0 .. n : IdAfter(seq, i) = seq + i
      /\ \A i \in 1 .. n : stored[seq + i] = seq + i
  <2>1. Enqueues(n, seq, latest, stored)
    BY <1>6
  <2>2. stored \in [Id -> Nat]
    BY <1>3
  <2>3. top \in Nat /\ top < MaxPossibleId /\ seq \in Nat /\ seq <= top
    BY <1>1
  <2> HIDE DEF released
  <2>4. QED
    BY <1>4, <2>1, <2>2, <2>3, LoopReleasesInOrder, ZenonT(60)
<1>10. n \in Nat /\ inSeq'[h] = seq + n
  BY <1>6, <1>7, <1>9, MaxPossibleIdAssumption
<1>11. \A i \in 1 .. n : released[i] = seq + i
  <2> SUFFICES ASSUME NEW i \in 1 .. n
               PROVE  released[i] = seq + i
    OBVIOUS
  <2>1. i \in 0 .. n
    BY <1>10
  <2>2. QED
    BY <1>9, <2>1 DEF seq
<1> HIDE DEF released
<1>12. ReceiverInv(h)'
  <2>1. HoldsUnderId(Peer(h), inReliable[h])'
    BY <1>4, <1>5 DEF HoldsUnderId, top
  <2>2. \A id \in 1 .. inSeq'[h] : inReliable'[h][id] # Absent
    <3> SUFFICES ASSUME NEW id \in 1 .. seq + n
                 PROVE  stored[id] # Absent
      BY <1>5, <1>10
    <3>1. CASE id <= seq
      <4>1. id \in 1 .. seq /\ id \in Id
        BY <1>1, <1>10, <3>1, MaxPossibleIdAssumption DEF Id
      <4>2. inReliable[h][id] # Absent
        BY <4>1 DEF ReceiverInv, HasReceivedPacket, seq
      <4>3. QED
        BY <1>2, <1>3, <4>1, <4>2 DEF Absent
    <3>2. CASE id > seq
      <4> DEFINE i == id - seq
      <4>1. i \in 1 .. n /\ seq + i = id
        BY <1>1, <1>10, <3>2
      <4>2. QED
        BY <1>9, <4>1 DEF Absent
    <3>3. QED
      BY <1>1, <1>10, <3>1, <3>2
  <2>3. QED
    BY <1>1, <1>5, <1>9, <1>10, <2>1, <2>2
       DEF ReceiverInv, HasReceivedPacket, top
<1>13. ReadyInv(h)'
  <2>1. /\ inReady[h] \in Seq(Nat) /\ Len(delivered[h]) + 1 \in Nat
        /\ Len(delivered[h]) + 1 <= seq + 1
    <3>1. inReady[h] \in Seq(Nat)
      BY DEF TypeOK
    <3>2. QED
      BY <1>1, <3>1
  <2>2. HoldsInOrder(inReady[h], Len(delivered[h]) + 1, seq)
    BY DEF ReadyInv, seq
  <2>3. HoldsInOrder(inReady[h] \o released, Len(delivered[h]) + 1, seq + n)
    BY <1>1, <1>8, <1>11, <2>1, <2>2, AppendMessages
  <2>4. HoldsInOrder(inReady[h], Len(delivered[h]) + 1, inSeq[h])'
        = HoldsInOrder(inReady'[h], Len(delivered'[h]) + 1, inSeq'[h])
    BY DEF HoldsInOrder
  <2>5. QED
    BY <1>5, <1>7, <1>10, <2>3, <2>4 DEF ReadyInv
<1>14. QED
  BY <1>12, <1>13

\* Popping an incoming packet delivers the next message or an unreliable one.
LEMMA PopIncomingDelivers ==
  ASSUME TypeOK, NEW h \in Host, ReceiverInv(h), ReadyInv(h),
         PopReadyIncomingPacket(h)
  PROVE  /\ ReceiverInv(h)' /\ ReadyInv(h)'
         /\ \/ delivered'[h] = delivered[h]
            \/ /\ Len(delivered[h]) < scheduled[Peer(h)]
               /\ delivered'[h] = Append(delivered[h], Len(delivered[h]) + 1)
<1> DEFINE q     == inReady[h]
           first == Len(delivered[h]) + 1
           last  == inSeq[h]
<1>1. /\ q \in Seq(Nat) /\ q # <<>> /\ delivered[h] \in Seq(Nat)
      /\ inReady'[h] = Tail(q)
      /\ UNCHANGED <<inReliable, inSeq, scheduled>>
  BY DEF PopReadyIncomingPacket, TypeOK, outVars
<1>2. first \in Nat \ {0} /\ last \in Nat /\ scheduled[Peer(h)] \in Nat
  <2>1. first \in Nat \ {0}
    BY <1>1, LenProperties
  <2>2. last \in Nat
    BY MaxPossibleIdAssumption DEF TypeOK, Id
  <2>3. scheduled[Peer(h)] \in Nat
    BY PeerFacts DEF TypeOK
  <2>4. QED
    BY <2>1, <2>2, <2>3
<1>3. HoldsInOrder(q, first, last)
  BY DEF ReadyInv
<1>4. /\ Head(q) = Unsequenced => HoldsInOrder(Tail(q), first, last)
      /\ Head(q) # Unsequenced => /\ Head(q) = first /\ first <= last
                                  /\ HoldsInOrder(Tail(q), first + 1, last)
  BY <1>1, <1>2, <1>3, PopMessage
<1>5. CASE Head(q) = Unsequenced
  <2>1. delivered' = delivered
    BY <1>5 DEF PopReadyIncomingPacket
  <2>2. QED
    BY <1>1, <1>4, <1>5, <2>1
       DEF ReceiverInv, ReadyInv, HoldsUnderId, HasReceivedPacket, HoldsInOrder
<1>6. CASE Head(q) # Unsequenced
  <2> DEFINE was == delivered[h]
  <2>1. delivered'[h] = Append(was, Head(q))
    BY <1>6 DEF PopReadyIncomingPacket, TypeOK
  <2>2. Head(q) = first /\ first <= last /\ HoldsInOrder(Tail(q), first + 1, last)
    BY <1>4, <1>6
  <2>3. /\ DOMAIN Append(was, first) = 1 .. Len(was) + 1
        /\ Len(was) \in Nat /\ DOMAIN was = 1 .. Len(was)
        /\ Append(was, first)[Len(was) + 1] = first
        /\ \A i \in DOMAIN was : Append(was, first)[i] = was[i]
    BY <1>1, AppendElements
  <2>4. Len(delivered'[h]) = Len(was) + 1
    BY <1>1, <1>2, <2>1, <2>2
  <2>5. \A i \in DOMAIN delivered'[h] : delivered'[h][i] = i
    <3>1. \A i \in DOMAIN was : was[i] = i
      BY DEF ReceiverInv
    <3>2. delivered'[h] = Append(was, first)
      BY <2>1, <2>2
    <3>3. \A i \in 1 .. Len(was) + 1 : i \in DOMAIN was \/ i = Len(was) + 1
      BY <2>3
    <3>4. QED
      BY <2>3, <3>1, <3>2, <3>3
  <2>6. ReceiverInv(h)'
    BY <1>1, <1>2, <2>2, <2>4, <2>5
       DEF ReceiverInv, HoldsUnderId, HasReceivedPacket
  <2>7. ReadyInv(h)'
    BY <1>1, <2>2, <2>4 DEF ReadyInv, HoldsInOrder
  <2>8. Len(was) < scheduled[Peer(h)]
    BY <1>2, <2>2, <2>3 DEF ReceiverInv
  <2>9. QED
    BY <2>1, <2>2, <2>6, <2>7, <2>8
<1>7. QED
  BY <1>5, <1>6

\* Storing what one host received leaves the other host as it was.
LEMMA StoresAtOneHost ==
  ASSUME TypeOK, NEW h \in Host, NEW d, StoreAndEnqueue(h, d),
         NEW g \in Host, g # h
  PROVE  UNCHANGED <<inReliable[g], inSeq[g], inReady[g]>>
<1>1. /\ \E stored : inReliable' = [inReliable EXCEPT ![h] = stored]
      /\ \E id : inSeq' = [inSeq EXCEPT ![h] = id]
      /\ \E ready : inReady' = [inReady EXCEPT ![h] = ready]
  BY DEF StoreAndEnqueue
<1>2. QED
  BY <1>1 DEF TypeOK

\* The only steps that change what g has received are Received and
\* PopReadyIncomingPacket of g.
LEMMA ReceiverStep ==
  ASSUME NoIdReuse, TypeOK, DeliveryInv,
         NEW h \in Host, HostStep(h), NEW g \in Host
  PROVE  ReceiverInv(g)' /\ ReadyInv(g)'
<1>1. /\ SenderInv(Peer(g)) /\ ReceiverInv(g) /\ ReadyInv(g)
      /\ Peer(g) \in Host
  BY PeerFacts DEF DeliveryInv
<1>2. ASSUME UNCHANGED <<inReliable[g], inSeq[g], inReady[g], delivered[g]>>,
             scheduled[Peer(g)] <= scheduled'[Peer(g)],
             scheduled'[Peer(g)] \in Nat
      PROVE  ReceiverInv(g)' /\ ReadyInv(g)'
  <2>1. /\ scheduled[Peer(g)] \in Nat /\ inSeq[g] \in Nat
        /\ inReliable[g] \in [Id -> Nat]
    <3>1. inSeq[g] \in Nat
      BY MaxPossibleIdAssumption DEF TypeOK, Id
    <3>2. scheduled[Peer(g)] \in Nat /\ inReliable[g] \in [Id -> Nat]
      BY <1>1 DEF TypeOK
    <3>3. QED
      BY <3>1, <3>2
  <2>2. ReceiverInv(g)'
    BY <1>1, <1>2, <2>1 DEF ReceiverInv, HoldsUnderId, HasReceivedPacket
  <2>3. ReadyInv(g)'
    BY <1>1, <1>2 DEF ReadyInv, HoldsInOrder
  <2>4. QED
    BY <2>2, <2>3
<1>3. scheduled[Peer(g)] \in Nat
  BY <1>1 DEF TypeOK
<1>4. CASE ScheduleReliable(h)
  <2>1. /\ scheduled' = [scheduled EXCEPT ![h] = scheduled[h] + 1]
        /\ UNCHANGED inVars
    BY <1>4 DEF ScheduleReliable
  <2>2. scheduled'[Peer(g)] \in Nat /\ scheduled[Peer(g)] <= scheduled'[Peer(g)]
    <3>1. \/ scheduled'[Peer(g)] = scheduled[Peer(g)]
          \/ scheduled'[Peer(g)] = scheduled[Peer(g)] + 1
      BY <1>1, <2>1 DEF TypeOK
    <3>2. QED
      BY <1>3, <3>1
  <2>3. QED
    BY <1>2, <2>1, <2>2 DEF inVars
<1>5. CASE ScheduleUnreliable(h)
  BY <1>2, <1>3, <1>5 DEF ScheduleUnreliable, inVars
<1>6. CASE PopReadyOutgoingPacket(h)
  BY <1>2, <1>3, <1>6 DEF PopReadyOutgoingPacket, inVars
<1>7. CASE PopReadyIncomingPacket(h)
  <2>1. CASE g = h
    BY <1>1, <1>7, <2>1, PopIncomingDelivers
  <2>2. CASE g # h
    <3>1. UNCHANGED <<inReliable[g], inSeq[g], inReady[g], delivered[g], scheduled>>
      BY <1>7, <2>2 DEF PopReadyIncomingPacket, outVars, TypeOK
    <3>2. QED
      BY <1>2, <1>3, <3>1
  <2>3. QED
    BY <2>1, <2>2
<1>8. ASSUME NEW d \in net[h], Received(h, d)
      PROVE  ReceiverInv(g)' /\ ReadyInv(g)'
  <2>1. UNCHANGED <<scheduled, delivered>>
    BY <1>8 DEF Received
  <2>2. CASE g = h /\ d.reliable
    <3>1. d \in Datagram /\ Genuine(Peer(h), d)
      BY <1>1, <2>2, PeerFacts DEF TypeOK, SenderInv
    <3>2. QED
      BY <1>1, <1>8, <2>1, <2>2, <3>1, ReceiveReliable DEF Received
  <2>3. CASE g = h /\ ~ d.reliable
    <3>1. /\ inReady' = [inReady EXCEPT ![h] = Append(@, d.msg)]
          /\ UNCHANGED <<inReliable, inSeq>>
      BY <1>8, <2>3 DEF Received
    <3>2. d.msg = Unsequenced
      BY <1>1, <2>3, PeerFacts DEF SenderInv, Genuine
    <3>3. inReady'[g] = Append(inReady[g], Unsequenced) /\ inReady[g] \in Seq(Nat)
      BY <2>3, <3>1, <3>2 DEF TypeOK
    <3>4. HoldsInOrder(inReady'[g], Len(delivered[g]) + 1, inSeq[g])
      BY <1>1, <3>3, AppendUnsequenced DEF ReadyInv
    <3>5. ReceiverInv(g)'
      BY <1>1, <2>1, <3>1 DEF ReceiverInv, HoldsUnderId, HasReceivedPacket
    <3>6. QED
      BY <2>1, <3>1, <3>4, <3>5 DEF ReadyInv, HoldsInOrder
  <2>4. CASE g # h
    <3>1. UNCHANGED <<inReliable[g], inSeq[g], inReady[g]>>
      BY <1>1, <1>8, <2>4, StoresAtOneHost DEF Received, TypeOK
    <3>2. QED
      BY <1>2, <1>3, <2>1, <3>1
  <2>5. QED
    BY <2>2, <2>3, <2>4
<1>9. ASSUME NEW d \in net[h], Lose(h, d)
      PROVE  ReceiverInv(g)' /\ ReadyInv(g)'
  BY <1>2, <1>3, <1>9 DEF Lose, inVars, outVars
<1>10. QED
  BY <1>4, <1>5, <1>6, <1>7, <1>8, <1>9 DEF HostStep

----------------------------------------------------------------------------
(* Delivery. *)

LEMMA DeliveryInit == Init => DeliveryInv
<1> SUFFICES ASSUME Init, NEW h \in Host
             PROVE  SenderInv(h) /\ ReceiverInv(h) /\ ReadyInv(h)
  BY DEF DeliveryInv
<1>1. Peer(h) \in Host /\ MaxReliable[h] \in Nat
  BY PeerFacts, ConnectionAssumption
<1>2. /\ scheduled[h] = 0 /\ scheduled[Peer(h)] = 0
      /\ outSeq[h] = 0 /\ inSeq[h] = 0
      /\ outReady[h] = <<>> /\ inReady[h] = <<>> /\ delivered[h] = <<>>
      /\ net[Peer(h)] = {}
      /\ \A id \in Id : outReliable[h][id] = 0 /\ inReliable[h][id] = 0
  BY <1>1 DEF Init, InvalidId, Absent
<1>3. SenderInv(h)
  BY <1>1, <1>2 DEF SenderInv, HoldsUnderId, Absent
<1>4. ReceiverInv(h)
  BY <1>2 DEF ReceiverInv, HoldsUnderId, Absent
<1>5. ReadyInv(h)
  BY <1>2 DEF ReadyInv, HoldsInOrder
<1>6. QED
  BY <1>3, <1>4, <1>5

LEMMA DeliveryStep ==
  ASSUME NoIdReuse, TypeOK, DeliveryInv, [Next]_vars
  PROVE  DeliveryInv'
<1>1. CASE UNCHANGED vars
  BY <1>1 DEF vars, outVars, inVars, DeliveryInv, SenderInv, ReceiverInv, ReadyInv,
              HoldsUnderId, HasReceivedPacket, Genuine
<1>2. CASE Next
  <2> SUFFICES ASSUME NEW h \in Host, HostStep(h), NEW g \in Host
               PROVE  SenderInv(g)' /\ ReceiverInv(g)' /\ ReadyInv(g)'
    BY <1>2 DEF Next, DeliveryInv
  <2>1. SenderInv(g)'
    BY SenderStep DEF DeliveryInv
  <2>2. ReceiverInv(g)' /\ ReadyInv(g)'
    BY ReceiverStep
  <2>3. QED
    BY <2>1, <2>2
<1>3. QED
  BY <1>1, <1>2

\* Where every reliable message is, in any order the network delivers the
\* datagrams: the inductive invariant behind the two theorems below.
THEOREM DeliveryInvariant ==
  ASSUME NoIdReuse
  PROVE  Spec => []DeliveryInv
<1>1. Init => DeliveryInv
  BY DeliveryInit
<1>2. TypeOK /\ DeliveryInv /\ [Next]_vars => DeliveryInv'
  BY DeliveryStep
<1>3. QED
  BY <1>1, <1>2, TypeCorrect, PTL DEF Spec

\* The application pops the reliable messages in the order in which its peer
\* scheduled them, each once and with none left out, as long as no id is reused.
THEOREM DeliveredInOrder ==
  ASSUME NoIdReuse
  PROVE  Spec => []InOrder
<1>1. DeliveryInv => InOrder
  BY DEF DeliveryInv, ReceiverInv, InOrder
<1>2. QED
  BY <1>1, DeliveryInvariant, PTL

----------------------------------------------------------------------------
(* Refinement. *)

\* To each step, the messages to g make a step of the stream, or none, if what
\* the application pops is the next message.
LEMMA StreamStep ==
  ASSUME TypeOK, [Next]_vars, NEW g \in Host,
         PopReadyIncomingPacket(g) =>
           \/ delivered'[g] = delivered[g]
           \/ /\ Len(delivered[g]) < scheduled[Peer(g)]
              /\ delivered'[g] = Append(delivered[g], Len(delivered[g]) + 1)
  PROVE  \/ UNCHANGED <<scheduled[Peer(g)], delivered[g]>>
         \/ /\ scheduled'[Peer(g)] = scheduled[Peer(g)] + 1
            /\ UNCHANGED delivered[g]
         \/ /\ Len(delivered[g]) < scheduled[Peer(g)]
            /\ delivered'[g] = Append(delivered[g], Len(delivered[g]) + 1)
            /\ UNCHANGED scheduled[Peer(g)]
<1>1. CASE UNCHANGED vars
  BY <1>1 DEF vars, outVars, inVars
<1>2. ASSUME NEW h \in Host, HostStep(h), ~ UNCHANGED scheduled
      PROVE  /\ \/ scheduled'[Peer(g)] = scheduled[Peer(g)] + 1
                \/ UNCHANGED scheduled[Peer(g)]
             /\ UNCHANGED delivered[g]
  <2>1. ScheduleReliable(h)
    BY <1>2 DEF HostStep, ScheduleUnreliable, PopReadyOutgoingPacket,
                PopReadyIncomingPacket, Received, Lose, outVars
  <2>2. /\ scheduled' = [scheduled EXCEPT ![h] = scheduled[h] + 1]
        /\ UNCHANGED delivered
    BY <2>1 DEF ScheduleReliable, inVars
  <2>3. QED
    BY <2>2, PeerFacts DEF TypeOK
<1>3. ASSUME NEW h \in Host, HostStep(h), UNCHANGED scheduled, ~ UNCHANGED delivered
      PROVE  \/ UNCHANGED delivered[g]
             \/ /\ Len(delivered[g]) < scheduled[Peer(g)]
                /\ delivered'[g] = Append(delivered[g], Len(delivered[g]) + 1)
  <2>1. PopReadyIncomingPacket(h)
    BY <1>3 DEF HostStep, ScheduleReliable, ScheduleUnreliable,
                PopReadyOutgoingPacket, Received, Lose, inVars
  <2>2. CASE g = h
    BY <2>1, <2>2
  <2>3. CASE g # h
    BY <2>1, <2>3 DEF PopReadyIncomingPacket, TypeOK
  <2>4. QED
    BY <2>2, <2>3
<1>4. CASE Next
  <2>1. PICK h \in Host : HostStep(h)
    BY <1>4 DEF Next
  <2>2. QED
    BY <1>2, <1>3, <2>1
<1>5. QED
  BY <1>1, <1>4

LEMMA ClientAndServer ==
  /\ ClientHost \in Host /\ ServerHost \in Host
  /\ Peer(ClientHost) = ServerHost /\ Peer(ServerHost) = ClientHost
BY ConnectionAssumption DEF Host, Peer

\* The messages of the client make an ordered stream without gaps.
THEOREM ImplementsStreamToServer ==
  ASSUME NoIdReuse
  PROVE  Spec => StreamToServer
<1>1. Init => ToServer!Init
  BY ClientAndServer DEF Init, ToServer!Init
<1>2. TypeOK /\ DeliveryInv /\ [Next]_vars => [ToServer!Next]_(ToServer!vars)
  BY PopIncomingDelivers, StreamStep, ClientAndServer
     DEF DeliveryInv, ToServer!Next, ToServer!Send, ToServer!Deliver, ToServer!vars
<1>3. QED
  BY <1>1, <1>2, TypeCorrect, DeliveryInvariant, PTL
     DEF Spec, StreamToServer, ToServer!Spec

\* So do those of the server.
THEOREM ImplementsStreamToClient ==
  ASSUME NoIdReuse
  PROVE  Spec => StreamToClient
<1>1. Init => ToClient!Init
  BY ClientAndServer DEF Init, ToClient!Init
<1>2. TypeOK /\ DeliveryInv /\ [Next]_vars => [ToClient!Next]_(ToClient!vars)
  BY PopIncomingDelivers, StreamStep, ClientAndServer
     DEF DeliveryInv, ToClient!Next, ToClient!Send, ToClient!Deliver, ToClient!vars
<1>3. QED
  BY <1>1, <1>2, TypeCorrect, DeliveryInvariant, PTL
     DEF Spec, StreamToClient, ToClient!Spec
==========================================================================
