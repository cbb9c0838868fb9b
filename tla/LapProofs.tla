----------------------------- MODULE LapProofs -----------------------------
(***************************************************************************)
(* Ids that wrap: on a network that keeps the order of datagrams and loses *)
(* none, reliable messages are delivered in order, however many they are,  *)
(* as long as the first headers do not arrive a whole lap late.            *)
(***************************************************************************)
EXTENDS DeliveryProofs, FiniteSetTheorems

----------------------------------------------------------------------------
(* The ids of successive messages. *)

\* Quotient and remainder are unique.
LEMMA OneRemainder ==
  ASSUME NEW n \in Nat \ {0}, NEW p \in Int, NEW q \in Int,
         NEW r \in 0 .. n - 1, NEW s \in 0 .. n - 1, n * p + r = n * q + s
  PROVE  r = s
<1> DEFINE k == p - q
<1>1. \A i \in Int : /\ i >= 1 => n * i >= n
                     /\ i <= -1 => n * i <= -n
                     /\ i = 0 => n * i = 0
  OBVIOUS
<1>2. k \in Int /\ n * k = s - r
  OBVIOUS
<1> HIDE DEF k
<1>3. n * k > -n /\ n * k < n
  BY <1>2
<1>4. k = 0
  BY <1>1, <1>2, <1>3
<1>5. QED
  BY <1>1, <1>2, <1>4

LEMMA NextRemainder ==
  ASSUME NEW n \in Nat \ {0}, NEW j \in Nat
  PROVE  (j + 1) % n = IF j % n = n - 1 THEN 0 ELSE (j % n) + 1
<1>1. ASSUME NEW i \in Nat
      PROVE  /\ i \div n \in Int /\ i % n \in 0 .. n - 1
             /\ n * (i \div n) \in Int
             /\ i = n * (i \div n) + (i % n)
  OBVIOUS
<1> DEFINE p == j \div n
           r == j % n
           q == (j + 1) \div n
           s == (j + 1) % n
<1>2. p \in Int /\ r \in 0 .. n - 1 /\ n * p \in Int /\ j = n * p + r
  BY <1>1
<1>3. q \in Int /\ s \in 0 .. n - 1 /\ n * q \in Int /\ j + 1 = n * q + s
  <2>1. j + 1 \in Nat
    OBVIOUS
  <2>2. QED
    BY <1>1, <2>1
<1> HIDE DEF p, r, q, s
<1>4. CASE r = n - 1
  <2>1. n * (p + 1) = n * p + n /\ p + 1 \in Int /\ 0 \in 0 .. n - 1
    BY <1>2
  <2>2. n * (p + 1) + 0 = n * q + s
    BY <1>2, <1>3, <1>4, <2>1
  <2>3. s = 0
    BY <1>3, <2>1, <2>2, OneRemainder
  <2>4. QED
    BY <1>4, <2>3 DEF r, s
<1>5. CASE r # n - 1
  <2>1. r + 1 \in 0 .. n - 1 /\ n * p + (r + 1) = n * q + s
    BY <1>2, <1>3, <1>5
  <2>2. s = r + 1
    BY <1>2, <1>3, <2>1, OneRemainder
  <2>3. QED
    BY <1>5, <2>2 DEF r, s
<1>6. QED
  BY <1>4, <1>5

LEMMA AtMostDividend ==
  ASSUME NEW n \in Nat \ {0}, NEW j \in Nat
  PROVE  j % n \in 0 .. n - 1 /\ j % n <= j
<1>1. /\ j \div n \in Nat /\ j % n \in 0 .. n - 1
      /\ j = n * (j \div n) + (j % n)
  OBVIOUS
<1>2. \A i \in Nat : n * i \in Nat
  OBVIOUS
<1>3. QED
  BY <1>1, <1>2

\* The sequence number goes through the ids of the messages, lap after lap.
LEMMA IdOfNext ==
  ASSUME NEW m \in Nat
  PROVE  /\ IdOf(m) \in Id /\ IdOf(m + 1) \in ValidId
         /\ IdOf(m + 1) = NextId(IdOf(m))
         /\ IdOf(m + 1) <= m + 1
<1>1. MaxPossibleId \in Nat \ {0}
  BY MaxPossibleIdAssumption
<1>2. IdOf(m + 1) = (m % MaxPossibleId) + 1
  BY DEF IdOf
<1>3. m % MaxPossibleId \in 0 .. MaxPossibleId - 1 /\ m % MaxPossibleId <= m
  BY <1>1, AtMostDividend
<1>4. CASE m = 0
  <2>1. m % MaxPossibleId = 0
    BY <1>1, <1>4
  <2>2. QED
    BY <1>1, <1>2, <1>4, <2>1 DEF IdOf, InvalidId, NextId, Id, ValidId
<1>5. CASE m # 0
  <2> DEFINE j == m - 1
             r == j % MaxPossibleId
  <2>1. j \in Nat /\ m = j + 1 /\ IdOf(m) = r + 1
    BY <1>5 DEF IdOf
  <2>2. r \in 0 .. MaxPossibleId - 1
    BY <1>1, <2>1
  <2>3. m % MaxPossibleId = IF r = MaxPossibleId - 1 THEN 0 ELSE r + 1
    BY <1>1, <2>1, NextRemainder
  <2> HIDE DEF r
  <2>4. QED
    BY <1>1, <1>2, <1>3, <2>1, <2>2, <2>3 DEF NextId, Id, ValidId
<1>6. QED
  BY <1>4, <1>5

\* One step of the loop goes to the id after the one it comes from, which is
\* another one, and UpdateAckId takes it for a later one, across the wrap too.
LEMMA NextIsLater ==
  ASSUME NEW id \in Id
  PROVE  /\ IdAfter(id, 0) = id /\ IdAfter(id, 1) = NextId(id)
         /\ NextId(id) # id /\ NextId(id) \in Id
         /\ IsLater(id, NextId(id))
<1>1. MaxPossibleId \in Nat /\ MaxPossibleId >= 5 /\ id \in 0 .. MaxPossibleId
  BY MaxPossibleIdAssumption, ConnectionAssumption DEF AckCount, Id
<1>2. HalfId \in Nat /\ HalfId > 1 /\ HalfId < MaxPossibleId - 1
  BY <1>1 DEF HalfId
<1>3. QED
  BY <1>1, <1>2 DEF IdAfter, NextId, IsLater, InvalidId, Id

----------------------------------------------------------------------------
(* The messages of a ready queue. *)

LEMMA MessagesOfQueue ==
  ASSUME NEW q \in Seq(Packet)
  PROVE  /\ Messages(q) \in Seq(Nat) /\ Len(Messages(q)) = Len(q)
         /\ DOMAIN Messages(q) = DOMAIN q
         /\ \A i \in DOMAIN q : Messages(q)[i] = q[i].msg
<1>1. Len(q) \in Nat /\ DOMAIN q = 1 .. Len(q) /\ \A i \in DOMAIN q : q[i] \in Packet
  BY LenProperties, ElementOfSeq
<1>2. Messages(q) \in [1 .. Len(q) -> Nat]
  BY <1>1 DEF Messages, Packet
<1>3. QED
  BY <1>1, <1>2, FunctionIsSeq DEF Messages

LEMMA AppendedMessage ==
  ASSUME NEW q \in Seq(Packet), NEW p \in Packet
  PROVE  Messages(Append(q, p)) = Append(Messages(q), p.msg)
<1> DEFINE s == Append(q, p)
           t == Append(Messages(q), p.msg)
<1>1. /\ s \in Seq(Packet) /\ p.msg \in Nat
      /\ DOMAIN s = 1 .. Len(q) + 1
      /\ Len(q) \in Nat /\ DOMAIN q = 1 .. Len(q)
      /\ s[Len(q) + 1] = p
      /\ \A i \in DOMAIN q : s[i] = q[i]
  BY AppendElements DEF Packet
<1>2. /\ Messages(q) \in Seq(Nat) /\ Len(Messages(q)) = Len(q)
      /\ DOMAIN Messages(q) = DOMAIN q
      /\ \A i \in DOMAIN q : Messages(q)[i] = q[i].msg
  BY MessagesOfQueue
<1>3. /\ t \in Seq(Nat) /\ DOMAIN t = 1 .. Len(q) + 1
      /\ t[Len(q) + 1] = p.msg
      /\ \A i \in DOMAIN q : t[i] = q[i].msg
  BY <1>1, <1>2, AppendElements
<1>4. /\ Messages(s) \in Seq(Nat) /\ DOMAIN Messages(s) = DOMAIN s
      /\ \A i \in DOMAIN s : Messages(s)[i] = s[i].msg
  BY <1>1, MessagesOfQueue
<1> HIDE DEF s, t
<1>5. ASSUME NEW i \in DOMAIN s
      PROVE  Messages(s)[i] = t[i]
  <2>1. CASE i \in DOMAIN q
    BY <1>1, <1>3, <1>4, <2>1
  <2>2. CASE i = Len(q) + 1
    BY <1>1, <1>3, <1>4, <2>2
  <2>3. QED
    BY <1>1, <2>1, <2>2
<1>6. Len(Messages(s)) = Len(q) + 1 /\ Len(t) = Len(q) + 1
  BY <1>1, <1>3, <1>4, LenProperties
<1>7. Messages(s) = t
  BY <1>1, <1>3, <1>4, <1>5, <1>6, SeqEqual
<1>8. QED
  BY <1>7 DEF s, t

LEMMA MessagesOfTail ==
  ASSUME NEW q \in Seq(Packet), q # <<>>
  PROVE  /\ Messages(q) # <<>> /\ Head(Messages(q)) = Head(q).msg
         /\ Messages(Tail(q)) = Tail(Messages(q))
<1>1. /\ Len(q) \in Nat \ {0} /\ DOMAIN q = 1 .. Len(q) /\ Head(q) = q[1]
      /\ DOMAIN Tail(q) = 1 .. Len(q) - 1
      /\ \A i \in 1 .. Len(q) - 1 : Tail(q)[i] = q[i + 1]
      /\ Tail(q) \in Seq(Packet) /\ Len(Tail(q)) = Len(q) - 1
  BY PopElements, HeadTailProperties
<1>2. /\ Messages(q) \in Seq(Nat) /\ Len(Messages(q)) = Len(q)
      /\ \A i \in DOMAIN q : Messages(q)[i] = q[i].msg
  BY MessagesOfQueue
<1>3. Messages(q) # <<>>
  BY <1>1, <1>2, EmptySeq
<1>4. /\ Head(Messages(q)) = Messages(q)[1]
      /\ Tail(Messages(q)) \in Seq(Nat)
      /\ Len(Tail(Messages(q))) = Len(q) - 1
      /\ DOMAIN Tail(Messages(q)) = 1 .. Len(q) - 1
      /\ \A i \in 1 .. Len(q) - 1 : Tail(Messages(q))[i] = Messages(q)[i + 1]
  BY <1>2, <1>3, PopElements, HeadTailProperties
<1>5. /\ Messages(Tail(q)) \in Seq(Nat)
      /\ Len(Messages(Tail(q))) = Len(q) - 1
      /\ DOMAIN Messages(Tail(q)) = 1 .. Len(q) - 1
      /\ \A i \in 1 .. Len(q) - 1 : Messages(Tail(q))[i] = Tail(q)[i].msg
  BY <1>1, MessagesOfQueue
<1>6. \A i \in 1 .. Len(q) - 1 : Messages(Tail(q))[i] = Tail(Messages(q))[i]
  <2> SUFFICES ASSUME NEW i \in 1 .. Len(q) - 1
               PROVE  Messages(Tail(q))[i] = Tail(Messages(q))[i]
    OBVIOUS
  <2>1. i + 1 \in DOMAIN q
    BY <1>1
  <2>2. QED
    BY <1>1, <1>2, <1>4, <1>5, <2>1
<1>7. Messages(Tail(q)) = Tail(Messages(q))
  BY <1>1, <1>4, <1>5, <1>6, SeqEqual
<1>8. QED
  BY <1>1, <1>2, <1>3, <1>4, <1>7

\* Appending the next message.
LEMMA AppendNext ==
  ASSUME NEW q \in Seq(Nat), NEW first \in Nat, NEW last \in Nat, first <= last + 1,
         HoldsInOrder(q, first, last)
  PROVE  HoldsInOrder(Append(q, last + 1), first, last + 1)
<1> DEFINE r == <<last + 1>>
<1>1. r \in Seq(Nat) /\ Len(r) = 1 /\ \A i \in 1 .. Len(r) : r[i] = last + i
  OBVIOUS
<1>2. Append(q, last + 1) = q \o r
  OBVIOUS
<1> HIDE DEF r
<1>3. HoldsInOrder(q \o r, first, last + Len(r))
  BY <1>1, AppendMessages
<1>4. QED
  BY <1>1, <1>2, <1>3
----------------------------------------------------------------------------
(* The sender. *)

\* No header on its way to its host makes ProcessAcks reschedule a packet.
NothingResent ==
  \A h \in Host : \A d \in net[h] : \A n \in 1 .. AckCount : Resend(h, d, n) = <<>>

\* Only an empty network takes a datagram.
LEMMA OneInFlight ==
  ASSUME KeepsOrder, TypeOK, NEW h \in Host, PopReadyOutgoingPacket(h),
         SendsInTurn(h)
  PROVE  net[Peer(h)] = {}
<1> DEFINE S == net[Peer(h)]
<1>1. SUFFICES ASSUME NEW d \in S
               PROVE  FALSE
  OBVIOUS
<1>2. S = {d}
  BY <1>1 DEF SendsInTurn
<1>3. Cardinality(S) = 1
  BY <1>2, FS_Singleton
<1>4. Cardinality(S) < MaxInFlight /\ MaxInFlight <= 1 /\ MaxInFlight \in Nat
  BY ConnectionAssumption DEF PopReadyOutgoingPacket, KeepsOrder
<1>5. QED
  BY <1>3, <1>4

\* A header that asks for no packet again leaves the ready queue as it was.
LEMMA AcksResendNothing ==
  ASSUME TypeOK, NothingResent, NEW h \in Host, NEW d \in net[h], ProcessAcks(h, d)
  PROVE  UNCHANGED outReady
<1>1. outReady[h] \in Seq(Packet)
  BY DEF TypeOK
<1>2. /\ Resend(h, d, 1) = <<>> /\ Resend(h, d, 2) = <<>>
      /\ Resend(h, d, 3) = <<>> /\ Resend(h, d, 4) = <<>>
  BY DEF NothingResent, AckCount
<1>3. outReady' = [outReady EXCEPT ![h] = @ \o <<>> \o <<>> \o <<>> \o <<>>]
  BY <1>2 DEF ProcessAcks
<1>4. outReady[h] \o <<>> \o <<>> \o <<>> \o <<>> = outReady[h]
  BY <1>1
<1>5. QED
  BY <1>3, <1>4 DEF TypeOK

\* A step of a host leaves what it has sent in turn, and its peer waiting for
\* the same message.
LEMMA SenderTakesTurn ==
  ASSUME KeepsOrder, TypeOK, NothingResent, NEW h \in Host, HostStep(h),
         SendsInTurn(h), NEW k \in 0 .. scheduled[h], ReleasedUpTo(h, k)
  PROVE  /\ SendsInTurn(h)' /\ ReleasedUpTo(h, k)'
         /\ k \in 0 .. scheduled'[h]
<1> DEFINE g     == Peer(h)
           first == IF \E d \in net[g] : d.msg = k + 1 THEN k + 2 ELSE k + 1
<1>1. /\ g \in Host /\ g # h
      /\ scheduled[h] \in Nat /\ outReady[h] \in Seq(Packet)
      /\ net[g] \subseteq Datagram
  BY PeerFacts DEF TypeOK
<1>2. /\ Messages(outReady[h]) \in Seq(Nat) /\ first \in Nat
      /\ HoldsInOrder(Messages(outReady[h]), first, scheduled[h])
      /\ first <= scheduled[h] + 1
  <2>1. (\E d \in net[g] : d.msg = k + 1) => k + 1 <= scheduled[h]
    BY DEF SendsInTurn
  <2>2. QED
    BY <1>1, <2>1, MessagesOfQueue DEF ReleasedUpTo
<1> HIDE DEF first, g
<1>3. CASE ScheduleReliable(h)
  <2> DEFINE m == scheduled[h] + 1
             p == [reliable |-> TRUE, id |-> NextId(outSeq[h]), msg |-> m]
  <2>1. /\ scheduled'[h] = m /\ outSeq'[h] = NextId(outSeq[h])
        /\ outReady'[h] = Append(outReady[h], p)
        /\ UNCHANGED <<inVars, net>>
    BY <1>3 DEF ScheduleReliable, TypeOK
  <2>2. m \in Nat /\ scheduled[h] <= m /\ NextId(outSeq[h]) = IdOf(m)
    <3>1. outSeq[h] = IdOf(scheduled[h])
      BY DEF SendsInTurn
    <3>2. NextId(IdOf(scheduled[h])) = IdOf(scheduled[h] + 1)
      BY <1>1, IdOfNext
    <3>3. QED
      BY <1>1, <3>1, <3>2
  <2>3. p \in Packet /\ p.msg = m
    BY <2>2, IdOfNext DEF Packet, Id, ValidId
  <2>4. Carries(p)
    BY <1>1, <2>2 DEF Carries, Unsequenced
  <2>5. Messages(outReady'[h]) = Append(Messages(outReady[h]), m)
    BY <1>1, <2>1, <2>3, AppendedMessage
  <2>6. HoldsInOrder(Messages(outReady'[h]), first, m)
    BY <1>1, <1>2, <2>5, AppendNext
  <2> HIDE DEF p, m
  <2>7. \A i \in DOMAIN outReady'[h] : Carries(outReady'[h][i])
    BY <1>1, <2>1, <2>4, AppendElements DEF SendsInTurn
  <2>8. \A d \in net[g] : Carries(d) /\ d.msg <= m
    BY <1>1, <2>2 DEF SendsInTurn, Datagram, g
  <2>9. SendsInTurn(h)'
    BY <2>1, <2>2, <2>7, <2>8 DEF SendsInTurn, g
  <2>10. ReleasedUpTo(h, k)'
    BY <2>1, <2>6 DEF ReleasedUpTo, inVars, first, g
  <2>11. QED
    BY <1>1, <2>1, <2>2, <2>9, <2>10
<1>4. CASE ScheduleUnreliable(h)
  <2> DEFINE p == [reliable |-> FALSE, id |-> InvalidId, msg |-> Unsequenced]
  <2>1. /\ outReady'[h] = Append(outReady[h], p)
        /\ UNCHANGED <<scheduled, outSeq, inVars, net>>
    BY <1>4 DEF ScheduleUnreliable, TypeOK
  <2>2. p \in Packet /\ p.msg = Unsequenced /\ Carries(p)
    BY MaxPossibleIdAssumption
       DEF Packet, Carries, Id, InvalidId, Unsequenced
  <2>3. Messages(outReady'[h]) = Append(Messages(outReady[h]), Unsequenced)
    BY <1>1, <2>1, <2>2, AppendedMessage
  <2>4. HoldsInOrder(Messages(outReady'[h]), first, scheduled[h])
    BY <1>2, <2>3, AppendUnsequenced
  <2> HIDE DEF p
  <2>5. \A i \in DOMAIN outReady'[h] : Carries(outReady'[h][i])
    BY <1>1, <2>1, <2>2, AppendElements DEF SendsInTurn
  <2>6. SendsInTurn(h)'
    BY <2>1, <2>5 DEF SendsInTurn
  <2>7. ReleasedUpTo(h, k)'
    BY <2>1, <2>4 DEF ReleasedUpTo, inVars, first, g
  <2>8. QED
    BY <2>1, <2>6, <2>7
<1>5. CASE PopReadyOutgoingPacket(h)
  <2> DEFINE q == Messages(outReady[h])
             p == Head(outReady[h])
             d == AddAckHeader(h, p)
  <2>1. /\ outReady[h] # <<>> /\ outReady'[h] = Tail(outReady[h])
        /\ net'[g] = {d}
        /\ UNCHANGED <<scheduled, outSeq, inVars>>
    BY <1>1, <1>5, OneInFlight DEF PopReadyOutgoingPacket, TypeOK, g
  <2>2. first = k + 1
    BY <1>5, OneInFlight DEF first, g
  <2>3. /\ q # <<>> /\ Head(q) = p.msg
        /\ Messages(outReady'[h]) = Tail(q)
    BY <1>1, <2>1, MessagesOfTail
  <2>4. /\ p.msg = Unsequenced => HoldsInOrder(Tail(q), k + 1, scheduled[h])
        /\ p.msg # Unsequenced => /\ p.msg = k + 1 /\ k + 1 <= scheduled[h]
                                  /\ HoldsInOrder(Tail(q), k + 2, scheduled[h])
    <3>1. k + 1 \in Nat \ {0} /\ (k + 1) + 1 = k + 2
      BY <1>1
    <3> HIDE DEF q, p
    <3>2. QED
      BY <1>1, <1>2, <2>2, <2>3, <3>1, PopMessage DEF q
  <2>5. Carries(p)
    BY <1>1, <2>1, PopElements DEF SendsInTurn
  <2>6. d.msg = p.msg /\ Carries(d)
    BY <2>5 DEF AddAckHeader, Carries
  <2>7. \A i \in DOMAIN Tail(outReady[h]) : Carries(Tail(outReady[h])[i])
    BY <1>1, <2>1, PopElements DEF SendsInTurn
  <2> HIDE DEF q, p, d
  <2>8. d.msg <= scheduled[h] /\ (d.reliable => d.msg = k + 1)
    BY <1>1, <2>4, <2>6 DEF Carries, Unsequenced
  <2>9. SendsInTurn(h)'
    BY <2>1, <2>6, <2>7, <2>8 DEF SendsInTurn, g
  <2>10. HoldsInOrder(Messages(outReady'[h]),
                      IF d.msg = k + 1 THEN k + 2 ELSE k + 1, scheduled[h])
    <3>1. k \in Nat /\ (p.msg = Unsequenced => p.msg # k + 1)
      BY <1>1 DEF Unsequenced
    <3>2. QED
      BY <2>3, <2>4, <2>6, <3>1
  <2>11. (\E e \in net'[g] : e.msg = k + 1) <=> d.msg = k + 1
    BY <2>1
  <2>12. ReleasedUpTo(h, k)'
    BY <2>1, <2>8, <2>10, <2>11 DEF ReleasedUpTo, inVars, g
  <2>13. QED
    BY <2>1, <2>9, <2>12
<1>6. ASSUME UNCHANGED <<scheduled, outSeq, outReady, net[g]>>,
             UNCHANGED <<inSeq[g], ackId[g], delivered[g], inReady[g]>>
      PROVE  /\ SendsInTurn(h)' /\ ReleasedUpTo(h, k)'
             /\ k \in 0 .. scheduled'[h]
  BY <1>6 DEF SendsInTurn, ReleasedUpTo, g
<1>7. CASE PopReadyIncomingPacket(h)
  BY <1>1, <1>6, <1>7 DEF PopReadyIncomingPacket, outVars, TypeOK
<1>8. ASSUME NEW d \in net[h], Received(h, d)
      PROVE  /\ SendsInTurn(h)' /\ ReleasedUpTo(h, k)'
             /\ k \in 0 .. scheduled'[h]
  <2>1. UNCHANGED <<scheduled, outSeq, outReady, delivered, net[g]>>
    BY <1>1, <1>8, AcksResendNothing DEF Received, TypeOK
  <2>2. UNCHANGED <<inSeq[g], inReady[g], ackId[g]>>
    <3>1. CASE d.reliable
      <4>1. StoreAndEnqueue(h, d)
        BY <1>8, <3>1 DEF Received
      <4>2. ackId'[g] = ackId[g]
        BY <1>1, <4>1 DEF StoreAndEnqueue, TypeOK
      <4>3. QED
        BY <1>1, <4>1, <4>2, StoresAtOneHost
    <3>2. CASE ~ d.reliable
      BY <1>1, <1>8, <3>2 DEF Received, TypeOK
    <3>3. QED
      BY <3>1, <3>2
  <2>3. QED
    BY <1>6, <2>1, <2>2
<1>9. \A d \in net[h] : ~ Lose(h, d)
  BY DEF KeepsOrder, Lose
<1>10. QED
  BY <1>3, <1>4, <1>5, <1>7, <1>8, <1>9 DEF HostStep
----------------------------------------------------------------------------
(* The receiver. *)

\* The loop stops at the id it started to run towards: at once, when that is
\* the one it starts from, and after one packet, when it is the next.
LEMMA LoopStopsAtLatest ==
  ASSUME NEW seq \in Id, NEW stored, NEW latest \in Id,
         NEW n \in 0 .. MaxPossibleId, Enqueues(n, seq, latest, stored)
  PROVE  /\ latest = seq => n = 0
         /\ latest = NextId(seq) /\ stored[latest] # Absent => n = 1
<1>1. /\ IdAfter(seq, 0) = seq /\ IdAfter(seq, 1) = NextId(seq)
      /\ NextId(seq) # seq
  BY NextIsLater
<1>2. n \in Nat /\ \A i \in 0 .. n - 1 : ~ StopsAt(i, seq, latest, stored)
  BY MaxPossibleIdAssumption DEF Enqueues
<1>3. ASSUME latest = seq
      PROVE  n = 0
  <2>1. StopsAt(0, seq, latest, stored)
    BY <1>1, <1>3 DEF StopsAt
  <2>2. QED
    BY <1>2, <2>1
<1>4. ASSUME latest = NextId(seq), stored[latest] # Absent
      PROVE  n = 1
  <2>1. StopsAt(1, seq, latest, stored)
    BY <1>1, <1>4 DEF StopsAt
  <2>2. ~ StopsAt(0, seq, latest, stored)
    <3>1. 0 + 1 = 1
      OBVIOUS
    <3>2. QED
      BY <1>1, <1>4, <3>1 DEF StopsAt
  <2>3. n # 0
    BY <2>2 DEF Enqueues
  <2>4. QED
    BY <1>2, <2>1, <2>3
<1>5. QED
  BY <1>3, <1>4

\* The reliable packet in flight is the next one, and is released at once, or
\* the last one once more, which changes nothing.
LEMMA ReceiveInTurn ==
  ASSUME TypeOK, NEW g \in Host, NEW d \in Datagram, NEW k \in Nat,
         inSeq[g] = IdOf(k), ackId[g] = IdOf(k), StoreAndEnqueue(g, d),
         d.reliable, Carries(d)
  PROVE  /\ d.msg = k => UNCHANGED <<inSeq[g], ackId[g], inReady[g]>>
         /\ d.msg = k + 1 => /\ inSeq'[g] = IdOf(k + 1) /\ ackId'[g] = IdOf(k + 1)
                             /\ inReady'[g] = Append(inReady[g], k + 1)
<1> DEFINE seq    == inSeq[g]
           latest == UpdatedAckId(g, d.id)
           stored == [inReliable[g] EXCEPT ![d.id] = d.msg]
<1>1. /\ seq \in Id /\ d.id \in Id /\ d.msg \in Nat
      /\ inReliable[g] \in [Id -> Nat] /\ inReady[g] \in Seq(Nat)
  BY DEF TypeOK, Datagram
<1>2. stored[d.id] = d.msg /\ d.msg # Absent /\ d.id = IdOf(d.msg)
  BY <1>1 DEF Carries, Unsequenced, Absent
<1>3. PICK n \in 0 .. MaxPossibleId :
        /\ Enqueues(n, seq, latest, stored)
        /\ inSeq'[g]   = IdAfter(seq, n)
        /\ inReady'[g] = inReady[g] \o [i \in 1 .. n |-> stored[IdAfter(seq, i)]]
  BY DEF StoreAndEnqueue, TypeOK
<1>4. ackId'[g] = latest
  BY DEF StoreAndEnqueue, TypeOK
<1>5. /\ IdAfter(seq, 0) = seq /\ IdAfter(seq, 1) = NextId(seq)
      /\ IsLater(seq, NextId(seq))
  BY <1>1, NextIsLater
<1> HIDE DEF stored
<1>6. ASSUME d.msg = k
      PROVE  UNCHANGED <<inSeq[g], ackId[g], inReady[g]>>
  <2>1. latest = seq
    BY <1>2, <1>6 DEF UpdatedAckId
  <2> HIDE DEF latest, seq
  <2>2. n = 0
    BY <1>1, <1>3, <2>1, LoopStopsAtLatest
  <2>3. inReady'[g] = inReady[g] \o [i \in 1 .. 0 |-> stored[IdAfter(seq, i)]]
    BY <1>3, <2>2
  <2>4. [i \in 1 .. 0 |-> stored[IdAfter(seq, i)]] = <<>>
    <3> DEFINE r == [i \in 1 .. 0 |-> stored[IdAfter(seq, i)]]
    <3>1. r \in [1 .. 0 -> Nat]
      OBVIOUS
    <3> HIDE DEF r
    <3>2. r \in Seq(Nat) /\ Len(r) = 0
      BY <3>1, FunctionIsSeq
    <3>3. QED
      BY <3>2, EmptySeq DEF r
  <2>5. inReady'[g] = inReady[g]
    BY <1>1, <2>3, <2>4
  <2>6. QED
    BY <1>3, <1>4, <1>5, <2>1, <2>2, <2>5 DEF seq
<1>7. ASSUME d.msg = k + 1
      PROVE  /\ inSeq'[g] = IdOf(k + 1) /\ ackId'[g] = IdOf(k + 1)
             /\ inReady'[g] = Append(inReady[g], k + 1)
  <2>1. d.id = NextId(seq) /\ d.id = IdOf(k + 1)
    BY <1>2, <1>7, IdOfNext
  <2>2. latest = d.id
    BY <1>5, <2>1 DEF UpdatedAckId
  <2> HIDE DEF latest, seq
  <2>3. n = 1
    <3>1. seq \in Id /\ latest \in Id /\ Enqueues(n, seq, latest, stored)
      BY <1>1, <1>3, <2>2
    <3>2. latest = NextId(seq) /\ stored[latest] # Absent
      BY <1>2, <2>1, <2>2
    <3>3. QED
      BY <3>1, <3>2, LoopStopsAtLatest
  <2>4. inReady'[g] = inReady[g] \o [i \in 1 .. 1 |-> stored[IdAfter(seq, i)]]
    BY <1>3, <2>3
  <2>5. [i \in 1 .. 1 |-> stored[IdAfter(seq, i)]] = <<k + 1>>
    <3>1. stored[IdAfter(seq, 1)] = k + 1
      BY <1>2, <1>5, <1>7, <2>1
    <3>2. QED
      BY <3>1
  <2>6. inReady'[g] = Append(inReady[g], k + 1)
    BY <1>1, <2>4, <2>5
  <2>7. QED
    BY <1>3, <1>4, <1>5, <2>1, <2>2, <2>3, <2>6
<1>8. QED
  BY <1>6, <1>7
\* A step of the peer leaves what h has sent in turn; receiving the next message
\* makes the peer wait for the one after it.
LEMMA ReceiverTakesTurn ==
  ASSUME KeepsOrder, TypeOK, NothingResent, NEW h \in Host, HostStep(Peer(h)),
         SendsInTurn(h), NEW k \in 0 .. scheduled[h], ReleasedUpTo(h, k)
  PROVE  SendsInTurn(h)' /\ \E j \in 0 .. scheduled'[h] : ReleasedUpTo(h, j)'
<1> DEFINE g     == Peer(h)
           first == IF \E d \in net[g] : d.msg = k + 1 THEN k + 2 ELSE k + 1
<1>1. /\ g \in Host /\ g # h /\ Peer(g) = h
      /\ k \in Nat /\ scheduled[h] \in Nat
      /\ net[g] \subseteq Datagram
      /\ inReady[g] \in Seq(Nat) /\ delivered[g] \in Seq(Nat)
  BY PeerFacts DEF TypeOK
<1>2. Len(delivered[g]) \in Nat /\ Len(delivered[g]) <= k
  BY <1>1, LenProperties DEF ReleasedUpTo
<1>3. HoldsInOrder(inReady[g], Len(delivered[g]) + 1, k)
  BY DEF ReleasedUpTo
<1> HIDE DEF first, g
<1>4. ASSUME UNCHANGED <<scheduled[h], outSeq[h], outReady[h], net[g]>>,
             UNCHANGED <<inSeq[g], ackId[g], delivered[g], inReady[g]>>
      PROVE  SendsInTurn(h)' /\ \E j \in 0 .. scheduled'[h] : ReleasedUpTo(h, j)'
  <2>1. SendsInTurn(h)' /\ ReleasedUpTo(h, k)' /\ k \in 0 .. scheduled'[h]
    BY <1>4 DEF SendsInTurn, ReleasedUpTo, g
  <2>2. QED
    BY <2>1
<1>5. CASE ScheduleReliable(g)
  BY <1>1, <1>4, <1>5 DEF ScheduleReliable, inVars, TypeOK
<1>6. CASE ScheduleUnreliable(g)
  BY <1>1, <1>4, <1>6 DEF ScheduleUnreliable, inVars, TypeOK
<1>7. CASE PopReadyOutgoingPacket(g)
  BY <1>1, <1>4, <1>7 DEF PopReadyOutgoingPacket, inVars, TypeOK
<1>8. CASE PopReadyIncomingPacket(g)
  <2> DEFINE was == delivered[g]
             q   == inReady[g]
  <2>1. /\ q # <<>> /\ inReady'[g] = Tail(q)
        /\ UNCHANGED <<outVars, inSeq, ackId, net>>
        /\ Head(q) = Unsequenced => delivered'[g] = was
        /\ Head(q) # Unsequenced => delivered'[g] = Append(was, Head(q))
    BY <1>1, <1>8 DEF PopReadyIncomingPacket, TypeOK
  <2>2. /\ Head(q) = Unsequenced => HoldsInOrder(Tail(q), Len(was) + 1, k)
        /\ Head(q) # Unsequenced => /\ Head(q) = Len(was) + 1 /\ Len(was) + 1 <= k
                                    /\ HoldsInOrder(Tail(q), (Len(was) + 1) + 1, k)
    <3>1. Len(was) + 1 \in Nat \ {0}
      BY <1>2
    <3>2. QED
      BY <1>1, <1>3, <2>1, <3>1, PopMessage
  <2>3. /\ Len(delivered'[g]) <= k
        /\ \A i \in DOMAIN delivered'[g] : delivered'[g][i] = i
        /\ HoldsInOrder(inReady'[g], Len(delivered'[g]) + 1, k)
    <3>1. \A i \in DOMAIN was : was[i] = i
      BY DEF ReleasedUpTo, g
    <3>2. CASE Head(q) = Unsequenced
      BY <1>2, <2>1, <2>2, <3>1, <3>2
    <3>3. CASE Head(q) # Unsequenced
      <4>1. /\ delivered'[g] = Append(was, Len(was) + 1)
            /\ Len(delivered'[g]) = Len(was) + 1
        BY <1>1, <2>1, <2>2, <3>3
      <4>2. /\ DOMAIN delivered'[g] = 1 .. Len(was) + 1
            /\ DOMAIN was = 1 .. Len(was)
            /\ delivered'[g][Len(was) + 1] = Len(was) + 1
            /\ \A i \in DOMAIN was : delivered'[g][i] = was[i]
        BY <1>1, <4>1, AppendElements
      <4>3. \A i \in 1 .. Len(was) + 1 : i \in DOMAIN was \/ i = Len(was) + 1
        BY <1>2, <4>2
      <4>4. QED
        BY <2>1, <2>2, <3>1, <3>3, <4>1, <4>2, <4>3
    <3>4. QED
      BY <3>2, <3>3
  <2>4. SendsInTurn(h)' /\ ReleasedUpTo(h, k)' /\ k \in 0 .. scheduled'[h]
    BY <2>1, <2>3 DEF outVars, SendsInTurn, ReleasedUpTo, g
  <2>5. QED
    BY <2>4
<1>9. ASSUME NEW d \in net[g], Received(g, d)
      PROVE  SendsInTurn(h)' /\ \E j \in 0 .. scheduled'[h] : ReleasedUpTo(h, j)'
  <2>1. /\ UNCHANGED <<scheduled, outSeq, outReady, delivered>>
        /\ net'[g] \in {net[g], net[g] \ {d}}
    BY <1>1, <1>9, AcksResendNothing DEF Received, TypeOK
  <2>2. /\ d \in Datagram /\ Carries(d) /\ d.msg <= scheduled[h]
        /\ \A e \in net[g] : e = d
        /\ d.reliable => d.msg \in {k, k + 1}
    BY <1>1 DEF SendsInTurn, ReleasedUpTo, g
  <2>3. SendsInTurn(h)'
    BY <2>1 DEF SendsInTurn, g
  <2>4. \A e \in net'[g] : e = d
    BY <2>1, <2>2
  <2>5. HoldsInOrder(Messages(outReady[h]), first, scheduled[h])
    BY DEF ReleasedUpTo, first, g
  <2>6. CASE ~ d.reliable
    <3>1. d.msg = Unsequenced /\ d.msg # k + 1
      BY <1>1, <2>2, <2>6 DEF Carries, Unsequenced
    <3>2. /\ inReady'[g] = Append(inReady[g], Unsequenced)
          /\ UNCHANGED <<inSeq, ackId>>
      BY <1>1, <1>9, <2>6, <3>1 DEF Received, TypeOK
    <3>3. HoldsInOrder(inReady'[g], Len(delivered[g]) + 1, k)
      BY <1>1, <1>3, <3>2, AppendUnsequenced
    <3>4. /\ first = k + 1 /\ ~ \E e \in net'[g] : e.msg = k + 1
          /\ \A e \in net'[g] : ~ e.reliable
      BY <2>2, <2>4, <2>6, <3>1 DEF first
    <3>5. ReleasedUpTo(h, k)' /\ k \in 0 .. scheduled'[h]
      BY <2>1, <2>5, <3>2, <3>3, <3>4 DEF ReleasedUpTo, g
    <3>6. QED
      BY <2>3, <3>5
  <2>7. CASE d.reliable
    <3>1. StoreAndEnqueue(g, d)
      BY <1>9, <2>7 DEF Received
    <3>2. inSeq[g] = IdOf(k) /\ ackId[g] = IdOf(k)
      BY DEF ReleasedUpTo, g
    <3>3. /\ d.msg = k => UNCHANGED <<inSeq[g], ackId[g], inReady[g]>>
          /\ d.msg = k + 1 =>
               /\ inSeq'[g] = IdOf(k + 1) /\ ackId'[g] = IdOf(k + 1)
               /\ inReady'[g] = Append(inReady[g], k + 1)
      BY <1>1, <2>2, <2>7, <3>1, <3>2, ReceiveInTurn
    <3>4. CASE d.msg = k
      <4>1. first = k + 1 /\ ~ \E e \in net'[g] : e.msg = k + 1
        BY <1>1, <2>2, <2>4, <3>4 DEF first
      <4>2. ReleasedUpTo(h, k)' /\ k \in 0 .. scheduled'[h]
        BY <2>1, <2>4, <2>5, <3>3, <3>4, <4>1 DEF ReleasedUpTo, g
      <4>3. QED
        BY <2>3, <4>2
    <3>5. CASE d.msg = k + 1
      <4> DEFINE j == k + 1
      <4>1. /\ first = j + 1 /\ ~ \E e \in net'[g] : e.msg = j + 1
            /\ j \in 0 .. scheduled[h] /\ Len(delivered[g]) <= j
        BY <1>1, <1>2, <2>2, <2>4, <3>5 DEF first
      <4>2. HoldsInOrder(inReady'[g], Len(delivered[g]) + 1, j)
        <5>1. Len(delivered[g]) + 1 \in Nat /\ Len(delivered[g]) + 1 <= k + 1
          BY <1>1, <1>2
        <5>2. HoldsInOrder(Append(inReady[g], k + 1), Len(delivered[g]) + 1, k + 1)
          BY <1>1, <1>3, <5>1, AppendNext
        <5>3. QED
          BY <3>3, <3>5, <5>2
      <4>3. /\ inSeq'[g] = IdOf(j) /\ ackId'[g] = IdOf(j)
            /\ \A e \in net'[g] : e.msg = j
        BY <2>4, <3>3, <3>5
      <4>4. \A i \in DOMAIN delivered[g] : delivered[g][i] = i
        BY DEF ReleasedUpTo, g
      <4> HIDE DEF j
      <4>5. ReleasedUpTo(h, j)' /\ j \in 0 .. scheduled'[h]
        BY <2>1, <2>5, <4>1, <4>2, <4>3, <4>4 DEF ReleasedUpTo, g
      <4>6. QED
        BY <2>3, <4>5
    <3>6. QED
      BY <2>2, <2>7, <3>4, <3>5
  <2>8. QED
    BY <2>6, <2>7
<1>10. \A d \in net[g] : ~ Lose(g, d)
  BY DEF KeepsOrder, Lose
<1>11. QED
  BY <1>5, <1>6, <1>7, <1>8, <1>9, <1>10 DEF HostStep, g
----------------------------------------------------------------------------
(* Acks. *)

\* A bit that is off is that of an id no packet is stored under: InvalidId, or
\* one of the last ids, which the host has not used yet.
LEMMA NothingToResend ==
  ASSUME TypeOK, LapInv, FirstHeadersInTime
  PROVE  NothingResent
<1> SUFFICES ASSUME NEW h \in Host, NEW d \in net[h], NEW n \in 1 .. AckCount,
                    n \notin d.acks
             PROVE  outReliable[h][Minus(d.ackId, n)] = Absent
  BY DEF NothingResent, Resend
<1> DEFINE id == Minus(d.ackId, n)
<1>1. /\ d.ackId \in 0 .. MaxPossibleId /\ scheduled[h] \in Nat
      /\ MaxPossibleId \in Nat /\ n \in 1 .. 4 /\ MaxPossibleId > 4
  BY ConnectionAssumption, MaxPossibleIdAssumption
     DEF TypeOK, Datagram, Id, AckCount
<1>2. ~ n < d.ackId
  BY DEF LapInv, AcksInTurn
<1>3. n > d.ackId => scheduled[h] <= MaxPossibleId - 4
  BY DEF FirstHeadersInTime, AckCount
<1>4. id \in Id /\ ~ id \in 1 .. scheduled[h]
  BY <1>1, <1>2, <1>3 DEF Minus, Id
<1>5. QED
  BY <1>4 DEF LapInv, AcksInTurn

\* Every step leaves the acks in turn.
LEMMA AcksTakeTurn ==
  ASSUME TypeOK, LapInv, NEW x \in Host, HostStep(x), NEW h \in Host
  PROVE  AcksInTurn(h)'
<1>1. /\ Peer(h) \in Host /\ Peer(h) # h /\ Peer(Peer(h)) = h
      /\ x = h \/ x = Peer(h)
  BY PeerFacts
<1>2. /\ \A id \in 1 .. ackId[h] : HasReceivedPacket(h, id)
      /\ \A d \in net[h] : \A n \in 1 .. AckCount : n < d.ackId => n \in d.acks
      /\ \A id \in Id : outReliable[h][id] # Absent => id \in 1 .. scheduled[h]
  BY DEF LapInv, AcksInTurn
<1>3. ASSUME net'[h] \subseteq net[h], UNCHANGED <<ackId[h], inReliable[h]>>,
             UNCHANGED <<outReliable[h], scheduled[h]>>
      PROVE  AcksInTurn(h)'
  BY <1>2, <1>3 DEF AcksInTurn, HasReceivedPacket
<1>4. CASE ScheduleReliable(x)
  <2> DEFINE m  == scheduled[x] + 1
             id == NextId(outSeq[x])
  <2>1. /\ scheduled' = [scheduled EXCEPT ![x] = m]
        /\ outReliable' = [outReliable EXCEPT ![x][id] = m]
        /\ UNCHANGED <<net, ackId, inReliable>>
    BY <1>4 DEF ScheduleReliable, inVars
  <2>2. CASE x = h
    <3>1. scheduled[h] \in Nat /\ outSeq[h] = IdOf(scheduled[h])
      BY DEF TypeOK, LapInv, SendsInTurn
    <3>2. id = IdOf(m) /\ id \in 1 .. m
      BY <2>2, <3>1, IdOfNext DEF ValidId
    <3> HIDE DEF id
    <3>3. \A i \in Id : outReliable'[h][i] # Absent => i = id \/ i \in 1 .. scheduled[h]
      BY <1>2, <2>1, <2>2 DEF TypeOK
    <3>4. \A i \in Id : outReliable'[h][i] # Absent => i \in 1 .. m
      BY <2>2, <3>1, <3>2, <3>3
    <3>5. scheduled'[h] = m
      BY <2>1, <2>2 DEF TypeOK
    <3>6. QED
      BY <1>2, <2>1, <3>4, <3>5 DEF AcksInTurn, HasReceivedPacket
  <2>3. CASE x # h
    BY <1>3, <2>1, <2>3 DEF TypeOK
  <2>4. QED
    BY <2>2, <2>3
<1>5. CASE ScheduleUnreliable(x)
  BY <1>3, <1>5 DEF ScheduleUnreliable, inVars
<1>6. CASE PopReadyOutgoingPacket(x)
  <2>1. UNCHANGED <<scheduled, outReliable, ackId, inReliable>>
    BY <1>6 DEF PopReadyOutgoingPacket, inVars
  <2>2. CASE x = h
    BY <1>1, <1>3, <1>6, <2>1, <2>2 DEF PopReadyOutgoingPacket, TypeOK
  <2>3. CASE x = Peer(h)
    <3> DEFINE d == AddAckHeader(x, Head(outReady[x]))
    <3>1. net'[h] = net[h] \cup {d}
      BY <1>1, <1>6, <2>3 DEF PopReadyOutgoingPacket, TypeOK
    <3>2. ASSUME NEW n \in 1 .. AckCount, n < d.ackId
          PROVE  n \in d.acks
      <4>1. d.ackId = ackId[x] /\ ackId[x] \in Nat
        BY MaxPossibleIdAssumption DEF AddAckHeader, TypeOK, Id
      <4>2. n \in Nat /\ n >= 1
        BY DEF AckCount
      <4>3. Minus(ackId[x], n) \in 1 .. ackId[x]
        BY <3>2, <4>1, <4>2 DEF Minus
      <4>4. HasReceivedPacket(x, Minus(ackId[x], n))
        BY <4>3 DEF LapInv, AcksInTurn
      <4>5. QED
        BY <4>4 DEF AddAckHeader
    <3> HIDE DEF d
    <3>3. QED
      BY <1>2, <2>1, <3>1, <3>2 DEF AcksInTurn, HasReceivedPacket
  <2>4. QED
    BY <1>1, <2>2, <2>3
<1>7. CASE PopReadyIncomingPacket(x)
  BY <1>3, <1>7 DEF PopReadyIncomingPacket, outVars
<1>8. ASSUME NEW d \in net[x], Received(x, d)
      PROVE  AcksInTurn(h)'
  <2>1. /\ net'[h] \subseteq net[h] /\ UNCHANGED scheduled
        /\ ProcessAcks(x, d) /\ d \in Datagram
    <3>1. /\ net' = net \/ net' = [net EXCEPT ![x] = @ \ {d}]
          /\ UNCHANGED scheduled /\ ProcessAcks(x, d)
      BY <1>8 DEF Received
    <3>2. DOMAIN net = Host /\ d \in Datagram
      BY DEF TypeOK
    <3>3. QED
      BY <3>1, <3>2
  <2>2. CASE x # h
    <3>1. CASE d.reliable
      <4>1. StoreAndEnqueue(x, d)
        BY <1>8, <3>1 DEF Received
      <4>2. QED
        BY <1>3, <2>1, <2>2, <4>1 DEF StoreAndEnqueue, ProcessAcks, TypeOK
    <3>2. CASE ~ d.reliable
      BY <1>3, <1>8, <2>1, <2>2, <3>2 DEF Received, ProcessAcks, TypeOK
    <3>3. QED
      BY <3>1, <3>2
  <2>3. CASE x = h
    <3>1. \A id \in Id : outReliable'[h][id] # Absent => id \in 1 .. scheduled[h]
      BY <1>2, <2>1, <2>3 DEF ProcessAcks, TypeOK
    <3>2. \A id \in 1 .. ackId'[h] : inReliable'[h][id] # Absent
      <4>1. CASE ~ d.reliable
        BY <1>2, <1>8, <2>3, <4>1 DEF Received, HasReceivedPacket
      <4>2. CASE d.reliable
        <5>1. PICK k \in 0 .. scheduled[Peer(h)] : ReleasedUpTo(Peer(h), k)
          BY <1>1 DEF LapInv
        <5>2. /\ k \in Nat /\ inSeq[h] = IdOf(k) /\ ackId[h] = IdOf(k)
              /\ d.msg \in {k, k + 1}
          <6>1. k \in Nat
            BY <1>1, <5>1 DEF TypeOK
          <6>2. d \in net[h]
            BY <2>3
          <6>3. QED
            BY <1>1, <4>2, <5>1, <6>1, <6>2 DEF ReleasedUpTo
        <5>3. Carries(d)
          BY <1>1, <2>3 DEF LapInv, SendsInTurn
        <5>4. StoreAndEnqueue(h, d)
          BY <1>8, <2>3, <4>2 DEF Received
        <5>5. /\ d.msg = k => ackId'[h] = ackId[h]
              /\ d.msg = k + 1 => ackId'[h] = IdOf(k + 1)
          BY <2>1, <4>2, <5>2, <5>3, <5>4, ReceiveInTurn
        <5>6. /\ inReliable'[h] = [inReliable[h] EXCEPT ![d.id] = d.msg]
              /\ d.msg # Absent /\ d.id = IdOf(d.msg) /\ d.id \in Id
          BY <2>1, <4>2, <5>3, <5>4
             DEF StoreAndEnqueue, Carries, Datagram, TypeOK, Unsequenced, Absent
        <5>7. \A id \in Id : \/ id = d.id /\ inReliable'[h][id] # Absent
                             \/ inReliable'[h][id] = inReliable[h][id]
          BY <5>6 DEF TypeOK
        <5>8. ackId[h] \in 0 .. MaxPossibleId /\ MaxPossibleId \in Nat
          BY MaxPossibleIdAssumption DEF TypeOK, Id
        <5>9. ASSUME NEW id \in 1 .. ackId[h]
              PROVE  inReliable'[h][id] # Absent
          BY <1>2, <5>7, <5>8 DEF HasReceivedPacket, Id
        <5>10. CASE d.msg = k
          BY <5>5, <5>9, <5>10
        <5>11. CASE d.msg = k + 1
          <6>1. ackId'[h] = d.id /\ d.id = NextId(ackId[h])
            BY <5>2, <5>5, <5>6, <5>11, IdOfNext
          <6>2. \A id \in 1 .. NextId(ackId[h]) :
                  id = NextId(ackId[h]) \/ id \in 1 .. ackId[h]
            BY <5>8 DEF NextId
          <6>3. inReliable'[h][d.id] # Absent
            BY <5>6 DEF TypeOK
          <6>4. QED
            BY <5>9, <6>1, <6>2, <6>3
        <5>12. QED
          BY <5>2, <5>10, <5>11
      <4>3. QED
        BY <4>1, <4>2
    <3>3. QED
      BY <1>2, <2>1, <3>1, <3>2 DEF AcksInTurn, HasReceivedPacket
  <2>4. QED
    BY <2>2, <2>3
<1>9. ASSUME NEW d \in net[x], Lose(x, d)
      PROVE  AcksInTurn(h)'
  <2>1. net'[h] \subseteq net[h]
    BY <1>9 DEF Lose, TypeOK
  <2>2. QED
    BY <1>3, <1>9, <2>1 DEF Lose, outVars, inVars
<1>10. QED
  BY <1>4, <1>5, <1>6, <1>7, <1>8, <1>9 DEF HostStep

----------------------------------------------------------------------------
(* Delivery, however often the ids wrap. *)

LEMMA LapInit == Init => LapInv
<1> SUFFICES ASSUME Init, NEW h \in Host
             PROVE  /\ SendsInTurn(h) /\ AcksInTurn(h)
                    /\ \E k \in 0 .. scheduled[h] : ReleasedUpTo(h, k)
  BY DEF LapInv
<1>1. Peer(h) \in Host
  BY PeerFacts
<1>2. /\ scheduled[h] = 0 /\ outSeq[h] = InvalidId /\ outReady[h] = <<>>
      /\ inSeq[Peer(h)] = InvalidId /\ ackId[Peer(h)] = InvalidId
      /\ inReady[Peer(h)] = <<>> /\ delivered[Peer(h)] = <<>>
      /\ net[Peer(h)] = {}
  BY <1>1 DEF Init
<1>3. IdOf(0) = InvalidId
  BY DEF IdOf
<1>4. SendsInTurn(h)
  BY <1>2, <1>3 DEF SendsInTurn
<1>5. Messages(outReady[h]) = <<>>
  <2>1. outReady[h] \in Seq(Packet) /\ Len(outReady[h]) = 0
    BY <1>2
  <2>2. QED
    BY <2>1, MessagesOfQueue, EmptySeq
<1>6. HoldsInOrder(<<>>, 1, 0)
  BY DEF HoldsInOrder
<1>7. ReleasedUpTo(h, 0)
  BY <1>2, <1>3, <1>5, <1>6 DEF ReleasedUpTo
<1>8. AcksInTurn(h)
  BY DEF Init, AcksInTurn, InvalidId
<1>9. QED
  BY <1>2, <1>4, <1>7, <1>8

LEMMA LapStep ==
  ASSUME KeepsOrder, TypeOK, FirstHeadersInTime, LapInv, [Next]_vars
  PROVE  LapInv'
<1>1. NothingResent
  BY NothingToResend
<1>2. CASE UNCHANGED vars
  BY <1>2 DEF vars, outVars, inVars, LapInv, SendsInTurn, AcksInTurn, ReleasedUpTo,
              HasReceivedPacket
<1>3. ASSUME NEW x \in Host, HostStep(x), NEW h \in Host
      PROVE  SendsInTurn(h)' /\ \E k \in 0 .. scheduled'[h] : ReleasedUpTo(h, k)'
  <2>1. SendsInTurn(h)
    BY DEF LapInv
  <2>2. PICK k \in 0 .. scheduled[h] : ReleasedUpTo(h, k)
    BY DEF LapInv
  <2>3. CASE x = h
    BY <1>1, <1>3, <2>1, <2>2, <2>3, SenderTakesTurn
  <2>4. CASE x = Peer(h)
    BY <1>1, <1>3, <2>1, <2>2, <2>4, ReceiverTakesTurn
  <2>5. QED
    BY <2>3, <2>4, PeerFacts
<1>4. CASE Next
  BY <1>3, <1>4, AcksTakeTurn DEF Next, LapInv
<1>5. QED
  BY <1>2, <1>4

\* On whatever lap each host sends its messages in turn under their ids, and
\* its peer waits for the id of the next one, on a network that keeps the order
\* of datagrams and delivers the first headers within the first lap.
THEOREM LapInvariant ==
  ASSUME KeepsOrder
  PROVE  Spec /\ []FirstHeadersInTime => []LapInv
<1>1. Init => LapInv
  BY LapInit
<1>2. TypeOK /\ FirstHeadersInTime /\ LapInv /\ [Next]_vars => LapInv'
  BY LapStep
<1>3. QED
  BY <1>1, <1>2, TypeCorrect, PTL DEF Spec

\* After a wrap, too, the application pops the reliable messages in the order
\* in which its peer scheduled them, each once and with none left out: what
\* GetIndexForNextPacket, UpdateAckId and EnqueueProcessablePackets do at the
\* largest id fits together.
THEOREM WrapsInOrder ==
  ASSUME KeepsOrder
  PROVE  Spec /\ []FirstHeadersInTime => []InOrder
<1>1. LapInv => InOrder
  <2> SUFFICES ASSUME LapInv, NEW g \in Host
               PROVE  \A i \in DOMAIN delivered[g] : delivered[g][i] = i
    BY DEF InOrder
  <2>1. Peer(g) \in Host /\ Peer(Peer(g)) = g
    BY PeerFacts
  <2>2. PICK k \in 0 .. scheduled[Peer(g)] : ReleasedUpTo(Peer(g), k)
    BY <2>1 DEF LapInv
  <2>3. QED
    BY <2>1, <2>2 DEF ReleasedUpTo
<1>2. QED
  BY <1>1, LapInvariant, PTL

\* The message the application pops is the next one of the stream.
LEMMA LapDelivers ==
  ASSUME TypeOK, LapInv, NEW g \in Host, PopReadyIncomingPacket(g)
  PROVE  \/ delivered'[g] = delivered[g]
         \/ /\ Len(delivered[g]) < scheduled[Peer(g)]
            /\ delivered'[g] = Append(delivered[g], Len(delivered[g]) + 1)
<1>1. /\ Peer(g) \in Host /\ Peer(Peer(g)) = g /\ scheduled[Peer(g)] \in Nat
      /\ inReady[g] \in Seq(Nat) /\ inReady[g] # <<>>
      /\ Len(delivered[g]) + 1 \in Nat \ {0}
  BY PeerFacts DEF PopReadyIncomingPacket, TypeOK
<1>2. PICK k \in 0 .. scheduled[Peer(g)] : ReleasedUpTo(Peer(g), k)
  BY <1>1 DEF LapInv
<1>3. k \in Nat /\ HoldsInOrder(inReady[g], Len(delivered[g]) + 1, k)
  BY <1>1, <1>2 DEF ReleasedUpTo
<1>4. CASE Head(inReady[g]) = Unsequenced
  BY <1>4 DEF PopReadyIncomingPacket
<1>5. CASE Head(inReady[g]) # Unsequenced
  <2>1. Head(inReady[g]) = Len(delivered[g]) + 1 /\ Len(delivered[g]) + 1 <= k
    BY <1>1, <1>3, <1>5, PopMessage
  <2>2. Len(delivered[g]) < scheduled[Peer(g)]
    BY <1>1, <1>2, <2>1
  <2>3. delivered'[g] = Append(delivered[g], Head(inReady[g]))
    BY <1>5 DEF PopReadyIncomingPacket, TypeOK
  <2>4. QED
    BY <2>1, <2>2, <2>3
<1>6. QED
  BY <1>4, <1>5

\* So both directions implement the ordered stream across wraps of the ids.
THEOREM WrapsImplementStreams ==
  ASSUME KeepsOrder
  PROVE  Spec /\ []FirstHeadersInTime => StreamToServer /\ StreamToClient
<1>1. Init => ToServer!Init /\ ToClient!Init
  BY ClientAndServer DEF Init, ToServer!Init, ToClient!Init
<1>2. ASSUME TypeOK, LapInv, [Next]_vars
      PROVE  [ToServer!Next]_(ToServer!vars) /\ [ToClient!Next]_(ToClient!vars)
  <2>1. [ToServer!Next]_(ToServer!vars)
    BY <1>2, LapDelivers, StreamStep, ClientAndServer
       DEF ToServer!Next, ToServer!Send, ToServer!Deliver, ToServer!vars
  <2>2. [ToClient!Next]_(ToClient!vars)
    BY <1>2, LapDelivers, StreamStep, ClientAndServer
       DEF ToClient!Next, ToClient!Send, ToClient!Deliver, ToClient!vars
  <2>3. QED
    BY <2>1, <2>2
<1>3. QED
  BY <1>1, <1>2, TypeCorrect, LapInvariant, PTL
     DEF Spec, StreamToServer, ToServer!Spec, StreamToClient, ToClient!Spec

----------------------------------------------------------------------------
(* One host that only listens. *)

\* g has sent nothing, and keeps nothing it could send.
Silent(g) ==
  /\ scheduled[g] = 0 /\ outReady[g] = <<>> /\ net[Peer(g)] = {}
  /\ \A id \in Id : outReliable[g][id] = Absent

LEMMA MinusOfHeader ==
  ASSUME NEW d \in Datagram, NEW n \in 1 .. AckCount
  PROVE  Minus(d.ackId, n) \in Id
<1>1. d.ackId \in Id /\ n \in Id
  BY ConnectionAssumption, MaxPossibleIdAssumption DEF Datagram, AckCount, Id
<1>2. QED
  BY <1>1, IdArithmetic

LEMMA SilentStep ==
  ASSUME TypeOK, NEW g \in Host, MaxReliable[g] = 0, g \notin SendsUnreliable,
         Silent(g), [Next]_vars
  PROVE  Silent(g)'
<1>1. Peer(g) \in Host /\ Peer(g) # g /\ Peer(Peer(g)) = g
  BY PeerFacts
<1>2. /\ outReady[g] = <<>> /\ net[Peer(g)] = {} /\ scheduled[g] = 0
      /\ \A id \in Id : outReliable[g][id] = Absent
  BY DEF Silent
<1>3. CASE UNCHANGED vars
  BY <1>3 DEF vars, outVars, inVars, Silent
<1>4. ASSUME NEW h \in Host, ScheduleReliable(h)
      PROVE  Silent(g)'
  <2>1. h # g
    BY <1>2, <1>4 DEF ScheduleReliable
  <2>2. QED
    BY <1>2, <1>4, <2>1 DEF ScheduleReliable, Silent, TypeOK
<1>5. ASSUME NEW h \in Host, ScheduleUnreliable(h)
      PROVE  Silent(g)'
  <2>1. h # g
    BY <1>5 DEF ScheduleUnreliable
  <2>2. QED
    BY <1>2, <1>5, <2>1 DEF ScheduleUnreliable, Silent, TypeOK
<1>6. ASSUME NEW h \in Host, PopReadyOutgoingPacket(h)
      PROVE  Silent(g)'
  <2>1. h # g /\ Peer(h) # Peer(g)
    BY <1>1, <1>2, <1>6, PeerFacts DEF PopReadyOutgoingPacket
  <2>2. QED
    BY <1>1, <1>2, <1>6, <2>1 DEF PopReadyOutgoingPacket, Silent, TypeOK
<1>7. ASSUME NEW h \in Host, PopReadyIncomingPacket(h)
      PROVE  Silent(g)'
  BY <1>7 DEF PopReadyIncomingPacket, outVars, Silent
<1>8. ASSUME NEW h \in Host, NEW d \in net[h], Received(h, d)
      PROVE  Silent(g)'
  <2>1. h # Peer(g)
    BY <1>2, <1>8
  <2>2. h = g
    BY <1>1, <2>1, PeerFacts
  <2>3. d \in Datagram
    BY DEF TypeOK
  <2>4. ProcessAcks(g, d) /\ UNCHANGED <<scheduled, net[Peer(g)]>>
    BY <1>1, <1>8, <2>2 DEF Received, TypeOK
  <2>5. \A n \in 1 .. AckCount : Resend(g, d, n) = <<>>
    BY <1>2, <2>3, MinusOfHeader DEF Resend
  <2>6. outReady'[g] = outReady[g]
    <3>1. /\ Resend(g, d, 1) = <<>> /\ Resend(g, d, 2) = <<>>
          /\ Resend(g, d, 3) = <<>> /\ Resend(g, d, 4) = <<>>
      BY <2>5 DEF AckCount
    <3>2. outReady'[g] = <<>> \o <<>> \o <<>> \o <<>> \o <<>>
      BY <1>2, <2>4, <3>1 DEF ProcessAcks, TypeOK
    <3>3. QED
      BY <1>2, <3>2
  <2>7. \A id \in Id : outReliable'[g][id] = Absent
    BY <1>2, <2>4 DEF ProcessAcks, TypeOK
  <2>8. QED
    BY <1>2, <2>4, <2>6, <2>7 DEF Silent
<1>9. ASSUME NEW h \in Host, NEW d \in net[h], Lose(h, d)
      PROVE  Silent(g)'
  BY <1>1, <1>2, <1>9 DEF Lose, outVars, Silent, TypeOK
<1>10. QED
  BY <1>3, <1>4, <1>5, <1>6, <1>7, <1>8, <1>9 DEF Next, HostStep

\* The headers to a host that sends nothing ask for nothing, and none leave it.
LEMMA SilentIsInTime ==
  ASSUME NEW g \in Host, Silent(g)
  PROVE  FirstHeadersInTime
<1>1. scheduled[g] = 0 /\ \A h \in Host : h # g => net[h] = {}
  BY PeerFacts DEF Silent
<1>2. 0 <= MaxPossibleId - AckCount
  BY ConnectionAssumption, MaxPossibleIdAssumption DEF AckCount
<1>3. QED
  BY <1>1, <1>2 DEF FirstHeadersInTime

\* With one host that only listens nothing is ever rescheduled, so that the
\* messages of the other are delivered in order on a network that keeps theirs,
\* however often the ids wrap and whatever is duplicated.
THEOREM OneWayInOrder ==
  ASSUME KeepsOrder, NEW g \in Host, MaxReliable[g] = 0, g \notin SendsUnreliable
  PROVE  Spec => []LapInv /\ []InOrder
<1>1. Init => Silent(g)
  BY PeerFacts DEF Init, Silent
<1>2. TypeOK /\ Silent(g) /\ [Next]_vars => Silent(g)'
  BY SilentStep
<1>3. Silent(g) => FirstHeadersInTime
  BY SilentIsInTime
<1>4. QED
  BY <1>1, <1>2, <1>3, TypeCorrect, LapInvariant, WrapsInOrder, PTL DEF Spec
==========================================================================
