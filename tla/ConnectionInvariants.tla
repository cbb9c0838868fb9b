----------------------- MODULE ConnectionInvariants -----------------------
(***************************************************************************)
(* Why the properties of ConnectionProperties hold: inductive invariants   *)
(* that relate what a host has sent to what its peer has received.         *)
(***************************************************************************)
EXTENDS ConnectionProperties

\* p is a packet h made: the n-th reliable message carries the id n.
Genuine(h, p) ==
  IF p.reliable THEN p.id \in 1 .. scheduled[h] /\ p.msg = p.id
                ELSE p.msg = Unsequenced

\* Under id id, packets holds the message id of h or nothing.
HoldsUnderId(h, packets) ==
  \A id \in Id : packets[id] \in {Absent, id} /\ packets[id] <= scheduled[h]

\* The sequence number of a sender has not wrapped, and everything it has sent
\* carries the ordinal of its message for an id.
SenderInv(h) ==
  /\ outSeq[h] = scheduled[h] /\ scheduled[h] <= MaxReliable[h]
  /\ HoldsUnderId(h, outReliable[h])
  /\ \A i \in DOMAIN outReady[h] : Genuine(h, outReady[h][i])
  /\ \A d \in net[Peer(h)] : Genuine(h, d)

\* Every message up to the sequence number of h is stored and released:
\* delivered, in order, or (ReadyInv) waiting in the ready queue.
ReceiverInv(h) ==
  /\ HoldsUnderId(Peer(h), inReliable[h])
  /\ inSeq[h] <= scheduled[Peer(h)]
  /\ \A id \in 1 .. inSeq[h] : HasReceivedPacket(h, id)
  /\ Len(delivered[h]) <= inSeq[h]
  /\ \A i \in DOMAIN delivered[h] : delivered[h][i] = i

\* The messages in the queue q are those from first to last, in order, and
\* unreliable ones may stand between them.
HoldsInOrder(q, first, last) ==
  /\ \A i \in DOMAIN q : q[i] # Unsequenced => q[i] \in first .. last
  /\ \A i, j \in DOMAIN q :
       i < j /\ q[i] # Unsequenced /\ q[j] # Unsequenced => q[i] < q[j]
  /\ \A m \in first .. last : \E i \in DOMAIN q : q[i] = m

ReadyInv(h) ==
  HoldsInOrder(inReady[h], Len(delivered[h]) + 1, inSeq[h])

\* Without id reuse, each message is in one place of its way from Schedule to
\* the application, and the places are in order.
DeliveryInv == \A h \in Host : SenderInv(h) /\ ReceiverInv(h) /\ ReadyInv(h)

\* The header of d acks only what h has received.
SoundHeader(h, d) ==
  \A id \in AckedIds(d) : id = InvalidId \/ HasReceivedPacket(h, id)

\* h keeps a copy of every message its peer has not received.
CopiesKept(h) ==
  \A m \in 1 .. scheduled[h] :
    outReliable[h][m] = m \/ HasReceivedPacket(Peer(h), m)

\* Acks are sound, those of the headers in flight and of the next one, and
\* every message is with its sender or with its receiver.
AckInv ==
  \A h \in Host :
    /\ ackId[h] = InvalidId \/ HasReceivedPacket(h, ackId[h])
    /\ \A d \in net[Peer(h)] : SoundHeader(h, d)
    /\ CopiesKept(h)

\* The bound on how far a sender is ahead of the application of its peer.
AheadInv ==
  \A h \in Host : scheduled[h] <= Len(delivered[Peer(h)]) + MaxAhead

----------------------------------------------------------------------------
(* Ids that wrap. *)

\* One datagram is in flight at a time, and none is lost.
KeepsOrder == MaxInFlight <= 1 /\ "loss" \notin Faults

\* A header that does not say whether the last ids of the lap before were
\* received was made when few packets had been: on the first lap, in turn.  It
\* arrives before its host uses those ids.
FirstHeadersInTime ==
  \A h \in Host : \A d \in net[h] :
    (\E n \in 1 .. AckCount : n > d.ackId /\ n \notin d.acks) =>
      scheduled[h] <= MaxPossibleId - AckCount

\* The id of the m-th reliable message of a host, on whatever lap.
IdOf(m) == IF m = 0 THEN InvalidId ELSE ((m - 1) % MaxPossibleId) + 1

\* p carries a reliable message under its id, or an unreliable one.
Carries(p) == IF p.reliable THEN p.msg # Unsequenced /\ p.id = IdOf(p.msg)
                            ELSE p.msg = Unsequenced

Messages(packets) == [i \in DOMAIN packets |-> packets[i].msg]

\* What h sends carries its messages under their ids, one datagram at a time.
SendsInTurn(h) ==
  /\ outSeq[h] = IdOf(scheduled[h])
  /\ \A i \in DOMAIN outReady[h] : Carries(outReady[h][i])
  /\ \A d \in net[Peer(h)] : Carries(d) /\ d.msg <= scheduled[h]
  /\ \A d, e \in net[Peer(h)] : d = e

\* The peer of h has released the first k messages of h: it waits for the id of
\* the next one, which is in flight or the first in the queue.
ReleasedUpTo(h, k) ==
  LET g == Peer(h)
  IN  /\ inSeq[g] = IdOf(k) /\ ackId[g] = IdOf(k)
      /\ Len(delivered[g]) <= k
      /\ \A i \in DOMAIN delivered[g] : delivered[g][i] = i
      /\ HoldsInOrder(inReady[g], Len(delivered[g]) + 1, k)
      /\ \A d \in net[g] : d.reliable => d.msg \in {k, k + 1}
      /\ HoldsInOrder(Messages(outReady[h]),
                      IF \E d \in net[g] : d.msg = k + 1 THEN k + 2 ELSE k + 1,
                      scheduled[h])

\* h has received every id up to its ack id, which is what the headers of its
\* peer say of the peer; and it stores no packet it has not scheduled.
AcksInTurn(h) ==
  /\ \A id \in 1 .. ackId[h] : HasReceivedPacket(h, id)
  /\ \A d \in net[h] : \A n \in 1 .. AckCount : n < d.ackId => n \in d.acks
  /\ \A id \in Id : outReliable[h][id] # Absent => id \in 1 .. scheduled[h]

\* However often the ids have wrapped, each message takes its turn.
LapInv ==
  \A h \in Host : /\ SendsInTurn(h) /\ AcksInTurn(h)
                  /\ \E k \in 0 .. scheduled[h] : ReleasedUpTo(h, k)
==========================================================================
