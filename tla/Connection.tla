---------------------------- MODULE Connection ----------------------------
(***************************************************************************)
(* The two Connection objects at the ends of one UDP "connection" and the  *)
(* datagrams between them (Connection.cpp).  Each call on a Connection is  *)
(* one step; the datagrams may be lost, duplicated and reordered.          *)
(*                                                                         *)
(* A reliable message is its ordinal among those its host scheduled: 1 for *)
(* the first, 2 for the second.  Ids wrap, ordinals do not, so the two     *)
(* tell a message from an older one that had the same id.                  *)
(***************************************************************************)
EXTENDS PacketIds, Sequences, FiniteSets

CONSTANTS
  ClientHost, ServerHost, \* the two ends
  MaxReliable,     \* bound: reliable messages each host schedules
  MaxAhead,        \* bound: reliable messages scheduled but not yet delivered
  SendsUnreliable, \* the hosts whose application sends unreliable messages
  MaxReady,        \* bound: packets in a ready queue when more are added
  MaxInFlight,     \* bound: datagrams on their way to a host
  Faults           \* what the network does: "loss", "duplication"

Host == {ClientHost, ServerHost}

AckCount == 4      \* sizeof(Packet::ackBitset), in bytes

ASSUME ConnectionAssumption ==
  /\ ClientHost # ServerHost
  /\ MaxPossibleId > AckCount
  /\ MaxReliable \in [Host -> Nat]
  /\ SendsUnreliable \subseteq Host
  /\ MaxAhead \in Nat /\ MaxReady \in Nat /\ MaxInFlight \in Nat
  /\ Faults \subseteq {"loss", "duplication"}

VARIABLES
  scheduled,    \* reliable messages the application of a host has scheduled
  outReliable,  \* outgoing.reliablePackets: the message stored under an id
  outReady,     \* outgoing.readyPackets
  outSeq,       \* outgoing.sequenceNumber
  inReliable,   \* incoming.reliablePackets: the message stored under an id
  inReady,      \* incoming.readyPackets, as messages
  inSeq,        \* incoming.sequenceNumber
  ackId,        \* currentAckId
  delivered,    \* the reliable messages popped by the application, in order
  net           \* datagrams on their way to a host

outVars == <<scheduled, outReliable, outReady, outSeq>>
inVars  == <<inReliable, inReady, inSeq, ackId, delivered>>
vars    == <<outVars, inVars, net>>

Peer(h) == IF h = ClientHost THEN ServerHost ELSE ClientHost

Absent      == 0  \* no packet is stored under the id
Unsequenced == 0  \* the contents of an unreliable packet

Packet   == [reliable : BOOLEAN, id : Id, msg : Nat]
Datagram == [reliable : BOOLEAN, id : Id, msg : Nat,
             ackId : Id, acks : SUBSET (1 .. AckCount)]

TypeOK ==
  /\ scheduled   \in [Host -> Nat]
  /\ outReliable \in [Host -> [Id -> Nat]]
  /\ outReady    \in [Host -> Seq(Packet)]
  /\ outSeq      \in [Host -> Id]
  /\ inReliable  \in [Host -> [Id -> Nat]]
  /\ inReady     \in [Host -> Seq(Nat)]
  /\ inSeq       \in [Host -> Id]
  /\ ackId       \in [Host -> Id]
  /\ delivered   \in [Host -> Seq(Nat)]
  /\ net         \in [Host -> SUBSET Datagram]

Init ==
  /\ scheduled   = [h \in Host |-> 0]
  /\ outReliable = [h \in Host |-> [id \in Id |-> Absent]]
  /\ outReady    = [h \in Host |-> <<>>]
  /\ outSeq      = [h \in Host |-> InvalidId]
  /\ inReliable  = [h \in Host |-> [id \in Id |-> Absent]]
  /\ inReady     = [h \in Host |-> <<>>]
  /\ inSeq       = [h \in Host |-> InvalidId]
  /\ ackId       = [h \in Host |-> InvalidId]
  /\ delivered   = [h \in Host |-> <<>>]
  /\ net         = [h \in Host |-> {}]

----------------------------------------------------------------------------
(* Sending. *)

\* Schedule of a packet with Flags::Reliable: it takes the next id and a copy
\* is kept until it is acked.
ScheduleReliable(h) ==
  LET id  == NextId(outSeq[h])
      msg == scheduled[h] + 1
  IN  /\ scheduled[h] < MaxReliable[h]
      /\ scheduled[h] - Len(delivered[Peer(h)]) < MaxAhead
      /\ Len(outReady[h]) < MaxReady
      /\ scheduled'   = [scheduled EXCEPT ![h] = msg]
      /\ outSeq'      = [outSeq EXCEPT ![h] = id]
      /\ outReliable' = [outReliable EXCEPT ![h][id] = msg]
      /\ outReady'    = [outReady EXCEPT ![h] =
                           Append(@, [reliable |-> TRUE, id |-> id, msg |-> msg])]
      /\ UNCHANGED <<inVars, net>>

\* Schedule of any other packet.
ScheduleUnreliable(h) ==
  /\ h \in SendsUnreliable
  /\ Len(outReady[h]) < MaxReady
  /\ outReady' = [outReady EXCEPT ![h] =
                    Append(@, [reliable |-> FALSE, id |-> InvalidId,
                               msg |-> Unsequenced])]
  /\ UNCHANGED <<scheduled, outReliable, outSeq, inVars, net>>

\* HasReceivedPacket
HasReceivedPacket(h, id) == inReliable[h][id] # Absent

\* Slip: the offset of AddAckHeader starts at 0 instead of 1.
AddAckHeaderSlip(h, p) ==
  [reliable |-> p.reliable, id |-> p.id, msg |-> p.msg,
   ackId |-> ackId[h],
   acks  |-> {n \in 1 .. AckCount : HasReceivedPacket(h, Minus(ackId[h], n - 1))}]

\* AddAckHeader: n \in acks is bit n - 1 of ackBitset, which acks ackId - n.
AddAckHeader(h, p) ==
  [reliable |-> p.reliable, id |-> p.id, msg |-> p.msg,
   ackId |-> ackId[h],
   acks  |-> {n \in 1 .. AckCount : HasReceivedPacket(h, Minus(ackId[h], n))}]

\* PopReadyOutgoingPacket, and the SendTo that follows it in both send threads.
PopReadyOutgoingPacket(h) ==
  /\ outReady[h] # <<>>
  /\ Cardinality(net[Peer(h)]) < MaxInFlight
  /\ outReady' = [outReady EXCEPT ![h] = Tail(@)]
  /\ net' = [net EXCEPT ![Peer(h)] = @ \cup {AddAckHeader(h, Head(outReady[h]))}]
  /\ UNCHANGED <<scheduled, outReliable, outSeq, inVars>>

----------------------------------------------------------------------------
(* Receiving. *)

\* Slip: the bits of the header are not looked at.
AckedIdsSlip(d) == {d.ackId}

\* The ids the header of d acks.
AckedIds(d) == {d.ackId} \cup {Minus(d.ackId, n) : n \in d.acks}

\* Slip: the test of the bit is the wrong way round.
ResendSlip(h, d, n) ==
  LET id == Minus(d.ackId, n)
  IN  IF n \in d.acks /\ outReliable[h][id] # Absent
      THEN <<[reliable |-> TRUE, id |-> id, msg |-> outReliable[h][id]]>>
      ELSE <<>>

\* ReschedulePacket for the id n below ackId, if its bit is off and the packet
\* is still stored: what it puts into the ready queue.
Resend(h, d, n) ==
  LET id == Minus(d.ackId, n)
  IN  IF n \notin d.acks /\ outReliable[h][id] # Absent
      THEN <<[reliable |-> TRUE, id |-> id, msg |-> outReliable[h][id]]>>
      ELSE <<>>

\* Slip: the loop of ProcessAcks ends one bit early.
ProcessAcksSlip(h, d) ==
  /\ outReliable' = [outReliable EXCEPT ![h] =
                       [id \in Id |-> IF id \in AckedIds(d) THEN Absent ELSE @[id]]]
  /\ outReady' = [outReady EXCEPT ![h] =
                    @ \o Resend(h, d, 1) \o Resend(h, d, 2) \o Resend(h, d, 3)]

\* ProcessAcks
ProcessAcks(h, d) ==
  /\ outReliable' = [outReliable EXCEPT ![h] =
                       [id \in Id |-> IF id \in AckedIds(d) THEN Absent ELSE @[id]]]
  /\ outReady' = [outReady EXCEPT ![h] =
                    @ \o Resend(h, d, 1) \o Resend(h, d, 2)
                      \o Resend(h, d, 3) \o Resend(h, d, 4)]

\* Slip: the loop does not stop at a packet that is not there.
StopsAtSlip(n, seq, latest, stored) == IdAfter(seq, n) = latest

\* The loop of EnqueueProcessablePackets, which starts after seq and runs
\* towards latest over the stored packets, stops at the n-th id.
StopsAt(n, seq, latest, stored) ==
  \/ IdAfter(seq, n) = latest
  \/ stored[IdAfter(seq, n + 1)] = Absent

Enqueues(n, seq, latest, stored) ==
  /\ \A i \in 0 .. n - 1 : ~ StopsAt(i, seq, latest, stored)
  /\ StopsAt(n, seq, latest, stored)

\* Slip: the packet received last counts as the latest one.
UpdatedAckIdSlip(h, id) == id

\* UpdateAckId
UpdatedAckId(h, id) == IF IsLater(ackId[h], id) THEN id ELSE ackId[h]

\* Slip: the loop leaves incoming.sequenceNumber alone.
StoreAndEnqueueSlip(h, d) ==
  LET latest == UpdatedAckId(h, d.id)
      stored == [inReliable[h] EXCEPT ![d.id] = d.msg]
  IN  /\ ackId'      = [ackId EXCEPT ![h] = latest]
      /\ inReliable' = [inReliable EXCEPT ![h] = stored]
      /\ \E n \in 0 .. MaxPossibleId :
           /\ Enqueues(n, inSeq[h], latest, stored)
           /\ UNCHANGED inSeq
           /\ inReady' = [inReady EXCEPT ![h] =
                @ \o [i \in 1 .. n |-> stored[IdAfter(inSeq[h], i)]]]

\* The reliable branch of Received: UpdateAckId, store, EnqueueProcessablePackets.
StoreAndEnqueue(h, d) ==
  LET latest == UpdatedAckId(h, d.id)
      stored == [inReliable[h] EXCEPT ![d.id] = d.msg]
  IN  /\ ackId'      = [ackId EXCEPT ![h] = latest]
      /\ inReliable' = [inReliable EXCEPT ![h] = stored]
      /\ \E n \in 0 .. MaxPossibleId :
           /\ Enqueues(n, inSeq[h], latest, stored)
           /\ inSeq'   = [inSeq EXCEPT ![h] = IdAfter(@, n)]
           /\ inReady' = [inReady EXCEPT ![h] =
                @ \o [i \in 1 .. n |-> stored[IdAfter(inSeq[h], i)]]]

\* Received, for a datagram that ReceiveFrom returned.  A duplicated datagram
\* stays in flight.
Received(h, d) ==
  /\ Len(outReady[h]) <= MaxReady /\ Len(inReady[h]) < MaxReady
  /\ ProcessAcks(h, d)
  /\ IF d.reliable
     THEN StoreAndEnqueue(h, d)
     ELSE /\ inReady' = [inReady EXCEPT ![h] = Append(@, d.msg)]
          /\ UNCHANGED <<inReliable, inSeq, ackId>>
  /\ \/ net' = [net EXCEPT ![h] = @ \ {d}]
     \/ "duplication" \in Faults /\ net' = net
  /\ UNCHANGED <<scheduled, outSeq, delivered>>

\* PopReadyIncomingPacket: the packet goes to the application.
PopReadyIncomingPacket(h) ==
  /\ inReady[h] # <<>>
  /\ inReady' = [inReady EXCEPT ![h] = Tail(@)]
  /\ delivered' = IF Head(inReady[h]) = Unsequenced
                  THEN delivered
                  ELSE [delivered EXCEPT ![h] = Append(@, Head(inReady[h]))]
  /\ UNCHANGED <<outVars, inReliable, inSeq, ackId, net>>

\* UDP drops a datagram.
Lose(h, d) ==
  /\ "loss" \in Faults
  /\ net' = [net EXCEPT ![h] = @ \ {d}]
  /\ UNCHANGED <<outVars, inVars>>

----------------------------------------------------------------------------

HostStep(h) ==
  \/ ScheduleReliable(h)
  \/ ScheduleUnreliable(h)
  \/ PopReadyOutgoingPacket(h)
  \/ PopReadyIncomingPacket(h)
  \/ \E d \in net[h] : Received(h, d) \/ Lose(h, d)

Next == \E h \in Host : HostStep(h)

Spec == Init /\ [][Next]_vars
==========================================================================
