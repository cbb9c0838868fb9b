----------------------- MODULE ConnectionProperties -----------------------
(***************************************************************************)
(* What the reliability layer of Connection.tla is expected to keep, and   *)
(* the fairness under which it makes progress.                             *)
(***************************************************************************)
EXTENDS Connection, Functions

\* No id is used twice, and the id MaxPossibleId not even once: the regime in
\* which an id identifies a message.
NoIdReuse == \A h \in Host : MaxReliable[h] < MaxPossibleId

\* Any two ids of one host are less than HalfId apart, so that IsLater orders
\* them as the sender does.
NoHalfwaySpread == \A h \in Host : MaxReliable[h] <= HalfId

----------------------------------------------------------------------------
(* Safety. *)

\* The application receives reliable messages each once and in the order they
\* were scheduled, with none left out (Readme.md:7-8).
InOrder ==
  \A h \in Host : \A i \in DOMAIN delivered[h] : delivered[h][i] = i

MessagesAt(h) ==
  Range(inReliable[h]) \cup Range(inReady[h]) \cup Range(delivered[h])

\* A host forgets a reliable message (PacketAcked erases it) only when its peer
\* has it: no ack is a false one.
NothingForgotten ==
  \A h \in Host : \A m \in 1 .. scheduled[h] :
    m \in Range(outReliable[h]) \cup MessagesAt(Peer(h))

\* "Returns the id of the latest packet received" (Connection.h:70), whatever
\* the order in which the packets arrive.
AckIdIsLatest ==
  \A h \in Host :
    /\ ackId[h] # InvalidId => HasReceivedPacket(h, ackId[h])
    /\ \A id \in Id : HasReceivedPacket(h, id) => id <= ackId[h]

\* A message whose predecessors have all been released is itself released as
\* soon as it is stored: the reordering buffer never holds on to one.
NoStall ==
  \A h \in Host : ~ HasReceivedPacket(h, NextId(inSeq[h]))

\* Each direction implements an ordered stream without gaps or repetitions.
ToServer == INSTANCE ReliableStream
            WITH sent <- scheduled[ClientHost], received <- delivered[ServerHost]
ToClient == INSTANCE ReliableStream
            WITH sent <- scheduled[ServerHost], received <- delivered[ClientHost]

StreamToServer == ToServer!Spec
StreamToClient == ToClient!Spec

----------------------------------------------------------------------------
(* Progress. *)

\* The network delivers, now and then, a packet that is sent again and again.
DeliversId(h, id) == \E d \in net[h] : d.id = id /\ Received(h, d)

\* Both threads of a host keep looping, and the application keeps sending
\* unreliable messages where it sends any.
Fairness ==
  \A h \in Host :
    /\ WF_vars(PopReadyOutgoingPacket(h))
    /\ WF_vars(PopReadyIncomingPacket(h))
    /\ WF_vars(ScheduleUnreliable(h))
    /\ \A id \in 0 .. MaxReliable[Peer(h)] : SF_vars(DeliversId(h, id))

FairSpec == Spec /\ Fairness

\* "allowing specific packets to be guaranteed to arrive" (Readme.md:8): every
\* reliable message a host schedules reaches the application of its peer.
GuaranteedToArrive ==
  \A h \in Host : \A m \in 1 .. MaxReliable[h] :
    (scheduled[h] >= m) ~> (Len(delivered[Peer(h)]) >= m)

\* Message m of h is missing: its peer has received a later one, but not m.
Missing(h, m) == ~ HasReceivedPacket(Peer(h), m) /\ m < ackId[Peer(h)]

\* A message is guaranteed to arrive once it, or a later one, is received, and
\* its copy is discarded (Readme.md:44), whatever was lost and however often:
\* again and again the application has got every message up to the ack id, and
\* the sender keeps no copy of a message its peer has.
CatchesUp ==
  []<>(\A h \in Host :
         /\ \A m \in 1 .. MaxReliable[h] :
              ackId[Peer(h)] >= m => Len(delivered[Peer(h)]) >= m
         /\ \A id \in Id :
              HasReceivedPacket(Peer(h), id) => outReliable[h][id] = Absent)

\* "Expected all missing packets to be rescheduled" (ReliabilityTests.cpp:263):
\* when a header arrives, every message below its ack id that the peer lacks
\* is in the ready queue afterwards.
MissingRescheduled ==
  [][\A h \in Host : \A d \in net[h] : Received(h, d) =>
       \A m \in 1 .. d.ackId : Missing(h, m) =>
         \E i \in DOMAIN outReady'[h] : outReady'[h][i].msg = m]_vars
=============================================================================
