------------------------- MODULE ThreadInvariants -------------------------
(***************************************************************************)
(* Why the properties of ConnectionThreads hold: what the two threads of a *)
(* host have in their hands while the calls of the other threads go on.    *)
(***************************************************************************)
EXTENDS ConnectionThreads

\* The datagram the listen thread works on was made by the peer, and the one
\* the send thread makes is a packet of its host.
HandsGenuine(h) == Genuine(Peer(h), inHand[h]) /\ Genuine(h, making[h])

\* UpdateAckId is only called for a reliable packet, and AddAckHeader starts
\* with no bit set.
PointsInv(h) ==
  /\ listenAt[h] = "update" => inHand[h].reliable
  /\ sendAt[h] \in {"idle", "pop", "ackId"} => making[h].acks = {}

\* h acks the id, or none: it has received the packet or is about to store it.
MayAck(h, id) == id = InvalidId \/ HasOrStores(h, id)

\* A copy is kept until the peer has the message, or is about to store it.
CopiesKeptOrStored(h) ==
  \A m \in 1 .. scheduled[h] : outReliable[h][m] = m \/ HasOrStores(Peer(h), m)

\* However the threads interleave, what is in their hands is genuine, headers
\* ack no more than their host is about to have, and no copy is lost.
ThreadInv ==
  /\ DeliveryInv
  /\ \A h \in Host : /\ HandsGenuine(h) /\ PointsInv(h)
                     /\ MayAck(h, ackId[h])
                     /\ CopiesKeptOrStored(h)
  /\ AcksReceived

\* The ack id is published before the packet is stored, and never falls behind
\* what is stored.
LatestInv ==
  \A h \in Host : \A id \in Id : HasOrStores(h, id) => id <= ackId[h]
==========================================================================
