------------------------ MODULE ConnectionThreads ------------------------
(***************************************************************************)
(* The calls on a Connection taken apart into what its locks make atomic,  *)
(* for the hosts in Threaded: the application schedules, the send thread   *)
(* pops a packet and gathers its ack header, the listen thread is inside   *)
(* Received (Connection.cpp).  The other hosts keep the atomic calls of    *)
(* Connection.tla.                                                         *)
(***************************************************************************)
EXTENDS ConnectionInvariants

CONSTANT Threaded   \* the hosts whose calls are taken apart

ASSUME ThreadedAssumption == Threaded \subseteq Host

VARIABLES
  listenAt,  \* where the listen thread is
  inHand,    \* the datagram it is working on
  turn,      \* the turn of the loop of ProcessAcks
  sendAt,    \* where the send thread is
  making,    \* the datagram it is making
  bit        \* the bit of ackBitset it sets next

listenVars == <<listenAt, inHand, turn>>
sendVars   == <<sendAt, making, bit>>
allVars    == <<vars, listenVars, sendVars>>

Blank == [reliable |-> FALSE, id |-> InvalidId, msg |-> Unsequenced,
          ackId |-> InvalidId, acks |-> {}]

\* "acks" is ProcessAcks, "update" UpdateAckId, "store" the rest of Received.
ListenPoint == {"idle", "acks", "update", "store"}

\* "pop" is PopNextReadyPacket, "ackId" and "bits" are AddAckHeader.
SendPoint == {"idle", "pop", "ackId", "bits", "send"}

ThreadTypeOK ==
  /\ TypeOK
  /\ listenAt \in [Host -> ListenPoint]
  /\ inHand   \in [Host -> Datagram]
  /\ turn     \in [Host -> 0 .. AckCount]
  /\ sendAt   \in [Host -> SendPoint]
  /\ making   \in [Host -> Datagram]
  /\ bit      \in [Host -> 1 .. AckCount]

ThreadInit ==
  /\ Init
  /\ listenAt = [h \in Host |-> "idle"] /\ inHand = [h \in Host |-> Blank]
  /\ turn     = [h \in Host |-> 0]
  /\ sendAt   = [h \in Host |-> "idle"] /\ making = [h \in Host |-> Blank]
  /\ bit      = [h \in Host |-> 1]

\* Received holds incoming.lock from its first line to its last.
IncomingFree(h) == listenAt[h] = "idle"

\* Slip: AddAckHeader is called before PopNextReadyPacket lets go of the lock.
HoldsOutgoingSlip == {"pop", "ackId", "bits"}

\* PopNextReadyPacket holds outgoing.lock and lets go of it at its end.
HoldsOutgoing == {"pop"}

OutgoingFree(h) == sendAt[h] \notin HoldsOutgoing

----------------------------------------------------------------------------
(* The listen thread.  Its loop receives again when it has popped all.     *)

\* ReceiveFrom, and the lock of Received.
BeginReceived(h, d) ==
  /\ listenAt[h] = "idle" /\ inReady[h] = <<>>
  /\ Len(outReady[h]) <= MaxReady
  /\ listenAt' = [listenAt EXCEPT ![h] = "acks"]
  /\ inHand'   = [inHand EXCEPT ![h] = d]
  /\ turn'     = [turn EXCEPT ![h] = 0]
  /\ \/ net' = [net EXCEPT ![h] = @ \ {d}]
     \/ "duplication" \in Faults /\ net' = net
  /\ UNCHANGED <<outVars, inVars, sendVars>>

\* Slip: the loop of ProcessAcks runs once too often.
LastTurnSlip == AckCount + 1

\* The ack id, and an iteration for each bit.
LastTurn == AckCount

\* PacketAcked or ReschedulePacket for one id, each under outgoing.lock.
ProcessAck(h) ==
  LET n  == turn[h]
      id == Minus(inHand[h].ackId, n)
  IN  /\ listenAt[h] = "acks" /\ OutgoingFree(h)
      /\ IF n = 0 \/ n \in inHand[h].acks
         THEN /\ outReliable' = [outReliable EXCEPT ![h][id] = Absent]
              /\ UNCHANGED outReady
         ELSE /\ outReady' = [outReady EXCEPT ![h] = @ \o Resend(h, inHand[h], n)]
              /\ UNCHANGED outReliable
      /\ IF n < LastTurn
         THEN turn' = [turn EXCEPT ![h] = n + 1] /\ UNCHANGED listenAt
         ELSE /\ listenAt' = [listenAt EXCEPT ![h] =
                                IF inHand[h].reliable THEN "update" ELSE "store"]
              /\ UNCHANGED turn
      /\ UNCHANGED <<scheduled, outSeq, inVars, net, inHand, sendVars>>

\* UpdateAckId: the send thread reads currentAckId without a lock.
UpdateAckId(h) ==
  /\ listenAt[h] = "update"
  /\ ackId'    = [ackId EXCEPT ![h] = UpdatedAckId(h, inHand[h].id)]
  /\ listenAt' = [listenAt EXCEPT ![h] = "store"]
  /\ UNCHANGED <<outVars, inReliable, inReady, inSeq, delivered, net, inHand, turn,
                 sendVars>>

\* The rest of Received.  StoreAndEnqueue makes UpdateAckId's comparison once
\* more, which changes nothing.
EndReceived(h) ==
  /\ listenAt[h] = "store"
  /\ IF inHand[h].reliable
     THEN StoreAndEnqueue(h, inHand[h])
     ELSE /\ inReady' = [inReady EXCEPT ![h] = Append(@, inHand[h].msg)]
          /\ UNCHANGED <<inReliable, inSeq, ackId>>
  /\ listenAt' = [listenAt EXCEPT ![h] = "idle"]
  /\ inHand'   = [inHand EXCEPT ![h] = Blank]
  /\ UNCHANGED <<outVars, delivered, net, turn, sendVars>>

----------------------------------------------------------------------------
(* The send thread. *)

BeginPop(h) ==
  /\ sendAt[h] = "idle"
  /\ sendAt' = [sendAt EXCEPT ![h] = "pop"]
  /\ UNCHANGED <<vars, listenVars, making, bit>>

\* PopNextReadyPacket
Pop(h) ==
  /\ sendAt[h] = "pop"
  /\ IF outReady[h] = <<>>
     THEN sendAt' = [sendAt EXCEPT ![h] = "idle"] /\ UNCHANGED <<outReady, making>>
     ELSE LET p == Head(outReady[h])
          IN  /\ sendAt'   = [sendAt EXCEPT ![h] = "ackId"]
              /\ outReady' = [outReady EXCEPT ![h] = Tail(@)]
              /\ making'   = [making EXCEPT ![h] =
                                [Blank EXCEPT !.reliable = p.reliable,
                                              !.id = p.id, !.msg = p.msg]]
  /\ UNCHANGED <<scheduled, outReliable, outSeq, inVars, net, listenVars, bit>>

\* AddAckHeader reads the ack id ...
LoadAckId(h) ==
  /\ sendAt[h] = "ackId"
  /\ making' = [making EXCEPT ![h].ackId = ackId[h]]
  /\ sendAt' = [sendAt EXCEPT ![h] = "bits"]
  /\ bit'    = [bit EXCEPT ![h] = 1]
  /\ UNCHANGED <<vars, listenVars>>

\* Slip: the ack id is read anew for each bit.
AckedByBitSlip(h) == Minus(ackId[h], bit[h])

AckedByBit(h) == Minus(making[h].ackId, bit[h])

\* ... and then the bits, each under incoming.lock.
ReadBit(h) ==
  LET n == bit[h]
  IN  /\ sendAt[h] = "bits" /\ IncomingFree(h)
      /\ making' = IF HasReceivedPacket(h, AckedByBit(h))
                   THEN [making EXCEPT ![h].acks = @ \cup {n}]
                   ELSE making
      /\ IF n < AckCount
         THEN bit' = [bit EXCEPT ![h] = n + 1] /\ UNCHANGED sendAt
         ELSE sendAt' = [sendAt EXCEPT ![h] = "send"] /\ UNCHANGED bit
      /\ UNCHANGED <<vars, listenVars>>

SendTo(h) ==
  /\ sendAt[h] = "send"
  /\ Cardinality(net[Peer(h)]) < MaxInFlight
  /\ net'    = [net EXCEPT ![Peer(h)] = @ \cup {making[h]}]
  /\ making' = [making EXCEPT ![h] = Blank]
  /\ sendAt' = [sendAt EXCEPT ![h] = "idle"]
  /\ UNCHANGED <<outVars, inVars, listenVars, bit>>

----------------------------------------------------------------------------

ThreadStep(h) ==
  \/ \E d \in net[h] : BeginReceived(h, d)
  \/ ProcessAck(h)
  \/ UpdateAckId(h)
  \/ EndReceived(h)
  \/ BeginPop(h)
  \/ Pop(h)
  \/ LoadAckId(h)
  \/ ReadBit(h)
  \/ SendTo(h)

\* The steps that are calls of Connection.tla on a threaded host, too.
CallStep(h) ==
  /\ \/ OutgoingFree(h) /\ (ScheduleReliable(h) \/ ScheduleUnreliable(h))
     \/ IncomingFree(h) /\ PopReadyIncomingPacket(h)
     \/ \E d \in net[h] : Lose(h, d)
  /\ UNCHANGED <<listenVars, sendVars>>

ThreadNext ==
  \E h \in Host :
    IF h \in Threaded THEN ThreadStep(h) \/ CallStep(h)
                      ELSE HostStep(h) /\ UNCHANGED <<listenVars, sendVars>>

ThreadSpec == ThreadInit /\ [][ThreadNext]_allVars

----------------------------------------------------------------------------
(* Properties. *)

\* A thread of h is in Received or PopReadyOutgoingPacket, and what they do next.
InsideCall(h) == listenAt[h] # "idle" \/ sendAt[h] \in {"pop", "ackId", "bits"}
CallGoesOn(h) ==
  \/ ProcessAck(h) \/ UpdateAckId(h) \/ EndReceived(h)
  \/ Pop(h) \/ LoadAckId(h) \/ ReadBit(h)

\* Received takes outgoing.lock while it holds incoming.lock (Connection.cpp:52,
\* :213, :225), and AddAckHeader takes incoming.lock for each bit (:88): wherever
\* the two threads of a host are, one of those inside a call can go on with it.
NoDeadlock == \A h \in Threaded : InsideCall(h) => ENABLED CallGoesOn(h)

\* The message whose id the listen thread has published, and not yet stored.
BeingStored(h) ==
  IF listenAt[h] = "store" /\ inHand[h].reliable THEN {inHand[h].msg} ELSE {}

\* An ack may run ahead of the store, but a message its sender has forgotten is
\* stored by its peer, or about to be by a thread that holds incoming.lock.
ForgottenIsStored ==
  \A h \in Host : \A m \in 1 .. scheduled[h] :
    m \in Range(outReliable[h]) \cup MessagesAt(Peer(h)) \cup BeingStored(Peer(h))

\* The ids h has received, or has in hand after UpdateAckId.
HasOrStores(h, id) ==
  \/ HasReceivedPacket(h, id)
  \/ listenAt[h] = "store" /\ inHand[h].reliable /\ inHand[h].id = id

\* Whatever header is on its way, in the making or being processed, and however
\* the two threads interleave, it acks only what its host has received.
AcksReceived ==
  \A h \in Host :
    \A d \in net[Peer(h)] \cup {inHand[Peer(h)], making[h]} :
      \A id \in AckedIds(d) : id = InvalidId \/ HasOrStores(h, id)

\* Whatever header reaches h or is being processed, and however old it is by
\* then, h still has each message below its ack id that the peer lacks, and the
\* header has the bit of that message, and has it off.
AsksForMissing ==
  \A h \in Host : \A d \in net[h] \cup {inHand[h]} :
    \A m \in 1 .. d.ackId :
      \/ HasOrStores(Peer(h), m)
      \/ /\ outReliable[h][m] = m
         /\ \E n \in (1 .. AckCount) \ d.acks : Minus(d.ackId, n) = m
==========================================================================
