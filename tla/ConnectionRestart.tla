------------------------ MODULE ConnectionRestart ------------------------
(***************************************************************************)
(* The server process ends and starts again on its port while a client     *)
(* goes on.  The new server makes a fresh Connection for the client when   *)
(* it first hears of it (Server.cpp); the client keeps the one it has,     *)
(* since no packet says that a connection begins.                          *)
(***************************************************************************)
EXTENDS ConnectionProperties

VARIABLES
  known,   \* the server has the client among its peers
  before   \* reliable messages of each host scheduled before the restart

restartVars == <<known, before>>

RestartInit ==
  /\ Init
  /\ known = FALSE
  /\ before = [h \in Host |-> 0]

\* ~Server, and the constructor of the next one.
Restart ==
  LET fresh == [id \in Id |-> Absent]
  IN  /\ known
      /\ known'  = FALSE
      /\ before' = scheduled
      /\ outReliable' = [outReliable EXCEPT ![ServerHost] = fresh]
      /\ outReady'    = [outReady EXCEPT ![ServerHost] = <<>>]
      /\ outSeq'      = [outSeq EXCEPT ![ServerHost] = InvalidId]
      /\ inReliable'  = [inReliable EXCEPT ![ServerHost] = fresh]
      /\ inReady'     = [inReady EXCEPT ![ServerHost] = <<>>]
      /\ inSeq'       = [inSeq EXCEPT ![ServerHost] = InvalidId]
      /\ ackId'       = [ackId EXCEPT ![ServerHost] = InvalidId]
      /\ UNCHANGED <<scheduled, delivered, net>>

\* The application of the server reaches the peers it has.
Schedules(h) ==
  /\ h = ServerHost => known
  /\ ScheduleReliable(h) \/ ScheduleUnreliable(h)
  /\ UNCHANGED restartVars

\* The first datagram of the client makes it a peer (AddPeer).
Receives(h) ==
  /\ \E d \in net[h] : Received(h, d)
  /\ known' = (known \/ h = ServerHost)
  /\ UNCHANGED before

Otherwise(h) ==
  /\ \/ PopReadyOutgoingPacket(h)
     \/ PopReadyIncomingPacket(h)
     \/ \E d \in net[h] : Lose(h, d)
  /\ UNCHANGED restartVars

RestartNext ==
  \/ Restart
  \/ \E h \in Host : Schedules(h) \/ Receives(h) \/ Otherwise(h)

RestartSpec == RestartInit /\ [][RestartNext]_<<vars, restartVars>>

\* "allowing specific packets to be guaranteed to arrive" (Readme.md:7): a host
\* keeps a message of the present server's time until its peer has it.
NothingForgottenSince ==
  \A h \in Host : \A m \in before[h] + 1 .. scheduled[h] :
    m \in Range(outReliable[h]) \cup MessagesAt(Peer(h))
==========================================================================
