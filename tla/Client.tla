------------------------------ MODULE Client ------------------------------
(***************************************************************************)
(* A client from its constructor to the end of its threads (Client.cpp),   *)
(* under the loops of its applications (NetworkingWin.cpp, Chat.cpp).  The *)
(* application, the listen and the send thread share the socket; of the    *)
(* Connection only the lengths of its queues are kept.                     *)
(***************************************************************************)
EXTENDS Socket

CONSTANTS
  BindsFirst,  \* the delegate is bound before Start, as in Chat.cpp
  Faults,      \* "loss" of datagrams, "error" of calls on a usable socket
  MaxQueued,   \* bound: packets in the outgoing queue
  MaxInFlight, \* bound: datagrams on their way in either direction
  MaxAnswers   \* bound: messages the server sends

ASSUME ClientAssumption ==
  /\ User = {"app", "listen", "send"}
  /\ BindsFirst \in BOOLEAN
  /\ Faults \subseteq {"loss", "error"}
  /\ MaxQueued \in Nat /\ MaxInFlight \in Nat /\ MaxAnswers \in Nat

VARIABLES
  at,        \* where a thread is
  asked,     \* stop requested
  bound,     \* BindDataReceived has been called
  outgoing,  \* packets in outgoing.readyPackets
  toServer,  \* datagrams on their way to the server
  toClient,  \* datagrams on their way to the client
  answers,   \* messages the server has sent
  known,     \* the server has the client among its peers
  released,  \* messages of the server that the Connection has made ready
  taken,     \* those the listen thread has popped
  heard,     \* history: those given to the delegate
  crashed    \* the assertion of SendTo failed

netVars == <<toServer, toClient, answers, known>>
inVars  == <<released, taken, heard>>
vars    == <<socketVars, at, asked, bound, outgoing, netVars, inVars, crashed>>

Point == {"start", "ping", "sender", "listener", "bind", "talk", "stop", "ask", "join",
          "gone", "none", "loop", "receive", "blocked", "process", "drain", "sendto",
          "done"}

ClientTypeOK ==
  /\ SocketTypeOK
  /\ at \in [User -> Point]
  /\ asked \in BOOLEAN /\ bound \in BOOLEAN /\ known \in BOOLEAN /\ crashed \in BOOLEAN
  /\ outgoing \in 0 .. MaxQueued
  /\ toServer \in 0 .. MaxInFlight /\ toClient \in 0 .. MaxInFlight
  /\ answers \in 0 .. MaxAnswers /\ released \in 0 .. MaxAnswers
  /\ taken \in 0 .. MaxAnswers /\ heard \in 0 .. MaxAnswers

\* Slip: the delegate is bound after Start.
BoundBeforeStartSlip == FALSE

\* The order of BindDataReceived and Start in the application.
BoundBeforeStart == BindsFirst

Init ==
  /\ SocketInit
  /\ at = [t \in User |-> IF t # "app" THEN "none"
                        ELSE IF BoundBeforeStart THEN "bind" ELSE "start"]
  /\ asked = FALSE /\ bound = FALSE /\ known = FALSE /\ crashed = FALSE
  /\ outgoing = 0 /\ toServer = 0 /\ toClient = 0 /\ answers = 0
  /\ released = 0 /\ taken = 0 /\ heard = 0

\* Thread t is at a point, and not inside Close.
Is(t, point) == at[t] = point /\ closing[t] = "no"

Goes(t, point) == at' = [at EXCEPT ![t] = point]

\* SendTo by thread t, which goes on at a point.  A null address fails the
\* assertion; an error closes the socket.
SendTo(t, point) ==
  /\ toServer < MaxInFlight
  /\ IF ~ info
     THEN crashed' = TRUE /\ UNCHANGED <<at, toServer, socketVars>>
     ELSE /\ Goes(t, point)
          /\ UNCHANGED crashed
          /\ \/ Usable /\ toServer' = toServer + 1 /\ UNCHANGED socketVars
             \/ /\ ~ Usable \/ "error" \in Faults
                /\ BeginClose(t)
                /\ UNCHANGED <<valid, info, closes, frees, toServer>>
  /\ UNCHANGED <<toClient, answers, known>>

----------------------------------------------------------------------------
(* The application thread. *)

\* Start
Start ==
  /\ Is("app", "start")
  /\ Goes("app", IF valid THEN "ping" ELSE "stop")
  /\ UNCHANGED <<socketVars, asked, bound, outgoing, netVars, inVars, crashed>>

SendPing ==
  /\ Is("app", "ping")
  /\ SendTo("app", "sender")
  /\ UNCHANGED <<asked, bound, outgoing, inVars>>

StartSendThread ==
  /\ Is("app", "sender")
  /\ at' = [at EXCEPT !["app"] = "listener", !["send"] = "loop"]
  /\ UNCHANGED <<socketVars, asked, bound, outgoing, netVars, inVars, crashed>>

StartListenThread ==
  /\ Is("app", "listener")
  /\ at' = [at EXCEPT !["app"] = IF BoundBeforeStart THEN "talk" ELSE "bind",
                      !["listen"] = "loop"]
  /\ UNCHANGED <<socketVars, asked, bound, outgoing, netVars, inVars, crashed>>

BindDataReceived ==
  /\ Is("app", "bind")
  /\ bound' = TRUE
  /\ Goes("app", IF BoundBeforeStart THEN "start" ELSE "talk")
  /\ UNCHANGED <<socketVars, asked, outgoing, netVars, inVars, crashed>>

\* Slip: a client counts as connected when the server has it as a peer.
IsConnectedSlip == valid /\ known

IsConnected == valid

\* Send in the application's loop: Schedule.
Send ==
  /\ Is("app", "talk") /\ IsConnected
  /\ outgoing < MaxQueued
  /\ outgoing' = outgoing + 1
  /\ UNCHANGED <<socketVars, at, asked, bound, netVars, inVars, crashed>>

\* The application stops the client, or its loop finds it is not connected.
Leave ==
  /\ Is("app", "talk")
  /\ Goes("app", "stop")
  /\ UNCHANGED <<socketVars, asked, bound, outgoing, netVars, inVars, crashed>>

\* Stop
StopCloses ==
  /\ Is("app", "stop")
  /\ Goes("app", "ask")
  /\ IF valid THEN BeginClose("app") ELSE UNCHANGED closing
  /\ UNCHANGED <<valid, info, closes, frees, asked, bound, outgoing, netVars, inVars,
                 crashed>>

RequestStop ==
  /\ Is("app", "ask")
  /\ asked' = TRUE
  /\ Goes("app", "join")
  /\ UNCHANGED <<socketVars, bound, outgoing, netVars, inVars, crashed>>

\* ~Client joins the threads.
Join ==
  /\ Is("app", "join")
  /\ at["listen"] \in {"none", "done"} /\ at["send"] \in {"none", "done"}
  /\ Goes("app", "gone")
  /\ UNCHANGED <<socketVars, asked, bound, outgoing, netVars, inVars, crashed>>

----------------------------------------------------------------------------
(* The listen and the send thread. *)

\* The condition of both threads' loops.
Loop(t) ==
  /\ Is(t, "loop")
  /\ Goes(t, IF ~ valid \/ asked THEN "done"
             ELSE IF t = "listen" THEN "receive" ELSE "drain")
  /\ UNCHANGED <<socketVars, asked, bound, outgoing, netVars, inVars, crashed>>

\* recvfrom fails at once on a handle that is gone, and blocks otherwise.
ReceiveFrom ==
  /\ Is("listen", "receive") /\ Usable
  /\ Goes("listen", "blocked")
  /\ UNCHANGED <<socketVars, asked, bound, outgoing, netVars, inVars, crashed>>

\* An error closes the socket.  It leaves the address blank, which is not the
\* server's, so the loop begins anew and Stop is never called.
ReceiveFails ==
  /\ \/ Is("listen", "receive") /\ ~ Usable
     \/ Is("listen", "blocked") /\ closes > 0
  /\ BeginClose("listen")
  /\ Goes("listen", "loop")
  /\ UNCHANGED <<valid, info, closes, frees, asked, bound, outgoing, netVars, inVars,
                 crashed>>

\* Received makes none, one or more messages ready: a datagram may be one sent
\* again, or close a gap.
Received ==
  /\ Is("listen", "blocked") /\ Usable /\ toClient > 0
  /\ toClient' = toClient - 1
  /\ released' \in released .. answers
  /\ Goes("listen", "process")
  /\ UNCHANGED <<socketVars, asked, bound, outgoing, toServer, answers, known, taken,
                 heard, crashed>>

\* ProcessIncomingPacket pops all that is ready, and calls the delegate for each
\* if there is one.
ProcessIncomingPacket ==
  /\ Is("listen", "process")
  /\ IF taken = released
     THEN Goes("listen", "loop") /\ UNCHANGED <<taken, heard>>
     ELSE /\ taken' = taken + 1
          /\ heard' = IF bound THEN heard + 1 ELSE heard
          /\ UNCHANGED at
  /\ UNCHANGED <<socketVars, asked, bound, outgoing, netVars, released, crashed>>

\* Slip: the queue is not tested.
PopReadyOutgoingSlip ==
  /\ Is("send", "drain")
  /\ Goes("send", "sendto") /\ outgoing' = outgoing - 1
  /\ UNCHANGED <<socketVars, asked, bound, netVars, inVars, crashed>>

PopReadyOutgoing ==
  /\ Is("send", "drain")
  /\ IF outgoing = 0
     THEN Goes("send", "loop") /\ UNCHANGED outgoing
     ELSE Goes("send", "sendto") /\ outgoing' = outgoing - 1
  /\ UNCHANGED <<socketVars, asked, bound, netVars, inVars, crashed>>

SendPacket ==
  /\ Is("send", "sendto")
  /\ SendTo("send", "drain")
  /\ UNCHANGED <<asked, bound, outgoing, inVars>>

----------------------------------------------------------------------------
(* The network, and the server at its other end. *)

Arrives ==
  /\ toServer > 0
  /\ toServer' = toServer - 1
  /\ known' = TRUE
  /\ UNCHANGED <<socketVars, at, asked, bound, outgoing, toClient, answers, inVars,
                 crashed>>

Lose ==
  /\ "loss" \in Faults
  /\ \/ toServer > 0 /\ toServer' = toServer - 1 /\ UNCHANGED toClient
     \/ toClient > 0 /\ toClient' = toClient - 1 /\ UNCHANGED toServer
  /\ UNCHANGED <<socketVars, at, asked, bound, outgoing, answers, known, inVars, crashed>>

\* The server sends a message for the first time, or one of them again.
Answer ==
  /\ known /\ toClient < MaxInFlight
  /\ toClient' = toClient + 1
  /\ answers' \in {answers, answers + 1} \cap (1 .. MaxAnswers)
  /\ UNCHANGED <<socketVars, at, asked, bound, outgoing, toServer, known, inVars, crashed>>

\* recvfrom reports an error of its own, such as a peer that is gone.
ReceiveError ==
  /\ "error" \in Faults /\ Is("listen", "blocked") /\ Usable
  /\ BeginClose("listen")
  /\ Goes("listen", "loop")
  /\ UNCHANGED <<valid, info, closes, frees, asked, bound, outgoing, netVars, inVars,
                 crashed>>

----------------------------------------------------------------------------

Closing(t) ==
  /\ CloseStep(t)
  /\ UNCHANGED <<at, asked, bound, outgoing, netVars, inVars, crashed>>

StartStep ==
  Start \/ SendPing \/ StartSendThread \/ StartListenThread \/ BindDataReceived

StopStep == StopCloses \/ RequestStop \/ Join \/ Closing("app")

ListenStep ==
  \/ Loop("listen") \/ ReceiveFrom \/ ReceiveFails \/ Received
  \/ ProcessIncomingPacket \/ Closing("listen")

SendStep == Loop("send") \/ PopReadyOutgoing \/ SendPacket \/ Closing("send")

NetworkStep == Arrives \/ Lose \/ Answer \/ ReceiveError

Next ==
  /\ ~ crashed
  /\ StartStep \/ Send \/ Leave \/ StopStep \/ ListenStep \/ SendStep \/ NetworkStep

Spec == Init /\ [][Next]_vars
==========================================================================
