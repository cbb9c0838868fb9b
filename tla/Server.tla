------------------------------ MODULE Server ------------------------------
(***************************************************************************)
(* A server (Server.cpp) that runs the chat application (Chat.cpp): every  *)
(* message of a client is relayed to the other clients, a new client is    *)
(* announced to all, and the operator's lines go to all.                   *)
(*                                                                         *)
(* Three threads share the map of peers and the socket: the listen thread, *)
(* the send thread, and the application thread, which broadcasts and       *)
(* stops the server.  A Connection is what Connection.tla shows it to be,  *)
(* an ordered stream (ReliableStream): a datagram makes some next messages *)
(* of its client ready, and what is scheduled stays in order.              *)
(***************************************************************************)
EXTENDS Integers, Sequences, FiniteSets

CONSTANTS
  Client,    \* the addresses clients send from
  MaxSent,   \* bound: messages each client sends
  MaxLines,  \* bound: lines the operator types
  Failures,  \* calls on the open socket that may fail: "receive", "send"
  Ends       \* "stop", "destroy", or "never": what the application does at last

ASSUME ServerAssumption ==
  /\ Client # {} /\ Client \cap {"operator", "greeting"} = {}
  /\ MaxSent \in [Client -> Nat] /\ MaxLines \in Nat
  /\ Failures \subseteq {"receive", "send"}
  /\ Ends \in {"stop", "destroy", "never"}

Thread == {"listen", "send", "app"}

\* The Connection objects made for an address: the map is emptied at most once,
\* so a second one is the last.
Life == 1 .. 2
Conn == Client \X Life

VARIABLES
  open,      \* the socket is valid
  asked,     \* the threads have been asked to stop
  peers,     \* the map of peers: which Connection an address has, 0 for none
  lives,     \* Connections made for an address so far
  since,     \* history: messages of each client taken when a Connection was made
  released,  \* messages of its client that a Connection has made ready
  taken,     \* those the listen thread has popped
  queue,     \* outgoing.readyPackets of a Connection
  sent,      \* history: what went out to its client
  at,        \* where a thread is
  conn,      \* the Connection a thread works on
  visit,     \* the Connections the loop of a thread has yet to come to
  audience,  \* those the Broadcast of a thread has yet to schedule for
  line,      \* the message a thread broadcasts
  typed,     \* lines of the operator
  crashed    \* an iterator was used after its map was cleared

threadVars == <<at, conn, visit, audience, line>>
connVars   == <<since, released, taken, queue, sent>>
vars       == <<open, asked, peers, lives, typed, crashed, threadVars, connVars>>

Message == [from : Client \cup {"operator", "greeting"}, n : Nat]

Point == {"loop", "receive", "find", "add", "received", "process", "pop",
          "peers", "visit", "drain", "done",
          "idle", "copy", "cast", "ask", "clear", "stopped", "destroyed"}

ServerTypeOK ==
  /\ open \in BOOLEAN /\ asked \in BOOLEAN /\ crashed \in BOOLEAN
  /\ peers \in [Client -> {0} \cup Life] /\ lives \in [Client -> {0} \cup Life]
  /\ released \in [Conn -> Nat] /\ taken \in [Conn -> Nat]
  /\ since \in [Conn -> [Client -> Nat]]
  /\ queue \in [Conn -> Seq(Message)]    /\ sent \in [Conn -> Seq(Message)]
  /\ at \in [Thread -> Point]            /\ conn \in [Thread -> Client \X (Life \cup {0})]
  /\ visit \in [Thread -> SUBSET Conn]   /\ audience \in [Thread -> SUBSET Conn]
  /\ line \in [Thread -> Message]        /\ typed \in 0 .. MaxLines

\* What a thread holds outside of its loops.
NoConn == <<CHOOSE a \in Client : TRUE, 0>>
NoLine == [from |-> "greeting", n |-> 0]

\* After Start.
Init ==
  /\ open = TRUE /\ asked = FALSE /\ crashed = FALSE /\ typed = 0
  /\ peers = [a \in Client |-> 0] /\ lives = [a \in Client |-> 0]
  /\ released = [c \in Conn |-> 0] /\ taken = [c \in Conn |-> 0]
  /\ since = [c \in Conn |-> [s \in Client |-> 0]]
  /\ queue = [c \in Conn |-> <<>>] /\ sent = [c \in Conn |-> <<>>]
  /\ at = [t \in Thread |-> IF t = "app" THEN "idle" ELSE "loop"]
  /\ conn = [t \in Thread |-> NoConn]
  /\ visit = [t \in Thread |-> {}] /\ audience = [t \in Thread |-> {}]
  /\ line = [t \in Thread |-> NoLine]

\* GetPeers, under peersMutex.
Peers == {c \in Conn : peers[c[1]] = c[2]}

\* Messages of a client taken since it is a peer.
Taken(a) == IF peers[a] = 0 THEN 0 ELSE taken[<<a, peers[a]>>]

Goes(t, point) == at' = [at EXCEPT ![t] = point]

\* The condition of both threads' loops.
Loop(t) ==
  /\ at[t] = "loop"
  /\ Goes(t, IF ~ open \/ asked THEN "done"
             ELSE IF t = "listen" THEN "receive" ELSE "peers")
  /\ UNCHANGED <<open, asked, peers, lives, typed, crashed, conn, visit, audience, line, connVars>>

----------------------------------------------------------------------------
(* Broadcast: a copy of the peers, then Schedule for each but those excepted. *)

\* Slip: a relay does not leave its source out.
ExceptSlip(m) == {}

\* DataReceived excepts the source, Send nobody.
Except(m) == {m.from} \cap Client

\* Slip: the loop ends at the first peer excepted.
CopySlip(t) ==
  LET all == {c \in Peers : c[1] \notin Except(line[t])}
  IN  IF all = Peers THEN {all} ELSE SUBSET all

Copy(t) == {{c \in Peers : c[1] \notin Except(line[t])}}

GetPeers(t) ==
  /\ at[t] = "copy"
  /\ \E copy \in Copy(t) : audience' = [audience EXCEPT ![t] = copy]
  /\ Goes(t, "cast")
  /\ UNCHANGED <<open, asked, peers, lives, typed, crashed, conn, visit, line, connVars>>

\* Slip: the packet goes to the front of the queue.
QueuedSlip(c, m) == <<m>> \o queue[c]

Queued(c, m) == Append(queue[c], m)

Schedule(t) ==
  /\ at[t] = "cast"
  /\ \E c \in audience[t] :
       /\ queue' = [queue EXCEPT ![c] = Queued(c, line[t])]
       /\ audience' = [audience EXCEPT ![t] = @ \ {c}]
  /\ UNCHANGED <<open, asked, peers, lives, typed, crashed, at, conn, visit, line,
                 since, released, taken, sent>>

\* Slip: one packet of each peer is popped, "if" for "while".
CallerSlip(t) == IF t = "app" THEN "idle"
                 ELSE IF line[t].from = "greeting" THEN "received" ELSE "process"

\* Where Broadcast was called: the main loop, AddPeer or ProcessReceivedPackets.
Caller(t) == IF t = "app" THEN "idle"
             ELSE IF line[t].from = "greeting" THEN "received" ELSE "pop"

Broadcasted(t) ==
  /\ at[t] = "cast" /\ audience[t] = {}
  /\ Goes(t, Caller(t))
  /\ line' = [line EXCEPT ![t] = NoLine]
  /\ UNCHANGED <<open, asked, peers, lives, typed, crashed, conn, visit, audience, connVars>>

----------------------------------------------------------------------------
(* The listen thread. *)

Arrives(a) ==
  /\ at["listen"] = "receive" /\ open
  /\ conn' = [conn EXCEPT !["listen"] = <<a, 0>>]
  /\ Goes("listen", "find")
  /\ UNCHANGED <<open, asked, peers, lives, typed, crashed, visit, audience, line, connVars>>

\* ReceiveFrom returns an error, and closes the socket if it is not closed yet.
ReceiveFails ==
  /\ at["listen"] = "receive"
  /\ open' = FALSE
  /\ Goes("listen", "loop")
  /\ UNCHANGED <<asked, peers, lives, typed, crashed, conn, visit, audience, line, connVars>>

\* Slip: the address is not looked up.
KnownSlip(a) == FALSE

Known(a) == peers[a] # 0

TryGetPeer ==
  LET a == conn["listen"][1]
  IN  /\ at["listen"] = "find"
      /\ conn' = [conn EXCEPT !["listen"] = <<a, peers[a]>>]
      /\ Goes("listen", IF Known(a) THEN "received" ELSE "add")
      /\ UNCHANGED <<open, asked, peers, lives, typed, crashed, visit, audience, line, connVars>>

\* No other thread adds peers, so the address is not there yet.  PeerConnected
\* announces the peer, with a line that has no number.
AddPeer ==
  LET a == conn["listen"][1]
  IN  /\ at["listen"] = "add"
      /\ lives' = [lives EXCEPT ![a] = @ + 1]
      /\ peers' = [peers EXCEPT ![a] = lives[a] + 1]
      /\ conn'  = [conn EXCEPT !["listen"] = <<a, lives[a] + 1>>]
      /\ since' = [since EXCEPT ![<<a, lives[a] + 1>>] = [s \in Client |-> Taken(s)]]
      /\ Goes("listen", "copy")
      /\ UNCHANGED <<open, asked, typed, crashed, visit, audience, line,
                     released, taken, queue, sent>>

\* Received makes none, one or more messages ready; the loop of
\* ProcessReceivedPackets begins.
Received ==
  LET c == conn["listen"]
  IN  /\ at["listen"] = "received"
      /\ \E n \in released[c] .. MaxSent[c[1]] : released' = [released EXCEPT ![c] = n]
      /\ visit' = [visit EXCEPT !["listen"] = Peers]
      /\ conn'  = [conn EXCEPT !["listen"] = NoConn]
      /\ Goes("listen", "process")
      /\ UNCHANGED <<open, asked, peers, lives, typed, crashed, audience, line,
                     since, taken, queue, sent>>

\* The iterator moves on.
ProcessPeer ==
  /\ at["listen"] = "process"
  /\ \/ /\ visit["listen"] = {}
        /\ Goes("listen", "loop")
        /\ UNCHANGED <<conn, visit>>
     \/ \E c \in visit["listen"] :
          /\ conn'  = [conn EXCEPT !["listen"] = c]
          /\ visit' = [visit EXCEPT !["listen"] = @ \ {c}]
          /\ Goes("listen", "pop")
  /\ UNCHANGED <<open, asked, peers, lives, typed, crashed, audience, line, connVars>>

\* PopReadyIncomingPacket until there is none.  A packet popped goes to
\* DataReceived, which relays it.
PopReadyIncoming ==
  LET c == conn["listen"]
  IN  /\ at["listen"] = "pop"
      /\ IF taken[c] = released[c]
         THEN /\ Goes("listen", "process")
              /\ conn' = [conn EXCEPT !["listen"] = NoConn]
              /\ UNCHANGED <<taken, line>>
         ELSE /\ Goes("listen", "copy")
              /\ taken' = [taken EXCEPT ![c] = @ + 1]
              /\ line'  = [line EXCEPT !["listen"] = [from |-> c[1], n |-> taken[c] + 1]]
              /\ UNCHANGED conn
      /\ UNCHANGED <<open, asked, peers, lives, typed, crashed, visit, audience,
                     since, released, queue, sent>>

----------------------------------------------------------------------------
(* The send thread. *)

CopyPeers ==
  /\ at["send"] = "peers"
  /\ visit' = [visit EXCEPT !["send"] = Peers]
  /\ Goes("send", "visit")
  /\ UNCHANGED <<open, asked, peers, lives, typed, crashed, audience, conn, line, connVars>>

NextPeer ==
  /\ at["send"] = "visit"
  /\ \/ /\ visit["send"] = {}
        /\ Goes("send", "loop")
        /\ UNCHANGED <<conn, visit>>
     \/ \E c \in visit["send"] :
          /\ conn'  = [conn EXCEPT !["send"] = c]
          /\ visit' = [visit EXCEPT !["send"] = @ \ {c}]
          /\ Goes("send", "drain")
  /\ UNCHANGED <<open, asked, peers, lives, typed, crashed, audience, line, connVars>>

\* Slip: a failed SendTo leaves the socket open.
AfterSendFailsSlip == open

AfterSendFails == FALSE

\* PopReadyOutgoingPacket and SendTo.  A packet whose SendTo fails is gone; the
\* loop goes on with the next one.
SendTo ==
  LET c == conn["send"]
  IN  /\ at["send"] = "drain" /\ queue[c] # <<>>
      /\ queue' = [queue EXCEPT ![c] = Tail(@)]
      /\ \/ /\ open
            /\ sent' = [sent EXCEPT ![c] = Append(@, Head(queue[c]))]
            /\ UNCHANGED open
         \/ /\ open => "send" \in Failures
            /\ open' = AfterSendFails
            /\ UNCHANGED sent
      /\ UNCHANGED <<asked, peers, lives, typed, crashed, threadVars,
                     since, released, taken>>

Drained ==
  /\ at["send"] = "drain" /\ queue[conn["send"]] = <<>>
  /\ Goes("send", "visit")
  /\ conn' = [conn EXCEPT !["send"] = NoConn]
  /\ UNCHANGED <<open, asked, peers, lives, typed, crashed, visit, audience, line, connVars>>

----------------------------------------------------------------------------
(* The application thread. *)

\* IsRunning was asked before the line was read, so the socket may be closed.
TypeLine ==
  /\ at["app"] = "idle" /\ typed < MaxLines
  /\ typed' = typed + 1
  /\ line'  = [line EXCEPT !["app"] = [from |-> "operator", n |-> typed + 1]]
  /\ Goes("app", "copy")
  /\ UNCHANGED <<open, asked, peers, lives, crashed, conn, visit, audience, connVars>>

\* Slip: Stop leaves the socket open.
AfterCloseSlip == open

AfterClose == FALSE

\* Stop closes the socket, ...
Close ==
  /\ at["app"] = "idle" /\ Ends # "never"
  /\ open' = AfterClose
  /\ Goes("app", "ask")
  /\ UNCHANGED <<asked, peers, lives, typed, crashed, conn, visit, audience, line, connVars>>

\* ... asks the threads to stop, ...
RequestStop ==
  /\ at["app"] = "ask"
  /\ asked' = TRUE
  /\ Goes("app", "clear")
  /\ UNCHANGED <<open, peers, lives, typed, crashed, conn, visit, audience, line, connVars>>

\* A thread that is in the loop of ProcessReceivedPackets, or about to look at the
\* map under peersMutex: GetPeers iterates over it, too.
Iterating ==
  \/ at["listen"] \in {"find", "add", "copy", "process", "pop"}
  \/ at["listen"] = "cast" /\ line["listen"].from \in Client
  \/ at["send"] = "peers"

\* ... and clears the map, without its mutex, and so under any of these.  The
\* iterator of ProcessReceivedPackets may still find some of the entries; the others
\* find the map as it is before or after; each may crash.
ClearPeers ==
  /\ at["app"] = "clear"
  /\ peers' = [a \in Client |-> 0]
  /\ \/ \E rest \in SUBSET visit["listen"] :
          /\ visit' = [visit EXCEPT !["listen"] = rest]
          /\ UNCHANGED crashed
     \/ Iterating /\ crashed' = TRUE /\ UNCHANGED visit
  /\ Goes("app", "stopped")
  /\ UNCHANGED <<open, asked, lives, typed, audience, conn, line, connVars>>

\* A thread that will look at the map or call a delegate: with the socket closed
\* the other points lead to "done".
InUse == at["listen"] \notin {"loop", "receive", "done"} \/ at["send"] = "peers"

\* ~Server, after Stop: the delegates, the mutex and the map end first, then the
\* threads are joined.  A thread that still uses them may find them as they
\* were, or crash.
DestroyMembers ==
  /\ at["app"] = "stopped" /\ Ends = "destroy"
  /\ crashed' \in {FALSE, InUse}
  /\ Goes("app", "destroyed")
  /\ UNCHANGED <<open, asked, peers, lives, typed, conn, visit, audience, line, connVars>>

----------------------------------------------------------------------------

ListenStep ==
  \/ Loop("listen") \/ (~ open /\ ReceiveFails) \/ TryGetPeer \/ AddPeer \/ Received
  \/ ProcessPeer \/ PopReadyIncoming
  \/ GetPeers("listen") \/ Schedule("listen") \/ Broadcasted("listen")

SendStep == Loop("send") \/ CopyPeers \/ NextPeer \/ SendTo \/ Drained

AppStep ==
  \/ TypeLine \/ Close \/ RequestStop \/ ClearPeers \/ DestroyMembers
  \/ GetPeers("app") \/ Schedule("app") \/ Broadcasted("app")

\* What the network does to the listen thread.
NetworkStep ==
  \/ \E a \in Client : Arrives(a)
  \/ open /\ "receive" \in Failures /\ ReceiveFails

Next ==
  /\ ~ crashed
  /\ ListenStep \/ SendStep \/ AppStep \/ NetworkStep

Spec == Init /\ [][Next]_vars
==========================================================================
