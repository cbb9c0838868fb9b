------------------------- MODULE ServerInvariants -------------------------
(***************************************************************************)
(* Why the properties of ServerProperties hold: where the threads stand    *)
(* with the peers, and how far the messages of a source have come on their *)
(* way to a client.                                                        *)
(***************************************************************************)
EXTENDS ServerProperties

\* The Connections that have been made.
Made == {c \in Conn : c[2] <= lives[c[1]]}

\* The map has been cleared.
Cleared == at["app"] \in {"stopped", "destroyed"}

\* Until the map is cleared an address has at most one Connection, and at most
\* one more is made afterwards; the socket is closed long before.
LifeInv ==
  /\ \A a \in Client :
       /\ peers[a] \in {0, lives[a]}
       /\ peers[a] = 0 => lives[a] <= 1
       /\ ~ Cleared => peers[a] = lives[a] /\ lives[a] <= 1
  /\ open => at["app"] \notin {"ask", "clear", "stopped", "destroyed"}

\* A thread works on Connections that have been made, and no other one has been
\* touched.  AddPeer is called for an address that is no peer.
WorkInv ==
  /\ at["listen"] = "add" => peers[conn["listen"][1]] = 0
  /\ at["listen"] \in {"received", "copy", "cast", "pop"} => conn["listen"] \in Made
  /\ at["send"] = "drain" => conn["send"] \in Made
  /\ \A t \in Thread : visit[t] \subseteq Made /\ audience[t] \subseteq Made
  /\ \A c \in Conn \ Made : sent[c] = <<>> /\ queue[c] = <<>> /\ taken[c] = 0

\* What a thread broadcasts: the listen thread a greeting, or the message it took
\* last from its Connection; the application the line typed last.
LineInv ==
  /\ \A t \in {"listen", "app"} : at[t] # "cast" => audience[t] = {}
  /\ at["listen"] \notin {"copy", "cast"} => line["listen"] = NoLine
  /\ line["listen"] # NoLine =>
       Is(line["listen"], conn["listen"][1], taken[conn["listen"]])
  /\ at["app"] \in {"copy", "cast"} =>
       Is(line["app"], "operator", typed) /\ typed > 0

\* Nothing of a client is on its way back to it.
EchoInv ==
  \A c \in Conn :
    /\ \A i \in DOMAIN queue[c] : queue[c][i].from # c[1]
    /\ \A t \in {"listen", "app"} : c \in audience[t] => line[t].from # c[1]

\* The broadcast of thread t has yet to come to c.
Pending(t, c) ==
  \/ at[t] = "copy"
  \/ at[t] = "cast" /\ c \in audience[t]

\* The last message of s, and the last line of the operator, that has been
\* scheduled for c.
LastOf(s, c) ==
  IF Pending("listen", c) /\ line["listen"].from = s THEN Taken(s) - 1 ELSE Taken(s)
LastLine(c) == IF Pending("app", c) THEN typed - 1 ELSE typed

\* All that has been scheduled for c has been sent or is in its queue.
Relayed(c) ==
  /\ \A s \in Client \ {c[1]} :
       /\ since[c][s] <= LastOf(s, c)
       /\ HoldsRun(sent[c] \o queue[c], s, since[c][s] + 1, LastOf(s, c))
  /\ \E first \in 1 .. LastLine(c) + 1 :
       HoldsRun(sent[c] \o queue[c], "operator", first, LastLine(c))

\* So it is for every peer until the socket is closed and what is queued lost.
RelayInv == open => \A c \in Peers : Relayed(c)

\* Whatever the threads are doing, and whoever joined when, each source has one
\* unbroken run of messages on its way to each client.
ServerInv ==
  /\ LifeInv /\ WorkInv /\ LineInv /\ EchoInv /\ RelayInv
  /\ NoEcho /\ HeardInOrder /\ OperatorInOrder
==========================================================================
