------------------------- MODULE ServerProperties -------------------------
(* What the server promises its clients, and the fairness of its threads. *)
EXTENDS Server

\* A message from the source with that number.
Is(m, source, n) == m.from = source /\ m.n = n

\* The messages of the source are in order in q, each once, beginning with the
\* number first and with none left out before the last one.
InOrderFrom(q, source, first) ==
  \A i \in DOMAIN q : q[i].from = source =>
    /\ q[i].n >= first
    /\ \A j \in 1 .. i - 1 : q[j].from = source => q[j].n < q[i].n
    /\ \A n \in first .. q[i].n - 1 : \E j \in 1 .. i - 1 : Is(q[j], source, n)

\* And the last one has the number last.
HoldsRun(q, source, first, last) ==
  /\ InOrderFrom(q, source, first)
  /\ \A i \in DOMAIN q : q[i].from = source => q[i].n <= last
  /\ \A n \in first .. last : \E i \in DOMAIN q : Is(q[i], source, n)

\* "Guaranteed to arrive, and ordered" (Readme.md:7) from client to client:
\* whoever joins when, a client is sent the messages of another one taken since
\* it joined, each once, in order, with none left out before the last one sent.
HeardInOrder ==
  \A c \in Conn : \A s \in Client \ {c[1]} :
    InOrderFrom(sent[c], s, since[c][s] + 1)

\* The same for the operator's lines, which another thread broadcasts.
OperatorInOrder ==
  \A c \in Conn : \E first \in 1 .. MaxLines + 1 :
    InOrderFrom(sent[c], "operator", first)

\* No client hears its own messages back (Chat.cpp:138).
NoEcho == \A c \in Conn : \A i \in DOMAIN sent[c] : sent[c][i].from # c[1]

\* Relays pass nobody over: between two datagrams every message taken since a
\* client joined has been sent to it or is in its queue, while the socket is open.
NobodyPassedOver ==
  open /\ at["listen"] \in {"loop", "receive"} =>
    \A c \in Peers : \A s \in Client \ {c[1]} :
      HoldsRun(sent[c] \o queue[c], s, since[c][s] + 1, Taken(s))

----------------------------------------------------------------------------
(* Progress: the scheduler lets both threads, and Stop once begun, go on. *)

Fairness ==
  /\ WF_vars(~ crashed /\ ListenStep) /\ WF_vars(~ crashed /\ SendStep)
  /\ WF_vars(~ crashed /\ RequestStop)

FairSpec == Spec /\ Fairness

\* A message that the server has received from one client goes out to every
\* other one that is a peer by then, unless the socket is closed before.
EveryoneHears ==
  \A s \in Client : \A c \in (Client \ {s}) \X {1} : \A n \in 1 .. MaxSent[s] :
    (c \in Peers /\ taken[<<s, 1>>] < n /\ released[<<s, 1>>] >= n)
      ~> (~ open \/ \E i \in DOMAIN sent[c] : sent[c][i] = [from |-> s, n |-> n])

\* After Stop, or an error of the socket, both threads end: none is left waiting
\* for a datagram, or draining queues.
ThreadsEnd ==
  (~ open \/ asked) ~> (crashed \/ (at["listen"] = "done" /\ at["send"] = "done"))
==========================================================================
