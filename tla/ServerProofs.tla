--------------------------- MODULE ServerProofs ---------------------------
(***************************************************************************)
(* The server relays faithfully: ServerInv is an invariant for any number  *)
(* of clients, messages and lines, whichever calls fail and however the    *)
(* application ends, and with it the properties of ServerProperties that   *)
(* are not about progress.                                                 *)
(***************************************************************************)
EXTENDS ServerInvariants, SequenceTheorems, TLAPS

----------------------------------------------------------------------------
(* Runs of messages in what is sent and queued. *)

\* What is scheduled comes after all that is queued.
LEMMA ScheduledLast ==
  ASSUME NEW p \in Seq(Message), NEW q \in Seq(Message), NEW m \in Message
  PROVE  p \o Append(q, m) = Append(p \o q, m)
<1>1. <<m>> \in Seq(Message)
  OBVIOUS
<1>2. /\ p \o q \in Seq(Message) /\ Append(q, m) = q \o <<m>>
      /\ Append(p \o q, m) = (p \o q) \o <<m>>
  BY ConcatProperties, AppendIsConcat
<1>3. QED
  BY <1>1, <1>2, ConcatAssociative

\* What the send thread pops goes to the end of what is sent.
LEMMA SentNext ==
  ASSUME NEW p \in Seq(Message), NEW q \in Seq(Message), q # <<>>
  PROVE  /\ Head(q) \in Message /\ Tail(q) \in Seq(Message)
         /\ Append(p, Head(q)) \in Seq(Message)
         /\ Append(p, Head(q)) \o Tail(q) = p \o q
<1>1. Head(q) \in Message /\ Tail(q) \in Seq(Message) /\ <<Head(q)>> \in Seq(Message)
  BY HeadTailProperties
<1>2. q = <<Head(q)>> \o Tail(q)
  BY <1>1, ConcatProperties, HeadTailProperties
<1>3. Append(p, Head(q)) = p \o <<Head(q)>> /\ Append(p, Head(q)) \in Seq(Message)
  BY <1>1, AppendIsConcat, AppendProperties
<1>4. (p \o <<Head(q)>>) \o Tail(q) = p \o (<<Head(q)>> \o Tail(q))
  BY <1>1, ConcatAssociative
<1>5. QED
  BY <1>1, <1>2, <1>3, <1>4

\* What is in order is in order up to any of its messages.
LEMMA PrefixInOrder ==
  ASSUME NEW p \in Seq(Message), NEW q \in Seq(Message), NEW s,
         NEW first \in Nat, InOrderFrom(p \o q, s, first)
  PROVE  InOrderFrom(p, s, first)
<1>1. /\ Len(p) \in Nat /\ Len(q) \in Nat /\ DOMAIN p = 1 .. Len(p)
      /\ p \o q \in Seq(Message) /\ Len(p \o q) = Len(p) + Len(q)
      /\ \A i \in 1 .. Len(p) : (p \o q)[i] = p[i]
  BY ConcatProperties, LenProperties
<1>2. DOMAIN (p \o q) = 1 .. Len(p) + Len(q)
  BY <1>1, LenProperties
<1>3. ASSUME NEW i \in DOMAIN p
      PROVE  /\ i \in DOMAIN (p \o q) /\ (p \o q)[i] = p[i]
             /\ \A j \in 1 .. i - 1 : (p \o q)[j] = p[j]
  BY <1>1, <1>2
<1>4. QED
  BY <1>3 DEF InOrderFrom, Is

\* A run goes on with the next message of its source.
LEMMA RunGoesOn ==
  ASSUME NEW q \in Seq(Message), NEW m \in Message,
         NEW first \in Nat, NEW last \in Nat, first <= last + 1,
         HoldsRun(q, m.from, first, last), m.n = last + 1
  PROVE  HoldsRun(Append(q, m), m.from, first, last + 1)
<1> DEFINE r == Append(q, m)
<1>1. /\ Len(q) \in Nat /\ DOMAIN q = 1 .. Len(q) /\ r \in Seq(Message)
      /\ Len(r) = Len(q) + 1 /\ r[Len(q) + 1] = m
      /\ \A i \in 1 .. Len(q) : r[i] = q[i] /\ q[i] \in Message
  BY AppendProperties, LenProperties, ElementOfSeq
<1>2. DOMAIN r = 1 .. Len(q) + 1
  BY <1>1, LenProperties
<1>3. /\ InOrderFrom(q, m.from, first)
      /\ \A i \in DOMAIN q : q[i].from = m.from => q[i].n <= last
      /\ \A n \in first .. last : \E i \in DOMAIN q : Is(q[i], m.from, n)
  BY DEF HoldsRun
<1>4. \A i \in 1 .. Len(q) : q[i].n \in Nat
  BY <1>1 DEF Message
<1> HIDE DEF r
<1>5. InOrderFrom(r, m.from, first)
  <2>1. ASSUME NEW i \in 1 .. Len(q), r[i].from = m.from
        PROVE  /\ r[i].n >= first
               /\ \A j \in 1 .. i - 1 : r[j].from = m.from => r[j].n < r[i].n
               /\ \A n \in first .. r[i].n - 1 : \E j \in 1 .. i - 1 : Is(r[j], m.from, n)
    <3>1. r[i] = q[i] /\ \A j \in 1 .. i - 1 : r[j] = q[j]
      BY <1>1
    <3>2. i \in DOMAIN q /\ q[i].from = m.from
      BY <1>1, <2>1, <3>1
    <3>3. /\ q[i].n >= first
          /\ \A j \in 1 .. i - 1 : q[j].from = m.from => q[j].n < q[i].n
          /\ \A n \in first .. q[i].n - 1 : \E j \in 1 .. i - 1 : Is(q[j], m.from, n)
      BY <1>3, <3>2 DEF InOrderFrom
    <3>4. QED
      BY <3>1, <3>3 DEF Is
  <2>2. /\ m.n >= first
        /\ \A j \in 1 .. Len(q) : r[j].from = m.from => r[j].n < m.n
        /\ \A n \in first .. m.n - 1 : \E j \in 1 .. Len(q) : Is(r[j], m.from, n)
    <3>1. m.n \in Nat /\ m.n >= first /\ m.n - 1 = last
      OBVIOUS
    <3>2. ASSUME NEW j \in 1 .. Len(q)
          PROVE  /\ r[j] = q[j] /\ q[j].n \in Nat
                 /\ q[j].from = m.from => q[j].n <= last
      BY <1>1, <1>3, <1>4
    <3>3. \A j \in 1 .. Len(q) : r[j].from = m.from => r[j].n < m.n
      BY <3>1, <3>2
    <3>4. \A n \in first .. last : \E j \in 1 .. Len(q) : Is(r[j], m.from, n)
      BY <1>1, <1>3, <3>2 DEF Is
    <3>5. QED
      BY <3>1, <3>3, <3>4
  <2>3. Len(q) + 1 - 1 = Len(q)
    BY <1>1
  <2>4. QED
    BY <1>1, <1>2, <2>1, <2>2, <2>3, SMTT(30) DEF InOrderFrom
<1>6. \A i \in 1 .. Len(q) + 1 : r[i].from = m.from => r[i].n <= last + 1
  <2>1. ASSUME NEW i \in 1 .. Len(q), r[i].from = m.from
        PROVE  r[i].n <= last + 1
    <3>1. r[i] = q[i] /\ q[i].n \in Nat /\ i \in DOMAIN q
      BY <1>1, <1>4
    <3>2. QED
      BY <1>3, <2>1, <3>1
  <2>2. r[Len(q) + 1].n <= last + 1
    BY <1>1
  <2>3. QED
    BY <1>1, <2>1, <2>2
<1>7. ASSUME NEW n \in first .. last + 1
      PROVE  \E i \in 1 .. Len(q) + 1 : Is(r[i], m.from, n)
  <2>1. CASE n = last + 1
    BY <1>1, <2>1 DEF Is
  <2>2. CASE n # last + 1
    <3>1. n \in first .. last
      BY <2>2
    <3>2. PICK i \in DOMAIN q : Is(q[i], m.from, n)
      BY <1>3, <3>1 DEF Is
    <3>3. r[i] = q[i] /\ i \in 1 .. Len(q) + 1
      BY <1>1
    <3>4. QED
      BY <3>2, <3>3
  <2>3. QED
    BY <2>1, <2>2
<1>8. QED
  BY <1>2, <1>5, <1>6, <1>7 DEF HoldsRun, r

\* A message of another source changes nothing for a run.
LEMMA RunStays ==
  ASSUME NEW q \in Seq(Message), NEW m \in Message, NEW s, m.from # s,
         NEW first \in Nat, NEW last \in Nat, HoldsRun(q, s, first, last)
  PROVE  HoldsRun(Append(q, m), s, first, last)
<1> DEFINE r == Append(q, m)
<1>1. /\ Len(q) \in Nat /\ DOMAIN q = 1 .. Len(q) /\ r \in Seq(Message)
      /\ Len(r) = Len(q) + 1 /\ r[Len(q) + 1] = m
      /\ \A i \in 1 .. Len(q) : r[i] = q[i]
  BY AppendProperties, LenProperties
<1>2. DOMAIN r = 1 .. Len(q) + 1
  BY <1>1, LenProperties
<1>3. /\ InOrderFrom(q, s, first)
      /\ \A i \in DOMAIN q : q[i].from = s => q[i].n <= last
      /\ \A n \in first .. last : \E i \in DOMAIN q : Is(q[i], s, n)
  BY DEF HoldsRun
<1> HIDE DEF r
<1>4. ASSUME NEW i \in 1 .. Len(q) + 1, r[i].from = s
      PROVE  /\ i \in 1 .. Len(q) /\ r[i] = q[i]
             /\ \A j \in 1 .. i - 1 : r[j] = q[j]
  BY <1>1, <1>4
<1>5. InOrderFrom(r, s, first)
  BY <1>1, <1>2, <1>3, <1>4 DEF InOrderFrom
<1>6. \A i \in 1 .. Len(q) + 1 : r[i].from = s => r[i].n <= last
  BY <1>1, <1>3, <1>4
<1>7. \A n \in first .. last : \E i \in 1 .. Len(q) + 1 : Is(r[i], s, n)
  <2>1. ASSUME NEW n \in first .. last
        PROVE  \E i \in 1 .. Len(q) + 1 : Is(r[i], s, n)
    <3>1. PICK i \in DOMAIN q : Is(q[i], s, n)
      BY <1>3 DEF Is
    <3>2. r[i] = q[i] /\ i \in 1 .. Len(q) + 1
      BY <1>1
    <3>3. QED
      BY <3>1, <3>2
  <2>2. QED
    BY <2>1
<1>8. QED
  BY <1>2, <1>5, <1>6, <1>7 DEF HoldsRun, r

\* A client that has just joined has been sent nothing, and has missed nothing.
LEMMA RunBegins ==
  ASSUME NEW s, NEW last \in Nat
  PROVE  HoldsRun(<<>>, s, last + 1, last)
BY DEF HoldsRun, InOrderFrom

LEMMA NothingInOrder == ASSUME NEW s, NEW first PROVE InOrderFrom(<<>>, s, first)
BY DEF InOrderFrom

----------------------------------------------------------------------------
(* Steps, types, and the Connections that the threads work on. *)

\* The steps of Next, one for each operation.
LEMMA ServerSteps ==
  ASSUME Next
  PROVE  \/ \E t \in {"listen", "send"} : Loop(t)
         \/ \E t \in {"listen", "app"} : GetPeers(t) \/ Schedule(t) \/ Broadcasted(t)
         \/ \E a \in Client : Arrives(a)
         \/ ReceiveFails \/ TryGetPeer \/ AddPeer \/ Received
         \/ ProcessPeer \/ PopReadyIncoming
         \/ CopyPeers \/ NextPeer \/ SendTo \/ Drained
         \/ TypeLine \/ Close \/ RequestStop \/ ClearPeers \/ DestroyMembers
BY DEF Next, ListenStep, SendStep, AppStep, NetworkStep

LEMMA NoConnType == NoConn \in Client \X (Life \cup {0}) /\ NoLine \in Message
BY ServerAssumption DEF NoConn, NoLine, Life, Message

LEMMA ServerInitType == Init => ServerTypeOK
<1> SUFFICES ASSUME Init
             PROVE  ServerTypeOK
  OBVIOUS
<1>1. <<>> \in Seq(Message)
  BY EmptySeq
<1>2. \A c \in Conn : [s \in Client |-> 0] \in [Client -> Nat]
  OBVIOUS
<1>3. /\ sent \in [Conn -> Seq(Message)] /\ queue \in [Conn -> Seq(Message)]
      /\ released \in [Conn -> Nat] /\ taken \in [Conn -> Nat]
      /\ since \in [Conn -> [Client -> Nat]]
  BY <1>1, <1>2 DEF Init
<1>4. /\ at \in [Thread -> Point]
      /\ peers \in [Client -> {0} \cup Life] /\ lives \in [Client -> {0} \cup Life]
      /\ open \in BOOLEAN /\ asked \in BOOLEAN /\ crashed \in BOOLEAN
  BY DEF Init, Thread, Point
<1>5. /\ conn \in [Thread -> Client \X (Life \cup {0})] /\ line \in [Thread -> Message]
      /\ visit \in [Thread -> SUBSET Conn] /\ audience \in [Thread -> SUBSET Conn]
  BY NoConnType DEF Init
<1>6. typed \in 0 .. MaxLines
  BY ServerAssumption DEF Init
<1>7. QED
  BY <1>3, <1>4, <1>5, <1>6 DEF ServerTypeOK

\* A Connection that a thread holds, or comes to, is one.
LEMMA MadeIsConn ==
  ASSUME ServerTypeOK
  PROVE  /\ Made \subseteq Conn /\ Peers \subseteq Conn
         /\ \A c \in Conn : c[1] \in Client /\ c[2] \in Life /\ c = <<c[1], c[2]>>
         /\ \A t \in Thread : conn[t][1] \in Client /\ conn[t] \in Client \X (Life \cup {0})
         /\ Conn \subseteq Client \X (Life \cup {0})
BY DEF ServerTypeOK, Made, Peers, Conn

\* AddPeer finds the map without the address, as it was when it looked.
LEMMA AddedIsNew ==
  ASSUME ServerTypeOK, LifeInv, WorkInv, AddPeer
  PROVE  LET a == conn["listen"][1] IN
         /\ a \in Client /\ peers[a] = 0 /\ lives[a] \in {0, 1}
         /\ <<a, lives[a] + 1>> \in Conn \ Made
<1> DEFINE a == conn["listen"][1]
<1>1. a \in Client /\ lives[a] \in {0} \cup Life
  BY MadeIsConn DEF ServerTypeOK, Thread
<1>2. peers[a] = 0
  BY DEF AddPeer, WorkInv
<1>3. lives[a] \in {0, 1}
  BY <1>1, <1>2 DEF LifeInv, Life
<1>4. lives[a] + 1 \in Life /\ ~ lives[a] + 1 <= lives[a]
  BY <1>3 DEF Life
<1>5. QED
  BY <1>1, <1>2, <1>3, <1>4 DEF Conn, Made

LEMMA ServerTypeStep ==
  ASSUME ServerTypeOK, LifeInv, WorkInv, Next
  PROVE  ServerTypeOK'
<1>1. /\ open \in BOOLEAN /\ asked \in BOOLEAN /\ crashed \in BOOLEAN
      /\ peers \in [Client -> {0} \cup Life] /\ lives \in [Client -> {0} \cup Life]
      /\ released \in [Conn -> Nat] /\ taken \in [Conn -> Nat]
      /\ since \in [Conn -> [Client -> Nat]]
      /\ queue \in [Conn -> Seq(Message)]  /\ sent \in [Conn -> Seq(Message)]
      /\ at \in [Thread -> Point]          /\ conn \in [Thread -> Client \X (Life \cup {0})]
      /\ visit \in [Thread -> SUBSET Conn] /\ audience \in [Thread -> SUBSET Conn]
      /\ line \in [Thread -> Message]      /\ typed \in 0 .. MaxLines
  BY DEF ServerTypeOK
<1> USE DEF connVars, threadVars, Goes
<1>2. ASSUME NEW t \in {"listen", "send"}, Loop(t)
      PROVE  ServerTypeOK'
  BY <1>1, <1>2 DEF Loop, ServerTypeOK, Point, Thread
<1>3. ASSUME NEW t \in {"listen", "app"}, GetPeers(t)
      PROVE  ServerTypeOK'
  <2>1. PICK copy \in Copy(t) : audience' = [audience EXCEPT ![t] = copy]
    BY <1>3 DEF GetPeers
  <2>2. copy \subseteq Conn
    BY MadeIsConn DEF Copy
  <2>3. audience' \in [Thread -> SUBSET Conn]
    BY <1>1, <2>1, <2>2
  <2>4. at' \in [Thread -> Point]
    BY <1>1, <1>3 DEF GetPeers, Point
  <2>5. QED
    BY <1>1, <1>3, <2>3, <2>4 DEF GetPeers, ServerTypeOK
<1>4. ASSUME NEW t \in {"listen", "app"}, Schedule(t)
      PROVE  ServerTypeOK'
  <2>1. PICK c \in audience[t] :
          /\ queue' = [queue EXCEPT ![c] = Append(queue[c], line[t])]
          /\ audience' = [audience EXCEPT ![t] = @ \ {c}]
    BY <1>4 DEF Schedule, Queued
  <2>2. c \in Conn /\ line[t] \in Message /\ queue[c] \in Seq(Message)
    BY <1>1 DEF Thread
  <2>3. queue' \in [Conn -> Seq(Message)]
    BY <1>1, <2>1, <2>2, AppendProperties
  <2>4. audience' \in [Thread -> SUBSET Conn]
    BY <1>1, <2>1 DEF Thread
  <2>5. QED
    BY <1>1, <1>4, <2>3, <2>4 DEF Schedule, ServerTypeOK
<1>5. ASSUME NEW t \in {"listen", "app"}, Broadcasted(t)
      PROVE  ServerTypeOK'
  BY <1>1, <1>5, NoConnType DEF Broadcasted, Caller, ServerTypeOK, Point, Thread
<1>6. ASSUME NEW a \in Client, Arrives(a)
      PROVE  ServerTypeOK'
  BY <1>1, <1>6 DEF Arrives, ServerTypeOK, Point, Thread
<1>7. CASE ReceiveFails
  BY <1>1, <1>7 DEF ReceiveFails, ServerTypeOK, Point, Thread
<1>8. CASE TryGetPeer
  BY <1>1, <1>8, MadeIsConn DEF TryGetPeer, ServerTypeOK, Point, Thread
<1>9. CASE AddPeer
  BY <1>1, <1>9, MadeIsConn, AddedIsNew DEF AddPeer, Taken, ServerTypeOK, Point, Thread, Life, Conn
<1>10. CASE Received
  <2>1. PICK n \in released[conn["listen"]] .. MaxSent[conn["listen"][1]] :
          released' = [released EXCEPT ![conn["listen"]] = n]
    BY <1>10 DEF Received
  <2>2. conn["listen"] \in Conn /\ conn["listen"][1] \in Client
    BY <1>10, MadeIsConn DEF Received, WorkInv, Thread
  <2>3. n \in Nat
    BY <1>1, <2>2, ServerAssumption
  <2>4. released' \in [Conn -> Nat]
    BY <1>1, <2>1, <2>3
  <2>5. /\ visit' \in [Thread -> SUBSET Conn]
        /\ conn' \in [Thread -> Client \X (Life \cup {0})] /\ at' \in [Thread -> Point]
    BY <1>1, <1>10, MadeIsConn, NoConnType DEF Received, Point, Thread
  <2>6. QED
    BY <1>1, <1>10, <2>4, <2>5 DEF Received, ServerTypeOK
<1>11. CASE ProcessPeer
  <2>1. at' \in [Thread -> Point]
    BY <1>1, <1>11 DEF ProcessPeer, Point, Thread
  <2>2. visit' \in [Thread -> SUBSET Conn]
    BY <1>1, <1>11 DEF ProcessPeer, Thread
  <2>3. conn' \in [Thread -> Client \X (Life \cup {0})]
    <3>1. visit["listen"] \subseteq Client \X (Life \cup {0})
      BY <1>1, MadeIsConn DEF Thread
    <3>2. \/ conn' = conn
          \/ \E c \in visit["listen"] : conn' = [conn EXCEPT !["listen"] = c]
      BY <1>11 DEF ProcessPeer
    <3>3. QED
      BY <1>1, <3>1, <3>2
  <2>4. QED
    BY <1>1, <1>11, <2>1, <2>2, <2>3 DEF ProcessPeer, ServerTypeOK
<1>12. CASE PopReadyIncoming
  <2>1. conn["listen"] \in Conn /\ conn["listen"][1] \in Client
    BY <1>12, MadeIsConn DEF PopReadyIncoming, WorkInv, Thread
  <2>2. taken[conn["listen"]] + 1 \in Nat
    BY <1>1, <2>1
  <2>3. [from |-> conn["listen"][1], n |-> taken[conn["listen"]] + 1] \in Message
    BY <2>1, <2>2 DEF Message
  <2>4. taken' \in [Conn -> Nat] /\ line' \in [Thread -> Message]
    BY <1>1, <1>12, <2>2, <2>3 DEF PopReadyIncoming
  <2>5. conn' \in [Thread -> Client \X (Life \cup {0})]
    BY <1>1, <1>12, NoConnType DEF PopReadyIncoming
  <2>6. at' \in [Thread -> Point]
    BY <1>1, <1>12 DEF PopReadyIncoming, Point
  <2>7. QED
    BY <1>1, <1>12, <2>4, <2>5, <2>6 DEF PopReadyIncoming, ServerTypeOK
<1>13. CASE CopyPeers
  BY <1>1, <1>13, MadeIsConn DEF CopyPeers, ServerTypeOK, Point, Thread
<1>14. CASE NextPeer
  <2>1. at' \in [Thread -> Point]
    BY <1>1, <1>14 DEF NextPeer, Point, Thread
  <2>2. visit' \in [Thread -> SUBSET Conn]
    BY <1>1, <1>14 DEF NextPeer, Thread
  <2>3. conn' \in [Thread -> Client \X (Life \cup {0})]
    <3>1. visit["send"] \subseteq Client \X (Life \cup {0})
      BY <1>1, MadeIsConn DEF Thread
    <3>2. \/ conn' = conn
          \/ \E c \in visit["send"] : conn' = [conn EXCEPT !["send"] = c]
      BY <1>14 DEF NextPeer
    <3>3. QED
      BY <1>1, <3>1, <3>2
  <2>4. QED
    BY <1>1, <1>14, <2>1, <2>2, <2>3 DEF NextPeer, ServerTypeOK
<1>15. CASE SendTo
  <2> DEFINE c == conn["send"]
  <2>1. c \in Conn /\ queue[c] \in Seq(Message) /\ sent[c] \in Seq(Message) /\ queue[c] # <<>>
    BY <1>1, <1>15, MadeIsConn DEF SendTo, WorkInv
  <2>2. Tail(queue[c]) \in Seq(Message) /\ Append(sent[c], Head(queue[c])) \in Seq(Message)
    BY <2>1, SentNext
  <2>3. queue' \in [Conn -> Seq(Message)] /\ sent' \in [Conn -> Seq(Message)]
    BY <1>1, <1>15, <2>1, <2>2 DEF SendTo
  <2>4. QED
    BY <1>1, <1>15, <2>3 DEF SendTo, AfterSendFails, ServerTypeOK
<1>16. CASE Drained
  BY <1>1, <1>16, NoConnType DEF Drained, ServerTypeOK, Point, Thread
<1>17. CASE TypeLine
  <2>1. typed' \in 0 .. MaxLines /\ typed + 1 \in Nat
    BY <1>1, <1>17, ServerAssumption DEF TypeLine
  <2>2. [from |-> "operator", n |-> typed + 1] \in Message
    BY <2>1 DEF Message
  <2>3. line' \in [Thread -> Message] /\ at' \in [Thread -> Point]
    BY <1>1, <1>17, <2>2 DEF TypeLine, Point
  <2>4. QED
    BY <1>1, <1>17, <2>1, <2>3 DEF TypeLine, ServerTypeOK
<1>18. CASE Close \/ RequestStop \/ DestroyMembers
  <2>1. at' \in [Thread -> Point]
    BY <1>1, <1>18 DEF Close, RequestStop, DestroyMembers, Point
  <2>2. open' \in BOOLEAN /\ asked' \in BOOLEAN /\ crashed' \in BOOLEAN
    BY <1>1, <1>18 DEF Close, AfterClose, RequestStop, DestroyMembers, InUse
  <2>3. QED
    BY <1>1, <1>18, <2>1, <2>2 DEF Close, RequestStop, DestroyMembers, ServerTypeOK
<1>19. CASE ClearPeers
  <2>1. peers' \in [Client -> {0} \cup Life] /\ at' \in [Thread -> Point]
    BY <1>1, <1>19 DEF ClearPeers, Point
  <2>2. visit' \in [Thread -> SUBSET Conn]
    BY <1>1, <1>19 DEF ClearPeers, Thread
  <2>3. QED
    BY <1>1, <1>19, <2>1, <2>2 DEF ClearPeers, ServerTypeOK
<1>20. QED
  BY <1>2, <1>3, <1>4, <1>5, <1>6, <1>7, <1>8, <1>9, <1>10, <1>11, <1>12, <1>13,
     <1>14, <1>15, <1>16, <1>17, <1>18, <1>19, ServerSteps


\* The socket is never opened again, and Connections are made by AddPeer and
\* dropped by ClearPeers alone.
LEMMA PeersStay ==
  ASSUME ServerTypeOK, Next
  PROVE  /\ open' => open
         /\ AddPeer \/ UNCHANGED <<lives, since>>
         /\ AddPeer \/ ClearPeers \/ UNCHANGED peers
<1> USE DEF connVars, threadVars, Goes
<1>1. ASSUME NEW t \in Thread, Loop(t) \/ GetPeers(t) \/ Schedule(t) \/ Broadcasted(t)
      PROVE  UNCHANGED <<open, peers, lives, since>>
  BY <1>1 DEF Loop, GetPeers, Schedule, Broadcasted
<1>2. ASSUME NEW a \in Client, Arrives(a)
      PROVE  UNCHANGED <<open, peers, lives, since>>
  BY <1>2 DEF Arrives
<1>3. ReceiveFails \/ SendTo \/ Close =>
        (open' => open) /\ UNCHANGED <<peers, lives, since>>
  BY DEF ReceiveFails, SendTo, AfterSendFails, Close, AfterClose
<1>4. TryGetPeer \/ Received \/ ProcessPeer \/ PopReadyIncoming =>
        UNCHANGED <<open, peers, lives, since>>
  BY DEF TryGetPeer, Received, ProcessPeer, PopReadyIncoming
<1>5. CopyPeers \/ NextPeer \/ Drained \/ TypeLine \/ RequestStop \/ DestroyMembers =>
        UNCHANGED <<open, peers, lives, since>>
  BY DEF CopyPeers, NextPeer, Drained, TypeLine, RequestStop, DestroyMembers
<1>6. AddPeer => UNCHANGED open
  BY DEF AddPeer
<1>7. ClearPeers => UNCHANGED <<open, lives, since>>
  BY DEF ClearPeers
<1>8. QED
  BY <1>1, <1>2, <1>3, <1>4, <1>5, <1>6, <1>7, ServerSteps DEF Thread

\* The application thread comes to its last points by Stop alone.
LEMMA AppStays ==
  ASSUME ServerTypeOK, Next
  PROVE  \/ at'["app"] = at["app"]
         \/ at'["app"] \in {"idle", "copy", "cast"} /\ at["app"] \in {"idle", "copy", "cast"}
         \/ Close \/ RequestStop \/ ClearPeers
         \/ at["app"] = "stopped" /\ at'["app"] = "destroyed"
<1> USE DEF connVars, threadVars, Goes
<1>1. at \in [Thread -> Point] /\ Thread = {"listen", "send", "app"}
  BY DEF ServerTypeOK, Thread
<1>2. ASSUME NEW t \in {"listen", "send"}, Loop(t)
      PROVE  at'["app"] = at["app"]
  BY <1>1, <1>2 DEF Loop
<1>3. ASSUME NEW t \in {"listen", "app"}, GetPeers(t)
      PROVE  at' = [at EXCEPT ![t] = "cast"] /\ at[t] = "copy"
  BY <1>3 DEF GetPeers
<1>4. ASSUME NEW t \in {"listen", "app"}, Schedule(t)
      PROVE  at' = at
  BY <1>4 DEF Schedule
<1>5. ASSUME NEW t \in {"listen", "app"}, Broadcasted(t)
      PROVE  at' = [at EXCEPT ![t] = Caller(t)] /\ at[t] = "cast"
  BY <1>5 DEF Broadcasted
<1>6. ASSUME NEW a \in Client, Arrives(a)
      PROVE  at'["app"] = at["app"]
  BY <1>1, <1>6 DEF Arrives
<1>7. ReceiveFails \/ TryGetPeer \/ AddPeer \/ Received => at'["app"] = at["app"]
  BY <1>1 DEF ReceiveFails, TryGetPeer, AddPeer, Received
<1>8. ProcessPeer \/ PopReadyIncoming \/ CopyPeers => at'["app"] = at["app"]
  BY <1>1 DEF ProcessPeer, PopReadyIncoming, CopyPeers
<1>9. NextPeer \/ SendTo \/ Drained => at'["app"] = at["app"]
  BY <1>1 DEF NextPeer, SendTo, Drained
<1>10. TypeLine => at["app"] = "idle" /\ at'["app"] = "copy"
  BY <1>1 DEF TypeLine
<1>11. DestroyMembers => at["app"] = "stopped" /\ at'["app"] = "destroyed"
  BY <1>1 DEF DestroyMembers
<1>12. \A t \in {"listen", "app"} : GetPeers(t) \/ Schedule(t) \/ Broadcasted(t) =>
         \/ at'["app"] = at["app"]
         \/ at'["app"] \in {"idle", "copy", "cast"} /\ at["app"] \in {"idle", "copy", "cast"}
  BY <1>1, <1>3, <1>4, <1>5 DEF Caller
<1>13. QED
  BY <1>2, <1>6, <1>7, <1>8, <1>9, <1>10, <1>11, <1>12, ServerSteps

LEMMA LifeStep ==
  ASSUME ServerTypeOK, LifeInv, WorkInv, Next
  PROVE  LifeInv'
<1>1. at \in [Thread -> Point] /\ "app" \in Thread /\ "listen" \in Thread
  BY DEF ServerTypeOK, Thread
<1>2. /\ open' => open
      /\ open => at["app"] \notin {"ask", "clear", "stopped", "destroyed"}
      /\ \A a \in Client : /\ peers[a] \in {0, lives[a]}
                           /\ peers[a] = 0 => lives[a] <= 1
                           /\ ~ Cleared => peers[a] = lives[a] /\ lives[a] <= 1
  BY PeersStay DEF LifeInv
<1>3. /\ open' => at'["app"] \notin {"ask", "clear", "stopped", "destroyed"}
      /\ ~ ClearPeers => (Cleared <=> Cleared')
  <2>1. Close => ~ open' /\ at["app"] = "idle" /\ at'["app"] = "ask"
    BY <1>1 DEF Close, AfterClose, Goes
  <2>2. RequestStop => open' = open /\ at["app"] = "ask" /\ at'["app"] = "clear"
    BY <1>1 DEF RequestStop, Goes
  <2>3. ClearPeers => open' = open /\ at["app"] = "clear"
    BY <1>1 DEF ClearPeers, Goes
  <2>4. QED
    BY <1>2, <2>1, <2>2, <2>3, AppStays DEF Cleared
<1>4. CASE AddPeer
  <2> DEFINE b == conn["listen"][1]
  <2>1. b \in Client /\ peers[b] = 0 /\ lives[b] \in {0, 1}
    BY <1>4, AddedIsNew
  <2>2. /\ peers' = [peers EXCEPT ![b] = lives[b] + 1]
        /\ lives' = [lives EXCEPT ![b] = lives[b] + 1]
        /\ at' = [at EXCEPT !["listen"] = "copy"]
    BY <1>4 DEF AddPeer, Goes
  <2>3. peers \in [Client -> {0} \cup Life] /\ lives \in [Client -> {0} \cup Life]
    BY DEF ServerTypeOK
  <2>4. ASSUME NEW a \in Client
        PROVE  /\ peers'[a] \in {0, lives'[a]}
               /\ peers'[a] = 0 => lives'[a] <= 1
               /\ ~ Cleared => peers'[a] = lives'[a] /\ lives'[a] <= 1
    <3>1. CASE a = b
      BY <1>2, <2>1, <2>2, <2>3, <3>1
    <3>2. CASE a # b
      BY <1>2, <2>2, <2>3, <3>2
    <3>3. QED
      BY <3>1, <3>2
  <2>5. ~ ClearPeers
    BY <1>1, <2>2 DEF ClearPeers, Goes
  <2>6. QED
    BY <1>3, <2>4, <2>5 DEF LifeInv
<1>5. CASE ClearPeers
  <2>1. /\ peers' = [a \in Client |-> 0] /\ lives' = lives /\ at["app"] = "clear"
        /\ at' = [at EXCEPT !["app"] = "stopped"]
    BY <1>5 DEF ClearPeers, Goes
  <2>2. Cleared' /\ ~ Cleared
    BY <1>1, <2>1 DEF Cleared
  <2>3. QED
    BY <1>2, <1>3, <2>1, <2>2 DEF LifeInv
<1>6. CASE ~ AddPeer /\ ~ ClearPeers
  <2>1. peers' = peers /\ lives' = lives
    BY <1>6, PeersStay
  <2>2. QED
    BY <1>2, <1>3, <1>6, <2>1 DEF LifeInv
<1>7. QED
  BY <1>4, <1>5, <1>6


\* The steps of the other threads leave the listen thread where it is, ...
LEMMA ListenStays ==
  ASSUME ServerTypeOK, Next
  PROVE  \/ Loop("listen") \/ ReceiveFails \/ TryGetPeer \/ AddPeer \/ Received
         \/ ProcessPeer \/ PopReadyIncoming
         \/ GetPeers("listen") \/ Schedule("listen") \/ Broadcasted("listen")
         \/ \E a \in Client : Arrives(a)
         \/ /\ at'["listen"] = at["listen"] /\ conn'["listen"] = conn["listen"]
            /\ line'["listen"] = line["listen"] /\ audience'["listen"] = audience["listen"]
            /\ taken' = taken
<1> USE DEF connVars, threadVars, Goes
<1>1. /\ at \in [Thread -> Point] /\ conn \in [Thread -> Client \X (Life \cup {0})]
      /\ line \in [Thread -> Message] /\ audience \in [Thread -> SUBSET Conn]
      /\ Thread = {"listen", "send", "app"}
  BY DEF ServerTypeOK, Thread
<1> DEFINE Stays == /\ at'["listen"] = at["listen"] /\ conn'["listen"] = conn["listen"]
                    /\ line'["listen"] = line["listen"] /\ audience'["listen"] = audience["listen"]
                    /\ taken' = taken
<1>2. Loop("send") \/ CopyPeers \/ NextPeer => Stays
  BY <1>1 DEF Loop, CopyPeers, NextPeer
<1>3. SendTo \/ Drained => Stays
  BY <1>1 DEF SendTo, Drained
<1>4. TypeLine \/ Close \/ RequestStop => Stays
  BY <1>1 DEF TypeLine, Close, RequestStop
<1>5. ClearPeers \/ DestroyMembers => Stays
  BY <1>1 DEF ClearPeers, DestroyMembers
<1>6. GetPeers("app") \/ Schedule("app") \/ Broadcasted("app") => Stays
  BY <1>1 DEF GetPeers, Schedule, Broadcasted
<1>7. QED
  BY <1>2, <1>3, <1>4, <1>5, <1>6, ServerSteps

\* ... those of the others the application thread, ...
LEMMA LinesStay ==
  ASSUME ServerTypeOK, Next
  PROVE  \/ TypeLine \/ GetPeers("app") \/ Schedule("app") \/ Broadcasted("app")
         \/ /\ typed' = typed /\ line'["app"] = line["app"] /\ audience'["app"] = audience["app"]
            /\ \/ at'["app"] = at["app"]
               \/ at'["app"] \notin {"copy", "cast"} /\ at["app"] \notin {"copy", "cast"}
<1> USE DEF connVars, threadVars, Goes
<1>1. /\ at \in [Thread -> Point] /\ conn \in [Thread -> Client \X (Life \cup {0})]
      /\ line \in [Thread -> Message] /\ audience \in [Thread -> SUBSET Conn]
      /\ Thread = {"listen", "send", "app"}
  BY DEF ServerTypeOK, Thread
<1> DEFINE Stays == /\ typed' = typed /\ line'["app"] = line["app"]
                    /\ audience'["app"] = audience["app"]
                    /\ \/ at'["app"] = at["app"]
                       \/ at'["app"] \notin {"copy", "cast"} /\ at["app"] \notin {"copy", "cast"}
<1>2. ASSUME NEW t \in {"listen", "send"}, Loop(t)
      PROVE  Stays
  BY <1>1, <1>2 DEF Loop
<1>3. GetPeers("listen") \/ Schedule("listen") \/ Broadcasted("listen") => Stays
  BY <1>1 DEF GetPeers, Schedule, Broadcasted
<1>4. ASSUME NEW a \in Client, Arrives(a)
      PROVE  Stays
  BY <1>1, <1>4 DEF Arrives
<1>5. ReceiveFails \/ TryGetPeer \/ AddPeer \/ Received => Stays
  BY <1>1 DEF ReceiveFails, TryGetPeer, AddPeer, Received
<1>6. ProcessPeer \/ PopReadyIncoming \/ CopyPeers => Stays
  BY <1>1 DEF ProcessPeer, PopReadyIncoming, CopyPeers
<1>7. NextPeer \/ SendTo \/ Drained => Stays
  BY <1>1 DEF NextPeer, SendTo, Drained
<1>8. Close \/ RequestStop \/ ClearPeers \/ DestroyMembers => Stays
  BY <1>1 DEF Close, RequestStop, ClearPeers, DestroyMembers
<1>9. QED
  BY <1>2, <1>3, <1>4, <1>5, <1>6, <1>7, <1>8, ServerSteps

\* ... and what is queued and sent stays but for Schedule and SendTo.
LEMMA QueuesStay ==
  ASSUME ServerTypeOK, Next
  PROVE  \/ \E t \in {"listen", "app"} : Schedule(t)
         \/ SendTo
         \/ UNCHANGED <<queue, sent>>
<1> USE DEF connVars, threadVars, Goes
<1>1. ASSUME NEW t \in Thread, Loop(t) \/ GetPeers(t) \/ Broadcasted(t)
      PROVE  UNCHANGED <<queue, sent>>
  BY <1>1 DEF Loop, GetPeers, Broadcasted
<1>2. ASSUME NEW a \in Client, Arrives(a)
      PROVE  UNCHANGED <<queue, sent>>
  BY <1>2 DEF Arrives
<1>3. ReceiveFails \/ TryGetPeer \/ AddPeer \/ Received => UNCHANGED <<queue, sent>>
  BY DEF ReceiveFails, TryGetPeer, AddPeer, Received
<1>4. ProcessPeer \/ PopReadyIncoming \/ CopyPeers \/ NextPeer \/ Drained => UNCHANGED <<queue, sent>>
  BY DEF ProcessPeer, PopReadyIncoming, CopyPeers, NextPeer, Drained
<1>5. TypeLine \/ Close \/ RequestStop \/ ClearPeers \/ DestroyMembers => UNCHANGED <<queue, sent>>
  BY DEF TypeLine, Close, RequestStop, ClearPeers, DestroyMembers
<1>6. QED
  BY <1>1, <1>2, <1>3, <1>4, <1>5, ServerSteps DEF Thread


\* Loops come to Connections that are in the map, or were when they began.
LEMMA LoopsStay ==
  ASSUME ServerTypeOK, Next, NEW t \in Thread
  PROVE  /\ visit'[t] \subseteq visit[t] \cup Peers
         /\ audience'[t] \subseteq audience[t] \cup Peers
<1> USE DEF connVars, threadVars, Goes
<1>1. /\ visit \in [Thread -> SUBSET Conn] /\ audience \in [Thread -> SUBSET Conn]
      /\ Thread = {"listen", "send", "app"}
  BY DEF ServerTypeOK, Thread
<1> DEFINE Stays == /\ visit'[t] \subseteq visit[t] \cup Peers
                    /\ audience'[t] \subseteq audience[t] \cup Peers
<1>2. ASSUME NEW u \in Thread, Loop(u) \/ GetPeers(u) \/ Schedule(u) \/ Broadcasted(u)
      PROVE  Stays
  <2>1. visit' = visit
    BY <1>2 DEF Loop, GetPeers, Schedule, Broadcasted
  <2>2. CASE GetPeers(u)
    <3>1. PICK copy \in Copy(u) : audience' = [audience EXCEPT ![u] = copy]
      BY <2>2 DEF GetPeers
    <3>2. copy \subseteq Peers
      BY DEF Copy
    <3>3. QED
      BY <1>1, <2>1, <3>1, <3>2
  <2>3. CASE Schedule(u)
    BY <1>1, <2>1, <2>3 DEF Schedule
  <2>4. CASE Loop(u) \/ Broadcasted(u)
    BY <2>1, <2>4 DEF Loop, Broadcasted
  <2>5. QED
    BY <1>2, <2>2, <2>3, <2>4
<1>3. ASSUME NEW a \in Client, Arrives(a)
      PROVE  Stays
  BY <1>3 DEF Arrives
<1>4. ReceiveFails \/ TryGetPeer \/ AddPeer \/ PopReadyIncoming => Stays
  BY DEF ReceiveFails, TryGetPeer, AddPeer, PopReadyIncoming
<1>5. Received \/ CopyPeers => Stays
  BY <1>1 DEF Received, CopyPeers
<1>6. ProcessPeer \/ NextPeer => Stays
  BY <1>1 DEF ProcessPeer, NextPeer
<1>7. ClearPeers => Stays
  BY <1>1 DEF ClearPeers
<1>8. TypeLine \/ Close \/ RequestStop \/ DestroyMembers \/ SendTo \/ Drained => Stays
  BY DEF TypeLine, Close, RequestStop, DestroyMembers, SendTo, Drained
<1>9. QED
  BY <1>2, <1>3, <1>4, <1>5, <1>6, <1>7, <1>8, ServerSteps DEF Thread

\* A Connection once made has been made, and AddPeer alone makes one.
LEMMA MadeStays ==
  ASSUME ServerTypeOK, LifeInv, WorkInv, Next
  PROVE  /\ Made \subseteq Made' /\ Peers \subseteq Made
         /\ AddPeer => conn'["listen"] \in Made' \ Made /\ conn'["listen"] \in Conn
         /\ AddPeer => \A c \in Made' \ Made : c = conn'["listen"]
         /\ AddPeer \/ Made' = Made
<1>1. /\ peers \in [Client -> {0} \cup Life] /\ lives \in [Client -> {0} \cup Life]
      /\ conn \in [Thread -> Client \X (Life \cup {0})] /\ "listen" \in Thread
  BY DEF ServerTypeOK, Thread
<1>2. Peers \subseteq Made
  BY <1>1, MadeIsConn DEF LifeInv, Made, Peers, Life
<1>3. CASE AddPeer
  <2> DEFINE a == conn["listen"][1]
             n == lives[a]
  <2>1. /\ a \in Client /\ n \in {0, 1} /\ <<a, n + 1>> \in Conn \ Made
        /\ lives' = [lives EXCEPT ![a] = n + 1] /\ conn'["listen"] = <<a, n + 1>>
    BY <1>1, <1>3, AddedIsNew DEF AddPeer
  <2>2. lives'[a] = n + 1 /\ \A b \in Client : b # a => lives'[b] = lives[b]
    BY <1>1, <2>1
  <2>3. <<a, n + 1>> \in Made'
    BY <2>1, <2>2 DEF Made
  <2>4. \A c \in Conn : c \in Made => c \in Made'
    <3> SUFFICES ASSUME NEW c \in Conn, c[2] <= lives[c[1]]
                 PROVE  c[2] <= lives'[c[1]]
      BY DEF Made
    <3>1. c[1] \in Client /\ c[2] \in {1, 2}
      BY DEF Conn, Life
    <3>2. QED
      BY <2>1, <2>2, <3>1
  <2>5. \A c \in Conn : c \in Made' /\ c \notin Made => c = <<a, n + 1>>
    <3> SUFFICES ASSUME NEW c \in Conn, c[2] <= lives'[c[1]], ~ c[2] <= lives[c[1]]
                 PROVE  c = <<a, n + 1>>
      BY DEF Made
    <3>1. c[1] \in Client /\ c[2] \in {1, 2} /\ c = <<c[1], c[2]>>
      BY DEF Conn, Life
    <3>2. c[1] = a
      BY <2>2, <3>1
    <3>3. c[2] = n + 1
      BY <2>1, <2>2, <3>1, <3>2
    <3>4. QED
      BY <3>1, <3>2, <3>3
  <2>6. Made' \subseteq Conn /\ Made \subseteq Conn
    BY DEF Made
  <2>7. QED
    BY <1>2, <1>3, <2>1, <2>3, <2>4, <2>5, <2>6
<1>4. CASE ~ AddPeer
  <2>1. lives' = lives
    BY <1>4, PeersStay
  <2>2. Made' = Made
    BY <2>1 DEF Made
  <2>3. QED
    BY <1>2, <1>4, <2>2
<1>5. QED
  BY <1>3, <1>4

LEMMA TakenStays ==
  ASSUME ServerTypeOK, Next
  PROVE  PopReadyIncoming \/ taken' = taken
<1> USE DEF connVars, threadVars, Goes
<1>1. Loop("listen") \/ ReceiveFails \/ TryGetPeer \/ AddPeer => taken' = taken
  BY DEF Loop, ReceiveFails, TryGetPeer, AddPeer
<1>2. Received \/ ProcessPeer => taken' = taken
  BY DEF Received, ProcessPeer
<1>3. GetPeers("listen") \/ Schedule("listen") \/ Broadcasted("listen") => taken' = taken
  BY DEF GetPeers, Schedule, Broadcasted
<1>4. ASSUME NEW a \in Client, Arrives(a)
      PROVE  taken' = taken
  BY <1>4 DEF Arrives
<1>5. QED
  BY <1>1, <1>2, <1>3, <1>4, ListenStays

LEMMA WorkStep ==
  ASSUME ServerTypeOK, LifeInv, WorkInv, Next
  PROVE  WorkInv'
<1> USE DEF connVars, threadVars, Goes
<1>1. /\ at \in [Thread -> Point] /\ conn \in [Thread -> Client \X (Life \cup {0})]
      /\ peers \in [Client -> {0} \cup Life]
      /\ Thread = {"listen", "send", "app"}
  BY DEF ServerTypeOK, Thread
<1>2. /\ at["listen"] = "add" => peers[conn["listen"][1]] = 0
      /\ at["listen"] \in {"received", "copy", "cast", "pop"} => conn["listen"] \in Made
      /\ at["send"] = "drain" => conn["send"] \in Made
      /\ \A t \in Thread : visit[t] \subseteq Made /\ audience[t] \subseteq Made
      /\ \A c \in Conn \ Made : sent[c] = <<>> /\ queue[c] = <<>> /\ taken[c] = 0
  BY DEF WorkInv
<1>3. Made \subseteq Made' /\ Peers \subseteq Made /\ Made \subseteq Conn
  BY MadeStays, MadeIsConn
<1>4. /\ at'["listen"] = "add" => peers'[conn'["listen"][1]] = 0
      /\ at'["listen"] \in {"received", "copy", "cast", "pop"} => conn'["listen"] \in Made'
  <2> DEFINE Works ==
        /\ at'["listen"] = "add" => peers'[conn'["listen"][1]] = 0
        /\ at'["listen"] \in {"received", "copy", "cast", "pop"} => conn'["listen"] \in Made'
  <2>1. CASE at'["listen"] = at["listen"] /\ conn'["listen"] = conn["listen"]
    <3>1. AddPeer => at["listen"] # at'["listen"]
      BY <1>1 DEF AddPeer
    <3>2. ClearPeers => peers' = [a \in Client |-> 0]
      BY DEF ClearPeers
    <3>3. conn["listen"][1] \in Client
      BY <1>1
    <3>4. at["listen"] = "add" => peers'[conn["listen"][1]] = 0
      BY <1>2, <2>1, <3>1, <3>2, <3>3, PeersStay
    <3>5. QED
      BY <1>2, <1>3, <2>1, <3>4
  <2>2. Loop("listen") \/ ReceiveFails => Works
    BY <1>1 DEF Loop, ReceiveFails
  <2>3. ASSUME NEW a \in Client, Arrives(a)
        PROVE  Works
    BY <1>1, <2>3 DEF Arrives
  <2>4. CASE TryGetPeer
    <3> DEFINE a == conn["listen"][1]
    <3>1. a \in Client /\ conn'["listen"] = <<a, peers[a]>> /\ peers' = peers
          /\ at'["listen"] = IF Known(a) THEN "received" ELSE "add"
      BY <1>1, <2>4 DEF TryGetPeer
    <3>2. CASE peers[a] # 0
      <4>1. <<a, peers[a]>> \in Peers /\ at'["listen"] = "received"
        BY <1>1, <3>1, <3>2 DEF Peers, Conn, Known
      <4>2. QED
        BY <1>3, <3>1, <4>1
    <3>3. CASE peers[a] = 0
      BY <3>1, <3>3 DEF Known
    <3>4. QED
      BY <3>2, <3>3
  <2>5. AddPeer => Works
    BY <1>1, MadeStays DEF AddPeer
  <2>6. Received => Works
    BY <1>1 DEF Received
  <2>7. CASE ProcessPeer
    <3>1. \/ at'["listen"] = "loop"
          \/ at'["listen"] = "pop" /\ conn'["listen"] \in visit["listen"]
      BY <1>1, <2>7 DEF ProcessPeer
    <3>2. QED
      BY <1>1, <1>2, <1>3, <3>1
  <2>8. CASE PopReadyIncoming
    <3>1. \/ at'["listen"] = "process"
          \/ /\ at["listen"] = "pop" /\ at'["listen"] = "copy"
             /\ conn'["listen"] = conn["listen"]
      BY <1>1, <2>8 DEF PopReadyIncoming
    <3>2. QED
      BY <1>2, <1>3, <3>1
  <2>9. CASE GetPeers("listen") \/ Schedule("listen") \/ Broadcasted("listen")
    <3>1. /\ at["listen"] \in {"copy", "cast"} /\ conn' = conn
          /\ at'["listen"] \in {"cast", "received", "pop"}
      BY <1>1, <2>9 DEF GetPeers, Schedule, Broadcasted, Caller
    <3>2. QED
      BY <1>2, <1>3, <3>1
  <2>10. QED
    BY <2>1, <2>2, <2>3, <2>4, <2>5, <2>6, <2>7, <2>8, <2>9, ListenStays
<1>5. at'["send"] = "drain" => conn'["send"] \in Made'
  <2>1. NextPeer => at'["send"] # "drain" \/ conn'["send"] \in visit["send"]
    BY <1>1 DEF NextPeer
  <2>2. ASSUME ~ NextPeer
        PROVE  \/ at'["send"] # "drain"
               \/ at["send"] = "drain" /\ conn'["send"] = conn["send"]
    <3> DEFINE Sends == \/ at'["send"] # "drain"
                        \/ at["send"] = "drain" /\ conn'["send"] = conn["send"]
    <3>1. ASSUME NEW t \in {"listen", "send"}, Loop(t)
          PROVE  Sends
      BY <1>1, <3>1 DEF Loop
    <3>2. ASSUME NEW t \in {"listen", "app"}, GetPeers(t) \/ Schedule(t) \/ Broadcasted(t)
          PROVE  Sends
      BY <1>1, <3>2 DEF GetPeers, Schedule, Broadcasted
    <3>3. ASSUME NEW a \in Client, Arrives(a)
          PROVE  Sends
      BY <1>1, <3>3 DEF Arrives
    <3>4. ReceiveFails \/ TryGetPeer \/ AddPeer \/ Received => Sends
      BY <1>1 DEF ReceiveFails, TryGetPeer, AddPeer, Received
    <3>5. ProcessPeer \/ PopReadyIncoming => Sends
      BY <1>1 DEF ProcessPeer, PopReadyIncoming
    <3>6. CopyPeers \/ SendTo \/ Drained => Sends
      BY <1>1 DEF CopyPeers, SendTo, Drained
    <3>7. TypeLine \/ Close \/ RequestStop \/ ClearPeers \/ DestroyMembers => Sends
      BY <1>1 DEF TypeLine, Close, RequestStop, ClearPeers, DestroyMembers
    <3>8. QED
      BY <2>2, <3>1, <3>2, <3>3, <3>4, <3>5, <3>6, <3>7, ServerSteps
  <2>3. QED
    BY <1>1, <1>2, <1>3, <2>1, <2>2
<1>6. \A t \in Thread : visit'[t] \subseteq Made' /\ audience'[t] \subseteq Made'
  BY <1>2, <1>3, LoopsStay
<1>7. ASSUME NEW c \in Conn, c \notin Made'
      PROVE  sent'[c] = <<>> /\ queue'[c] = <<>> /\ taken'[c] = 0
  <2>1. c \notin Made /\ sent[c] = <<>> /\ queue[c] = <<>> /\ taken[c] = 0
    BY <1>2, <1>3, <1>7
  <2>2. /\ taken \in [Conn -> Nat] /\ queue \in [Conn -> Seq(Message)]
        /\ sent \in [Conn -> Seq(Message)]
    BY DEF ServerTypeOK
  <2>3. taken'[c] = taken[c]
    <3>1. PopReadyIncoming => taken'[c] = taken[c]
      BY <1>2, <2>1, <2>2 DEF PopReadyIncoming
    <3>2. QED
      BY <3>1, TakenStays
  <2>4. ASSUME NEW t \in {"listen", "app"}, Schedule(t)
        PROVE  sent'[c] = sent[c] /\ queue'[c] = queue[c]
    <3>1. c \notin audience[t]
      BY <1>1, <1>2, <2>1
    <3>2. QED
      BY <2>2, <2>4, <3>1 DEF Schedule
  <2>5. SendTo => sent'[c] = sent[c] /\ queue'[c] = queue[c]
    BY <1>2, <2>1, <2>2 DEF SendTo
  <2>6. QED
    BY <2>1, <2>3, <2>4, <2>5, QueuesStay
<1>8. QED
  BY <1>4, <1>5, <1>6, <1>7 DEF WorkInv


----------------------------------------------------------------------------
(* What the threads broadcast. *)

LEMMA LineStep ==
  ASSUME ServerTypeOK, LifeInv, WorkInv, LineInv, Next
  PROVE  LineInv'
<1> USE DEF connVars, threadVars, Goes
<1>1. /\ at \in [Thread -> Point] /\ conn \in [Thread -> Client \X (Life \cup {0})]
      /\ line \in [Thread -> Message] /\ audience \in [Thread -> SUBSET Conn]
      /\ taken \in [Conn -> Nat] /\ typed \in Nat
      /\ Thread = {"listen", "send", "app"}
  BY ServerAssumption DEF ServerTypeOK, Thread
<1>2. /\ \A t \in {"listen", "app"} : at[t] # "cast" => audience[t] = {}
      /\ at["listen"] \notin {"copy", "cast"} => line["listen"] = NoLine
      /\ line["listen"] # NoLine =>
           Is(line["listen"], conn["listen"][1], taken[conn["listen"]])
      /\ at["app"] \in {"copy", "cast"} => Is(line["app"], "operator", typed) /\ typed > 0
  BY DEF LineInv
<1> DEFINE Lines ==
      /\ at'["listen"] # "cast" => audience'["listen"] = {}
      /\ at'["listen"] \notin {"copy", "cast"} => line'["listen"] = NoLine
      /\ line'["listen"] # NoLine =>
           Is(line'["listen"], conn'["listen"][1], taken'[conn'["listen"]])
<1>3. Lines
  <2>1. CASE /\ at'["listen"] = at["listen"] /\ conn'["listen"] = conn["listen"]
             /\ line'["listen"] = line["listen"] /\ audience'["listen"] = audience["listen"]
             /\ taken' = taken
    BY <1>2, <2>1
  <2>2. Loop("listen") \/ ReceiveFails \/ TryGetPeer => Lines
    BY <1>1, <1>2 DEF Loop, ReceiveFails, TryGetPeer
  <2>3. AddPeer \/ Received => Lines
    BY <1>1, <1>2 DEF AddPeer, Received
  <2>4. ProcessPeer => Lines
    BY <1>1, <1>2 DEF ProcessPeer
  <2>5. CASE PopReadyIncoming
    <3> DEFINE c == conn["listen"]
    <3>1. c \in Conn /\ at["listen"] = "pop" /\ line["listen"] = NoLine /\ audience' = audience
      BY <1>2, <2>5, MadeIsConn DEF PopReadyIncoming, WorkInv
    <3>2. CASE taken[c] = released[c]
      BY <1>1, <1>2, <2>5, <3>1, <3>2 DEF PopReadyIncoming
    <3>3. CASE taken[c] # released[c]
      <4>1. /\ at' = [at EXCEPT !["listen"] = "copy"] /\ conn' = conn
            /\ taken' = [taken EXCEPT ![c] = taken[c] + 1]
            /\ line' = [line EXCEPT !["listen"] = [from |-> c[1], n |-> taken[c] + 1]]
        BY <2>5, <3>3 DEF PopReadyIncoming
      <4>2. /\ line'["listen"].from = c[1] /\ line'["listen"].n = taken'[c]
            /\ at'["listen"] = "copy" /\ conn'["listen"] = c
        BY <1>1, <3>1, <4>1
      <4>3. QED
        BY <1>2, <3>1, <4>2 DEF Is
    <3>4. QED
      BY <3>2, <3>3
  <2>6. GetPeers("listen") \/ Schedule("listen") => Lines
    BY <1>1, <1>2 DEF GetPeers, Schedule
  <2>7. Broadcasted("listen") => Lines
    BY <1>1, <1>2 DEF Broadcasted
  <2>8. ASSUME NEW a \in Client, Arrives(a)
        PROVE  Lines
    BY <1>1, <1>2, <2>8 DEF Arrives
  <2>9. QED
    BY <2>1, <2>2, <2>3, <2>4, <2>5, <2>6, <2>7, <2>8, ListenStays
<1>4. /\ at'["app"] # "cast" => audience'["app"] = {}
      /\ at'["app"] \in {"copy", "cast"} => Is(line'["app"], "operator", typed') /\ typed' > 0
  <2> DEFINE Typed ==
        /\ at'["app"] # "cast" => audience'["app"] = {}
        /\ at'["app"] \in {"copy", "cast"} => Is(line'["app"], "operator", typed') /\ typed' > 0
  <2>1. CASE /\ typed' = typed /\ line'["app"] = line["app"] /\ audience'["app"] = audience["app"]
             /\ \/ at'["app"] = at["app"]
                \/ at'["app"] \notin {"copy", "cast"} /\ at["app"] \notin {"copy", "cast"}
    BY <1>2, <2>1
  <2>2. CASE TypeLine
    <3>1. /\ at'["app"] = "copy" /\ audience' = audience /\ at["app"] = "idle"
          /\ line'["app"] = [from |-> "operator", n |-> typed + 1] /\ typed' = typed + 1
      BY <1>1, <2>2 DEF TypeLine
    <3>2. QED
      BY <1>1, <1>2, <3>1 DEF Is
  <2>3. GetPeers("app") \/ Schedule("app") => Typed
    BY <1>1, <1>2 DEF GetPeers, Schedule
  <2>4. Broadcasted("app") => Typed
    BY <1>1, <1>2 DEF Broadcasted, Caller
  <2>5. QED
    BY <2>1, <2>2, <2>3, <2>4, LinesStay
<1>5. QED
  BY <1>3, <1>4 DEF LineInv

\* Whom a message is relayed to, and that it is queued last.
LEMMA Audience ==
  ASSUME ServerTypeOK, NEW t \in {"listen", "app"}, GetPeers(t)
  PROVE  audience'[t] = {c \in Peers : c[1] # line[t].from} /\ line' = line
<1>1. audience' = [audience EXCEPT ![t] = {c \in Peers : c[1] \notin Except(line[t])}]
      /\ line' = line
  BY DEF GetPeers, Copy
<1>2. \A c \in Peers : c[1] \notin Except(line[t]) <=> c[1] # line[t].from
  BY MadeIsConn DEF Except
<1>3. audience \in [Thread -> SUBSET Conn] /\ t \in Thread
  BY DEF ServerTypeOK, Thread
<1>4. QED
  BY <1>1, <1>2, <1>3

LEMMA EchoStep ==
  ASSUME ServerTypeOK, LifeInv, WorkInv, LineInv, EchoInv, NoEcho, Next
  PROVE  EchoInv' /\ NoEcho'
<1> USE DEF connVars, threadVars, Goes
<1>1. /\ line \in [Thread -> Message] /\ audience \in [Thread -> SUBSET Conn]
      /\ queue \in [Conn -> Seq(Message)] /\ sent \in [Conn -> Seq(Message)]
      /\ at \in [Thread -> Point] /\ Thread = {"listen", "send", "app"}
  BY DEF ServerTypeOK, Thread
<1>2. \A c \in Conn :
        /\ \A i \in DOMAIN queue[c] : queue[c][i].from # c[1]
        /\ \A i \in DOMAIN sent[c] : sent[c][i].from # c[1]
        /\ \A t \in {"listen", "app"} : c \in audience[t] => line[t].from # c[1]
  BY DEF EchoInv, NoEcho
<1>3. ASSUME NEW c \in Conn
      PROVE  /\ \A i \in DOMAIN queue'[c] : queue'[c][i].from # c[1]
             /\ \A i \in DOMAIN sent'[c] : sent'[c][i].from # c[1]
  <2>1. CASE UNCHANGED <<queue, sent>>
    BY <1>2, <2>1
  <2>2. ASSUME NEW t \in {"listen", "app"}, Schedule(t)
        PROVE  /\ \A i \in DOMAIN queue'[c] : queue'[c][i].from # c[1]
               /\ sent' = sent
    <3>1. PICK d \in audience[t] : queue' = [queue EXCEPT ![d] = Append(queue[d], line[t])]
      BY <2>2 DEF Schedule, Queued
    <3>2. CASE c # d
      BY <1>1, <1>2, <2>2, <3>1, <3>2 DEF Schedule
    <3>3. CASE c = d
      <4>1. queue'[c] = Append(queue[c], line[t]) /\ queue[c] \in Seq(Message)
            /\ line[t] \in Message /\ line[t].from # c[1]
        BY <1>1, <1>2, <3>1, <3>3
      <4>2. /\ Len(queue[c]) \in Nat /\ DOMAIN queue[c] = 1 .. Len(queue[c])
            /\ DOMAIN queue'[c] = 1 .. Len(queue[c]) + 1
            /\ \A i \in 1 .. Len(queue[c]) : queue'[c][i] = queue[c][i]
            /\ queue'[c][Len(queue[c]) + 1] = line[t]
        BY <4>1, AppendProperties, LenProperties
      <4>3. \A i \in 1 .. Len(queue[c]) + 1 : i \in 1 .. Len(queue[c]) \/ i = Len(queue[c]) + 1
        BY <4>2
      <4>4. QED
        BY <1>2, <2>2, <4>1, <4>2, <4>3 DEF Schedule
    <3>4. QED
      BY <3>2, <3>3
  <2>3. CASE SendTo
    <3> DEFINE d == conn["send"]
               q == queue[d]
               p == sent[d]
    <3>1. /\ d \in Conn /\ q \in Seq(Message) /\ p \in Seq(Message) /\ q # <<>>
          /\ queue' = [queue EXCEPT ![d] = Tail(q)]
          /\ sent' \in {sent, [sent EXCEPT ![d] = Append(p, Head(q))]}
      BY <1>1, <2>3, MadeIsConn DEF SendTo, WorkInv
    <3>2. CASE c # d
      BY <1>1, <1>2, <3>1, <3>2
    <3>3. CASE c = d
      <4>1. /\ Len(q) \in Nat \ {0} /\ DOMAIN q = 1 .. Len(q) /\ Head(q) = q[1]
            /\ Tail(q) \in Seq(Message) /\ Head(q) \in Message /\ Len(Tail(q)) = Len(q) - 1
            /\ \A i \in 1 .. Len(Tail(q)) : Tail(q)[i] = q[i + 1]
        BY <3>1, HeadTailProperties, LenProperties, EmptySeq
      <4>2. DOMAIN Tail(q) = 1 .. Len(q) - 1
        BY <4>1, LenProperties
      <4>3. \A i \in DOMAIN q : q[i].from # c[1]
        BY <1>2, <3>3
      <4>4. \A i \in DOMAIN Tail(q) : Tail(q)[i].from # c[1]
        BY <4>1, <4>2, <4>3
      <4>5. /\ Len(p) \in Nat /\ DOMAIN p = 1 .. Len(p)
            /\ DOMAIN Append(p, Head(q)) = 1 .. Len(p) + 1
            /\ \A i \in 1 .. Len(p) : Append(p, Head(q))[i] = p[i]
            /\ Append(p, Head(q))[Len(p) + 1] = q[1]
        BY <3>1, <4>1, AppendProperties, LenProperties
      <4>6. \A i \in 1 .. Len(p) + 1 : i \in 1 .. Len(p) \/ i = Len(p) + 1
        BY <4>5
      <4>7. \A i \in DOMAIN Append(p, Head(q)) : Append(p, Head(q))[i].from # c[1]
        BY <1>2, <3>3, <4>1, <4>3, <4>5, <4>6
      <4>8. queue'[c] = Tail(q) /\ sent'[c] \in {p, Append(p, Head(q))}
        BY <1>1, <3>1, <3>3
      <4>9. QED
        BY <1>2, <3>3, <4>4, <4>7, <4>8
    <3>4. QED
      BY <3>2, <3>3
  <2>4. QED
    BY <1>2, <2>1, <2>2, <2>3, QueuesStay
<1>4. ASSUME NEW c \in Conn, NEW t \in {"listen", "app"}, c \in audience'[t]
      PROVE  line'[t].from # c[1]
  <2>1. CASE line'[t] = line[t] /\ audience'[t] = audience[t]
    BY <1>2, <1>4, <2>1
  <2>2. CASE GetPeers(t)
    BY <1>4, <2>2, Audience
  <2>3. CASE Schedule(t)
    BY <1>1, <1>2, <1>4, <2>3 DEF Schedule
  <2>4. LineInv'
    BY LineStep
  <2>5. at'[t] = "cast"
    BY <1>4, <2>4 DEF LineInv
  <2>6. CASE t = "listen"
    <3>1. ASSUME NEW a \in Client
          PROVE  Arrives(a) => line'[t] = line[t] /\ audience'[t] = audience[t]
      BY DEF Arrives
    <3>2. Loop("listen") \/ ReceiveFails \/ TryGetPeer \/ AddPeer =>
            line'[t] = line[t] /\ audience'[t] = audience[t]
      BY DEF Loop, ReceiveFails, TryGetPeer, AddPeer
    <3>3. Received \/ ProcessPeer => line'[t] = line[t] /\ audience'[t] = audience[t]
      BY DEF Received, ProcessPeer
    <3>4. PopReadyIncoming \/ Broadcasted("listen") => at'["listen"] # "cast"
      BY <1>1 DEF PopReadyIncoming, Broadcasted, Caller
    <3>5. QED
      BY <2>1, <2>2, <2>3, <2>5, <2>6, <3>1, <3>2, <3>3, <3>4, ListenStays
  <2>7. CASE t = "app"
    <3>1. TypeLine \/ Broadcasted("app") => at'["app"] # "cast"
      BY <1>1 DEF TypeLine, Broadcasted, Caller
    <3>2. QED
      BY <2>1, <2>2, <2>3, <2>5, <2>7, <3>1, LinesStay
  <2>8. QED
    BY <2>6, <2>7
<1>5. QED
  BY <1>3, <1>4 DEF EchoInv, NoEcho


----------------------------------------------------------------------------
(* How far the messages have come. *)

\* While the socket is open every Connection is a peer, and stays one.
LEMMA OpenPeers ==
  ASSUME ServerTypeOK, LifeInv, open
  PROVE  Peers = Made /\ ~ ClearPeers
<1>1. ~ Cleared
  BY DEF LifeInv, Cleared
<1>2. \A a \in Client : peers[a] = lives[a] /\ lives[a] \in {0, 1}
  BY <1>1 DEF LifeInv, ServerTypeOK, Life
<1>3. \A c \in Conn : peers[c[1]] = c[2] <=> c[2] <= lives[c[1]]
  BY <1>2 DEF Conn, Life
<1>4. QED
  BY <1>3 DEF Peers, Made, LifeInv, ClearPeers

LEMMA LastTypes ==
  ASSUME ServerTypeOK, NEW s \in Client, NEW c
  PROVE  Taken(s) \in Nat /\ typed \in Nat /\ LastOf(s, c) \in Int /\ LastLine(c) \in Int
<1>1. Taken(s) \in Nat
  BY DEF ServerTypeOK, Taken, Conn
<1>2. typed \in Nat
  BY ServerAssumption DEF ServerTypeOK
<1>3. QED
  BY <1>1, <1>2 DEF LastOf, LastLine

\* The last message that has been scheduled stays the same in every step but the
\* one that schedules the next.
LEMMA LastOfStays ==
  ASSUME ServerTypeOK, LifeInv, WorkInv, LineInv, Next, open,
         NEW c \in Peers, NEW s \in Client \ {c[1]},
         Schedule("listen") => (c \in audience'["listen"] <=> c \in audience["listen"])
  PROVE  LastOf(s, c)' = LastOf(s, c)
<1> USE DEF connVars, threadVars, Goes
<1>1. /\ at \in [Thread -> Point] /\ conn \in [Thread -> Client \X (Life \cup {0})]
      /\ line \in [Thread -> Message] /\ audience \in [Thread -> SUBSET Conn]
      /\ taken \in [Conn -> Nat] /\ peers \in [Client -> {0} \cup Life]
      /\ Thread = {"listen", "send", "app"}
  BY DEF ServerTypeOK, Thread
<1>2. /\ at["listen"] # "cast" => audience["listen"] = {}
      /\ at["listen"] \notin {"copy", "cast"} => line["listen"] = NoLine
  BY DEF LineInv
<1>3. /\ Peers = Made /\ ~ ClearPeers
      /\ ~ AddPeer => peers' = peers
  BY OpenPeers, PeersStay
<1>4. /\ Taken(s) = IF peers[s] = 0 THEN 0 ELSE taken[<<s, peers[s]>>]
      /\ Taken(s)' = IF peers'[s] = 0 THEN 0 ELSE taken'[<<s, peers'[s]>>]
      /\ Taken(s) \in Nat
  BY LastTypes DEF Taken
<1>5. ASSUME Taken(s)' = Taken(s), line'["listen"] = line["listen"],
             Pending("listen", c)' <=> Pending("listen", c)
      PROVE  LastOf(s, c)' = LastOf(s, c)
  BY <1>5 DEF LastOf
<1>6. CASE /\ at'["listen"] = at["listen"] /\ conn'["listen"] = conn["listen"]
           /\ line'["listen"] = line["listen"] /\ audience'["listen"] = audience["listen"]
           /\ taken' = taken
  <2>1. ~ AddPeer
    BY <1>1, <1>6 DEF AddPeer
  <2>2. QED
    BY <1>3, <1>4, <1>5, <1>6, <2>1 DEF Pending
<1> DEFINE Idle == /\ at["listen"] \notin {"copy", "cast"} /\ at'["listen"] \notin {"copy", "cast"}
                   /\ line' = line /\ taken' = taken /\ peers' = peers
<1>7. CASE Idle
  BY <1>4, <1>5, <1>7 DEF Pending
<1>8. Loop("listen") \/ ReceiveFails \/ TryGetPeer => Idle
  BY <1>1 DEF Loop, ReceiveFails, TryGetPeer
<1>9. Received \/ ProcessPeer => Idle
  BY <1>1 DEF Received, ProcessPeer
<1>10. ASSUME NEW a \in Client
       PROVE  Arrives(a) => Idle
  BY <1>1 DEF Arrives
<1>11. CASE AddPeer
  <2> DEFINE a == conn["listen"][1]
  <2>1. /\ a \in Client /\ peers[a] = 0 /\ lives[a] \in {0, 1}
        /\ <<a, lives[a] + 1>> \in Conn \ Made
        /\ peers' = [peers EXCEPT ![a] = lives[a] + 1] /\ taken' = taken
        /\ line' = line /\ line["listen"] = NoLine
    BY <1>2, <1>11, AddedIsNew DEF AddPeer
  <2>2. taken[<<a, lives[a] + 1>>] = 0
    BY <2>1 DEF WorkInv
  <2>3. Taken(s)' = Taken(s)
    <3>1. CASE s = a
      BY <1>1, <1>4, <2>1, <2>2, <3>1
    <3>2. CASE s # a
      BY <1>1, <1>4, <2>1, <3>2
    <3>3. QED
      BY <3>1, <3>2
  <2>4. line["listen"].from # s
    BY <2>1, ServerAssumption DEF NoLine
  <2>5. QED
    BY <2>1, <2>3, <2>4 DEF LastOf
<1>12. CASE PopReadyIncoming
  <2> DEFINE d == conn["listen"]
  <2>1. /\ d \in Conn /\ d = <<d[1], d[2]>> /\ peers[d[1]] = d[2] /\ d[2] # 0
        /\ at["listen"] = "pop" /\ line["listen"] = NoLine /\ peers' = peers
    BY <1>2, <1>3, <1>12, MadeIsConn DEF PopReadyIncoming, WorkInv, Peers, Life
  <2>2. CASE taken[d] = released[d]
    <3>1. Idle
      BY <1>1, <1>12, <2>1, <2>2 DEF PopReadyIncoming
    <3>2. QED
      BY <1>7, <3>1
  <2>3. CASE taken[d] # released[d]
    <3>1. /\ at'["listen"] = "copy" /\ line'["listen"].from = d[1]
          /\ taken' = [taken EXCEPT ![d] = taken[d] + 1]
      BY <1>1, <1>12, <2>3 DEF PopReadyIncoming
    <3>2. ~ Pending("listen", c) /\ Pending("listen", c)'
      BY <2>1, <3>1 DEF Pending
    <3>3. CASE s = d[1]
      <4>1. Taken(s)' = Taken(s) + 1
        BY <1>1, <1>4, <2>1, <3>1, <3>3
      <4>2. QED
        BY <1>4, <3>1, <3>2, <3>3, <4>1 DEF LastOf
    <3>4. CASE s # d[1]
      <4>1. Taken(s)' = Taken(s)
        <5>1. <<s, peers[s]>> # d
          BY <2>1, <3>4
        <5>2. peers[s] # 0 => <<s, peers[s]>> \in Conn
          BY <1>1 DEF Conn
        <5>3. QED
          BY <1>1, <1>4, <2>1, <3>1, <5>1, <5>2
      <4>2. QED
        BY <3>1, <3>2, <3>4, <4>1 DEF LastOf
    <3>5. QED
      BY <3>3, <3>4
  <2>4. QED
    BY <2>2, <2>3
<1>13. CASE GetPeers("listen")
  <2>1. /\ at["listen"] = "copy" /\ at'["listen"] = "cast" /\ taken' = taken /\ peers' = peers
        /\ line' = line /\ audience'["listen"] = {e \in Peers : e[1] # line["listen"].from}
    BY <1>1, <1>13, Audience DEF GetPeers
  <2>2. CASE line["listen"].from = s
    <3>1. Pending("listen", c) /\ Pending("listen", c)'
      BY <2>1, <2>2 DEF Pending
    <3>2. QED
      BY <1>4, <1>5, <2>1, <3>1
  <2>3. CASE line["listen"].from # s
    BY <1>4, <2>1, <2>3 DEF LastOf
  <2>4. QED
    BY <2>2, <2>3
<1>14. CASE Schedule("listen")
  <2>1. /\ at' = at /\ taken' = taken /\ peers' = peers /\ line' = line
        /\ c \in audience'["listen"] <=> c \in audience["listen"]
    BY <1>14 DEF Schedule
  <2>2. QED
    BY <1>4, <1>5, <2>1 DEF Pending
<1>15. CASE Broadcasted("listen")
  <2>1. /\ at["listen"] = "cast" /\ audience["listen"] = {} /\ taken' = taken /\ peers' = peers
        /\ at'["listen"] \in {"received", "pop"}
    BY <1>1, <1>15 DEF Broadcasted, Caller
  <2>2. ~ Pending("listen", c) /\ ~ Pending("listen", c)'
    BY <2>1 DEF Pending
  <2>3. QED
    BY <1>4, <2>1, <2>2 DEF LastOf
<1>16. QED
  BY <1>6, <1>7, <1>8, <1>9, <1>10, <1>11, <1>12, <1>13, <1>14, <1>15, ListenStays

\* The same for the lines of the operator.
LEMMA LastLineStays ==
  ASSUME ServerTypeOK, LifeInv, LineInv, Next, open, NEW c \in Peers,
         Schedule("app") => (c \in audience'["app"] <=> c \in audience["app"])
  PROVE  LastLine(c)' = LastLine(c)
<1> USE DEF connVars, threadVars, Goes
<1>1. /\ at \in [Thread -> Point] /\ line \in [Thread -> Message]
      /\ audience \in [Thread -> SUBSET Conn] /\ typed \in Nat
      /\ Thread = {"listen", "send", "app"}
  BY ServerAssumption DEF ServerTypeOK, Thread
<1>2. CASE /\ typed' = typed /\ line'["app"] = line["app"] /\ audience'["app"] = audience["app"]
           /\ \/ at'["app"] = at["app"]
              \/ at'["app"] \notin {"copy", "cast"} /\ at["app"] \notin {"copy", "cast"}
  BY <1>2 DEF LastLine, Pending
<1>3. CASE TypeLine
  <2>1. at["app"] = "idle" /\ at'["app"] = "copy" /\ typed' = typed + 1
    BY <1>1, <1>3 DEF TypeLine
  <2>2. QED
    BY <1>1, <2>1 DEF LastLine, Pending
<1>4. CASE GetPeers("app")
  <2>1. /\ at["app"] = "copy" /\ at'["app"] = "cast" /\ typed' = typed
        /\ audience'["app"] = {e \in Peers : e[1] # line["app"].from}
    BY <1>1, <1>4, Audience DEF GetPeers
  <2>2. line["app"].from = "operator" /\ c[1] \in Client
    BY <2>1, MadeIsConn DEF LineInv, Is
  <2>3. c \in audience'["app"]
    BY <2>1, <2>2, ServerAssumption
  <2>4. QED
    BY <2>1, <2>3 DEF LastLine, Pending
<1>5. CASE Schedule("app")
  <2>1. /\ at' = at /\ typed' = typed
        /\ c \in audience'["app"] <=> c \in audience["app"]
    BY <1>5 DEF Schedule
  <2>2. QED
    BY <2>1 DEF LastLine, Pending
<1>6. CASE Broadcasted("app")
  <2>1. /\ at["app"] = "cast" /\ audience["app"] = {} /\ typed' = typed /\ at'["app"] = "idle"
    BY <1>1, <1>6 DEF Broadcasted, Caller
  <2>2. QED
    BY <2>1 DEF LastLine, Pending
<1>7. QED
  BY <1>2, <1>3, <1>4, <1>5, <1>6, LinesStay


\* Nothing new is scheduled for c, and none of what is gets lost.
LEMMA RelayedStays ==
  ASSUME ServerTypeOK, LifeInv, WorkInv, LineInv, Next, open, NEW c \in Peers, Relayed(c),
         since'[c] = since[c], sent'[c] \o queue'[c] = sent[c] \o queue[c],
         Schedule("listen") => (c \in audience'["listen"] <=> c \in audience["listen"]),
         Schedule("app") => (c \in audience'["app"] <=> c \in audience["app"])
  PROVE  Relayed(c)'
<1>1. LastLine(c)' = LastLine(c)
  BY LastLineStays
<1>2. \A s \in Client \ {c[1]} : LastOf(s, c)' = LastOf(s, c)
  BY LastOfStays
<1>3. Relayed(c)' <=>
        /\ \A s \in Client \ {c[1]} :
             /\ since'[c][s] <= LastOf(s, c)'
             /\ HoldsRun(sent'[c] \o queue'[c], s, since'[c][s] + 1, LastOf(s, c)')
        /\ \E first \in 1 .. LastLine(c)' + 1 :
             HoldsRun(sent'[c] \o queue'[c], "operator", first, LastLine(c)')
  BY DEF Relayed
<1>4. QED
  BY <1>1, <1>2, <1>3 DEF Relayed

\* Schedule queues the next message of its source for c.
LEMMA RelayedNext ==
  ASSUME ServerTypeOK, LifeInv, WorkInv, LineInv, EchoInv, Next, open,
         NEW t \in {"listen", "app"}, Schedule(t),
         NEW c \in Peers, Relayed(c), c \in audience[t],
         queue'[c] = Append(queue[c], line[t]), c \notin audience'[t]
  PROVE  Relayed(c)'
<1> USE DEF connVars, threadVars, Goes
<1> DEFINE m == line[t]
           q == sent[c] \o queue[c]
<1>1. /\ at \in [Thread -> Point] /\ line \in [Thread -> Message]
      /\ audience \in [Thread -> SUBSET Conn] /\ typed \in Nat
      /\ queue \in [Conn -> Seq(Message)] /\ sent \in [Conn -> Seq(Message)]
      /\ since \in [Conn -> [Client -> Nat]]
      /\ c \in Conn /\ c[1] \in Client /\ t \in Thread
  <2>1. c \in Conn /\ c[1] \in Client
    BY MadeIsConn
  <2>2. typed \in Nat
    BY ServerAssumption DEF ServerTypeOK
  <2>3. QED
    BY <2>1, <2>2 DEF ServerTypeOK, Thread
<1>2. /\ at[t] = "cast" /\ UNCHANGED <<at, line, sent, since, taken, peers, typed>>
      /\ \E d \in audience[t] : audience' = [audience EXCEPT ![t] = @ \ {d}]
  BY DEF Schedule
<1>3. /\ m \in Message /\ m.from # c[1] /\ q \in Seq(Message)
      /\ sent'[c] \o queue'[c] = Append(q, m)
  BY <1>1, <1>2, ScheduledLast, ConcatProperties DEF EchoInv
<1>4. \A u \in {"listen", "app"} : u # t => audience'[u] = audience[u]
  BY <1>1, <1>2 DEF Thread
<1>5. /\ \A s \in Client \ {c[1]} :
           /\ since[c][s] \in Nat /\ since[c][s] <= LastOf(s, c) /\ LastOf(s, c) \in Nat
           /\ HoldsRun(q, s, since[c][s] + 1, LastOf(s, c))
      /\ \E first \in 1 .. LastLine(c) + 1 : HoldsRun(q, "operator", first, LastLine(c))
  BY <1>1, LastTypes DEF Relayed
<1>6. Relayed(c)' <=>
        /\ \A s \in Client \ {c[1]} :
             /\ since[c][s] <= LastOf(s, c)'
             /\ HoldsRun(Append(q, m), s, since[c][s] + 1, LastOf(s, c)')
        /\ \E first \in 1 .. LastLine(c)' + 1 :
             HoldsRun(Append(q, m), "operator", first, LastLine(c)')
  BY <1>2, <1>3 DEF Relayed
<1> HIDE DEF q, m
<1>7. CASE t = "listen"
  <2>1. Pending("listen", c) /\ ~ Pending("listen", c)'
    BY <1>2, <1>7 DEF Pending
  <2>2. LastLine(c)' = LastLine(c) /\ LastLine(c) \in Nat
    BY <1>1, <1>2, <1>4, <1>7 DEF LastLine, Pending, LineInv
  <2>3. m.from # "operator"
    BY <1>1, <1>7, ServerAssumption, MadeIsConn, SMTT(30) DEF LineInv, NoLine, Is, m, Thread
  <2>4. PICK first \in 1 .. LastLine(c) + 1 : HoldsRun(q, "operator", first, LastLine(c))
    BY <1>5
  <2>5. HoldsRun(Append(q, m), "operator", first, LastLine(c))
    BY <1>3, <2>2, <2>3, <2>4, RunStays
  <2>6. ASSUME NEW s \in Client \ {c[1]}
        PROVE  /\ since[c][s] <= LastOf(s, c)'
               /\ HoldsRun(Append(q, m), s, since[c][s] + 1, LastOf(s, c)')
    <3>1. CASE m.from = s
      <4>1. LastOf(s, c) = Taken(s) - 1 /\ LastOf(s, c)' = Taken(s) /\ Taken(s) \in Nat
        BY <1>2, <1>7, <2>1, <3>1, LastTypes DEF LastOf, m, Taken
      <4>2. m.n = Taken(s)
        <5>1. m # NoLine
          BY <3>1, ServerAssumption DEF NoLine
        <5>2. conn["listen"] \in Peers
          BY <1>2, <1>7, OpenPeers DEF WorkInv
        <5>3. m.n = taken[conn["listen"]] /\ s = conn["listen"][1]
          BY <1>7, <3>1, <5>1 DEF LineInv, Is, m
        <5>4. conn["listen"] = <<s, peers[s]>> /\ peers[s] # 0
          BY <5>2, <5>3, MadeIsConn DEF Peers, Life
        <5>5. QED
          BY <5>3, <5>4 DEF Taken
      <4>3. HoldsRun(q, m.from, since[c][s] + 1, LastOf(s, c)) /\ m.n = LastOf(s, c) + 1
        BY <1>5, <3>1, <4>1, <4>2
      <4>4. HoldsRun(Append(q, m), m.from, since[c][s] + 1, LastOf(s, c) + 1)
        <5>1. since[c][s] + 1 \in Nat /\ since[c][s] + 1 <= LastOf(s, c) + 1 /\ LastOf(s, c) \in Nat
          BY <1>5
        <5>2. QED
          BY <1>3, <4>3, <5>1, RunGoesOn
      <4>5. LastOf(s, c)' = LastOf(s, c) + 1
        BY <4>1
      <4>6. QED
        BY <1>5, <3>1, <4>4, <4>5
    <3>2. CASE m.from # s
      <4>1. LastOf(s, c)' = LastOf(s, c)
        BY <1>2, <1>7, <3>2 DEF LastOf, m, Taken
      <4>2. HoldsRun(Append(q, m), s, since[c][s] + 1, LastOf(s, c))
        <5>1. since[c][s] + 1 \in Nat /\ LastOf(s, c) \in Nat
              /\ HoldsRun(q, s, since[c][s] + 1, LastOf(s, c))
          BY <1>5
        <5>2. QED
          BY <1>3, <3>2, <5>1, RunStays
      <4>3. QED
        BY <1>5, <4>1, <4>2
    <3>3. QED
      BY <3>1, <3>2
  <2>7. QED
    BY <1>6, <2>2, <2>5, <2>6
<1>8. CASE t = "app"
  <2>1. Pending("app", c) /\ ~ Pending("app", c)'
    BY <1>2, <1>8 DEF Pending
  <2>2. m.from = "operator" /\ m.n = typed /\ typed > 0
    BY <1>2, <1>8 DEF LineInv, Is, m
  <2>3. LastLine(c) = typed - 1 /\ LastLine(c)' = typed /\ LastLine(c) \in Nat
    BY <1>1, <1>2, <2>1, <2>2 DEF LastLine
  <2>4. PICK first \in 1 .. LastLine(c) + 1 : HoldsRun(q, "operator", first, LastLine(c))
    BY <1>5
  <2>5. HoldsRun(Append(q, m), "operator", first, LastLine(c)')
    <3>1. first \in Nat /\ first <= LastLine(c) + 1 /\ m.n = LastLine(c) + 1
          /\ LastLine(c)' = LastLine(c) + 1
      BY <1>1, <2>2, <2>3, <2>4
    <3>2. QED
      BY <1>3, <2>2, <2>3, <2>4, <3>1, RunGoesOn
  <2>6. ASSUME NEW s \in Client \ {c[1]}
        PROVE  /\ since[c][s] <= LastOf(s, c)'
               /\ HoldsRun(Append(q, m), s, since[c][s] + 1, LastOf(s, c)')
    <3>1. LastOf(s, c)' = LastOf(s, c)
      BY <1>2, <1>4, <1>8 DEF LastOf, Pending, Taken
    <3>2. m.from # s
      BY <2>2, ServerAssumption
    <3>3. since[c][s] + 1 \in Nat /\ LastOf(s, c) \in Nat
          /\ HoldsRun(q, s, since[c][s] + 1, LastOf(s, c))
      BY <1>5
    <3>4. HoldsRun(Append(q, m), s, since[c][s] + 1, LastOf(s, c))
      BY <1>3, <3>2, <3>3, RunStays
    <3>5. QED
      BY <1>5, <3>1, <3>4
  <2>7. first \in 1 .. LastLine(c)' + 1
    BY <1>1, <2>3, <2>4
  <2>8. QED
    BY <1>6, <2>5, <2>6, <2>7
<1>9. QED
  BY <1>7, <1>8

\* A client that joins is announced, and owed what is taken from then on.
LEMMA RelayedFirst ==
  ASSUME ServerTypeOK, LifeInv, WorkInv, LineInv, AddPeer, Next, open,
         NEW c \in Conn, c = conn'["listen"], c \notin Made
  PROVE  Relayed(c)'
<1> USE DEF connVars, threadVars, Goes
<1> DEFINE a == conn["listen"][1]
<1>1. /\ at \in [Thread -> Point] /\ conn \in [Thread -> Client \X (Life \cup {0})]
      /\ taken \in [Conn -> Nat] /\ peers \in [Client -> {0} \cup Life]
      /\ since \in [Conn -> [Client -> Nat]] /\ typed \in Nat
      /\ Thread = {"listen", "send", "app"}
  BY ServerAssumption, SMTT(30) DEF ServerTypeOK, Thread
<1>2. /\ a \in Client /\ peers[a] = 0 /\ c = <<a, lives[a] + 1>>
      /\ peers' = [peers EXCEPT ![a] = lives[a] + 1]
      /\ since' = [since EXCEPT ![c] = [s \in Client |-> Taken(s)]]
      /\ at' = [at EXCEPT !["listen"] = "copy"] /\ line' = line /\ line["listen"] = NoLine
      /\ UNCHANGED <<taken, typed, sent, queue, audience>>
  BY <1>1, AddedIsNew DEF AddPeer, LineInv
<1>3. sent'[c] \o queue'[c] = <<>>
  <2>1. sent[c] = <<>> /\ queue[c] = <<>>
    BY DEF WorkInv
  <2>2. <<>> \in Seq(Message)
    OBVIOUS
  <2>3. QED
    BY <1>2, <2>1, <2>2, ConcatEmptySeq
<1>4. ASSUME NEW s \in Client \ {c[1]}
      PROVE  since'[c][s] = Taken(s) /\ LastOf(s, c)' = Taken(s) /\ Taken(s) \in Nat
  <2>1. Taken(s)' = Taken(s) /\ Taken(s) \in Nat
    <3>1. s \in Client /\ s # a
      BY <1>2
    <3>2. peers'[s] = peers[s]
      BY <1>1, <1>2, <3>1
    <3>3. QED
      BY <1>2, <3>1, <3>2, LastTypes DEF Taken
  <2>2. line'["listen"].from # s
    BY <1>2, ServerAssumption DEF NoLine
  <2>3. LastOf(s, c)' = Taken(s)
    BY <2>1, <2>2 DEF LastOf
  <2>4. since'[c] = [r \in Client |-> Taken(r)]
    BY <1>1, <1>2
  <2>5. QED
    BY <2>1, <2>3, <2>4
<1>5. LastLine(c)' \in Nat
  <2>1. at'["app"] = at["app"] /\ audience'["app"] = audience["app"]
    BY <1>1, <1>2
  <2>2. CASE Pending("app", c)'
    <3>1. at["app"] \in {"copy", "cast"}
      BY <2>1, <2>2 DEF Pending
    <3>2. QED
      BY <1>1, <1>2, <3>1 DEF LineInv, LastLine
  <2>3. CASE ~ Pending("app", c)'
    BY <1>1, <1>2, <2>3 DEF LastLine
  <2>4. QED
    BY <2>2, <2>3
<1>6. \A s \in Client \ {c[1]} :
         /\ since'[c][s] <= LastOf(s, c)'
         /\ HoldsRun(sent'[c] \o queue'[c], s, since'[c][s] + 1, LastOf(s, c)')
  BY <1>3, <1>4, RunBegins
<1>7. \E first \in 1 .. LastLine(c)' + 1 :
         HoldsRun(sent'[c] \o queue'[c], "operator", first, LastLine(c)')
  <2>1. HoldsRun(sent'[c] \o queue'[c], "operator", LastLine(c)' + 1, LastLine(c)')
    BY <1>3, <1>5, RunBegins
  <2>2. LastLine(c)' + 1 \in 1 .. LastLine(c)' + 1
    BY <1>5
  <2>3. QED
    BY <2>1, <2>2
<1>8. QED
  BY <1>6, <1>7 DEF Relayed


\* SendTo on the open socket moves the first packet of the queue to what is sent.
LEMMA SendToMoves ==
  ASSUME ServerTypeOK, LifeInv, WorkInv, SendTo
  PROVE  /\ conn["send"] \in Conn
         /\ open => conn["send"] \in Peers
         /\ \A c \in Conn : c # conn["send"] => sent'[c] = sent[c] /\ queue'[c] = queue[c]
         /\ sent' = sent \/ open
         /\ sent' = sent \/ sent'[conn["send"]] \o queue'[conn["send"]]
                            = sent[conn["send"]] \o queue[conn["send"]]
         /\ open' => sent' # sent
         /\ sent'[conn["send"]] \in Seq(Message) /\ queue'[conn["send"]] \in Seq(Message)
<1> DEFINE d == conn["send"]
<1>1. /\ queue \in [Conn -> Seq(Message)] /\ sent \in [Conn -> Seq(Message)]
      /\ d \in Made /\ d \in Conn
  BY MadeIsConn DEF ServerTypeOK, SendTo, WorkInv
<1>2. /\ queue[d] \in Seq(Message) /\ sent[d] \in Seq(Message) /\ queue[d] # <<>>
      /\ queue' = [queue EXCEPT ![d] = Tail(queue[d])]
      /\ \/ open /\ sent' = [sent EXCEPT ![d] = Append(sent[d], Head(queue[d]))]
         \/ ~ open' /\ sent' = sent
  BY <1>1 DEF SendTo, AfterSendFails
<1>3. /\ Head(queue[d]) \in Message /\ Tail(queue[d]) \in Seq(Message)
      /\ Append(sent[d], Head(queue[d])) \in Seq(Message)
      /\ Append(sent[d], Head(queue[d])) \o Tail(queue[d]) = sent[d] \o queue[d]
  BY <1>2, SentNext
<1>4. Append(sent[d], Head(queue[d])) # sent[d]
  <2>1. Len(Append(sent[d], Head(queue[d]))) = Len(sent[d]) + 1 /\ Len(sent[d]) \in Nat
    BY <1>2, <1>3, AppendProperties, LenProperties
  <2>2. QED
    BY <2>1
<1>5. open => d \in Peers
  BY <1>1, OpenPeers
<1>6. QED
  BY <1>1, <1>2, <1>3, <1>4, <1>5

LEMMA RelayStep ==
  ASSUME ServerTypeOK, LifeInv, WorkInv, LineInv, EchoInv, RelayInv, Next
  PROVE  RelayInv'
<1> SUFFICES ASSUME open', NEW c \in Peers'
             PROVE  Relayed(c)'
  BY DEF RelayInv
<1>1. open /\ ServerTypeOK' /\ LifeInv'
  BY PeersStay, ServerTypeStep, LifeStep
<1>2. /\ Peers = Made /\ Peers' = Made' /\ Made \subseteq Conn
      /\ \A d \in Peers : Relayed(d)
  <2>1. \A a \in Client : peers'[a] = lives'[a] /\ lives'[a] \in {0, 1}
    <3>1. ~ Cleared'
      BY <1>1 DEF LifeInv, Cleared
    <3>2. lives' \in [Client -> {0} \cup Life]
      BY <1>1 DEF ServerTypeOK
    <3>3. QED
      BY <1>1, <3>1, <3>2 DEF LifeInv, Life
  <2>2. \A d \in Conn : peers'[d[1]] = d[2] <=> d[2] <= lives'[d[1]]
    BY <2>1 DEF Conn, Life
  <2>3. Peers' = Made'
    BY <2>2 DEF Peers, Made
  <2>4. QED
    BY <1>1, <2>3, OpenPeers, MadeIsConn DEF RelayInv
<1>3. c \in Conn
  BY <1>2 DEF Peers
<1>4. CASE c \notin Made
  <2>1. AddPeer /\ c = conn'["listen"]
    BY <1>2, <1>4, MadeStays
  <2>2. QED
    BY <1>1, <1>3, <1>4, <2>1, RelayedFirst
<1>5. CASE c \in Made
  <2>1. c \in Peers /\ Relayed(c)
    BY <1>2, <1>5
  <2>2. since'[c] = since[c]
    <3>1. CASE AddPeer
      <4>1. since' = [since EXCEPT ![<<conn["listen"][1], lives[conn["listen"][1]] + 1>>] =
                       [s \in Client |-> Taken(s)]]
        BY <3>1 DEF AddPeer
      <4>2. <<conn["listen"][1], lives[conn["listen"][1]] + 1>> # c
        BY <1>5, <3>1, AddedIsNew
      <4>3. since \in [Conn -> [Client -> Nat]]
        BY DEF ServerTypeOK
      <4>4. QED
        BY <1>3, <4>1, <4>2, <4>3
    <3>2. CASE ~ AddPeer
      BY <3>2, PeersStay
    <3>3. QED
      BY <3>1, <3>2
  <2>3. ASSUME NEW t \in {"listen", "app"}, Schedule(t)
        PROVE  Relayed(c)'
    <3>1. PICK d \in audience[t] : /\ queue' = [queue EXCEPT ![d] = Append(queue[d], line[t])]
                                   /\ audience' = [audience EXCEPT ![t] = @ \ {d}]
      BY <2>3 DEF Schedule, Queued
    <3>2. /\ queue \in [Conn -> Seq(Message)] /\ audience \in [Thread -> SUBSET Conn]
          /\ t \in Thread /\ sent' = sent /\ at' = at /\ at[t] = "cast"
      BY <2>3 DEF ServerTypeOK, Thread, Schedule
    <3>3. CASE c = d
      BY <1>1, <1>3, <2>1, <2>3, <3>1, <3>2, <3>3, RelayedNext
    <3>4. CASE c # d
      <4>1. queue'[c] = queue[c]
        BY <1>3, <3>1, <3>2, <3>4
      <4>2. \A u \in Thread : c \in audience'[u] <=> c \in audience[u]
        BY <3>1, <3>2, <3>4
      <4>3. sent'[c] \o queue'[c] = sent[c] \o queue[c]
        BY <3>2, <4>1
      <4>4. QED
        BY <1>1, <2>1, <2>2, <4>2, <4>3, RelayedStays DEF Thread
    <3>5. QED
      BY <3>3, <3>4
  <2>4. ASSUME \A t \in {"listen", "app"} : ~ Schedule(t),
               sent'[c] \o queue'[c] = sent[c] \o queue[c]
        PROVE  Relayed(c)'
    BY <1>1, <2>1, <2>2, <2>4, RelayedStays
  <2>5. SendTo => sent'[c] \o queue'[c] = sent[c] \o queue[c]
    <3> SUFFICES ASSUME SendTo
                 PROVE  sent'[c] \o queue'[c] = sent[c] \o queue[c]
      OBVIOUS
    <3>1. CASE c = conn["send"]
      BY <3>1, SendToMoves
    <3>2. CASE c # conn["send"]
      BY <1>3, <3>2, SendToMoves
    <3>3. QED
      BY <3>1, <3>2
  <2>6. QED
    BY <2>3, <2>4, <2>5, QueuesStay
<1>6. QED
  BY <1>4, <1>5

\* What has been sent stays in order: only what comes first in the queue is added.
LEMMA HeardStep ==
  ASSUME ServerTypeOK, LifeInv, WorkInv, LineInv, RelayInv, HeardInOrder, OperatorInOrder, Next
  PROVE  HeardInOrder' /\ OperatorInOrder'
<1>1. /\ since \in [Conn -> [Client -> Nat]] /\ typed \in 0 .. MaxLines /\ MaxLines \in Nat
      /\ sent \in [Conn -> Seq(Message)]
  BY ServerAssumption DEF ServerTypeOK
<1> DEFINE Heard(c) ==
             \A s \in Client \ {c[1]} : InOrderFrom(sent'[c], s, since'[c][s] + 1)
           Operator(c) ==
             \E first \in 1 .. MaxLines + 1 : InOrderFrom(sent'[c], "operator", first)
<1>2. ASSUME NEW c \in Conn
      PROVE  Heard(c) /\ Operator(c)
  <2>1. CASE sent'[c] = <<>>
    BY <1>1, <2>1, NothingInOrder
  <2>2. CASE since'[c] = since[c] /\ sent'[c] = sent[c]
    BY <2>2 DEF HeardInOrder, OperatorInOrder
  <2>3. CASE AddPeer
    <3> DEFINE d == <<conn["listen"][1], lives[conn["listen"][1]] + 1>>
    <3>1. /\ since' = [since EXCEPT ![d] = [s \in Client |-> Taken(s)]]
          /\ sent' = sent
      BY <2>3 DEF AddPeer
    <3>2. d \in Conn \ Made
      BY <2>3, AddedIsNew
    <3>3. CASE c = d
      BY <2>1, <3>1, <3>2, <3>3 DEF WorkInv
    <3>4. CASE c # d
      BY <1>1, <2>2, <3>1, <3>4
    <3>5. QED
      BY <3>3, <3>4
  <2>4. CASE ~ AddPeer /\ sent' = sent
    BY <2>2, <2>4, PeersStay
  <2>5. CASE SendTo
    <3> DEFINE d == conn["send"]
    <3>1. since' = since
      BY <2>5 DEF SendTo
    <3>2. CASE c # d \/ sent' = sent
      BY <2>2, <2>5, <3>1, <3>2, SendToMoves
    <3>3. CASE c = d /\ sent' # sent
      <4>1. /\ c \in Peers /\ open
            /\ sent'[c] \in Seq(Message) /\ queue'[c] \in Seq(Message)
            /\ sent'[c] \o queue'[c] = sent[c] \o queue[c]
        BY <2>5, <3>3, SendToMoves
      <4>2. Relayed(c)
        BY <4>1 DEF RelayInv
      <4>3. ASSUME NEW s \in Client \ {c[1]}
            PROVE  InOrderFrom(sent'[c], s, since'[c][s] + 1)
        <5>1. InOrderFrom(sent'[c] \o queue'[c], s, since[c][s] + 1) /\ since[c][s] + 1 \in Nat
          BY <1>1, <4>1, <4>2 DEF Relayed, HoldsRun
        <5>2. QED
          BY <3>1, <4>1, <5>1, PrefixInOrder
      <4>4. PICK first \in 1 .. LastLine(c) + 1 :
              InOrderFrom(sent'[c] \o queue'[c], "operator", first)
        BY <4>1, <4>2 DEF Relayed, HoldsRun
      <4>5. first \in 1 .. MaxLines + 1
        BY <1>1, <4>4 DEF LastLine
      <4>6. InOrderFrom(sent'[c], "operator", first)
        <5>1. first \in Nat
          BY <4>5
        <5>2. QED
          BY <4>1, <4>4, <5>1, PrefixInOrder
      <4>7. QED
        BY <4>3, <4>5, <4>6
    <3>4. QED
      BY <3>2, <3>3
  <2>6. ASSUME NEW t \in {"listen", "app"}, Schedule(t)
        PROVE  sent' = sent
    BY <2>6 DEF Schedule
  <2>7. QED
    BY <2>3, <2>4, <2>5, <2>6, QueuesStay
<1>3. QED
  BY <1>2 DEF HeardInOrder, OperatorInOrder

----------------------------------------------------------------------------
(* The theorems. *)

LEMMA ServerInvInit == Init => ServerTypeOK /\ ServerInv
<1> SUFFICES ASSUME Init
             PROVE  ServerTypeOK /\ ServerInv
  OBVIOUS
<1>1. ServerTypeOK
  BY ServerInitType
<1>2. LifeInv
  BY <1>1 DEF Init, LifeInv, Cleared, Thread
<1>3. /\ Made = {} /\ Peers = {}
  BY DEF Init, Made, Peers, Conn, Life
<1>4. \A c \in Conn : sent[c] = <<>> /\ queue[c] = <<>> /\ taken[c] = 0
  BY DEF Init
<1>5. \A t \in Thread : /\ visit[t] = {} /\ audience[t] = {} /\ line[t] = NoLine
                        /\ at[t] \in {"idle", "loop"}
  BY DEF Init
<1>6. WorkInv
  BY <1>4, <1>5 DEF WorkInv, Thread
<1>7. LineInv
  BY <1>5 DEF LineInv, Thread
<1>8. DOMAIN <<>> = {}
  OBVIOUS
<1>9. EchoInv /\ NoEcho
  BY <1>4, <1>5, <1>8 DEF EchoInv, NoEcho, Thread
<1>10. RelayInv
  BY <1>3 DEF RelayInv
<1>11. HeardInOrder /\ OperatorInOrder
  <2>1. 1 \in 1 .. MaxLines + 1
    BY ServerAssumption
  <2>2. QED
    BY <1>4, <2>1, NothingInOrder DEF HeardInOrder, OperatorInOrder
<1>12. QED
  BY <1>1, <1>2, <1>6, <1>7, <1>9, <1>10, <1>11 DEF ServerInv

LEMMA ServerInvStep ==
  ASSUME ServerTypeOK, ServerInv, [Next]_vars
  PROVE  ServerTypeOK' /\ ServerInv'
<1>1. CASE Next
  BY <1>1, ServerTypeStep, LifeStep, WorkStep, LineStep, EchoStep, RelayStep, HeardStep
     DEF ServerInv
<1>2. CASE UNCHANGED vars
  <2>1. /\ UNCHANGED <<open, asked, peers, lives, typed, crashed>>
        /\ UNCHANGED <<at, conn, visit, audience, line>>
        /\ UNCHANGED <<since, released, taken, queue, sent>>
    BY <1>2 DEF vars, threadVars, connVars
  <2>2. ServerTypeOK'
    BY <2>1 DEF ServerTypeOK
  <2>3. /\ Made' = Made /\ Peers' = Peers /\ Cleared' = Cleared
        /\ \A s : Taken(s)' = Taken(s)
        /\ \A t, c : Pending(t, c)' = Pending(t, c)
    BY <2>1 DEF Made, Peers, Cleared, Taken, Pending
  <2>4. LifeInv' /\ WorkInv'
    BY <2>1, <2>3 DEF ServerInv, LifeInv, WorkInv
  <2>5. LineInv' /\ EchoInv'
    BY <2>1 DEF ServerInv, LineInv, EchoInv
  <2>6. NoEcho' /\ HeardInOrder' /\ OperatorInOrder'
    BY <2>1 DEF ServerInv, NoEcho, HeardInOrder, OperatorInOrder
  <2>7. RelayInv'
    BY <2>1, <2>3 DEF ServerInv, RelayInv, Relayed, LastOf, LastLine
  <2>8. QED
    BY <2>2, <2>4, <2>5, <2>6, <2>7 DEF ServerInv
<1>3. QED
  BY <1>1, <1>2

\* The types, and where the threads of the server stand with its peers, in every
\* behaviour of Server.cpp and Chat.cpp.
THEOREM ServerTypeCorrect == Spec => []ServerTypeOK
<1>1. ServerTypeOK /\ ServerInv /\ [Next]_vars => (ServerTypeOK /\ ServerInv)'
  BY ServerInvStep
<1>2. QED
  BY <1>1, ServerInvInit, PTL DEF Spec

\* Each source has one unbroken run of messages on its way to each client, for
\* any number of clients (ServerInv is inductive with the types).
THEOREM ServerInvariant == Spec => []ServerInv
<1>1. ServerTypeOK /\ ServerInv /\ [Next]_vars => (ServerTypeOK /\ ServerInv)'
  BY ServerInvStep
<1>2. QED
  BY <1>1, ServerInvInit, PTL DEF Spec

\* No client is sent a message of its own (DataReceived, Chat.cpp:138).
THEOREM NeverEchoes == Spec => []NoEcho
<1>1. ServerInv => NoEcho
  BY DEF ServerInv
<1>2. QED
  BY <1>1, ServerInvariant, PTL

\* What a client is sent of another one is in order from when it joined, with
\* none left out, whether the socket fails, the server stops or a client joins.
THEOREM RelaysInOrder == Spec => []HeardInOrder
<1>1. ServerInv => HeardInOrder
  BY DEF ServerInv
<1>2. QED
  BY <1>1, ServerInvariant, PTL

\* So are the lines of the operator, which another thread broadcasts.
THEOREM LinesInOrder == Spec => []OperatorInOrder
<1>1. ServerInv => OperatorInOrder
  BY DEF ServerInv
<1>2. QED
  BY <1>1, ServerInvariant, PTL

\* Between two datagrams no message taken since a client joined is missing from
\* what was sent to it and what is queued for it.
THEOREM RelaysToEverybody == Spec => []NobodyPassedOver
<1>1. ServerTypeOK /\ ServerInv => NobodyPassedOver
  <2> SUFFICES ASSUME ServerTypeOK, ServerInv, open, at["listen"] \in {"loop", "receive"},
                      NEW c \in Peers, NEW s \in Client \ {c[1]}
               PROVE  HoldsRun(sent[c] \o queue[c], s, since[c][s] + 1, Taken(s))
    BY DEF NobodyPassedOver
  <2>1. HoldsRun(sent[c] \o queue[c], s, since[c][s] + 1, LastOf(s, c))
    BY DEF ServerInv, RelayInv, Relayed
  <2>2. LastOf(s, c) = Taken(s)
    BY DEF LastOf, Pending
  <2>3. QED
    BY <2>1, <2>2
<1>2. QED
  BY <1>1, ServerTypeCorrect, ServerInvariant, PTL

==========================================================================
