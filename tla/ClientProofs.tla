--------------------------- MODULE ClientProofs ---------------------------
(***************************************************************************)
(* A client releases what its socket held, once per thread at most, and    *)
(* loses no message: ClientInv is an invariant whatever fails and however  *)
(* the three threads meet in Close.                                        *)
(***************************************************************************)
EXTENDS ClientInvariants, FiniteSetTheorems, TLAPS

----------------------------------------------------------------------------
(* Counting the threads in Close. *)

LEMMA Users == IsFiniteSet(User) /\ Cardinality(User) = 3
<1>1. IsFiniteSet({"app"}) /\ Cardinality({"app"}) = 1
  BY FS_Singleton
<1>2. IsFiniteSet({"app", "listen"}) /\ Cardinality({"app", "listen"}) = 2
  <2>1. {"app", "listen"} = {"app"} \cup {"listen"} /\ "listen" \notin {"app"}
    OBVIOUS
  <2>2. QED
    BY <1>1, <2>1, FS_AddElement
<1>3. IsFiniteSet({"app", "listen", "send"}) /\ Cardinality({"app", "listen", "send"}) = 3
  <2>1. /\ {"app", "listen", "send"} = {"app", "listen"} \cup {"send"}
        /\ "send" \notin {"app", "listen"}
    OBVIOUS
  <2>2. QED
    BY <1>2, <2>1, FS_AddElement
<1>4. QED
  BY <1>3, ClientAssumption

\* No thread is at two points at once.
LEMMA TwoPoints ==
  ASSUME NEW f, NEW p, NEW q, p # q
  PROVE  Count(f, p) \in Nat /\ Count(f, q) \in Nat /\ Count(f, p) + Count(f, q) <= 3
<1> DEFINE P == {t \in User : f[t] = p}
           Q == {t \in User : f[t] = q}
<1>1. /\ IsFiniteSet(P) /\ IsFiniteSet(Q) /\ IsFiniteSet(P \cup Q)
      /\ Cardinality(P \cup Q) <= 3
  <2>1. P \in SUBSET User /\ Q \in SUBSET User /\ P \cup Q \in SUBSET User
    OBVIOUS
  <2>2. QED
    BY <2>1, Users, FS_Subset
<1>2. P \cap Q = {} /\ Cardinality({}) = 0
  BY FS_EmptySet
<1>3. Cardinality(P \cup Q) = Cardinality(P) + Cardinality(Q) - 0
  BY <1>1, <1>2, FS_Union
<1>4. Cardinality(P) \in Nat /\ Cardinality(Q) \in Nat
  BY <1>1, FS_CardinalityType
<1>5. QED
  BY <1>1, <1>3, <1>4 DEF Count

LEMMA InBounds ==
  /\ In("null") \in Nat /\ In("free") \in Nat /\ In("null") + In("free") <= MaxReleases
  /\ In("invalid") \in Nat /\ In("close") \in Nat /\ In("invalid") + In("close") <= MaxReleases
<1>1. \A p, q : p # q => In(p) \in Nat /\ In(q) \in Nat /\ In(p) + In(q) <= MaxReleases
  BY TwoPoints DEF In, MaxReleases
<1>2. QED
  BY <1>1

LEMMA InBoundsAfter ==
  /\ In("null")' \in Nat /\ In("free")' \in Nat /\ In("null")' + In("free")' <= MaxReleases
  /\ In("invalid")' \in Nat /\ In("close")' \in Nat
  /\ In("invalid")' + In("close")' <= MaxReleases
<1>1. \A p, q : p # q => In(p)' \in Nat /\ In(q)' \in Nat /\ In(p)' + In(q)' <= MaxReleases
  BY TwoPoints DEF In, MaxReleases
<1>2. QED
  BY <1>1

\* A step of Close counts the thread at its new point.
LEMMA Moves ==
  ASSUME closing \in [User -> ClosePoint], NEW t \in User, NEW from, NEW to \in ClosePoint,
         from # to, At(t, from, to)
  PROVE  /\ In(from)' = In(from) - 1 /\ In(to)' = In(to) + 1
         /\ \A p : p \notin {from, to} => In(p)' = In(p)
         /\ In(from) >= 1
<1>1. closing[t] = from /\ closing' = [closing EXCEPT ![t] = to]
  BY DEF At
<1>2. \A u \in User : closing'[u] = IF u = t THEN to ELSE closing[u]
  BY <1>1
<1> DEFINE S(p) == {u \in User : closing[u] = p}
           N(p) == {u \in User : closing'[u] = p}
<1>3. \A p : S(p) \in SUBSET User
  OBVIOUS
<1>4. \A p : IsFiniteSet(S(p)) /\ Cardinality(S(p)) \in Nat
  BY <1>3, Users, FS_Subset, FS_CardinalityType
<1>5. N(from) = S(from) \ {t} /\ t \in S(from)
  BY <1>1, <1>2
<1>6. N(to) = S(to) \cup {t} /\ t \notin S(to)
  BY <1>1, <1>2
<1>7. \A p : p \notin {from, to} => N(p) = S(p)
  BY <1>1, <1>2
<1>8. In(from) = Cardinality(S(from)) /\ In(to) = Cardinality(S(to))
      /\ In(from)' = Cardinality(N(from)) /\ In(to)' = Cardinality(N(to))
  BY DEF In, Count
<1>9. \A p : p \notin {from, to} => In(p)' = In(p)
  BY <1>7 DEF In, Count
<1> HIDE DEF S, N
<1>10. Cardinality(N(from)) = Cardinality(S(from)) - 1 /\ IsFiniteSet(N(from))
  BY <1>4, <1>5, FS_RemoveElement
<1>11. Cardinality(N(to)) = Cardinality(S(to)) + 1
  BY <1>4, <1>6, FS_AddElement
<1>12. Cardinality(N(from)) \in Nat
  BY <1>10, FS_CardinalityType
<1>13. Cardinality(S(from)) >= 1
  BY <1>4, <1>10, <1>12
<1>14. QED
  BY <1>8, <1>9, <1>10, <1>11, <1>13

----------------------------------------------------------------------------
(* Steps. *)

\* Outside of Close a step leaves the socket alone, or begins to close it.
Outside ==
  /\ UNCHANGED <<valid, info, closes, frees>>
  /\ UNCHANGED closing \/ \E t \in User : At(t, "no", "info")

LEMMA BeginsClose ==
  ASSUME NEW t \in User, closing[t] = "no", BeginClose(t)
  PROVE  At(t, "no", "info")
BY DEF BeginClose, At

LEMMA UserThreads == "app" \in User /\ "listen" \in User /\ "send" \in User
                     /\ \A t \in User : t \in {"app", "listen", "send"}
BY ClientAssumption

LEMMA OutsideOrClosing ==
  ASSUME Next
  PROVE  Outside \/ \E t \in User : Closing(t)
<1> USE DEF socketVars
<1>1. ASSUME NEW t \in User, NEW point, Is(t, point), NEW next, SendTo(t, next)
      PROVE  Outside
  BY <1>1, BeginsClose DEF SendTo, Outside, Is
<1>2. SendPing \/ SendPacket => Outside
  BY <1>1, UserThreads DEF SendPing, SendPacket
<1>3. Start \/ StartSendThread \/ StartListenThread \/ BindDataReceived => Outside
  BY DEF Start, StartSendThread, StartListenThread, BindDataReceived, Outside
<1>4. Send \/ Leave \/ RequestStop \/ Join => Outside
  BY DEF Send, Leave, RequestStop, Join, Outside
<1>5. StopCloses => Outside
  BY BeginsClose, UserThreads DEF StopCloses, Is, Outside
<1>6. ASSUME NEW t, Loop(t)
      PROVE  Outside
  BY <1>6 DEF Loop, Outside
<1>7. ReceiveFrom \/ Received \/ ProcessIncomingPacket \/ PopReadyOutgoing => Outside
  BY DEF ReceiveFrom, Received, ProcessIncomingPacket, PopReadyOutgoing, Outside
<1>8. ReceiveFails \/ ReceiveError => Outside
  BY BeginsClose, UserThreads DEF ReceiveFails, ReceiveError, Is, Outside
<1>9. Arrives \/ Lose \/ Answer => Outside
  BY DEF Arrives, Lose, Answer, Outside
<1>10. QED
  BY <1>2, <1>3, <1>4, <1>5, <1>6, <1>7, <1>8, <1>9, UserThreads
     DEF Next, StartStep, StopStep, ListenStep, SendStep, NetworkStep

----------------------------------------------------------------------------
(* What is released. *)

LEMMA ReleaseStep ==
  ASSUME ClientTypeOK, ReleaseInv, Next
  PROVE  ReleaseInv'
<1>1. /\ closing \in [User -> ClosePoint] /\ closes \in Nat /\ frees \in Nat
      /\ valid \in BOOLEAN /\ info \in BOOLEAN
  BY DEF ClientTypeOK, SocketTypeOK, MaxReleases
<1>2. /\ info => frees = In("null")
      /\ frees + In("free") <= MaxReleases
      /\ valid => closes = In("invalid")
      /\ closes + In("close") <= MaxReleases
  BY DEF ReleaseInv
<1> DEFINE Point4 == {"null", "free", "invalid", "close"}
<1>3. CASE Outside
  <2>1. UNCHANGED <<valid, info, closes, frees>>
    BY <1>3 DEF Outside
  <2>2. \A p \in Point4 : In(p)' = In(p)
    <3>1. CASE UNCHANGED closing
      BY <3>1 DEF In
    <3>2. ASSUME NEW t \in User, At(t, "no", "info")
          PROVE  \A p \in Point4 : In(p)' = In(p)
      BY <1>1, <3>2, Moves DEF ClosePoint
    <3>3. QED
      BY <1>3, <3>1, <3>2 DEF Outside
  <2>3. QED
    BY <1>2, <2>1, <2>2 DEF ReleaseInv
<1>4. ASSUME NEW t \in User, CloseStep(t)
      PROVE  ReleaseInv'
  <2>1. CASE TestInfo(t)
    <3>1. /\ UNCHANGED <<valid, info, closes, frees>>
          /\ \/ info /\ At(t, "info", "free")
             \/ ~ info /\ At(t, "info", "handle")
      BY <2>1 DEF TestInfo
    <3>2. /\ In("null")' = In("null") /\ In("invalid")' = In("invalid")
          /\ In("close")' = In("close")
          /\ ~ info => In("free")' = In("free")
      BY <1>1, <3>1, Moves DEF ClosePoint
    <3>3. QED
      BY <1>1, <1>2, <3>1, <3>2, InBounds, InBoundsAfter DEF ReleaseInv
  <2>2. CASE FreeInfo(t)
    <3>1. /\ UNCHANGED <<valid, info, closes>> /\ frees' = frees + 1 /\ At(t, "free", "null")
      BY <2>2 DEF FreeInfo
    <3>2. /\ In("null")' = In("null") + 1 /\ In("free")' = In("free") - 1
          /\ In("invalid")' = In("invalid") /\ In("close")' = In("close")
      BY <1>1, <3>1, Moves DEF ClosePoint
    <3>3. QED
      BY <1>1, <1>2, <3>1, <3>2, InBounds DEF ReleaseInv
  <2>3. CASE ForgetInfo(t)
    <3>1. /\ UNCHANGED <<valid, closes, frees>> /\ info' = FALSE /\ At(t, "null", "handle")
      BY <2>3 DEF ForgetInfo
    <3>2. /\ In("free")' = In("free")
          /\ In("invalid")' = In("invalid") /\ In("close")' = In("close")
      BY <1>1, <3>1, Moves DEF ClosePoint
    <3>3. QED
      BY <1>2, <3>1, <3>2 DEF ReleaseInv
  <2>4. CASE TestHandle(t)
    <3>1. /\ UNCHANGED <<valid, info, closes, frees>>
          /\ \/ valid /\ At(t, "handle", "close")
             \/ ~ valid /\ At(t, "handle", "no")
      BY <2>4 DEF TestHandle
    <3>2. /\ In("null")' = In("null") /\ In("invalid")' = In("invalid")
          /\ In("free")' = In("free")
          /\ ~ valid => In("close")' = In("close")
      BY <1>1, <3>1, Moves DEF ClosePoint
    <3>3. QED
      BY <1>1, <1>2, <3>1, <3>2, InBounds, InBoundsAfter DEF ReleaseInv
  <2>5. CASE CloseHandle(t)
    <3>1. /\ UNCHANGED <<valid, info, frees>> /\ closes' = closes + 1
          /\ At(t, "close", "invalid")
      BY <2>5 DEF CloseHandle
    <3>2. /\ In("null")' = In("null") /\ In("free")' = In("free")
          /\ In("invalid")' = In("invalid") + 1 /\ In("close")' = In("close") - 1
      BY <1>1, <3>1, Moves DEF ClosePoint
    <3>3. QED
      BY <1>1, <1>2, <3>1, <3>2, InBounds DEF ReleaseInv
  <2>6. CASE ForgetHandle(t)
    <3>1. /\ UNCHANGED <<info, closes, frees>> /\ valid' = FALSE /\ At(t, "invalid", "no")
      BY <2>6 DEF ForgetHandle
    <3>2. /\ In("null")' = In("null") /\ In("free")' = In("free") /\ In("close")' = In("close")
      BY <1>1, <3>1, Moves DEF ClosePoint
    <3>3. QED
      BY <1>2, <3>1, <3>2 DEF ReleaseInv
  <2>7. QED
    BY <1>4, <2>1, <2>2, <2>3, <2>4, <2>5, <2>6 DEF CloseStep
<1>5. QED
  BY <1>3, <1>4, OutsideOrClosing DEF Closing

LEMMA InTurnStep ==
  ASSUME ClientTypeOK, InTurn, Next
  PROVE  InTurn'
<1>1. /\ closing \in [User -> ClosePoint] /\ closes \in Nat /\ frees \in Nat
      /\ valid \in BOOLEAN /\ info \in BOOLEAN
  BY DEF ClientTypeOK, SocketTypeOK, MaxReleases
<1>2. /\ ~ info => frees >= 1
      /\ ~ valid => closes >= 1 /\ ~ info
      /\ \A t \in User :
           /\ closing[t] = "null" => frees >= 1
           /\ closing[t] \in {"handle", "close", "invalid"} => ~ info
           /\ closing[t] = "invalid" => closes >= 1
  BY DEF InTurn
<1>3. ASSUME NEW t \in User, NEW from, NEW to, At(t, from, to)
      PROVE  closing[t] = from /\ \A u \in User : closing'[u] = IF u = t THEN to ELSE closing[u]
  BY <1>1, <1>3 DEF At
<1>4. CASE Outside
  <2>1. UNCHANGED <<valid, info, closes, frees>>
    BY <1>4 DEF Outside
  <2>2. \A u \in User : closing'[u] \in {closing[u], "info"}
    BY <1>3, <1>4 DEF Outside
  <2>3. QED
    BY <1>2, <2>1, <2>2 DEF InTurn
<1>5. ASSUME NEW t \in User, CloseStep(t)
      PROVE  InTurn'
  <2>1. CASE TestInfo(t)
    <3>1. /\ UNCHANGED <<valid, info, closes, frees>>
          /\ \/ info /\ At(t, "info", "free")
             \/ ~ info /\ At(t, "info", "handle")
      BY <2>1 DEF TestInfo
    <3>2. QED
      BY <1>2, <1>3, <3>1 DEF InTurn
  <2>2. CASE FreeInfo(t)
    <3>1. /\ UNCHANGED <<valid, info, closes>> /\ frees' = frees + 1 /\ At(t, "free", "null")
      BY <2>2 DEF FreeInfo
    <3>2. QED
      BY <1>1, <1>2, <1>3, <3>1 DEF InTurn
  <2>3. CASE ForgetInfo(t)
    <3>1. /\ UNCHANGED <<valid, closes, frees>> /\ info' = FALSE /\ At(t, "null", "handle")
      BY <2>3 DEF ForgetInfo
    <3>2. QED
      BY <1>2, <1>3, <3>1 DEF InTurn
  <2>4. CASE TestHandle(t)
    <3>1. /\ UNCHANGED <<valid, info, closes, frees>>
          /\ \/ valid /\ At(t, "handle", "close")
             \/ ~ valid /\ At(t, "handle", "no")
      BY <2>4 DEF TestHandle
    <3>2. QED
      BY <1>2, <1>3, <3>1 DEF InTurn
  <2>5. CASE CloseHandle(t)
    <3>1. /\ UNCHANGED <<valid, info, frees>> /\ closes' = closes + 1
          /\ At(t, "close", "invalid")
      BY <2>5 DEF CloseHandle
    <3>2. QED
      BY <1>1, <1>2, <1>3, <3>1 DEF InTurn
  <2>6. CASE ForgetHandle(t)
    <3>1. /\ UNCHANGED <<info, closes, frees>> /\ valid' = FALSE /\ At(t, "invalid", "no")
      BY <2>6 DEF ForgetHandle
    <3>2. QED
      BY <1>2, <1>3, <3>1 DEF InTurn
  <2>7. QED
    BY <1>5, <2>1, <2>2, <2>3, <2>4, <2>5, <2>6 DEF CloseStep
<1>6. QED
  BY <1>4, <1>5, OutsideOrClosing DEF Closing

\* A client without a socket passes Start by.
LEMMA NoSocketStep ==
  ASSUME ClientTypeOK, NoSocket, Next
  PROVE  NoSocket'
<1> USE DEF socketVars, Goes, Is
<1>1. /\ at \in [User -> Point] /\ closing \in [User -> ClosePoint]
      /\ "app" \in User /\ "listen" \in User /\ "send" \in User
  BY UserThreads DEF ClientTypeOK, SocketTypeOK
<1>2. /\ ~ valid /\ ~ info /\ closes = 0 /\ frees = 0
      /\ \A t \in User : closing[t] = "no"
      /\ at["listen"] = "none" /\ at["send"] = "none"
      /\ at["app"] \in {"bind", "start", "stop", "ask", "join", "gone"}
      /\ at["app"] = "bind" => BindsFirst
  BY DEF NoSocket
<1>3. Start => NoSocket'
  BY <1>1, <1>2 DEF Start, NoSocket
<1>4. BindDataReceived => NoSocket'
  BY <1>1, <1>2 DEF BindDataReceived, BoundBeforeStart, NoSocket
<1>5. StopCloses => NoSocket'
  BY <1>1, <1>2 DEF StopCloses, NoSocket
<1>6. RequestStop \/ Join => NoSocket'
  BY <1>1, <1>2 DEF RequestStop, Join, NoSocket
<1>7. ~ SendPing /\ ~ StartSendThread /\ ~ StartListenThread /\ ~ Send /\ ~ Leave
  BY <1>2 DEF SendPing, StartSendThread, StartListenThread, Send, Leave
<1>8. ~ Loop("listen") /\ ~ ReceiveFrom /\ ~ ReceiveFails /\ ~ Received
      /\ ~ ProcessIncomingPacket /\ ~ ReceiveError
  BY <1>2 DEF Loop, ReceiveFrom, ReceiveFails, Received, ProcessIncomingPacket, ReceiveError
<1>9. ~ Loop("send") /\ ~ PopReadyOutgoing /\ ~ SendPacket
  BY <1>2 DEF Loop, PopReadyOutgoing, SendPacket
<1>10. \A t \in User : ~ Closing(t)
  BY <1>2 DEF Closing, CloseStep, TestInfo, FreeInfo, ForgetInfo, TestHandle, CloseHandle,
              ForgetHandle, At
<1>11. Arrives \/ Lose \/ Answer => NoSocket'
  BY <1>2 DEF Arrives, Lose, Answer, NoSocket
<1>12. QED
  BY <1>1, <1>3, <1>4, <1>5, <1>6, <1>7, <1>8, <1>9, <1>10, <1>11
     DEF Next, StartStep, StopStep, ListenStep, SendStep, NetworkStep

----------------------------------------------------------------------------
(* Where the threads are. *)

\* The other threads leave the application where it is.
LEMMA AppMoves ==
  ASSUME ClientTypeOK, Next
  PROVE  \/ at'["app"] = at["app"] /\ closing'["app"] = closing["app"]
         \/ at'["app"] = at["app"] /\ Closing("app")
         \/ at'["app"] \notin {"ask", "join", "gone"}
         \/ StopCloses \/ RequestStop \/ Join
<1> USE DEF socketVars, Goes, Is
<1>1. /\ at \in [User -> Point] /\ closing \in [User -> ClosePoint]
      /\ "app" \in User /\ "listen" \in User /\ "send" \in User
  BY UserThreads DEF ClientTypeOK, SocketTypeOK
<1> DEFINE Stays == at'["app"] = at["app"] /\ closing'["app"] = closing["app"]
           Away  == at'["app"] \notin {"ask", "join", "gone"}
<1>2. Start \/ StartSendThread \/ StartListenThread \/ BindDataReceived => Away
  BY <1>1 DEF Start, StartSendThread, StartListenThread, BindDataReceived
<1>3. SendPing => Away
  BY <1>1 DEF SendPing, SendTo
<1>4. Send \/ Arrives \/ Lose \/ Answer => Stays
  BY DEF Send, Arrives, Lose, Answer
<1>5. Leave => Away
  BY <1>1 DEF Leave
<1>6. Loop("listen") \/ Loop("send") \/ ReceiveFrom \/ Received => Stays
  BY <1>1 DEF Loop, ReceiveFrom, Received
<1>7. ReceiveFails \/ ReceiveError => Stays
  BY <1>1 DEF ReceiveFails, ReceiveError, BeginClose
<1>8. ProcessIncomingPacket \/ PopReadyOutgoing => Stays
  BY <1>1 DEF ProcessIncomingPacket, PopReadyOutgoing
<1>9. SendPacket => Stays
  BY <1>1 DEF SendPacket, SendTo, BeginClose
<1>10. ASSUME NEW t \in {"listen", "send"}, Closing(t)
       PROVE  Stays
  BY <1>1, <1>10 DEF Closing, CloseStep, TestInfo, FreeInfo, ForgetInfo, TestHandle, CloseHandle,
                     ForgetHandle, At
<1>11. Closing("app") => at'["app"] = at["app"]
  BY DEF Closing
<1>12. QED
  BY <1>2, <1>3, <1>4, <1>5, <1>6, <1>7, <1>8, <1>9, <1>10, <1>11
     DEF Next, StartStep, StopStep, ListenStep, SendStep, NetworkStep

LEMMA StopStepInv ==
  ASSUME ClientTypeOK, StopInv, Next
  PROVE  StopInv'
<1> USE DEF socketVars, Goes, Is
<1>1. /\ at \in [User -> Point] /\ closing \in [User -> ClosePoint] /\ "app" \in User
  BY UserThreads DEF ClientTypeOK, SocketTypeOK
<1>2. /\ at["app"] \in {"ask", "join", "gone"} /\ closing["app"] = "no" => ~ valid
      /\ at["app"] \in {"join", "gone"} => closing["app"] = "no"
  BY DEF StopInv
<1>3. valid' => valid
  <2>1. ASSUME NEW t \in User, Closing(t)
        PROVE  valid' => valid
    BY <2>1 DEF Closing, CloseStep, TestInfo, FreeInfo, ForgetInfo, TestHandle, CloseHandle,
                ForgetHandle
  <2>2. QED
    BY <2>1, OutsideOrClosing DEF Outside
<1>4. CASE at'["app"] = at["app"] /\ closing'["app"] = closing["app"]
  BY <1>2, <1>3, <1>4 DEF StopInv
<1>5. CASE at'["app"] = at["app"] /\ Closing("app")
  <2>1. closing["app"] # "no"
    BY <1>5 DEF Closing, CloseStep, TestInfo, FreeInfo, ForgetInfo, TestHandle, CloseHandle,
                ForgetHandle, At
  <2>2. closing'["app"] = "no" => ~ valid'
    BY <1>1, <1>5 DEF Closing, CloseStep, TestInfo, FreeInfo, ForgetInfo, TestHandle,
                      CloseHandle, ForgetHandle, At
  <2>3. QED
    BY <1>2, <1>5, <2>1, <2>2 DEF StopInv
<1>6. CASE at'["app"] \notin {"ask", "join", "gone"}
  BY <1>6 DEF StopInv
<1>7. CASE StopCloses
  <2>1. /\ at'["app"] = "ask" /\ valid' = valid
        /\ valid => closing'["app"] = "info"
    BY <1>1, <1>7 DEF StopCloses, BeginClose
  <2>2. QED
    BY <2>1 DEF StopInv
<1>8. CASE RequestStop \/ Join
  <2>1. /\ at["app"] \in {"ask", "join"} /\ closing["app"] = "no"
        /\ closing' = closing /\ valid' = valid /\ at'["app"] \in {"join", "gone"}
    BY <1>1, <1>8 DEF RequestStop, Join
  <2>2. QED
    BY <1>2, <2>1 DEF StopInv
<1>9. QED
  BY <1>4, <1>5, <1>6, <1>7, <1>8, AppMoves

\* Only the listen thread, Answer and Start have to do with the messages that the
\* server sends and the client pops.
LEMMA AnswersStay ==
  ASSUME ClientTypeOK, Next
  PROVE  \/ Received \/ ProcessIncomingPacket \/ Answer \/ StartListenThread
         \/ /\ UNCHANGED <<inVars, answers>>
            /\ \/ at'["listen"] = at["listen"]
               \/ at'["listen"] # "process" /\ at["listen"] # "process"
<1> USE DEF socketVars, netVars, inVars, Goes, Is
<1>1. /\ at \in [User -> Point]
      /\ "app" \in User /\ "listen" \in User /\ "send" \in User
  BY UserThreads DEF ClientTypeOK, SocketTypeOK
<1> DEFINE Stays == /\ UNCHANGED <<inVars, answers>>
                    /\ \/ at'["listen"] = at["listen"]
                       \/ at'["listen"] # "process" /\ at["listen"] # "process"
<1>2. Start \/ StartSendThread \/ BindDataReceived => Stays
  BY <1>1 DEF Start, StartSendThread, BindDataReceived
<1>3. SendPing \/ SendPacket => Stays
  BY <1>1 DEF SendPing, SendPacket, SendTo
<1>4. Send \/ Leave \/ StopCloses \/ RequestStop \/ Join => Stays
  BY <1>1 DEF Send, Leave, StopCloses, RequestStop, Join
<1>5. Loop("listen") \/ Loop("send") \/ ReceiveFrom => Stays
  BY <1>1 DEF Loop, ReceiveFrom
<1>6. ReceiveFails \/ ReceiveError \/ PopReadyOutgoing => Stays
  BY <1>1 DEF ReceiveFails, ReceiveError, PopReadyOutgoing
<1>7. Arrives \/ Lose => Stays
  BY DEF Arrives, Lose
<1>8. ASSUME NEW t \in User, Closing(t)
      PROVE  Stays
  BY <1>8 DEF Closing
<1>9. QED
  BY <1>1, <1>2, <1>3, <1>4, <1>5, <1>6, <1>7, <1>8
     DEF Next, StartStep, StopStep, ListenStep, SendStep, NetworkStep

LEMMA AnswerStep ==
  ASSUME ClientTypeOK, StartInv, AnswerInv, Next
  PROVE  AnswerInv'
<1> USE DEF socketVars, netVars, inVars, Goes, Is
<1>1. /\ at \in [User -> Point] /\ "app" \in User /\ "listen" \in User
      /\ heard \in Nat /\ taken \in Nat /\ released \in Nat /\ answers \in Nat
      /\ bound \in BOOLEAN
  BY UserThreads, ClientAssumption DEF ClientTypeOK
<1>2. /\ heard <= taken /\ taken <= released /\ released <= answers
      /\ at["listen"] # "process" => taken = released
      /\ BindsFirst => heard = taken
  BY DEF AnswerInv
<1>3. CASE Received
  <2>1. /\ at'["listen"] = "process" /\ released' \in released .. answers
        /\ taken' = taken /\ heard' = heard /\ answers' = answers
    BY <1>1, <1>3 DEF Received
  <2>2. QED
    BY <1>1, <1>2, <2>1 DEF AnswerInv
<1>4. CASE ProcessIncomingPacket
  <2>1. /\ at["listen"] = "process" /\ released' = released /\ answers' = answers
    BY <1>4 DEF ProcessIncomingPacket
  <2>2. CASE taken = released
    <3>1. taken' = taken /\ heard' = heard
      BY <1>4, <2>2 DEF ProcessIncomingPacket
    <3>2. QED
      BY <1>2, <2>1, <2>2, <3>1 DEF AnswerInv
  <2>3. CASE taken # released
    <3>1. /\ taken' = taken + 1 /\ heard' = IF bound THEN heard + 1 ELSE heard
          /\ at' = at
      BY <1>4, <2>3 DEF ProcessIncomingPacket
    <3>2. BindsFirst => bound
      BY <2>1 DEF StartInv
    <3>3. QED
      BY <1>1, <1>2, <2>1, <2>3, <3>1, <3>2 DEF AnswerInv
  <2>4. QED
    BY <2>2, <2>3
<1>5. CASE Answer
  <2>1. answers' \in {answers, answers + 1} /\ UNCHANGED inVars /\ at' = at
    BY <1>5 DEF Answer
  <2>2. QED
    BY <1>1, <1>2, <2>1 DEF AnswerInv
<1>6. CASE StartListenThread
  <2>1. at["app"] = "listener" /\ UNCHANGED <<inVars, answers>>
    BY <1>6 DEF StartListenThread
  <2>2. at["listen"] = "none"
    BY <2>1 DEF StartInv
  <2>3. QED
    BY <1>2, <2>1, <2>2 DEF AnswerInv
<1>7. CASE /\ UNCHANGED <<inVars, answers>>
           /\ \/ at'["listen"] = at["listen"]
              \/ at'["listen"] # "process" /\ at["listen"] # "process"
  BY <1>2, <1>7 DEF AnswerInv
<1>8. QED
  BY <1>3, <1>4, <1>5, <1>6, <1>7, AnswersStay

LEMMA StartStepInv ==
  ASSUME ClientTypeOK, StartInv, Next
  PROVE  StartInv'
<1> USE DEF socketVars, Goes, Is, BoundBeforeStart
<1>1. /\ at \in [User -> Point] /\ BindsFirst \in BOOLEAN
      /\ "app" \in User /\ "listen" \in User /\ "send" \in User
  BY UserThreads, ClientAssumption DEF ClientTypeOK, SocketTypeOK
<1>2. /\ at["app"] \in {"start", "ping", "sender", "listener"} => at["listen"] = "none"
      /\ BindsFirst /\ at["app"] = "bind" => at["listen"] = "none"
      /\ BindsFirst /\ ~ bound => at["app"] = "bind"
  BY DEF StartInv
<1>3. Start \/ SendPing => StartInv'
  BY <1>1, <1>2 DEF Start, SendPing, SendTo, StartInv
<1>4. StartSendThread => StartInv'
  BY <1>1, <1>2 DEF StartSendThread, StartInv
<1>5. StartListenThread => StartInv'
  BY <1>1, <1>2 DEF StartListenThread, StartInv
<1>6. BindDataReceived => StartInv'
  BY <1>1, <1>2 DEF BindDataReceived, StartInv
<1>7. Leave \/ StopCloses \/ RequestStop \/ Join => StartInv'
  BY <1>1, <1>2 DEF Leave, StopCloses, RequestStop, Join, StartInv
<1>8. Loop("listen") \/ ReceiveFrom \/ ReceiveFails \/ Received => StartInv'
  BY <1>1, <1>2 DEF Loop, ReceiveFrom, ReceiveFails, Received, StartInv
<1>9. ProcessIncomingPacket \/ ReceiveError => StartInv'
  BY <1>1, <1>2 DEF ProcessIncomingPacket, ReceiveError, StartInv
<1>10. Loop("send") \/ PopReadyOutgoing \/ SendPacket => StartInv'
  BY <1>1, <1>2 DEF Loop, PopReadyOutgoing, SendPacket, SendTo, StartInv
<1>11. Send \/ Arrives \/ Lose \/ Answer => StartInv'
  BY <1>2 DEF Send, Arrives, Lose, Answer, StartInv
<1>12. ASSUME NEW t \in User, Closing(t)
       PROVE  StartInv'
  BY <1>2, <1>12 DEF Closing, StartInv
<1>13. QED
  BY <1>1, <1>3, <1>4, <1>5, <1>6, <1>7, <1>8, <1>9, <1>10, <1>11, <1>12
     DEF Next, StartStep, StopStep, ListenStep, SendStep, NetworkStep

----------------------------------------------------------------------------
(* Types. *)

LEMMA ClientTypeStep ==
  ASSUME ClientTypeOK, ReleaseInv, StartInv, AnswerInv, Next
  PROVE  ClientTypeOK'
<1> USE DEF socketVars, netVars, inVars, Goes, Is
<1>1. /\ valid \in BOOLEAN /\ info \in BOOLEAN /\ closing \in [User -> ClosePoint]
      /\ closes \in Nat /\ frees \in Nat /\ at \in [User -> Point]
      /\ asked \in BOOLEAN /\ bound \in BOOLEAN /\ known \in BOOLEAN /\ crashed \in BOOLEAN
      /\ outgoing \in 0 .. MaxQueued /\ toServer \in 0 .. MaxInFlight
      /\ toClient \in 0 .. MaxInFlight /\ answers \in 0 .. MaxAnswers
      /\ released \in 0 .. MaxAnswers /\ taken \in 0 .. MaxAnswers /\ heard \in 0 .. MaxAnswers
      /\ MaxQueued \in Nat /\ MaxInFlight \in Nat /\ MaxAnswers \in Nat
  BY ClientAssumption DEF ClientTypeOK, SocketTypeOK, MaxReleases
<1>2. /\ valid' \in BOOLEAN /\ info' \in BOOLEAN /\ closing' \in [User -> ClosePoint]
      /\ closes' \in Nat /\ frees' \in Nat
  <2>1. CASE Outside
    <3>1. /\ UNCHANGED <<valid, info, closes, frees>>
          /\ \/ UNCHANGED closing
             \/ \E t \in User : closing' = [closing EXCEPT ![t] = "info"]
      BY <2>1 DEF Outside, At
    <3>2. closing' \in [User -> ClosePoint]
      BY <1>1, <3>1 DEF ClosePoint
    <3>3. valid' = valid /\ info' = info /\ closes' = closes /\ frees' = frees
      BY <2>1 DEF Outside
    <3>4. QED
      BY <1>1, <3>2, <3>3
  <2>2. ASSUME NEW t \in User, CloseStep(t)
        PROVE  /\ valid' \in BOOLEAN /\ info' \in BOOLEAN /\ closing' \in [User -> ClosePoint]
               /\ closes' \in Nat /\ frees' \in Nat
    <3>1. \A from, to : At(t, from, to) /\ to \in ClosePoint => closing' \in [User -> ClosePoint]
      BY <1>1 DEF At
    <3>2. closing' \in [User -> ClosePoint]
      BY <2>2, <3>1 DEF CloseStep, TestInfo, FreeInfo, ForgetInfo, TestHandle, CloseHandle,
                        ForgetHandle, ClosePoint
    <3>3. /\ valid' \in {valid, FALSE} /\ info' \in {info, FALSE}
          /\ closes' \in {closes, closes + 1} /\ frees' \in {frees, frees + 1}
      BY <2>2 DEF CloseStep, TestInfo, FreeInfo, ForgetInfo, TestHandle, CloseHandle,
                  ForgetHandle
    <3>4. valid' \in BOOLEAN /\ info' \in BOOLEAN
      <4>1. valid \in BOOLEAN /\ info \in BOOLEAN
        BY <1>1
      <4>2. QED
        BY <3>3, <4>1, Zenon
    <3>5. closes' \in Nat /\ frees' \in Nat
      BY <1>1, <3>3
    <3>6. QED
      BY <3>2, <3>4, <3>5
  <2>3. QED
    BY <2>1, <2>2, OutsideOrClosing DEF Closing
<1>3. SocketTypeOK'
  <2>1. /\ frees' + In("free")' <= 3 /\ closes' + In("close")' <= 3
        /\ In("free")' \in Nat /\ In("close")' \in Nat
    BY ReleaseStep, InBoundsAfter DEF ReleaseInv, MaxReleases
  <2>2. QED
    BY <1>2, <2>1 DEF SocketTypeOK, MaxReleases
<1> DEFINE Types ==
      /\ at' \in [User -> Point]
      /\ asked' \in BOOLEAN /\ bound' \in BOOLEAN /\ known' \in BOOLEAN /\ crashed' \in BOOLEAN
      /\ outgoing' \in 0 .. MaxQueued /\ toServer' \in 0 .. MaxInFlight
      /\ toClient' \in 0 .. MaxInFlight /\ answers' \in 0 .. MaxAnswers
      /\ released' \in 0 .. MaxAnswers /\ taken' \in 0 .. MaxAnswers /\ heard' \in 0 .. MaxAnswers
<1>4. ASSUME NEW t \in User, NEW point \in Point, SendTo(t, point),
             UNCHANGED <<asked, bound, outgoing, inVars>>
      PROVE  Types
  <2>1. at' \in [User -> Point] /\ crashed' \in BOOLEAN
    BY <1>1, <1>4 DEF SendTo
  <2>2. toServer' \in 0 .. MaxInFlight
    BY <1>1, <1>4 DEF SendTo
  <2>3. UNCHANGED <<toClient, answers, known>>
    BY <1>4 DEF SendTo
  <2>4. QED
    BY <1>1, <1>4, <2>1, <2>2, <2>3
<1>5. SendPing \/ SendPacket => Types
  BY <1>4, UserThreads DEF SendPing, SendPacket, Point
<1>6. Start \/ StartSendThread \/ StartListenThread => Types
  BY <1>1 DEF Start, StartSendThread, StartListenThread, Point
<1>7. BindDataReceived \/ Send => Types
  <2>1. BindDataReceived => Types
    BY <1>1 DEF BindDataReceived, Point
  <2>2. CASE Send
    <3>1. /\ outgoing' \in 0 .. MaxQueued
          /\ UNCHANGED <<at, asked, bound, toServer, toClient, answers, known, inVars, crashed>>
      BY <1>1, <2>2 DEF Send
    <3>2. QED
      BY <1>1, <3>1
  <2>3. QED
    BY <2>1, <2>2
<1>8. Leave \/ StopCloses \/ RequestStop \/ Join => Types
  BY <1>1 DEF Leave, StopCloses, RequestStop, Join, Point
<1>9. ASSUME NEW t \in {"listen", "send"}, Loop(t)
      PROVE  Types
  BY <1>1, <1>9 DEF Loop, Point
<1>10. ReceiveFrom \/ ReceiveFails \/ ReceiveError => Types
  BY <1>1 DEF ReceiveFrom, ReceiveFails, ReceiveError, Point
<1>11. Received \/ ProcessIncomingPacket => Types
  <2>1. CASE Received
    <3>1. at' \in [User -> Point] /\ toClient' \in 0 .. MaxInFlight
      <4>1. at' \in [User -> Point]
        BY <1>1, <2>1 DEF Received, Point
      <4>2. toClient > 0 /\ toClient' = toClient - 1
        BY <2>1 DEF Received
      <4>3. QED
        BY <1>1, <4>1, <4>2
    <3>2. released' \in 0 .. MaxAnswers
      BY <1>1, <2>1 DEF Received
    <3>3. UNCHANGED <<asked, bound, outgoing, toServer, answers, known, taken, heard, crashed>>
      BY <2>1 DEF Received
    <3>4. QED
      BY <1>1, <3>1, <3>2, <3>3
  <2>2. CASE ProcessIncomingPacket
    <3>1. at' \in [User -> Point]
      BY <1>1, <2>2 DEF ProcessIncomingPacket, Point
    <3>2. taken' \in 0 .. MaxAnswers /\ heard' \in 0 .. MaxAnswers
      <4>1. heard <= taken /\ taken <= released
        BY DEF AnswerInv
      <4>2. \/ taken' = taken /\ heard' = heard
            \/ taken # released /\ taken' = taken + 1 /\ heard' \in {heard, heard + 1}
        BY <2>2 DEF ProcessIncomingPacket
      <4>3. QED
        BY <1>1, <4>1, <4>2
    <3>3. UNCHANGED <<asked, bound, outgoing, netVars, released, crashed>>
      BY <2>2 DEF ProcessIncomingPacket
    <3>4. QED
      BY <1>1, <3>1, <3>2, <3>3
  <2>3. QED
    BY <2>1, <2>2
<1>12. PopReadyOutgoing => Types
  BY <1>1 DEF PopReadyOutgoing, Point
<1>13. Arrives \/ Lose \/ Answer => Types
  <2>1. CASE Arrives \/ Lose
    <3>1. UNCHANGED <<at, asked, bound, outgoing, answers, inVars, crashed>>
      BY <2>1 DEF Arrives, Lose
    <3>2. toServer' \in 0 .. MaxInFlight /\ toClient' \in 0 .. MaxInFlight
      BY <1>1, <2>1 DEF Arrives, Lose
    <3>3. known' \in BOOLEAN
      BY <1>1, <2>1 DEF Arrives, Lose
    <3>4. QED
      BY <1>1, <3>1, <3>2, <3>3
  <2>2. CASE Answer
    <3>1. /\ answers' \in 0 .. MaxAnswers /\ toClient' \in 0 .. MaxInFlight
          /\ UNCHANGED <<at, asked, bound, outgoing, toServer, known, inVars, crashed>>
      BY <1>1, <2>2 DEF Answer
    <3>2. QED
      BY <1>1, <3>1
  <2>3. QED
    BY <2>1, <2>2
<1>14. ASSUME NEW t \in User, Closing(t)
       PROVE  Types
  BY <1>1, <1>14 DEF Closing
<1>15. Types
  BY <1>5, <1>6, <1>7, <1>8, <1>9, <1>10, <1>11, <1>12, <1>13, <1>14, UserThreads
     DEF Next, StartStep, StopStep, ListenStep, SendStep, NetworkStep
<1>16. QED
  BY <1>3, <1>15 DEF ClientTypeOK

----------------------------------------------------------------------------
(* The theorems. *)

LEMMA ClientInvInit == Init => ClientTypeOK /\ ClientInv
<1> SUFFICES ASSUME Init
             PROVE  ClientTypeOK /\ ClientInv
  OBVIOUS
<1>1. /\ valid \in BOOLEAN /\ info = valid /\ closes = 0 /\ frees = 0
      /\ closing = [t \in User |-> "no"]
      /\ \A t \in User : closing[t] = "no"
  BY DEF Init, SocketInit
<1>2. /\ at \in [User -> Point] /\ at["listen"] = "none" /\ at["send"] = "none"
      /\ at["app"] = IF BindsFirst THEN "bind" ELSE "start"
  BY UserThreads DEF Init, Point, BoundBeforeStart
<1>3. ClientTypeOK
  <2>1. SocketTypeOK
    BY <1>1 DEF SocketTypeOK, ClosePoint, MaxReleases
  <2>2. /\ asked \in BOOLEAN /\ bound \in BOOLEAN /\ known \in BOOLEAN /\ crashed \in BOOLEAN
        /\ outgoing = 0 /\ toServer = 0 /\ toClient = 0 /\ answers = 0
        /\ released = 0 /\ taken = 0 /\ heard = 0
    BY DEF Init
  <2>3. 0 \in 0 .. MaxQueued /\ 0 \in 0 .. MaxInFlight /\ 0 \in 0 .. MaxAnswers
    BY ClientAssumption
  <2>4. QED
    BY <1>2, <2>1, <2>2, <2>3 DEF ClientTypeOK
<1>4. ReleaseInv
  <2>1. \A p : p # "no" => {t \in User : closing[t] = p} = {}
    BY <1>1
  <2>2. In("null") = 0 /\ In("free") = 0 /\ In("invalid") = 0 /\ In("close") = 0
    BY <2>1, FS_EmptySet DEF In, Count
  <2>3. QED
    BY <1>1, <2>2 DEF ReleaseInv, MaxReleases
<1>5. CloseInv
  BY <1>1, <1>2 DEF CloseInv, NoSocket, InTurn
<1>6. StopInv /\ StartInv
  BY <1>2 DEF StopInv, StartInv
<1>7. AnswerInv
  BY <1>2 DEF Init, AnswerInv
<1>8. QED
  BY <1>3, <1>4, <1>5, <1>6, <1>7 DEF ClientInv

LEMMA ClientInvStep ==
  ASSUME ClientTypeOK, ClientInv, [Next]_vars
  PROVE  ClientTypeOK' /\ ClientInv'
<1>1. CASE Next
  BY <1>1, ClientTypeStep, ReleaseStep, InTurnStep, NoSocketStep, StopStepInv, StartStepInv,
     AnswerStep
     DEF ClientInv, CloseInv
<1>2. CASE UNCHANGED vars
  <2>1. /\ UNCHANGED <<valid, info, closing, closes, frees>>
        /\ UNCHANGED <<at, asked, bound, outgoing, released, taken, heard, crashed>>
        /\ UNCHANGED <<toServer, toClient, answers, known>>
    BY <1>2 DEF vars, socketVars, netVars, inVars
  <2>2. ClientTypeOK'
    BY <2>1 DEF ClientTypeOK, SocketTypeOK
  <2>3. ReleaseInv'
    BY <2>1 DEF ClientInv, ReleaseInv, In
  <2>4. CloseInv' /\ StopInv'
    BY <2>1 DEF ClientInv, CloseInv, NoSocket, InTurn, StopInv
  <2>5. StartInv' /\ AnswerInv'
    BY <2>1 DEF ClientInv, StartInv, AnswerInv
  <2>6. QED
    BY <2>2, <2>3, <2>4, <2>5 DEF ClientInv
<1>3. QED
  BY <1>1, <1>2

\* The types; that no thread releases twice what it finds once is in them: at
\* most one closesocket and one freeaddrinfo for each thread (Socket.cpp:231-259).
THEOREM ClientTypeCorrect == Spec => []ClientTypeOK
<1>1. ClientTypeOK /\ ClientInv /\ [Next]_vars => (ClientTypeOK /\ ClientInv)'
  BY ClientInvStep
<1>2. QED
  BY <1>1, ClientInvInit, PTL DEF Spec

\* Close releases in turn whichever threads meet in it, and the listen thread pops
\* each message of the server once.
THEOREM ClientInvariant == Spec => []ClientInv
<1>1. ClientTypeOK /\ ClientInv /\ [Next]_vars => (ClientTypeOK /\ ClientInv)'
  BY ClientInvStep
<1>2. QED
  BY <1>1, ClientInvInit, PTL DEF Spec

\* A client that is gone has released its socket, whoever closed it.
THEOREM ReleasesAll == Spec => []NothingLeaks
<1>1. ClientInv => NothingLeaks
  BY DEF ClientInv, NothingLeaks, StopInv, CloseInv, NoSocket, InTurn
<1>2. QED
  BY <1>1, ClientInvariant, PTL

\* A delegate bound before Start is given all that the Connection makes ready, also
\* while other threads close the socket (Client.cpp:105-111).
THEOREM DelegateHears ==
  ASSUME BindsFirst
  PROVE  Spec => []AnswersHeard
<1>1. ClientInv => AnswersHeard
  BY DEF ClientInv, AnswerInv, AnswersHeard
<1>2. QED
  BY <1>1, ClientInvariant, PTL

==========================================================================
