------------------------- MODULE ClientInvariants -------------------------
(***************************************************************************)
(* Why the properties of ClientProperties that are not about progress      *)
(* hold: what the threads that close the socket leave to each other, and   *)
(* where the messages of the server are.                                   *)
(***************************************************************************)
EXTENDS ClientProperties, FiniteSets

\* The threads at a point of Close.
Count(where, point) == Cardinality({t \in User : where[t] = point})
In(point) == Count(closing, point)

\* The constructor found no socket: Start does nothing, and Stop little.
NoSocket ==
  /\ ~ valid /\ ~ info /\ closes = 0 /\ frees = 0
  /\ \A t \in User : closing[t] = "no"
  /\ at["listen"] = "none" /\ at["send"] = "none"
  /\ at["app"] \in {"bind", "start", "stop", "ask", "join", "gone"}
  /\ at["app"] = "bind" => BindsFirst

\* Until the first thread forgets the address information, or the handle, those
\* that released it are those about to forget it; afterwards only those that
\* found it before can release it again.
ReleaseInv ==
  /\ info => frees = In("null")
  /\ frees + In("free") <= MaxReleases
  /\ valid => closes = In("invalid")
  /\ closes + In("close") <= MaxReleases

\* The address information is released before it is forgotten, the handle after
\* it, and forgotten last: by then nothing is left.
InTurn ==
  /\ ~ info => frees >= 1
  /\ ~ valid => closes >= 1 /\ ~ info
  /\ \A t \in User :
       /\ closing[t] = "null" => frees >= 1
       /\ closing[t] \in {"handle", "close", "invalid"} => ~ info
       /\ closing[t] = "invalid" => closes >= 1

CloseInv == NoSocket \/ InTurn

\* Stop, once through with Close, leaves no socket behind.
StopInv ==
  /\ at["app"] \in {"ask", "join", "gone"} /\ closing["app"] = "no" => ~ valid
  /\ at["app"] \in {"join", "gone"} => closing["app"] = "no"

\* Start creates the listen thread, after the delegate is bound or before.
StartInv ==
  /\ at["app"] \in {"start", "ping", "sender", "listener"} => at["listen"] = "none"
  /\ BindsFirst /\ at["app"] = "bind" => at["listen"] = "none"
  /\ BindsFirst /\ ~ bound => at["app"] = "bind"

\* No message of the server is popped twice or before it is ready, none is left in
\* the queue while the listen thread waits for a datagram, and none is dropped when
\* the delegate is bound before Start.
AnswerInv ==
  /\ heard <= taken /\ taken <= released /\ released <= answers
  /\ at["listen"] # "process" => taken = released
  /\ BindsFirst => heard = taken

ClientInv == ReleaseInv /\ CloseInv /\ StopInv /\ StartInv /\ AnswerInv
==========================================================================
