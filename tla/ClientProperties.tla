------------------------- MODULE ClientProperties -------------------------
(* What a client promises, and the fairness of its threads. *)
EXTENDS Client

Ended(t) == at[t] \in {"none", "done"}

\* The scheduler lets every thread go on; an application that talks keeps
\* talking; the network does not lose every datagram.
Fairness ==
  /\ WF_vars(~ crashed /\ StartStep) /\ WF_vars(~ crashed /\ StopStep)
  /\ WF_vars(~ crashed /\ ListenStep) /\ WF_vars(~ crashed /\ SendStep)
  /\ WF_vars(~ crashed /\ Send)
  /\ SF_vars(~ crashed /\ Arrives)

FairSpec == Spec /\ Fairness

\* Once the client is stopped, or its socket fails in whichever thread, both
\* threads end, even one that is blocked in recvfrom: ~Client does not hang.
ThreadsEnd ==
  (asked \/ ~ valid) ~> (crashed \/ (Ended("listen") /\ Ended("send")))

\* However many threads close the socket, and whichever fails, a client that had
\* one and is gone has released it (Client.cpp:36, Socket.cpp:231).
NothingLeaks ==
  at["app"] = "gone" /\ at["send"] # "none" =>
    closes >= 1 /\ frees >= 1 /\ ~ valid /\ ~ info

\* The client has lost its socket, whoever closed it.
Down == ~ valid \/ crashed

\* "AllClientsConnected" (ServerTests.cpp:11-17): the server learns of a client
\* that has been started and keeps sending, unless its socket is closed.
ServerLearns == (at["app"] = "talk") ~> (known \/ Down)

\* Whatever the Connection has made ready by one datagram after the other, which may
\* be lost or sent again, and whoever closes the socket meanwhile, the delegate has
\* been given by the time the listen thread looks for the next (Client.cpp:105).  The
\* application must have bound it in time: NetworkingWin.cpp:42 does so after Start.
AnswersHeard == at["listen"] # "process" => heard = released
==========================================================================
