------------------------------ MODULE Socket ------------------------------
(***************************************************************************)
(* One UDP socket that several threads close (Socket.cpp).  Nothing guards *)
(* the handle and the address information, so each test and each           *)
(* assignment is a step.                                                   *)
(***************************************************************************)
EXTENDS Naturals

CONSTANT User   \* the threads that use the socket

VARIABLES
  valid,    \* winSocket # INVALID_SOCKET
  info,     \* winAddrInfo # nullptr
  closing,  \* where in Close a thread is, or "no"
  closes,   \* history: calls of closesocket
  frees     \* history: calls of freeaddrinfo

socketVars == <<valid, info, closing, closes, frees>>

ClosePoint == {"no", "info", "free", "null", "handle", "close", "invalid"}

MaxReleases == 3   \* each thread releases what it found at most once

SocketTypeOK ==
  /\ valid \in BOOLEAN /\ info \in BOOLEAN
  /\ closing \in [User -> ClosePoint]
  /\ closes \in 0 .. MaxReleases /\ frees \in 0 .. MaxReleases

\* The constructor: getaddrinfo fails, or socket does and Close undoes it all,
\* or there is a socket.
SocketInit ==
  /\ valid \in BOOLEAN /\ info = valid
  /\ closing = [t \in User |-> "no"]
  /\ closes = 0 /\ frees = 0

\* A call on the handle fails when the handle is gone.
Usable == valid /\ closes = 0

BeginClose(t) == closing' = [closing EXCEPT ![t] = "info"]

At(t, from, to) == closing[t] = from /\ closing' = [closing EXCEPT ![t] = to]

\* FreeAddressInfo
TestInfo(t) ==
  /\ At(t, "info", IF info THEN "free" ELSE "handle")
  /\ UNCHANGED <<valid, info, closes, frees>>

FreeInfo(t) ==
  /\ At(t, "free", "null")
  /\ frees' = frees + 1
  /\ UNCHANGED <<valid, info, closes>>

ForgetInfo(t) ==
  /\ At(t, "null", "handle")
  /\ info' = FALSE
  /\ UNCHANGED <<valid, closes, frees>>

\* The rest of Close
TestHandle(t) ==
  /\ At(t, "handle", IF valid THEN "close" ELSE "no")
  /\ UNCHANGED <<valid, info, closes, frees>>

\* Slip: the handle is forgotten but not closed.
CloseHandleSlip(t) ==
  /\ At(t, "close", "invalid")
  /\ UNCHANGED <<valid, info, closes, frees>>

CloseHandle(t) ==
  /\ At(t, "close", "invalid")
  /\ closes' = closes + 1
  /\ UNCHANGED <<valid, info, frees>>

ForgetHandle(t) ==
  /\ At(t, "invalid", "no")
  /\ valid' = FALSE
  /\ UNCHANGED <<info, closes, frees>>

CloseStep(t) ==
  \/ TestInfo(t) \/ FreeInfo(t) \/ ForgetInfo(t)
  \/ TestHandle(t) \/ CloseHandle(t) \/ ForgetHandle(t)
==========================================================================
