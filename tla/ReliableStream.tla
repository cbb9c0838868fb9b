-------------------------- MODULE ReliableStream --------------------------
(***************************************************************************)
(* What the reliability layer promises in one direction (Readme.md):       *)
(* reliable messages arrive, each once and in the order they were sent.    *)
(* A message is its ordinal.                                               *)
(***************************************************************************)
EXTENDS Naturals, Sequences

VARIABLES
  sent,     \* how many messages the sender has sent
  received  \* the messages handed to the receiver, in order

vars == <<sent, received>>

Init == sent = 0 /\ received = <<>>

Send == sent' = sent + 1 /\ UNCHANGED received

Deliver ==
  /\ Len(received) < sent
  /\ received' = Append(received, Len(received) + 1)
  /\ UNCHANGED sent

Next == Send \/ Deliver

Spec == Init /\ [][Next]_vars

FairSpec == Spec /\ WF_vars(Deliver)
==========================================================================
