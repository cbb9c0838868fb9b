----------------------------- MODULE MCServer -----------------------------
(* Instances of Server for TLC: the messages of each client. *)
EXTENDS ServerInvariants

EachSends1 == [a \in Client |-> 1]
EachSends2 == [a \in Client |-> 2]

\* One client sends to all the others.
OneSends(n) == [a \in Client |-> IF a = CHOOSE b \in Client : TRUE THEN n ELSE 0]
OneSends1   == OneSends(1)
OneSends2   == OneSends(2)
==========================================================================
