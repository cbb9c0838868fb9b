----------------------------- MODULE MCClient -----------------------------
(* Instances of Client for TLC. *)
EXTENDS ClientInvariants

Threads == {"app", "listen", "send"}
==========================================================================
