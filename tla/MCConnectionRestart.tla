----------------------- MODULE MCConnectionRestart -----------------------
(* Instances of ConnectionRestart for TLC. *)
EXTENDS ConnectionRestart, TLC

ServerSends2 == (ClientHost :> 0) @@ (ServerHost :> 2)
==========================================================================
