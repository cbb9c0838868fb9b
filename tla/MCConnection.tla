--------------------------- MODULE MCConnection ---------------------------
(* Instances of Connection for TLC: the reliable messages of each host. *)
EXTENDS ConnectionInvariants, TLC

ClientSends(n) == (ClientHost :> n) @@ (ServerHost :> 0)
ClientSends4   == ClientSends(4)
ClientSends5   == ClientSends(5)
ClientSends6   == ClientSends(6)
ClientSends9   == ClientSends(9)

ClientSends1ServerSends3  == (ClientHost :> 1) @@ (ServerHost :> 3)
ClientSends3ServerSends2  == (ClientHost :> 3) @@ (ServerHost :> 2)
ClientSends16ServerSends2 == (ClientHost :> 16) @@ (ServerHost :> 2)
==========================================================================
