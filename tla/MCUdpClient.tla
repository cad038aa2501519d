---------------------------- MODULE MCUdpClient ----------------------------
(* Calls a and b reuse one XID, call c has its own. *)
EXTENDS UdpClient, TLC

CONSTANTS a, b, c, x, y

ReusedXid == (a :> x) @@ (b :> x) @@ (c :> y)
=============================================================================
