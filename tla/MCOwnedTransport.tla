-------------------------- MODULE MCOwnedTransport --------------------------
(* Two calls on one connection, with the same XID or with XIDs of their own. *)
EXTENDS OwnedTransport, TLC

CONSTANTS a, b

SharedXid == [x \in Calls |-> 1]

DistinctXids == (a :> 1) @@ (b :> 2)
=============================================================================
