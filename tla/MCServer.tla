------------------------------ MODULE MCServer ------------------------------
(***************************************************************************)
(* Two peers: p1 sends two requests, p2 one.  Either peer's requests may   *)
(* be of any shape that its place in the stream makes interesting.         *)
(***************************************************************************)
EXTENDS Server

CONSTANTS p1, p2, a, b, c

MCPeers == {p1, p2}
MCRequests == {a, b, c}
MCFrom == [r \in MCRequests |-> IF r = c THEN p2 ELSE p1]
MCStream == [p \in MCPeers |-> IF p = p1 THEN <<a, b>> ELSE <<c>>]

\* Two calls and an unknown program; a reply, a call and a reply too large to encode;
\* a call, garbage and a call.
MCShapings ==
    {[r \in MCRequests |-> CASE r = a -> s[1] [] r = b -> s[2] [] OTHER -> s[3]] :
        s \in {<<"call", "call", "unknown">>, <<"reply", "call", "oversized">>,
               <<"call", "garbage", "call">>}}

=============================================================================
