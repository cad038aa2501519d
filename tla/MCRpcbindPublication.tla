------------------------ MODULE MCRpcbindPublication ------------------------
(***************************************************************************)
(* Two servers with a program in common: over one transport they claim the *)
(* same key, over two they do not.  Their ports need both bytes, and two   *)
(* calls on the first may overlap.                                         *)
(***************************************************************************)
EXTENDS RpcbindPublication, TLC

CONSTANTS s1, s2, p, q, c1, c2, c3

MCPrograms == [s \in {s1, s2} |-> IF s = s1 THEN <<p, q>> ELSE <<p>>]
MCAddr == [s \in {s1, s2} |->
             IF s = s1 THEN [family |-> 4, host |-> "host1", port |-> 2049]
                       ELSE [family |-> 4, host |-> "host2", port |-> 65280]]

Pair(x, y) == [s \in {s1, s2} |-> IF s = s1 THEN x ELSE y]

\* A server that publishes around its calls beside one that publishes on request, a
\* server that has the service to itself, and servers that do not publish.
MCDeployments ==
    {[kind |-> Pair(<<"tcp", "async">>, <<"tcp", "sync">>), config |-> Pair("on", "no rpcbind")],
     [kind |-> Pair(<<"udp", "async">>, <<"tcp", "async">>), config |-> Pair("on", "unspecified")],
     [kind |-> Pair(<<"udp", "sync">>, <<"udp", "async">>), config |-> Pair("no rpcbind", "unspecified")],
     [kind |-> Pair(<<"tcp", "sync">>, <<"udp", "async">>), config |-> Pair("off", "unspecified")]}

MCOn == [c \in {c1, c2, c3} |-> IF c = c3 THEN s2 ELSE s1]

\* The two calls on one transport may change places.
MCSymmetry == Permutations({c1, c2})

=============================================================================
