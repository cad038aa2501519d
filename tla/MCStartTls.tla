----------------------------- MODULE MCStartTls -----------------------------
(***************************************************************************)
(* One transport of the crate beside one peer that follows a script: a     *)
(* call pipelined behind a probe, a probe after a call, a well-behaved     *)
(* upgrade, requests inside TLS that look like probes, and broken input.   *)
(***************************************************************************)
EXTENDS StartTls

Numbered(s) == [i \in DOMAIN s |-> IF s[i].layer = "handshake" THEN s[i] ELSE [s[i] EXCEPT !.n = i]]

Clear(k) == M("clear", k, 0)
Tls(k) == M("tls", k, 0)

MCScripts ==
    {Numbered(s) : s \in
        {<<Clear("probe"), Clear("call"), Hello, Finished>>,
         <<Clear("call"), Clear("probe")>>,
         <<Clear("invalid"), Clear("reply"), Clear("garbage")>>,
         <<Clear("probe"), Hello, Finished, Tls("call")>>,
         <<Hello, Finished, Tls("probe"), Tls("call")>>}}

=============================================================================
