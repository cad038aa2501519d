--------------------------- MODULE StartTlsProofs ---------------------------
(***************************************************************************)
(* Proofs that nothing received in the clear is dispatched where TLS is    *)
(* required or has been agreed on, and that a client and its server agree  *)
(* on having upgraded.                                                     *)
(***************************************************************************)
EXTENDS StartTls, SequenceTheorems, TLAPS

Answers == {"ok", "badcred", "reply", "flight", "alert"}

\* The type invariant.
TypeOK ==
    /\ listener \in {"tls", "starttls"} /\ sync \in BOOLEAN /\ once \in BOOLEAN
    /\ script \in [Peers -> Seq(Messages)]
    /\ client \in [Conns -> {"idle", "peer", "unconnected", "connected", "probed", "handshake",
                             "open", "called", "failed", "closed"}]
    /\ error \in [Clients -> {"none", "Runtime", "StartTlsRejected", "InvalidStartTlsReply",
                              "MissingSunrpcAlpn", "Handshake", "Timeout"}]
    /\ up \in [Conns -> Seq(Messages)] /\ buffer \in [Conns -> Seq(Messages)]
    /\ down \in [Conns -> Seq(Answers)]
    /\ srv \in [Conns -> {"none", "accepting", "finishing", "negotiating", "serving", "tls", "ended"}]
    /\ jobs \subseteq Conns \X Messages \X {"spawned", "running"}
    /\ served \subseteq Conns \X Messages
    /\ upgraded \subseteq Conns

\* The server's side of a connection: which task it has after which start, and what the
\* task's buffer may hold.
ConnInv(c) ==
    /\ srv[c] \in {"negotiating", "serving"} => listener = "starttls" /\ c \notin upgraded
    /\ srv[c] = "serving" => ~Requires
    /\ srv[c] = "none" => c \notin upgraded
    /\ c \in upgraded => listener = "starttls"
    /\ srv[c] \in {"none", "accepting", "finishing"} => buffer[c] = <<>>
    /\ srv[c] = "tls" => \A i \in 1..Len(buffer[c]) : buffer[c][i].layer = "tls"

\* A connection that has had a message in the clear dispatched.
ServedClear(c) ==
    listener = "starttls" /\ ~Requires /\ c \notin upgraded /\ srv[c] \in {"serving", "ended"}

WorkInv ==
    /\ \A j \in jobs : j[2].layer = "clear" => ServedClear(j[1])
    /\ \A s \in served : s[2].layer = "clear" => ServedClear(s[1])

TookHello(c) == srv[c] \in {"finishing", "tls", "ended"}

\* An answer on its way to the client of c.
Coming(c, k) == \E i \in 1..Len(down[c]) : down[c][i] = k

\* The client's side: what the answers on their way to it mean.
ClientInv(c) ==
    /\ Coming(c, "ok") => c \in upgraded
    /\ Coming(c, "flight") => TookHello(c)
    /\ c \in starttls /\ client[c] \in {"handshake", "open", "called"} => c \in upgraded
    /\ client[c] \in {"open", "called"} => TookHello(c)

Inv ==
    /\ TypeOK /\ WorkInv
    /\ \A c \in Conns : ConnInv(c)
    /\ \A c \in Clients : ClientInv(c)

-----------------------------------------------------------------------------
(* Sockets *)

\* What the clients and the peers send is a message, and both have connections.
LEMMA MessageFacts ==
    /\ {Hello, Finished, M("clear", "probe", 0), M("tls", "call", 0)} \subseteq Messages
    /\ Clients \subseteq Conns /\ Peers \subseteq Conns
  BY DEF Messages, Hello, Finished, M, Kinds, Conns

\* Sending towards the server keeps the type of the socket.
LEMMA SendUpType ==
    ASSUME TypeOK, NEW c \in Conns, NEW m \in Messages, SendUp(c, m)
    PROVE  up' \in [Conns -> Seq(Messages)]
  <1>1. Append(up[c], m) \in Seq(Messages)
    BY AppendProperties DEF TypeOK
  <1> QED BY <1>1 DEF TypeOK, SendUp

\* An answer that is sent is on its way; no other answer appears.
LEMMA SendDownComing ==
    ASSUME TypeOK, NEW c \in Conns, NEW k \in Answers, SendDown(c, k)
    PROVE  /\ down' \in [Conns -> Seq(Answers)]
           /\ \A d \in Conns : \A x : Coming(d, x)' => Coming(d, x) \/ (d = c /\ x = k)
  <1> DEFINE q == down[c]
  <1>1. /\ q \in Seq(Answers) /\ Append(q, k) \in Seq(Answers) /\ Len(Append(q, k)) = Len(q) + 1
        /\ \A i \in 1..Len(q) : Append(q, k)[i] = q[i]
        /\ Append(q, k)[Len(q) + 1] = k
    BY AppendProperties DEF TypeOK
  <1>2. down'[c] = Append(q, k) /\ \A d \in Conns : d # c => down'[d] = down[d]
    BY DEF TypeOK, SendDown
  <1>3. down' \in [Conns -> Seq(Answers)]
    BY <1>1 DEF TypeOK, SendDown
  <1>4. Len(q) \in Nat
    BY <1>1, LenProperties
  <1>5. \A i \in 1..Len(q) + 1 : i \in 1..Len(q) \/ i = Len(q) + 1
    BY <1>4
  <1>6. ASSUME NEW x, Coming(c, x)' PROVE Coming(c, x) \/ x = k
    BY <1>1, <1>2, <1>5, <1>6 DEF Coming
  <1>7. ASSUME NEW d \in Conns, d # c, NEW x, Coming(d, x)' PROVE Coming(d, x)
    BY <1>2, <1>7 DEF Coming
  <1> QED BY <1>3, <1>6, <1>7

\* The answer that is taken was on its way; no other answer appears.
LEMMA ReceiveComing ==
    ASSUME TypeOK, NEW c \in Conns, down[c] # <<>>, down' = [down EXCEPT ![c] = Tail(@)]
    PROVE  /\ down' \in [Conns -> Seq(Answers)]
           /\ \A d \in Conns : \A x : Coming(d, x)' => Coming(d, x)
           /\ Coming(c, Head(down[c])) /\ Head(down[c]) \in Answers
  <1> DEFINE q == down[c]
  <1>1. /\ q \in Seq(Answers) /\ Head(q) \in Answers /\ Tail(q) \in Seq(Answers) /\ Len(Tail(q)) = Len(q) - 1
        /\ \A i \in 1..Len(Tail(q)) : Tail(q)[i] = q[i + 1]
    BY HeadTailProperties DEF TypeOK
  <1>2. down'[c] = Tail(q) /\ \A d \in Conns : d # c => down'[d] = down[d]
    BY DEF TypeOK
  <1>3. down' \in [Conns -> Seq(Answers)]
    BY <1>1 DEF TypeOK
  <1>4. Len(q) \in Nat \ {0}
    BY <1>1, EmptySeq
  <1>5. \A i \in 1..Len(q) - 1 : i + 1 \in 1..Len(q)
    BY <1>4
  <1>6. ASSUME NEW x, Coming(c, x)' PROVE Coming(c, x)
    BY <1>1, <1>2, <1>5, <1>6 DEF Coming
  <1>7. ASSUME NEW d \in Conns, d # c, NEW x, Coming(d, x)' PROVE Coming(d, x)
    BY <1>2, <1>7 DEF Coming
  <1>8. Head(q) = q[1] /\ 1 \in 1..Len(q)
    BY <1>1, <1>4
  <1> QED BY <1>1, <1>3, <1>6, <1>7, <1>8 DEF Coming

\* Taking the first message of a buffer of TLS messages leaves TLS messages.
LEMMA DropFirst ==
    ASSUME TypeOK, NEW c \in Conns, buffer[c] # <<>>, buffer' = [buffer EXCEPT ![c] = Tail(@)]
    PROVE  /\ buffer' \in [Conns -> Seq(Messages)]
           /\ Head(buffer[c]) \in Messages /\ Head(buffer[c]) = buffer[c][1] /\ 1 \in 1..Len(buffer[c])
           /\ (\A i \in 1..Len(buffer[c]) : buffer[c][i].layer = "tls") =>
                  \A i \in 1..Len(buffer'[c]) : buffer'[c][i].layer = "tls"
  <1> DEFINE q == buffer[c]
  <1>1. /\ q \in Seq(Messages) /\ Head(q) \in Messages /\ Tail(q) \in Seq(Messages) /\ Len(Tail(q)) = Len(q) - 1
        /\ \A i \in 1..Len(Tail(q)) : Tail(q)[i] = q[i + 1]
    BY HeadTailProperties DEF TypeOK
  <1>2. buffer'[c] = Tail(q) /\ buffer' \in [Conns -> Seq(Messages)]
    BY <1>1 DEF TypeOK
  <1>3. Len(q) \in Nat \ {0}
    BY <1>1, EmptySeq
  <1>4. \A i \in 1..Len(q) - 1 : i + 1 \in 1..Len(q)
    BY <1>3
  <1>5. Head(q) = q[1] /\ 1 \in 1..Len(q)
    BY <1>1, <1>3
  <1> QED BY <1>1, <1>2, <1>4, <1>5

\* No connection has been accepted at the start.
LEMMA InitInv == Init => Inv
  <1> SUFFICES ASSUME Init PROVE Inv
    OBVIOUS
  <1>0. \A S : <<>> \in Seq(S) /\ Len(<<>>) = 0
    BY EmptySeq
  <1>1. TypeOK
    <2>1. script \in [Peers -> Seq(Messages)]
      BY StartTlsAssumption DEF Init
    <2> QED BY <1>0, <2>1, MessageFacts DEF Init, TypeOK
  <1>2. WorkInv
    BY DEF Init, WorkInv
  <1>3. ASSUME NEW c \in Conns PROVE ConnInv(c)
    BY <1>3 DEF Init, ConnInv
  <1>4. ASSUME NEW c \in Clients PROVE ClientInv(c)
    <2>1. down[c] = <<>> /\ client[c] = "idle"
      BY <1>4, MessageFacts DEF Init
    <2> QED BY <2>1, <1>0 DEF ClientInv, Coming
  <1> QED BY <1>1, <1>2, <1>3, <1>4 DEF Inv

-----------------------------------------------------------------------------
(* The steps of the clients *)

\* What of the configuration no step changes.
Kept == UNCHANGED <<listener, sync, mode, once, workers, threads, alpn, starttls, patient>>

\* A client's step is right if the client is right after it.
LEMMA ClientSide ==
    ASSUME Inv, TypeOK', NEW c \in Conns, Kept, UNCHANGED serverVars,
           \A d \in Conns : \A x : Coming(d, x)' => Coming(d, x),
           \A d \in Clients \ {c} : client'[d] = client[d],
           /\ c \in Clients /\ c \in starttls /\ client'[c] \in {"handshake", "open", "called"} => c \in upgraded
           /\ c \in Clients /\ client'[c] \in {"open", "called"} => TookHello(c)
    PROVE  Inv'
  <1>1. WorkInv'
    BY DEF Inv, WorkInv, ServedClear, Requires, Kept, serverVars
  <1>2. ASSUME NEW d \in Conns PROVE ConnInv(d)'
    <2>1. ConnInv(d)
      BY DEF Inv
    <2> QED BY <2>1 DEF ConnInv, Requires, Kept, serverVars
  <1>3. ASSUME NEW d \in Clients PROVE ClientInv(d)'
    <2>1. ClientInv(d) /\ d \in Conns
      BY MessageFacts DEF Inv
    <2> QED BY <2>1 DEF ClientInv, TookHello, Kept, serverVars
  <1> QED BY <1>1, <1>2, <1>3 DEF Inv

\* A client step that ends in an error.
LEMMA FailSteps ==
    ASSUME Inv, NEW c \in Clients, NEW why,
           why \in {"Runtime", "StartTlsRejected", "InvalidStartTlsReply", "MissingSunrpcAlpn", "Handshake", "Timeout"},
           Fail(c, why), up' \in [Conns -> Seq(Messages)],
           down' = down \/ (down[c] # <<>> /\ down' = [down EXCEPT ![c] = Tail(@)])
    PROVE  Inv'
  <1>1. c \in Conns
    BY MessageFacts
  <1>2. down' \in [Conns -> Seq(Answers)] /\ \A d \in Conns : \A x : Coming(d, x)' => Coming(d, x)
    BY <1>1, ReceiveComing, Zenon DEF Inv, TypeOK, Coming
  <1>3. TypeOK'
    BY <1>1, <1>2, Zenon DEF Inv, TypeOK, Fail, config, serverVars
  <1>4. client'[c] \in {"unconnected", "failed"} /\ \A d \in Clients \ {c} : client'[d] = client[d]
    BY <1>1, MessageFacts DEF Inv, TypeOK, Fail
  <1>5. Kept /\ UNCHANGED serverVars
    BY DEF Fail, config, Kept
  <1> QED BY <1>1, <1>2, <1>3, <1>4, <1>5, ClientSide, Zenon

\* The steps that move the client of c on.
LEMMA MoveOn ==
    ASSUME Inv, NEW c \in Conns, NEW state,
           state \in {"connected", "probed", "handshake", "open", "called", "closed"},
           client' = [client EXCEPT ![c] = state], UNCHANGED <<config, error, serverVars>>,
           up' \in [Conns -> Seq(Messages)],
           down' = down \/ (down[c] # <<>> /\ down' = [down EXCEPT ![c] = Tail(@)]),
           c \in Clients /\ c \in starttls /\ state \in {"handshake", "open", "called"} => c \in upgraded,
           state \in {"open", "called"} => TookHello(c)
    PROVE  Inv'
  <1>1. down' \in [Conns -> Seq(Answers)] /\ \A d \in Conns : \A x : Coming(d, x)' => Coming(d, x)
    BY ReceiveComing, Zenon DEF Inv, TypeOK, Coming
  <1>2. TypeOK'
    BY <1>1, Zenon DEF Inv, TypeOK, config, serverVars
  <1>3. client'[c] = state /\ \A d \in Clients \ {c} : client'[d] = client[d]
    BY MessageFacts DEF Inv, TypeOK
  <1>4. Kept
    BY DEF config, Kept
  <1> QED BY <1>1, <1>2, <1>3, <1>4, ClientSide

\* Every step of a client.
LEMMA ClientStepInv ==
    ASSUME Inv, NEW c \in Clients,
           TcpConnect(c) \/ ClientStep(c) \/ SetupTimeout(c) \/ Call(c)
    PROVE  Inv'
  <1>0. c \in Conns /\ TypeOK /\ ClientInv(c) /\ up \in [Conns -> Seq(Messages)]
    BY MessageFacts, Zenon DEF Inv, TypeOK
  <1>1. CASE TcpConnect(c)
    BY <1>0, <1>1, FailSteps, MoveOn, Zenon DEF TcpConnect
  <1>2. CASE ConnectTls(c)
    <2>1. up' \in [Conns -> Seq(Messages)]
      BY <1>0, <1>2, SendUpType, MessageFacts DEF ConnectTls
    <2> QED BY <1>0, <1>2, <2>1, MoveOn, Zenon DEF ConnectTls
  <1>3. CASE ConnectStartTls(c)
    <2>1. up' \in [Conns -> Seq(Messages)]
      BY <1>0, <1>3, SendUpType, MessageFacts DEF ConnectStartTls
    <2> QED BY <1>0, <1>3, <2>1, MoveOn, Zenon DEF ConnectStartTls
  <1>4. CASE PerformStartTlsProbe(c)
    <2>1. CASE down[c] = <<>> /\ Fail(c, "StartTlsRejected") /\ UNCHANGED <<up, down>>
      BY <1>0, <2>1, FailSteps
    <2>2. ASSUME NEW verdict, verdict = ValidateReply(Head(down[c])), down[c] # <<>>,
                 down' = [down EXCEPT ![c] = Tail(@)],
                 IF verdict = "accepted"
                 THEN /\ client' = [client EXCEPT ![c] = "handshake"]
                      /\ SendUp(c, Hello)
                      /\ UNCHANGED <<config, error, serverVars>>
                 ELSE Fail(c, verdict) /\ UNCHANGED up
          PROVE  Inv'
      <3>1. CASE verdict = "accepted"
        <4>1. Head(down[c]) = "ok"
          BY <2>2, <3>1 DEF ValidateReply
        <4>2. c \in upgraded
          BY <1>0, <2>2, <4>1, ReceiveComing, Zenon DEF ClientInv
        <4>3. up' \in [Conns -> Seq(Messages)]
          BY <1>0, <2>2, <3>1, SendUpType, MessageFacts
        <4> QED BY <1>0, <2>2, <3>1, <4>2, <4>3, MoveOn, Zenon
      <3>2. CASE verdict # "accepted"
        <4>1. verdict \in {"Runtime", "StartTlsRejected", "InvalidStartTlsReply"}
          BY <2>2, <3>2 DEF ValidateReply
        <4> QED BY <1>0, <2>2, <3>2, <4>1, FailSteps, Zenon
      <3> QED BY <3>1, <3>2
    <2> QED BY <1>4, <2>1, <2>2 DEF PerformStartTlsProbe
  <1>5. CASE ClientHandshake(c)
    <2>1. CASE Fail(c, "Handshake") /\ UNCHANGED <<up, down>>
      BY <1>0, <2>1, FailSteps
    <2>2. CASE /\ down[c] # <<>> /\ Head(down[c]) = "flight" /\ client[c] = "handshake"
               /\ down' = [down EXCEPT ![c] = Tail(@)] /\ SendUp(c, Finished)
               /\ IF alpn
                  THEN client' = [client EXCEPT ![c] = "open"] /\ UNCHANGED <<config, error, serverVars>>
                  ELSE Fail(c, "MissingSunrpcAlpn")
      <3>1. up' \in [Conns -> Seq(Messages)]
        BY <1>0, <2>2, SendUpType, MessageFacts
      <3>2. TookHello(c) /\ (c \in starttls => c \in upgraded)
        BY <1>0, <2>2, ReceiveComing, Zenon DEF ClientInv
      <3>3. CASE alpn
        BY <1>0, <2>2, <3>1, <3>2, <3>3, MoveOn, Zenon
      <3>4. CASE ~alpn
        BY <1>0, <2>2, <3>1, <3>4, FailSteps, Zenon
      <3> QED BY <3>3, <3>4
    <2> QED BY <1>5, <2>1, <2>2 DEF ClientHandshake
  <1>6. CASE SetupTimeout(c)
    BY <1>0, <1>6, FailSteps DEF SetupTimeout
  <1>7. CASE Call(c)
    <2>1. up' \in [Conns -> Seq(Messages)]
      BY <1>0, <1>7, SendUpType, MessageFacts DEF Call
    <2>2. TookHello(c) /\ (c \in starttls => c \in upgraded)
      BY <1>0, <1>7 DEF Call, ClientInv
    <2> QED BY <1>0, <1>7, <2>1, <2>2, MoveOn, Zenon DEF Call
  <1> QED BY <1>1, <1>2, <1>3, <1>4, <1>5, <1>6, <1>7 DEF ClientStep

\* A client or a peer drops its connection.
LEMMA CloseInv == ASSUME Inv, NEW c \in Conns, Close(c) PROVE Inv'
  BY MoveOn, Zenon DEF Close, Inv, TypeOK

\* A peer sends the next message of its script.
LEMMA PeerSendInv == ASSUME Inv, NEW c \in Peers, PeerSend(c) PROVE Inv'
  <1>1. c \in Conns /\ c \notin Clients /\ TypeOK
    BY MessageFacts, StartTlsAssumption DEF Inv
  <1>2. Head(script[c]) \in Messages /\ Tail(script[c]) \in Seq(Messages)
    BY <1>1, HeadTailProperties DEF PeerSend, TypeOK
  <1>3. up' \in [Conns -> Seq(Messages)]
    BY <1>1, <1>2, SendUpType DEF PeerSend
  <1>4. script' \in [Peers -> Seq(Messages)]
    BY <1>1, <1>2 DEF PeerSend, TypeOK
  <1>5. TypeOK'
    BY <1>1, <1>3, <1>4, Zenon DEF PeerSend, TypeOK, serverVars
  <1>6. Kept /\ UNCHANGED <<client, down, serverVars>>
    BY DEF PeerSend, Kept
  <1> QED BY <1>1, <1>5, <1>6, ClientSide DEF Coming

-----------------------------------------------------------------------------
(* The steps of the server *)

\* A step of the server on c is right if the connection is right after it and the step
\* keeps its promises to the client and to the messages dispatched.
LEMMA ServerSide ==
    ASSUME Inv, TypeOK', NEW c \in Conns, UNCHANGED <<config, client>>, ConnInv(c)', WorkInv',
           \A d \in Conns \ {c} :
               srv'[d] = srv[d] /\ buffer'[d] = buffer[d] /\ (d \in upgraded' <=> d \in upgraded),
           c \in upgraded => c \in upgraded', TookHello(c) => TookHello(c)',
           \A d \in Conns : Coming(d, "ok")' => Coming(d, "ok") \/ (d = c /\ c \in upgraded'),
           \A d \in Conns : Coming(d, "flight")' => Coming(d, "flight") \/ (d = c /\ TookHello(c)')
    PROVE  Inv'
  <1>1. ASSUME NEW d \in Conns \ {c} PROVE ConnInv(d)'
    <2>1. ConnInv(d)
      BY DEF Inv
    <2> QED BY <2>1 DEF ConnInv, Requires, config
  <1>2. ASSUME NEW d \in Clients PROVE ClientInv(d)'
    <2>1. ClientInv(d) /\ d \in Conns
      BY MessageFacts DEF Inv
    <2>2. (TookHello(d) => TookHello(d)') /\ (d \in upgraded => d \in upgraded')
      BY <2>1 DEF TookHello
    <2> QED BY <2>1, <2>2 DEF ClientInv, config
  <1> QED BY <1>1, <1>2 DEF Inv

\* The work done stays right when the connection of c keeps what it has been promised.
LEMMA SameWork ==
    ASSUME Inv, NEW c \in Conns, UNCHANGED <<jobs, served>>, ServedClear(c) => ServedClear(c)', UNCHANGED config,
           \A d \in Conns \ {c} : srv'[d] = srv[d] /\ (d \in upgraded' <=> d \in upgraded)
    PROVE  WorkInv'
  <1>1. \A d \in Conns : ServedClear(d) => ServedClear(d)'
    BY DEF ServedClear, Requires, config
  <1>2. /\ \A j \in jobs : j[1] \in Conns
        /\ \A s \in served : s[1] \in Conns
    BY DEF Inv, TypeOK
  <1> QED BY <1>1, <1>2 DEF Inv, WorkInv

\* A connection task ends, with an alert or a refusal sent or without.
LEMMA EndInv ==
    ASSUME Inv, NEW c \in Conns, srv[c] # "none", End(c), down' = down \/ \E k \in {"badcred", "alert"} : SendDown(c, k)
    PROVE  Inv'
  <1>1. srv'[c] = "ended" /\ \A d \in Conns \ {c} : srv'[d] = srv[d]
    BY DEF Inv, TypeOK, End
  <1>2. /\ down' \in [Conns -> Seq(Answers)]
        /\ \A d \in Conns, x \in {"ok", "flight"} : Coming(d, x)' => Coming(d, x)
    <2>1. CASE down' = down
      BY <2>1 DEF Inv, TypeOK, Coming
    <2>2. ASSUME NEW k \in {"badcred", "alert"}, SendDown(c, k)
          PROVE  /\ down' \in [Conns -> Seq(Answers)]
                 /\ \A d \in Conns, x \in {"ok", "flight"} : Coming(d, x)' => Coming(d, x)
      <3>1. k \in Answers
        BY DEF Answers
      <3> QED BY <2>2, <3>1, SendDownComing DEF Inv
    <2> QED BY <2>1, <2>2
  <1>3. TypeOK'
    BY <1>2, Zenon DEF Inv, TypeOK, End, config
  <1>4. ConnInv(c)' /\ (ServedClear(c) => ServedClear(c)')
    BY <1>1 DEF Inv, ConnInv, ServedClear, Requires, End, config
  <1>5. WorkInv'
    BY <1>1, <1>4, SameWork DEF End
  <1> QED BY <1>1, <1>2, <1>3, <1>4, <1>5, ServerSide DEF End, TookHello

\* accept: the listener decides which task the connection gets.
LEMMA AcceptInv == ASSUME Inv, NEW c \in Conns, Accept(c) PROVE Inv'
  <1>1. /\ srv[c] = "none" /\ srv'[c] = IF listener = "tls" THEN "accepting" ELSE "negotiating"
        /\ \A d \in Conns \ {c} : srv'[d] = srv[d]
    BY DEF Inv, TypeOK, Accept
  <1>2. TypeOK'
    BY DEF Inv, TypeOK, Accept, config
  <1>3. ConnInv(c)' /\ (ServedClear(c) => ServedClear(c)')
    <2>1. ConnInv(c) /\ listener \in {"tls", "starttls"}
      BY DEF Inv, TypeOK
    <2> QED BY <1>1, <2>1 DEF ConnInv, ServedClear, Requires, Accept, config
  <1>4. WorkInv'
    BY <1>1, <1>3, SameWork DEF Accept
  <1> QED BY <1>1, <1>2, <1>3, <1>4, ServerSide, Zenon DEF Accept, TookHello, Coming

\* An AUTH_TLS request that is refused is answered and dropped from the buffer.
LEMMA RefusedInv ==
    ASSUME Inv, NEW c \in Conns, srv[c] \in {"negotiating", "serving", "tls"}, buffer[c] # <<>>,
           SendDown(c, "badcred"), buffer' = [buffer EXCEPT ![c] = Tail(@)],
           UNCHANGED <<config, client, error, up, srv, permits, jobs, served, upgraded>>
    PROVE  Inv'
  <1>1. "badcred" \in Answers
    BY DEF Answers
  <1>2. /\ down' \in [Conns -> Seq(Answers)]
        /\ \A d \in Conns, x \in {"ok", "flight"} : Coming(d, x)' => Coming(d, x)
    BY <1>1, SendDownComing DEF Inv
  <1>3. TypeOK'
    BY <1>2, DropFirst, Zenon DEF Inv, TypeOK, config
  <1>4. ConnInv(c)'
    <2>1. ConnInv(c)
      BY DEF Inv
    <2> QED BY <2>1, DropFirst DEF Inv, ConnInv, Requires, config
  <1>5. WorkInv'
    BY SameWork DEF ServedClear, Requires, config
  <1>6. \A d \in Conns \ {c} : buffer'[d] = buffer[d]
    BY DEF Inv, TypeOK
  <1> QED BY <1>2, <1>3, <1>4, <1>5, <1>6, ServerSide DEF TookHello

\* The first message of a StartTLS connection: the upgrade, plain service or a refusal.
LEMMA NegotiateInv == ASSUME Inv, NEW c \in Conns, Negotiate(c) PROVE Inv'
  <1> DEFINE m == Head(buffer[c])
             request == AuthTlsRequest(m)
  <1>0. /\ srv[c] = "negotiating" /\ buffer[c] # <<>> /\ TypeOK /\ ConnInv(c)
        /\ listener = "starttls" /\ c \notin upgraded /\ ~ServedClear(c) /\ ~TookHello(c)
    BY DEF Inv, Negotiate, Decodable, ConnInv, ServedClear, TookHello
  <1>1. CASE End(c) /\ (UNCHANGED down \/ SendDown(c, "badcred"))
    BY <1>0, <1>1, EndInv
  <1>2. CASE /\ SendDown(c, "ok") /\ srv' = [srv EXCEPT ![c] = "accepting"] /\ Upgraded(c)
             /\ upgraded' = upgraded \cup {c}
             /\ UNCHANGED <<config, client, error, up, permits, jobs, served>>
    <2>1. "ok" \in Answers
      BY DEF Answers
    <2>2. /\ down' \in [Conns -> Seq(Answers)]
          /\ \A d \in Conns : \A x : Coming(d, x)' => Coming(d, x) \/ (d = c /\ x = "ok")
      BY <1>0, <1>2, <2>1, SendDownComing, Zenon
    <2>3. <<>> \in Seq(Messages)
      BY EmptySeq
    <2>4. TypeOK'
      BY <1>0, <1>2, <2>2, <2>3, Zenon DEF TypeOK, Upgraded, config
    <2>5. /\ srv'[c] = "accepting" /\ buffer'[c] = <<>> /\ c \in upgraded'
          /\ \A d \in Conns \ {c} : srv'[d] = srv[d] /\ buffer'[d] = buffer[d] /\ (d \in upgraded' <=> d \in upgraded)
      BY <1>0, <1>2 DEF TypeOK, Upgraded
    <2>6. ConnInv(c)'
      BY <1>0, <1>2, <2>5, Zenon DEF ConnInv, config
    <2>7. WorkInv'
      BY <1>0, <1>2, <2>5, SameWork, Zenon
    <2> QED BY <1>0, <1>2, <2>2, <2>4, <2>5, <2>6, <2>7, ServerSide, Zenon
  <1>3. CASE /\ SendDown(c, "badcred") /\ buffer' = [buffer EXCEPT ![c] = Tail(@)]
             /\ UNCHANGED <<config, client, error, up, srv, permits, jobs, served, upgraded>>
    BY <1>0, <1>3, RefusedInv, Zenon
  <1>4. CASE /\ ~Requires /\ srv' = [srv EXCEPT ![c] = "serving"]
             /\ UNCHANGED <<config, client, error, up, down, buffer, permits, jobs, served, upgraded>>
    <2>1. srv'[c] = "serving" /\ \A d \in Conns \ {c} : srv'[d] = srv[d]
      BY <1>0, <1>4 DEF TypeOK
    <2>2. TypeOK'
      BY <1>0, <1>4 DEF TypeOK, config
    <2>3. ConnInv(c)'
      BY <1>0, <1>4, <2>1, Zenon DEF ConnInv, Requires, config
    <2>4. WorkInv'
      BY <1>0, <1>4, <2>1, SameWork, Zenon
    <2> QED BY <1>0, <1>4, <2>1, <2>2, <2>3, <2>4, ServerSide, Zenon DEF Coming
  <1> QED BY <1>1, <1>2, <1>3, <1>4 DEF Negotiate

\* A step of the TLS handshake of a connection.
LEMMA TlsAcceptInv == ASSUME Inv, NEW c \in Conns, TlsAccept(c) PROVE Inv'
  <1>0. /\ srv[c] \in {"accepting", "finishing"} /\ TypeOK /\ ConnInv(c) /\ ~ServedClear(c)
        /\ buffer[c] = <<>> /\ Len(buffer[c]) = 0
    BY EmptySeq DEF Inv, TlsAccept, ConnInv, ServedClear
  <1>1. CASE End(c) /\ (UNCHANGED down \/ SendDown(c, "alert"))
    BY <1>0, <1>1, EndInv
  <1>2. CASE /\ up[c] # <<>> /\ up' = [up EXCEPT ![c] = Tail(@)]
             /\ IF srv[c] = "accepting"
                THEN SendDown(c, "flight") /\ srv' = [srv EXCEPT ![c] = "finishing"]
                ELSE UNCHANGED down /\ srv' = [srv EXCEPT ![c] = "tls"]
             /\ UNCHANGED <<config, client, error, buffer, permits, jobs, served, upgraded>>
    <2>1. Tail(up[c]) \in Seq(Messages)
      BY <1>0, <1>2, HeadTailProperties DEF TypeOK
    <2>2. up' \in [Conns -> Seq(Messages)]
      BY <1>0, <1>2, <2>1 DEF TypeOK
    <2>3. "flight" \in Answers
      BY DEF Answers
    <2>4. /\ down' \in [Conns -> Seq(Answers)]
          /\ \A d \in Conns : \A x : Coming(d, x)' => Coming(d, x) \/ (d = c /\ x = "flight")
      <3>1. CASE SendDown(c, "flight")
        BY <1>0, <2>3, <3>1, SendDownComing
      <3>2. CASE UNCHANGED down
        BY <1>0, <3>2 DEF TypeOK, Coming
      <3> QED BY <1>2, <3>1, <3>2
    <2>5. srv'[c] \in {"finishing", "tls"} /\ \A d \in Conns \ {c} : srv'[d] = srv[d]
      BY <1>0, <1>2 DEF TypeOK
    <2>6. TypeOK'
      BY <1>0, <1>2, <2>2, <2>4, Zenon DEF TypeOK, config
    <2>7. ConnInv(c)'
      <3>1. UNCHANGED <<listener, upgraded, buffer>>
        BY <1>2, Zenon DEF config
      <3>2. c \in upgraded => listener = "starttls"
        BY <1>0, Zenon DEF ConnInv
      <3> QED BY <1>0, <2>5, <3>1, <3>2 DEF ConnInv
    <2>8. WorkInv'
      BY <1>0, <1>2, <2>5, SameWork, Zenon
    <2>9. TookHello(c)'
      BY <2>5 DEF TookHello
    <2> QED BY <1>2, <2>4, <2>5, <2>6, <2>7, <2>8, <2>9, ServerSide
  <1> QED BY <1>1, <1>2 DEF TlsAccept

\* The connection task takes a call from its buffer.
LEMMA ServeInv == ASSUME Inv, NEW c \in Conns, Serve(c) PROVE Inv'
  <1> DEFINE m == Head(buffer[c])
  <1>0. srv[c] \in {"serving", "tls"} /\ buffer[c] # <<>> /\ TypeOK /\ ConnInv(c)
    BY DEF Inv, Serve, Decodable
  <1>1. CASE End(c) /\ UNCHANGED down
    BY <1>0, <1>1, EndInv
  <1>2. CASE /\ SendDown(c, "badcred") /\ buffer' = [buffer EXCEPT ![c] = Tail(@)]
             /\ UNCHANGED <<config, client, error, up, srv, permits, jobs, served, upgraded>>
    BY <1>0, <1>2, RefusedInv, Zenon
  <1>3. CASE Spawn(c, m) /\ buffer' = [buffer EXCEPT ![c] = Tail(@)]
    <2>1. /\ m \in Messages /\ m = buffer[c][1] /\ 1 \in 1..Len(buffer[c])
          /\ buffer' \in [Conns -> Seq(Messages)]
      BY <1>0, <1>3, DropFirst, Zenon
    <2>2. TypeOK'
      BY <1>0, <1>3, <2>1 DEF TypeOK, Spawn, config
    <2>3. m.layer = "clear" => ServedClear(c)
      BY <1>0, <2>1 DEF ConnInv, ServedClear
    <2>4. WorkInv'
      <3>1. \A d : ServedClear(d) => ServedClear(d)'
        BY <1>3 DEF Spawn, ServedClear, Requires, config
      <3> QED BY <1>3, <2>3, <3>1 DEF Inv, WorkInv, Spawn
    <2>5. ConnInv(c)'
      BY <1>0, <1>3, DropFirst DEF ConnInv, Requires, Spawn, config
    <2>6. \A d \in Conns \ {c} : buffer'[d] = buffer[d]
      BY <1>0, <1>3 DEF TypeOK
    <2> QED BY <1>3, <2>2, <2>4, <2>5, <2>6, ServerSide, Zenon DEF Spawn, TookHello, Coming
  <1> QED BY <1>1, <1>2, <1>3 DEF Serve

\* The connection task reads from its socket into its buffer.
LEMMA ReadInv == ASSUME Inv, NEW c \in Conns, Read(c) PROVE Inv'
  <1>0. srv[c] \in {"negotiating", "serving", "tls"} /\ TypeOK /\ ConnInv(c)
    BY DEF Inv, Read
  <1>1. CASE End(c) /\ UNCHANGED down
    BY <1>0, <1>1, EndInv
  <1>2. ASSUME NEW k \in 1..Len(up[c]), srv[c] = "tls" => \A i \in 1..k : up[c][i].layer = "tls",
               buffer' = [buffer EXCEPT ![c] = @ \o SubSeq(up[c], 1, k)],
               up' = [up EXCEPT ![c] = SubSeq(@, k + 1, Len(@))],
               UNCHANGED <<config, client, error, down, srv, permits, jobs, served, upgraded>>
        PROVE  Inv'
    <2> DEFINE q == buffer[c]
               new == SubSeq(up[c], 1, k)
    <2>1. q \in Seq(Messages) /\ up[c] \in Seq(Messages) /\ Len(q) \in Nat /\ Len(up[c]) \in Nat /\ k \in Nat
      BY <1>0, LenProperties DEF TypeOK
    <2>2. \A i \in 1..Len(up[c]) : up[c][i] \in Messages
      BY <2>1, ElementOfSeq
    <2>3. (\A i \in 1..k : up[c][i] \in Messages) /\ (\A i \in k + 1..Len(up[c]) : up[c][i] \in Messages)
      BY <2>1, <2>2, <1>2
    <2>4. new \in Seq(Messages) /\ Len(new) = k /\ \A i \in 1..k : new[i] = up[c][i]
      <3>1. /\ new \in Seq(Messages) /\ Len(new) = IF 1 <= k THEN k - 1 + 1 ELSE 0
            /\ \A i \in 1..k - 1 + 1 : new[i] = up[c][1 + i - 1]
        BY <2>1, <2>3, SubSeqProperties
      <3> QED BY <2>1, <3>1, <1>2
    <2>5. SubSeq(up[c], k + 1, Len(up[c])) \in Seq(Messages)
      <3>1. k + 1 \in Int /\ Len(up[c]) \in Int
        BY <2>1
      <3> QED BY <3>1, <2>3, SubSeqProperties
    <2>6. /\ q \o new \in Seq(Messages) /\ Len(q \o new) = Len(q) + k
          /\ \A i \in 1..Len(q) + k : (q \o new)[i] = IF i <= Len(q) THEN q[i] ELSE new[i - Len(q)]
      BY <2>1, <2>4, ConcatProperties
    <2>7. TypeOK'
      BY <1>0, <1>2, <2>5, <2>6 DEF TypeOK, config
    <2>8. buffer'[c] = q \o new /\ \A d \in Conns \ {c} : buffer'[d] = buffer[d]
      BY <1>0, <1>2 DEF TypeOK
    <2>9. srv[c] = "tls" => \A i \in 1..Len(buffer'[c]) : buffer'[c][i].layer = "tls"
      <3> SUFFICES ASSUME srv[c] = "tls", NEW i \in 1..Len(q) + k PROVE (q \o new)[i].layer = "tls"
        BY <2>6, <2>8, Zenon
      <3>1. CASE i <= Len(q)
        BY <1>0, <2>1, <2>6, <3>1 DEF ConnInv
      <3>2. CASE ~(i <= Len(q))
        <4>1. i - Len(q) \in 1..k
          BY <2>1, <3>2
        <4> QED BY <1>2, <2>4, <2>6, <3>2, <4>1
      <3> QED BY <3>1, <3>2
    <2>10. ConnInv(c)'
      BY <1>0, <1>2, <2>9 DEF ConnInv, Requires, config
    <2>11. WorkInv'
      BY <1>2, SameWork DEF ServedClear, Requires, config
    <2> QED BY <1>2, <2>7, <2>8, <2>10, <2>11, ServerSide DEF TookHello, Coming
  <1> QED BY <1>1, <1>2 DEF Read

\* A spawned call reaches the service.
LEMMA DispatchInv == ASSUME Inv, NEW j, Dispatch(j) PROVE Inv'
  <1>1. j \in jobs /\ j[1] \in Conns /\ j[2] \in Messages /\ TypeOK
    BY DEF Inv, TypeOK, Dispatch
  <1>2. TypeOK'
    BY <1>1 DEF TypeOK, Dispatch, config
  <1>3. \A d : ServedClear(d) => ServedClear(d)'
    BY DEF Dispatch, ServedClear, Requires, config
  <1>4. WorkInv'
    BY <1>1, <1>3 DEF Inv, WorkInv, Dispatch
  <1>5. ConnInv(j[1])'
    BY <1>1 DEF Inv, Dispatch, ConnInv, Requires, config
  <1> QED BY <1>1, <1>2, <1>4, <1>5, ServerSide DEF Dispatch, TookHello, Coming

\* A dispatched call is answered.
LEMMA ReplyInv == ASSUME Inv, NEW j, Reply(j) PROVE Inv'
  <1>1. j \in jobs /\ j[1] \in Conns /\ TypeOK /\ "reply" \in Answers
    BY DEF Inv, TypeOK, Reply, Answers
  <1>2. /\ down' \in [Conns -> Seq(Answers)]
        /\ \A d \in Conns, x \in {"ok", "flight"} : Coming(d, x)' => Coming(d, x)
    <2>1. CASE UNCHANGED down
      BY <1>1, <2>1, Zenon DEF TypeOK, Coming
    <2>2. CASE SendDown(j[1], "reply")
      BY <1>1, <2>2, SendDownComing
    <2> QED BY <2>1, <2>2, Zenon DEF Reply
  <1>3. TypeOK'
    BY <1>1, <1>2, Zenon DEF TypeOK, Reply, config
  <1>4. \A d : ServedClear(d) => ServedClear(d)'
    BY DEF Reply, ServedClear, Requires, config
  <1>5. WorkInv'
    BY <1>4 DEF Inv, WorkInv, Reply
  <1>6. ConnInv(j[1])'
    BY <1>1 DEF Inv, Reply, ConnInv, Requires, config
  <1> QED BY <1>1, <1>2, <1>3, <1>5, <1>6, ServerSide DEF Reply, TookHello

\* Stuttering keeps the invariant.
LEMMA StutterInv == ASSUME Inv, UNCHANGED vars PROVE Inv'
  <1>1. TypeOK'
    BY DEF Inv, TypeOK, vars, config, serverVars
  <1>2. WorkInv' /\ (\A c \in Conns : ConnInv(c)') /\ (\A c \in Clients : ClientInv(c)')
    BY DEF Inv, WorkInv, ServedClear, ConnInv, ClientInv, Coming, TookHello, Requires, vars, config, serverVars
  <1> QED BY <1>1, <1>2 DEF Inv

\* Every step keeps the invariant.
LEMMA InvStep == Inv /\ [Next]_vars => Inv'
  <1> SUFFICES ASSUME Inv, [Next]_vars PROVE Inv'
    OBVIOUS
  <1>1. ASSUME NEW c \in Conns, Close(c) \/ AcceptStep(c) \/ ServerStep(c) PROVE Inv'
    BY <1>1, CloseInv, AcceptInv, NegotiateInv, TlsAcceptInv, ServeInv, ReadInv, Zenon
       DEF AcceptStep, TlsSyncAccept, TlsAsyncAccept, StartTlsSyncAccept, StartTlsAsyncAccept,
           ServerStep, ServeStartTlsSync, ServeStartTlsAsync, ServeSyncSplit, ServeAsyncSplit
  <1>2. ASSUME NEW j \in jobs, SyncReply(j) \/ AsyncReply(j) PROVE Inv'
    BY <1>2, DispatchInv, ReplyInv, Zenon DEF SyncReply, AsyncReply
  <1> QED BY <1>1, <1>2, ClientStepInv, PeerSendInv, StutterInv, Zenon DEF Next

-----------------------------------------------------------------------------

\* The inductive invariant holds in every reachable state.
THEOREM Invariance == Spec => []Inv
  BY InitInv, InvStep, PTL DEF Spec

\* Whatever the peers send and in whatever pieces it is read, a server that requires TLS
\* dispatches nothing it received in the clear, and no server does once it has accepted
\* the connection's probe.
THEOREM ClearNeverDispatched == Spec => []NoClearDispatch
  <1>1. Inv => NoClearDispatch
    BY DEF Inv, WorkInv, ServedClear, NoClearDispatch
  <1> QED BY <1>1, Invariance, PTL

\* A client speaks TLS only to a server connection that has upgraded.
THEOREM UpgradeAgreed == Spec => []OpenMeansUpgraded
  <1>1. ASSUME Inv PROVE OpenMeansUpgraded
    <2>1. \A c \in Clients : ClientInv(c) /\ ConnInv(c)
      BY <1>1, MessageFacts DEF Inv
    <2> QED BY <2>1 DEF ClientInv, ConnInv, TookHello, OpenMeansUpgraded
  <1> QED BY <1>1, Invariance, PTL

=============================================================================
