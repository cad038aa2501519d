------------------------------ MODULE StartTls ------------------------------
(***************************************************************************)
(* onc-rpc-tls: the client transports that set up TLS, at once or after an *)
(* AUTH_TLS probe, and the server transports that accept them beside peers *)
(* that send RPC records in whatever order they like.  A message is [layer,*)
(* kind, n]: "clear" records, the flights of the handshake, and records    *)
(* inside TLS.  A socket is a queue of messages, read in pieces.           *)
(***************************************************************************)
EXTENDS Naturals, FiniteSets, Sequences

CONSTANTS
    Clients,        \* transports of this crate, one connection each
    Peers,          \* other RPC peers, one connection each
    Scripts,        \* what a peer may send, without waiting for any answer
    Modes,          \* values of TlsMode tried
    WorkerCounts,   \* values of ServerConfig::worker_threads
    ThreadCounts    \* values of selector_threads.max(1)

Conns == Clients \cup Peers

TlsModes == {"Disabled", "Allowed", "Required", "MutualAuthRequired"}

M(layer, kind, n) == [layer |-> layer, kind |-> kind, n |-> n]

Kinds == {"probe", "invalid", "call", "reply", "garbage"}

\* ClientHello and the client's Finished as seen by the server.
Hello == M("handshake", "hello", 0)
Finished == M("handshake", "finished", 0)

Messages == [layer : {"clear", "tls"}, kind : Kinds, n : Nat] \cup {Hello, Finished}

ASSUME StartTlsAssumption ==
    /\ IsFiniteSet(Conns) /\ Clients \cap Peers = {}
    /\ Modes \subseteq TlsModes
    /\ WorkerCounts \subseteq Nat /\ ThreadCounts \subseteq Nat \ {0}
    /\ Scripts \subseteq Seq(Messages)

VARIABLES
    listener,   \* "tls" (TokioTls...) or "starttls" (TokioStartTls...)
    sync,       \* Server (dispatch blocks its thread) or AsyncServer
    mode,       \* the TlsMode of a STARTTLS server; a TLS server has none
    once,       \* the application calls accept_once in turn, not serve
    workers,    \* the configured worker_threads
    threads,    \* threads of the server's runtime
    alpn,       \* the server's TLS configuration lists sunrpc
    starttls,   \* clients that are STARTTLS transports; the others use TLS at once
    patient,    \* clients whose connect_timeout outlasts every delay but a silent server
    script,     \* what each peer sends
    client,     \* the state of each transport, or of a peer
    error,      \* why a connect failed
    up,         \* sent to the server and not read yet
    down,       \* sent by the server and not read yet
    srv,        \* the server's task for each connection
    buffer,     \* messages the task has read and not decoded
    permits,    \* free permits of worker_limit
    jobs,       \* request tasks: <<connection, message, "spawned" or "running">>
    served,     \* history: messages that reached the dispatcher
    upgraded    \* history: connections whose probe was accepted

config == <<listener, sync, mode, once, workers, threads, alpn, starttls, patient, script>>
serverVars == <<srv, buffer, permits, jobs, served, upgraded>>
vars == <<config, client, error, up, down, serverVars>>

-----------------------------------------------------------------------------
(* Sockets, permits and threads *)

\* worker_threads_permits
Permits(n) == IF n = 0 THEN 1 ELSE n

SendUp(c, m) == up' = [up EXCEPT ![c] = Append(@, m)]
SendDown(c, k) == down' = [down EXCEPT ![c] = Append(@, k)]

\* The connection's stream was dropped by the client's side.
Gone(c) == client[c] \in {"failed", "closed"}

\* Accepted, or handed to a task that still serves it.
Live(c) == srv[c] \notin {"none", "ended"}

\* A synchronous dispatch keeps its thread of the runtime.
FreeThread == sync => Cardinality({j \in jobs : j[3] = "running"}) < threads

Init ==
    /\ listener \in {"tls", "starttls"} /\ sync \in BOOLEAN
    /\ mode \in IF listener = "starttls" THEN Modes ELSE {"none"}
    /\ once \in BOOLEAN
    /\ workers \in WorkerCounts /\ threads \in ThreadCounts
    /\ alpn \in BOOLEAN
    /\ starttls \in SUBSET Clients /\ patient \in SUBSET Clients
    /\ script \in [Peers -> Scripts]
    /\ client = [c \in Conns |-> IF c \in Clients THEN "idle" ELSE "peer"]
    /\ error = [c \in Clients |-> "none"]
    /\ up = [c \in Conns |-> <<>>] /\ down = [c \in Conns |-> <<>>]
    /\ srv = [c \in Conns |-> "none"] /\ buffer = [c \in Conns |-> <<>>]
    /\ permits = Permits(workers)
    /\ jobs = {} /\ served = {} /\ upgraded = {}

-----------------------------------------------------------------------------
(* The client transports *)

\* A connect that fails drops its stream.
Fail(c, why) ==
    /\ client' = [client EXCEPT ![c] = IF @ = "idle" THEN "unconnected" ELSE "failed"]
    /\ error' = [error EXCEPT ![c] = why]
    /\ UNCHANGED <<config, serverVars>>

\* tcp_connect reaches the listener's backlog, or fails.
TcpConnect(c) ==
    /\ client[c] = "idle"
    /\ \/ client' = [client EXCEPT ![c] = "connected"]
          /\ UNCHANGED <<config, error, up, down, serverVars>>
       \/ c \notin patient /\ Fail(c, "Runtime") /\ UNCHANGED <<up, down>>

\* TokioAsyncTlsClientTransport::connect opens the handshake on the new stream.
ConnectTls(c) ==
    /\ client[c] = "connected" /\ c \notin starttls
    /\ SendUp(c, Hello)
    /\ client' = [client EXCEPT ![c] = "handshake"]
    /\ UNCHANGED <<config, error, down, serverVars>>

\* TokioAsyncStartTlsClientTransport::connect sends the probe first.
ConnectStartTls(c) ==
    /\ client[c] = "connected" /\ c \in starttls
    /\ SendUp(c, M("clear", "probe", 0))
    /\ client' = [client EXCEPT ![c] = "probed"]
    /\ UNCHANGED <<config, error, down, serverVars>>

\* Mutant: only a denial is looked for in the reply.
ValidateReply_any(k) == IF k = "badcred" THEN "StartTlsRejected" ELSE "accepted"

\* validate_starttls_reply, and what is no record within STARTTLS_PROBE_LIMITS.
ValidateReply(k) ==
    CASE k = "ok" -> "accepted"
      [] k = "badcred" -> "StartTlsRejected"
      [] k = "reply" -> "InvalidStartTlsReply"
      [] OTHER -> "Runtime"

\* perform_starttls_probe reads one record; a connection that ends instead means
\* that the server refused.
PerformStartTlsProbe(c) ==
    /\ client[c] = "probed"
    /\ \/ /\ down[c] # <<>>
          /\ down' = [down EXCEPT ![c] = Tail(@)]
          /\ LET verdict == ValidateReply(Head(down[c])) IN
             IF verdict = "accepted"
             THEN /\ client' = [client EXCEPT ![c] = "handshake"]
                  /\ SendUp(c, Hello)
                  /\ UNCHANGED <<config, error, serverVars>>
             ELSE Fail(c, verdict) /\ UNCHANGED up
       \/ /\ down[c] = <<>> /\ srv[c] = "ended"
          /\ Fail(c, "StartTlsRejected")
          /\ UNCHANGED <<up, down>>

\* The handshake ends, and validate_client_alpn looks at what was agreed.
ClientHandshake(c) ==
    /\ client[c] = "handshake"
    /\ \/ /\ down[c] # <<>> /\ Head(down[c]) = "flight"
          /\ down' = [down EXCEPT ![c] = Tail(@)]
          /\ SendUp(c, Finished)
          /\ IF alpn
             THEN client' = [client EXCEPT ![c] = "open"]
                  /\ UNCHANGED <<config, error, serverVars>>
             ELSE Fail(c, "MissingSunrpcAlpn")
       \/ /\ IF down[c] = <<>> THEN srv[c] = "ended" ELSE Head(down[c]) # "flight"
          /\ Fail(c, "Handshake")
          /\ UNCHANGED <<up, down>>

\* Mutant: the timeout covers the connect and the probe, not the handshake.
SetupTimeout_probe(c) ==
    /\ client[c] \in {"idle", "connected", "probed"}
    /\ c \notin patient
    /\ Fail(c, "Timeout")
    /\ UNCHANGED <<up, down>>

\* setup_with_timeout
SetupTimeout(c) ==
    /\ client[c] \in {"idle", "connected", "probed", "handshake"}
    /\ c \notin patient
    /\ Fail(c, "Timeout")
    /\ UNCHANGED <<up, down>>

\* One call through the transport, and its close.
Call(c) ==
    /\ client[c] = "open"
    /\ SendUp(c, M("tls", "call", 0))
    /\ client' = [client EXCEPT ![c] = "called"]
    /\ UNCHANGED <<config, error, down, serverVars>>

Close(c) ==
    /\ client[c] \in {"open", "called", "peer"}
    /\ client' = [client EXCEPT ![c] = "closed"]
    /\ UNCHANGED <<config, error, up, down, serverVars>>

\* A peer sends the next message of its script.
PeerSend(c) ==
    /\ client[c] = "peer" /\ script[c] # <<>>
    /\ SendUp(c, Head(script[c]))
    /\ script' = [script EXCEPT ![c] = Tail(@)]
    /\ UNCHANGED <<listener, sync, mode, once, workers, threads, alpn, starttls, patient>>
    /\ UNCHANGED <<client, error, down, serverVars>>

-----------------------------------------------------------------------------
(* The server transports: accepting *)

\* accept_once returns only when the connection has ended; serve spawns a task.
Accept(c) ==
    /\ client[c] \in {"connected", "probed", "handshake", "peer", "failed", "closed"}
    /\ srv[c] = "none"
    /\ once => ~\E d \in Conns : Live(d)
    /\ srv' = [srv EXCEPT ![c] = IF listener = "tls" THEN "accepting" ELSE "negotiating"]
    /\ UNCHANGED <<config, client, error, up, down, buffer, permits, jobs, served, upgraded>>

TlsSyncAccept(c) == listener = "tls" /\ sync /\ Accept(c)
TlsAsyncAccept(c) == listener = "tls" /\ ~sync /\ Accept(c)
StartTlsSyncAccept(c) == listener = "starttls" /\ sync /\ Accept(c)
StartTlsAsyncAccept(c) == listener = "starttls" /\ ~sync /\ Accept(c)

-----------------------------------------------------------------------------
(* The server transports: one connection *)

End(c) ==
    /\ srv' = [srv EXCEPT ![c] = "ended"]
    /\ UNCHANGED <<config, client, error, up, buffer, permits, jobs, served, upgraded>>

\* try_decode_message_from_buffer decodes what is there, however it got there; the
\* bytes of a handshake or of TLS records never make up a record of their own.
Decodable(c) ==
    buffer[c] # <<>> /\ Head(buffer[c]).layer \in {"clear", IF srv[c] = "tls" THEN "tls" ELSE "clear"}

\* auth_tls_request
AuthTlsRequest(m) == IF m.kind \in {"probe", "invalid"} THEN m.kind ELSE "none"

Requires == mode \in {"Required", "MutualAuthRequired"}

\* Mutant: what was read behind the probe is handed to the TLS connection.
Upgraded_keeps(c) == buffer' = [buffer EXCEPT ![c] = Tail(@)]

\* The TLS stream of an accepted probe starts with an empty buffer.
Upgraded(c) == buffer' = [buffer EXCEPT ![c] = <<>>]

\* The first message of a STARTTLS connection, or the next after an invalid request.
Negotiate(c) ==
    /\ srv[c] = "negotiating" /\ FreeThread /\ Decodable(c)
    /\ LET m == Head(buffer[c])
           request == AuthTlsRequest(m)
       IN  \/ /\ m.kind = "garbage" \/ (Gone(c) /\ (request # "none" \/ Requires))
              /\ End(c) /\ UNCHANGED down
           \/ /\ request = "probe"
              /\ SendDown(c, "ok")
              /\ srv' = [srv EXCEPT ![c] = "accepting"]
              /\ Upgraded(c)
              /\ upgraded' = upgraded \cup {c}
              /\ UNCHANGED <<config, client, error, up, permits, jobs, served>>
           \/ /\ request = "invalid"
              /\ SendDown(c, "badcred")
              /\ buffer' = [buffer EXCEPT ![c] = Tail(@)]
              /\ UNCHANGED <<config, client, error, up, srv, permits, jobs, served, upgraded>>
           \/ /\ request = "none" /\ m.kind # "garbage" /\ Requires
              /\ SendDown(c, "badcred") /\ End(c)
           \/ /\ request = "none" /\ m.kind # "garbage" /\ ~Requires
              /\ srv' = [srv EXCEPT ![c] = "serving"]
              /\ UNCHANGED <<config, client, error, up, down, buffer, permits, jobs, served,
                             upgraded>>

ServeStartTlsSync(c) == sync /\ Negotiate(c)
ServeStartTlsAsync(c) == ~sync /\ Negotiate(c)

\* Mutant: a handshake takes its turn among the workers.
HandshakeReady_permit(c) == permits > 0 /\ FreeThread

\* The handshake runs on the connection's task, and only there; accept_once of a TLS
\* server runs it on its caller.
HandshakeReady(c) == FreeThread \/ (once /\ listener = "tls")

\* TlsAcceptor::accept: the client's hello, then its Finished; anything else, or the
\* end of the stream, fails the handshake, with or without an alert.
TlsAccept(c) ==
    /\ srv[c] \in {"accepting", "finishing"}
    /\ HandshakeReady(c)
    /\ LET expected == IF srv[c] = "accepting" THEN Hello ELSE Finished IN
       \/ /\ up[c] # <<>> /\ Head(up[c]) = expected
          /\ up' = [up EXCEPT ![c] = Tail(@)]
          /\ IF srv[c] = "accepting"
             THEN SendDown(c, "flight") /\ srv' = [srv EXCEPT ![c] = "finishing"]
             ELSE UNCHANGED down /\ srv' = [srv EXCEPT ![c] = "tls"]
          /\ UNCHANGED <<config, client, error, buffer, permits, jobs, served, upgraded>>
       \/ /\ IF up[c] = <<>> THEN Gone(c) ELSE Head(up[c]) # expected
          /\ End(c)
          /\ UNCHANGED down \/ SendDown(c, "alert")

\* A permit is taken before the task is spawned.
Spawn(c, m) ==
    /\ permits > 0
    /\ permits' = permits - 1
    /\ jobs' = jobs \cup {<<c, m, "spawned">>}
    /\ UNCHANGED <<config, client, error, up, down, srv, served, upgraded>>

\* The decode loop of serve_sync_split: an AUTH_TLS request is refused here, every other
\* message gets a task of its own.
Serve(c) ==
    /\ srv[c] \in {"serving", "tls"} /\ FreeThread /\ Decodable(c)
    /\ LET m == Head(buffer[c]) IN
       \/ /\ m.kind = "garbage" \/ (Gone(c) /\ AuthTlsRequest(m) # "none")
          /\ End(c) /\ UNCHANGED down
       \/ /\ AuthTlsRequest(m) # "none"
          /\ SendDown(c, "badcred")
          /\ buffer' = [buffer EXCEPT ![c] = Tail(@)]
          /\ UNCHANGED <<config, client, error, up, srv, permits, jobs, served, upgraded>>
       \/ /\ AuthTlsRequest(m) = "none" /\ m.kind # "garbage"
          /\ Spawn(c, m)
          /\ buffer' = [buffer EXCEPT ![c] = Tail(@)]

ServeSyncSplit(c) == sync /\ Serve(c)
ServeAsyncSplit(c) == ~sync /\ Serve(c)

\* read_buf, once nothing in the buffer decodes: any number of the messages that
\* arrived, the end of the stream, or bytes that are not TLS where TLS is spoken.
Read(c) ==
    /\ srv[c] \in {"negotiating", "serving", "tls"} /\ FreeThread /\ ~Decodable(c)
    /\ \/ \E k \in 1..Len(up[c]) :
            /\ srv[c] = "tls" => \A i \in 1..k : up[c][i].layer = "tls"
            /\ buffer' = [buffer EXCEPT ![c] = @ \o SubSeq(up[c], 1, k)]
            /\ up' = [up EXCEPT ![c] = SubSeq(@, k + 1, Len(@))]
            /\ UNCHANGED <<config, client, error, down, srv, permits, jobs, served, upgraded>>
       \/ /\ IF up[c] = <<>> THEN Gone(c) ELSE srv[c] = "tls" /\ Head(up[c]).layer # "tls"
          /\ End(c) /\ UNCHANGED down

\* The task of a request: handle_message keeps the thread of a synchronous server.
Dispatch(j) ==
    /\ j \in jobs /\ j[3] = "spawned" /\ FreeThread
    /\ jobs' = (jobs \ {j}) \cup {<<j[1], j[2], "running">>}
    /\ served' = served \cup {<<j[1], j[2]>>}
    /\ UNCHANGED <<config, client, error, up, down, srv, buffer, permits, upgraded>>

\* handle_message returns; only a call has a reply, which is written if the stream is
\* still there, and the permit goes back.
Reply(j) ==
    /\ j \in jobs /\ j[3] = "running"
    /\ jobs' = jobs \ {j}
    /\ permits' = permits + 1
    /\ IF j[2].kind = "call" /\ ~Gone(j[1]) THEN SendDown(j[1], "reply") ELSE UNCHANGED down
    /\ UNCHANGED <<config, client, error, up, srv, buffer, served, upgraded>>

SyncReply(j) == sync /\ (Dispatch(j) \/ Reply(j))
AsyncReply(j) == ~sync /\ (Dispatch(j) \/ Reply(j))

-----------------------------------------------------------------------------

ClientStep(c) ==
    ConnectTls(c) \/ ConnectStartTls(c) \/ PerformStartTlsProbe(c) \/ ClientHandshake(c)

AcceptStep(c) ==
    TlsSyncAccept(c) \/ TlsAsyncAccept(c) \/ StartTlsSyncAccept(c) \/ StartTlsAsyncAccept(c)

ServerStep(c) ==
    \/ ServeStartTlsSync(c) \/ ServeStartTlsAsync(c) \/ TlsAccept(c)
    \/ ServeSyncSplit(c) \/ ServeAsyncSplit(c) \/ Read(c)

Next ==
    \/ \E c \in Clients : TcpConnect(c) \/ ClientStep(c) \/ SetupTimeout(c) \/ Call(c)
    \/ \E c \in Peers : PeerSend(c)
    \/ \E c \in Conns : Close(c) \/ AcceptStep(c) \/ ServerStep(c)
    \/ \E j \in jobs : SyncReply(j) \/ AsyncReply(j)

Spec == Init /\ [][Next]_vars

\* Tasks that can run are polled, and the timer of a connect fires.  Nothing is assumed
\* of peers, of the application, or of dispatchers returning.
Fairness ==
    /\ \A c \in Clients : WF_vars(ClientStep(c)) /\ WF_vars(SetupTimeout(c))
    /\ \A c \in Conns : WF_vars(AcceptStep(c)) /\ WF_vars(ServerStep(c))

FairSpec == Spec /\ Fairness

-----------------------------------------------------------------------------
(* Properties *)

\* A server that requires TLS dispatches nothing it received in the clear, and on no
\* server does a connection whose probe was accepted have such a message dispatched,
\* whatever was pipelined behind the probe.
NoClearDispatch ==
    \A s \in served : s[2].layer = "clear" =>
        listener = "starttls" /\ ~Requires /\ s[1] \notin upgraded

\* A client that speaks TLS does so with a server that does too: a STARTTLS client begins
\* the handshake only on a connection whose probe was accepted, and a transport that
\* connect returned belongs to a server connection that took its hello.
OpenMeansUpgraded ==
    \A c \in Clients :
        /\ c \in starttls /\ client[c] \in {"handshake", "open", "called"} =>
              listener = "starttls" /\ c \in upgraded
        /\ client[c] \in {"open", "called"} => srv[c] \in {"finishing", "tls", "ended"}

\* "A silent peer cannot retain provisional setup indefinitely": every connect returns.
SetupEnds ==
    \A c \in Clients :
        c \notin patient /\ client[c] \in {"connected", "probed", "handshake"}
        ~> client[c] \in {"open", "failed"}

\* While a server runs serve and, for a synchronous one, a thread is free of dispatchers
\* that hang, a client that matches its listener gets its connection whatever the other
\* connections do: setting up TLS waits for no worker permit and for no other handshake.
HealthyUpgrades ==
    \A c \in Clients :
        /\ ~once /\ alpn /\ c \in patient /\ (c \in starttls <=> listener = "starttls")
        /\ sync => Permits(workers) < threads
        /\ client[c] = "connected"
        ~> client[c] \in {"open", "called", "closed"}

=============================================================================
