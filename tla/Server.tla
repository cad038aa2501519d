------------------------------- MODULE Server -------------------------------
(***************************************************************************)
(* The TCP and UDP servers of onc-rpc-server while serve() runs: the       *)
(* listener, one task per connection, one task per request, the shared     *)
(* pool of worker permits, the writer mutex of each connection, and the    *)
(* runtime that the last OwnedRuntime guard shuts down.  A request is a    *)
(* member of Requests; what it says is its shape, and its reply is itself. *)
(***************************************************************************)
EXTENDS Naturals, FiniteSets, Sequences

CONSTANTS
    Peers,          \* clients: one connection each (TCP) or one address each (UDP)
    Requests,       \* messages, each sent once
    From,           \* From[r]: the peer that sends r
    Stream,         \* Stream[p]: the requests of p in the order p sends them
    Listener,       \* the serve() loop as a waiter for a worker permit
    Shapings,       \* possible functions from Requests to their shapes
    WorkerCounts,   \* values of ServerConfig::worker_threads
    ThreadCounts,   \* values of selector_threads.max(1): threads of the runtime
    Stalling,       \* peers that may stop reading their replies
    Hanging,        \* requests whose dispatch may never return
    Panicking       \* requests whose dispatch may panic

\* A call, one whose reply does not encode, one of no program, and what is no call.
Shapes == {"call", "oversized", "unknown", "reply", "garbage"}

ASSUME ServerAssumption ==
    /\ IsFiniteSet(Requests)
    /\ From \in [Requests -> Peers]
    /\ Stream \in [Peers -> Seq(Requests)]
    /\ \A p \in Peers : \A i \in DOMAIN Stream[p] : From[Stream[p][i]] = p
    /\ \A p \in Peers : \A i, j \in DOMAIN Stream[p] : Stream[p][i] = Stream[p][j] => i = j
    /\ Listener \notin Peers
    /\ Shapings \subseteq [Requests -> Shapes]
    /\ WorkerCounts \subseteq Nat
    /\ ThreadCounts \subseteq Nat \ {0}
    /\ Stalling \subseteq Peers
    /\ Hanging \cup Panicking \subseteq Requests

VARIABLES
    kind,       \* "tcp" or "udp"
    sync,       \* Server (dispatch blocks its thread) or AsyncServer
    workers,    \* the configured worker_threads
    threads,    \* the threads of the runtime
    shape,      \* what each request turns out to be
    loop,       \* serve(): "accept" (TCP), "permit" or "recv" (UDP), "ended"
    conn,       \* connection tasks: "none", "decode", "permit", "read", "ended"
    arrived,    \* requests of each peer that reached the connection's buffer
    taken,      \* requests of each peer decoded, received or lost
    broken,     \* connections that the peer has reset
    queue,      \* waiters for a permit, first come first served
    permits,    \* free permits of worker_limit
    task,       \* the task of each request
    lockq,      \* the writer mutex of each connection: owner first, then waiters
    out,        \* what each peer was sent: frames in two parts, or datagrams
    rt,         \* the runtime: "up", "stopping", "down"
    drainer     \* who dropped the last guard: "none", "outside", "worker"

config == <<kind, sync, workers, threads, shape>>
connVars == <<conn, arrived, taken, broken>>
poolVars == <<queue, permits>>
rtVars == <<rt, drainer>>
vars == <<config, loop, connVars, poolVars, task, lockq, out, rtVars>>

-----------------------------------------------------------------------------
(* Permits, threads and guards *)

\* worker_threads_permits
Permits(n) == IF n = 0 THEN 1 ELSE n

Live(r) == task[r] \in {"spawned", "dispatch", "write", "writing", "send"}

\* A synchronous dispatch keeps its thread, and so does the join in OwnedRuntime::drop.
FreeThread ==
    Cardinality({r \in Requests : sync /\ task[r] = "dispatch"})
        + (IF drainer = "worker" THEN 1 ELSE 0) < threads

Runs == rt # "down" /\ FreeThread

\* Owners of an Arc<OwnedRuntime>: the transport inside serve(), every connection
\* task, and every UDP request task; the request tasks of a connection have none.
Guarded ==
    \/ loop # "ended"
    \/ \E p \in Peers : conn[p] \in {"decode", "permit", "read"}
    \/ kind = "udp" /\ \E r \in Requests : Live(r)

\* OwnedRuntime::drop, in the step that drops the last guard.
GuardDropped(by) ==
    IF rt = "up" /\ ~Guarded'
    THEN rt' = "stopping" /\ drainer' = by
    ELSE UNCHANGED rtVars

\* The task of r ends: its permit goes back, and a UDP task drops its guard.
Finish(r) ==
    /\ task' = [task EXCEPT ![r] = "done"]
    /\ permits' = permits + 1
    /\ UNCHANGED <<config, loop, connVars, queue>>
    /\ GuardDropped("worker")

EndConnection(p) ==
    /\ conn' = [conn EXCEPT ![p] = "ended"]
    /\ UNCHANGED <<config, loop, task>>
    /\ GuardDropped("worker")

-----------------------------------------------------------------------------
(* serve() *)

Init ==
    /\ kind \in {"tcp", "udp"}
    /\ sync \in BOOLEAN
    /\ workers \in WorkerCounts
    /\ threads \in ThreadCounts
    /\ shape \in Shapings
    /\ loop = IF kind = "tcp" THEN "accept" ELSE "permit"
    /\ conn = [p \in Peers |-> "none"]
    /\ arrived = [p \in Peers |-> 0]
    /\ taken = [p \in Peers |-> 0]
    /\ broken = [p \in Peers |-> FALSE]
    /\ queue = IF kind = "tcp" THEN <<>> ELSE <<Listener>>
    /\ permits = Permits(workers)
    /\ task = [r \in Requests |-> "none"]
    /\ lockq = [p \in Peers |-> <<>>]
    /\ out = [p \in Peers |-> <<>>]
    /\ rt = "up"
    /\ drainer = "none"

Accept(p) ==
    /\ loop = "accept"
    /\ conn[p] = "none"
    /\ conn' = [conn EXCEPT ![p] = "decode"]
    /\ UNCHANGED <<config, loop, arrived, taken, broken, poolVars, task, lockq, out, rtVars>>

\* UDP: the permit of the next datagram is taken before it is received.
ListenerAcquires ==
    /\ loop = "permit"
    /\ queue # <<>> /\ Head(queue) = Listener
    /\ permits > 0
    /\ loop' = "recv"
    /\ queue' = Tail(queue)
    /\ permits' = permits - 1
    /\ UNCHANGED <<config, connVars, task, lockq, out, rtVars>>

Receive(p) ==
    /\ loop = "recv"
    /\ taken[p] < Len(Stream[p])
    /\ taken' = [taken EXCEPT ![p] = @ + 1]
    /\ task' = [task EXCEPT ![Stream[p][taken[p] + 1]] = "spawned"]
    /\ loop' = "permit"
    /\ queue' = Append(queue, Listener)
    /\ UNCHANGED <<config, conn, arrived, broken, permits, lockq, out, rtVars>>

\* The network loses a datagram.
Lose(p) ==
    /\ kind = "udp"
    /\ taken[p] < Len(Stream[p])
    /\ taken' = [taken EXCEPT ![p] = @ + 1]
    /\ UNCHANGED <<config, loop, conn, arrived, broken, poolVars, task, lockq, out, rtVars>>

\* accept() or recv_from() fails, or the application drops the serve() future; the UDP
\* loop is the only one that waits for its permits.
EndServe ==
    /\ loop # "ended"
    /\ loop' = "ended"
    /\ queue' = IF loop = "permit" THEN <<>> ELSE queue
    /\ permits' = permits + (IF loop = "recv" THEN 1 ELSE 0)
    /\ UNCHANGED <<config, connVars, task, lockq, out>>
    /\ GuardDropped("outside")

-----------------------------------------------------------------------------
(* serve_sync_connection and serve_async_connection *)

\* One turn of the inner loop: a message, no complete message, or a decode error.
Decode(p) ==
    /\ conn[p] = "decode"
    /\ Runs
    /\ UNCHANGED <<arrived, broken, permits, lockq, out>>
    /\ \/ /\ taken[p] = arrived[p]
          /\ conn' = [conn EXCEPT ![p] = "read"]
          /\ UNCHANGED <<config, loop, taken, queue, task, rtVars>>
       \/ /\ taken[p] < arrived[p]
          /\ taken' = [taken EXCEPT ![p] = @ + 1]
          /\ IF shape[Stream[p][taken[p] + 1]] = "garbage"
             THEN /\ EndConnection(p)
                  /\ UNCHANGED queue
             ELSE /\ conn' = [conn EXCEPT ![p] = "permit"]
                  /\ queue' = Append(queue, p)
                  /\ UNCHANGED <<config, loop, task, rtVars>>

\* The permit is granted and the request gets a task of its own.
Spawn(p) ==
    /\ conn[p] = "permit"
    /\ Runs
    /\ queue # <<>> /\ Head(queue) = p
    /\ permits > 0
    /\ queue' = Tail(queue)
    /\ permits' = permits - 1
    /\ task' = [task EXCEPT ![Stream[p][taken[p]]] = "spawned"]
    /\ conn' = [conn EXCEPT ![p] = "decode"]
    /\ UNCHANGED <<config, loop, arrived, taken, broken, lockq, out, rtVars>>

\* read_buf returns bytes that complete one or more messages.
Read(p) ==
    /\ conn[p] = "read"
    /\ Runs
    /\ ~broken[p]
    /\ \E n \in arrived[p] + 1 .. Len(Stream[p]) : arrived' = [arrived EXCEPT ![p] = n]
    /\ conn' = [conn EXCEPT ![p] = "decode"]
    /\ UNCHANGED <<config, loop, taken, broken, poolVars, task, lockq, out, rtVars>>

\* Mutant: the connection keeps its request tasks in a JoinSet of its own, which ends them.
Eof_aborts(p) ==
    LET mine == {r \in Requests : From[r] = p /\ Live(r)} IN
    /\ conn[p] = "read"
    /\ Runs
    /\ conn' = [conn EXCEPT ![p] = "ended"]
    /\ task' = [r \in Requests |-> IF r \in mine THEN "cancelled" ELSE task[r]]
    /\ permits' = permits + Cardinality(mine)
    /\ lockq' = [lockq EXCEPT ![p] = <<>>]
    /\ UNCHANGED <<config, loop, arrived, taken, broken, queue, out>>
    /\ GuardDropped("worker")

\* read_buf returns 0: the peer will send nothing more.
Eof(p) ==
    /\ conn[p] = "read"
    /\ Runs
    /\ EndConnection(p)
    /\ UNCHANGED <<arrived, taken, broken, poolVars, lockq, out>>

ReadFails(p) ==
    /\ conn[p] = "read"
    /\ Runs
    /\ broken[p]
    /\ EndConnection(p)
    /\ UNCHANGED <<arrived, taken, broken, poolVars, lockq, out>>

\* The peer resets the connection; nobody notices before the next read or write.
Reset(p) ==
    /\ conn[p] # "none"
    /\ ~broken[p]
    /\ broken' = [broken EXCEPT ![p] = TRUE]
    /\ UNCHANGED <<config, loop, conn, arrived, taken, poolVars, task, lockq, out, rtVars>>

-----------------------------------------------------------------------------
(* The task of a request *)

\* The reply is ready: lock the writer of the connection, or send the datagram.
Reply(r) ==
    /\ task' = [task EXCEPT ![r] = IF kind = "tcp" THEN "write" ELSE "send"]
    /\ lockq' = IF kind = "tcp" THEN [lockq EXCEPT ![From[r]] = Append(@, r)] ELSE lockq
    /\ UNCHANGED <<config, loop, connVars, poolVars, rtVars>>

\* handle_message_with_peer_addr up to the dispatcher: a UDP task still has to
\* decode, a reply message is an error, an unknown program is answered at once.
Resolve(r) ==
    /\ task[r] = "spawned"
    /\ Runs
    /\ UNCHANGED out
    /\ \/ /\ shape[r] \in {"garbage", "reply"}
          /\ Finish(r)
          /\ UNCHANGED lockq
       \/ /\ shape[r] = "unknown"
          /\ Reply(r)
       \/ /\ shape[r] \in {"call", "oversized"}
          /\ task' = [task EXCEPT ![r] = "dispatch"]
          /\ UNCHANGED <<config, loop, connVars, poolVars, lockq, rtVars>>

\* The dispatcher returns a response or an error; both are replies.
Dispatched(r) ==
    /\ task[r] = "dispatch"
    /\ sync \/ Runs
    /\ Reply(r)
    /\ UNCHANGED out

\* Mutant: the permit is forgotten when the dispatcher panics.
Panic_leaks(r) ==
    /\ task[r] = "dispatch"
    /\ r \in Panicking
    /\ sync \/ Runs
    /\ task' = [task EXCEPT ![r] = "done"]
    /\ UNCHANGED <<config, loop, connVars, poolVars, lockq, out>>
    /\ GuardDropped("worker")

\* The dispatcher panics: the task unwinds and drops what it owns.
Panic(r) ==
    /\ task[r] = "dispatch"
    /\ r \in Panicking
    /\ sync \/ Runs
    /\ Finish(r)
    /\ UNCHANGED <<lockq, out>>

\* Mutant: the writer is used without its mutex.
BeginWrite_unlocked(r) ==
    /\ task[r] = "write"
    /\ Runs
    /\ ~broken[From[r]] /\ shape[r] # "oversized"
    /\ out' = [out EXCEPT ![From[r]] = Append(@, <<r, "head">>)]
    /\ task' = [task EXCEPT ![r] = "writing"]
    /\ UNCHANGED <<config, loop, connVars, poolVars, lockq, rtVars>>

\* write_rpc_message, with the mutex: the first bytes of the frame.
BeginWrite(r) ==
    /\ task[r] = "write"
    /\ Runs
    /\ Head(lockq[From[r]]) = r
    /\ ~broken[From[r]] /\ shape[r] # "oversized"
    /\ out' = [out EXCEPT ![From[r]] = Append(@, <<r, "head">>)]
    /\ task' = [task EXCEPT ![r] = "writing"]
    /\ UNCHANGED <<config, loop, connVars, poolVars, lockq, rtVars>>

\* Mutant: the guard of the mutex is not dropped.
Unlocked_never(r) == lockq

\* The mutex guard of r is dropped and the next waiter owns the writer.
Unlocked(r) == [lockq EXCEPT ![From[r]] = Tail(@)]

\* The rest of the frame is accepted, once the peer reads.
EndWrite(r) ==
    /\ task[r] = "writing"
    /\ Runs
    /\ ~broken[From[r]]
    /\ out' = [out EXCEPT ![From[r]] = Append(@, <<r, "tail">>)]
    /\ lockq' = Unlocked(r)
    /\ Finish(r)

\* The result of write_rpc_message is ignored and the mutex released.
WriteFails(r) ==
    /\ task[r] \in {"write", "writing"}
    /\ Runs
    /\ Head(lockq[From[r]]) = r
    /\ broken[From[r]] \/ (task[r] = "write" /\ shape[r] = "oversized")
    /\ lockq' = Unlocked(r)
    /\ Finish(r)
    /\ UNCHANGED out

\* send_to takes the whole datagram or fails; a reply that does not encode is lost.
Send(r) ==
    /\ task[r] = "send"
    /\ Runs
    /\ Finish(r)
    /\ \/ shape[r] # "oversized" /\ out' = [out EXCEPT ![From[r]] = Append(@, <<r, "datagram">>)]
       \/ UNCHANGED out
    /\ UNCHANGED lockq

-----------------------------------------------------------------------------
(* The end of the runtime *)

\* Mutant: a task is not dropped in the middle of a write.
Cancellable_unwritten ==
    {r \in Requests : Live(r) /\ task[r] # "writing" /\ ~(sync /\ task[r] = "dispatch")}

\* Tasks at an await; a synchronous dispatch has none.
Cancellable == {r \in Requests : Live(r) /\ ~(sync /\ task[r] = "dispatch")}

\* A worker that sees the shutdown drops every task at its await, one by one; the
\* tasks that are left may run in between only on another thread.
Cancel ==
    /\ rt = "stopping"
    /\ FreeThread
    /\ \E S \in SUBSET Cancellable :
          /\ S # {}
          /\ threads = 1 => S = Cancellable
          /\ task' = [r \in Requests |-> IF r \in S THEN "cancelled" ELSE task[r]]
          /\ permits' = permits + Cardinality(S)
          /\ lockq' = [p \in Peers |-> SelectSeq(lockq[p], LAMBDA q : q \notin S)]
    /\ UNCHANGED <<config, loop, connVars, queue, out, rtVars>>

\* Runtime::drop returns when every worker has ended; a worker that waits for
\* this very drop never does.
RuntimeDown ==
    /\ rt = "stopping"
    /\ drainer = "outside"
    /\ \A r \in Requests : ~Live(r)
    /\ rt' = "down"
    /\ UNCHANGED <<config, loop, connVars, poolVars, task, lockq, out, drainer>>

-----------------------------------------------------------------------------
(* Specification *)

ConnStep(p) == Decode(p) \/ Spawn(p) \/ ReadFails(p)

\* What peers, the network and the application do.
PeerEvent(p) == Accept(p) \/ Receive(p) \/ Lose(p) \/ Read(p) \/ Eof(p) \/ Reset(p)

\* Steps of a request task that need no dispatcher to return and no peer to read.
TaskStep(r) == Resolve(r) \/ BeginWrite(r) \/ WriteFails(r) \/ Send(r)

Next ==
    \/ \E p \in Peers : ConnStep(p) \/ PeerEvent(p)
    \/ \E r \in Requests : TaskStep(r) \/ Dispatched(r) \/ Panic(r) \/ EndWrite(r)
    \/ ListenerAcquires
    \/ EndServe
    \/ Cancel
    \/ RuntimeDown

Spec == Init /\ [][Next]_vars

\* The runtime polls every task that was woken once it has a free thread, and the
\* semaphore and the mutex are fair.  Dispatchers outside Hanging return, and peers
\* outside Stalling read.
Fairness ==
    /\ \A p \in Peers : WF_vars(ConnStep(p))
    /\ \A r \in Requests :
          WF_vars(\/ TaskStep(r)
                  \/ r \notin Hanging /\ Dispatched(r)
                  \/ From[r] \notin Stalling /\ EndWrite(r))
    /\ WF_vars(ListenerAcquires)
    /\ WF_vars(Cancel)
    /\ WF_vars(RuntimeDown)

FairSpec == Spec /\ Fairness

-----------------------------------------------------------------------------
(* Properties *)

\* The values every variable may take.
TypeOK ==
    /\ kind \in {"tcp", "udp"} /\ sync \in BOOLEAN
    /\ workers \in WorkerCounts /\ threads \in ThreadCounts /\ shape \in Shapings
    /\ loop \in {"accept", "permit", "recv", "ended"}
    /\ conn \in [Peers -> {"none", "decode", "permit", "read", "ended"}]
    /\ arrived \in [Peers -> Nat] /\ taken \in [Peers -> Nat]
    /\ broken \in [Peers -> BOOLEAN]
    /\ queue \in Seq(Peers \cup {Listener})
    /\ permits \in Nat
    /\ task \in [Requests -> {"none", "spawned", "dispatch", "write", "writing", "send",
                              "done", "cancelled"}]
    /\ lockq \in [Peers -> Seq(Requests)]
    /\ out \in [Peers -> Seq(Requests \X {"head", "tail", "datagram"})]
    /\ rt \in {"up", "stopping", "down"}
    /\ drainer \in {"none", "outside", "worker"}

\* Every permit is free, with a live request task or with the UDP loop that waits
\* for a datagram: no path through a handler loses one or returns one twice.
PermitsExact ==
    permits + Cardinality({r \in Requests : Live(r)}) + (IF loop = "recv" THEN 1 ELSE 0)
        = Permits(workers)

\* Replies of one connection never interleave: a frame is finished before the next
\* one begins, and no request is answered twice.  Once the runtime stops, only a
\* runtime with one thread keeps to that.
FramesWhole ==
    rt = "up" \/ threads = 1 => \A p \in Peers :
        /\ \A i \in DOMAIN out[p] :
              out[p][i][2] = "head" /\ i < Len(out[p]) => out[p][i + 1] = <<out[p][i][1], "tail">>
        /\ \A i, j \in DOMAIN out[p] : out[p][i] = out[p][j] => i = j

\* The reply of r was written to its end.
Answered(r) == \E i \in DOMAIN out[From[r]] : out[From[r]][i] = <<r, "tail">>

\* What serve_sync_connection and serve_async_connection give up without a reply: a
\* reset connection, no call, a reply that does not encode, a dispatcher that panics.
GivenUp(r) == broken[From[r]] \/ shape[r] \in {"garbage", "reply", "oversized"} \/ r \in Panicking

\* No decoded request of a connection is forgotten, not even after its peer has closed
\* its side and the connection task is gone: it waits for its permit, it has a task, it
\* was answered in full or it was given up for a reason of its own.  The shutdown of
\* the runtime may drop its task, but only once serve() and every connection ended.
RequestsAccounted ==
    kind = "tcp" => \A p \in Peers : \A i \in 1..taken[p] :
        LET r == Stream[p][i] IN
        \/ conn[p] = "permit" /\ i = taken[p]
        \/ Live(r) \/ Answered(r) \/ GivenUp(r)
        \/ /\ task[r] = "cancelled"
           /\ loop = "ended" /\ \A q \in Peers : conn[q] \in {"none", "ended"}

\* Requests that can keep a permit for ever.
Blockers == {r \in Requests : From[r] \in Stalling \/ r \in Hanging}

EnoughWorkers ==
    Cardinality(Blockers) < Permits(workers) /\ (sync => Cardinality(Hanging) < threads)

\* While fewer requests are stuck than there are permits (and, for a synchronous
\* server, threads), every other decoded request is carried through and the UDP
\* loop gets its next permit.
HealthyServed ==
    EnoughWorkers =>
        /\ \A r \in Requests \ Blockers :
              (\/ Live(r)
               \/ conn[From[r]] = "permit" /\ Stream[From[r]][taken[From[r]]] = r)
              ~> (task[r] \in {"done", "cancelled"} \/ drainer = "worker")
        /\ loop = "permit" ~> loop # "permit"

\* When the last guard is dropped outside the runtime, in-flight requests are
\* dropped, even those of a peer that does not read, and the runtime comes down,
\* unless a synchronous dispatcher never returns.
ShutdownCompletes ==
    /\ drainer = "outside"
    /\ ~(sync /\ \E r \in Hanging : task[r] \in {"spawned", "dispatch"})
    ~> rt = "down"

=============================================================================
