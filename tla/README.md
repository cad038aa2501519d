# Verification of oncrpc-rs

TLA+ models of `oncrpc-rs`, checked with TLC on small instances. Every safety
property of the transports, the servers, TLS setup and publication is also proved
with TLAPS, for every value of the constants.
Paths below are relative to `src/crates/`.

## The system

| Part | Source | State | Operations | What is hard |
| --- | --- | --- | --- | --- |
| Owned stream transport | `onc-rpc-runtime/src/owned.rs`, `owned/segmented.rs` | registry of pending calls, writer slot behind an async mutex, terminal error, per-call control word, reader task | call, cancel, deadline, drop, write, read, deliver, fail, close | one call is touched by its future, the reader, `State::fail` and the application at once; caller-owned buffers must come back exactly once; frames must not be torn |
| Admission | `onc-rpc-runtime/src/admission.rs` | counters, permits, a `Notify` | acquire, release, wait, close | wakeups between check and wait, counters at `usize::MAX` |
| XID allocator | `onc-rpc-runtime/src/lib.rs` | one atomic | allocate | races on the exchange, exhaustion |
| UDP client | `onc-rpc-runtime/src/transport.rs` | pending table, reader task | call, receive, fail | late and duplicate replies, reader death |
| Record I/O | `onc-rpc-runtime/src/record_io.rs` | fragment position, limits | read, skip, write vectored | limits across fragments, reads and writes cut anywhere |
| Clients and receivers | `onc-rpc-runtime/src/lib.rs`, `xdr_client.rs` | a call's receiver | build request, check reply, place fields | a body of unknown length among bytes that arrive in pieces |
| Servers | `onc-rpc-server/src/transport.rs`, `lib.rs` | worker semaphore, listener, registry | accept, dispatch, reply | permits on every path, whole replies, end of the runtime |
| rpcbind | `onc-rpc-bind/src/lib.rs` | registrations at a remote service | publish, serve, unpublish, look up | partial failure, requests acted on late |
| TLS | `onc-rpc-tls/src/lib.rs` | what a connection speaks | probe, upgrade, accept, serve | records pipelined behind the probe |
| Wire and XDR | `onc-rpc-wire`, `onc-rpc-xdr` | none | encode, decode | lengths, padding, markers |
| Generator | `onc-rpc-gen` | none at run time | load, parse, emit | the emitted codecs must agree with each other |

How they interact: the generator reads `.x` files and writes clients, servers
and codecs. A generated client encodes an argument, takes an XID from the
allocator of its transport and calls it. A stream call passes admission,
registers under its XID, takes the writer mutex, writes one record and waits.
The reader task reads an XID, takes the entry from the registry and delivers
into it. Failure, `close()` and the last drop of the transport end the
generation for everybody. On the other side a listener hands each connection to
a task, which gives each message to a dispatcher. TLS and rpcbind wrap the setup
of clients and the serving loops.

## Modules

| Module | Models | Proofs |
| --- | --- | --- |
| `CallContract` | what an owned transport promises a caller, without tasks or locks | |
| `OwnedTransport` | one physical stream connection; implements `CallContract` | `OwnedTransportProofs`, `OwnedWriterProofs`, `OwnedRefinementProofs` |
| `Admission` | the counters and the waiters | `ClientProofs` |
| `XidAllocator` | `allocate_xid` | `ClientProofs` |
| `UdpClient` | the UDP transport | `ClientProofs` |
| `Server` | `serve()` of the TCP and UDP servers | `ServerConnectionProofs`, `ServerProofs` |
| `StartTls` | TLS and STARTTLS transports, both ends | `StartTlsProofs` |
| `RpcbindPublication` | publication and lookup | `RpcbindPublicationProofs` |
| `Xdr` | XDR primitives and the segment encoder | |
| `RpcWire` | RPC messages and record marking | |
| `XParser`, `XLoader` | lexer, parser, snapshot printer and loader of the generator | |
| `XCodec` | what the generated codecs do | |
| `TypedCall` | composes the five above with `XidAllocator`, record I/O and the receivers into one typed call | |

The modules `MC...` give the constants values for TLC. Operators named `X_...`
with a comment that starts with "Mutant" are faulty variants of `X`. No
specification uses them; substituting one for `X` must make TLC report the
property it was written for.

### OwnedTransport

State and code:

* `pc[c]`, `err[c]`, `intr[c]`, `wrote[c]`: where the call's future is, the
  error it carries, whether its cancellation or deadline has fired, and how much
  of its frame is on the stream (`none`, `part`, `all`).
* `terminal[c]`: `CallControl`'s decision, made by whoever stops or finishes
  first. `holder[c]`: who owns the response sender with the caller's receiver
  (the registry, the reader, `State::fail`, or nobody any more). `chan[c]`: the oneshot. `result[c]`:
  what the future returned.
* `lease[c]`: the owners of clones of the admission permit. `entry`: the
  registry. `closed`: `State::closed`. `admitting`: admission is open. `job`,
  `todo`, `failing`: a running `State::fail`, the calls it took, the call whose
  permit it is about to drop.
* `writer`: whether the slot still holds the write half. `rpc`, `rtoken`,
  `rerr`, `aborted`: the reader task. `closer`, `handle`, `alive`: the
  application's side.

One action is one stretch of code between two points where another thread or
task can be observed: a critical section, one poll of an I/O future, one
`oneshot` send. Hence `State::fail` is four actions (record and take the
registry; close admission; answer one call and drop its permit; notify), and
delivery is separate from dropping the permit. `try_lock` in `close()` and in
`ReaderExit` (`TryTakeWriter`) fails while a future has the writer mutex. It may
also fail when nobody has it: tokio hands a released mutex to the first task in its
queue, which has not been polled yet (`WriterQueued`). The order of that queue is
left open.

Abstracted: payload bytes and buffers (a frame is none, part or all of it);
the envelope parser (`ReceiveReply`, `ReceiveFailed` and `ReceiveOverflow` are
its possible outcomes, and `TypedCall` has the bytes); durations (a timer may
fire at any time); byte weights (in `Admission`).

Constants switch parts of the environment on: `Cancellable`, `Deadlined`,
`Droppable`, `Segmented` (caller-owned receivers), `Closing` (the application
closes or drops the transport), `Faulty` (I/O errors and panicking callbacks),
`WriteLimited`, `MaxCalls`.

### CallContract and the refinement

A call is idle, running, returned or abandoned. It lends its receiver at most
once, while the connection is open; it is told one outcome, with which the
receiver comes back; it does not return while the receiver is lent; it is
charged from its admission until it is gone and nobody uses its receiver.

`ImplementsContract` is the contract's specification under this mapping: `phase`
from `pc`, `lent` the calls whose sender the registry, the reader or
`State::fail` holds, `outcome` what was sent or returned, `charged` the calls
with a permit clone left, `ended` the terminal error. Three places of the
contract are as loose as the code is: a connection that is torn down may drop the
slot of a buffered call unanswered (`Lose`), a dropped call may take its own entry
from the registry and answer it as it goes (`Abandon`), and a charge may go with
the step that ends the connection (`Release`).

### Admission

`Charge[S]` is the weight of a set of callers together, assumed additive, so
that the accounting can be stated and proved without recursion over sets.
Counter updates wrap at `UsizeMax`, as in a release build; that they never do is
part of `ChargesExact`. Drop and close are two steps each, the second the
notification. `wait_for_capacity` is enable, check, park, and again.
`OwnedTransport` uses admission as an atomic test of the call limit.

### XidAllocator

Load, then exchange, retry or exhaustion. `issued` counts how often each XID was
returned. `MaxXid` stands for `u32::MAX`.

### UdpClient

A call registers, sends, waits and leaves; leaving drops the registration guard
as a step of its own. A reply is named by the call the peer answered; the reader
may receive a reply to any sent request, any number of times. `rx.await` never
fails because no sender is dropped while its call waits (`SenderNotLost`).
Cancellation is the poll that observes the token, so the priority that `biased`
gives it needs no state. Datagrams that are empty, undecodable or for an unknown
XID change nothing and are not actions.

### Server

`kind`, `sync`, `workers`, `threads` and `shape` are chosen in the initial state:
the four servers, their configuration and what the requests turn out to be. A
connection task decodes, waits for a permit, spawns the request's task, and
reads when its buffer holds no complete message; a UDP loop takes the permit
first. A request's task resolves, dispatches, and writes its reply in two parts
under the writer mutex, or sends a datagram. The semaphore and the mutex of tokio
are first come first served (`queue`, `lockq`).

A task needs a free thread for each step. A synchronous dispatch keeps its thread
until it returns, so a synchronous server with one selector thread runs one
dispatch at a time whatever its `worker_threads`. `rt` and `drainer` follow
`OwnedRuntime`: who drops the last guard decides whether the runtime can come
down. A connection task that does so waits for a thread that waits for it; the
model then keeps one worker busy for ever.

### StartTls

A message is a clear record, a flight of the handshake or a record inside TLS.
`up` and `down` are the sockets; `client[c]` is how far a transport's `connect`
got; `srv[c]` is the server's task for a connection: negotiating (a STARTTLS
listener waits for the first message), accepting and finishing (the handshake),
serving (in the clear) or tls. `buffer[c]` is what the task has read and not
decoded: it may read several messages at once, so a call pipelined behind a probe
is in the buffer when the probe is accepted, and the buffer starts empty inside
TLS. `once` tells `accept_once`, called in turn, from `serve`. A peer follows a
script and waits for no answer. The TLS engine is external: a hello and a
Finished, answered by one flight, with ALPN agreed or not.

The code only asks whether the mode requires TLS, so the run has two modes:
`Disabled`, which behaves as `Allowed` does (a probe is accepted), and
`Required`, which behaves as `MutualAuthRequired` does (client certificates are
the acceptor's business).

### RpcbindPublication

A call (`accept_once`, `serve`, `publish_rpcbind`, `maybe_publish_rpcbind`,
`unpublish_rpcbind`) is on a server (`On`), in a phase (new, publish, serve,
unpublish, done) and at a program (`next`). The methods borrow the server, so calls on
one server overlap; `serve_with_rpcbind` takes it by value and is alone (`Borrowed`).
The service is external: a map from program and netid to an address. A request may
be answered, fail before the service acted,
fail after it, or fail and be acted on later (`late`). The future may be dropped
at any await (`Interrupt`). `registry[k]` holds a universal address, with the
port in two bytes, as `universal_addr` writes and `parse_universal_addr` reads
it. The boolean of SET and UNSET is ignored by the code, and so by the model;
`replaces` says whether the service lets a SET replace an entry. `Deployments` are
the combinations of transports and settings an instance has. Two histories:
`published` is every key and address a server has asked for, `last` the last request
of a server that was acted on for each key, and the call it came from. The two
safety properties are about one call, and allow for exactly one thing: that the last
word on the key was another call's on the same server (`OtherCall`).

### Xdr, RpcWire, XParser, XLoader, XCodec

Operators, most named after the function they translate. `Xdr` and `RpcWire` work
on bytes. A 32-bit number is its two's complement value (TLC's integers have 32
bits), a 64-bit number the pair of its words, a float its bits. A reader returns
the value and the rest, or the error and the input as it stood, because
`XdrReplyReceiver` decides from the rest how many bytes to ask for.

`XParser` works on lexemes, from comment stripping to the schema. `XLoader` has
the printer of `ast.rs`, as tokens, and the loader: include lines, search
directories, the visited set, order of modules, renaming of the root. `XCodec`
gives what the emitted Rust does for a type: encode, decode, segmented encode,
and the two projections of a type that ends in an opaque body, metadata (the body
replaced by its length) and segments (the body as several owners).

What can fail returns a result: a credential or verifier beyond `MAX_AUTH_BYTES`
(`Validated`) makes a message unencodable, and `fragment_record` refuses a
fragment length of zero or beyond 31 bits.

### TypedCall

One call from source text to result: `Generate`, `StartCall`, `Allocate` and
`Allocated` (module `XidAllocator`, with other threads in some jobs),
`write_segments`, `Serve`, then the reader: `MarkerRead` and `DataRead` (one
socket read of any size in `Chunks`, or all there is), `RecordEndRead`,
`TooManyFragments`, `PeerCloses`, `Cancel`. `made` is the module set the loader
returned and `env` what the generator wrote from it (types, programs and the two
projections, computed once, as the generated code is fixed); `rr` is the `RecordReader`, `st` the
stage of `receive_record` and `rcv` the receiver. The server finds the arm of a
request by version and then by procedure (`resolve_dispatch`, `handle_message`), and
sends nothing when its reply does not encode. The receivers are those of
`_into` (metadata apart from a body of announced length), `_segmented` (decoded
from caller storage), `call_segmented` (a list of buffers, which an error drops:
`Failed`) and the buffered call.
`CallControl::finish` is the choice between `Deliver`'s two disjuncts: a stop
decided before the reader was done wins, and the reader drains. The lifecycle
around the call (admission, registration, deadlines) is `OwnedTransport`'s.

## What the runs check

| Run | Bounds | Shows |
| --- | --- | --- |
| `owned_shared_xid` | two calls on one XID; one cancellable caller-owned receiver, one buffered call; a healthy stream, write timeouts, drops, close | `RegistryOwnership`, `IdleReaderSeesSenders`, `HealthyStaysOpen`, `ImplementsContract` |
| `owned_timeouts` | two XIDs, a call deadline, write timeout, faults, drops, close | `QuiescentReturn`, `DecidedOutcome`, `CapacityHeld`, `WaitersHaveDeliverers`, `NoFrameAfterTear` |
| `owned_live` | fair; a cancellable call, faults, no write timeout | `StoppedReturns`, `ChargesReleased`, `ReaderStops` |
| `owned_capacity_on_return` | no interruptions | violated, see Findings |
| `admission_limits` | weights 1, 2, 4, 5 against 2 calls and 4 bytes with `UsizeMax` 5: every error of `check` occurs, and so does a sum that does not fit the type | `ChargesExact`, `RefusalHasHolder`, `NoLostWakeup`, `WaiterAnswered` |
| `udp_calls` | three calls, two on one XID; one cancellable, one with a deadline, one droppable; fair | `NoStaleEntry`, `SenderNotLost`, `ReplyMatches`, `FailureReachesPending` |
| `udp_deaf_call` | the same calls | violated, see Findings |
| `server` | two peers with two requests and one; 0 or 2 `worker_threads`, one or two threads; an unknown program, a reply message, garbage, a panic, a reply that does not encode; one peer may stop reading and its request may never return; fair | `PermitsExact`, `FramesWhole`, `RequestsAccounted`, `HealthyServed`, `ShutdownCompletes` |
| `start_tls` | one transport and one scripted peer, five scripts; both listeners, both kinds of server, `accept_once` and `serve`, ALPN or none; one permit, two threads; fair | `NoClearDispatch`, `OpenMeansUpgraded`, `SetupEnds`, `HealthyUpgrades` |
| `rpcbind_publication` | two servers that share a program, over one transport or two; two calls on the first, which may overlap and are symmetric, and one on the second; four deployments, among them every outcome of `publication_info` | `PublishedWhileServing`, `CleanReturn`, `LookupAgrees` |
| `typed_call` | five file trees, each root file cut after every lexeme; 35 calls; reads and writes of 1, 3 or all bytes; three threads, five XIDs | `ServedAsSent`, `OutcomeExact`, `BodyInPlace`, `StreamAtBoundary`, `SourceUnderstood`, `ModulesLoaded`, `IssuedOnce`, `ExhaustionIsReal` |
| `typed_limit` | one call, records of at most 40 bytes | violated, see Findings |

Why the bounds are enough. In `OwnedTransport` the races are between the steps of
one call, the reader, the failure path and one other call that competes for an
XID, the writer or the capacity: two calls have them all. With `MaxCalls` 2 the
limit itself is not reached there; `admission_limits` exercises it and
`CapacityRespected` proves it. In `server` two permits and three requests make
permits, writer and threads contended. In `start_tls` the interference is one
connection's task keeping what another needs, hence two connections; a single
permit makes it scarce. In `rpcbind_publication` a call on the first server meets
another in every phase, or what is left of one that failed. In `typed_call` the two
schemas have one member of every kind the generator supports, two versions use one
procedure number, every receiver stage is met by a read that
stops inside it, and fragment sizes put markers inside the envelope, the metadata
and the body. The over-limit reply of this run is not cancellable; `typed_limit`
is about the case where it is.

`owned_live` drops no call, so that it stays short. With `Droppable = {a}` the same
three properties hold (218,743 states), and `OwnedLive.cfg` can be run that way; the
drops themselves are in the two safety runs. `StoppedReturns` says nothing of a call that was
interrupted with its frame begun and has no write timeout: the code finishes the
frame and waits for the peer.

Runs of finite sets of calls end when all calls have returned, so they disable
the deadlock check; the liveness properties take its place. The admission run
keeps it.

### Fairness

`OwnedTransport`: the runtime polls woken tasks (`CallStep`, `FailStep`,
`ReaderStep`), enacts an abort when the task next yields (strong fairness,
because the reader yields again and again), and an owner that began to close or
to drop the state finishes. An armed timer fires: a write timeout is a
`CallStep`. Nothing is assumed of the peer: it may stall, never reply or never
fail. Neither is anything assumed of a write or a flush, which may stay pending for
ever. `Admission`: a thread inside `drop` or `close` reaches the notification
and waiters are polled; nobody is obliged to drop a permit. `UdpClient`: calls
and the reader are polled; replies, errors and timers may never come. `Server`:
woken tasks are polled when a thread is free, peers outside `Stalling` read and
dispatchers outside `Hanging` return; nobody is obliged to send, close or stop.
`StartTls`: tasks that can run are polled, and the timer of a connect fires unless
the client is in `patient`, whose timeout outlasts every delay; nothing is assumed
of peers, of the application or of dispatchers.

## What is proved

For every set of calls, peers, servers or threads, and every value of the
switches and limits. Each safety property of a run is the statement of a theorem,
except those of `typed_call` that are about bytes (below).

* `OwnedTransportProofs`: `TypeOK` is inductive by itself (`TypeCorrect`), shown
  for one group of variables at a time. `Inv` adds who may hold a response sender
  in each phase (`HolderInv`), that registry entries belong to registered calls of
  that XID (`EntryInv`), what each phase of the future implies (`PhaseInv`), and
  how the decision, channel and result of a call relate (`DecisionInv`). The
  checked properties do not suffice by themselves: an answer in flight is only
  known to be the decided one through the holder. Consequences: `RegistryOwned`,
  `ClosedFinal`, `IdleReader`, `Waiters`,
  `ReturnIsQuiescent` (a future that returned lent nothing it did not get back), `OutcomeDecided` and, as an action property, `OutcomeFinal`.
* `OwnedWriterProofs`: `WriterInv` says that one future at a time has the writer
  mutex, that the slot is full while it writes and empty for ever once a torn frame
  was left behind. It gives the action property `TornFrameIsLast`. `HealthInv` adds to
  the reasons for which an unharmed connection may have ended that, while it is
  open, the reader is at no step that reports an error; with `Inv` and `WriterInv`
  it is inductive and gives `HealthyOpen`.
* `OwnedRefinementProofs`: `LeaseInv` (every live future and every unconsumed
  sender has a permit clone) gives `CapacityRespected`, with a lemma on finite sets
  that bounds the admitted calls. `Refinement`: `OwnedTransport` implements
  `CallContract`. `ContractInit` maps the initial states; `ContractStep` maps every
  step to a step of the contract or to none, from `Inv` (which decides who holds
  the receiver), `LeaseInv` and the bound on admitted calls (without which `Admit`
  need not be enabled). One lemma per group of actions says which contract step
  it is.
* `ClientProofs`, admission: `TypeOK`, `ChargesExact` and `NoLostWakeup` together
  are inductive. `NoLostWakeup` needs the exact counters, because an acquisition
  that wrapped a counter would open capacity without a notification. The byte sum
  uses additivity of `Charge`, from `AdmissionAssumption`. `AccountingExact`,
  `WakeupNotLost` and `RefusalJustified` follow.
* `ClientProofs`, XIDs: inductive with "no thread's local is ahead of the counter";
  `XidsUnique`, `ExhaustionFinal` and the action property `XidsIncrease`.
* `ClientProofs`, UDP: `NoStaleEntry` and `SenderNotLost` are inductive with the
  matching of replies in flight; `TableClean`, `SendersKept`, `RepliesCorrect`.
  `UniqueXidsOwnReply` assumes that XIDs are not reused, which `XidsUnique`
  provides for calls that use the allocator. The definitions of `UdpClient` and
  `XidAllocator` that every module has (`UdpInit`, `XidNext`, ...) carry a prefix,
  so that the proof module can extend the three components together.
* `ServerConnectionProofs` has the invariant of a server and the steps of the
  listener and of the connections; `ServerProofs` has the steps of requests, the end
  of the runtime and the theorems. `RepliesWhole` needs to know that what was
  written tells which task wrote it (`OutInv`), that an unfinished frame is the
  last of its connection (`FrameInv`), and that whoever writes is first in the
  queue of the mutex and whoever wants to is in it (`LockInv`). `Ordered` is when
  that holds: once a runtime with several threads drops its tasks, the mutex orders
  nothing, and the property claims nothing. The invariant also says that the runtime
  is up while the listener or a connection is.
  `PermitsConserved` is a second induction (`PermitInv`), by the cardinality of the
  set of live requests, which changes by one element at a time. `NoneForgotten` is a
  third (`AccountInv`): every position taken off a stream waits, has a task or was
  garbage, and a task ends answered, given up or cancelled. That a cancellation finds
  no connection left comes from the invariant.
* `StartTlsProofs`: `ConnInv` (which task a connection has after which start, and
  that the buffer of a TLS task holds nothing clear), `WorkInv` (a clear message was
  only dispatched on a connection that never upgraded, of a server that does not
  require TLS) and `ClientInv` (an acceptance on its way to a client means that the
  server upgraded, a flight that it took the hello). `ClearNeverDispatched` follows
  from the first two, `UpgradeAgreed` from the last: a client moves on what it
  received, so the invariant must say what is still in the socket.
* `RpcbindPublicationProofs`: `Achieved(c)` says what the loops of call `c` have done
  up to the program they are at, `ServiceInv` where each entry and each late SET comes
  from, `LateInv` that only a call that failed leaves a request behind. A request of
  another call on the server is remembered in `last`; one of another server does no
  harm, because a key is either the server's own or its entry is told apart by the
  address: `ParseInverts` (universal addresses are injective) with `BoundApart`. `PublishedBeforeServing`, `ReturnsClean`,
  `LookupsAgree`.

Assumptions are only those on constants, and TLC evaluates them in the runs:
`ConstantsAssumption`, `AdmissionAssumption`, `XidAssumption`, `UdpAssumption`,
`ServerAssumption` (a stream names requests of its own peer, each once),
`StartTlsAssumption`, `PublicationAssumption`, `AddressAssumption` (ports have 16
bits) and `BoundApart` (two sockets of one protocol and family are not bound to the
same host and port).

Model-checked only:

* every liveness property: the prover does not handle fairness and ENABLED;
* everything about `Xdr`, `RpcWire`, `XParser`, `XLoader`, `XCodec` and
  `TypedCall` but the allocator in it: they are recursive over data, and the prover
  can neither do induction over data nor work in a module with RECURSIVE operators;
* what the queues of `Server` hold while the runtime stops: shutting down filters
  them with `SelectSeq`, which is recursive. The invariant gives their types up to
  then, which is all the theorems need.

## Findings

* `docs/owned-buffers.md:107` promises that capacity "is released before that
  future returns its outcome". The reader sends the outcome and then drops its
  clone of the permit (`owned/segmented.rs:147`), so a caller can see its own
  call still admitted. `owned_capacity_on_return` has the trace.
* `docs/architecture.md:148` says that a UDP call sends one datagram and waits
  for a reply until its timeout expires. One `recv` error ends the UDP reader
  for good and nothing records it (`transport.rs:377`): later calls send and
  wait, but no reply is read. `udp_deaf_call` has the trace.
* `docs/owned-buffers.md:131` says that record-limit violations retire the
  connection. A marker that announces too much is reported as an error of the
  call; when the caller's cancellation was decided just before, the reader drains
  instead of failing (`owned/segmented.rs:631`). The marker is consumed and its
  fragment not entered, so the reader takes the fragment's bytes for markers.
  `typed_limit` has the trace.

Things the models show that no document rules out:

* A metadata error of an `_into` call retires the connection; the same error in a
  `_segmented` call does not.
* XDR decoding does not look at padding bytes; the wire decoder of credentials and
  the `_into` receiver do.
* The ordinary codec does not enforce the bound of a variable array or opaque; the
  segmented encoder and the metadata decoder do.
* A union arm with both case and default labels decodes as the default. A named
  struct, enum or union inside a declaration does not parse; an anonymous one
  does. A constant as a union label does not compile; no schema here has one.
* Include lines are found in comments too. Two files of one stem become two
  modules of one name.
* `register_tcp` and its siblings return rpcbind's FALSE and publication ignores
  it: a server serves although another address holds its key, and withdraws the
  other's entry afterwards.
* Every `accept_once_with_rpcbind` withdraws all keys of its server when it ends: with
  two at a time, the first to end leaves the other accepting unpublished, and an
  UNSET that the service acts on late does the same.
* A STARTTLS server in mode `Disabled` accepts probes.
* `close()` and `ReaderExit` use `try_lock`; a sender that has the mutex, or is next
  in its queue, and finds the generation closed leaves the write half in its slot until the state
  is dropped.
* A late reply to a cancelled stream call reaches a later call that reuses the
  XID. `docs/owned-buffers.md:14` forbids the reuse.

## Not modelled

* `onc-rpc-auth`: stateless field copies and length checks of AUTH_SYS
  credentials, which the other parts carry as opaque bytes.
* `accept_once` of the TCP and UDP servers, which serves one connection or
  datagram on the caller's thread; `Server` has `serve()` only. (`StartTls` has
  both.)
* The blocking wrappers, which run the same futures on an owned runtime; socket
  setup; the configuration builders.
* Of the generator: the text of the Rust code, identifier escaping, documentation
  comments, the async twins of client methods and dispatchers (the same codecs
  around an await), and the command line.
* Five hazards of `PROJECT.json` have no property: the writer slot that `try_lock`
  leaves full, the reuse of an XID after a cancellation, requests that wait because
  stuck ones have every permit, the worker that joins the
  thread waiting for it (the models have these four, and no document says they
  cannot be), and the prefix bound of an array of a typedef of bare `opaque`, a type
  that no interface file uses.

## Plan

1. `accept_once` in `Server`.
2. Composition of `OwnedTransport` with `Admission`'s waiters.
3. The decoding of one record without recursion over data, so that
   `StreamAtBoundary` can be proved.
