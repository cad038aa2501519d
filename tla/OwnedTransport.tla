--------------------------- MODULE OwnedTransport ---------------------------
(***************************************************************************)
(* One generation of an owned RPC stream: the callers' futures, the shared *)
(* reader task, the writer mutex, the registry of pending calls and the    *)
(* terminal failure of the connection (crates/onc-rpc-runtime, owned.rs    *)
(* and owned/segmented.rs).                                                *)
(*                                                                         *)
(* Every critical section of a StdMutex, every await point and every drop  *)
(* that another thread can observe is a step of its own.  Request and      *)
(* reply payloads are abstracted: a frame is unwritten, partly written or  *)
(* wholly written, and a reply is named by the call that it answers.       *)
(***************************************************************************)
EXTENDS Naturals, FiniteSets

CONSTANTS
    Calls,        \* the calls that may be made on this connection
    Xids,         \* transaction identifiers
    XidOf,        \* the XID each call's request carries
    Segmented,    \* calls made with call_into (the others are buffered calls)
    Cancellable,  \* calls whose options carry a CallCancellation token
    Deadlined,    \* calls that have a call deadline
    Droppable,    \* calls whose future the application may drop
    Closing,      \* whether the application may call close()
    Faulty,       \* whether the stream may fail and a receiver callback panic
    WriteLimited, \* whether ClientConfig sets a write timeout
    MaxCalls,     \* AdmissionLimits::max_calls
    NoCall        \* stands for Option::None where a call is expected

ASSUME ConstantsAssumption ==
    /\ IsFiniteSet(Calls)
    /\ XidOf \in [Calls -> Xids]
    /\ Segmented \subseteq Calls
    /\ Cancellable \subseteq Calls
    /\ Deadlined \subseteq Calls
    /\ Droppable \subseteq Calls
    /\ {Closing, Faulty, WriteLimited} \subseteq BOOLEAN
    /\ MaxCalls \in Nat \ {0}
    /\ NoCall \notin Calls

VARIABLES
    pc,        \* phase of each call's future
    err,       \* error with which send_segments failed
    intr,      \* interruptions that have fired: cancellation, call deadline
    wrote,     \* how much of each call's frame reached the stream
    terminal,  \* CallControl::terminal: "none", "ok" or an error
    holder,    \* where the ResponseSender of each call lives
    chan,      \* oneshot channel: "empty", "sent", or "closed" without a value
    result,    \* the value sent or returned: "ok" or an error
    lease,     \* clones of the Arc<AdmissionPermit> that are alive
    entry,     \* Replies::pending: the call registered under each XID
    closed,    \* Replies::closed: "none" or the terminal error
    admitting, \* the admission controller has not been closed
    job,       \* progress of the one State::fail that found the stream open
    todo,      \* pending calls that State::fail has taken but not failed yet
    failing,   \* the call whose permit State::fail is about to drop
    writer,    \* the writer slot still holds the stream's write half
    rpc,       \* phase of the reader task
    rtoken,    \* the call whose CallControl the reader cloned
    rerr,      \* error with which receive_record ends
    aborted,   \* AbortHandle::abort has been called on the reader
    closer,    \* phase of an explicit close()
    handle,    \* the application still owns the transport
    alive      \* State has not been dropped

callVars == <<pc, err, intr, wrote>>
replyVars == <<terminal, holder, chan, result, lease>>
failVars == <<entry, closed, admitting, job, todo, failing>>
readerVars == <<rpc, rtoken, rerr>>
ownerVars == <<closer, handle, alive>>
vars == <<callVars, replyVars, failVars, writer, readerVars, aborted, ownerVars>>

-----------------------------------------------------------------------------
(* Types *)

Interrupts == {"Cancelled", "CallTimeout"}

\* Errors that may end the connection; the others concern one call.
ConnectionErrors == {"WriteTimeout", "ConnectionClosed", "Transport", "Interrupted"}

Errors == Interrupts \cup ConnectionErrors \cup {"DuplicateXid", "Capacity"}

\* Phases in which the future owns the guard of the writer mutex.
WriterPhases == {"locked", "write", "stopW", "finish", "failing", "unwind",
                  "dropFailing", "dropUnwind"}

\* Phases of a registered call whose PendingCall guard is alive.
ActivePhases == WriterPhases \cup {"lock", "stopS", "await", "stopA", "stopwait", "stopD"}

Phases == ActivePhases \cup {"idle", "admitted", "done", "dropped"}

ReaderPhases ==
    {"idle", "recv", "permit", "drain", "cleanup", "fail", "failing", "lockwait",
     "exit", "exitFailing", "exitLock", "exited"}

Holders == {"caller", "registry", "reader", "failer", "gone"}

TypeOK ==
    /\ pc \in [Calls -> Phases]
    /\ err \in [Calls -> Errors \cup {"none"}]
    /\ intr \in [Calls -> SUBSET Interrupts]
    /\ wrote \in [Calls -> {"none", "part", "all"}]
    /\ terminal \in [Calls -> Errors \cup {"none", "ok"}]
    /\ holder \in [Calls -> Holders]
    /\ chan \in [Calls -> {"empty", "sent", "closed"}]
    /\ result \in [Calls -> Errors \cup {"none", "ok"}]
    /\ lease \in [Calls -> SUBSET {"future", "target"}]
    /\ entry \in [Xids -> Calls \cup {NoCall}]
    /\ closed \in ConnectionErrors \cup {"none"}
    /\ admitting \in BOOLEAN
    /\ job \in {"idle", "admission", "pending", "done"}
    /\ todo \in SUBSET Calls
    /\ failing \in Calls \cup {NoCall}
    /\ writer \in BOOLEAN
    /\ rpc \in ReaderPhases
    /\ rtoken \in Calls \cup {NoCall}
    /\ rpc \in {"recv", "permit"} => rtoken # NoCall
    /\ rerr \in {"none", "Transport"}
    /\ aborted \in BOOLEAN
    /\ closer \in {"idle", "failing", "abort", "done"}
    /\ handle \in BOOLEAN
    /\ alive \in BOOLEAN

Init ==
    /\ pc = [c \in Calls |-> "idle"]
    /\ err = [c \in Calls |-> "none"]
    /\ intr = [c \in Calls |-> {}]
    /\ wrote = [c \in Calls |-> "none"]
    /\ terminal = [c \in Calls |-> "none"]
    /\ holder = [c \in Calls |-> "caller"]
    /\ chan = [c \in Calls |-> "empty"]
    /\ result = [c \in Calls |-> "none"]
    /\ lease = [c \in Calls |-> {}]
    /\ entry = [x \in Xids |-> NoCall]
    /\ closed = "none"
    /\ admitting = TRUE
    /\ job = "idle"
    /\ todo = {}
    /\ failing = NoCall
    /\ writer = TRUE
    /\ rpc = "idle"
    /\ rtoken = NoCall
    /\ rerr = "none"
    /\ aborted = FALSE
    /\ closer = "idle"
    /\ handle = TRUE
    /\ alive = TRUE

-----------------------------------------------------------------------------
(* CallControl: the terminal decision shared by the caller and the reader *)

\* CallControl::stop keeps an earlier decision.
Stop(t, e) == IF t = "none" THEN e ELSE t

\* CallControl::finish: the decision it leaves, and the result it returns.
FinishDecision(t) == IF t \in Errors THEN t ELSE "ok"

\* Mutant: a reply that completes after the stop is still reported.
FinishResult_late(t, r) == r

FinishResult(t, r) == IF t \in Errors THEN t ELSE r

-----------------------------------------------------------------------------
(* Shared helpers *)

\* Mutant: the XID alone identifies the entry.
IsOwnEntry_any(c) == entry[XidOf[c]] # NoCall

\* Arc::ptr_eq: the registry entry under the call's XID is the call's own.
IsOwnEntry(c) == entry[XidOf[c]] = c

\* Replies::pending once c has removed the entry that is its own.
Unregistered(c) == IF IsOwnEntry(c) THEN [entry EXCEPT ![XidOf[c]] = NoCall] ELSE entry

WriterFree == \A c \in Calls : pc[c] \notin WriterPhases

\* Tasks that may stand in the queue of the writer mutex, whose permit is handed to the
\* first of them when it is released.
WriterQueued == rpc = "lockwait" \/ \E c \in Calls : pc[c] = "lock"

\* try_lock takes the writer out unless a call owns the mutex, or a queued task has been
\* handed its permit and has not been polled yet.
TryTakeWriter ==
    \/ writer' = (writer /\ ~WriterFree)
    \/ WriterQueued /\ UNCHANGED writer

\* The error interrupted() yields: an explicit cancellation is polled first.
Interruption(c) == IF "Cancelled" \in intr[c] THEN "Cancelled" ELSE "CallTimeout"

\* Mutant: the clone is never dropped.
Dropped_leak(S, clone) == lease

\* The leases left once every call of S drops the given clone of its permit.
Dropped(S, clone) == [c \in Calls |-> IF c \in S THEN lease[c] \ {clone} ELSE lease[c]]

\* The response sender of c is consumed by sending r, unless c was stopped.
Deliver(c, r) ==
    /\ holder' = [holder EXCEPT ![c] = "gone"]
    /\ chan' = [chan EXCEPT ![c] = "sent"]
    /\ terminal' = [terminal EXCEPT ![c] = FinishDecision(@)]
    /\ result' = [result EXCEPT ![c] = FinishResult(terminal[c], r)]

-----------------------------------------------------------------------------
(* State::fail.  Its first critical section records the error and takes    *)
(* the pending calls; only the thread that found the stream open goes on.  *)

\* State::fail(e), first critical section.
Fail(e) ==
    IF closed = "none"
    THEN /\ closed' = e
         /\ todo' = {c \in Calls : entry[XidOf[c]] = c}
         /\ entry' = [x \in Xids |-> NoCall]
         /\ holder' = [c \in Calls |-> IF holder[c] = "registry" THEN "failer"
                                                              ELSE holder[c]]
         /\ job' = "admission"
         /\ UNCHANGED <<admitting, failing>>
    ELSE UNCHANGED <<failVars, holder>>

\* The caller of Fail waits in phase p while its own State::fail is running.
AfterFail(p, q) == IF closed = "none" THEN p ELSE q

FailAdmission ==
    /\ job = "admission"
    /\ job' = "pending"
    /\ admitting' = FALSE
    /\ UNCHANGED <<callVars, replyVars, entry, closed, todo, failing, writer,
                   readerVars, aborted, ownerVars>>

\* One turn of the loop over the taken calls: stop the token, then fail the sender.
FailCall(c) ==
    /\ job = "pending"
    /\ failing = NoCall
    /\ c \in todo
    /\ todo' = todo \ {c}
    /\ terminal' = [terminal EXCEPT ![c] = Stop(@, closed)]
    /\ IF holder[c] = "failer"
       THEN /\ holder' = [holder EXCEPT ![c] = "gone"]
            /\ chan' = [chan EXCEPT ![c] = "sent"]
            /\ result' = [result EXCEPT ![c] = FinishResult(Stop(terminal[c], closed), closed)]
            /\ failing' = c
       ELSE UNCHANGED <<holder, chan, result, failing>>
    /\ UNCHANGED <<callVars, lease, entry, closed, admitting, job, writer,
                   readerVars, aborted, ownerVars>>

\* ResponseSender::fail drops the permit after it has sent the outcome.
FailPermit ==
    /\ failing # NoCall
    /\ lease' = Dropped({failing}, "target")
    /\ failing' = NoCall
    /\ UNCHANGED <<callVars, terminal, holder, chan, result, entry, closed,
                   admitting, job, todo, writer, readerVars, aborted, ownerVars>>

FailDone ==
    /\ job = "pending"
    /\ todo = {}
    /\ failing = NoCall
    /\ job' = "done"
    /\ UNCHANGED <<callVars, replyVars, entry, closed, admitting, todo, failing, writer,
                   readerVars, aborted, ownerVars>>

-----------------------------------------------------------------------------
(* The caller's future *)

\* try_call and try_call_into: admission happens before registration and I/O.
TryCall(c) ==
    /\ handle
    /\ pc[c] = "idle"
    /\ admitting
    /\ Cardinality({d \in Calls : lease[d] # {}}) < MaxCalls
    /\ pc' = [pc EXCEPT ![c] = "admitted"]
    /\ lease' = [lease EXCEPT ![c] = {"future", "target"}]
    /\ UNCHANGED <<err, intr, wrote, terminal, holder, chan, result, failVars,
                   writer, readerVars, aborted, ownerVars>>

\* Dropping the admitted future before its first poll.
DropUnpolled(c) ==
    /\ c \in Droppable
    /\ pc[c] = "admitted"
    /\ pc' = [pc EXCEPT ![c] = "dropped"]
    /\ lease' = [lease EXCEPT ![c] = {}]
    /\ UNCHANGED <<err, intr, wrote, terminal, holder, chan, result, failVars,
                   writer, readerVars, aborted, ownerVars>>

\* Why the first poll may refuse to register the call.
RegisterError(c) ==
    IF closed # "none" THEN closed
    ELSE IF entry[XidOf[c]] # NoCall THEN "DuplicateXid" ELSE "none"

Register(c) ==
    /\ pc[c] = "admitted"
    /\ IF RegisterError(c) = "none"
       THEN /\ pc' = [pc EXCEPT ![c] = "lock"]
            /\ entry' = [entry EXCEPT ![XidOf[c]] = c]
            /\ holder' = [holder EXCEPT ![c] = "registry"]
            /\ UNCHANGED <<result, lease>>
       ELSE /\ pc' = [pc EXCEPT ![c] = "done"]
            /\ result' = [result EXCEPT ![c] = RegisterError(c)]
            /\ lease' = [lease EXCEPT ![c] = {}]
            /\ UNCHANGED <<entry, holder>>
    /\ UNCHANGED <<err, intr, wrote, terminal, chan, closed, admitting, job, todo,
                   failing, writer, readerVars, aborted, ownerVars>>

\* PendingCall::stop begins: the decision is taken, the registry comes next.
StopCall(c, e, p) ==
    /\ pc' = [pc EXCEPT ![c] = p]
    /\ err' = [err EXCEPT ![c] = e]
    /\ terminal' = [terminal EXCEPT ![c] = Stop(@, e)]

\* Mutant: closure does not wake the wait.
LockErrors_deaf(c) == {e \in Interrupts : intr[c] # {} /\ e = Interruption(c)}

\* How the biased select that waits for the writer mutex may fail.
LockErrors(c) ==
    {e \in Interrupts : intr[c] # {} /\ e = Interruption(c)}
      \cup ({closed} \ {"none"})
      \cup {e \in {"WriteTimeout"} : WriteLimited}

AbandonLock(c) ==
    /\ pc[c] = "lock"
    /\ \E e \in LockErrors(c) : StopCall(c, e, "stopS")
    /\ UNCHANGED <<intr, wrote, holder, chan, result, lease, failVars, writer,
                   readerVars, aborted, ownerVars>>

LockWriter(c) ==
    /\ pc[c] = "lock"
    /\ intr[c] = {}
    /\ closed = "none"
    /\ WriterFree
    /\ pc' = [pc EXCEPT ![c] = "locked"]
    /\ UNCHANGED <<err, intr, wrote, replyVars, failVars, writer, readerVars, aborted, ownerVars>>

\* The re-check under the writer lock; the guard is dropped without taking the writer.
CheckOpen(c) ==
    /\ pc[c] = "locked"
    /\ IF closed = "none" /\ writer
       THEN /\ pc' = [pc EXCEPT ![c] = "write"]
            /\ UNCHANGED <<err, terminal>>
       ELSE StopCall(c, IF closed # "none" THEN closed ELSE "ConnectionClosed", "stopS")
    /\ UNCHANGED <<intr, wrote, holder, chan, result, lease, failVars, writer,
                   readerVars, aborted, ownerVars>>

\* poll_write accepts bytes of the frame; write_segments loops until none is left.
WriteSome(c) ==
    /\ pc[c] \in {"write", "finish"}
    /\ pc[c] = "write" => intr[c] = {}
    /\ wrote[c] # "all"
    /\ \E w \in {"part", "all"} : wrote' = [wrote EXCEPT ![c] = w]
    /\ UNCHANGED <<pc, err, intr, replyVars, failVars, writer, readerVars, aborted, ownerVars>>

\* FrameWrite::drop, last part: a closed generation loses its writer and its reader.
ReleaseFrame ==
    /\ writer' = (writer /\ closed = "none")
    /\ aborted' = (aborted \/ closed # "none")

\* The flush succeeded, which may take the peer's reading: send_segments returns Ok and the writer mutex is released.
WriteDone(c) ==
    /\ pc[c] \in {"write", "finish"}
    /\ pc[c] = "write" => intr[c] = {}
    /\ wrote[c] = "all"
    /\ pc' = [pc EXCEPT ![c] = "await"]
    /\ ReleaseFrame
    /\ UNCHANGED <<err, intr, wrote, replyVars, failVars, readerVars, ownerVars>>

\* A frame of which some byte was written cannot be abandoned.
FrameTorn(c) == wrote[c] # "none"

\* Mutant: the bytes already written are forgotten.
Harmless_torn(c, e) == e \in Interrupts \cup {"WriteTimeout"}

\* Errors after which send_segments leaves the generation open.
Harmless(c, e) == ~FrameTorn(c) /\ e \in Interrupts \cup {"WriteTimeout"}

\* The write loop ends with error e.
WriteFailed(c, e) ==
    /\ pc[c] \in {"write", "finish"}
    /\ err' = [err EXCEPT ![c] = e]
    /\ IF Harmless(c, e)
       THEN /\ pc' = [pc EXCEPT ![c] = "unwind"]
            /\ UNCHANGED <<failVars, holder>>
       ELSE /\ pc' = [pc EXCEPT ![c] = AfterFail("failing", "unwind")]
            /\ Fail(e)
    /\ UNCHANGED <<intr, wrote, terminal, chan, result, lease, writer, readerVars, aborted,
                   ownerVars>>

\* Mutant: a soft stop interrupts the frame.
InterruptWrite_hard(c) ==
    /\ pc[c] = "write"
    /\ intr[c] # {}
    /\ WriteFailed(c, Interruption(c))

\* A soft stop during the write: the token is stopped, then Detach follows.
InterruptWrite(c) ==
    /\ pc[c] = "write"
    /\ intr[c] # {}
    /\ StopCall(c, Interruption(c), "stopW")
    /\ UNCHANGED <<intr, wrote, holder, chan, result, lease, failVars, writer,
                   readerVars, aborted, ownerVars>>

WriteError(c) == Faulty /\ WriteFailed(c, "Transport")

WriteClosed(c) == closed # "none" /\ WriteFailed(c, closed)

WriteTimeout(c) == WriteLimited /\ WriteFailed(c, "WriteTimeout")

\* send_segments returns its error; complete_call then calls pending.stop.
Unwind(c) ==
    /\ pc[c] = "unwind" \/ (pc[c] = "failing" /\ job = "done")
    /\ ReleaseFrame
    /\ StopCall(c, err[c], "stopS")
    /\ UNCHANGED <<intr, wrote, holder, chan, result, lease, failVars, readerVars,
                   ownerVars>>

\* Where the future resumes once PendingCall::stop has cleared the registry.
AfterStop(c) ==
    CASE pc[c] = "stopW" -> IF FrameTorn(c) THEN "finish" ELSE "unwind"
      [] pc[c] = "stopS" -> "await"
      [] pc[c] = "stopA" -> "stopwait"
      [] pc[c] = "stopD" -> "dropped"

\* Mutant: the permit is dropped wherever the sender is.
ReleasedByStop_always(c) == {"target"}

\* The permit goes with the sender that PendingCall::stop found in the registry.
ReleasedByStop(c) == IF IsOwnEntry(c) /\ holder[c] = "registry" THEN {"target"} ELSE {}

\* PendingCall::stop, registry part: the call removes its own entry and, if the
\* sender is still there, fails it and drops its permit.
Detach(c) ==
    /\ pc[c] \in {"stopW", "stopS", "stopA", "stopD"}
    /\ pc' = [pc EXCEPT ![c] = AfterStop(c)]
    /\ entry' = Unregistered(c)
    /\ IF IsOwnEntry(c) /\ holder[c] = "registry"
       THEN Deliver(c, err[c])
       ELSE UNCHANGED <<holder, chan, terminal, result>>
    /\ lease' = [lease EXCEPT ![c] =
                   @ \ (ReleasedByStop(c) \cup (IF pc[c] = "stopD" THEN {"future"} ELSE {}))]
    /\ err' = [err EXCEPT ![c] = IF AfterStop(c) = "unwind" THEN @ ELSE "none"]
    /\ intr' = [intr EXCEPT ![c] = IF pc[c] = "stopD" THEN {} ELSE @]
    /\ UNCHANGED <<wrote, closed, admitting, job, todo, failing, writer, readerVars, aborted,
                   ownerVars>>

\* The reply wait is interrupted before a response is ready.
InterruptAwait(c) ==
    /\ pc[c] = "await"
    /\ chan[c] = "empty"
    /\ intr[c] # {}
    /\ StopCall(c, Interruption(c), "stopA")
    /\ UNCHANGED <<intr, wrote, holder, chan, result, lease, failVars, writer,
                   readerVars, aborted, ownerVars>>

\* Mutant: an interrupted call does not wait for its owner to come back.
MayReturn_early(c) == pc[c] = "stopwait" \/ (pc[c] = "await" /\ chan[c] # "empty")

\* The phases in which a ready response completes the future.
MayReturn(c) == pc[c] \in {"await", "stopwait"} /\ chan[c] # "empty"

\* The future returns: PendingCall and then the completion permit are dropped.
Return(c) ==
    /\ MayReturn(c)
    /\ pc' = [pc EXCEPT ![c] = "done"]
    /\ result' = [result EXCEPT ![c] =
                    IF chan[c] = "sent" THEN @
                    ELSE IF terminal[c] \in Errors THEN terminal[c] ELSE "ConnectionClosed"]
    /\ terminal' = [terminal EXCEPT ![c] = Stop(@, "Cancelled")]
    /\ entry' = Unregistered(c)
    /\ lease' = [lease EXCEPT ![c] = @ \ {"future"}]
    /\ intr' = [intr EXCEPT ![c] = {}]
    /\ UNCHANGED <<err, wrote, holder, chan, closed, admitting, job, todo,
                   failing, writer, readerVars, aborted, ownerVars>>

\* The application drops a polled future at an await that owns no frame.
DropFuture(c) ==
    /\ c \in Droppable
    /\ pc[c] \in {"lock", "await", "stopwait"}
    /\ StopCall(c, "Cancelled", "stopD")
    /\ UNCHANGED <<intr, wrote, holder, chan, result, lease, failVars, writer,
                   readerVars, aborted, ownerVars>>

\* The application drops the future while it writes: FrameWrite::drop fails the
\* generation when the frame is torn.
DropWriting(c) ==
    /\ c \in Droppable
    /\ pc[c] \in {"write", "finish"}
    /\ IF FrameTorn(c)
       THEN /\ pc' = [pc EXCEPT ![c] = AfterFail("dropFailing", "dropUnwind")]
            /\ Fail("Interrupted")
       ELSE /\ pc' = [pc EXCEPT ![c] = "dropUnwind"]
            /\ UNCHANGED <<failVars, holder>>
    /\ UNCHANGED <<err, intr, wrote, terminal, chan, result, lease, writer,
                   readerVars, aborted, ownerVars>>

\* FrameWrite::drop ends and PendingCall::drop begins.
DropUnwind(c) ==
    /\ pc[c] = "dropUnwind" \/ (pc[c] = "dropFailing" /\ job = "done")
    /\ ReleaseFrame
    /\ StopCall(c, "Cancelled", "stopD")
    /\ UNCHANGED <<intr, wrote, holder, chan, result, lease, failVars, readerVars,
                   ownerVars>>

\* The application cancels the call's token; the deadline runs from the first poll.
Cancel(c) ==
    /\ c \in Cancellable
    /\ pc[c] \in ActivePhases \cup {"admitted"}
    /\ intr' = [intr EXCEPT ![c] = @ \cup {"Cancelled"}]
    /\ UNCHANGED <<pc, err, wrote, replyVars, failVars, writer, readerVars, aborted, ownerVars>>

Deadline(c) ==
    /\ c \in Deadlined
    /\ pc[c] \in ActivePhases
    /\ intr' = [intr EXCEPT ![c] = @ \cup {"CallTimeout"}]
    /\ UNCHANGED <<pc, err, wrote, replyVars, failVars, writer, readerVars, aborted, ownerVars>>

-----------------------------------------------------------------------------
(* The reader task: receive_record in a loop *)

\* The XID of a reply to c has arrived: look the XID up and take its sender.  The
\* peer may repeat a reply, and answers only requests that it received whole.
ReadXid(c) ==
    /\ rpc = "idle"
    /\ alive
    /\ wrote[c] = "all"
    /\ rtoken' = entry[XidOf[c]]
    /\ LET d == entry[XidOf[c]] IN
       IF d # NoCall /\ holder[d] = "registry"
       THEN /\ rpc' = "recv"
            /\ holder' = [holder EXCEPT ![d] = "reader"]
       ELSE /\ rpc' = "drain"
            /\ UNCHANGED holder
    /\ UNCHANGED <<callVars, terminal, chan, result, lease, failVars, writer, rerr,
                   aborted, ownerVars>>

\* EOF, an I/O error or a record limit while no call is being served.
ReadError ==
    /\ Faulty
    /\ rpc = "idle"
    /\ rpc' = "fail"
    /\ rerr' = "Transport"
    /\ UNCHANGED <<callVars, replyVars, failVars, writer, rtoken, aborted,
                   ownerVars>>

\* The select ends with outcome r of the receive future; the reply is delivered.
Receive(r) ==
    /\ rpc = "recv"
    /\ terminal[rtoken] \notin Errors
    /\ rpc' = "permit"
    /\ Deliver(rtoken, r)
    /\ UNCHANGED <<callVars, lease, failVars, writer, rtoken, aborted, ownerVars>>

ReceiveReply ==
    /\ Receive("ok")
    /\ UNCHANGED rerr

\* A transport, framing or decoding error, or an error of a receiver callback.
ReceiveFailed ==
    /\ Faulty
    /\ Receive("Transport")
    /\ rerr' = "Transport"

\* The caller's buffers are too small: drained, and only this call fails.
ReceiveOverflow ==
    /\ rtoken \in Segmented
    /\ Receive("Capacity")
    /\ UNCHANGED rerr

\* Mutant: the reader does not watch the call's control.
ReceiveStopped_deaf == FALSE /\ UNCHANGED vars

\* CallControl::stopped wins the biased select, or finish reports the earlier stop.
ReceiveStopped ==
    /\ rpc = "recv"
    /\ terminal[rtoken] \in Errors
    /\ rpc' = "permit"
    /\ Deliver(rtoken, terminal[rtoken])
    /\ UNCHANGED <<callVars, lease, failVars, writer, rtoken, rerr,
                   aborted, ownerVars>>

\* The reader's clone of the permit is dropped after the outcome was sent.
DropPermit ==
    /\ rpc = "permit"
    /\ lease' = Dropped({rtoken}, "target")
    /\ rpc' = IF terminal[rtoken] \in Errors THEN "drain" ELSE "cleanup"
    /\ UNCHANGED <<callVars, terminal, holder, chan, result, failVars, writer, rtoken,
                   rerr, aborted, ownerVars>>

\* Mutant: the stop is reported as a failure once its record has been drained.
Drain_fatal ==
    /\ rpc = "drain"
    /\ rpc' = "cleanup"
    /\ rerr' = "Transport"
    /\ UNCHANGED <<callVars, replyVars, failVars, writer, rtoken, aborted,
                   ownerVars>>

\* The rest of the record is discarded; the stream may fail meanwhile.
Drain ==
    /\ rpc = "drain"
    /\ rpc' = "cleanup"
    /\ rerr' \in {"none"} \cup {e \in {"Transport"} : Faulty}
    /\ UNCHANGED <<callVars, replyVars, failVars, writer, rtoken, aborted,
                   ownerVars>>

\* Mutant: the reader leaves the entry to the caller.
ReaderForgets_never == entry

\* The entry is removed only if it is still the one whose token was cloned.
ReaderForgets == IF alive /\ rtoken # NoCall THEN Unregistered(rtoken) ELSE entry

Cleanup ==
    /\ rpc = "cleanup"
    /\ entry' = ReaderForgets
    /\ rtoken' = NoCall
    /\ rpc' = IF rerr = "none" THEN "idle" ELSE "fail"
    /\ UNCHANGED <<callVars, replyVars, closed, admitting, job, todo, failing, writer, rerr,
                   aborted, ownerVars>>

\* reader_loop after an error: fail the generation if its State is still there.
ReaderFails ==
    /\ rpc = "fail"
    /\ IF alive
       THEN /\ Fail(rerr)
            /\ rpc' = AfterFail("failing", "lockwait")
       ELSE /\ rpc' = "exit"
            /\ UNCHANGED <<failVars, holder>>
    /\ rerr' = "none"
    /\ UNCHANGED <<callVars, terminal, chan, result, lease, writer, rtoken, aborted, ownerVars>>

ReaderLocks ==
    /\ rpc = "failing"
    /\ job = "done"
    /\ rpc' = "lockwait"
    /\ UNCHANGED <<callVars, replyVars, failVars, writer, rtoken, rerr,
                   aborted, ownerVars>>

ReaderTakesWriter ==
    /\ rpc = "lockwait"
    /\ WriterFree
    /\ writer' = FALSE
    /\ rpc' = "exit"
    /\ UNCHANGED <<callVars, replyVars, failVars, rtoken, rerr, aborted,
                   ownerVars>>

\* The destination is a Target, whose Drop implementation delivers an outcome.
TargetReturns == rtoken \in Segmented

\* Abort takes effect at an await, and a receiver callback may panic: the locals
\* of receive_record are dropped.  Target::drop returns the owner, and drops its
\* permit when ReaderExit runs; a buffered sender and its permit just go.
ReaderUnwinds ==
    /\ \/ rpc \in {"idle", "recv", "drain", "lockwait"} /\ aborted
       \/ rpc = "recv" /\ rtoken \in Segmented /\ Faulty
    /\ rpc' = "exit"
    /\ CASE rpc = "recv" /\ TargetReturns ->
              /\ Deliver(rtoken, "ConnectionClosed")
              /\ UNCHANGED lease
         [] rpc = "recv" /\ ~TargetReturns ->
              /\ holder' = [holder EXCEPT ![rtoken] = "gone"]
              /\ chan' = [chan EXCEPT ![rtoken] = "closed"]
              /\ lease' = Dropped({rtoken}, "target")
              /\ UNCHANGED <<terminal, result>>
         [] OTHER -> UNCHANGED <<holder, chan, terminal, result, lease>>
    /\ UNCHANGED <<callVars, failVars, writer, rtoken, rerr, aborted, ownerVars>>

\* Mutant: the reader task ends without failing the generation.
ReaderExit_silent ==
    /\ rpc = "exit"
    /\ lease' = Dropped({rtoken}, "target")
    /\ rtoken' = NoCall
    /\ rpc' = "exited"
    /\ UNCHANGED <<callVars, terminal, holder, chan, result, failVars, writer, rerr, aborted,
                   ownerVars>>

\* ReaderExit::drop upgrades its Weak and fails the generation.
ReaderExit ==
    /\ rpc = "exit"
    /\ lease' = Dropped({rtoken}, "target")
    /\ rtoken' = NoCall
    /\ IF alive
       THEN /\ Fail("ConnectionClosed")
            /\ rpc' = AfterFail("exitFailing", "exitLock")
       ELSE /\ rpc' = "exited"
            /\ UNCHANGED <<failVars, holder>>
    /\ UNCHANGED <<callVars, terminal, chan, result, writer, rerr, aborted, ownerVars>>

\* ReaderExit::drop ends: it takes the writer if try_lock can.
ReaderExited ==
    /\ rpc = "exitLock" \/ (rpc = "exitFailing" /\ job = "done")
    /\ rpc' = "exited"
    /\ TryTakeWriter
    /\ UNCHANGED <<callVars, replyVars, failVars, rtoken, rerr, aborted, ownerVars>>

-----------------------------------------------------------------------------
(* The application's handle on the transport *)

\* close(): fail the generation, abort the reader, take the writer if it is free.
Close ==
    /\ handle
    /\ Closing
    /\ closer = "idle"
    /\ closer' = AfterFail("failing", "abort")
    /\ Fail("ConnectionClosed")
    /\ UNCHANGED <<callVars, terminal, chan, result, lease, writer, readerVars,
                   aborted, handle, alive>>

CloseAborts ==
    /\ closer = "abort" \/ (closer = "failing" /\ job = "done")
    /\ closer' = "done"
    /\ aborted' = TRUE
    /\ TryTakeWriter
    /\ UNCHANGED <<callVars, replyVars, failVars, readerVars, handle, alive>>

\* The application drops its last clone of the transport.
DropTransport ==
    /\ handle
    /\ closer \in {"idle", "done"}
    /\ handle' = FALSE
    /\ UNCHANGED <<callVars, replyVars, failVars, writer, readerVars, aborted, closer, alive>>

\* Futures that own a clone of the transport, and reader phases that own the State.
OwnsState ==
    \/ handle
    \/ \E c \in Calls : pc[c] \notin {"idle", "done", "dropped"}
    \/ rpc \in {"failing", "lockwait", "exitFailing", "exitLock"}

\* Mutant: the reader is left to the peer.
DropState_silent ==
    /\ alive
    /\ ~OwnsState
    /\ alive' = FALSE
    /\ writer' = FALSE
    /\ UNCHANGED <<callVars, replyVars, failVars, readerVars, aborted, closer, handle>>

\* State::drop: the writer goes with it and the reader is aborted.
DropState ==
    /\ alive
    /\ ~OwnsState
    /\ alive' = FALSE
    /\ aborted' = TRUE
    /\ writer' = FALSE
    /\ UNCHANGED <<callVars, replyVars, failVars, readerVars, closer, handle>>

-----------------------------------------------------------------------------
(* Specification *)

\* Steps the future takes when it is polled.
CallStep(c) ==
    \/ AbandonLock(c) \/ LockWriter(c) \/ CheckOpen(c)
    \/ InterruptWrite(c) \/ WriteClosed(c) \/ WriteTimeout(c)
    \/ Unwind(c) \/ Detach(c) \/ InterruptAwait(c) \/ Return(c) \/ DropUnwind(c)

\* Choices of the application, of the clock and of the peer.
CallEvent(c) ==
    \/ TryCall(c) \/ DropUnpolled(c) \/ Register(c)
    \/ WriteSome(c) \/ WriteDone(c) \/ WriteError(c)
    \/ DropFuture(c) \/ DropWriting(c) \/ Cancel(c) \/ Deadline(c)

FailStep == FailAdmission \/ (\E c \in Calls : FailCall(c)) \/ FailPermit \/ FailDone

\* Steps of the reader that wait for nothing the peer does.
ReaderStep ==
    \/ ReceiveStopped \/ DropPermit \/ Cleanup \/ ReaderFails \/ ReaderLocks
    \/ ReaderTakesWriter \/ ReaderExit \/ ReaderExited

ReaderEvent ==
    \/ \E c \in Calls : ReadXid(c)
    \/ ReadError \/ ReceiveReply \/ ReceiveFailed \/ ReceiveOverflow \/ Drain

OwnerStep == Close \/ CloseAborts \/ DropTransport \/ DropState

Next ==
    \/ \E c \in Calls : CallStep(c) \/ CallEvent(c)
    \/ FailStep
    \/ ReaderStep \/ ReaderUnwinds \/ ReaderEvent
    \/ OwnerStep

Spec == Init /\ [][Next]_vars

\* The runtime polls every task that was woken and enacts an abort when the task
\* next yields; timers fire.  Nothing is assumed of the peer or the application: neither
\* poll_write nor poll_flush need ever be ready.
Fairness ==
    /\ \A c \in Calls : WF_vars(CallStep(c))
    /\ WF_vars(FailStep)
    /\ WF_vars(ReaderStep)
    /\ SF_vars(aborted /\ ReaderUnwinds)
    /\ WF_vars(CloseAborts)
    /\ WF_vars(DropState)

FairSpec == Spec /\ Fairness

-----------------------------------------------------------------------------
(* Safety *)

\* The registry and the senders agree: an entry belongs to a live call with that
\* XID, and every sender said to be in the registry is reachable there.  A call
\* that stops, a reader that cleans up and a new call with the same XID must not
\* remove each other's entries (Arc::ptr_eq in PendingCall::stop, receive_record).
RegistryOwnership ==
    /\ \A x \in Xids : entry[x] # NoCall =>
          XidOf[entry[x]] = x /\ pc[entry[x]] \in ActivePhases
    /\ \A c \in Calls : holder[c] = "registry" => entry[XidOf[c]] = c

\* A terminal generation has an empty registry, for good: nothing is registered
\* after State::fail took the pending calls.
ClosedIsFinal == closed # "none" => \A x \in Xids : entry[x] = NoCall

\* Between two records the reader never meets an entry whose sender was already
\* taken: such an entry would swallow the reply of a call that still waits.
IdleReaderSeesSenders ==
    rpc = "idle" => \A x \in Xids : entry[x] # NoCall => holder[entry[x]] = "registry"

\* A future that waits for its response has exactly one party that will send it:
\* the registry (with the reader still running), the reader or State::fail.
WaitersHaveDeliverers ==
    \A c \in Calls : pc[c] \in {"await", "stopwait"} /\ chan[c] = "empty" =>
        \/ holder[c] = "registry" /\ entry[XidOf[c]] = c /\ rpc # "exited"
        \/ holder[c] = "reader" /\ rpc = "recv" /\ rtoken = c
        \/ holder[c] = "failer" /\ c \in todo /\ job \in {"admission", "pending"}

\* Return is a quiescence boundary: once a future has returned, neither the registry,
\* nor the reader, nor State::fail holds its receiver, and a call_into whose receiver
\* was lent has been sent it back: the expect() in call_into_admitted cannot panic.
QuiescentReturn ==
    \A c \in Calls : pc[c] = "done" =>
        \/ holder[c] = "caller"
        \/ holder[c] = "gone" /\ (c \in Segmented => chan[c] = "sent")

\* The delivered outcome is the one that was decided first: a stopped call reports
\* its stop and never a reply, and a call that was not stopped reports no stop.
DecidedOutcome ==
    \A c \in Calls : chan[c] = "sent" =>
        IF terminal[c] \in Errors THEN result[c] = terminal[c]
        ELSE terminal[c] = "ok" /\ result[c] \notin Interrupts \cup {"none", "WriteTimeout"}

\* A call's charge lives as long as its sender does, wherever that is, and as
\* long as its future; the admitted calls never exceed max_calls.
CapacityHeld ==
    /\ Cardinality({c \in Calls : lease[c] # {}}) <= MaxCalls
    /\ \A c \in Calls :
          /\ holder[c] \in {"registry", "reader", "failer"} => "target" \in lease[c]
          /\ pc[c] \in ActivePhases => "future" \in lease[c]

\* A step that keeps every decision taken and every outcome sent.
KeepsOutcome ==
    \A c \in Calls :
        /\ terminal[c] # "none" => terminal'[c] = terminal[c]
        /\ chan[c] # "empty" => chan'[c] = chan[c]
        /\ chan[c] = "sent" => result'[c] = result[c]

\* The decision about a call and the outcome it was sent never change: stop,
\* finish and the senders race, and the first one wins for good.
OneOutcome == [][KeepsOutcome]_vars

\* No byte of a frame follows a torn frame: while some frame is partly written,
\* only the call that writes it may write.
NoFrameAfterTear ==
    [][\A c \in Calls : wrote'[c] # wrote[c] =>
          \A d \in Calls \ {c} : wrote[d] # "part"]_vars

\* Cancellation, call deadlines, oversized replies and late replies preserve a
\* connection that nothing else harms: only a write timeout, or a future dropped
\* after the first byte of its frame and before the flush, ends it.
HealthyStaysOpen ==
    ~Faulty /\ closer = "idle" /\ alive /\ closed # "none" =>
        \/ WriteLimited /\ closed = "WriteTimeout"
        \/ closed = "Interrupted" /\ \E c \in Droppable :
               pc[c] \in {"dropFailing", "dropUnwind", "stopD", "dropped"} /\ wrote[c] # "none"

\* What docs/owned-buffers.md promises of a returned call: its capacity has been
\* released.
CapacityReleasedOnReturn == \A c \in Calls : pc[c] = "done" => lease[c] = {}

-----------------------------------------------------------------------------
(* Refinement *)

\* Phases of a call as its application sees them.
PhaseOf(p) ==
    IF p = "idle" THEN "idle"
    ELSE IF p = "done" THEN "returned"
    ELSE IF p = "dropped" THEN "abandoned" ELSE "running"

Lent == {c \in Calls : holder[c] \in {"registry", "reader", "failer"}}

Told(c) == IF chan[c] = "sent" \/ pc[c] = "done" THEN result[c] ELSE "none"

Contract ==
    INSTANCE CallContract WITH
        Owned <- Segmented,
        phase <- [c \in Calls |-> PhaseOf(pc[c])],
        lent <- Lent,
        outcome <- [c \in Calls |-> Told(c)],
        charged <- {c \in Calls : lease[c] # {}},
        ended <- closed

\* The transport keeps its contract with the callers: whatever callers, reader,
\* State::fail and the owner do between their critical sections, every step is one
\* of the contract's, or none.
ImplementsContract == Contract!Spec

-----------------------------------------------------------------------------
(* Liveness *)

\* c has begun a frame that is not flushed yet.
OwesFrame(c) == pc[c] \in WriterPhases /\ wrote[c] # "none"

\* A registered call that has nothing left to wait for: its generation is terminal, or it
\* was interrupted and owes the peer no frame that has no time limit.
MustReturn(c) ==
    /\ pc[c] \in ActivePhases
    /\ closed # "none" \/ (intr[c] # {} /\ (OwesFrame(c) => WriteLimited))

\* A call that was cancelled, that has expired or whose connection failed returns (or
\* was dropped), whatever the peer and the other calls do.
StoppedReturns == \A c \in Calls : MustReturn(c) ~> pc[c] \in {"done", "dropped"}

\* Admission capacity comes back after the call has returned or was abandoned.
ChargesReleased == \A c \in Calls : pc[c] \in {"done", "dropped"} ~> lease[c] = {}

\* The reader task ends when the generation is terminal or its State is gone.
ReaderStops == (closed # "none" \/ ~alive) ~> rpc = "exited"

=============================================================================
