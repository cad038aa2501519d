----------------------------- MODULE UdpClient -----------------------------
(***************************************************************************)
(* The UDP client transport (onc-rpc-runtime/src/transport.rs): calls that *)
(* register in the shared pending table, send one datagram and wait on a   *)
(* oneshot channel; the reader task that matches replies by XID; and the   *)
(* registration guard that removes a call's own entry however its future   *)
(* ends.  The network loses, delays, reorders and duplicates replies.      *)
(***************************************************************************)
EXTENDS Integers, FiniteSets

CONSTANTS
    Calls,          \* call_with_options() futures, each used once
    Xids,
    XidOf,          \* [Calls -> Xids]: the XID of each request
    Cancellable,    \* calls whose options carry a cancellation token
    Deadlined,      \* calls with an effective timeout
    Droppable,      \* calls whose future the application may drop
    WriteLimited,   \* whether a write timeout is configured
    NoCall

ASSUME UdpAssumption ==
    /\ XidOf \in [Calls -> Xids]
    /\ Cancellable \subseteq Calls
    /\ Deadlined \subseteq Calls
    /\ Droppable \subseteq Calls
    /\ WriteLimited \in BOOLEAN
    /\ NoCall \notin Calls
    /\ Calls \cap {"none", "empty", "Transport", "Wire", "Cancelled",
                   "CallTimeout", "WriteTimeout", "dropped"} = {}

VARIABLES
    pc,         \* idle, send, await, leave (the guard is about to drop), done
    result,     \* what the call returns; a reply is named by the call that
                \* the peer answered
    chan,       \* the oneshot of each call: "empty", a reply, or "Transport"
    pending,    \* the table: [Xids -> Calls \cup {NoCall}]; an entry's token
                \* is the call that inserted it
    sent,       \* the calls whose datagram left the socket
    reader,     \* recv, deliver, take, drain, exited
    rcall,      \* in deliver: the call whose sender the reader removed
    rmsg,       \* in deliver: the reply
    draining    \* in drain: the entries that fail_pending() took

udpVars == <<pc, result, chan, pending, sent, reader, rcall, rmsg, draining>>

callVars == <<pc, result>>
readerVars == <<reader, rcall, rmsg, draining>>

Active(c) == pc[c] \in {"send", "await"}

UdpInit ==
    /\ pc = [c \in Calls |-> "idle"]
    /\ result = [c \in Calls |-> "none"]
    /\ chan = [c \in Calls |-> "empty"]
    /\ pending = [x \in Xids |-> NoCall]
    /\ sent = {}
    /\ reader = "recv"
    /\ rcall = NoCall
    /\ rmsg = NoCall
    /\ draining = {}

----------------------------------------------------------------------------
(* A call *)

\* An early return: the token is cancelled already, the request cannot be
\* encoded, or the XID is in flight.
Refuse(c, e) ==
    /\ pc[c] = "idle"
    /\ \/ e = "Cancelled" /\ c \in Cancellable
       \/ e = "Wire"
       \/ e = "Transport" /\ pending[XidOf[c]] # NoCall
    /\ pc' = [pc EXCEPT ![c] = "done"]
    /\ result' = [result EXCEPT ![c] = e]
    /\ UNCHANGED <<chan, pending, sent, readerVars>>

\* The call enters the table and owns its registration guard.
Register(c) ==
    /\ pc[c] = "idle"
    /\ pending[XidOf[c]] = NoCall
    /\ pending' = [pending EXCEPT ![XidOf[c]] = c]
    /\ pc' = [pc EXCEPT ![c] = "send"]
    /\ UNCHANGED <<result, chan, sent, readerVars>>

\* send_udp_request succeeds.
Send(c) ==
    /\ pc[c] = "send"
    /\ pc' = [pc EXCEPT ![c] = "await"]
    /\ sent' = sent \cup {c}
    /\ UNCHANGED <<result, chan, pending, readerVars>>

\* The select! ends with e and drops the receiving half of the channel.
End(c, e) ==
    /\ pc' = [pc EXCEPT ![c] = "leave"]
    /\ result' = [result EXCEPT ![c] = e]
    /\ UNCHANGED <<chan, pending, sent, readerVars>>

\* send_udp_request fails or exceeds the write timeout.
SendFails(c, e) ==
    /\ pc[c] = "send"
    /\ e = "Transport" \/ (e = "WriteTimeout" /\ WriteLimited)
    /\ End(c, e)

\* rx.await yields what the reader sent.
Receive(c) ==
    /\ pc[c] = "await"
    /\ chan[c] # "empty"
    /\ End(c, chan[c])

\* The cancellation branch, the deadline, or the caller drops the future.
Interrupt(c, e) ==
    /\ Active(c)
    /\ \/ e = "Cancelled" /\ c \in Cancellable
       \/ e = "CallTimeout" /\ c \in Deadlined
       \/ e = "dropped" /\ c \in Droppable
    /\ End(c, e)

\* Mutant: the guard removes whatever entry has its XID.
Unregister_any(c) ==
    /\ pc[c] = "leave"
    /\ pc' = [pc EXCEPT ![c] = "done"]
    /\ pending' = [pending EXCEPT ![XidOf[c]] = NoCall]
    /\ UNCHANGED <<result, chan, sent, readerVars>>

\* Mutant: the guard removes nothing.
Unregister_leaks(c) ==
    /\ pc[c] = "leave"
    /\ pc' = [pc EXCEPT ![c] = "done"]
    /\ UNCHANGED <<result, chan, pending, sent, readerVars>>

\* UdpPendingCall::drop removes the entry only if its token is this call's.
Unregister(c) ==
    /\ pc[c] = "leave"
    /\ pc' = [pc EXCEPT ![c] = "done"]
    /\ pending' = [pending EXCEPT ![XidOf[c]] = IF @ = c THEN NoCall ELSE @]
    /\ UNCHANGED <<result, chan, sent, readerVars>>

----------------------------------------------------------------------------
(* The reader task *)

\* oneshot::Sender::send (tokio): the value is lost when the receiver is gone.
SendTo(c, m) == chan' = IF Active(c) THEN [chan EXCEPT ![c] = m] ELSE chan

\* Mutant: the reader takes the oldest entry instead of the XID's.
Taken_any(x) == {c \in Calls : \E y \in Xids : pending[y] = c}

\* pending.remove(&xid)
Taken(x) == {pending[x]} \ {NoCall}

\* recv returns a reply to call d; replies to d may come again or never.
\* Empty and undecodable datagrams and unknown XIDs leave everything alone.
ReadReply(d) ==
    /\ reader = "recv"
    /\ d \in sent
    /\ \E c \in Taken(XidOf[d]) :
          /\ pending' = [x \in Xids |-> IF pending[x] = c THEN NoCall ELSE pending[x]]
          /\ rcall' = c
    /\ rmsg' = d
    /\ reader' = "deliver"
    /\ UNCHANGED <<callVars, chan, sent, draining>>

\* entry.sender.send(Ok(message))
Deliver ==
    /\ reader = "deliver"
    /\ SendTo(rcall, rmsg)
    /\ reader' = "recv"
    /\ rcall' = NoCall
    /\ rmsg' = NoCall
    /\ UNCHANGED <<callVars, pending, sent, draining>>

\* socket.recv fails: the loop ends with an error.
ReadFails ==
    /\ reader = "recv"
    /\ reader' = "take"
    /\ UNCHANGED <<callVars, chan, pending, sent, rcall, rmsg, draining>>

\* Mutant: the task ends without failing the pending calls.
TakePending_skipped ==
    /\ reader = "take"
    /\ reader' = "exited"
    /\ UNCHANGED <<callVars, chan, pending, sent, rcall, rmsg, draining>>

\* fail_pending takes the whole table under the lock.
TakePending ==
    /\ reader = "take"
    /\ draining' = {c \in Calls : pending[XidOf[c]] = c}
    /\ pending' = [x \in Xids |-> NoCall]
    /\ reader' = "drain"
    /\ UNCHANGED <<callVars, chan, sent, rcall, rmsg>>

\* fail_pending sends the error to one entry.
FailOne(c) ==
    /\ reader = "drain"
    /\ c \in draining
    /\ SendTo(c, "Transport")
    /\ draining' = draining \ {c}
    /\ UNCHANGED <<callVars, pending, sent, reader, rcall, rmsg>>

\* The reader task ends; nothing records that it did.
ReaderExit ==
    /\ reader = "drain"
    /\ draining = {}
    /\ reader' = "exited"
    /\ UNCHANGED <<callVars, chan, pending, sent, rcall, rmsg, draining>>

----------------------------------------------------------------------------

CallStep(c) == Register(c) \/ Send(c) \/ Receive(c) \/ Unregister(c)

CallEvent(c) ==
    \/ \E e \in {"Cancelled", "Wire", "Transport"} : Refuse(c, e)
    \/ \E e \in {"Transport", "WriteTimeout"} : SendFails(c, e)
    \/ \E e \in {"Cancelled", "CallTimeout", "dropped"} : Interrupt(c, e)

ReaderStep == Deliver \/ TakePending \/ ReaderExit \/ \E c \in Calls : FailOne(c)

ReaderEvent == ReadFails \/ \E d \in Calls : ReadReply(d)

UdpNext ==
    \/ \E c \in Calls : CallStep(c) \/ CallEvent(c)
    \/ ReaderStep
    \/ ReaderEvent

UdpSpec == UdpInit /\ [][UdpNext]_udpVars

\* Tasks that can run are polled.  Replies, errors, timers and cancellation
\* may never come.
UdpFairness ==
    /\ \A c \in Calls : WF_udpVars(Receive(c)) /\ WF_udpVars(Send(c)) /\ WF_udpVars(Unregister(c))
    /\ WF_udpVars(ReaderStep)

UdpFairSpec == UdpSpec /\ UdpFairness

----------------------------------------------------------------------------

\* The futures, the table and the reader keep their types.
UdpTypeOK ==
    /\ pc \in [Calls -> {"idle", "send", "await", "leave", "done"}]
    /\ result \in [Calls -> Calls \cup {"none", "Transport", "Wire", "Cancelled",
                                        "CallTimeout", "WriteTimeout", "dropped"}]
    /\ chan \in [Calls -> Calls \cup {"empty", "Transport"}]
    /\ pending \in [Xids -> Calls \cup {NoCall}]
    /\ sent \in SUBSET Calls
    /\ reader \in {"recv", "deliver", "take", "drain", "exited"}
    /\ rcall \in Calls \cup {NoCall}
    /\ rmsg \in Calls \cup {NoCall}
    /\ draining \in SUBSET Calls
    /\ reader = "deliver" => rcall # NoCall /\ rmsg # NoCall

\* The table holds no call under a foreign XID and no call that has
\* returned: cancellation, timeouts, drops and reader failure leave no entry
\* behind that would block its XID for ever.
NoStaleEntry ==
    \A x \in Xids : pending[x] # NoCall =>
        XidOf[pending[x]] = x /\ pc[pending[x]] \in {"send", "await", "leave"}

\* A waiting call that has no answer still has its sender where somebody
\* can use it: in the table, or in the hands of the reader.  The guard of an
\* earlier call with the same XID never removes it.
SenderNotLost ==
    \A c \in Calls : Active(c) /\ chan[c] = "empty" =>
        \/ pending[XidOf[c]] = c
        \/ reader = "deliver" /\ rcall = c
        \/ reader = "drain" /\ c \in draining

\* A call returns only a reply that carries its XID and answers a datagram
\* that was sent, whatever replies are late or duplicated.
ReplyMatches ==
    \A c \in Calls : result[c] \in Calls =>
        XidOf[result[c]] = XidOf[c] /\ result[c] \in sent

\* When XIDs are not reused, a call returns only the answer to itself.
OwnReply == \A c \in Calls : result[c] \in Calls => result[c] = c

\* When the reader fails, every call that is in the table at that moment
\* returns: fail_pending answers all of them.
FailureReachesPending ==
    \A c \in Calls : (reader = "take" /\ pending[XidOf[c]] = c) ~> (pc[c] = "done")

\* docs/architecture.md: "a UDP client call should send one datagram and wait
\* for a reply until its timeout expires".  A call that waits has a reader
\* that can still hear its reply.
WaitingCallIsHeard ==
    \A c \in Calls : pc[c] = "await" /\ chan[c] = "empty" => reader # "exited"
=============================================================================
