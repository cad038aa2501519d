---------------------------- MODULE ServerProofs ----------------------------
(***************************************************************************)
(* Proofs that replies on one connection do not interleave, that the       *)
(* runtime outlives the connections it serves, and that no worker permit   *)
(* is lost or returned twice.                                              *)
(***************************************************************************)
EXTENDS ServerConnectionProofs

-----------------------------------------------------------------------------
(* The steps of a request's task *)

\* The task of r goes on: what is left to show is about the replies.
LEMMA OnInv ==
    ASSUME Inv, NEW r \in Requests, Live(r), NEW st \in {"dispatch", "write", "writing", "send"},
           st \in {"write", "writing"} => kind = "tcp", st = "send" => kind = "udp",
           task' = [task EXCEPT ![r] = st], UNCHANGED <<config, loop, connVars, poolVars, rtVars>>,
           out' \in [Peers -> Seq(Parts)],
           OutInv', FrameInv', LockInv'
    PROVE  Inv'
  <1>1. Values'
    BY DEF Inv, Values, config, connVars, poolVars, rtVars
  <1>2. task'[r] = st /\ \A t \in Requests : t # r => task'[t] = task[t]
    BY DEF Inv, Values
  <1>3. KindInv'
    BY <1>2 DEF Inv, KindInv, config, connVars
  <1>4. StreamInv'
    <2>1. \A t \in Requests : task[t] = "none" => task'[t] = "none"
      BY <1>2 DEF Live
    <2> QED BY <2>1, StreamKept DEF Inv, StreamInv, connVars
  <1>5. RuntimeOutlivesConnections'
    BY SameRuntime DEF Inv, connVars, rtVars
  <1> QED BY <1>1, <1>3, <1>4, <1>5 DEF Inv

\* The task of r ends: what is left to show is about the replies.
LEMMA FinishInv ==
    ASSUME Inv, NEW r \in Requests, Live(r), Finish(r),
           out' \in [Peers -> Seq(Parts)],
           OutInv', (rt' = "up" => rt = "up") /\ (Ordered' => Ordered) => FrameInv' /\ LockInv'
    PROVE  Inv'
  <1>1. conn' \in [Peers -> {"none", "decode", "permit", "read", "ended"}] /\ loop' \in {loop, "ended"}
        /\ \A p \in Peers : conn'[p] \in {conn[p], "ended"}
    BY DEF Inv, Values, Finish, connVars
  <1>2. RuntimeOutlivesConnections' /\ (rt' = "up" => rt = "up")
    BY <1>1, GuardRuntime DEF Inv, Finish
  <1>3. task'[r] = "done" /\ \A t \in Requests : t # r => task'[t] = task[t]
    BY DEF Inv, Values, Finish
  <1>4. Ordered' => Ordered
    <2>1. \A t \in Requests : Live(t)' => Live(t)
      BY <1>3 DEF Live
    <2> QED BY <1>2, <2>1, OrderedBack DEF Finish, config
  <1>5. Values'
    <2>1. rt' \in {"up", "stopping", "down"} /\ drainer' \in {"none", "outside", "worker"}
      BY GuardValues DEF Inv, Finish
    <2> QED BY <2>1 DEF Inv, Values, Finish, config, connVars
  <1>6. KindInv'
    BY <1>3 DEF Inv, KindInv, Finish, config, connVars
  <1>7. StreamInv'
    <2>1. \A t \in Requests : task[t] = "none" => task'[t] = "none"
      BY <1>3 DEF Live
    <2> QED BY <2>1, StreamKept, Zenon DEF Inv, StreamInv, Finish, connVars
  <1> QED BY <1>2, <1>4, <1>5, <1>6, <1>7 DEF Inv

\* A task that goes on, or ends, without having begun a frame.
LEMMA QuietParts ==
    ASSUME Inv, NEW r \in Requests, task[r] \in {"spawned", "dispatch", "send"},
           NEW st \in {"dispatch", "write", "send", "done"}, task' = [task EXCEPT ![r] = st],
           UNCHANGED <<kind, threads, broken, out>>, rt' = "up" => rt = "up", Ordered' => Ordered
    PROVE  OutInv' /\ FrameInv' /\ (st # "write" /\ UNCHANGED lockq => LockInv')
  <1>1. task'[r] = st /\ \A t \in Requests : t # r => task'[t] = task[t]
    BY DEF Inv, Values
  <1>2. OutInv'
    BY <1>1, SameOut DEF Inv
  <1>3. FrameInv'
    BY <1>1, SameFrames DEF Inv
  <1>4. st # "write" /\ UNCHANGED lockq => LockInv'
    BY <1>1, SameLocks DEF Inv
  <1> QED BY <1>2, <1>3, <1>4

\* The reply of r is ready: on TCP it waits for the writer mutex, on UDP it is sent.
LEMMA ReplyInv ==
    ASSUME Inv, NEW r \in Requests, task[r] \in {"spawned", "dispatch"}, Reply(r), UNCHANGED out
    PROVE  Inv'
  <1>1. UNCHANGED <<kind, threads, broken, rt>> /\ Live(r) /\ Values
    BY DEF Inv, Reply, config, connVars, rtVars, Live
  <1>2. out' \in [Peers -> Seq(Parts)]
    BY <1>1 DEF Values
  <1>3. CASE kind = "tcp"
    <2>1. task' = [task EXCEPT ![r] = "write"] /\ lockq' = [lockq EXCEPT ![From[r]] = Append(@, r)]
      BY <1>3 DEF Reply
    <2>2. Ordered' => Ordered
      <3>1. \A t \in Requests : Live(t)' => Live(t)
        BY <1>1, <2>1 DEF Live, Values
      <3> QED BY <1>1, <3>1, OrderedBack
    <2>3. OutInv' /\ FrameInv'
      BY <1>1, <2>1, <2>2, QuietParts, Zenon
    <2>4. LockInv'
      BY <1>1, <2>1, <2>2, LockJoined, Zenon DEF Inv
    <2> QED BY <1>1, <1>2, <1>3, <2>1, <2>3, <2>4, OnInv, Zenon DEF Reply
  <1>4. CASE kind # "tcp"
    <2>1. task' = [task EXCEPT ![r] = "send"] /\ UNCHANGED lockq /\ kind = "udp"
      BY <1>1, <1>4 DEF Reply, Values
    <2>2. Ordered' => Ordered
      <3>1. \A t \in Requests : Live(t)' => Live(t)
        BY <1>1, <2>1 DEF Live, Values
      <3> QED BY <1>1, <3>1, OrderedBack
    <2>3. OutInv' /\ FrameInv' /\ LockInv'
      BY <1>1, <2>1, <2>2, QuietParts, Zenon
    <2> QED BY <1>1, <1>2, <2>1, <2>3, OnInv, Zenon DEF Reply
  <1> QED BY <1>3, <1>4

\* A task ends that never began to write.
LEMMA QuietFinish ==
    ASSUME Inv, NEW r \in Requests, task[r] \in {"spawned", "dispatch", "send"}, Finish(r), UNCHANGED <<lockq, out>>
    PROVE  Inv'
  <1>1. UNCHANGED <<kind, threads, broken>> /\ Live(r) /\ task' = [task EXCEPT ![r] = "done"]
    BY DEF Finish, config, connVars, Live
  <1>2. out' \in [Peers -> Seq(Parts)]
    BY DEF Inv, Values
  <1>3. OutInv'
    <2>1. task'[r] = "done" /\ \A t \in Requests : t # r => task'[t] = task[t]
      BY <1>1 DEF Inv, Values
    <2> QED BY <1>1, <2>1, SameOut DEF Inv
  <1>4. (rt' = "up" => rt = "up") /\ (Ordered' => Ordered) => FrameInv' /\ LockInv'
    BY <1>1, QuietParts, Zenon
  <1> QED BY <1>1, <1>2, <1>3, <1>4, FinishInv

\* A request that is refused, answered at once or given to the dispatcher.
LEMMA ResolveInv == ASSUME Inv, NEW r \in Requests, Resolve(r) PROVE Inv'
  <1>1. task[r] = "spawned" /\ UNCHANGED out
    BY DEF Resolve
  <1>2. CASE Finish(r) /\ UNCHANGED lockq
    BY <1>1, <1>2, QuietFinish
  <1>3. CASE Reply(r)
    BY <1>1, <1>3, ReplyInv
  <1>4. CASE /\ task' = [task EXCEPT ![r] = "dispatch"]
             /\ UNCHANGED <<config, loop, connVars, poolVars, lockq, rtVars>>
    <2>1. UNCHANGED <<kind, threads, broken, rt>> /\ Live(r)
      BY <1>1, <1>4 DEF config, connVars, rtVars, Live
    <2>2. Ordered' => Ordered
      <3>1. \A t \in Requests : Live(t)' => Live(t)
        BY <1>4, <2>1 DEF Live, Inv, Values
      <3> QED BY <2>1, <3>1, OrderedBack
    <2>3. OutInv' /\ FrameInv' /\ LockInv'
      BY <1>1, <1>4, <2>1, <2>2, QuietParts, Zenon
    <2>4. out' \in [Peers -> Seq(Parts)]
      BY <1>1 DEF Inv, Values
    <2> QED BY <1>4, <2>1, <2>3, <2>4, OnInv, Zenon
  <1> QED BY <1>2, <1>3, <1>4, Zenon DEF Resolve

\* A dispatch that returns or panics.
LEMMA DispatchEndsInv == ASSUME Inv, NEW r \in Requests, Dispatched(r) \/ Panic(r) PROVE Inv'
  BY ReplyInv, QuietFinish DEF Dispatched, Panic

\* With the mutex and a peer that is there, an unfinished frame can only be one's own.
LEMMA LastOpen ==
    ASSUME Inv, Ordered, NEW r \in Requests, task[r] \in {"write", "writing"}, ~broken[From[r]],
           task[r] = "writing" \/ Head(lockq[From[r]]) = r,
           NEW i \in 1..Len(out[From[r]]), i = Len(out[From[r]]), out[From[r]][i][2] = "head"
    PROVE  out[From[r]][i][1] = r /\ task[r] = "writing"
  <1> DEFINE p == From[r]
             t == out[p][i][1]
  <1>1. p \in Peers
    BY ServerAssumption
  <1>2. t \in Requests /\ From[t] = p
    BY <1>1, Written, Zenon DEF Inv, OutInv, Tells
  <1>3. task[t] = "writing"
    BY <1>1 DEF Inv, FrameInv
  <1>4. lockq[p][1] = t
    BY <1>2, <1>3 DEF Inv, LockInv
  <1>5. lockq[p][1] = r
    <2>1. lockq[p] \in Seq(Requests)
      BY <1>1 DEF Inv, LockInv
    <2>2. lockq[p] # <<>>
      BY DEF Inv, LockInv
    <2>3. task[r] = "writing" => lockq[p][1] = r
      BY DEF Inv, LockInv
    <2> QED BY <2>1, <2>2, <2>3
  <1> QED BY <1>3, <1>4, <1>5

\* The owner of the mutex writes the first part of its record.
LEMMA BeginWriteInv == ASSUME Inv, NEW r \in Requests, BeginWrite(r) PROVE Inv'
  <1>1. /\ UNCHANGED <<kind, threads, broken, rt, lockq>> /\ Live(r) /\ kind = "tcp" /\ task[r] = "write"
        /\ task' = [task EXCEPT ![r] = "writing"] /\ out' = [out EXCEPT ![From[r]] = Append(@, <<r, "head">>)]
        /\ Head(lockq[From[r]]) = r /\ ~broken[From[r]]
    BY DEF Inv, KindInv, BeginWrite, config, connVars, rtVars, Live
  <1>2. task'[r] = "writing" /\ \A t \in Requests : t # r => task'[t] = task[t]
    BY <1>1 DEF Inv, Values
  <1>3. Ordered' => Ordered
    <2>1. \A t \in Requests : Live(t)' => Live(t)
      BY <1>1, <1>2 DEF Live
    <2> QED BY <1>1, <2>1, OrderedBack
  <1>4. OutInv' /\ out' \in [Peers -> Seq(Parts)]
    BY <1>1, OutWritten, Zenon DEF Inv
  <1>5. FrameInv'
    <2>1. Ordered => \A i \in 1..Len(out[From[r]]) : i = Len(out[From[r]]) => out[From[r]][i][2] # "head"
      BY <1>1, LastOpen
    <2> QED BY <1>1, <1>3, <2>1, FramesWritten, Zenon DEF Inv
  <1>6. LockInv'
    BY <1>1, <1>2, <1>3, SameLocks DEF Inv
  <1> QED BY <1>1, <1>4, <1>5, <1>6, OnInv, Zenon DEF BeginWrite

\* It writes the last part and gives the mutex up.
LEMMA EndWriteInv == ASSUME Inv, NEW r \in Requests, EndWrite(r) PROVE Inv'
  <1>1. /\ UNCHANGED <<kind, threads, broken>> /\ Live(r) /\ task[r] = "writing" /\ Finish(r)
        /\ task' = [task EXCEPT ![r] = "done"] /\ out' = [out EXCEPT ![From[r]] = Append(@, <<r, "tail">>)]
        /\ lockq' = Unlocked(r) /\ ~broken[From[r]]
    BY DEF EndWrite, Finish, config, connVars, Live
  <1>2. OutInv' /\ out' \in [Peers -> Seq(Parts)]
    BY <1>1, OutWritten, Zenon DEF Inv
  <1>3. ASSUME rt' = "up" => rt = "up", Ordered' => Ordered PROVE FrameInv' /\ LockInv'
    <2>1. Ordered => \A i \in 1..Len(out[From[r]]) :
             i = Len(out[From[r]]) /\ out[From[r]][i][2] = "head" => out[From[r]][i][1] = r
      BY <1>1, LastOpen, Zenon
    <2>2. FrameInv'
      BY <1>1, <1>3, <2>1, FramesWritten, Zenon DEF Inv
    <2>3. LockInv'
      BY <1>1, <1>3, LockLeft, Zenon DEF Inv
    <2> QED BY <2>2, <2>3
  <1> QED BY <1>1, <1>2, <1>3, FinishInv, Zenon

\* Its write fails.
LEMMA WriteFailsInv == ASSUME Inv, NEW r \in Requests, WriteFails(r) PROVE Inv'
  <1>1. /\ UNCHANGED <<kind, threads, broken, out>> /\ Live(r) /\ task[r] \in {"write", "writing"} /\ Finish(r)
        /\ task' = [task EXCEPT ![r] = "done"] /\ lockq' = Unlocked(r) /\ Head(lockq[From[r]]) = r
        /\ task[r] = "writing" => broken[From[r]]
    BY DEF WriteFails, Finish, config, connVars, Live
  <1>2. task'[r] = "done" /\ \A t \in Requests : t # r => task'[t] = task[t]
    BY <1>1 DEF Inv, Values
  <1>3. OutInv' /\ out' \in [Peers -> Seq(Parts)]
    <2>1. OutInv'
      BY <1>1, <1>2, SameOut, Zenon DEF Inv
    <2> QED BY <1>1, <2>1 DEF Inv, Values
  <1>4. ASSUME rt' = "up" => rt = "up", Ordered' => Ordered PROVE FrameInv' /\ LockInv'
    <2>1. FrameInv'
      BY <1>1, <1>2, <1>4, SameFrames, Zenon DEF Inv
    <2>2. LockInv'
      BY <1>1, <1>4, LockLeft, Zenon DEF Inv
    <2> QED BY <2>1, <2>2
  <1> QED BY <1>1, <1>3, <1>4, FinishInv

\* A task sends its datagram, or fails to.
LEMMA SendInv == ASSUME Inv, NEW r \in Requests, Send(r) PROVE Inv'
  <1>1. /\ UNCHANGED <<kind, threads, broken, lockq>> /\ Live(r) /\ task[r] = "send" /\ Finish(r)
        /\ task' = [task EXCEPT ![r] = "done"] /\ kind = "udp"
    BY DEF Inv, KindInv, Send, Finish, config, connVars, Live
  <1>2. CASE UNCHANGED out
    BY <1>1, <1>2, QuietFinish
  <1>3. CASE out' = [out EXCEPT ![From[r]] = Append(@, <<r, "datagram">>)]
    <2>1. OutInv' /\ out' \in [Peers -> Seq(Parts)]
      BY <1>1, <1>3, OutWritten, Zenon DEF Inv
    <2>2. ASSUME rt' = "up" => rt = "up", Ordered' => Ordered PROVE FrameInv' /\ LockInv'
      <3>1. \A i \in 1..Len(out[From[r]]) : out[From[r]][i][2] # "head"
        <4>1. \A i \in 1..Len(out[From[r]]) : Tells(From[r], out[From[r]][i], task)
          BY ServerAssumption, Zenon DEF Inv, OutInv
        <4>2. kind # "tcp"
          BY <1>1
        <4> QED BY <4>1, <4>2, Zenon DEF Tells
      <3>2. FrameInv'
        BY <1>1, <1>3, <2>2, <3>1, FramesWritten, Zenon DEF Inv
      <3>3. task'[r] = "done" /\ \A t \in Requests : t # r => task'[t] = task[t]
        BY <1>1 DEF Inv, Values
      <3>4. LockInv'
        BY <1>1, <2>2, <3>3, SameLocks DEF Inv
      <3> QED BY <3>2, <3>4
    <2> QED BY <1>1, <2>1, <2>2, FinishInv
  <1> QED BY <1>2, <1>3, Zenon DEF Send

-----------------------------------------------------------------------------
(* The end of the runtime *)

\* The runtime has no task left.
LEMMA RuntimeDownInv == ASSUME Inv, RuntimeDown PROVE Inv'
  <1>1. Values'
    BY DEF Inv, Values, RuntimeDown, config, connVars, poolVars
  <1>2. KindInv'
    BY DEF Inv, KindInv, RuntimeDown, config, connVars
  <1>3. StreamInv'
    BY StreamSame, Zenon DEF RuntimeDown, connVars
  <1>4. OutInv' /\ FrameInv' /\ LockInv'
    BY <1>1, Untouched DEF RuntimeDown, connVars
  <1>5. RuntimeOutlivesConnections'
    BY DEF Inv, RuntimeOutlivesConnections, RuntimeDown, connVars
  <1> QED BY <1>1, <1>2, <1>3, <1>4, <1>5 DEF Inv

\* Nothing changes.
LEMMA StutterInv == ASSUME Inv, UNCHANGED vars PROVE Inv'
  <1>1. Values'
    BY DEF Inv, Values, vars, config, connVars, poolVars, rtVars
  <1>2. KindInv'
    BY DEF Inv, KindInv, vars, config, connVars
  <1>3. StreamInv'
    BY StreamKept DEF Inv, StreamInv, vars, connVars
  <1>4. OutInv' /\ FrameInv' /\ LockInv'
    BY <1>1, Untouched DEF vars, connVars, rtVars
  <1>5. RuntimeOutlivesConnections'
    BY SameRuntime DEF Inv, vars, connVars, rtVars
  <1> QED BY <1>1, <1>2, <1>3, <1>4, <1>5 DEF Inv

\* The steps of a connection and its peer, together.
LEMMA ConnInv == ASSUME Inv, NEW p \in Peers, ConnStep(p) \/ PeerEvent(p) PROVE Inv'
  BY AcceptInv, ReceiveInv, LoseInv, DecodeInv, SpawnInv, ReadInv, ReadEndsInv, ResetInv, Zenon
     DEF ConnStep, PeerEvent

\* The steps of a task, together.
LEMMA TaskInv == ASSUME Inv, NEW r \in Requests, TaskStep(r) \/ Dispatched(r) \/ Panic(r) \/ EndWrite(r) PROVE Inv'
  BY ResolveInv, BeginWriteInv, WriteFailsInv, SendInv, DispatchEndsInv, EndWriteInv, Zenon DEF TaskStep

\* The invariant gives what the peers read: whole records, each once.
LEMMA WholeFrames == Inv => FramesWhole
  <1> SUFFICES ASSUME Inv, rt = "up" \/ threads = 1, NEW p \in Peers
               PROVE  /\ \A i \in DOMAIN out[p] :
                            out[p][i][2] = "head" /\ i < Len(out[p]) => out[p][i + 1] = <<out[p][i][1], "tail">>
                      /\ \A i, j \in DOMAIN out[p] : out[p][i] = out[p][j] => i = j
    BY Zenon DEF FramesWhole
  <1>1. DOMAIN out[p] = 1..Len(out[p])
    BY DEF Inv, Values
  <1>2. \A i \in 1..Len(out[p]) :
          out[p][i][2] = "head" /\ i < Len(out[p]) => out[p][i + 1] = <<out[p][i][1], "tail">>
    BY Zenon DEF Inv, FrameInv, Framed
  <1>3. \A i, j \in 1..Len(out[p]) : out[p][i] = out[p][j] => i = j
    BY Zenon DEF Inv, OutInv, Distinct
  <1> QED BY <1>1, <1>2, <1>3, Zenon

-----------------------------------------------------------------------------
(* Dropped tasks, and permits, are counted *)

INSTANCE FiniteSetTheorems

\* With one thread a worker that drops tasks drops them all: none is in a synchronous
\* dispatch, or the thread would not be free.
LEMMA OneThread ==
    ASSUME FreeThread, threads = 1 PROVE \A r \in Requests : Live(r) => r \in Cancellable
  <1> DEFINE B == {r \in Requests : sync /\ task[r] = "dispatch"}
  <1>1. IsFiniteSet(B) /\ Cardinality(B) \in Nat
    BY FS_Subset, FS_CardinalityType, ServerAssumption, Zenon
  <1>2. Cardinality(B) = 0
    BY <1>1 DEF FreeThread
  <1>3. B = {}
    BY <1>1, <1>2, FS_EmptySet
  <1> QED BY <1>3 DEF Cancellable

\* A runtime that shuts down drops tasks.
LEMMA CancelInv == ASSUME Inv, Cancel PROVE Inv'
  <1>1. rt = "stopping" /\ FreeThread /\ UNCHANGED <<config, loop, connVars, out, rtVars>>
    BY DEF Cancel
  <1>2. PICK S \in SUBSET Cancellable :
          /\ threads = 1 => S = Cancellable
          /\ task' = [r \in Requests |-> IF r \in S THEN "cancelled" ELSE task[r]]
    BY DEF Cancel
  <1>3. UNCHANGED <<kind, threads, broken, rt, loop, conn, arrived, taken, out>>
    BY <1>1 DEF config, connVars, rtVars
  <1>4. \A r \in Requests : task'[r] = IF r \in S THEN "cancelled" ELSE task[r]
    BY <1>2
  <1>5. \A r \in Requests : r \in S => Live(r)
    BY <1>2 DEF Cancellable
  <1>6. ~Ordered'
    <2>1. threads = 1 => \A r \in Requests : ~Live(r)'
      BY <1>1, <1>2, <1>4, OneThread DEF Live
    <2> QED BY <1>1, <1>3, <2>1 DEF Ordered
  <1>7. Values'
    <2>1. task' \in [Requests -> {"none", "spawned", "dispatch", "write", "writing", "send", "done", "cancelled"}]
      BY <1>2 DEF Inv, Values
    <2> QED BY <1>1, <2>1 DEF Inv, Values, config, connVars, rtVars
  <1>8. KindInv'
    BY <1>3, <1>4 DEF Inv, KindInv
  <1>9. StreamInv'
    <2>1. \A r \in Requests : task[r] = "none" => task'[r] = "none"
      BY <1>4, <1>5 DEF Live
    <2> QED BY <1>3, <2>1, StreamKept DEF Inv, StreamInv
  <1>10. OutInv'
    <2>1. \A r \in Requests : task[r] = "done" => task'[r] = "done"
      BY <1>4, <1>5 DEF Live
    <2> QED BY <1>3, <1>4, <2>1, SameOut DEF Inv
  <1>11. FrameInv'
    BY <1>3, <1>6, SameFrames DEF Inv
  <1>12. LockInv'
    BY <1>6 DEF LockInv
  <1>13. RuntimeOutlivesConnections'
    BY <1>3, SameRuntime DEF Inv
  <1> QED BY <1>7, <1>8, <1>9, <1>10, <1>11, <1>12, <1>13 DEF Inv

-----------------------------------------------------------------------------
(* Replies *)

\* The invariant holds throughout: every handler of a server, and every end of one,
\* keeps streams, replies and the writer mutex in step with the tasks.
THEOREM Invariance == Spec => []Inv
  <1>1. Inv /\ [Next]_vars => Inv'
    BY ConnInv, TaskInv, ListenerAcquiresInv, EndServeInv, CancelInv, RuntimeDownInv, StutterInv, Zenon DEF Next
  <1> QED BY InitInv, <1>1, PTL DEF Spec

\* Replies of one connection do not interleave and none is sent twice, as long as the
\* runtime is up and, with one thread, to its end.
THEOREM RepliesWhole == Spec => []FramesWhole
  BY Invariance, WholeFrames, PTL

-----------------------------------------------------------------------------
(* Permits *)

LiveSet == {r \in Requests : Live(r)}

PermitInv == permits \in Nat /\ PermitsExact

\* The live tasks can be counted.
LEMMA LiveFinite == IsFiniteSet(LiveSet) /\ Cardinality(LiveSet) \in Nat
  BY FS_Subset, FS_CardinalityType, ServerAssumption DEF LiveSet

\* The free permits and the live tasks change together.
LEMMA PermitsMove ==
    ASSUME PermitInv, UNCHANGED workers, permits' \in Nat,
           permits' + Cardinality(LiveSet') + (IF loop' = "recv" THEN 1 ELSE 0)
             = permits + Cardinality(LiveSet) + (IF loop = "recv" THEN 1 ELSE 0)
    PROVE  PermitInv'
  BY DEF PermitInv, PermitsExact, LiveSet, Permits

\* A step that leaves the pool and the live tasks alone.
LEMMA PermitsSame ==
    ASSUME PermitInv, UNCHANGED <<config, permits, loop>>, \A r \in Requests : Live(r)' <=> Live(r)
    PROVE  PermitInv'
  <1>1. LiveSet' = LiveSet
    BY DEF LiveSet
  <1> QED BY <1>1, PermitsMove DEF PermitInv, config

\* A request gets a task, with a permit from the pool or from the UDP loop.
LEMMA PermitTaken ==
    ASSUME Inv, PermitInv, NEW r \in Requests, task[r] = "none", task' = [task EXCEPT ![r] = "spawned"],
           UNCHANGED config, \/ permits > 0 /\ permits' = permits - 1 /\ UNCHANGED loop
                             \/ permits' = permits /\ loop = "recv" /\ loop' = "permit"
    PROVE  PermitInv'
  <1>1. LiveSet' = LiveSet \cup {r} /\ r \notin LiveSet
    BY DEF Inv, Values, LiveSet, Live
  <1>2. Cardinality(LiveSet') = Cardinality(LiveSet) + 1
    BY <1>1, LiveFinite, FS_AddElement
  <1>3. permits \in Nat /\ permits' \in Nat /\ UNCHANGED workers
    BY DEF PermitInv, config
  <1> QED BY <1>2, <1>3, LiveFinite, PermitsMove

\* A task that ends gives its permit back.
LEMMA PermitReturned ==
    ASSUME Inv, PermitInv, NEW r \in Requests, Live(r), Finish(r)
    PROVE  PermitInv'
  <1>1. LiveSet' = LiveSet \ {r} /\ r \in LiveSet
    BY DEF Inv, Values, LiveSet, Live, Finish
  <1>2. Cardinality(LiveSet') = Cardinality(LiveSet) - 1
    BY <1>1, LiveFinite, FS_RemoveElement
  <1>3. permits \in Nat /\ permits' = permits + 1 /\ UNCHANGED <<workers, loop>>
    BY DEF PermitInv, Finish, config
  <1> QED BY <1>2, <1>3, LiveFinite, PermitsMove

\* Tasks that are dropped give their permits back.
LEMMA PermitsCancelled == ASSUME Inv, PermitInv, Cancel PROVE PermitInv'
  <1>1. PICK S \in SUBSET Cancellable :
          /\ task' = [r \in Requests |-> IF r \in S THEN "cancelled" ELSE task[r]]
          /\ permits' = permits + Cardinality(S)
    BY DEF Cancel
  <1>2. S \subseteq LiveSet
    BY <1>1 DEF Cancellable, LiveSet
  <1>3. LiveSet' = LiveSet \ S /\ LiveSet \cap S = S
    BY <1>1, <1>2 DEF LiveSet, Live
  <1>4. IsFiniteSet(S) /\ Cardinality(S) \in Nat
    BY <1>2, LiveFinite, FS_Subset, FS_CardinalityType
  <1>5. Cardinality(LiveSet') = Cardinality(LiveSet) - Cardinality(S)
    BY <1>3, LiveFinite, FS_Difference
  <1>6. permits \in Nat /\ UNCHANGED <<workers, loop>>
    BY DEF PermitInv, Cancel, config
  <1> QED BY <1>1, <1>4, <1>5, <1>6, LiveFinite, PermitsMove

\* A connection takes a permit exactly when it spawns a task.
LEMMA PermitConnStep == ASSUME Inv, PermitInv, NEW p \in Peers, ConnStep(p) \/ PeerEvent(p) PROVE PermitInv'
  <1>1. CASE Spawn(p)
    <2>1. Stream[p][taken[p]] \in Requests /\ task[Stream[p][taken[p]]] = "none"
      BY <1>1, WaitingFresh, Zenon DEF Spawn
    <2> QED BY <1>1, <2>1, PermitTaken, Zenon DEF Spawn
  <1>2. CASE Receive(p)
    <2>1. taken[p] < Len(Stream[p])
      BY <1>2 DEF Receive
    <2>2. Stream[p][taken[p] + 1] \in Requests /\ task[Stream[p][taken[p] + 1]] = "none"
      BY <2>1, NextFresh, Zenon
    <2> QED BY <1>2, <2>2, PermitTaken, Zenon DEF Receive
  <1>3. CASE Decode(p) \/ ReadFails(p) \/ Accept(p) \/ Lose(p) \/ Read(p) \/ Eof(p) \/ Reset(p)
    <2>1. UNCHANGED <<config, permits, loop, task>>
      BY <1>3, Zenon DEF Decode, ReadFails, Accept, Lose, Read, Eof, Reset, EndConnection, poolVars
    <2> QED BY <2>1, PermitsSame DEF Live
  <1> QED BY <1>1, <1>2, <1>3, Zenon DEF ConnStep, PeerEvent

\* A task keeps its permit to its end.
LEMMA PermitTaskStep ==
    ASSUME Inv, PermitInv, NEW r \in Requests, TaskStep(r) \/ Dispatched(r) \/ Panic(r) \/ EndWrite(r)
    PROVE  PermitInv'
  <1>1. Live(r)
    BY Zenon DEF TaskStep, Resolve, BeginWrite, WriteFails, Send, Dispatched, Panic, EndWrite, Live
  <1>2. CASE Finish(r)
    BY <1>1, <1>2, PermitReturned
  <1>3. CASE \E st \in {"dispatch", "write", "writing", "send"} :
                task' = [task EXCEPT ![r] = st] /\ UNCHANGED <<config, permits, loop>>
    BY <1>1, <1>3, PermitsSame DEF Inv, Values, Live
  <1> QED BY <1>2, <1>3, Zenon DEF TaskStep, Resolve, BeginWrite, WriteFails, Send, Dispatched, Panic, EndWrite, Reply, poolVars

\* No path through a handler loses a worker permit or returns one twice, whatever the
\* numbers of peers, requests, permits and threads.
THEOREM PermitsConserved == Spec => []PermitsExact
  <1>1. Init => PermitInv
    <2> SUFFICES ASSUME Init PROVE PermitInv
      OBVIOUS
    <2>1. LiveSet = {}
      BY DEF Init, Live, LiveSet
    <2>2. Permits(workers) \in Nat /\ loop # "recv"
      BY ServerAssumption DEF Init, Permits
    <2>3. Cardinality({r \in Requests : Live(r)}) = 0
      BY <2>1, FS_EmptySet DEF LiveSet
    <2>4. permits = Permits(workers)
      BY DEF Init
    <2> QED BY <2>2, <2>3, <2>4 DEF PermitInv, PermitsExact
  <1>2. Inv /\ PermitInv /\ [Next]_vars => PermitInv'
    <2> SUFFICES ASSUME Inv, PermitInv, [Next]_vars PROVE PermitInv'
      OBVIOUS
    <2>1. CASE ListenerAcquires
      <3>1. LiveSet' = LiveSet
        BY <2>1 DEF ListenerAcquires, LiveSet, Live
      <3>2. permits \in Nat /\ permits' \in Nat /\ permits' = permits - 1 /\ loop # "recv" /\ loop' = "recv"
        BY <2>1 DEF ListenerAcquires, PermitInv
      <3> QED BY <2>1, <3>1, <3>2, LiveFinite, PermitsMove DEF ListenerAcquires, config
    <2>2. CASE EndServe
      <3>1. LiveSet' = LiveSet
        BY <2>2 DEF EndServe, LiveSet, Live
      <3>2. permits \in Nat /\ permits' = permits + (IF loop = "recv" THEN 1 ELSE 0) /\ loop' = "ended"
        BY <2>2 DEF EndServe, PermitInv
      <3> QED BY <2>2, <3>1, <3>2, LiveFinite, PermitsMove DEF EndServe, config
    <2>3. CASE RuntimeDown \/ UNCHANGED vars
      BY <2>3, PermitsSame DEF RuntimeDown, vars, Live, poolVars
    <2> QED BY <2>1, <2>2, <2>3, PermitConnStep, PermitTaskStep, PermitsCancelled, Zenon DEF Next
  <1>3. PermitInv => PermitsExact
    BY DEF PermitInv
  <1> QED BY Invariance, <1>1, <1>2, <1>3, PTL DEF Spec

-----------------------------------------------------------------------------
(* Requests of a connection *)

\* What was written stays written.
LEMMA AnsweredStays ==
    ASSUME Values, NEW r \in Requests, Answered(r),
           \/ UNCHANGED out
           \/ \E q \in Peers : \E f \in Parts : out' = [out EXCEPT ![q] = Append(@, f)]
    PROVE  Answered(r)'
  <1>1. From[r] \in Peers
    BY ServerAssumption
  <1>2. PICK i \in DOMAIN out[From[r]] : out[From[r]][i] = <<r, "tail">>
    BY Zenon DEF Answered
  <1>3. CASE UNCHANGED out
    BY <1>3, Zenon DEF Answered
  <1>4. ASSUME NEW q \in Peers, NEW f \in Parts, out' = [out EXCEPT ![q] = Append(@, f)]
        PROVE  i \in DOMAIN out'[From[r]] /\ out'[From[r]][i] = out[From[r]][i]
    <2>1. out[From[r]] \in Seq(Parts) /\ DOMAIN out = Peers
      BY <1>1 DEF Values
    <2>2. CASE out'[From[r]] = out[From[r]]
      BY <1>2, <2>2, Zenon
    <2>3. CASE out'[From[r]] = Append(out[From[r]], f)
      BY <1>2, <2>1, <2>3
    <2> QED BY <1>1, <1>4, <2>1, <2>2, <2>3
  <1> QED BY <1>2, <1>3, <1>4, Zenon DEF Answered

\* A live task moves on, or ends with its request answered or given up.
LEMMA AccountTask ==
    ASSUME Inv, AccountInv, NEW r \in Requests, Live(r), NEW st, task' = [task EXCEPT ![r] = st],
           st \in {"dispatch", "write", "writing", "send", "done"},
           st = "done" /\ kind = "tcp" => Answered(r)' \/ GivenUp(r)',
           UNCHANGED <<config, taken, broken, conn>>, rt' = "up" => rt = "up",
           \/ UNCHANGED out
           \/ \E q \in Peers : \E f \in Parts : out' = [out EXCEPT ![q] = Append(@, f)]
    PROVE  AccountInv'
  <1>1. UNCHANGED <<kind, shape>> /\ taken' = taken /\ broken' = broken /\ conn' = conn
    BY Zenon DEF config
  <1>2. DOMAIN task = Requests
    BY DEF Inv, Values
  <1>3. task'[r] = st /\ \A t \in Requests : t # r => task'[t] = task[t]
    BY <1>2
  <1>4. st \notin {"none", "cancelled"}
    OBVIOUS
  <1>5. ASSUME kind = "tcp", NEW q \in Peers, NEW i \in 1..taken[q] PROVE Kept(q, i)'
    <2>1. Kept(q, i) /\ Stream[q][i] \in Requests
      BY <1>5, TakenRequest, Zenon DEF AccountInv
    <2>2. CASE Stream[q][i] = r
      BY <1>3, <1>4, <2>2 DEF Kept
    <2>3. CASE Stream[q][i] # r
      BY <1>1, <1>3, <2>1, <2>3, Zenon DEF Kept
    <2> QED BY <2>2, <2>3, Zenon
  <1>6. Values
    BY Zenon DEF Inv
  <1>7. ASSUME kind = "tcp", NEW t \in Requests, Accounted(t) PROVE Accounted(t)'
    <2>1. Answered(t) => Answered(t)'
      BY <1>6, AnsweredStays
    <2>2. GivenUp(t) => GivenUp(t)'
      BY <1>1, Zenon DEF GivenUp
    <2>3. CASE t = r
      BY <1>3, <1>4, <1>7, <2>3 DEF Accounted
    <2>4. CASE t # r
      BY <1>3, <1>7, <2>1, <2>2, <2>4, Zenon DEF Accounted
    <2> QED BY <2>3, <2>4, Zenon
  <1> QED BY <1>1, <1>5, <1>7, Zenon DEF AccountInv

\* The steps of a request task.
LEMMA AccountTaskStep ==
    ASSUME Inv, AccountInv, NEW r \in Requests, TaskStep(r) \/ Dispatched(r) \/ Panic(r) \/ EndWrite(r)
    PROVE  AccountInv'
  <1>1. Live(r)
    BY Zenon DEF TaskStep, Resolve, BeginWrite, WriteFails, Send, Dispatched, Panic, EndWrite, Live
  <1>2. From[r] \in Peers /\ <<r, "head">> \in Parts /\ <<r, "tail">> \in Parts /\ <<r, "datagram">> \in Parts
    BY ServerAssumption DEF Parts
  <1>3. ASSUME Finish(r)
        PROVE  /\ task' = [task EXCEPT ![r] = "done"] /\ UNCHANGED <<config, taken, broken, conn>>
               /\ rt' = "up" => rt = "up"
    BY <1>3, Zenon DEF Finish, connVars, GuardDropped, rtVars
  <1>4. CASE Finish(r) /\ UNCHANGED out /\ GivenUp(r)
    <2>1. GivenUp(r)'
      BY <1>3, <1>4, Zenon DEF GivenUp, config
    <2> QED BY <1>1, <1>3, <1>4, <2>1, AccountTask
  <1>5. CASE EndWrite(r)
    <2>1. out' = [out EXCEPT ![From[r]] = Append(@, <<r, "tail">>)] /\ Finish(r)
      BY <1>5, Zenon DEF EndWrite
    <2>2. Answered(r)'
      <3>1. out[From[r]] \in Seq(Parts) /\ DOMAIN out = Peers
        BY <1>2 DEF Inv, Values
      <3>2. out'[From[r]] = Append(out[From[r]], <<r, "tail">>)
        BY <1>2, <2>1, <3>1
      <3>3. /\ Len(out[From[r]]) + 1 \in DOMAIN out'[From[r]]
            /\ out'[From[r]][Len(out[From[r]]) + 1] = <<r, "tail">>
        <4> DEFINE s == out[From[r]]
        <4> DEFINE f == <<r, "tail">>
        <4>1. s \in Seq(Parts) /\ f \in Parts /\ out'[From[r]] = Append(s, f)
          BY <1>2, <3>1, <3>2, Zenon
        <4> HIDE DEF s, f
        <4>2. Len(s) + 1 \in DOMAIN Append(s, f) /\ Append(s, f)[Len(s) + 1] = f
          BY <4>1
        <4> QED BY <4>1, <4>2, Zenon DEF s, f
      <3> QED BY <3>3, Zenon DEF Answered
    <2>3. \E q \in Peers : \E f \in Parts : out' = [out EXCEPT ![q] = Append(@, f)]
      BY <1>2, <2>1, Zenon
    <2> QED BY <1>1, <1>3, <2>1, <2>2, <2>3, AccountTask, Zenon
  <1>6. CASE Send(r)
    <2>1. kind = "udp"
      BY <1>6, Zenon DEF Send, Inv, KindInv
    <2>2. kind' = kind
      BY <1>3, <1>6, Zenon DEF Send, config
    <2> QED BY <2>1, <2>2 DEF AccountInv
  <1>7. CASE BeginWrite(r)
    <2>1. \E q \in Peers : \E f \in Parts : out' = [out EXCEPT ![q] = Append(@, f)]
      BY <1>2, <1>7, Zenon DEF BeginWrite
    <2>2. task' = [task EXCEPT ![r] = "writing"] /\ UNCHANGED <<config, taken, broken, conn>> /\ rt' = rt
      BY <1>7, Zenon DEF BeginWrite, connVars, rtVars
    <2> QED BY <1>1, <2>1, <2>2, AccountTask, Zenon
  <1>8. CASE Reply(r) /\ UNCHANGED out
    <2>1. UNCHANGED <<config, taken, broken, conn>> /\ rt' = rt
      BY <1>8, Zenon DEF Reply, connVars, rtVars
    <2>2. CASE kind = "tcp"
      <3>1. task' = [task EXCEPT ![r] = "write"]
        BY <1>8, <2>2, Zenon DEF Reply
      <3> QED BY <1>1, <1>8, <2>1, <3>1, AccountTask, Zenon
    <2>3. CASE kind # "tcp"
      <3>1. task' = [task EXCEPT ![r] = "send"]
        BY <1>8, <2>3, Zenon DEF Reply
      <3> QED BY <1>1, <1>8, <2>1, <3>1, AccountTask, Zenon
    <2> QED BY <2>2, <2>3, Zenon
  <1>9. CASE Resolve(r)
    <2>1. CASE shape[r] \in {"garbage", "reply"} /\ Finish(r) /\ UNCHANGED out
      <3>1. GivenUp(r)
        BY <2>1 DEF GivenUp
      <3> QED BY <1>4, <2>1, <3>1, Zenon
    <2>2. CASE task' = [task EXCEPT ![r] = "dispatch"] /\ UNCHANGED <<config, loop, connVars, rtVars, out>>
      <3>1. UNCHANGED <<config, taken, broken, conn>> /\ rt' = rt /\ UNCHANGED out
        BY <2>2, Zenon DEF connVars, rtVars
      <3> QED BY <1>1, <2>2, <3>1, AccountTask, Zenon
    <2> QED BY <1>8, <1>9, <2>1, <2>2, Zenon DEF Resolve
  <1>10. CASE WriteFails(r)
    <2>1. Finish(r) /\ UNCHANGED out /\ (broken[From[r]] \/ shape[r] = "oversized")
      BY <1>10, Zenon DEF WriteFails
    <2>2. GivenUp(r)
      BY <2>1 DEF GivenUp
    <2> QED BY <1>4, <2>1, <2>2, Zenon
  <1>11. CASE Panic(r)
    BY <1>4, <1>11, Zenon DEF Panic, GivenUp
  <1>12. CASE Dispatched(r)
    BY <1>8, <1>12, Zenon DEF Dispatched
  <1> QED BY <1>5, <1>6, <1>7, <1>9, <1>10, <1>11, <1>12, Zenon DEF TaskStep

\* Tasks are dropped only once the runtime stops.
LEMMA AccountCancel == ASSUME Inv, AccountInv, Cancel PROVE AccountInv'
  <1>1. PICK S \in SUBSET Cancellable : task' = [r \in Requests |-> IF r \in S THEN "cancelled" ELSE task[r]]
    BY Zenon DEF Cancel
  <1>2. UNCHANGED <<config, taken, broken, conn, out, rt>> /\ rt = "stopping"
    BY Zenon DEF Cancel, connVars, rtVars
  <1>3. UNCHANGED <<kind, shape>> /\ taken' = taken /\ broken' = broken /\ conn' = conn /\ out' = out /\ rt' # "up"
    BY <1>2 DEF config
  <1>4. \A r \in Requests : task'[r] = "cancelled" \/ task'[r] = task[r]
    BY <1>1
  <1>5. ASSUME NEW q \in Peers, NEW i \in 1..taken[q], kind = "tcp" PROVE Kept(q, i)'
    <2>1. Stream[q][i] \in Requests /\ Kept(q, i)
      BY <1>5, TakenRequest, Zenon DEF AccountInv
    <2>2. CASE task'[Stream[q][i]] = "cancelled"
      BY <2>2 DEF Kept
    <2>3. CASE task'[Stream[q][i]] = task[Stream[q][i]]
      BY <1>3, <2>1, <2>3, Zenon DEF Kept
    <2> QED BY <1>4, <2>1, <2>2, <2>3, Zenon
  <1>6. ASSUME NEW r \in Requests, Accounted(r) PROVE Accounted(r)'
    <2>1. (Answered(r) => Answered(r)') /\ (GivenUp(r) => GivenUp(r)')
      BY <1>3, Zenon DEF Answered, GivenUp
    <2> QED BY <1>3, <1>4, <1>6, <2>1 DEF Accounted
  <1> QED BY <1>3, <1>5, <1>6, Zenon DEF AccountInv

\* No decoded request of a connection is forgotten, for every number of peers, requests,
\* permits and threads: it waits, has a task, was answered in full or given up, or was
\* dropped with the runtime after serve() and every connection had ended.
THEOREM NoneForgotten == Spec => []RequestsAccounted
  <1>1. Init => AccountInv
    BY DEF Init, AccountInv, Accounted
  <1>2. Inv /\ AccountInv /\ [Next]_vars => AccountInv'
    <2> SUFFICES ASSUME Inv, AccountInv, [Next]_vars PROVE AccountInv'
      OBVIOUS
    <2>1. CASE ListenerAcquires \/ EndServe \/ RuntimeDown \/ UNCHANGED vars
      <3>1. UNCHANGED <<config, connVars, task, out>> /\ (rt' = "up" => rt = "up")
        BY <2>1, Zenon DEF ListenerAcquires, EndServe, RuntimeDown, vars, GuardDropped, rtVars
      <3>2. UNCHANGED <<taken, broken, conn>>
        BY <3>1, Zenon DEF connVars
      <3> QED BY <3>1, <3>2, AccountSame
    <2> QED BY <2>1, AccountConn, AccountTaskStep, AccountCancel, Zenon DEF Next
  <1>3. Inv /\ AccountInv => RequestsAccounted
    <2>1. ASSUME Inv, AccountInv, kind = "tcp", NEW p \in Peers, NEW i \in 1..taken[p]
          PROVE  LET r == Stream[p][i] IN
                 \/ conn[p] = "permit" /\ i = taken[p]
                 \/ Live(r) \/ Answered(r) \/ GivenUp(r)
                 \/ /\ task[r] = "cancelled"
                    /\ loop = "ended" /\ \A q \in Peers : conn[q] \in {"none", "ended"}
      <3> DEFINE r == Stream[p][i]
      <3>1. r \in Requests /\ Kept(p, i) /\ Accounted(r)
        BY <2>1, TakenRequest, Zenon DEF AccountInv
      <3>2. task[r] \in {"none", "spawned", "dispatch", "write", "writing", "send", "done", "cancelled"}
        <4>1. Values
          BY <2>1, Zenon DEF Inv
        <4> QED BY <3>1, <4>1, Zenon DEF Values
      <3>3. CASE task[r] = "cancelled"
        BY <2>1, <3>1, <3>3, Zenon DEF Accounted, Inv, RuntimeOutlivesConnections
      <3>4. CASE task[r] = "done"
        BY <3>1, <3>4, Zenon DEF Accounted
      <3>5. CASE task[r] = "none"
        BY <3>1, <3>5 DEF Kept, GivenUp
      <3>6. CASE task[r] \in {"spawned", "dispatch", "write", "writing", "send"}
        BY <3>6 DEF Live
      <3> QED BY <3>2, <3>3, <3>4, <3>5, <3>6, Zenon
    <2> QED BY <2>1, Zenon DEF RequestsAccounted
  <1> QED BY Invariance, <1>1, <1>2, <1>3, PTL DEF Spec

=============================================================================
