---------------------- MODULE ServerConnectionProofs ----------------------
(***************************************************************************)
(* The invariant of a server, and why the steps of its listener and of its *)
(* connections preserve it.                                                *)
(***************************************************************************)
EXTENDS Server, TLAPS

\* What a task writes: the first or the last part of a record, or a datagram.
Parts == Requests \X {"head", "tail", "datagram"}

\* The values of the variables, apart from permits, their queue and the mutex queues.
Values ==
    /\ kind \in {"tcp", "udp"} /\ sync \in BOOLEAN
    /\ workers \in WorkerCounts /\ threads \in ThreadCounts /\ shape \in Shapings
    /\ loop \in {"accept", "permit", "recv", "ended"}
    /\ conn \in [Peers -> {"none", "decode", "permit", "read", "ended"}]
    /\ arrived \in [Peers -> Nat] /\ taken \in [Peers -> Nat]
    /\ broken \in [Peers -> BOOLEAN]
    /\ task \in [Requests -> {"none", "spawned", "dispatch", "write", "writing", "send", "done", "cancelled"}]
    /\ out \in [Peers -> Seq(Parts)]
    /\ rt \in {"up", "stopping", "down"}
    /\ drainer \in {"none", "outside", "worker"}

\* What the kind of the server rules out.
KindInv ==
    /\ loop = "accept" => kind = "tcp"
    /\ loop \in {"permit", "recv"} => kind = "udp"
    /\ \A p \in Peers : conn[p] # "none" => kind = "tcp"
    /\ \A r \in Requests : task[r] \in {"write", "writing"} => kind = "tcp"
    /\ \A r \in Requests : task[r] = "send" => kind = "udp"

\* A request that is still to be taken, or whose connection waits for a permit, has no
\* task yet.
StreamInv ==
    \A p \in Peers :
        /\ taken[p] <= Len(Stream[p]) /\ arrived[p] <= Len(Stream[p])
        /\ \A i \in taken[p] + 1..Len(Stream[p]) : task[Stream[p][i]] = "none"
        /\ conn[p] = "permit" => taken[p] >= 1 /\ task[Stream[p][taken[p]]] = "none"

\* What part f, written to p, tells of its task when the tasks are t.
Tells(p, f, t) ==
    /\ From[f[1]] = p
    /\ f[2] = "head" => kind = "tcp" /\ t[f[1]] \in {"writing", "done", "cancelled"}
    /\ f[2] # "head" => t[f[1]] = "done"

Distinct(s) == \A i, j \in 1..Len(s) : s[i] = s[j] => i = j

\* A record that was begun is followed by its own end.
Framed(s) == \A i \in 1..Len(s) : s[i][2] = "head" /\ i < Len(s) => s[i + 1] = <<s[i][1], "tail">>

\* What was written tells which task wrote it, and nothing was written twice.
OutInv ==
    \A p \in Peers : (\A i \in 1..Len(out[p]) : Tells(p, out[p][i], task)) /\ Distinct(out[p])

\* While the tasks of a runtime with more than one thread are being dropped the writer
\* mutex orders nothing any more; with one thread they are all dropped at once.
Ordered == rt = "up" \/ (threads = 1 /\ \E r \in Requests : Live(r))

\* A frame that was begun and not finished is the last, and its task still writes it or
\* the connection has been reset.
FrameInv ==
    /\ rt = "up" \/ threads = 1 => \A p \in Peers : Framed(out[p])
    /\ Ordered => \A p \in Peers : \A i \in 1..Len(out[p]) :
          i = Len(out[p]) /\ out[p][i][2] = "head" => broken[p] \/ task[out[p][i][1]] = "writing"

\* Who writes owns the mutex, and who wants to write is in its queue.
LockInv ==
    Ordered =>
        /\ lockq \in [Peers -> Seq(Requests)]
        /\ \A r \in Requests : task[r] \in {"write", "writing"} =>
              \E i \in 1..Len(lockq[From[r]]) : lockq[From[r]][i] = r
        /\ \A r \in Requests : task[r] = "writing" => lockq[From[r]][1] = r

\* The runtime is up until serve() has ended and the last connection task with it.
RuntimeOutlivesConnections ==
    rt # "up" => loop = "ended" /\ \A p \in Peers : conn[p] \in {"none", "ended"}

Inv ==
    /\ Values /\ KindInv /\ StreamInv /\ OutInv /\ FrameInv /\ LockInv
    /\ RuntimeOutlivesConnections

-----------------------------------------------------------------------------
(* Streams and the runtime *)

\* The requests of a peer, by position.
LEMMA StreamFacts ==
    ASSUME NEW p \in Peers
    PROVE  /\ Len(Stream[p]) \in Nat
           /\ \A i \in 1..Len(Stream[p]) : Stream[p][i] \in Requests /\ From[Stream[p][i]] = p
           /\ \A i, j \in 1..Len(Stream[p]) : Stream[p][i] = Stream[p][j] => i = j
  <1>1. Stream[p] \in Seq(Requests)
    BY ServerAssumption
  <1>2. Len(Stream[p]) \in Nat /\ DOMAIN Stream[p] = 1..Len(Stream[p])
    BY <1>1
  <1>3. \A i \in 1..Len(Stream[p]) : Stream[p][i] \in Requests
    BY <1>1
  <1> QED BY <1>2, <1>3, ServerAssumption, Zenon

\* While the runtime stays as it is, so does what it owes the listener and the connections.
LEMMA SameRuntime ==
    ASSUME RuntimeOutlivesConnections, UNCHANGED rt, rt = "up" \/ UNCHANGED <<loop, conn>>
    PROVE  RuntimeOutlivesConnections'
  BY DEF RuntimeOutlivesConnections

\* A dropped guard ends the runtime only after whatever it was held for has ended.
LEMMA GuardRuntime ==
    ASSUME RuntimeOutlivesConnections, Values, conn' \in [Peers -> {"none", "decode", "permit", "read", "ended"}],
           loop' \in {loop, "ended"}, \A p \in Peers : conn'[p] \in {conn[p], "ended"}, NEW by, GuardDropped(by)
    PROVE  RuntimeOutlivesConnections' /\ (rt' = "up" => rt = "up")
  <1>1. CASE rt = "up" /\ ~Guarded'
    <2>1. loop' = "ended" /\ \A p \in Peers : conn'[p] \notin {"decode", "permit", "read"}
      BY <1>1 DEF Guarded
    <2> QED BY <1>1, <2>1 DEF RuntimeOutlivesConnections
  <1>2. CASE ~(rt = "up" /\ ~Guarded')
    <2>1. UNCHANGED rt
      BY <1>2 DEF GuardDropped, rtVars
    <2> QED BY <2>1 DEF RuntimeOutlivesConnections
  <1> QED BY <1>1, <1>2

\* A step that begins no task once the runtime stops.
LEMMA OrderedBack ==
    ASSUME rt' = "up" => rt = "up", UNCHANGED threads, \A r \in Requests : Live(r)' => Live(r) \/ rt = "up"
    PROVE  Ordered' => Ordered
  BY DEF Ordered

-----------------------------------------------------------------------------
(* Frames and the writer mutex *)

\* What was written to a peer, by position.
LEMMA Written ==
    ASSUME Values, NEW p \in Peers
    PROVE  out[p] \in Seq(Parts) /\ \A i \in 1..Len(out[p]) : out[p][i] \in Parts /\ out[p][i][1] \in Requests
  <1>1. out[p] \in Seq(Parts)
    BY Zenon DEF Values
  <1>2. \A i \in 1..Len(out[p]) : out[p][i] \in Parts
    BY <1>1
  <1> QED BY <1>1, <1>2 DEF Parts

\* Tasks that have written keep that, and a step writes nothing.
LEMMA SameOut ==
    ASSUME OutInv, Values, UNCHANGED <<out, kind>>,
           \A r \in Requests : task[r] = "done" => task'[r] = "done",
           \A r \in Requests : task[r] \in {"writing", "cancelled"} => task'[r] \in {"writing", "done", "cancelled"}
    PROVE  OutInv'
  BY Written DEF OutInv, Tells

\* A step that writes nothing keeps the frames, if the writers of open frames go on.
LEMMA SameFrames ==
    ASSUME FrameInv, Values, UNCHANGED <<out, threads>>, rt' = "up" => rt = "up", Ordered' => Ordered,
           \A p \in Peers : broken[p] => broken'[p],
           Ordered' => \A r \in Requests : task[r] = "writing" => task'[r] = "writing" \/ broken[From[r]],
           OutInv
    PROVE  FrameInv'
  <1>1. rt' = "up" \/ threads' = 1 => \A p \in Peers : Framed(out'[p])
    BY DEF FrameInv
  <1>2. ASSUME Ordered', NEW p \in Peers, NEW i \in 1..Len(out[p]), i = Len(out[p]), out[p][i][2] = "head"
        PROVE  broken'[p] \/ task'[out[p][i][1]] = "writing"
    <2>1. out[p][i][1] \in Requests /\ From[out[p][i][1]] = p
      BY <1>2, Written, Zenon DEF OutInv, Tells
    <2>2. broken[p] \/ task[out[p][i][1]] = "writing"
      BY <1>2 DEF FrameInv
    <2> QED BY <1>2, <2>1, <2>2, Zenon
  <1> QED BY <1>1, <1>2 DEF FrameInv, Framed

\* A step that leaves the mutex queues alone keeps them, if nobody begins to wait or to
\* write.
LEMMA SameLocks ==
    ASSUME LockInv, UNCHANGED lockq, Ordered' => Ordered,
           \A r \in Requests : task'[r] \in {"write", "writing"} => task[r] \in {"write", "writing"},
           \A r \in Requests : task'[r] = "writing" => task[r] = "writing" \/ Head(lockq[From[r]]) = r
    PROVE  LockInv'
  <1> SUFFICES ASSUME Ordered'
               PROVE  /\ lockq \in [Peers -> Seq(Requests)]
                      /\ \A r \in Requests : task'[r] \in {"write", "writing"} =>
                            \E i \in 1..Len(lockq[From[r]]) : lockq[From[r]][i] = r
                      /\ \A r \in Requests : task'[r] = "writing" => lockq[From[r]][1] = r
    BY DEF LockInv
  <1>1. \A r \in Requests : task'[r] = "writing" => lockq[From[r]][1] = r
    <2> SUFFICES ASSUME NEW r \in Requests, task'[r] = "writing", Head(lockq[From[r]]) = r PROVE lockq[From[r]][1] = r
      BY DEF LockInv
    <2>1. lockq[From[r]] \in Seq(Requests)
      BY ServerAssumption DEF LockInv
    <2>2. lockq[From[r]] # <<>>
      BY DEF LockInv
    <2> QED BY <2>1, <2>2
  <1> QED BY <1>1 DEF LockInv

\* The reply of r is ready and r joins the queue of the mutex.
LEMMA LockJoined ==
    ASSUME LockInv, Values, NEW r \in Requests, Ordered' => Ordered, task[r] # "writing",
           task' = [task EXCEPT ![r] = "write"], lockq' = [lockq EXCEPT ![From[r]] = Append(@, r)]
    PROVE  LockInv'
  <1> SUFFICES ASSUME Ordered' PROVE LockInv'
    BY DEF LockInv
  <1> DEFINE p == From[r]
             q == lockq[p]
  <1>1. p \in Peers /\ \A t \in Requests : From[t] \in Peers
    BY ServerAssumption
  <1>2. q \in Seq(Requests) /\ Len(q) \in Nat /\ lockq \in [Peers -> Seq(Requests)]
    BY <1>1 DEF LockInv
  <1>3. /\ Append(q, r) \in Seq(Requests) /\ Len(Append(q, r)) = Len(q) + 1
        /\ \A i \in 1..Len(q) : Append(q, r)[i] = q[i]
        /\ Append(q, r)[Len(q) + 1] = r
    BY <1>2
  <1>4. lockq'[p] = Append(q, r) /\ \A d \in Peers : d # p => lockq'[d] = lockq[d]
    BY <1>1, <1>2
  <1>5. lockq' \in [Peers -> Seq(Requests)]
    BY <1>2, <1>3, Zenon
  <1>6. task'[r] = "write" /\ \A t \in Requests : t # r => task'[t] = task[t]
    BY DEF Values
  <1>7. ASSUME NEW t \in Requests, task'[t] \in {"write", "writing"}
        PROVE  \E i \in 1..Len(lockq'[From[t]]) : lockq'[From[t]][i] = t
    <2>1. CASE t = r
      <3>1. Len(q) + 1 \in 1..Len(lockq'[p])
        BY <1>2, <1>3, <1>4
      <3> QED BY <2>1, <3>1, <1>3, <1>4
    <2>2. CASE t # r
      <3>1. PICK i \in 1..Len(lockq[From[t]]) : lockq[From[t]][i] = t
        BY <1>6, <1>7, <2>2 DEF LockInv
      <3>2. CASE From[t] = p
        BY <3>1, <3>2, <1>2, <1>3, <1>4
      <3>3. CASE From[t] # p
        BY <3>1, <3>3, <1>1, <1>4
      <3> QED BY <3>2, <3>3
    <2> QED BY <2>1, <2>2
  <1>8. ASSUME NEW t \in Requests, task'[t] = "writing" PROVE lockq'[From[t]][1] = t
    <2>1. task[t] = "writing" /\ t # r
      BY <1>6, <1>8
    <2>2. PICK i \in 1..Len(lockq[From[t]]) : lockq[From[t]][i] = t
      BY <2>1 DEF LockInv
    <2>3. lockq[From[t]][1] = t
      BY <2>1 DEF LockInv
    <2>4. CASE From[t] = p
      <3>1. 1 \in 1..Len(q)
        BY <2>2, <2>4, <1>2
      <3> QED BY <2>3, <2>4, <3>1, <1>3, <1>4
    <2>5. CASE From[t] # p
      BY <2>3, <2>5, <1>1, <1>4
    <2> QED BY <2>4, <2>5
  <1> QED BY <1>5, <1>7, <1>8 DEF LockInv

\* The owner r leaves the queue and its task ends.
LEMMA LockLeft ==
    ASSUME LockInv, Values, NEW r \in Requests, Ordered' => Ordered, task[r] \in {"write", "writing"},
           task[r] = "writing" \/ Head(lockq[From[r]]) = r,
           task' = [task EXCEPT ![r] = "done"], lockq' = Unlocked(r)
    PROVE  LockInv'
  <1> SUFFICES ASSUME Ordered' PROVE LockInv'
    BY DEF LockInv
  <1> DEFINE p == From[r]
             q == lockq[p]
  <1>1. p \in Peers /\ \A t \in Requests : From[t] \in Peers
    BY ServerAssumption
  <1>2. q \in Seq(Requests) /\ Len(q) \in Nat /\ lockq \in [Peers -> Seq(Requests)]
    BY <1>1 DEF LockInv
  <1>3. q # <<>> /\ q[1] = r
    <2>1. q # <<>>
      BY DEF LockInv
    <2> QED BY <2>1, <1>2 DEF LockInv
  <1>4. /\ Tail(q) \in Seq(Requests) /\ Len(Tail(q)) = Len(q) - 1
        /\ \A i \in 1..Len(Tail(q)) : Tail(q)[i] = q[i + 1]
    BY <1>2, <1>3
  <1>5. lockq'[p] = Tail(q) /\ \A d \in Peers : d # p => lockq'[d] = lockq[d]
    BY <1>1, <1>2 DEF Unlocked
  <1>6. lockq' \in [Peers -> Seq(Requests)]
    BY <1>2, <1>4, Zenon DEF Unlocked
  <1>7. task'[r] = "done" /\ \A t \in Requests : t # r => task'[t] = task[t]
    BY DEF Values
  <1>8. ASSUME NEW t \in Requests, task'[t] \in {"write", "writing"}
        PROVE  \E i \in 1..Len(lockq'[From[t]]) : lockq'[From[t]][i] = t
    <2>1. t # r
      BY <1>7, <1>8
    <2>2. PICK i \in 1..Len(lockq[From[t]]) : lockq[From[t]][i] = t
      BY <1>7, <1>8, <2>1 DEF LockInv
    <2>3. CASE From[t] = p
      <3>1. i # 1
        BY <1>3, <2>1, <2>2, <2>3
      <3>2. i - 1 \in 1..Len(Tail(q)) /\ (i - 1) + 1 = i
        BY <1>2, <1>4, <2>2, <2>3, <3>1
      <3>3. Tail(q)[i - 1] = t
        BY <1>4, <2>2, <2>3, <3>2
      <3> QED BY <1>5, <2>3, <3>2, <3>3, Zenon
    <2>4. CASE From[t] # p
      BY <2>2, <2>4, <1>1, <1>5
    <2> QED BY <2>3, <2>4
  <1>9. ASSUME NEW t \in Requests, task'[t] = "writing" PROVE lockq'[From[t]][1] = t
    <2>1. task[t] = "writing" /\ t # r
      BY <1>7, <1>9
    <2>2. lockq[From[t]][1] = t
      BY <2>1 DEF LockInv
    <2>3. From[t] # p
      BY <1>3, <2>1, <2>2
    <2> QED BY <2>2, <2>3, <1>1, <1>5
  <1> QED BY <1>6, <1>8, <1>9, Zenon DEF LockInv

\* A part is written behind the others.
LEMMA AppendEnds ==
    ASSUME NEW S, NEW s \in Seq(S), NEW e \in S
    PROVE  /\ Append(s, e) \in Seq(S) /\ Len(s) \in Nat /\ Len(Append(s, e)) = Len(s) + 1
           /\ Append(s, e)[Len(s) + 1] = e
           /\ \A i \in 1..Len(s) : Append(s, e)[i] = s[i]
           /\ \A i \in 1..Len(s) + 1 : i \in 1..Len(s) \/ i = Len(s) + 1
  OBVIOUS

\* The same, as far as the last part is concerned.
LEMMA AppendLast ==
    ASSUME NEW S, NEW s \in Seq(S), NEW e \in S
    PROVE  Len(Append(s, e)) = Len(s) + 1 /\ Append(s, e)[Len(s) + 1] = e
  OBVIOUS

\* A part that was not written before can be appended.
LEMMA DistinctAppend ==
    ASSUME NEW S, NEW s \in Seq(S), NEW e \in S, Distinct(s), \A i \in 1..Len(s) : s[i] # e
    PROVE  Distinct(Append(s, e))
  BY AppendEnds DEF Distinct

\* So can a part that ends the frame before it, if that one is open.
LEMMA FramedAppend ==
    ASSUME NEW S, NEW s \in Seq(S), NEW e \in S, Framed(s),
           \A i \in 1..Len(s) : i = Len(s) /\ s[i][2] = "head" => e = <<s[i][1], "tail">>
    PROVE  Framed(Append(s, e))
  <1> DEFINE w == Append(s, e)
  <1> SUFFICES ASSUME NEW i \in 1..Len(w), w[i][2] = "head", i < Len(w) PROVE w[i + 1] = <<w[i][1], "tail">>
    BY DEF Framed
  <1>1. i \in 1..Len(s) /\ w[i] = s[i] /\ Len(s) \in Nat /\ Len(w) = Len(s) + 1
    BY AppendEnds
  <1>2. CASE i = Len(s)
    BY <1>1, <1>2, AppendEnds
  <1>3. CASE i < Len(s)
    <2>1. i + 1 \in 1..Len(s)
      BY <1>1, <1>3
    <2>2. w[i + 1] = s[i + 1]
      BY <2>1, AppendEnds
    <2> QED BY <1>1, <1>3, <2>2 DEF Framed
  <1> QED BY <1>1, <1>2, <1>3

\* The task of r writes, and goes on or ends.
LEMMA Writes ==
    ASSUME Values, NEW r \in Requests, NEW part \in {"head", "tail", "datagram"}, NEW st,
           task' = [task EXCEPT ![r] = st], out' = [out EXCEPT ![From[r]] = Append(@, <<r, part>>)]
    PROVE  /\ From[r] \in Peers /\ <<r, part>> \in Parts
           /\ task'[r] = st /\ \A t \in Requests : t # r => task'[t] = task[t]
           /\ out'[From[r]] = Append(out[From[r]], <<r, part>>)
           /\ \A d \in Peers : d # From[r] => out'[d] = out[d]
           /\ out' \in [Peers -> Seq(Parts)]
  <1>1. From[r] \in Peers /\ <<r, part>> \in Parts
    BY ServerAssumption DEF Parts
  <1>2. task'[r] = st /\ \A t \in Requests : t # r => task'[t] = task[t]
    BY DEF Values
  <1>3. out \in [Peers -> Seq(Parts)]
    BY Zenon DEF Values
  <1>4. /\ out'[From[r]] = Append(out[From[r]], <<r, part>>)
        /\ \A d \in Peers : d # From[r] => out'[d] = out[d]
    BY <1>1, <1>3
  <1>5. Append(out[From[r]], <<r, part>>) \in Seq(Parts)
    BY <1>1, <1>3, AppendEnds
  <1>6. out' \in [Peers -> Seq(Parts)]
    BY <1>3, <1>5, Zenon
  <1> QED BY <1>1, <1>2, <1>4, <1>6, Zenon

\* The invariant about what was written, in the next state.
LEMMA OutNext ==
    ASSUME UNCHANGED kind,
           \A d \in Peers : (\A i \in 1..Len(out'[d]) : Tells(d, out'[d][i], task')) /\ Distinct(out'[d])
    PROVE  OutInv'
  BY DEF OutInv, Tells, Distinct

\* A task that writes a part it did not write before keeps what the parts tell.
LEMMA OutWritten ==
    ASSUME OutInv, Values, NEW r \in Requests, NEW part \in {"head", "tail", "datagram"}, NEW st, UNCHANGED kind,
           \/ part = "head" /\ task[r] = "write" /\ st = "writing" /\ kind = "tcp"
           \/ part \in {"tail", "datagram"} /\ task[r] # "done" /\ st = "done",
           task' = [task EXCEPT ![r] = st], out' = [out EXCEPT ![From[r]] = Append(@, <<r, part>>)]
    PROVE  OutInv' /\ out' \in [Peers -> Seq(Parts)]
  <1> DEFINE p == From[r]
             f == <<r, part>>
  <1>1. p \in Peers /\ f \in Parts /\ out'[p] = Append(out[p], f) /\ out' \in [Peers -> Seq(Parts)]
    BY Writes, Zenon
  <1>2. \A d \in Peers : d # p => out'[d] = out[d]
    BY Writes, Zenon
  <1>3. task'[r] = st /\ \A t \in Requests : t # r => task'[t] = task[t]
    BY Writes, Zenon
  <1>4. ASSUME NEW d \in Peers, NEW i \in 1..Len(out[d]) PROVE Tells(d, out[d][i], task')
    <2>1. out[d][i][1] \in Requests /\ Tells(d, out[d][i], task)
      BY <1>4, Written, Zenon DEF OutInv
    <2> QED BY <1>3, <2>1 DEF Tells
  <1>5. Tells(p, f, task')
    BY <1>3 DEF Tells
  <1>6. ASSUME NEW i \in 1..Len(out[p]) PROVE out[p][i] # f
    <2>1. Tells(p, out[p][i], task)
      BY <1>1, <1>6, Zenon DEF OutInv
    <2> QED BY <2>1 DEF Tells
  <1>7. ASSUME NEW d \in Peers
        PROVE  (\A i \in 1..Len(out'[d]) : Tells(d, out'[d][i], task')) /\ Distinct(out'[d])
    <2>1. out[d] \in Seq(Parts) /\ Distinct(out[d])
      BY <1>7, Written, Zenon DEF OutInv
    <2>2. CASE d # p
      BY <1>2, <1>4, <1>7, <2>1, <2>2, Zenon
    <2>3. CASE d = p
      <3>1. Distinct(Append(out[p], f))
        BY <1>1, <1>6, <2>1, <2>3, DistinctAppend, Zenon
      <3>2. ASSUME NEW i \in 1..Len(out'[p]) PROVE Tells(p, out'[p][i], task')
        <4>1. (i \in 1..Len(out[p]) /\ out'[p][i] = out[p][i]) \/ out'[p][i] = f
          BY <1>1, <2>1, <2>3, <3>2, AppendEnds
        <4> QED BY <1>1, <1>4, <1>5, <4>1, Zenon
      <3> QED BY <1>1, <2>3, <3>1, <3>2, Zenon
    <2> QED BY <2>2, <2>3, Zenon
  <1> QED BY <1>1, <1>7, OutNext, Zenon

\* What the task of r writes follows a finished frame, or finishes its own.
LEMMA FramesWritten ==
    ASSUME FrameInv, OutInv, Values, NEW r \in Requests, Live(r), NEW part \in {"head", "tail", "datagram"}, NEW st,
           part = "head" => st = "writing",
           task' = [task EXCEPT ![r] = st], out' = [out EXCEPT ![From[r]] = Append(@, <<r, part>>)],
           UNCHANGED <<threads, broken>>, rt' = "up" => rt = "up", Ordered' => Ordered,
           Ordered => \A i \in 1..Len(out[From[r]]) : i = Len(out[From[r]]) /\ out[From[r]][i][2] = "head" =>
               part = "tail" /\ out[From[r]][i][1] = r
    PROVE  FrameInv'
  <1> DEFINE p == From[r]
             f == <<r, part>>
  <1>1. p \in Peers /\ f \in Parts /\ out'[p] = Append(out[p], f) /\ out[p] \in Seq(Parts)
    BY Writes, Written, Zenon
  <1>2. \A d \in Peers : d # p => out'[d] = out[d]
    BY Writes, Zenon
  <1>3. task'[r] = st /\ \A t \in Requests : t # r => task'[t] = task[t]
    BY Writes, Zenon
  <1>4. ASSUME rt' = "up" \/ threads' = 1, NEW d \in Peers PROVE Framed(out'[d])
    <2>1. Ordered
      BY <1>4 DEF Ordered
    <2>2. Framed(out[d])
      BY <1>4 DEF FrameInv
    <2>3. CASE d # p
      BY <1>2, <1>4, <2>2, <2>3, Zenon
    <2>4. CASE d = p
      <3>1. \A i \in 1..Len(out[p]) : i = Len(out[p]) /\ out[p][i][2] = "head" => f = <<out[p][i][1], "tail">>
        BY <2>1
      <3> QED BY <1>1, <2>2, <2>4, <3>1, FramedAppend, Zenon
    <2> QED BY <2>3, <2>4, Zenon
  <1>5. ASSUME Ordered', NEW d \in Peers, NEW i \in 1..Len(out'[d]), i = Len(out'[d]), out'[d][i][2] = "head"
        PROVE  broken'[d] \/ task'[out'[d][i][1]] = "writing"
    <2>1. CASE d # p
      <3>1. out'[d] = out[d] /\ i \in 1..Len(out[d]) /\ i = Len(out[d]) /\ out[d][i][2] = "head"
        BY <1>2, <1>5, <2>1
      <3>2. out[d][i][1] \in Requests /\ From[out[d][i][1]] = d
        BY <1>5, <3>1, Written, Zenon DEF OutInv, Tells
      <3>3. broken[d] \/ task[out[d][i][1]] = "writing"
        BY <1>5, <3>1, Zenon DEF FrameInv
      <3> QED BY <1>3, <2>1, <3>1, <3>2, <3>3
    <2>2. CASE d = p
      <3>1. Len(Append(out[p], f)) = Len(out[p]) + 1 /\ Append(out[p], f)[Len(out[p]) + 1] = f
        BY <1>1, AppendLast, Zenon
      <3>2. out'[d][i] = f
        BY <1>1, <1>5, <2>2, <3>1, Zenon
      <3>3. f[1] = r /\ f[2] = part
        OBVIOUS
      <3> QED BY <1>3, <1>5, <3>2, <3>3, Zenon
    <2> QED BY <2>1, <2>2, Zenon
  <1> QED BY <1>4, <1>5, Zenon DEF FrameInv, Framed

-----------------------------------------------------------------------------
(* The steps of serve() and of the connections *)

\* A server that was just started.
LEMMA InitInv == Init => Inv
  <1> SUFFICES ASSUME Init PROVE Inv
    OBVIOUS
  <1>1. \A S : <<>> \in Seq(S) /\ Len(<<>>) = 0
    OBVIOUS
  <1>2. Values
    BY <1>1 DEF Init, Values
  <1>3. KindInv
    BY DEF Init, KindInv
  <1>4. StreamInv
    <2> SUFFICES ASSUME NEW p \in Peers
                 PROVE  /\ taken[p] <= Len(Stream[p]) /\ arrived[p] <= Len(Stream[p])
                        /\ \A i \in taken[p] + 1..Len(Stream[p]) : task[Stream[p][i]] = "none"
                        /\ conn[p] # "permit"
      BY Zenon DEF StreamInv
    <2>1. taken[p] = 0 /\ arrived[p] = 0 /\ conn[p] = "none"
      BY DEF Init
    <2>2. \A i \in 1..Len(Stream[p]) : Stream[p][i] \in Requests
      BY StreamFacts
    <2> QED BY <2>1, <2>2, StreamFacts DEF Init
  <1>5. OutInv /\ FrameInv
    BY <1>1 DEF Init, OutInv, Tells, Distinct, FrameInv, Framed
  <1>6. LockInv
    BY <1>1 DEF Init, LockInv
  <1>7. RuntimeOutlivesConnections
    BY DEF Init, RuntimeOutlivesConnections
  <1> QED BY <1>2, <1>3, <1>4, <1>5, <1>6, <1>7 DEF Inv

\* A step that touches no task, no writer and no reply, and resets at most a connection.
LEMMA Untouched ==
    ASSUME Inv, Values', UNCHANGED <<config, task, lockq, out>>, rt' = "up" => rt = "up",
           \A p \in Peers : broken[p] => broken'[p]
    PROVE  OutInv' /\ FrameInv' /\ LockInv'
  <1>1. Ordered' => Ordered
    BY DEF Ordered, Live, config
  <1> QED BY <1>1, SameOut, SameFrames, SameLocks DEF Inv, config

\* A step that decodes nothing and begins no task.
LEMMA StreamKept ==
    ASSUME StreamInv, Values, UNCHANGED taken, \A p \in Peers : arrived'[p] <= Len(Stream[p]),
           \A p \in Peers : conn'[p] = "permit" => conn[p] = "permit",
           \A r \in Requests : task[r] = "none" => task'[r] = "none"
    PROVE  StreamInv'
  <1> SUFFICES ASSUME NEW p \in Peers
               PROVE  /\ taken[p] <= Len(Stream[p]) /\ arrived'[p] <= Len(Stream[p])
                      /\ \A i \in taken[p] + 1..Len(Stream[p]) : task'[Stream[p][i]] = "none"
                      /\ conn'[p] = "permit" => taken[p] >= 1 /\ task'[Stream[p][taken[p]]] = "none"
    BY DEF StreamInv
  <1>1. taken[p] \in Nat /\ taken[p] <= Len(Stream[p]) /\ Len(Stream[p]) \in Nat
    BY StreamFacts DEF StreamInv, Values
  <1>2. \A i \in taken[p] + 1..Len(Stream[p]) : Stream[p][i] \in Requests /\ task[Stream[p][i]] = "none"
    BY <1>1, StreamFacts DEF StreamInv
  <1>3. conn'[p] = "permit" => taken[p] >= 1 /\ task[Stream[p][taken[p]]] = "none"
    BY DEF StreamInv
  <1>4. taken[p] >= 1 => Stream[p][taken[p]] \in Requests
    BY <1>1, StreamFacts
  <1> QED BY <1>1, <1>2, <1>3, <1>4 DEF StreamInv

\* No request is taken and no task changes.
LEMMA StreamSame ==
    ASSUME Inv, UNCHANGED <<arrived, taken, task>>, \A p \in Peers : conn'[p] = "permit" => conn[p] = "permit"
    PROVE  StreamInv'
  <1>1. StreamInv /\ Values
    BY Zenon DEF Inv
  <1>2. \A p \in Peers : arrived'[p] <= Len(Stream[p])
    BY <1>1, Zenon DEF StreamInv
  <1>3. \A r \in Requests : task[r] = "none" => task'[r] = "none"
    BY Zenon
  <1> QED BY <1>1, <1>2, <1>3, StreamKept, Zenon

\* The next request of p is taken; its task, if any, is the only one that changes.
LEMMA StreamTaken ==
    ASSUME StreamInv, Values, UNCHANGED arrived, NEW p \in Peers, taken[p] < Len(Stream[p]),
           taken' = [taken EXCEPT ![p] = @ + 1],
           \A d \in Peers : conn'[d] = "permit" => conn[d] = "permit" \/ d = p,
           \A r \in Requests : task'[r] = task[r] \/ r = Stream[p][taken[p] + 1],
           conn'[p] = "permit" => UNCHANGED task
    PROVE  StreamInv'
  <1> SUFFICES ASSUME NEW d \in Peers
               PROVE  /\ taken'[d] <= Len(Stream[d]) /\ arrived[d] <= Len(Stream[d])
                      /\ \A i \in taken'[d] + 1..Len(Stream[d]) : task'[Stream[d][i]] = "none"
                      /\ conn'[d] = "permit" => taken'[d] >= 1 /\ task'[Stream[d][taken'[d]]] = "none"
    BY DEF StreamInv
  <1>1. /\ taken[d] \in Nat /\ taken[d] <= Len(Stream[d]) /\ Len(Stream[d]) \in Nat
        /\ taken[p] \in Nat /\ Len(Stream[p]) \in Nat /\ taken[p] + 1 \in 1..Len(Stream[p])
    BY StreamFacts DEF StreamInv, Values
  <1>2. \A i \in taken[d] + 1..Len(Stream[d]) : Stream[d][i] \in Requests /\ task[Stream[d][i]] = "none"
    BY <1>1, StreamFacts DEF StreamInv
  <1>3. From[Stream[p][taken[p] + 1]] = p
    BY <1>1, StreamFacts
  <1>4. CASE d = p
    <2>1. taken'[d] = taken[d] + 1
      BY <1>4 DEF Values
    <2>2. \A i \in taken'[d] + 1..Len(Stream[d]) :
             i \in taken[d] + 1..Len(Stream[d]) /\ i \in 1..Len(Stream[d]) /\ i # taken[p] + 1
      BY <1>1, <1>4, <2>1
    <2>3. \A i \in taken'[d] + 1..Len(Stream[d]) : Stream[d][i] # Stream[p][taken[p] + 1]
      BY <1>1, <1>4, <2>2, StreamFacts
    <2>4. \A i \in taken'[d] + 1..Len(Stream[d]) : task'[Stream[d][i]] = "none"
      BY <1>2, <2>2, <2>3
    <2>5. conn'[d] = "permit" => task'[Stream[d][taken'[d]]] = "none"
      BY <1>1, <1>2, <1>4, <2>1
    <2> QED BY <1>1, <1>4, <2>1, <2>4, <2>5 DEF StreamInv
  <1>5. CASE d # p
    <2>1. taken'[d] = taken[d]
      BY <1>5 DEF Values
    <2>2. \A i \in 1..Len(Stream[d]) : Stream[d][i] \in Requests /\ Stream[d][i] # Stream[p][taken[p] + 1]
      BY <1>3, <1>5, StreamFacts
    <2>3. \A i \in 1..Len(Stream[d]) : task'[Stream[d][i]] = task[Stream[d][i]]
      BY <2>2
    <2>4. \A i \in taken'[d] + 1..Len(Stream[d]) : task'[Stream[d][i]] = "none"
      BY <1>1, <1>2, <2>1, <2>3
    <2>5. conn'[d] = "permit" => taken[d] >= 1 /\ task[Stream[d][taken[d]]] = "none"
      BY <1>5 DEF StreamInv
    <2>6. taken[d] >= 1 => taken[d] \in 1..Len(Stream[d])
      BY <1>1
    <2> QED BY <1>1, <2>1, <2>3, <2>4, <2>5, <2>6 DEF StreamInv
  <1> QED BY <1>4, <1>5

\* The task of the request that p took last begins.
LEMMA StreamSpawned ==
    ASSUME StreamInv, Values, UNCHANGED <<arrived, taken>>, NEW p \in Peers, taken[p] \in 1..Len(Stream[p]),
           conn'[p] # "permit", \A d \in Peers : d # p => conn'[d] = conn[d],
           \A r \in Requests : task'[r] = task[r] \/ r = Stream[p][taken[p]]
    PROVE  StreamInv'
  <1> SUFFICES ASSUME NEW d \in Peers
               PROVE  /\ taken[d] <= Len(Stream[d]) /\ arrived[d] <= Len(Stream[d])
                      /\ \A i \in taken[d] + 1..Len(Stream[d]) : task'[Stream[d][i]] = "none"
                      /\ conn'[d] = "permit" => taken[d] >= 1 /\ task'[Stream[d][taken[d]]] = "none"
    BY DEF StreamInv
  <1>1. taken[d] \in Nat /\ taken[d] <= Len(Stream[d]) /\ Len(Stream[d]) \in Nat /\ arrived[d] <= Len(Stream[d])
    BY StreamFacts DEF StreamInv, Values
  <1>2. \A i \in taken[d] + 1..Len(Stream[d]) : i \in 1..Len(Stream[d]) /\ i # taken[d]
    BY <1>1
  <1>3. \A i \in taken[d] + 1..Len(Stream[d]) : Stream[d][i] \in Requests /\ task[Stream[d][i]] = "none"
    <2>1. \A i \in taken[d] + 1..Len(Stream[d]) : task[Stream[d][i]] = "none"
      BY Zenon DEF StreamInv
    <2> QED BY <1>2, <2>1, StreamFacts, Zenon
  <1>4. CASE d = p
    <2>1. \A i \in taken[d] + 1..Len(Stream[d]) : Stream[d][i] # Stream[p][taken[p]]
      <3>1. \A i, j \in 1..Len(Stream[p]) : Stream[p][i] = Stream[p][j] => i = j
        BY StreamFacts, Zenon
      <3> QED BY <1>2, <1>4, <3>1
    <2> QED BY <1>1, <1>3, <1>4, <2>1, Zenon
  <1>5. CASE d # p
    <2>1. ASSUME NEW i \in 1..Len(Stream[d]) PROVE task'[Stream[d][i]] = task[Stream[d][i]]
      <3>1. From[Stream[p][taken[p]]] = p
        BY StreamFacts, Zenon
      <3>2. Stream[d][i] \in Requests /\ From[Stream[d][i]] = d
        BY StreamFacts, Zenon
      <3>3. Stream[d][i] # Stream[p][taken[p]]
        BY <1>5, <3>1, <3>2, Zenon
      <3> QED BY <3>2, <3>3, Zenon
    <2>2. conn'[d] = "permit" => taken[d] >= 1 /\ task[Stream[d][taken[d]]] = "none"
      BY <1>5, Zenon DEF StreamInv
    <2>3. taken[d] >= 1 => taken[d] \in 1..Len(Stream[d])
      BY <1>1
    <2> QED BY <1>1, <1>2, <1>3, <2>1, <2>2, <2>3, Zenon
  <1> QED BY <1>4, <1>5

\* What has arrived is part of the stream.
LEMMA ArrivedFirst ==
    ASSUME Inv, NEW p \in Peers, taken[p] < arrived[p]
    PROVE  taken[p] < Len(Stream[p])
  <1>1. taken[p] \in Nat /\ arrived[p] \in Nat /\ arrived[p] <= Len(Stream[p])
    BY Zenon DEF Inv, Values, StreamInv
  <1>2. Len(Stream[p]) \in Nat
    BY StreamFacts, Zenon
  <1> QED BY <1>1, <1>2

\* serve_tcp accepts a connection.
LEMMA AcceptInv == ASSUME Inv, NEW p \in Peers, Accept(p) PROVE Inv'
  <1>1. kind = "tcp" /\ rt = "up" /\ UNCHANGED rt
    BY DEF Inv, KindInv, RuntimeOutlivesConnections, Accept, rtVars
  <1>2. Values'
    BY DEF Inv, Values, Accept, config, poolVars, rtVars
  <1>3. KindInv'
    BY <1>1 DEF Inv, KindInv, Accept, config
  <1>4. StreamInv'
    <2>1. \A d \in Peers : conn'[d] = "permit" => conn[d] = "permit"
      BY DEF Inv, Values, Accept
    <2>2. \A d \in Peers : arrived'[d] <= Len(Stream[d])
      BY DEF Inv, StreamInv, Accept
    <2> QED BY <2>1, <2>2, StreamKept DEF Inv, Accept
  <1>5. OutInv' /\ FrameInv' /\ LockInv'
    BY <1>1, <1>2, Untouched DEF Accept
  <1>6. RuntimeOutlivesConnections'
    BY <1>1, SameRuntime DEF Inv
  <1> QED BY <1>2, <1>3, <1>4, <1>5, <1>6 DEF Inv

\* serve_udp gets its permit.
LEMMA ListenerAcquiresInv == ASSUME Inv, ListenerAcquires PROVE Inv'
  <1>1. rt = "up" /\ UNCHANGED rt
    BY DEF Inv, RuntimeOutlivesConnections, ListenerAcquires, rtVars
  <1>2. Values'
    BY DEF Inv, Values, ListenerAcquires, config, connVars, rtVars
  <1>3. KindInv'
    BY DEF Inv, KindInv, ListenerAcquires, config, connVars
  <1>4. StreamInv'
    BY StreamKept DEF Inv, StreamInv, ListenerAcquires, connVars
  <1>5. OutInv' /\ FrameInv' /\ LockInv'
    BY <1>1, <1>2, Untouched DEF ListenerAcquires, connVars
  <1>6. RuntimeOutlivesConnections'
    BY <1>1, SameRuntime DEF Inv
  <1> QED BY <1>2, <1>3, <1>4, <1>5, <1>6 DEF Inv

\* A task begins while the runtime is up.
LEMMA Begun ==
    ASSUME Inv, NEW r \in Requests, task[r] = "none", rt = "up", task' = [task EXCEPT ![r] = "spawned"],
           UNCHANGED <<config, broken, lockq, out, rtVars>>
    PROVE  OutInv' /\ FrameInv' /\ LockInv'
  <1>1. Values /\ UNCHANGED <<kind, threads, rt>>
    BY DEF Inv, config, rtVars
  <1>2. task'[r] = "spawned" /\ \A t \in Requests : t # r => task'[t] = task[t]
    BY <1>1 DEF Values
  <1>3. Ordered
    BY DEF Ordered
  <1>4. OutInv'
    BY <1>1, <1>2, SameOut DEF Inv
  <1>5. FrameInv'
    BY <1>1, <1>2, <1>3, SameFrames DEF Inv
  <1>6. LockInv'
    BY <1>1, <1>2, <1>3, SameLocks DEF Inv
  <1> QED BY <1>4, <1>5, <1>6

\* The datagram a receive takes has no task yet.
LEMMA NextFresh ==
    ASSUME Inv, NEW p \in Peers, taken[p] < Len(Stream[p])
    PROVE  /\ taken[p] \in Nat /\ Len(Stream[p]) \in Nat /\ taken[p] + 1 \in 1..Len(Stream[p])
           /\ Stream[p][taken[p] + 1] \in Requests /\ task[Stream[p][taken[p] + 1]] = "none"
  <1>1. taken[p] \in Nat /\ Len(Stream[p]) \in Nat
    BY StreamFacts DEF Inv, Values
  <1>2. taken[p] + 1 \in taken[p] + 1..Len(Stream[p]) /\ taken[p] + 1 \in 1..Len(Stream[p])
    BY <1>1
  <1> QED BY <1>1, <1>2, StreamFacts, Zenon DEF Inv, StreamInv

\* Nor has the request a connection holds while it waits for a permit.
LEMMA WaitingFresh ==
    ASSUME Inv, NEW p \in Peers, conn[p] = "permit"
    PROVE  /\ taken[p] \in Nat /\ Len(Stream[p]) \in Nat /\ taken[p] >= 1
           /\ taken[p] \in 1..Len(Stream[p]) /\ task[Stream[p][taken[p]]] = "none"
           /\ Stream[p][taken[p]] \in Requests /\ From[Stream[p][taken[p]]] = p
  <1>1. taken[p] \in Nat /\ Len(Stream[p]) \in Nat
    BY StreamFacts DEF Inv, Values
  <1>2. taken[p] >= 1 /\ taken[p] <= Len(Stream[p]) /\ task[Stream[p][taken[p]]] = "none"
    BY DEF Inv, StreamInv
  <1>3. taken[p] \in 1..Len(Stream[p])
    BY <1>1, <1>2
  <1> QED BY <1>1, <1>2, <1>3, StreamFacts, Zenon

\* serve_udp spawns the task of a datagram.
LEMMA ReceiveInv == ASSUME Inv, NEW p \in Peers, Receive(p) PROVE Inv'
  <1> DEFINE r == Stream[p][taken[p] + 1]
  <1>1. rt = "up" /\ kind = "udp" /\ UNCHANGED rt
    BY DEF Inv, KindInv, RuntimeOutlivesConnections, Receive, rtVars
  <1>2. taken[p] < Len(Stream[p])
    BY DEF Receive
  <1>3. r \in Requests /\ task[r] = "none"
    BY <1>2, NextFresh
  <1>4. task'[r] = "spawned" /\ \A t \in Requests : t # r => task'[t] = task[t]
    BY <1>3 DEF Inv, Values, Receive
  <1>5. Values'
    <2>1. taken' \in [Peers -> Nat]
      BY DEF Inv, Values, Receive
    <2> QED BY <2>1, Zenon DEF Inv, Values, Receive, config, rtVars
  <1>6. KindInv'
    BY <1>1, <1>4 DEF Inv, KindInv, Receive, config
  <1>7. StreamInv'
    <2>1. conn'[p] # "permit"
      BY <1>1 DEF Inv, KindInv, Receive
    <2> QED BY <1>4, <2>1, StreamTaken, Zenon DEF Inv, Receive
  <1>8. OutInv' /\ FrameInv' /\ LockInv'
    BY <1>1, <1>3, Begun, Zenon DEF Receive
  <1>9. RuntimeOutlivesConnections'
    BY <1>1, SameRuntime DEF Inv
  <1> QED BY <1>5, <1>6, <1>7, <1>8, <1>9 DEF Inv

\* The network loses a datagram.
LEMMA LoseInv == ASSUME Inv, NEW p \in Peers, Lose(p) PROVE Inv'
  <1>1. Values'
    <2>1. taken' \in [Peers -> Nat]
      BY DEF Inv, Values, Lose
    <2> QED BY <2>1 DEF Inv, Values, Lose, config, poolVars, rtVars
  <1>2. KindInv'
    BY DEF Inv, KindInv, Lose, config
  <1>3. StreamInv'
    BY StreamTaken, Zenon DEF Inv, Lose
  <1>4. OutInv' /\ FrameInv' /\ LockInv'
    BY <1>1, Untouched DEF Lose, rtVars
  <1>5. RuntimeOutlivesConnections'
    BY SameRuntime DEF Inv, Lose, rtVars
  <1> QED BY <1>1, <1>2, <1>3, <1>4, <1>5 DEF Inv

\* A dropped guard leaves the runtime in one of its states.
LEMMA GuardValues ==
    ASSUME Values, NEW by \in {"outside", "worker"}, GuardDropped(by)
    PROVE  rt' \in {"up", "stopping", "down"} /\ drainer' \in {"none", "outside", "worker"}
  BY DEF Values, GuardDropped, rtVars

\* The serve future is dropped or returns.
LEMMA EndServeInv == ASSUME Inv, EndServe PROVE Inv'
  <1>1. Values'
    <2>1. rt' \in {"up", "stopping", "down"} /\ drainer' \in {"none", "outside", "worker"}
      BY GuardValues DEF Inv, EndServe
    <2> QED BY <2>1 DEF Inv, Values, EndServe, config, connVars
  <1>2. KindInv'
    BY DEF Inv, KindInv, EndServe, config, connVars
  <1>3. StreamInv'
    BY StreamKept DEF Inv, StreamInv, EndServe, connVars
  <1>4. RuntimeOutlivesConnections' /\ (rt' = "up" => rt = "up")
    <2>1. conn' \in [Peers -> {"none", "decode", "permit", "read", "ended"}] /\ loop' \in {loop, "ended"}
          /\ \A p \in Peers : conn'[p] \in {conn[p], "ended"}
      BY DEF Inv, Values, EndServe, connVars
    <2> QED BY <2>1, GuardRuntime DEF Inv, EndServe
  <1>5. OutInv' /\ FrameInv' /\ LockInv'
    BY <1>1, <1>4, Untouched DEF EndServe, connVars
  <1> QED BY <1>1, <1>2, <1>3, <1>4, <1>5 DEF Inv

\* The task of a connection ends, having decoded what it may.
LEMMA EndConnectionInv ==
    ASSUME Inv, NEW p \in Peers, conn[p] # "none", EndConnection(p), StreamInv', taken' \in [Peers -> Nat],
           UNCHANGED <<arrived, broken, poolVars, lockq, out>>
    PROVE  Inv'
  <1>1. conn' \in [Peers -> {"none", "decode", "permit", "read", "ended"}]
        /\ conn'[p] = "ended" /\ \A d \in Peers : d # p => conn'[d] = conn[d]
    BY DEF Inv, Values, EndConnection
  <1>2. Values'
    <2>1. rt' \in {"up", "stopping", "down"} /\ drainer' \in {"none", "outside", "worker"}
      BY GuardValues DEF Inv, EndConnection
    <2> QED BY <1>1, <2>1 DEF Inv, Values, EndConnection, config, poolVars
  <1>3. RuntimeOutlivesConnections' /\ (rt' = "up" => rt = "up")
    <2>1. loop' \in {loop, "ended"} /\ \A d \in Peers : conn'[d] \in {conn[d], "ended"}
      BY <1>1 DEF EndConnection
    <2> QED BY <1>1, <2>1, GuardRuntime DEF Inv, EndConnection
  <1>4. OutInv' /\ FrameInv' /\ LockInv'
    BY <1>2, <1>3, Untouched DEF EndConnection
  <1>5. KindInv'
    BY <1>1 DEF Inv, KindInv, EndConnection, config
  <1> QED BY <1>2, <1>3, <1>4, <1>5 DEF Inv

\* A connection decodes a record, or finds that it cannot.
LEMMA DecodeInv == ASSUME Inv, NEW p \in Peers, Decode(p) PROVE Inv'
  <1>1. rt = "up" /\ kind = "tcp"
    BY DEF Inv, RuntimeOutlivesConnections, KindInv, Decode
  <1>2. CASE /\ conn' = [conn EXCEPT ![p] = "read"]
             /\ UNCHANGED <<config, loop, taken, queue, task, rtVars>>
    <2>1. UNCHANGED <<arrived, broken, permits, lockq, out>>
      BY DEF Decode
    <2>2. Values'
      BY <1>2, <2>1 DEF Inv, Values, config, rtVars
    <2>3. KindInv'
      BY <1>1, <1>2 DEF Inv, KindInv, config
    <2>4. StreamInv'
      <3>1. \A d \in Peers : conn'[d] = "permit" => conn[d] = "permit"
        BY <1>2 DEF Inv, Values
      <3> QED BY <1>2, <2>1, <3>1, StreamKept DEF Inv, StreamInv
    <2>5. OutInv' /\ FrameInv' /\ LockInv'
      BY <1>2, <2>1, <2>2, Untouched DEF rtVars
    <2>6. RuntimeOutlivesConnections'
      BY <1>1, <1>2, SameRuntime DEF Inv, rtVars
    <2> QED BY <2>2, <2>3, <2>4, <2>5, <2>6 DEF Inv
  <1>3. CASE /\ taken[p] < arrived[p] /\ taken' = [taken EXCEPT ![p] = @ + 1]
             /\ EndConnection(p) /\ UNCHANGED queue
    <2>1. UNCHANGED <<arrived, broken, permits, lockq, out>> /\ conn[p] # "none"
      BY DEF Decode
    <2>2. taken[p] < Len(Stream[p])
      BY <1>3, ArrivedFirst, Zenon
    <2>3. conn'[p] # "permit" /\ \A d \in Peers : d # p => conn'[d] = conn[d]
      BY <1>3 DEF Inv, Values, EndConnection
    <2>4. StreamInv'
      BY <1>3, <2>1, <2>2, <2>3, StreamTaken, Zenon DEF Inv, EndConnection
    <2>5. taken' \in [Peers -> Nat]
      BY <1>3 DEF Inv, Values
    <2> QED BY <1>3, <2>1, <2>4, <2>5, EndConnectionInv DEF poolVars
  <1>4. CASE /\ taken[p] < arrived[p] /\ taken' = [taken EXCEPT ![p] = @ + 1]
             /\ conn' = [conn EXCEPT ![p] = "permit"]
             /\ queue' = Append(queue, p)
             /\ UNCHANGED <<config, loop, task, rtVars>>
    <2>1. UNCHANGED <<arrived, broken, permits, lockq, out>>
      BY DEF Decode
    <2>2. Values'
      <3>1. taken' \in [Peers -> Nat]
        BY <1>4 DEF Inv, Values
      <3> QED BY <1>4, <2>1, <3>1 DEF Inv, Values, config, rtVars
    <2>3. KindInv'
      BY <1>1, <1>4 DEF Inv, KindInv, config
    <2>4. StreamInv'
      <3>1. taken[p] < Len(Stream[p])
        BY <1>4, ArrivedFirst, Zenon
      <3>2. \A d \in Peers : d # p => conn'[d] = conn[d]
        BY <1>4 DEF Inv, Values
      <3> QED BY <1>4, <2>1, <3>1, <3>2, StreamTaken, Zenon DEF Inv
    <2>5. OutInv' /\ FrameInv' /\ LockInv'
      BY <1>4, <2>1, <2>2, Untouched DEF rtVars
    <2>6. RuntimeOutlivesConnections'
      BY <1>1, <1>4, SameRuntime DEF Inv, rtVars
    <2> QED BY <2>2, <2>3, <2>4, <2>5, <2>6 DEF Inv
  <1> QED BY <1>2, <1>3, <1>4, Zenon DEF Decode

\* A connection spawns the task of its record once it has a permit.
LEMMA SpawnInv == ASSUME Inv, NEW p \in Peers, Spawn(p) PROVE Inv'
  <1> DEFINE r == Stream[p][taken[p]]
  <1>1. rt = "up" /\ kind = "tcp" /\ UNCHANGED rt
    BY DEF Inv, RuntimeOutlivesConnections, KindInv, Spawn, rtVars
  <1>2. /\ taken[p] \in Nat /\ Len(Stream[p]) \in Nat /\ taken[p] >= 1
        /\ taken[p] \in 1..Len(Stream[p]) /\ task[r] = "none"
    BY WaitingFresh DEF Spawn
  <1>3. r \in Requests /\ From[r] = p
    BY WaitingFresh DEF Spawn
  <1>4. task'[r] = "spawned" /\ \A t \in Requests : t # r => task'[t] = task[t]
    BY <1>3 DEF Inv, Values, Spawn
  <1>5. conn'[p] = "decode" /\ \A d \in Peers : d # p => conn'[d] = conn[d]
    BY DEF Inv, Values, Spawn
  <1>6. Values'
    BY Zenon DEF Inv, Values, Spawn, config, rtVars
  <1>7. KindInv'
    BY <1>1, <1>4 DEF Inv, KindInv, Spawn, config
  <1>8. StreamInv'
    <2>1. UNCHANGED <<arrived, taken>> /\ conn'[p] # "permit"
      BY <1>5 DEF Spawn
    <2> QED BY <1>2, <1>4, <1>5, <2>1, StreamSpawned, Zenon DEF Inv
  <1>9. OutInv' /\ FrameInv' /\ LockInv'
    BY <1>1, <1>2, <1>3, Begun, Zenon DEF Spawn
  <1>10. RuntimeOutlivesConnections'
    BY <1>1, SameRuntime DEF Inv
  <1> QED BY <1>6, <1>7, <1>8, <1>9, <1>10 DEF Inv

\* A connection reads.
LEMMA ReadInv == ASSUME Inv, NEW p \in Peers, Read(p) PROVE Inv'
  <1>1. rt = "up" /\ kind = "tcp" /\ UNCHANGED rt
    BY DEF Inv, RuntimeOutlivesConnections, KindInv, Read, rtVars
  <1>2. PICK n \in arrived[p] + 1..Len(Stream[p]) : arrived' = [arrived EXCEPT ![p] = n]
    BY Zenon DEF Read
  <1>3. n \in Nat /\ n <= Len(Stream[p])
    BY StreamFacts DEF Inv, Values
  <1>4. Values'
    <2>1. arrived' \in [Peers -> Nat]
      BY <1>2, <1>3 DEF Inv, Values
    <2> QED BY <2>1 DEF Inv, Values, Read, config, poolVars, rtVars
  <1>5. KindInv'
    BY <1>1 DEF Inv, KindInv, Read, config
  <1>6. StreamInv'
    <2>1. \A d \in Peers : conn'[d] = "permit" => conn[d] = "permit"
      BY DEF Inv, Values, Read
    <2>2. \A d \in Peers : arrived'[d] <= Len(Stream[d])
      BY <1>2, <1>3 DEF Inv, Values, StreamInv
    <2> QED BY <2>1, <2>2, StreamKept DEF Inv, Read
  <1>7. OutInv' /\ FrameInv' /\ LockInv'
    BY <1>1, <1>4, Untouched DEF Read
  <1>8. RuntimeOutlivesConnections'
    BY <1>1, SameRuntime DEF Inv
  <1> QED BY <1>4, <1>5, <1>6, <1>7, <1>8 DEF Inv

\* A connection meets the end of its stream, or an error.
LEMMA ReadEndsInv == ASSUME Inv, NEW p \in Peers, Eof(p) \/ ReadFails(p) PROVE Inv'
  <1>1. /\ conn[p] # "none" /\ EndConnection(p) /\ UNCHANGED <<arrived, taken, broken, poolVars, lockq, out>>
    BY DEF Eof, ReadFails
  <1>2. StreamInv'
    <2>1. \A d \in Peers : conn'[d] = "permit" => conn[d] = "permit"
      BY <1>1 DEF Inv, Values, EndConnection
    <2>2. UNCHANGED task
      BY <1>1, Zenon DEF EndConnection
    <2> QED BY <1>1, <2>1, <2>2, StreamSame, Zenon
  <1>3. taken' \in [Peers -> Nat]
    BY <1>1 DEF Inv, Values
  <1> QED BY <1>1, <1>2, <1>3, EndConnectionInv

\* A peer resets its connection.
LEMMA ResetInv == ASSUME Inv, NEW p \in Peers, Reset(p) PROVE Inv'
  <1>1. Values'
    BY DEF Inv, Values, Reset, config, poolVars, rtVars
  <1>2. KindInv'
    BY DEF Inv, KindInv, Reset, config
  <1>3. StreamInv'
    BY StreamSame, Zenon DEF Reset
  <1>4. \A d \in Peers : broken[d] => broken'[d]
    BY DEF Inv, Values, Reset
  <1>5. OutInv' /\ FrameInv' /\ LockInv'
    BY <1>1, <1>4, Untouched DEF Reset, rtVars
  <1>6. RuntimeOutlivesConnections'
    BY SameRuntime DEF Inv, Reset, rtVars
  <1> QED BY <1>1, <1>2, <1>3, <1>5, <1>6 DEF Inv

-----------------------------------------------------------------------------
(* Requests of a connection *)

\* Position i of p's stream waits for its permit, has or had a task, or did not decode.
Kept(p, i) ==
    \/ conn[p] = "permit" /\ i = taken[p]
    \/ task[Stream[p][i]] # "none"
    \/ shape[Stream[p][i]] = "garbage"

\* A task that is done answered its request or gave it up, and none is cancelled while
\* the runtime is up.
Accounted(r) ==
    /\ task[r] = "done" => Answered(r) \/ GivenUp(r)
    /\ task[r] = "cancelled" => rt # "up"

\* Every request that was taken from a stream is kept, and every task accounts for its own.
AccountInv ==
    kind = "tcp" =>
        /\ \A p \in Peers : \A i \in 1..taken[p] : Kept(p, i)
        /\ \A r \in Requests : Accounted(r)

\* What the account is about: a request of each position taken.
LEMMA TakenRequest ==
    ASSUME Inv, NEW p \in Peers, NEW i \in 1..taken[p]
    PROVE  i \in 1..Len(Stream[p]) /\ Stream[p][i] \in Requests
  <1>1. taken[p] <= Len(Stream[p])
    BY Zenon DEF Inv, StreamInv
  <1>2. taken[p] \in Nat
    BY DEF Inv, Values
  <1>3. i \in 1..Len(Stream[p])
    BY <1>1, <1>2, StreamFacts
  <1> QED BY <1>3, StreamFacts, Zenon

\* A request is given up for good.
LEMMA GivenUpStays ==
    ASSUME UNCHANGED shape, \A p \in Peers : broken[p] => broken'[p], NEW r \in Requests, GivenUp(r)
    PROVE  GivenUp(r)'
  <1>1. From[r] \in Peers
    BY ServerAssumption
  <1> QED BY <1>1 DEF GivenUp

\* A step that takes no request, writes nothing and ends no task.
LEMMA AccountSame ==
    ASSUME AccountInv, UNCHANGED <<config, taken, task, out>>,
           \A p \in Peers : broken[p] => broken'[p],
           \A p \in Peers : conn[p] = "permit" => conn'[p] = "permit",
           rt' = "up" => rt = "up"
    PROVE  AccountInv'
  <1>1. UNCHANGED <<kind, shape>> /\ taken' = taken /\ task' = task /\ out' = out
    BY Zenon DEF config
  <1>2. ASSUME NEW p \in Peers, NEW i, Kept(p, i) PROVE Kept(p, i)'
    BY <1>1, <1>2, Zenon DEF Kept
  <1>3. ASSUME NEW r \in Requests, Accounted(r) PROVE Accounted(r)'
    <2>1. Answered(r) => Answered(r)'
      BY <1>1, Zenon DEF Answered
    <2>2. GivenUp(r) => GivenUp(r)'
      BY <1>1, GivenUpStays
    <2> QED BY <1>1, <1>3, <2>1, <2>2, Zenon DEF Accounted
  <1> QED BY <1>1, <1>2, <1>3, Zenon DEF AccountInv

\* A request is taken off the stream of its connection, and waits or ends it.
LEMMA AccountDecode == ASSUME Inv, AccountInv, NEW p \in Peers, Decode(p) PROVE AccountInv'
  <1>1. UNCHANGED <<config, task, out, broken>> /\ conn[p] = "decode" /\ (rt' = "up" => rt = "up")
    BY Zenon DEF Decode, EndConnection, GuardDropped, rtVars
  <1>2. DOMAIN conn = Peers /\ DOMAIN taken = Peers /\ taken[p] \in Nat
    BY DEF Inv, Values
  <1>3. CASE UNCHANGED taken
    <2>1. conn' = [conn EXCEPT ![p] = "read"]
      BY <1>2, <1>3 DEF Decode
    <2> QED BY <1>1, <1>2, <1>3, <2>1, AccountSame
  <1>4. CASE taken' = [taken EXCEPT ![p] = @ + 1]
    <2>1. \A e : conn' = [conn EXCEPT ![p] = e] => \A q \in Peers : conn'[q] = IF q = p THEN e ELSE conn[q]
      BY <1>2
    <2>2. conn' = [conn EXCEPT ![p] = "ended"] \/ conn' = [conn EXCEPT ![p] = "permit"] \/ UNCHANGED taken
      BY Zenon DEF Decode, EndConnection
    <2>3. taken'[p] = taken[p] + 1 /\ \A q \in Peers : q # p => taken'[q] = taken[q]
      BY <1>2, <1>4
    <2>4. taken' # taken
      BY <1>2, <2>3
    <2>5. \A q \in Peers : q # p => conn'[q] = conn[q]
      BY <2>1, <2>2, <2>4
    <2>6. shape[Stream[p][taken'[p]]] = "garbage" \/ conn'[p] = "permit"
      <3>1. shape[Stream[p][taken[p] + 1]] = "garbage" \/ conn' = [conn EXCEPT ![p] = "permit"]
        BY <2>4, Zenon DEF Decode
      <3> QED BY <2>1, <2>3, <3>1
    <2>7. UNCHANGED <<kind, shape>> /\ task' = task /\ out' = out /\ broken' = broken
      BY <1>1, Zenon DEF config
    <2>8. ASSUME kind = "tcp", NEW q \in Peers, NEW i \in 1..taken'[q]
          PROVE  Kept(q, i)'
      <3>1. CASE q = p /\ i = taken'[p]
        BY <2>6, <2>7, <3>1, Zenon DEF Kept
      <3>2. CASE q = p /\ i # taken'[p]
        <4>1. i \in 1..taken[p]
          BY <1>2, <2>3, <3>2
        <4>2. Kept(p, i) /\ conn[p] # "permit"
          BY <1>1, <2>8, <4>1, Zenon DEF AccountInv
        <4> QED BY <2>7, <3>2, <4>2, Zenon DEF Kept
      <3>3. CASE q # p
        <4>1. taken'[q] = taken[q] /\ conn'[q] = conn[q]
          BY <2>3, <2>5, <3>3, Zenon
        <4>2. Kept(q, i)
          BY <2>8, <4>1, Zenon DEF AccountInv
        <4> QED BY <2>7, <4>1, <4>2, Zenon DEF Kept
      <3> QED BY <3>1, <3>2, <3>3, Zenon
    <2>9. ASSUME NEW r \in Requests, Accounted(r) PROVE Accounted(r)'
      BY <1>1, <2>7, <2>9, Zenon DEF Accounted, Answered, GivenUp
    <2> QED BY <2>7, <2>8, <2>9, Zenon DEF AccountInv
  <1> QED BY <1>3, <1>4, Zenon DEF Decode

\* The waiting request gets its task.
LEMMA AccountSpawn == ASSUME Inv, AccountInv, NEW p \in Peers, Spawn(p) PROVE AccountInv'
  <1> DEFINE s == Stream[p][taken[p]]
  <1>1. s \in Requests /\ conn[p] = "permit"
    BY WaitingFresh, Zenon DEF Spawn
  <1>2. task' = [task EXCEPT ![s] = "spawned"] /\ conn' = [conn EXCEPT ![p] = "decode"]
    BY Zenon DEF Spawn
  <1>3. UNCHANGED <<kind, shape>> /\ taken' = taken /\ broken' = broken /\ out' = out /\ rt' = rt
    BY Zenon DEF Spawn, rtVars, config
  <1>4. DOMAIN task = Requests /\ DOMAIN conn = Peers
    BY DEF Inv, Values
  <1>5. task'[s] = "spawned" /\ \A r \in Requests : r # s => task'[r] = task[r]
    BY <1>1, <1>2, <1>4
  <1>6. \A q \in Peers : q # p => conn'[q] = conn[q]
    BY <1>2, <1>4
  <1>7. ASSUME kind = "tcp", NEW q \in Peers, NEW i \in 1..taken[q]
        PROVE  Kept(q, i)'
    <2>1. Kept(q, i) /\ Stream[q][i] \in Requests
      BY <1>7, TakenRequest, Zenon DEF AccountInv
    <2>2. CASE Stream[q][i] = s
      BY <1>5, <2>2 DEF Kept
    <2>3. CASE Stream[q][i] # s
      <3>1. task'[Stream[q][i]] = task[Stream[q][i]] /\ ~(q = p /\ i = taken[p])
        BY <1>5, <2>1, <2>3, Zenon
      <3> QED BY <1>3, <1>6, <2>1, <3>1, Zenon DEF Kept
    <2> QED BY <2>2, <2>3, Zenon
  <1>8. ASSUME NEW r \in Requests, Accounted(r) PROVE Accounted(r)'
    <2>1. (Answered(r) => Answered(r)') /\ (GivenUp(r) => GivenUp(r)')
      BY <1>3, Zenon DEF Answered, GivenUp
    <2>2. CASE task'[r] = "spawned"
      BY <2>2 DEF Accounted
    <2>3. CASE task'[r] = task[r]
      BY <1>3, <1>8, <2>1, <2>3, Zenon DEF Accounted
    <2> QED BY <1>5, <2>2, <2>3, Zenon
  <1> QED BY <1>3, <1>7, <1>8, Zenon DEF AccountInv

\* The steps of connections and peers.
LEMMA AccountConn == ASSUME Inv, AccountInv, NEW p \in Peers, ConnStep(p) \/ PeerEvent(p) PROVE AccountInv'
  <1>1. CASE Receive(p) \/ Lose(p)
    <2>1. (loop = "recv" \/ kind = "udp") /\ UNCHANGED config
      BY <1>1, Zenon DEF Receive, Lose
    <2>2. kind = "udp" /\ kind' = kind
      BY <2>1 DEF Inv, KindInv, config
    <2> QED BY <2>2 DEF AccountInv
  <1>2. CASE Accept(p) \/ Read(p) \/ Eof(p) \/ ReadFails(p) \/ Reset(p)
    <2>1. UNCHANGED <<config, taken, task, out>> /\ (rt' = "up" => rt = "up")
      BY <1>2, Zenon DEF Accept, Read, Eof, ReadFails, Reset, EndConnection, GuardDropped, rtVars
    <2>2. \/ conn' = [conn EXCEPT ![p] = "decode"] /\ conn[p] \in {"none", "read"}
          \/ conn' = [conn EXCEPT ![p] = "ended"] /\ conn[p] = "read"
          \/ conn' = conn
      BY <1>2 DEF Accept, Read, Eof, ReadFails, Reset, EndConnection
    <2>3. broken' = broken \/ broken' = [broken EXCEPT ![p] = TRUE]
      BY <1>2, Zenon DEF Accept, Read, Eof, ReadFails, Reset
    <2>4. DOMAIN conn = Peers /\ DOMAIN broken = Peers
      BY DEF Inv, Values
    <2>5. \A q \in Peers : conn[q] = "permit" => conn'[q] = "permit"
      BY <2>2, <2>4
    <2>6. \A q \in Peers : broken[q] => broken'[q]
      BY <2>3, <2>4
    <2> QED BY <2>1, <2>5, <2>6, AccountSame, Zenon
  <1> QED BY <1>1, <1>2, AccountDecode, AccountSpawn, Zenon DEF ConnStep, PeerEvent

=============================================================================
