------------------------ MODULE OwnedTransportProofs ------------------------
(***************************************************************************)
(* Type correctness of OwnedTransport, then its inductive invariant, kept  *)
(* by the callers, by State::fail, by the reader and by the application,   *)
(* and what follows from it: the registry, hand-over and outcome           *)
(* properties, for any set of calls and any XIDs.                          *)
(***************************************************************************)
EXTENDS OwnedTransport, TLAPS

-----------------------------------------------------------------------------
(* Steps of a future, in groups *)

\* The steps of a future that concern its frame, its stop or its timers.
Quiet(c) ==
    \/ AbandonLock(c) \/ LockWriter(c) \/ CheckOpen(c) \/ WriteSome(c) \/ WriteDone(c)
    \/ InterruptWrite(c) \/ Unwind(c) \/ InterruptAwait(c) \/ DropFuture(c) \/ DropUnwind(c)
    \/ Cancel(c) \/ Deadline(c)

\* They touch neither the senders nor the connection.
LEMMA QuietFrame ==
  ASSUME NEW c \in Calls, Quiet(c)
  PROVE  UNCHANGED <<holder, chan, result, lease, failVars, readerVars, ownerVars>>
  BY Zenon DEF Quiet, AbandonLock, LockWriter, CheckOpen, WriteSome, WriteDone, InterruptWrite, Unwind,
     InterruptAwait, DropFuture, DropUnwind, Cancel, Deadline, replyVars

\* A future that does not move, or that moves within its time in the registry.
Within(c) ==
    /\ pc[c] \in ActivePhases \cup {"admitted"}
    /\ UNCHANGED pc \/ (pc[c] \in ActivePhases /\ \E st \in ActivePhases : pc' = [pc EXCEPT ![c] = st])

\* None of them ends the call.
LEMMA QuietWithin == ASSUME NEW c \in Calls, Quiet(c) PROVE Within(c)
<1>1. CASE AbandonLock(c) \/ LockWriter(c) \/ CheckOpen(c) \/ InterruptWrite(c) \/ InterruptAwait(c) \/ DropFuture(c)
  <2>1. PICK st \in {"locked", "write", "stopW", "stopS", "stopA", "stopD"} : pc' = [pc EXCEPT ![c] = st]
    BY <1>1, Zenon DEF AbandonLock, LockWriter, CheckOpen, InterruptWrite, InterruptAwait, DropFuture, StopCall
  <2>2. pc[c] \in {"lock", "locked", "write", "await", "stopwait"}
    BY <1>1, Zenon DEF AbandonLock, LockWriter, CheckOpen, InterruptWrite, InterruptAwait, DropFuture
  <2> QED
    BY <2>1, <2>2, Zenon DEF Within, ActivePhases, WriterPhases
<1>2. CASE WriteDone(c) \/ Unwind(c) \/ DropUnwind(c)
  <2>1. PICK st \in {"await", "stopS", "stopD"} : pc' = [pc EXCEPT ![c] = st]
    BY <1>2, Zenon DEF WriteDone, Unwind, DropUnwind, StopCall
  <2>2. pc[c] \in {"write", "finish", "unwind", "failing", "dropUnwind", "dropFailing"}
    BY <1>2, Zenon DEF WriteDone, Unwind, DropUnwind
  <2> QED
    BY <2>1, <2>2, Zenon DEF Within, ActivePhases, WriterPhases
<1>3. CASE WriteSome(c) \/ Cancel(c) \/ Deadline(c)
  BY <1>3, Zenon DEF WriteSome, Cancel, Deadline, Within, ActivePhases, WriterPhases
<1> QED
  BY <1>1, <1>2, <1>3, Zenon DEF Quiet

\* The steps in which a future finds that its frame cannot be written.
Breaks(c) == WriteError(c) \/ WriteClosed(c) \/ WriteTimeout(c) \/ DropWriting(c)

\* At most they fail the connection.
LEMMA BreakFrame ==
  ASSUME NEW c \in Calls, Breaks(c)
  PROVE  /\ UNCHANGED <<wrote, terminal, chan, result, lease, writer, readerVars, aborted, ownerVars>>
         /\ \E e : e # "none" /\ (Fail(e) \/ UNCHANGED <<failVars, holder>>)
  BY Zenon DEF Breaks, WriteError, WriteClosed, WriteTimeout, DropWriting, WriteFailed

\* They do not end the call either.
LEMMA BreakWithin == ASSUME NEW c \in Calls, Breaks(c) PROVE Within(c)
<1>1. PICK st \in {"unwind", "failing", "dropUnwind", "dropFailing"} : pc' = [pc EXCEPT ![c] = st]
  BY Zenon DEF Breaks, WriteError, WriteClosed, WriteTimeout, DropWriting, WriteFailed, AfterFail
<1>2. pc[c] \in {"write", "finish"}
  BY Zenon DEF Breaks, WriteError, WriteClosed, WriteTimeout, DropWriting, WriteFailed
<1> QED
  BY <1>1, <1>2, Zenon DEF Within, ActivePhases, WriterPhases

-----------------------------------------------------------------------------
(* Types, part by part *)

CallTypes ==
    /\ pc \in [Calls -> Phases]
    /\ err \in [Calls -> Errors \cup {"none"}]
    /\ intr \in [Calls -> SUBSET Interrupts]
    /\ wrote \in [Calls -> {"none", "part", "all"}]

ReplyTypes ==
    /\ terminal \in [Calls -> Errors \cup {"none", "ok"}]
    /\ chan \in [Calls -> {"empty", "sent", "closed"}]
    /\ result \in [Calls -> Errors \cup {"none", "ok"}]

HolderType == holder \in [Calls -> Holders]

LeaseType == lease \in [Calls -> SUBSET {"future", "target"}]

FailTypes ==
    /\ entry \in [Xids -> Calls \cup {NoCall}]
    /\ closed \in ConnectionErrors \cup {"none"}
    /\ admitting \in BOOLEAN
    /\ job \in {"idle", "admission", "pending", "done"}
    /\ todo \in SUBSET Calls
    /\ failing \in Calls \cup {NoCall}

ReaderTypes ==
    /\ rpc \in ReaderPhases
    /\ rtoken \in Calls \cup {NoCall}
    /\ rpc \in {"recv", "permit"} => rtoken # NoCall
    /\ rerr \in {"none", "Transport"}

OwnerTypes ==
    /\ writer \in BOOLEAN
    /\ aborted \in BOOLEAN
    /\ closer \in {"idle", "failing", "abort", "done"}
    /\ handle \in BOOLEAN
    /\ alive \in BOOLEAN

\* The type invariant is the conjunction of its parts.
LEMMA TypeParts ==
  TypeOK <=> CallTypes /\ ReplyTypes /\ HolderType /\ LeaseType /\ FailTypes /\ ReaderTypes /\ OwnerTypes
  BY Zenon DEF TypeOK, CallTypes, ReplyTypes, HolderType, LeaseType, FailTypes, ReaderTypes, OwnerTypes

\* So it is in the next state.
LEMMA PartsNext ==
  CallTypes' /\ ReplyTypes' /\ HolderType' /\ LeaseType' /\ FailTypes' /\ ReaderTypes' /\ OwnerTypes' => TypeOK'
  BY Zenon DEF TypeOK, CallTypes, ReplyTypes, HolderType, LeaseType, FailTypes, ReaderTypes, OwnerTypes

\* A part whose variables do not change.
LEMMA TypesKept ==
  /\ CallTypes /\ UNCHANGED callVars => CallTypes'
  /\ ReplyTypes /\ UNCHANGED <<terminal, chan, result>> => ReplyTypes'
  /\ HolderType /\ UNCHANGED holder => HolderType'
  /\ LeaseType /\ UNCHANGED lease => LeaseType'
  /\ FailTypes /\ UNCHANGED failVars => FailTypes'
  /\ ReaderTypes /\ UNCHANGED readerVars => ReaderTypes'
  /\ OwnerTypes /\ UNCHANGED <<writer, aborted, ownerVars>> => OwnerTypes'
<1>1. CallTypes /\ UNCHANGED callVars => CallTypes'
  BY Zenon DEF CallTypes, callVars
<1>2. ReplyTypes /\ UNCHANGED <<terminal, chan, result>> => ReplyTypes'
  BY Zenon DEF ReplyTypes
<1>3. (HolderType /\ UNCHANGED holder => HolderType') /\ (LeaseType /\ UNCHANGED lease => LeaseType')
  BY Zenon DEF HolderType, LeaseType
<1>4. FailTypes /\ UNCHANGED failVars => FailTypes'
  BY Zenon DEF FailTypes, failVars
<1>5. ReaderTypes /\ UNCHANGED readerVars => ReaderTypes'
  BY Zenon DEF ReaderTypes, readerVars
<1>6. OwnerTypes /\ UNCHANGED <<writer, aborted, ownerVars>> => OwnerTypes'
  BY Zenon DEF OwnerTypes, ownerVars
<1> QED
  BY <1>1, <1>2, <1>3, <1>4, <1>5, <1>6, Zenon

\* A function that changes at one point.
LEMMA PointType ==
  ASSUME NEW S, NEW T, NEW f \in [S -> T], NEW c \in S, NEW x \in T
  PROVE  [f EXCEPT ![c] = x] \in [S -> T]
  OBVIOUS

\* Dropping a clone of a permit keeps the type of the leases.
LEMMA DroppedType == ASSUME LeaseType, NEW S, lease' = Dropped(S, "target") PROVE LeaseType'
  BY DEF LeaseType, Dropped

\* Deliver keeps the types of what it assigns, whoever delivers.
LEMMA DeliverType ==
  ASSUME ReplyTypes, HolderType, NEW c \in Calls, NEW r \in Errors \cup {"none", "ok"}, Deliver(c, r)
  PROVE  ReplyTypes' /\ HolderType'
  BY DEF ReplyTypes, HolderType, Deliver, FinishDecision, FinishResult, Holders

\* So does the first critical section of State::fail.
LEMMA FailType ==
  ASSUME FailTypes, HolderType, NEW e \in ConnectionErrors \cup {"none"}, Fail(e)
  PROVE  FailTypes' /\ HolderType'
<1>1. CASE closed = "none"
  <2>1. admitting' \in BOOLEAN
    BY <1>1, Zenon DEF Fail, FailTypes
  <2> QED
    BY <1>1, <2>1 DEF Fail, FailTypes, HolderType, Holders
<1>2. CASE closed # "none"
  BY <1>2, TypesKept, Zenon DEF Fail
<1> QED
  BY <1>1, <1>2

\* The errors a future may stop with.
LEMMA StopReasons ==
  ASSUME FailTypes, NEW c \in Calls
  PROVE  Interruption(c) \in Errors /\ LockErrors(c) \subseteq Errors /\ (closed # "none" => closed \in Errors)
  BY DEF FailTypes, Interruption, LockErrors, Errors, Interrupts, ConnectionErrors

\* PendingCall::stop begins.
LEMMA StopType ==
  ASSUME CallTypes, ReplyTypes, NEW c \in Calls, NEW e \in Errors, NEW p \in Phases, StopCall(c, e, p),
         UNCHANGED <<intr, wrote, chan, result>>
  PROVE  CallTypes' /\ ReplyTypes'
  BY DEF CallTypes, ReplyTypes, StopCall, Stop

\* The steps of a future keep the types,
LEMMA CallTyped == ASSUME TypeOK, NEW c \in Calls, CallStep(c) \/ CallEvent(c) PROVE TypeOK'
<1>1. CallTypes /\ ReplyTypes /\ HolderType /\ LeaseType /\ FailTypes /\ ReaderTypes /\ OwnerTypes
  BY TypeParts, Zenon
<1>2. ASSUME UNCHANGED <<closer, handle, alive>>, ReleaseFrame PROVE OwnerTypes'
  BY <1>1, <1>2, Zenon DEF OwnerTypes, ReleaseFrame
<1>3. CASE Quiet(c)
  <2>1. HolderType' /\ LeaseType' /\ FailTypes' /\ ReaderTypes' /\ UNCHANGED <<chan, result>>
    BY <1>1, <1>3, QuietFrame, TypesKept, Zenon
  <2>2. OwnerTypes'
    <3>1. UNCHANGED <<writer, aborted, ownerVars>> \/ (ReleaseFrame /\ UNCHANGED ownerVars)
      BY <1>3, Zenon DEF Quiet, AbandonLock, LockWriter, CheckOpen, WriteSome, WriteDone, InterruptWrite, Unwind,
         InterruptAwait, DropFuture, DropUnwind, Cancel, Deadline
    <3> QED
      BY <1>1, <1>2, <3>1, TypesKept, Zenon DEF ownerVars
  <2>3. CASE WriteSome(c) \/ Cancel(c) \/ Deadline(c)
    <3>1. UNCHANGED <<pc, err, terminal>>
      BY <2>3, Zenon DEF WriteSome, Cancel, Deadline, replyVars
    <3>2. intr' \in [Calls -> SUBSET Interrupts] /\ wrote' \in [Calls -> {"none", "part", "all"}]
      BY <1>1, <2>3 DEF WriteSome, Cancel, Deadline, CallTypes, Interrupts
    <3>3. CallTypes' /\ ReplyTypes'
      BY <1>1, <2>1, <3>1, <3>2, Zenon DEF CallTypes, ReplyTypes
    <3> QED
      BY <2>1, <2>2, <3>3, PartsNext, Zenon
  <2>4. CASE LockWriter(c) \/ WriteDone(c) \/ (CheckOpen(c) /\ closed = "none" /\ writer)
    <3>1. UNCHANGED <<err, intr, wrote, terminal>>
      BY <2>4, Zenon DEF LockWriter, WriteDone, CheckOpen, replyVars
    <3>2. \E st \in Phases : pc' = [pc EXCEPT ![c] = st]
      BY <2>4, Zenon DEF LockWriter, WriteDone, CheckOpen, Phases, ActivePhases, WriterPhases
    <3>3. CallTypes' /\ ReplyTypes'
      BY <1>1, <2>1, <3>1, <3>2 DEF CallTypes, ReplyTypes
    <3> QED
      BY <2>1, <2>2, <3>3, PartsNext, Zenon
  <2>5. CASE \/ AbandonLock(c) \/ InterruptWrite(c) \/ InterruptAwait(c) \/ DropFuture(c) \/ DropUnwind(c)
             \/ (CheckOpen(c) /\ ~(closed = "none" /\ writer))
    <3>1. "Cancelled" \in Errors /\ "ConnectionClosed" \in Errors /\ {"stopS", "stopW", "stopA", "stopD"} \subseteq Phases
      BY DEF Errors, Interrupts, ConnectionErrors, Phases, ActivePhases, WriterPhases
    <3>2. PICK e \in Errors, p \in {"stopS", "stopW", "stopA", "stopD"} : StopCall(c, e, p)
      BY <1>1, <2>5, <3>1, StopReasons, Zenon
      DEF AbandonLock, InterruptWrite, InterruptAwait, DropFuture, DropUnwind, CheckOpen
    <3>3. UNCHANGED <<intr, wrote>>
      BY <2>5, Zenon DEF AbandonLock, InterruptWrite, InterruptAwait, DropFuture, DropUnwind, CheckOpen
    <3>4. CallTypes' /\ ReplyTypes'
      BY <1>1, <2>1, <3>1, <3>2, <3>3, StopType, Zenon
    <3> QED
      BY <2>1, <2>2, <3>4, PartsNext, Zenon
  <2>6. CASE Unwind(c)
    <3>1. StopCall(c, err[c], "stopS") /\ UNCHANGED <<intr, wrote>>
      BY <2>6, Zenon DEF Unwind
    <3>2. CallTypes' /\ ReplyTypes'
      BY <1>1, <2>1, <3>1 DEF StopCall, Stop, CallTypes, ReplyTypes, Phases, ActivePhases, WriterPhases
    <3> QED
      BY <2>1, <2>2, <3>2, PartsNext, Zenon
  <2> QED
    BY <1>3, <2>3, <2>4, <2>5, <2>6, Zenon DEF Quiet
<1>4. CASE Breaks(c)
  <2>1. ReplyTypes' /\ LeaseType' /\ ReaderTypes' /\ OwnerTypes' /\ UNCHANGED wrote
    BY <1>1, <1>4, BreakFrame, TypesKept, Zenon
  <2>2. UNCHANGED intr /\ (UNCHANGED err \/ \E e \in ConnectionErrors : err' = [err EXCEPT ![c] = e])
    BY <1>1, <1>4 DEF Breaks, WriteError, WriteClosed, WriteTimeout, DropWriting, WriteFailed, FailTypes, ConnectionErrors
  <2>3. UNCHANGED <<failVars, holder>> \/ \E e \in ConnectionErrors : Fail(e)
    BY <1>1, <1>4 DEF Breaks, WriteError, WriteClosed, WriteTimeout, DropWriting, WriteFailed, FailTypes, ConnectionErrors
  <2>4. FailTypes' /\ HolderType'
    BY <1>1, <2>3, FailType, TypesKept, Zenon
  <2>5. pc' \in [Calls -> Phases]
    <3>1. UNCHANGED pc \/ \E st \in ActivePhases : pc' = [pc EXCEPT ![c] = st]
      BY <1>4, BreakWithin, Zenon DEF Within
    <3>2. pc \in [Calls -> Phases] /\ ActivePhases \subseteq Phases
      BY <1>1, Zenon DEF CallTypes, Phases
    <3> QED
      BY <3>1, <3>2
  <2>6. err' \in [Calls -> Errors \cup {"none"}]
    <3>1. err \in [Calls -> Errors \cup {"none"}] /\ ConnectionErrors \subseteq Errors
      BY <1>1, Zenon DEF CallTypes, Errors
    <3> QED
      BY <2>2, <3>1
  <2>7. CallTypes'
    BY <1>1, <2>1, <2>2, <2>5, <2>6, Zenon DEF CallTypes
  <2> QED
    BY <2>1, <2>4, <2>7, PartsNext, Zenon
<1>5. CASE TryCall(c) \/ DropUnpolled(c) \/ Register(c)
  <2>1. /\ UNCHANGED <<err, intr, wrote, terminal, chan, closed, admitting, job, todo, failing>>
        /\ ReaderTypes' /\ OwnerTypes'
    BY <1>1, <1>5, TypesKept, Zenon DEF TryCall, DropUnpolled, Register, failVars
  <2>2. \E st \in Phases : pc' = [pc EXCEPT ![c] = st]
    BY <1>5, Zenon DEF TryCall, DropUnpolled, Register, Phases, ActivePhases, WriterPhases
  <2>3. CallTypes'
    BY <1>1, <2>1, <2>2 DEF CallTypes
  <2>4. LeaseType'
    BY <1>1, <1>5 DEF TryCall, DropUnpolled, Register, LeaseType
  <2>5. RegisterError(c) \in Errors \cup {"none"}
    BY <1>1 DEF RegisterError, FailTypes, Errors
  <2>6. result' = result \/ result' = [result EXCEPT ![c] = RegisterError(c)]
    BY <1>5, Zenon DEF TryCall, DropUnpolled, Register
  <2>7. ReplyTypes'
    BY <1>1, <2>1, <2>5, <2>6 DEF ReplyTypes
  <2>8. entry' = entry \/ entry' = [entry EXCEPT ![XidOf[c]] = c]
    BY <1>5, Zenon DEF TryCall, DropUnpolled, Register, failVars
  <2>9. FailTypes'
    BY <1>1, <2>1, <2>8, ConstantsAssumption DEF FailTypes
  <2>10. HolderType'
    BY <1>1, <1>5 DEF TryCall, DropUnpolled, Register, HolderType, Holders
  <2> QED
    BY <2>1, <2>3, <2>4, <2>7, <2>9, <2>10, PartsNext, Zenon
<1>6. CASE Detach(c) \/ Return(c)
  <2>1. UNCHANGED <<wrote, closed, admitting, job, todo, failing>> /\ ReaderTypes' /\ OwnerTypes'
    BY <1>1, <1>6, TypesKept, Zenon DEF Detach, Return
  <2>2. CallTypes'
    <3>1. CASE Detach(c)
      <4>1. AfterStop(c) \in Phases
        BY <3>1 DEF Detach, AfterStop, Phases, ActivePhases, WriterPhases
      <4>2. pc' \in [Calls -> Phases]
        BY <1>1, <3>1, <4>1, PointType, Zenon DEF Detach, CallTypes
      <4>3. err' \in [Calls -> Errors \cup {"none"}] /\ intr' \in [Calls -> SUBSET Interrupts]
        BY <1>1, <3>1 DEF Detach, CallTypes
      <4> QED
        BY <1>1, <2>1, <4>2, <4>3, Zenon DEF CallTypes
    <3>2. CASE Return(c)
      BY <1>1, <2>1, <3>2 DEF Return, CallTypes, Phases
    <3> QED
      BY <1>6, <3>1, <3>2
  <2>3. LeaseType'
    BY <1>1, <1>6 DEF Detach, Return, LeaseType
  <2>4. entry' = entry \/ entry' = [entry EXCEPT ![XidOf[c]] = NoCall]
    BY <1>6, Zenon DEF Detach, Return, Unregistered
  <2>5. FailTypes'
    BY <1>1, <2>1, <2>4, PointType, Zenon DEF FailTypes
  <2>6. ReplyTypes' /\ HolderType'
    <3>1. CASE Detach(c)
      <4>1. err[c] \in Errors \cup {"none", "ok"}
        BY <1>1 DEF CallTypes
      <4> QED
        BY <1>1, <3>1, <4>1, DeliverType, TypesKept, Zenon DEF Detach
    <3>2. CASE Return(c)
      <4>1. UNCHANGED <<chan, holder>>
        BY <3>2, Zenon DEF Return
      <4> QED
        BY <1>1, <3>2, <4>1 DEF Return, Stop, ReplyTypes, HolderType, Errors, Interrupts, ConnectionErrors
    <3> QED
      BY <1>6, <3>1, <3>2
  <2> QED
    BY <2>1, <2>2, <2>3, <2>5, <2>6, PartsNext, Zenon
<1> QED
  BY <1>3, <1>4, <1>5, <1>6, Zenon DEF CallStep, CallEvent, Quiet, Breaks

\* so do those of State::fail,
LEMMA FailTyped == ASSUME TypeOK, FailStep PROVE TypeOK'
<1>1. CallTypes /\ ReplyTypes /\ HolderType /\ LeaseType /\ FailTypes /\ ReaderTypes /\ OwnerTypes
  BY TypeParts, Zenon
<1>2. CallTypes' /\ ReaderTypes' /\ OwnerTypes'
  BY <1>1, TypesKept, Zenon DEF FailStep, FailAdmission, FailCall, FailPermit, FailDone
<1>3. FailTypes'
  <2>1. UNCHANGED <<entry, closed>>
    BY Zenon DEF FailStep, FailAdmission, FailCall, FailPermit, FailDone
  <2>2. admitting' \in BOOLEAN
    BY <1>1, Zenon DEF FailStep, FailAdmission, FailCall, FailPermit, FailDone, FailTypes
  <2>3. todo' \in SUBSET Calls /\ failing' \in Calls \cup {NoCall} /\ job' \in {"idle", "admission", "pending", "done"}
    BY <1>1 DEF FailStep, FailAdmission, FailCall, FailPermit, FailDone, FailTypes
  <2> QED
    BY <1>1, <2>1, <2>2, <2>3, Zenon DEF FailTypes
<1>4. LeaseType'
  BY <1>1, TypesKept, DroppedType, Zenon DEF FailStep, FailAdmission, FailCall, FailPermit, FailDone, replyVars
<1>5. CASE FailAdmission \/ FailPermit \/ FailDone
  BY <1>1, <1>2, <1>3, <1>4, <1>5, TypesKept, PartsNext, Zenon DEF FailAdmission, FailPermit, FailDone, replyVars
<1>6. ASSUME NEW c \in Calls, FailCall(c) PROVE ReplyTypes' /\ HolderType'
  <2>1. closed \in Errors \cup {"none"}
    BY <1>1 DEF FailTypes, Errors
  <2> QED
    BY <1>1, <1>6, <2>1 DEF FailCall, Stop, FinishResult, ReplyTypes, HolderType, Holders
<1> QED
  BY <1>2, <1>3, <1>4, <1>5, <1>6, PartsNext, Zenon DEF FailStep

\* and those of the reader and of the owner.
LEMMA ReaderTyped == ASSUME TypeOK, ReaderStep \/ ReaderUnwinds \/ ReaderEvent \/ OwnerStep PROVE TypeOK'
<1>1. CallTypes /\ ReplyTypes /\ HolderType /\ LeaseType /\ FailTypes /\ ReaderTypes /\ OwnerTypes
  BY TypeParts, Zenon
<1>2. CASE ReceiveReply \/ ReceiveFailed \/ ReceiveOverflow \/ ReceiveStopped
  <2>1. CallTypes' /\ LeaseType' /\ FailTypes' /\ OwnerTypes'
    BY <1>1, <1>2, TypesKept, Zenon DEF ReceiveReply, ReceiveFailed, ReceiveOverflow, ReceiveStopped, Receive
  <2>2. rpc = "recv" /\ rpc' = "permit" /\ rtoken' = rtoken /\ rerr' \in {rerr, "Transport"}
    BY <1>2, Zenon DEF ReceiveReply, ReceiveFailed, ReceiveOverflow, ReceiveStopped, Receive
  <2>3. rtoken \in Calls /\ ReaderTypes'
    BY <1>1, <2>2 DEF ReaderTypes, ReaderPhases
  <2>4. PICK r \in {"ok", "Transport", "Capacity", terminal[rtoken]} : Deliver(rtoken, r)
    BY <1>2, Zenon DEF ReceiveReply, ReceiveFailed, ReceiveOverflow, ReceiveStopped, Receive
  <2>5. r \in Errors \cup {"none", "ok"}
    BY <1>1, <2>3 DEF ReplyTypes, Errors, ConnectionErrors
  <2> QED
    BY <1>1, <2>1, <2>3, <2>4, <2>5, DeliverType, PartsNext, Zenon
<1>3. CASE ReadError \/ DropPermit \/ Drain \/ ReaderLocks
  <2>1. CallTypes' /\ ReplyTypes' /\ HolderType' /\ FailTypes' /\ OwnerTypes'
    BY <1>1, <1>3, TypesKept, Zenon DEF ReadError, DropPermit, Drain, ReaderLocks, replyVars
  <2>2. LeaseType'
    BY <1>1, <1>3, TypesKept, DroppedType, Zenon DEF ReadError, DropPermit, Drain, ReaderLocks, replyVars
  <2>3. /\ rpc' \in {"fail", "drain", "cleanup", "lockwait"} /\ rtoken' = rtoken
        /\ rerr' \in {"none", "Transport"}
    BY <1>1, <1>3 DEF ReadError, DropPermit, Drain, ReaderLocks, ReaderTypes
  <2>4. ReaderTypes'
    BY <1>1, <2>3 DEF ReaderTypes, ReaderPhases
  <2> QED
    BY <2>1, <2>2, <2>4, PartsNext, Zenon
<1>4. CASE ReaderTakesWriter \/ ReaderExited
  <2>1. CallTypes' /\ ReplyTypes' /\ HolderType' /\ LeaseType' /\ FailTypes'
    BY <1>1, <1>4, TypesKept, Zenon DEF ReaderTakesWriter, ReaderExited, replyVars
  <2>2. OwnerTypes'
    BY <1>1, <1>4, Zenon DEF ReaderTakesWriter, ReaderExited, TryTakeWriter, OwnerTypes, ownerVars
  <2>3. rpc' \in {"exit", "exited"} /\ rtoken' = rtoken /\ rerr' = rerr
    BY <1>4, Zenon DEF ReaderTakesWriter, ReaderExited
  <2>4. ReaderTypes'
    BY <1>1, <2>3 DEF ReaderTypes, ReaderPhases
  <2> QED
    BY <2>1, <2>2, <2>4, PartsNext, Zenon
<1>5. CASE Cleanup
  <2>1. CallTypes' /\ ReplyTypes' /\ HolderType' /\ LeaseType' /\ OwnerTypes'
    BY <1>1, <1>5, TypesKept, Zenon DEF Cleanup, replyVars
  <2>2. UNCHANGED <<closed, admitting, job, todo, failing>> /\ (entry' = entry \/ \E x : entry' = [entry EXCEPT ![x] = NoCall])
    BY <1>5, Zenon DEF Cleanup, ReaderForgets, Unregistered
  <2>3. FailTypes'
    BY <1>1, <2>2, PointType, Zenon DEF FailTypes
  <2>4. ReaderTypes'
    BY <1>1, <1>5 DEF Cleanup, ReaderTypes, ReaderPhases
  <2> QED
    BY <2>1, <2>3, <2>4, PartsNext, Zenon
<1>6. ASSUME NEW c \in Calls, ReadXid(c) PROVE TypeOK'
  <2>1. CallTypes' /\ ReplyTypes' /\ LeaseType' /\ FailTypes' /\ OwnerTypes'
    BY <1>1, <1>6, TypesKept, Zenon DEF ReadXid
  <2>2. ReaderTypes'
    BY <1>1, <1>6, ConstantsAssumption DEF ReadXid, ReaderTypes, ReaderPhases, FailTypes
  <2>3. HolderType'
    BY <1>1, <1>6 DEF ReadXid, HolderType, Holders
  <2> QED
    BY <2>1, <2>2, <2>3, PartsNext, Zenon
<1>7. CASE ReaderUnwinds
  <2>1. CallTypes' /\ FailTypes' /\ OwnerTypes'
    BY <1>1, <1>7, TypesKept, Zenon DEF ReaderUnwinds
  <2>2. rpc' = "exit" /\ rtoken' = rtoken /\ rerr' = rerr
    BY <1>7, Zenon DEF ReaderUnwinds
  <2>3. ReaderTypes'
    BY <1>1, <2>2 DEF ReaderTypes, ReaderPhases
  <2>4. LeaseType'
    BY <1>1, <1>7, TypesKept, DroppedType, Zenon DEF ReaderUnwinds
  <2>5. ReplyTypes' /\ HolderType'
    <3>1. CASE rpc = "recv" /\ TargetReturns
      <4>1. Deliver(rtoken, "ConnectionClosed")
        BY <1>7, <3>1, Zenon DEF ReaderUnwinds
      <4>2. rtoken \in Calls /\ "ConnectionClosed" \in Errors \cup {"none", "ok"}
        BY <1>1, <3>1 DEF ReaderTypes, Errors, ConnectionErrors
      <4> QED
        BY <1>1, <4>1, <4>2, DeliverType, Zenon
    <3>2. CASE rpc = "recv" /\ ~TargetReturns
      BY <1>1, <1>7, <3>2 DEF ReaderUnwinds, ReplyTypes, HolderType, Holders
    <3>3. CASE rpc # "recv"
      BY <1>1, <1>7, <3>3, TypesKept, Zenon DEF ReaderUnwinds
    <3> QED
      BY <3>1, <3>2, <3>3
  <2> QED
    BY <2>1, <2>3, <2>4, <2>5, PartsNext, Zenon
<1>8. CASE ReaderFails \/ ReaderExit
  <2>1. CallTypes' /\ ReplyTypes' /\ OwnerTypes'
    BY <1>1, <1>8, TypesKept, Zenon DEF ReaderFails, ReaderExit
  <2>2. LeaseType'
    BY <1>1, <1>8, TypesKept, DroppedType, Zenon DEF ReaderFails, ReaderExit
  <2>3. UNCHANGED <<failVars, holder>> \/ Fail(rerr) \/ Fail("ConnectionClosed")
    BY <1>8, Zenon DEF ReaderFails, ReaderExit
  <2>4. rerr \in ConnectionErrors \cup {"none"}
    BY <1>1 DEF ReaderTypes, ConnectionErrors
  <2>5. "ConnectionClosed" \in ConnectionErrors
    BY DEF ConnectionErrors
  <2>6. FailTypes' /\ HolderType'
    BY <1>1, <2>3, <2>4, <2>5, FailType, TypesKept, Zenon
  <2>7. /\ rpc' \in {"failing", "lockwait", "exit", "exited", "exitFailing", "exitLock"}
        /\ rtoken' \in {rtoken, NoCall} /\ rerr' \in {rerr, "none"}
    BY <1>8, Zenon DEF ReaderFails, ReaderExit, AfterFail
  <2>8. ReaderTypes'
    BY <1>1, <2>7 DEF ReaderTypes, ReaderPhases
  <2> QED
    BY <2>1, <2>2, <2>6, <2>8, PartsNext, Zenon
<1>9. CASE Close
  <2>1. CallTypes' /\ ReplyTypes' /\ LeaseType' /\ ReaderTypes'
    BY <1>1, <1>9, TypesKept, Zenon DEF Close
  <2>2. Fail("ConnectionClosed") /\ "ConnectionClosed" \in ConnectionErrors
    BY <1>9, Zenon DEF Close, ConnectionErrors
  <2>3. closer' \in {"failing", "abort"} /\ UNCHANGED <<writer, aborted, handle, alive>>
    BY <1>9, Zenon DEF Close, AfterFail
  <2>4. OwnerTypes'
    BY <1>1, <2>3, Zenon DEF OwnerTypes
  <2> QED
    BY <1>1, <2>1, <2>2, <2>4, FailType, PartsNext, Zenon
<1>10. CASE CloseAborts \/ DropTransport \/ DropState
  <2>1. CallTypes' /\ ReplyTypes' /\ HolderType' /\ LeaseType' /\ FailTypes' /\ ReaderTypes'
    BY <1>1, <1>10, TypesKept, Zenon DEF CloseAborts, DropTransport, DropState, replyVars
  <2>2. OwnerTypes'
    BY <1>1, <1>10, Zenon DEF CloseAborts, TryTakeWriter, DropTransport, DropState, OwnerTypes
  <2> QED
    BY <2>1, <2>2, PartsNext, Zenon
<1> QED
  BY <1>2, <1>3, <1>4, <1>5, <1>6, <1>7, <1>8, <1>9, <1>10, Zenon DEF ReaderStep, ReaderEvent, OwnerStep

\* Every step keeps the types.
LEMMA TypeStep == ASSUME TypeOK, [Next]_vars PROVE TypeOK'
<1>1. CASE UNCHANGED vars
  BY <1>1, TypeParts, PartsNext, TypesKept, Zenon DEF vars, replyVars, ownerVars
<1> QED
  BY <1>1, CallTyped, FailTyped, ReaderTyped, Zenon DEF Next

\* The types hold in the initial state.
LEMMA TypeInit == Init => TypeOK
<1> SUFFICES ASSUME Init PROVE TypeOK
  OBVIOUS
<1>1. /\ admitting \in BOOLEAN /\ writer \in BOOLEAN /\ aborted \in BOOLEAN
      /\ handle \in BOOLEAN /\ alive \in BOOLEAN
  BY Zenon DEF Init
<1> QED
  BY <1>1, ConstantsAssumption
  DEF Init, TypeOK, Phases, ReaderPhases, Holders

\* The variables keep their types, and in particular no cancellation or call
\* deadline ever becomes the terminal error of the connection.
THEOREM TypeCorrect == Spec => []TypeOK
<1>1. TypeOK /\ [Next]_vars => TypeOK'
  BY TypeStep
<1> QED
  BY <1>1, TypeInit, PTL DEF Spec

-----------------------------------------------------------------------------
\* Where the response sender of each call is, seen from every place it can be in.
HolderOf(c) ==
    /\ holder[c] = "registry" => entry[XidOf[c]] = c
    /\ holder[c] = "reader" <=> rpc = "recv" /\ rtoken = c
    /\ rtoken = c => holder[c] \in {"reader", "gone"}
    /\ holder[c] = "failer" => c \in todo
    /\ failing = c => holder[c] = "gone"
    /\ holder[c] = "gone" <=> chan[c] # "empty"
    /\ pc[c] \in ActivePhases => holder[c] # "caller"
    /\ pc[c] \in {"idle", "admitted"} => holder[c] = "caller"
    /\ pc[c] = "done" => holder[c] \in {"caller", "gone"}

HolderInv == \A c \in Calls : HolderOf(c)

\* A registry entry is that of a live call, and outlives its sender only while
\* the reader that took the sender has not cleaned up.
EntryOf(x) ==
    entry[x] # NoCall =>
        /\ closed = "none"
        /\ XidOf[entry[x]] = x
        /\ pc[entry[x]] \in ActivePhases
        /\ holder[entry[x]] \in {"registry", "reader", "gone"}
        /\ holder[entry[x]] = "gone" =>
              rtoken = entry[x] /\ rpc \in {"permit", "drain", "cleanup", "exit"}

EntryInv == \A x \in Xids : EntryOf(x)

\* What the phases of State::fail, of the reader and of the calls say of the State.
PhaseInv ==
    /\ todo # {} => job \in {"admission", "pending"}
    /\ job = "idle" <=> closed = "none"
    /\ rpc \in {"failing", "lockwait", "exitFailing", "exitLock"} => closed # "none"
    /\ rpc = "exited" /\ alive => closed # "none"
    /\ rpc = "fail" => rerr # "none"
    /\ handle => alive
    /\ \A c \in Calls : pc[c] \in ActivePhases \cup {"admitted"} => alive

\* The decision about a call, its channel and the outcome sent through it.
Decided(c) ==
    /\ chan[c] = "empty" => terminal[c] # "ok"
    /\ pc[c] \in {"stopW", "stopS", "stopA", "stopD"} => terminal[c] # "none"
    /\ pc[c] \in {"stopW", "unwind", "failing"} => err[c] \in Errors
    /\ c \in Segmented => chan[c] # "closed"
    /\ chan[c] = "sent" =>
          IF terminal[c] \in Errors THEN result[c] = terminal[c]
          ELSE terminal[c] = "ok" /\ result[c] \notin Interrupts \cup {"none", "WriteTimeout"}

DecisionInv == \A c \in Calls : Decided(c)

Rest == HolderInv /\ EntryInv /\ PhaseInv /\ DecisionInv

Inv == TypeOK /\ Rest

-----------------------------------------------------------------------------
\* The invariant holds in the initial state.
LEMMA InitInv == Init => Inv
<1>1. Init => Rest
  BY ConstantsAssumption
  DEF Init, Rest, HolderInv, HolderOf, EntryInv, EntryOf, PhaseInv, DecisionInv, Decided, ActivePhases, WriterPhases
<1> QED
  BY <1>1, TypeInit DEF Inv

-----------------------------------------------------------------------------
(* Steps that concern the senders little or not at all *)

\* What the proofs about senders need of the types.
Typed ==
    /\ pc \in [Calls -> Phases] /\ holder \in [Calls -> Holders]
    /\ chan \in [Calls -> {"empty", "sent", "closed"}]
    /\ entry \in [Xids -> Calls \cup {NoCall}]
    /\ failing \in Calls \cup {NoCall} /\ rtoken \in Calls \cup {NoCall}
    /\ rpc \in {"recv", "permit"} => rtoken # NoCall
    /\ XidOf \in [Calls -> Xids] /\ NoCall \notin Calls

\* The types the senders depend on.
LEMMA InvTyped == ASSUME Inv PROVE Typed
  BY ConstantsAssumption, Zenon DEF Inv, TypeOK, Typed

\* No future begins or ends its time in the registry.
PcKept ==
    \A d \in Calls :
        /\ pc'[d] \in ActivePhases <=> pc[d] \in ActivePhases
        /\ pc'[d] \in {"idle", "admitted"} => pc[d] \in {"idle", "admitted"}
        /\ pc'[d] = "done" => pc[d] = "done"

\* A step in which no future moves.
LEMMA PcSame == ASSUME UNCHANGED pc PROVE PcKept
  BY Zenon DEF PcKept

\* A step in which one future moves between live phases.
LEMMA PcMoves ==
  ASSUME Typed, NEW c \in Calls, NEW st, pc' = [pc EXCEPT ![c] = st],
         pc[c] \in ActivePhases, st \in ActivePhases
  PROVE  PcKept
<1>1. pc'[c] = st /\ \A d \in Calls : d # c => pc'[d] = pc[d]
  BY DEF Typed
<1>2. st \notin {"idle", "admitted", "done"}
  BY DEF ActivePhases, WriterPhases
<1> QED
  BY <1>1, <1>2, Zenon DEF PcKept

\* Quiet and breaking steps keep every future where it is in the registry.
LEMMA WithinKept == ASSUME Typed, NEW c \in Calls, Within(c) PROVE PcKept
  BY PcSame, PcMoves, Zenon DEF Within

\* No sender moves.
LEMMA SendersSame ==
  ASSUME Typed, HolderInv, EntryInv, PcKept, UNCHANGED <<holder, chan, entry, closed, todo, rtoken>>,
         failing' \in {failing, NoCall}, rpc' = "recv" <=> rpc = "recv",
         rpc \in {"permit", "drain", "cleanup", "exit"} => rpc' \in {"permit", "drain", "cleanup", "exit"}
  PROVE  HolderInv' /\ EntryInv'
<1>1. HolderInv'
  <2> SUFFICES ASSUME NEW h \in Calls PROVE HolderOf(h)'
    BY Zenon DEF HolderInv
  <2>1. HolderOf(h)
    BY Zenon DEF HolderInv
  <2> QED
    BY <2>1 DEF HolderOf, Typed, PcKept
<1>2. \A x \in Xids : entry[x] # NoCall => entry[x] \in Calls
  BY DEF Typed
<1>3. EntryInv'
  <2> SUFFICES ASSUME NEW x \in Xids PROVE EntryOf(x)'
    BY Zenon DEF EntryInv
  <2>1. EntryOf(x)
    BY <1>2, Zenon DEF EntryInv
  <2> QED
    BY <1>2, <2>1 DEF EntryOf, PcKept
<1> QED
  BY <1>1, <1>3

-----------------------------------------------------------------------------
(* Steps that move a sender *)

\* State::fail takes the senders of the registry, all at once.
LEMMA SendersTaken ==
  ASSUME Typed, HolderInv, EntryInv, PcKept, closed = "none", todo = {}, NEW e, e # "none", Fail(e),
         UNCHANGED chan, rtoken' = rtoken \/ (rtoken' = NoCall /\ rpc # "recv"), rpc' = "recv" <=> rpc = "recv"
  PROVE  HolderInv' /\ EntryInv'
<1>1. /\ todo' = {c \in Calls : entry[XidOf[c]] = c}
      /\ entry' = [x \in Xids |-> NoCall]
      /\ holder' = [c \in Calls |-> IF holder[c] = "registry" THEN "failer" ELSE holder[c]]
      /\ UNCHANGED failing
  BY Zenon DEF Fail
<1>2. \A c \in Calls : holder'[c] = IF holder[c] = "registry" THEN "failer" ELSE holder[c]
  BY <1>1
<1>3. \A c \in Calls : holder[c] # "failer" /\ (holder'[c] = "failer" => c \in todo')
  BY <1>1, <1>2 DEF HolderInv, HolderOf
<1>4. HolderInv'
  <2> SUFFICES ASSUME NEW h \in Calls PROVE HolderOf(h)'
    BY Zenon DEF HolderInv
  <2>1. HolderOf(h)
    BY <1>1, <1>2, <1>3, Zenon DEF HolderInv
  <2> QED
    BY <1>1, <1>2, <1>3, <2>1 DEF HolderOf, Typed, PcKept
<1>5. EntryInv'
  <2> SUFFICES ASSUME NEW x \in Xids PROVE EntryOf(x)'
    BY Zenon DEF EntryInv
  <2>1. EntryOf(x)
    BY <1>1, Zenon DEF EntryInv
  <2> QED
    BY <1>1, <2>1 DEF EntryOf
<1> QED
  BY <1>4, <1>5

\* State::fail, whether it is the first or not.
LEMMA SendersFailed ==
  ASSUME Inv, PcKept, NEW e, e # "none", Fail(e), UNCHANGED <<chan, rtoken>>, rpc' = "recv" <=> rpc = "recv",
         rpc \in {"permit", "drain", "cleanup", "exit"} => rpc' \in {"permit", "drain", "cleanup", "exit"}
  PROVE  HolderInv' /\ EntryInv'
<1>1. Typed /\ HolderInv /\ EntryInv /\ PhaseInv
  BY InvTyped, Zenon DEF Inv, Rest
<1>2. CASE closed = "none"
  <2>1. todo = {}
    BY <1>1, <1>2 DEF PhaseInv
  <2> QED
    BY <1>1, <1>2, <2>1, SendersTaken, Zenon
<1>3. CASE closed # "none"
  <2>1. UNCHANGED <<holder, entry, closed, todo, failing>>
    BY <1>3, Zenon DEF Fail, failVars
  <2> QED
    BY <1>1, <2>1, SendersSame, Zenon
<1> QED
  BY <1>2, <1>3

\* The reader consumes the sender it holds.
LEMMA SendersConsumed ==
  ASSUME Typed, HolderInv, EntryInv, rpc = "recv", rpc' \in {"permit", "exit"}, NEW v \in {"sent", "closed"},
         holder' = [holder EXCEPT ![rtoken] = "gone"], chan' = [chan EXCEPT ![rtoken] = v],
         UNCHANGED <<pc, entry, closed, todo, failing, rtoken>>
  PROVE  HolderInv' /\ EntryInv'
<1>1. rtoken \in Calls /\ holder[rtoken] = "reader"
  BY DEF Typed, HolderInv, HolderOf
<1>2. /\ holder'[rtoken] = "gone" /\ chan'[rtoken] = v
      /\ \A c \in Calls : c # rtoken => holder'[c] = holder[c] /\ chan'[c] = chan[c]
  BY <1>1 DEF Typed
<1>3. pc[rtoken] \notin {"idle", "admitted"} /\ failing # rtoken
  BY <1>1 DEF HolderInv, HolderOf
<1>4. HolderInv'
  <2> SUFFICES ASSUME NEW h \in Calls PROVE HolderOf(h)'
    BY Zenon DEF HolderInv
  <2>1. HolderOf(h)
    BY <1>1, <1>2, <1>3, Zenon DEF HolderInv
  <2> QED
    BY <1>1, <1>2, <1>3, <2>1 DEF HolderOf
<1>5. \A x \in Xids : entry[x] # NoCall => entry[x] \in Calls
  BY DEF Typed
<1>6. EntryInv'
  <2> SUFFICES ASSUME NEW x \in Xids PROVE EntryOf(x)'
    BY Zenon DEF EntryInv
  <2>1. EntryOf(x)
    BY <1>1, <1>2, <1>5, Zenon DEF EntryInv
  <2> QED
    BY <1>1, <1>2, <1>5, <2>1 DEF EntryOf
<1> QED
  BY <1>4, <1>6

\* State::fail fails one of the senders it took.
LEMMA FailCallSenders == ASSUME Inv, NEW c \in Calls, FailCall(c) PROVE HolderInv' /\ EntryInv'
<1>1. Typed /\ HolderInv /\ EntryInv /\ PhaseInv
  BY InvTyped, Zenon DEF Inv, Rest
<1>2. /\ c \in todo /\ todo' = todo \ {c} /\ UNCHANGED <<pc, entry, closed, rpc, rtoken>>
      /\ closed # "none" /\ failing = NoCall
  <2>1. job = "pending"
    BY Zenon DEF FailCall
  <2> QED
    BY <1>1, <2>1, Zenon DEF FailCall, PhaseInv, callVars, readerVars
<1>3. CASE holder[c] = "failer"
  <2>1. /\ holder'[c] = "gone" /\ chan'[c] = "sent" /\ failing' = c
        /\ \A d \in Calls : d # c => holder'[d] = holder[d] /\ chan'[d] = chan[d]
    BY <1>1, <1>3 DEF FailCall, Typed
  <2>2. pc[c] \notin {"idle", "admitted"} /\ rtoken # c
    BY <1>1, <1>3 DEF HolderInv, HolderOf
  <2>3. HolderInv'
    <3> SUFFICES ASSUME NEW h \in Calls PROVE HolderOf(h)'
      BY Zenon DEF HolderInv
    <3>1. HolderOf(h)
      BY <1>1, <1>2, <1>3, <2>1, <2>2, Zenon DEF HolderInv
    <3> QED
      BY <1>1, <1>2, <1>3, <2>1, <2>2, <3>1 DEF HolderOf
  <2>4. EntryInv'
    <3> SUFFICES ASSUME NEW x \in Xids PROVE EntryOf(x)'
      BY Zenon DEF EntryInv
    <3>1. EntryOf(x)
      BY <1>1, <1>2, Zenon DEF EntryInv
    <3> QED
      BY <1>1, <1>2, <3>1 DEF EntryOf
  <2> QED
    BY <2>3, <2>4
<1>4. CASE holder[c] # "failer"
  <2>1. UNCHANGED <<holder, chan, failing>>
    BY <1>4, Zenon DEF FailCall
  <2>2. HolderInv'
    <3> SUFFICES ASSUME NEW h \in Calls PROVE HolderOf(h)'
      BY Zenon DEF HolderInv
    <3>1. HolderOf(h)
      BY <1>1, <1>2, <1>4, <2>1, Zenon DEF HolderInv
    <3> QED
      BY <1>1, <1>2, <1>4, <2>1, <3>1 DEF HolderOf
  <2>3. EntryInv'
    <3> SUFFICES ASSUME NEW x \in Xids PROVE EntryOf(x)'
      BY Zenon DEF EntryInv
    <3>1. EntryOf(x)
      BY <1>1, <1>2, Zenon DEF EntryInv
    <3> QED
      BY <1>1, <1>2, <3>1 DEF EntryOf
  <2> QED
    BY <2>2, <2>3
<1> QED
  BY <1>3, <1>4

\* A call is registered, or refused.
LEMMA RegisterSenders == ASSUME Inv, NEW c \in Calls, Register(c) PROVE HolderInv' /\ EntryInv'
<1>1. Typed /\ HolderInv /\ EntryInv
  BY InvTyped, Zenon DEF Inv, Rest
<1>2. /\ pc[c] = "admitted" /\ holder[c] = "caller" /\ XidOf[c] \in Xids /\ c # NoCall
      /\ UNCHANGED <<chan, closed, todo, failing, rpc, rtoken>>
  BY <1>1 DEF Register, HolderInv, HolderOf, Typed, readerVars
<1>3. CASE RegisterError(c) = "none"
  <2>1. closed = "none" /\ entry[XidOf[c]] = NoCall
    BY <1>1, <1>3 DEF RegisterError
  <2>2. /\ holder'[c] = "registry" /\ pc'[c] = "lock" /\ entry'[XidOf[c]] = c
        /\ \A d \in Calls : d # c => holder'[d] = holder[d] /\ pc'[d] = pc[d]
        /\ \A x \in Xids : x # XidOf[c] => entry'[x] = entry[x]
    BY <1>1, <1>2, <1>3 DEF Register, Typed
  <2>3. "lock" \in ActivePhases
    BY Zenon DEF ActivePhases
  <2>4. \A d \in Calls : holder[d] = "registry" => XidOf[d] \in Xids /\ XidOf[d] # XidOf[c]
    BY <1>1, <2>1 DEF HolderInv, HolderOf, Typed
  <2>5. HolderInv'
    <3> SUFFICES ASSUME NEW h \in Calls PROVE HolderOf(h)'
      BY Zenon DEF HolderInv
    <3>1. HolderOf(h)
      BY <1>1, <1>2, <2>2, <2>4, Zenon DEF HolderInv
    <3> QED
      BY <1>1, <1>2, <2>2, <2>4, <3>1 DEF HolderOf
  <2>6. \A x \in Xids : entry[x] # NoCall => entry[x] \in Calls /\ entry[x] # c
    BY <1>1, <1>2 DEF Typed, EntryInv, EntryOf, ActivePhases, WriterPhases
  <2>7. EntryInv'
    <3> SUFFICES ASSUME NEW x \in Xids PROVE EntryOf(x)'
      BY Zenon DEF EntryInv
    <3>1. EntryOf(x)
      BY <1>1, <1>2, <2>1, <2>2, <2>3, <2>6, Zenon DEF EntryInv
    <3> QED
      BY <1>1, <1>2, <2>1, <2>2, <2>3, <2>6, <3>1, Zenon DEF EntryOf
  <2> QED
    BY <2>5, <2>7
<1>4. CASE RegisterError(c) # "none"
  <2>1. UNCHANGED <<entry, holder>> /\ pc'[c] = "done" /\ \A d \in Calls : d # c => pc'[d] = pc[d]
    BY <1>1, <1>4 DEF Register, Typed
  <2>2. "done" \notin ActivePhases /\ "admitted" \notin ActivePhases
    BY DEF ActivePhases, WriterPhases
  <2>3. HolderInv'
    <3> SUFFICES ASSUME NEW h \in Calls PROVE HolderOf(h)'
      BY Zenon DEF HolderInv
    <3>1. HolderOf(h)
      BY <1>1, <1>2, <2>1, <2>2, Zenon DEF HolderInv
    <3> QED
      BY <1>1, <1>2, <2>1, <2>2, <3>1 DEF HolderOf
  <2>4. \A x \in Xids : entry[x] # NoCall => entry[x] \in Calls /\ entry[x] # c
    BY <1>1, <1>2, <2>2 DEF Typed, EntryInv, EntryOf
  <2>5. EntryInv'
    <3> SUFFICES ASSUME NEW x \in Xids PROVE EntryOf(x)'
      BY Zenon DEF EntryInv
    <3>1. EntryOf(x)
      BY <1>1, <1>2, <2>1, <2>4, Zenon DEF EntryInv
    <3> QED
      BY <1>1, <1>2, <2>1, <2>4, <3>1, Zenon DEF EntryOf
  <2> QED
    BY <2>3, <2>5
<1> QED
  BY <1>3, <1>4

\* Removing the entry of c leaves those of the other calls.
LEMMA Removed ==
  ASSUME Typed, EntryInv, NEW c \in Calls, entry' = Unregistered(c)
  PROVE  /\ \A x \in Xids : entry'[x] # NoCall => entry'[x] = entry[x] /\ entry[x] \in Calls /\ entry[x] # c
         /\ \A d \in Calls : d # c /\ entry[XidOf[d]] = d => entry'[XidOf[d]] = d
<1>1. XidOf[c] \in Xids /\ c # NoCall /\ \A x \in Xids : entry[x] # NoCall => entry[x] \in Calls /\ XidOf[entry[x]] = x
  BY DEF Typed, EntryInv, EntryOf
<1>2. CASE IsOwnEntry(c)
  <2>1. entry' = [entry EXCEPT ![XidOf[c]] = NoCall] /\ entry[XidOf[c]] = c
    BY <1>2, Zenon DEF Unregistered, IsOwnEntry
  <2> QED
    BY <1>1, <2>1 DEF Typed
<1>3. CASE ~IsOwnEntry(c)
  <2>1. entry' = entry /\ entry[XidOf[c]] # c
    BY <1>3, Zenon DEF Unregistered, IsOwnEntry
  <2> QED
    BY <1>1, <2>1
<1> QED
  BY <1>2, <1>3

\* A call leaves the registry: PendingCall::stop, or the end of a future that has its
\* response.
LEMMA SendersDetached ==
  ASSUME Typed, HolderInv, EntryInv, NEW c \in Calls, pc[c] \in ActivePhases, entry' = Unregistered(c), NEW st,
         pc' = [pc EXCEPT ![c] = st], st \in ActivePhases \cup {"done", "dropped"}, st = "done" => holder[c] = "gone",
         \/ UNCHANGED <<holder, chan>> /\ holder[c] # "registry"
         \/ /\ holder[c] = "registry" /\ holder' = [holder EXCEPT ![c] = "gone"]
            /\ chan' = [chan EXCEPT ![c] = "sent"],
         UNCHANGED <<closed, todo, failing, rpc, rtoken>>
  PROVE  HolderInv' /\ EntryInv'
<1>1. pc'[c] = st /\ \A d \in Calls : d # c => pc'[d] = pc[d] /\ holder'[d] = holder[d] /\ chan'[d] = chan[d]
  BY DEF Typed
<1>2. /\ (holder'[c] = holder[c] /\ chan'[c] = chan[c]) \/ (holder'[c] = "gone" /\ chan'[c] = "sent")
      /\ holder'[c] # "registry" /\ (holder[c] # "registry" => holder'[c] = holder[c])
  BY DEF Typed
<1>3. st \notin {"idle", "admitted"}
  BY DEF ActivePhases, WriterPhases
<1>4. HolderInv'
  <2>1. \A d \in Calls : holder'[d] = "registry" => entry'[XidOf[d]] = d
    BY <1>1, <1>2, Removed DEF HolderInv, HolderOf
  <2> SUFFICES ASSUME NEW h \in Calls PROVE HolderOf(h)'
    BY Zenon DEF HolderInv
  <2>2. HolderOf(h)
    BY Zenon DEF HolderInv
  <2>3. CASE h = c
    BY <1>1, <1>2, <1>3, <2>1, <2>2, <2>3 DEF HolderOf
  <2>4. CASE h # c
    BY <1>1, <2>1, <2>2, <2>4 DEF HolderOf
  <2> QED
    BY <2>3, <2>4
<1>5. EntryInv'
  <2> SUFFICES ASSUME NEW x \in Xids PROVE EntryOf(x)'
    BY Zenon DEF EntryInv
  <2>1. EntryOf(x)
    BY <1>1, Removed, Zenon DEF EntryInv
  <2> QED
    BY <1>1, Removed, <2>1 DEF EntryOf
<1> QED
  BY <1>4, <1>5

\* PendingCall::stop takes the call out of the registry,
LEMMA DetachSenders == ASSUME Inv, NEW c \in Calls, Detach(c) PROVE HolderInv' /\ EntryInv'
<1>1. Typed /\ HolderInv /\ EntryInv
  BY InvTyped, Zenon DEF Inv, Rest
<1>2. pc[c] \in ActivePhases /\ AfterStop(c) \in ActivePhases \cup {"dropped"} /\ AfterStop(c) # "done"
  BY DEF Detach, AfterStop, ActivePhases, WriterPhases
<1>3. /\ pc' = [pc EXCEPT ![c] = AfterStop(c)] /\ entry' = Unregistered(c)
      /\ UNCHANGED <<closed, todo, failing, rpc, rtoken>>
  BY Zenon DEF Detach, readerVars
<1>4. \/ UNCHANGED <<holder, chan>> /\ holder[c] # "registry"
      \/ /\ holder[c] = "registry" /\ holder' = [holder EXCEPT ![c] = "gone"]
         /\ chan' = [chan EXCEPT ![c] = "sent"]
  BY <1>1, Zenon DEF Detach, Deliver, IsOwnEntry, HolderInv, HolderOf
<1> QED
  BY <1>1, <1>2, <1>3, <1>4, SendersDetached, Zenon

\* and so does the return of the future.
LEMMA ReturnSenders == ASSUME Inv, NEW c \in Calls, Return(c) PROVE HolderInv' /\ EntryInv'
<1>1. Typed /\ HolderInv /\ EntryInv
  BY InvTyped, Zenon DEF Inv, Rest
<1>2. pc[c] \in ActivePhases /\ holder[c] = "gone"
  BY <1>1 DEF Return, MayReturn, HolderInv, HolderOf, ActivePhases
<1>3. /\ pc' = [pc EXCEPT ![c] = "done"] /\ entry' = Unregistered(c)
      /\ UNCHANGED <<holder, chan, closed, todo, failing, rpc, rtoken>>
  BY Zenon DEF Return, readerVars
<1>4. holder[c] # "registry"
  BY <1>2
<1> QED
  BY <1>1, <1>2, <1>3, <1>4, SendersDetached, Zenon

\* The registry of a State that is gone is empty.
LEMMA NoEntries == ASSUME Inv, ~alive PROVE \A x \in Xids : entry[x] = NoCall
<1>1. \A x \in Xids : entry[x] # NoCall => entry[x] \in Calls /\ pc[entry[x]] \in ActivePhases
  BY InvTyped DEF Inv, Rest, EntryInv, EntryOf, Typed
<1>2. \A c \in Calls : pc[c] \notin ActivePhases
  BY Zenon DEF Inv, Rest, PhaseInv
<1> QED
  BY <1>1, <1>2, Zenon

\* The reader takes a sender out of the registry, or finds none.
LEMMA ReadSenders == ASSUME Inv, NEW c \in Calls, ReadXid(c) PROVE HolderInv' /\ EntryInv'
<1> DEFINE d == entry[XidOf[c]]
<1>1. Typed /\ HolderInv /\ EntryInv
  BY InvTyped, Zenon DEF Inv, Rest
<1>2. rpc = "idle" /\ rtoken' = d /\ XidOf[c] \in Xids /\ UNCHANGED <<pc, chan, entry, closed, todo, failing>>
  BY <1>1, Zenon DEF ReadXid, Typed, callVars, failVars
<1>3. \A e \in Calls : holder[e] # "reader"
  <2> SUFFICES ASSUME NEW e \in Calls PROVE holder[e] # "reader"
    OBVIOUS
  <2>1. HolderOf(e)
    BY <1>1, Zenon DEF HolderInv
  <2>2. holder[e] = "reader" => rpc = "recv"
    BY <2>1, Zenon DEF HolderOf
  <2> QED
    BY <1>2, <2>2
<1>4. \A x \in Xids : entry[x] # NoCall => entry[x] \in Calls /\ holder[entry[x]] = "registry"
  BY <1>1, <1>2, <1>3 DEF Typed, EntryInv, EntryOf
<1>5. CASE d # NoCall
  <2>1. rpc' = "recv" /\ holder' = [holder EXCEPT ![d] = "reader"] /\ d \in Calls /\ holder[d] = "registry"
    BY <1>2, <1>4, <1>5, Zenon DEF ReadXid
  <2>2. holder'[d] = "reader" /\ \A e \in Calls : e # d => holder'[e] = holder[e]
    BY <1>1, <2>1 DEF Typed
  <2>3. pc[d] \in ActivePhases /\ "done" \notin ActivePhases /\ "idle" \notin ActivePhases /\ "admitted" \notin ActivePhases
    BY <1>1, <1>2, <1>5, Zenon DEF EntryInv, EntryOf, ActivePhases, WriterPhases
  <2>4. HolderInv'
    <3> SUFFICES ASSUME NEW h \in Calls PROVE HolderOf(h)'
      BY Zenon DEF HolderInv
    <3>1. HolderOf(h)
      BY <1>1, <1>2, <1>3, <2>1, <2>2, <2>3, Zenon DEF HolderInv
    <3> QED
      BY <1>1, <1>2, <1>3, <2>1, <2>2, <2>3, <3>1, Zenon DEF HolderOf
  <2>5. EntryInv'
    <3> SUFFICES ASSUME NEW x \in Xids PROVE EntryOf(x)'
      BY Zenon DEF EntryInv
    <3>1. EntryOf(x)
      BY <1>1, <1>2, <1>4, <2>1, <2>2, Zenon DEF EntryInv
    <3>2. entry[x] # NoCall => entry[x] \in Calls /\ holder'[entry[x]] \in {"registry", "reader"}
      <4>1. CASE entry[x] = d
        BY <2>1, <2>2, <4>1
      <4>2. CASE entry[x] # d
        BY <1>4, <2>2, <4>2
      <4> QED
        BY <4>1, <4>2, Zenon
    <3>3. entry[x] # NoCall => closed = "none" /\ XidOf[entry[x]] = x /\ pc[entry[x]] \in ActivePhases
      BY <3>1, Zenon DEF EntryOf
    <3>4. "gone" \notin {"registry", "reader"} /\ {"registry", "reader"} \subseteq {"registry", "reader", "gone"}
      OBVIOUS
    <3> QED
      BY <1>2, <3>2, <3>3, <3>4, Zenon DEF EntryOf
  <2> QED
    BY <2>4, <2>5, Zenon
<1>6. CASE d = NoCall
  <2>1. rpc' = "drain" /\ UNCHANGED holder
    BY <1>6, Zenon DEF ReadXid
  <2>2. HolderInv'
    <3> SUFFICES ASSUME NEW h \in Calls PROVE HolderOf(h)'
      BY Zenon DEF HolderInv
    <3>1. HolderOf(h)
      BY <1>1, <1>2, <1>3, <1>6, <2>1, Zenon DEF HolderInv
    <3> QED
      BY <1>1, <1>2, <1>3, <1>6, <2>1, <3>1 DEF HolderOf, Typed
  <2>3. EntryInv'
    <3> SUFFICES ASSUME NEW x \in Xids PROVE EntryOf(x)'
      BY Zenon DEF EntryInv
    <3>1. EntryOf(x)
      BY <1>1, <1>2, <1>4, <2>1, Zenon DEF EntryInv
    <3> QED
      BY <1>1, <1>2, <1>4, <2>1, <3>1 DEF EntryOf
  <2> QED
    BY <2>2, <2>3
<1> QED
  BY <1>5, <1>6

\* The reader forgets its call, and removes its entry.
LEMMA CleanupSenders == ASSUME Inv, Cleanup PROVE HolderInv' /\ EntryInv'
<1>1. Typed /\ HolderInv /\ EntryInv
  BY InvTyped, Zenon DEF Inv, Rest
<1>2. /\ rpc = "cleanup" /\ rpc' \in {"idle", "fail"} /\ rtoken' = NoCall
      /\ UNCHANGED <<pc, holder, chan, closed, todo, failing>>
  BY DEF Cleanup, callVars, replyVars
<1>3. \A d \in Calls : holder[d] # "reader" /\ (rtoken = d => holder[d] = "gone")
  BY <1>1, <1>2 DEF HolderInv, HolderOf
<1>4. /\ \A x \in Xids : entry'[x] # NoCall => entry'[x] = entry[x] /\ entry[x] \in Calls /\ entry[x] # rtoken
      /\ \A d \in Calls : d # rtoken /\ entry[XidOf[d]] = d => entry'[XidOf[d]] = d
  <2>1. CASE alive /\ rtoken # NoCall
    <3>1. entry' = Unregistered(rtoken) /\ rtoken \in Calls
      BY <1>1, <2>1 DEF Cleanup, ReaderForgets, Typed
    <3> QED
      BY <1>1, <3>1, Removed, Zenon
  <2>2. CASE ~alive \/ rtoken = NoCall
    <3>1. entry' = entry
      BY <2>2, Zenon DEF Cleanup, ReaderForgets
    <3>2. \A x \in Xids : entry[x] # NoCall => entry[x] \in Calls /\ entry[x] # rtoken
      BY <1>1, <2>2, NoEntries DEF Typed
    <3> QED
      BY <3>1, <3>2, Zenon
  <2> QED
    BY <2>1, <2>2
<1>5. HolderInv'
  <2> SUFFICES ASSUME NEW h \in Calls PROVE HolderOf(h)'
    BY Zenon DEF HolderInv
  <2>1. HolderOf(h)
    BY <1>1, <1>2, <1>3, <1>4, Zenon DEF HolderInv
  <2> QED
    BY <1>1, <1>2, <1>3, <1>4, <2>1 DEF HolderOf, Typed
<1>6. EntryInv'
  <2> SUFFICES ASSUME NEW x \in Xids PROVE EntryOf(x)'
    BY Zenon DEF EntryInv
  <2>1. EntryOf(x)
    BY <1>1, <1>2, <1>3, <1>4, Zenon DEF EntryInv
  <2> QED
    BY <1>1, <1>2, <1>3, <1>4, <2>1, Zenon DEF EntryOf
<1> QED
  BY <1>5, <1>6

\* The reader task ends.
LEMMA ExitSenders == ASSUME Inv, ReaderExit PROVE HolderInv' /\ EntryInv'
<1>1. Typed /\ HolderInv /\ EntryInv /\ PhaseInv
  BY InvTyped, Zenon DEF Inv, Rest
<1>2. rpc = "exit" /\ rpc' # "recv" /\ rtoken' = NoCall /\ UNCHANGED <<pc, chan>>
  BY DEF ReaderExit, AfterFail, callVars
<1>3. CASE alive /\ closed = "none"
  <2>1. Fail("ConnectionClosed") /\ todo = {} /\ PcKept
    BY <1>1, <1>2, <1>3, PcSame DEF ReaderExit, PhaseInv
  <2> QED
    BY <1>1, <1>2, <1>3, <2>1, SendersTaken
<1>4. CASE ~alive \/ closed # "none"
  <2>1. UNCHANGED <<holder, entry, closed, todo, failing>>
    BY <1>4, Zenon DEF ReaderExit, Fail, failVars
  <2>2. \A x \in Xids : entry[x] = NoCall
    BY <1>1, <1>4, NoEntries, Zenon DEF EntryInv, EntryOf
  <2>3. \A d \in Calls : holder[d] # "reader"
    BY <1>1, <1>2 DEF HolderInv, HolderOf
  <2>4. HolderInv'
    <3> SUFFICES ASSUME NEW h \in Calls PROVE HolderOf(h)'
      BY Zenon DEF HolderInv
    <3>1. HolderOf(h)
      BY <1>1, <1>2, <2>1, <2>3, Zenon DEF HolderInv
    <3> QED
      BY <1>1, <1>2, <2>1, <2>3, <3>1 DEF HolderOf, Typed
  <2>5. EntryInv'
    <3> SUFFICES ASSUME NEW x \in Xids PROVE EntryOf(x)'
      BY Zenon DEF EntryInv
    <3> QED
      BY <2>1, <2>2, Zenon DEF EntryOf
  <2> QED
    BY <2>4, <2>5
<1> QED
  BY <1>3, <1>4

\* The senders and the registry agree after every step of a future,
LEMMA CallSenders ==
  ASSUME Inv, NEW c \in Calls, CallStep(c) \/ CallEvent(c)
  PROVE  HolderInv' /\ EntryInv'
<1>1. Typed /\ HolderInv /\ EntryInv
  BY InvTyped, Zenon DEF Inv, Rest
<1>2. CASE Quiet(c)
  <2>1. UNCHANGED <<holder, chan, entry, closed, todo, failing, rtoken, rpc>>
    BY <1>2, QuietFrame, Zenon DEF failVars, readerVars
  <2> QED
    BY <1>1, <1>2, <2>1, QuietWithin, WithinKept, SendersSame, Zenon
<1>3. CASE TryCall(c) \/ DropUnpolled(c)
  <2>1. UNCHANGED <<holder, chan, entry, closed, todo, failing, rtoken, rpc>>
    BY <1>3, Zenon DEF TryCall, DropUnpolled, failVars, readerVars
  <2>2. /\ pc[c] \in {"idle", "admitted"} /\ pc'[c] \in {"admitted", "dropped"}
        /\ \A d \in Calls : d # c => pc'[d] = pc[d]
    BY <1>1, <1>3 DEF TryCall, DropUnpolled, Typed
  <2>3. pc[c] \notin ActivePhases /\ pc'[c] \notin ActivePhases /\ pc'[c] # "done"
    BY <2>2, Zenon DEF ActivePhases, WriterPhases
  <2>4. PcKept
    BY <2>2, <2>3, Zenon DEF PcKept
  <2> QED
    BY <1>1, <2>1, <2>4, SendersSame, Zenon
<1>4. CASE Breaks(c)
  <2>1. PICK e : e # "none" /\ (Fail(e) \/ UNCHANGED <<failVars, holder>>)
    BY <1>4, BreakFrame
  <2>2. UNCHANGED <<chan, rtoken, rpc>> /\ PcKept
    BY <1>1, <1>4, BreakFrame, BreakWithin, WithinKept, Zenon DEF readerVars
  <2>3. CASE Fail(e)
    BY <2>1, <2>2, <2>3, SendersFailed, Zenon
  <2>4. CASE UNCHANGED <<failVars, holder>>
    BY <1>1, <2>2, <2>4, SendersSame, Zenon DEF failVars
  <2> QED
    BY <2>1, <2>3, <2>4
<1>5. CASE Register(c)
  BY <1>5, RegisterSenders
<1>6. CASE Detach(c)
  BY <1>6, DetachSenders
<1>7. CASE Return(c)
  BY <1>7, ReturnSenders
<1> QED
  BY <1>2, <1>3, <1>4, <1>5, <1>6, <1>7, Zenon DEF CallStep, CallEvent, Quiet, Breaks

\* of State::fail,
LEMMA FailSenders == ASSUME Inv, FailStep PROVE HolderInv' /\ EntryInv'
<1>1. Typed /\ HolderInv /\ EntryInv
  BY InvTyped, Zenon DEF Inv, Rest
<1>2. CASE FailAdmission \/ FailPermit \/ FailDone
  <2>1. UNCHANGED <<holder, chan, entry, closed, todo, rtoken, rpc>> /\ failing' \in {failing, NoCall} /\ UNCHANGED pc
    BY <1>2, Zenon DEF FailAdmission, FailPermit, FailDone, callVars, replyVars, readerVars
  <2> QED
    BY <1>1, <2>1, PcSame, SendersSame, Zenon
<1>3. ASSUME NEW c \in Calls, FailCall(c) PROVE HolderInv' /\ EntryInv'
  BY <1>3, FailCallSenders
<1> QED
  BY <1>2, <1>3, Zenon DEF FailStep

\* and of the reader and the owner of the transport.
LEMMA ReaderSenders ==
  ASSUME Inv, ReaderStep \/ ReaderUnwinds \/ ReaderEvent \/ OwnerStep
  PROVE  HolderInv' /\ EntryInv'
<1>1. Typed /\ HolderInv /\ EntryInv /\ PhaseInv
  BY InvTyped, Zenon DEF Inv, Rest
<1>2. CASE \/ ReadError \/ DropPermit \/ Drain \/ ReaderLocks \/ ReaderTakesWriter \/ ReaderExited
           \/ CloseAborts \/ DropTransport \/ DropState \/ (ReaderUnwinds /\ rpc # "recv") \/ (ReaderFails /\ ~alive)
  <2>1. UNCHANGED <<holder, chan, entry, closed, todo, failing, rtoken, pc>>
    BY <1>2, Zenon DEF ReadError, DropPermit, Drain, ReaderLocks, ReaderTakesWriter, ReaderExited, CloseAborts,
       DropTransport, DropState, ReaderUnwinds, ReaderFails, callVars, replyVars, failVars, readerVars
  <2>2. /\ rpc' = "recv" <=> rpc = "recv"
        /\ rpc \in {"permit", "drain", "cleanup", "exit"} => rpc' \in {"permit", "drain", "cleanup", "exit"}
    BY <1>2 DEF ReadError, DropPermit, Drain, ReaderLocks, ReaderTakesWriter, ReaderExited, CloseAborts,
       DropTransport, DropState, ReaderUnwinds, ReaderFails, readerVars
  <2> QED
    BY <1>1, <2>1, <2>2, PcSame, SendersSame, Zenon
<1>3. CASE (ReaderFails /\ alive) \/ Close
  <2>1. PICK e : e # "none" /\ Fail(e)
    BY <1>1, <1>3 DEF ReaderFails, Close, PhaseInv
  <2>2. UNCHANGED <<chan, rtoken, pc>>
    BY <1>3, Zenon DEF ReaderFails, Close, callVars, readerVars
  <2>3. /\ rpc' = "recv" <=> rpc = "recv"
        /\ rpc \in {"permit", "drain", "cleanup", "exit"} => rpc' \in {"permit", "drain", "cleanup", "exit"}
    BY <1>3 DEF ReaderFails, AfterFail, Close, readerVars
  <2> QED
    BY <2>1, <2>2, <2>3, PcSame, SendersFailed, Zenon
<1>4. CASE ReceiveReply \/ ReceiveFailed \/ ReceiveOverflow \/ ReceiveStopped \/ (ReaderUnwinds /\ rpc = "recv")
  <2>1. /\ rpc = "recv" /\ rpc' \in {"permit", "exit"} /\ holder' = [holder EXCEPT ![rtoken] = "gone"]
        /\ UNCHANGED <<pc, entry, closed, todo, failing, rtoken>>
    BY <1>4, Zenon DEF ReceiveReply, ReceiveFailed, ReceiveOverflow, ReceiveStopped, Receive, ReaderUnwinds, Deliver,
       callVars, failVars
  <2>2. PICK v \in {"sent", "closed"} : chan' = [chan EXCEPT ![rtoken] = v]
    BY <1>4, Zenon DEF ReceiveReply, ReceiveFailed, ReceiveOverflow, ReceiveStopped, Receive, ReaderUnwinds, Deliver
  <2> QED
    BY <1>1, <2>1, <2>2, SendersConsumed, Zenon
<1>5. ASSUME NEW c \in Calls, ReadXid(c) PROVE HolderInv' /\ EntryInv'
  BY <1>5, ReadSenders
<1>6. CASE Cleanup
  BY <1>6, CleanupSenders
<1>7. CASE ReaderExit
  BY <1>7, ExitSenders
<1> QED
  BY <1>2, <1>3, <1>4, <1>5, <1>6, <1>7, Zenon DEF ReaderStep, ReaderEvent, OwnerStep

-----------------------------------------------------------------------------
(* Decisions and outcomes *)

DecisionTyped ==
    /\ pc \in [Calls -> Phases] /\ err \in [Calls -> Errors \cup {"none"}]
    /\ terminal \in [Calls -> Errors \cup {"none", "ok"}]
    /\ chan \in [Calls -> {"empty", "sent", "closed"}]
    /\ result \in [Calls -> Errors \cup {"none", "ok"}]

\* The errors a future may stop with, in a reachable state.
LEMMA InvReasons ==
  ASSUME Inv, NEW c \in Calls
  PROVE  Interruption(c) \in Errors /\ LockErrors(c) \subseteq Errors /\ (closed # "none" => closed \in Errors)
  BY StopReasons, TypeParts, Zenon DEF Inv

\* What the decisions need of the invariant.
LEMMA InvDecisionTyped == ASSUME Inv PROVE DecisionTyped /\ DecisionInv
  BY Zenon DEF Inv, Rest, TypeOK, DecisionTyped

\* An error is not the mark of a call that was not stopped.
LEMMA ErrorsApart == "none" \notin Errors /\ "ok" \notin Errors
  BY DEF Errors, Interrupts, ConnectionErrors

Stops == {"stopW", "stopS", "stopA", "stopD"}
Fails == {"stopW", "unwind", "failing"}

\* A future that has an error to report still has it.
ErrKept == \A d \in Calls : pc'[d] \in Fails => (pc[d] \in Fails /\ err'[d] = err[d]) \/ err'[d] \in Errors

\* Nothing is decided or sent.
LEMMA SameDecisions ==
  ASSUME DecisionInv, UNCHANGED <<terminal, chan>>, ErrKept,
         \A d \in Calls : chan[d] = "sent" => result'[d] = result[d],
         \A d \in Calls : pc'[d] \in Stops => pc[d] \in Stops
  PROVE  DecisionInv' /\ KeepsOutcome
<1>1. ASSUME NEW d \in Calls PROVE Decided(d)'
  BY <1>1 DEF DecisionInv, Decided, ErrKept, Fails, Stops
<1>2. KeepsOutcome
  BY Zenon DEF KeepsOutcome
<1> QED
  BY <1>1, <1>2, Zenon DEF DecisionInv

\* No future moves either.
LEMMA IdleDecisions ==
  ASSUME DecisionInv, UNCHANGED <<pc, err, terminal, chan, result>>
  PROVE  DecisionInv' /\ KeepsOutcome
<1>1. ErrKept
  BY DEF ErrKept, Fails
<1> QED
  BY <1>1, SameDecisions, Zenon

\* CallControl::stop: the first decision stays.
LEMMA StopDecisions ==
  ASSUME DecisionTyped, DecisionInv, NEW c \in Calls, NEW e \in Errors, ErrKept,
         terminal' = [terminal EXCEPT ![c] = Stop(@, e)], UNCHANGED chan,
         \A d \in Calls : chan[d] = "sent" => result'[d] = result[d],
         \A d \in Calls : pc'[d] \in Stops => pc[d] \in Stops \/ d = c
  PROVE  DecisionInv' /\ KeepsOutcome
<1>1. /\ terminal'[c] # "none" /\ (terminal[c] # "none" => terminal'[c] = terminal[c])
      /\ terminal[c] = "none" => terminal'[c] \in Errors
      /\ \A d \in Calls : d # c => terminal'[d] = terminal[d]
  BY ErrorsApart DEF DecisionTyped, Stop
<1>2. ASSUME NEW d \in Calls PROVE Decided(d)'
  <2>1. Decided(d)
    BY <1>2, Zenon DEF DecisionInv
  <2> QED
    <3>1. pc'[d] \in Fails => err'[d] \in Errors
      BY <2>1, Zenon DEF Decided, ErrKept, Fails
    <3>2. pc'[d] \in Stops => terminal'[d] # "none"
      BY <1>1, <2>1, Zenon DEF Decided, Stops
    <3> QED
      BY <1>1, <1>2, <2>1, <3>1, <3>2, ErrorsApart, Zenon DEF Decided, Fails, Stops
<1>3. KeepsOutcome
  BY <1>1, Zenon DEF KeepsOutcome
<1> QED
  BY <1>2, <1>3, Zenon DEF DecisionInv

\* CallControl::finish: a call that was stopped reports its stop, another one r.
LEMMA FinishDecisions ==
  ASSUME DecisionTyped, DecisionInv, NEW c \in Calls, NEW r, Deliver(c, r), chan[c] = "empty", ErrKept,
         terminal[c] \in Errors \/ r \notin Interrupts \cup {"none", "WriteTimeout"},
         \A d \in Calls : pc'[d] \in Stops => pc[d] \in Stops
  PROVE  DecisionInv' /\ KeepsOutcome
<1>1. /\ chan'[c] = "sent" /\ terminal'[c] = FinishDecision(terminal[c]) /\ result'[c] = FinishResult(terminal[c], r)
      /\ \A d \in Calls : d # c => chan'[d] = chan[d] /\ terminal'[d] = terminal[d] /\ result'[d] = result[d]
  BY DEF Deliver, DecisionTyped
<1>2. \/ terminal[c] \in Errors /\ terminal'[c] = terminal[c] /\ result'[c] = terminal[c]
      \/ terminal[c] = "none" /\ terminal'[c] = "ok" /\ result'[c] = r /\ r \notin Interrupts \cup {"none", "WriteTimeout"}
  BY <1>1 DEF DecisionTyped, DecisionInv, Decided, FinishDecision, FinishResult
<1>3. ASSUME NEW d \in Calls PROVE Decided(d)'
  <2>1. Decided(d)
    BY <1>3, Zenon DEF DecisionInv
  <2>2. /\ chan'[d] = chan[d] /\ terminal'[d] = terminal[d] /\ result'[d] = result[d]
        \/ d = c
    BY <1>1, <1>3, Zenon
  <2>3. CASE d # c
    BY <1>3, <2>1, <2>2, <2>3 DEF Decided, ErrKept, Fails, Stops
  <2>4. CASE d = c
    <3>1. terminal'[c] \notin {"none"} /\ chan'[c] \notin {"empty", "closed"}
      BY <1>1, <1>2, ErrorsApart
    <3>2. pc'[c] \in Fails => err'[c] \in Errors
      BY <2>1, <2>4 DEF Decided, ErrKept, Fails
    <3>3. IF terminal'[c] \in Errors THEN result'[c] = terminal'[c]
          ELSE terminal'[c] = "ok" /\ result'[c] \notin Interrupts \cup {"none", "WriteTimeout"}
      BY <1>2, ErrorsApart
    <3> QED
      BY <2>4, <3>1, <3>2, <3>3 DEF Decided, Fails
  <2> QED
    BY <2>3, <2>4, Zenon
<1>4. KeepsOutcome
  BY <1>1, <1>2, Zenon DEF KeepsOutcome
<1> QED
  BY <1>3, <1>4, Zenon DEF DecisionInv

\* StopCall stops a call for an error.
LEMMA StopCallDecisions ==
  ASSUME DecisionTyped, DecisionInv, NEW c \in Calls, NEW e \in Errors, NEW p, StopCall(c, e, p),
         UNCHANGED <<chan, result>>
  PROVE  DecisionInv' /\ KeepsOutcome
<1>1. /\ pc'[c] = p /\ err'[c] = e
      /\ \A d \in Calls : d # c => pc'[d] = pc[d] /\ err'[d] = err[d]
  BY DEF StopCall, DecisionTyped
<1>2. ErrKept
  BY <1>1 DEF ErrKept, DecisionInv, Decided, Fails
<1> QED
  BY <1>1, <1>2, StopDecisions, Zenon DEF StopCall

\* A future that moves to a phase st outside of the stops.
LEMMA MoveDecisions ==
  ASSUME DecisionTyped, DecisionInv, NEW c \in Calls, NEW st, pc' = [pc EXCEPT ![c] = st], UNCHANGED <<terminal, chan>>,
         st \notin Stops, \A d \in Calls : chan[d] = "sent" => result'[d] = result[d],
         \A d \in Calls : d # c => err'[d] = err[d], st \in Fails => err'[c] \in Errors
  PROVE  DecisionInv' /\ KeepsOutcome
<1>1. pc'[c] = st /\ \A d \in Calls : d # c => pc'[d] = pc[d]
  BY DEF DecisionTyped
<1>2. ErrKept
  BY <1>1, Zenon DEF ErrKept
<1>3. \A d \in Calls : pc'[d] \in Stops => pc[d] \in Stops
  BY <1>1, Zenon
<1> QED
  BY <1>2, <1>3, SameDecisions, Zenon

\* A quiet step of a future decides at most that the call is stopped.
LEMMA QuietDecisions ==
  ASSUME Inv, NEW c \in Calls, Quiet(c)
  PROVE  DecisionInv' /\ KeepsOutcome
<1>1. DecisionTyped /\ DecisionInv
  BY InvDecisionTyped
<1>2. UNCHANGED <<chan, result>>
  BY QuietFrame, Zenon
<1>3. CASE WriteSome(c) \/ Cancel(c) \/ Deadline(c)
  <2>1. UNCHANGED <<pc, err, terminal, chan, result>>
    BY <1>3, Zenon DEF WriteSome, Cancel, Deadline, replyVars
  <2> QED
    BY <1>1, <2>1, IdleDecisions
<1>4. CASE LockWriter(c) \/ WriteDone(c) \/ (CheckOpen(c) /\ closed = "none" /\ writer)
  <2>1. PICK st \in {"locked", "await", "write"} : pc' = [pc EXCEPT ![c] = st]
    BY <1>4, Zenon DEF LockWriter, WriteDone, CheckOpen
  <2>2. UNCHANGED <<err, terminal>>
    BY <1>4, Zenon DEF LockWriter, WriteDone, CheckOpen, replyVars
  <2>3. st \notin Stops /\ st \notin Fails
    BY DEF Stops, Fails
  <2> QED
    BY <1>1, <1>2, <2>1, <2>2, <2>3, MoveDecisions, Zenon
<1>5. CASE Unwind(c)
  <2>1. err[c] \in Errors
    BY <1>1, <1>5 DEF Unwind, DecisionInv, Decided
  <2> QED
    BY <1>1, <1>2, <1>5, <2>1, StopCallDecisions, Zenon DEF Unwind
<1>6. CASE CheckOpen(c) /\ ~(closed = "none" /\ writer)
  <2>1. PICK e \in Errors : StopCall(c, e, "stopS")
    <3>1. "ConnectionClosed" \in Errors
      BY DEF Errors, ConnectionErrors
    <3> QED
      BY <1>6, <3>1, InvReasons, Zenon DEF CheckOpen
  <2> QED
    BY <1>1, <1>2, <2>1, StopCallDecisions, Zenon
<1>7. CASE AbandonLock(c) \/ InterruptWrite(c) \/ InterruptAwait(c) \/ DropFuture(c) \/ DropUnwind(c)
  <2>1. PICK e \in Errors, p \in Stops : StopCall(c, e, p)
    <3>1. "Cancelled" \in Errors
      BY DEF Errors, Interrupts
    <3> QED
      BY <1>7, <3>1, InvReasons, Zenon DEF AbandonLock, InterruptWrite, InterruptAwait, DropFuture, DropUnwind, Stops
  <2> QED
    BY <1>1, <1>2, <2>1, StopCallDecisions, Zenon
<1> QED
  BY <1>3, <1>4, <1>5, <1>6, <1>7, Zenon DEF Quiet

\* PendingCall::stop sends the decision that was taken.
LEMMA DetachDecisions ==
  ASSUME Inv, NEW c \in Calls, Detach(c)
  PROVE  DecisionInv' /\ KeepsOutcome
<1>1. DecisionTyped /\ DecisionInv /\ HolderInv
  BY InvDecisionTyped, Zenon DEF Inv, Rest
<1>2. pc[c] \in Stops /\ terminal[c] # "none"
  BY <1>1 DEF Detach, Stops, DecisionInv, Decided
<1>3. AfterStop(c) \notin Stops /\ (AfterStop(c) \in Fails => AfterStop(c) = "unwind" /\ pc[c] = "stopW")
  BY <1>2 DEF AfterStop, Stops, Fails
<1>4. err' = [err EXCEPT ![c] = IF AfterStop(c) = "unwind" THEN @ ELSE "none"]
  BY Zenon DEF Detach
<1>5. /\ \A d \in Calls : d # c => err'[d] = err[d]
      /\ AfterStop(c) = "unwind" => err'[c] = err[c]
  BY <1>1, <1>4 DEF DecisionTyped
<1>6. AfterStop(c) \in Fails => err'[c] \in Errors
  BY <1>1, <1>3, <1>5 DEF DecisionInv, Decided
<1>7. pc' = [pc EXCEPT ![c] = AfterStop(c)]
  BY Zenon DEF Detach
<1>8. CASE IsOwnEntry(c) /\ holder[c] = "registry"
  <2>1. Deliver(c, err[c]) /\ chan[c] = "empty"
    BY <1>1, <1>8, Zenon DEF Detach, HolderInv, HolderOf
  <2>2. terminal[c] \in Errors
    BY <1>1, <1>2, <2>1 DEF DecisionTyped, DecisionInv, Decided
  <2>3. pc'[c] = AfterStop(c) /\ \A d \in Calls : d # c => pc'[d] = pc[d]
    BY <1>1, <1>7 DEF DecisionTyped
  <2>4. ErrKept /\ \A d \in Calls : pc'[d] \in Stops => pc[d] \in Stops
    BY <1>3, <1>5, <1>6, <2>3, Zenon DEF ErrKept
  <2> QED
    BY <1>1, <2>1, <2>2, <2>4, FinishDecisions, Zenon
<1>9. CASE ~(IsOwnEntry(c) /\ holder[c] = "registry")
  <2>1. UNCHANGED <<terminal, chan, result>>
    BY <1>9, Zenon DEF Detach
  <2> QED
    BY <1>1, <1>3, <1>5, <1>6, <1>7, <2>1, MoveDecisions, Zenon
<1> QED
  BY <1>8, <1>9

\* A future that returns without a response reports the stop, or the closure.
LEMMA ReturnDecisions ==
  ASSUME Inv, NEW c \in Calls, Return(c)
  PROVE  DecisionInv' /\ KeepsOutcome
<1>1. DecisionTyped /\ DecisionInv
  BY InvDecisionTyped
<1>2. /\ pc'[c] = "done" /\ (chan[c] = "sent" => result'[c] = result[c])
      /\ \A d \in Calls : d # c => pc'[d] = pc[d] /\ result'[d] = result[d]
  BY <1>1 DEF Return, DecisionTyped
<1>3. UNCHANGED <<err, chan>> /\ terminal' = [terminal EXCEPT ![c] = Stop(@, "Cancelled")]
  BY Zenon DEF Return
<1>4. ErrKept /\ \A d \in Calls : pc'[d] \in Stops => pc[d] \in Stops
  BY <1>1, <1>2, <1>3 DEF ErrKept, Stops, Fails
<1>5. "Cancelled" \in Errors
  BY DEF Errors, Interrupts
<1> QED
  BY <1>1, <1>2, <1>3, <1>4, <1>5, StopDecisions, Zenon

\* Registration decides nothing; its refusal is told to the caller only.
LEMMA RegisterDecisions ==
  ASSUME Inv, NEW c \in Calls, Register(c)
  PROVE  DecisionInv' /\ KeepsOutcome
<1>1. DecisionTyped /\ DecisionInv /\ HolderInv
  BY InvDecisionTyped, Zenon DEF Inv, Rest
<1>2. chan[c] = "empty"
  <2>1. HolderOf(c) /\ pc[c] = "admitted"
    BY <1>1, Zenon DEF HolderInv, Register
  <2>2. holder[c] = "caller" /\ (chan[c] # "empty" => holder[c] = "gone")
    BY <2>1, Zenon DEF HolderOf
  <2> QED
    BY <2>2
<1>3. UNCHANGED <<err, terminal, chan>>
  BY Zenon DEF Register
<1>4. PICK st \in {"lock", "done"} : pc' = [pc EXCEPT ![c] = st]
  BY Zenon DEF Register
<1>5. \A d \in Calls : d # c => result'[d] = result[d]
  BY <1>1 DEF Register, DecisionTyped
<1>6. \A d \in Calls : chan[d] = "sent" => result'[d] = result[d]
  BY <1>2, <1>5
<1>7. st \notin Stops /\ st \notin Fails
  BY DEF Stops, Fails
<1> QED
  BY <1>1, <1>3, <1>4, <1>6, <1>7, MoveDecisions, Zenon

\* The decisions and outcomes agree after every step of a future,
LEMMA CallDecisions ==
  ASSUME Inv, NEW c \in Calls, CallStep(c) \/ CallEvent(c)
  PROVE  DecisionInv' /\ KeepsOutcome
<1>1. DecisionTyped /\ DecisionInv
  BY InvDecisionTyped
<1>2. CASE Quiet(c)
  BY <1>2, QuietDecisions
<1>3. CASE TryCall(c) \/ DropUnpolled(c) \/ DropWriting(c)
  <2>1. PICK st \in {"admitted", "dropped", "dropFailing", "dropUnwind"} : pc' = [pc EXCEPT ![c] = st]
    BY <1>3, Zenon DEF TryCall, DropUnpolled, DropWriting, AfterFail
  <2>2. UNCHANGED <<err, terminal, chan, result>>
    BY <1>3, Zenon DEF TryCall, DropUnpolled, DropWriting
  <2>3. st \notin Stops /\ st \notin Fails
    BY DEF Stops, Fails
  <2> QED
    BY <1>1, <2>1, <2>2, <2>3, MoveDecisions, Zenon
<1>4. CASE WriteError(c) \/ WriteClosed(c) \/ WriteTimeout(c)
  <2>1. PICK e \in Errors : WriteFailed(c, e)
    <3>1. "Transport" \in Errors /\ "WriteTimeout" \in Errors
      BY DEF Errors, ConnectionErrors
    <3> QED
      BY <1>4, <3>1, InvReasons, Zenon DEF WriteError, WriteClosed, WriteTimeout
  <2>2. PICK st \in {"unwind", "failing"} : pc' = [pc EXCEPT ![c] = st]
    BY <2>1, Zenon DEF WriteFailed, AfterFail
  <2>3. UNCHANGED <<terminal, chan, result>>
    BY <2>1, Zenon DEF WriteFailed
  <2>4. err'[c] = e /\ \A d \in Calls : d # c => err'[d] = err[d]
    BY <1>1, <2>1 DEF WriteFailed, DecisionTyped
  <2>5. st \notin Stops
    BY DEF Stops
  <2> QED
    BY <1>1, <2>2, <2>3, <2>4, <2>5, MoveDecisions, Zenon
<1>5. CASE Register(c)
  BY <1>5, RegisterDecisions
<1>6. CASE Detach(c)
  BY <1>6, DetachDecisions
<1>7. CASE Return(c)
  BY <1>7, ReturnDecisions
<1> QED
  BY <1>2, <1>3, <1>4, <1>5, <1>6, <1>7, Zenon DEF CallStep, CallEvent, Quiet

\* of State::fail,
LEMMA FailDecisions == ASSUME Inv, FailStep PROVE DecisionInv' /\ KeepsOutcome
<1>1. DecisionTyped /\ DecisionInv /\ HolderInv /\ PhaseInv
  BY InvDecisionTyped, Zenon DEF Inv, Rest
<1>2. CASE FailAdmission \/ FailPermit \/ FailDone
  <2>1. UNCHANGED <<pc, err, terminal, chan, result>>
    BY <1>2, Zenon DEF FailAdmission, FailPermit, FailDone, callVars, replyVars
  <2> QED
    BY <1>1, <2>1, IdleDecisions
<1>3. ASSUME NEW c \in Calls, FailCall(c) PROVE DecisionInv' /\ KeepsOutcome
  <2>1. closed \in Errors
    <3>1. closed # "none"
      BY <1>1, <1>3 DEF FailCall, PhaseInv
    <3> QED
      BY <1>3, <3>1, InvReasons, Zenon
  <2>2. UNCHANGED <<pc, err>> /\ terminal' = [terminal EXCEPT ![c] = Stop(@, closed)]
    BY <1>3, Zenon DEF FailCall, callVars
  <2>3. ErrKept
    BY <1>1, <2>2 DEF ErrKept, DecisionInv, Decided, Fails
  <2>4. CASE holder[c] # "failer"
    <3>1. UNCHANGED <<chan, result>>
      BY <1>3, <2>4, Zenon DEF FailCall
    <3> QED
      BY <1>1, <1>3, <2>1, <2>2, <2>3, <3>1, StopDecisions, Zenon
  <2>5. CASE holder[c] = "failer"
    <3>1. /\ chan' = [chan EXCEPT ![c] = "sent"]
          /\ result' = [result EXCEPT ![c] = FinishResult(Stop(terminal[c], closed), closed)]
      BY <1>3, <2>5, Zenon DEF FailCall
    <3>2. chan[c] = "empty" /\ terminal[c] # "ok"
      <4>1. HolderOf(c) /\ Decided(c)
        BY <1>1, <1>3, Zenon DEF HolderInv, DecisionInv
      <4>2. holder[c] # "gone"
        BY <2>5
      <4>3. chan[c] = "empty"
        BY <4>1, <4>2, Zenon DEF HolderOf
      <4> QED
        BY <4>1, <4>3, Zenon DEF Decided
    <3>3. Stop(terminal[c], closed) \in Errors
      BY <1>1, <1>3, <2>1, <3>2 DEF DecisionTyped, Stop
    <3>4. /\ terminal'[c] \in Errors /\ result'[c] = terminal'[c] /\ chan'[c] = "sent"
          /\ terminal[c] # "none" => terminal'[c] = terminal[c]
          /\ \A d \in Calls : d # c => terminal'[d] = terminal[d] /\ chan'[d] = chan[d] /\ result'[d] = result[d]
      BY <1>1, <1>3, <2>2, <3>1, <3>3 DEF DecisionTyped, Stop, FinishResult
    <3>5. ASSUME NEW d \in Calls PROVE Decided(d)'
      <4>1. Decided(d)
        BY <1>1, <3>5, Zenon DEF DecisionInv
      <4> QED
        BY <2>2, <3>4, <3>5, <4>1, ErrorsApart DEF Decided
    <3>6. KeepsOutcome
      BY <3>2, <3>4, Zenon DEF KeepsOutcome
    <3> QED
      BY <3>5, <3>6, Zenon DEF DecisionInv
  <2> QED
    BY <2>4, <2>5
<1> QED
  BY <1>2, <1>3, Zenon DEF FailStep

\* and of the reader and the owner of the transport.
LEMMA ReaderDecisions ==
  ASSUME Inv, ReaderStep \/ ReaderUnwinds \/ ReaderEvent \/ OwnerStep
  PROVE  DecisionInv' /\ KeepsOutcome
<1>1. DecisionTyped /\ DecisionInv /\ HolderInv /\ Typed
  BY InvDecisionTyped, InvTyped, Zenon DEF Inv, Rest
<1>2. CASE \/ ReadError \/ DropPermit \/ Drain \/ Cleanup \/ ReaderFails \/ ReaderLocks \/ ReaderTakesWriter
           \/ ReaderExit \/ ReaderExited \/ (\E c \in Calls : ReadXid(c)) \/ OwnerStep
           \/ (ReaderUnwinds /\ rpc # "recv")
  <2>1. UNCHANGED <<pc, err, terminal, chan, result>>
    BY <1>2, Zenon DEF ReadError, DropPermit, Drain, Cleanup, ReaderFails, ReaderLocks, ReaderTakesWriter, ReaderExit,
       ReaderExited, ReadXid, OwnerStep, Close, CloseAborts, DropTransport, DropState, ReaderUnwinds, callVars, replyVars
  <2> QED
    BY <1>1, <2>1, IdleDecisions
<1>3. ASSUME rpc = "recv" PROVE rtoken \in Calls /\ chan[rtoken] = "empty"
  BY <1>1, <1>3 DEF Typed, HolderInv, HolderOf
<1>4. ASSUME UNCHANGED <<pc, err>> PROVE ErrKept
  BY <1>4, Zenon DEF ErrKept
<1>5. CASE \/ ReceiveReply \/ ReceiveFailed \/ ReceiveOverflow \/ ReceiveStopped
           \/ (ReaderUnwinds /\ rpc = "recv" /\ TargetReturns)
  <2>1. rpc = "recv" /\ UNCHANGED <<pc, err>>
    BY <1>5, Zenon DEF ReceiveReply, ReceiveFailed, ReceiveOverflow, ReceiveStopped, Receive, ReaderUnwinds, callVars
  <2>2. PICK r : Deliver(rtoken, r) /\ (terminal[rtoken] \in Errors \/ r \in {"ok", "Transport", "Capacity", "ConnectionClosed"})
    BY <1>5, Zenon DEF ReceiveReply, ReceiveFailed, ReceiveOverflow, ReceiveStopped, Receive, ReaderUnwinds
  <2>3. terminal[rtoken] \in Errors \/ r \notin Interrupts \cup {"none", "WriteTimeout"}
    BY <2>2 DEF Interrupts
  <2> QED
    BY <1>1, <1>3, <1>4, <2>1, <2>2, <2>3, FinishDecisions, Zenon
<1>6. CASE ReaderUnwinds /\ rpc = "recv" /\ ~TargetReturns
  <2>1. UNCHANGED <<pc, err, terminal, result>> /\ chan' = [chan EXCEPT ![rtoken] = "closed"]
    BY <1>6, Zenon DEF ReaderUnwinds, callVars
  <2>2. rtoken \notin Segmented
    BY <1>6, Zenon DEF TargetReturns
  <2>3. chan'[rtoken] = "closed" /\ \A d \in Calls : d # rtoken => chan'[d] = chan[d]
    BY <1>1, <1>3, <1>6, <2>1 DEF DecisionTyped
  <2>4. ASSUME NEW d \in Calls PROVE Decided(d)'
    <3>1. Decided(d)
      BY <1>1, <2>4, Zenon DEF DecisionInv
    <3> QED
      BY <2>1, <2>2, <2>3, <2>4, <3>1 DEF Decided
  <2>5. KeepsOutcome
    BY <1>3, <1>6, <2>1, <2>3 DEF KeepsOutcome
  <2> QED
    BY <2>4, <2>5, Zenon DEF DecisionInv
<1> QED
  BY <1>2, <1>5, <1>6, Zenon DEF ReaderStep, ReaderEvent

-----------------------------------------------------------------------------
(* Phases *)

\* A future that is being polled keeps the State alive.
Served == ActivePhases \cup {"admitted"}

\* State::fail and the reader do nothing.
LEMMA PhasesSame ==
  ASSUME PhaseInv, UNCHANGED <<job, closed, todo, rpc, rerr, handle, alive>>,
         \A d \in Calls : pc'[d] \in Served => pc[d] \in Served \/ alive
  PROVE  PhaseInv'
  BY DEF PhaseInv, Served

\* Once State::fail has begun, only the phase that announces an error is left to see.
LEMMA PhasesFailed ==
  ASSUME PhaseInv, NEW e, Fail(e), e # "none", UNCHANGED <<handle, alive>>,
         \A d \in Calls : pc'[d] \in Served => pc[d] \in Served \/ alive,
         rpc' = "fail" => rerr' # "none"
  PROVE  PhaseInv'
  BY DEF PhaseInv, Served, Fail, failVars

\* What the phases say of the State holds after every step of a future,
LEMMA CallPhases == ASSUME Inv, NEW c \in Calls, CallStep(c) \/ CallEvent(c) PROVE PhaseInv'
<1>1. PhaseInv
  BY Zenon DEF Inv, Rest
<1>2. handle \/ pc[c] \in Served
  <2>1. CASE Quiet(c) \/ Breaks(c)
    BY <2>1, QuietWithin, BreakWithin, Zenon DEF Within, Served
  <2>2. CASE TryCall(c) \/ DropUnpolled(c) \/ Register(c) \/ Detach(c) \/ Return(c)
    BY <2>2, Zenon DEF TryCall, DropUnpolled, Register, Detach, Return, MayReturn, Served, ActivePhases, WriterPhases
  <2> QED
    BY <2>1, <2>2, Zenon DEF CallStep, CallEvent, Quiet, Breaks
<1>3. alive
  BY <1>1, <1>2, Zenon DEF PhaseInv, Served
<1>4. CASE Quiet(c) \/ TryCall(c) \/ DropUnpolled(c) \/ Register(c) \/ Detach(c) \/ Return(c)
  <2>1. UNCHANGED <<job, closed, todo, rpc, rerr, handle, alive>>
    BY <1>4, QuietFrame, Zenon
    DEF TryCall, DropUnpolled, Register, Detach, Return, failVars, readerVars, ownerVars
  <2> QED
    BY <1>1, <1>3, <2>1, PhasesSame, Zenon
<1>5. CASE Breaks(c)
  <2>1. PICK e : e # "none" /\ (Fail(e) \/ UNCHANGED <<failVars, holder>>)
    BY <1>5, BreakFrame
  <2>2. UNCHANGED <<rpc, rerr, handle, alive>>
    BY <1>5, BreakFrame, Zenon DEF readerVars, ownerVars
  <2>3. CASE Fail(e)
    <3>1. rpc' = "fail" => rerr' # "none"
      BY <1>1, <2>2, Zenon DEF PhaseInv
    <3> QED
      BY <1>1, <1>3, <2>1, <2>2, <2>3, <3>1, PhasesFailed, Zenon
  <2>4. CASE UNCHANGED <<failVars, holder>>
    BY <1>1, <1>3, <2>2, <2>4, PhasesSame, Zenon DEF failVars
  <2> QED
    BY <2>1, <2>3, <2>4
<1> QED
  BY <1>4, <1>5, Zenon DEF CallStep, CallEvent, Quiet, Breaks

\* of State::fail,
LEMMA FailPhases == ASSUME Inv, FailStep PROVE PhaseInv'
<1>1. PhaseInv
  BY Zenon DEF Inv, Rest
<1>2. UNCHANGED <<pc, closed, rpc, rerr, handle, alive>>
  BY Zenon DEF FailStep, FailAdmission, FailCall, FailPermit, FailDone, callVars, readerVars, ownerVars
<1>3. /\ job = "idle" <=> job' = "idle"
      /\ todo' # {} => todo # {} /\ job' \in {"admission", "pending"}
  BY <1>1, Zenon DEF FailStep, FailAdmission, FailCall, FailPermit, FailDone, PhaseInv
<1> QED
  BY <1>1, <1>2, <1>3 DEF PhaseInv

\* and of the reader and the owner of the transport.
LEMMA ReaderPhasesKept ==
  ASSUME Inv, ReaderStep \/ ReaderUnwinds \/ ReaderEvent \/ OwnerStep
  PROVE  PhaseInv'
<1>1. PhaseInv
  BY Zenon DEF Inv, Rest
<1>2. CASE \/ ReadError \/ DropPermit \/ Drain \/ Cleanup \/ ReaderLocks \/ ReaderTakesWriter \/ ReaderExited
           \/ ReceiveReply \/ ReceiveFailed \/ ReceiveOverflow \/ ReceiveStopped \/ ReaderUnwinds
           \/ (\E c \in Calls : ReadXid(c)) \/ ((ReaderFails \/ ReaderExit) /\ ~alive)
  <2>1. UNCHANGED <<pc, job, closed, todo, handle, alive>>
    BY <1>2, Zenon DEF ReadError, DropPermit, Drain, Cleanup, ReaderLocks, ReaderTakesWriter, ReaderExited,
       ReceiveReply, ReceiveFailed, ReceiveOverflow, ReceiveStopped, Receive, ReaderUnwinds, ReadXid, ReaderFails,
       ReaderExit, callVars, failVars, ownerVars
  <2>2. /\ rpc' \in {"failing", "lockwait", "exitFailing", "exitLock"} => closed # "none"
        /\ rpc' = "exited" /\ alive => closed # "none"
        /\ rpc' = "fail" => rerr' # "none"
    <3>1. CASE ReadError \/ DropPermit \/ Drain \/ Cleanup \/ ReaderLocks \/ ReaderTakesWriter \/ ReaderExited
      BY <1>1, <3>1 DEF PhaseInv, ReadError, DropPermit, Drain, Cleanup, ReaderLocks, ReaderTakesWriter, ReaderExited
    <3>2. CASE \/ ReceiveReply \/ ReceiveFailed \/ ReceiveOverflow \/ ReceiveStopped \/ ReaderUnwinds
               \/ (\E c \in Calls : ReadXid(c)) \/ ((ReaderFails \/ ReaderExit) /\ ~alive)
      <4>1. rpc' \in {"permit", "exit", "recv", "drain"} \/ (rpc' = "exited" /\ ~alive)
        BY <3>2, Zenon DEF ReceiveReply, ReceiveFailed, ReceiveOverflow, ReceiveStopped, Receive, ReaderUnwinds,
           ReadXid, ReaderFails, ReaderExit
      <4> QED
        BY <4>1
    <3> QED
      BY <1>2, <3>1, <3>2, Zenon
  <2> QED
    BY <1>1, <2>1, <2>2 DEF PhaseInv
<1>3. CASE ((ReaderFails \/ ReaderExit) /\ alive) \/ Close
  <2>1. PICK e : e # "none" /\ Fail(e)
    BY <1>1, <1>3 DEF ReaderFails, ReaderExit, Close, PhaseInv
  <2>2. UNCHANGED <<pc, alive, handle>>
    BY <1>3, Zenon DEF ReaderFails, ReaderExit, Close, callVars, ownerVars
  <2>3. rpc' = "fail" => rerr' # "none"
    BY <1>1, <1>3 DEF ReaderFails, ReaderExit, AfterFail, Close, readerVars, PhaseInv
  <2> QED
    BY <1>1, <2>1, <2>2, <2>3, PhasesFailed, Zenon
<1>4. CASE CloseAborts
  <2>1. UNCHANGED <<pc, job, closed, todo, rpc, rerr, handle, alive>>
    BY <1>4, Zenon DEF CloseAborts, callVars, failVars, readerVars
  <2> QED
    BY <1>1, <2>1, PhasesSame, Zenon
<1>5. CASE DropTransport
  <2>1. UNCHANGED <<pc, job, closed, todo, rpc, rerr, alive>> /\ handle' = FALSE
    BY <1>5, Zenon DEF DropTransport, callVars, failVars, readerVars
  <2> QED
    BY <1>1, <2>1 DEF PhaseInv
<1>6. CASE DropState
  <2>1. UNCHANGED <<pc, job, closed, todo, rpc, rerr, handle>> /\ alive' = FALSE
    BY <1>6, Zenon DEF DropState, callVars, failVars, readerVars
  <2>2. ~handle /\ \A c \in Calls : pc[c] \notin ActivePhases \cup {"admitted"}
    BY <1>6 DEF DropState, OwnsState, ActivePhases, WriterPhases
  <2> QED
    BY <1>1, <2>1, <2>2 DEF PhaseInv
<1> QED
  BY <1>2, <1>3, <1>4, <1>5, <1>6, Zenon DEF ReaderStep, ReaderEvent, OwnerStep

-----------------------------------------------------------------------------
\* Every step keeps what the invariant says beyond the types, and every outcome.
LEMMA RestStep == ASSUME Inv, [Next]_vars PROVE Rest' /\ KeepsOutcome
<1>1. ASSUME NEW c \in Calls, CallStep(c) \/ CallEvent(c) PROVE Rest' /\ KeepsOutcome
  BY <1>1, CallSenders, CallDecisions, CallPhases, Zenon DEF Rest
<1>2. CASE FailStep
  BY <1>2, FailSenders, FailDecisions, FailPhases, Zenon DEF Rest
<1>3. CASE ReaderStep \/ ReaderUnwinds \/ ReaderEvent \/ OwnerStep
  BY <1>3, ReaderSenders, ReaderDecisions, ReaderPhasesKept, Zenon DEF Rest
<1>4. CASE UNCHANGED vars
  <2>1. UNCHANGED <<pc, err, holder, chan, entry, closed, todo, failing, rtoken, rpc, terminal, result>>
    BY <1>4, Zenon DEF vars, callVars, replyVars, failVars, readerVars
  <2>2. UNCHANGED <<job, closed, todo, rpc, rerr, handle, alive>>
    BY <1>4, Zenon DEF vars, failVars, readerVars, ownerVars
  <2>3. Typed /\ HolderInv /\ EntryInv /\ PhaseInv /\ DecisionInv
    BY InvTyped, Zenon DEF Inv, Rest
  <2>4. HolderInv' /\ EntryInv'
    BY <2>1, <2>3, PcSame, SendersSame, Zenon
  <2>5. PhaseInv'
    BY <2>1, <2>2, <2>3, PhasesSame, Zenon
  <2>6. DecisionInv' /\ KeepsOutcome
    BY <2>1, <2>3, IdleDecisions, Zenon
  <2> QED
    BY <2>4, <2>5, <2>6, Zenon DEF Rest
<1> QED
  BY <1>1, <1>2, <1>3, <1>4, Zenon DEF Next

-----------------------------------------------------------------------------
\* Every step keeps the inductive invariant.
LEMMA InvStep == Inv /\ [Next]_vars => Inv'
  BY TypeStep, RestStep DEF Inv

\* The inductive invariant holds in every reachable state.
THEOREM Invariance == Spec => []Inv
<1>1. Init => Inv
  BY InitInv
<1> QED
  BY <1>1, InvStep, PTL DEF Spec

\* Callers, reader and State::fail never remove or replace each other's entries.
THEOREM RegistryOwned == Spec => []RegistryOwnership
<1>1. Inv => RegistryOwnership
  BY Zenon DEF Inv, Rest, HolderInv, HolderOf, EntryInv, EntryOf, RegistryOwnership
<1> QED
  BY <1>1, Invariance, PTL

\* Nothing is registered once the connection is terminal.
THEOREM ClosedFinal == Spec => []ClosedIsFinal
<1>1. Inv => ClosedIsFinal
  BY DEF Inv, Rest, EntryInv, EntryOf, ClosedIsFinal
<1> QED
  BY <1>1, Invariance, PTL

\* The reader finds the sender of every call that is registered under the XID.
THEOREM IdleReader == Spec => []IdleReaderSeesSenders
<1>1. Inv => IdleReaderSeesSenders
  <2> SUFFICES ASSUME Inv, rpc = "idle", NEW x \in Xids, entry[x] # NoCall
               PROVE  holder[entry[x]] = "registry"
    BY DEF IdleReaderSeesSenders
  <2>1. HolderInv /\ EntryInv /\ entry[x] \in Calls
    BY InvTyped DEF Inv, Rest, Typed
  <2>2. holder[entry[x]] # "reader"
    BY <2>1 DEF HolderInv, HolderOf
  <2> QED
    BY <2>1, <2>2 DEF EntryInv, EntryOf
<1> QED
  BY <1>1, Invariance, PTL

\* No waiting future is forgotten: some party is still bound to answer it.
THEOREM Waiters == Spec => []WaitersHaveDeliverers
<1>1. Inv => WaitersHaveDeliverers
  <2> SUFFICES ASSUME Inv, NEW c \in Calls, pc[c] \in {"await", "stopwait"}, chan[c] = "empty"
               PROVE  \/ holder[c] = "registry" /\ entry[XidOf[c]] = c /\ rpc # "exited"
                      \/ holder[c] = "reader" /\ rpc = "recv" /\ rtoken = c
                      \/ holder[c] = "failer" /\ c \in todo /\ job \in {"admission", "pending"}
    BY DEF WaitersHaveDeliverers
  <2>1. Typed /\ HolderInv /\ EntryInv /\ PhaseInv
    BY InvTyped, Zenon DEF Inv, Rest
  <2>2. pc[c] \in ActivePhases
    BY DEF ActivePhases
  <2>3. holder[c] \in {"registry", "reader", "failer"}
    BY <2>1, <2>2 DEF Typed, HolderInv, HolderOf, Holders
  <2>4. CASE holder[c] = "registry"
    <3>1. XidOf[c] \in Xids /\ c # NoCall
      BY <2>1, Zenon DEF Typed
    <3>2. entry[XidOf[c]] = c
      BY <2>1, <2>4, Zenon DEF HolderInv, HolderOf
    <3>3. closed = "none"
      BY <2>1, <3>1, <3>2, Zenon DEF EntryInv, EntryOf
    <3>4. alive
      BY <2>1, <2>2, Zenon DEF PhaseInv
    <3>5. rpc # "exited"
      BY <2>1, <3>3, <3>4, Zenon DEF PhaseInv
    <3> QED
      BY <2>4, <3>2, <3>5, Zenon
  <2>5. CASE holder[c] = "reader"
    BY <2>1, <2>5, Zenon DEF HolderInv, HolderOf
  <2>6. CASE holder[c] = "failer"
    <3>1. c \in todo
      BY <2>1, <2>6, Zenon DEF HolderInv, HolderOf
    <3> QED
      BY <2>1, <2>6, <3>1 DEF PhaseInv
  <2> QED
    BY <2>3, <2>4, <2>5, <2>6, Zenon
<1> QED
  BY <1>1, Invariance, PTL

\* After a future has returned, nobody else holds its receiver, and a call_into whose
\* receiver was lent has been sent it back.
THEOREM ReturnIsQuiescent == Spec => []QuiescentReturn
<1>1. ASSUME Inv, NEW c \in Calls, pc[c] = "done"
      PROVE  holder[c] = "caller" \/ (holder[c] = "gone" /\ (c \in Segmented => chan[c] = "sent"))
  <2>1. HolderOf(c) /\ Decided(c)
    BY <1>1, Zenon DEF Inv, Rest, HolderInv, DecisionInv
  <2>2. chan[c] \in {"empty", "sent", "closed"}
    BY <1>1, Zenon DEF Inv, TypeOK
  <2> QED
    BY <1>1, <2>1, <2>2, Zenon DEF HolderOf, Decided
<1>2. Inv => QuiescentReturn
  BY <1>1, Zenon DEF QuiescentReturn
<1> QED
  BY <1>2, Invariance, PTL

\* The outcome sent to a call is the one CallControl decided.
THEOREM OutcomeDecided == Spec => []DecidedOutcome
<1>1. Inv => DecidedOutcome
  BY DEF Inv, Rest, DecisionInv, Decided, DecidedOutcome
<1> QED
  BY <1>1, Invariance, PTL

\* A decision, once taken, and an outcome, once sent, are final.
THEOREM OutcomeFinal == Spec => OneOutcome
<1>1. Inv /\ [Next]_vars => KeepsOutcome
  BY RestStep
<1> QED
  BY <1>1, Invariance, PTL DEF Spec, OneOutcome
=============================================================================
