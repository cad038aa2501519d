------------------------- MODULE OwnedWriterProofs --------------------------
(***************************************************************************)
(* Proofs about the stream of OwnedTransport: WriterInv, the write half    *)
(* and its mutex, and HealthInv, what may end a connection.  Both rest on  *)
(* the inductive invariant Inv of OwnedTransportProofs.                    *)
(***************************************************************************)
EXTENDS OwnedTransportProofs

\* What the phase of a call says of the writer slot and of the bytes of its frame:
\* the slot is full while it writes, and empty once it left a torn frame behind.
FrameOf(c) ==
    /\ pc[c] \in {"write", "stopW", "finish"} => writer
    /\ pc[c] \in {"idle", "admitted", "lock", "locked"} => wrote[c] = "none"
    /\ pc[c] \in {"failing", "dropFailing"} => closed # "none"
    /\ pc[c] \in {"unwind", "dropUnwind"} /\ wrote[c] # "none" => closed # "none"
    /\ wrote[c] = "part" /\ pc[c] \notin WriterPhases => ~writer

\* The writer mutex has one owner, and every frame is accounted for.
WriterInv ==
    /\ \A c, d \in Calls : pc[c] \in WriterPhases /\ pc[d] \in WriterPhases => c = d
    /\ \A c \in Calls : FrameOf(c)

-----------------------------------------------------------------------------
(* The writer *)

StreamTyped == pc \in [Calls -> Phases] /\ wrote \in [Calls -> {"none", "part", "all"}]

\* The connection stays closed, and only futures take and fill the writer slot.
Onwards == (closed # "none" => closed' # "none") /\ (writer' => writer)

\* State::fail does not reopen a connection.
LEMMA FailOnwards ==
  ASSUME NEW e, e # "none", Fail(e) \/ UNCHANGED <<failVars, holder>>
  PROVE  closed # "none" => closed' # "none"
  BY Zenon DEF Fail, failVars

\* No future moves: who takes the writer does not take it from a call that writes.
LEMMA WriterKept ==
  ASSUME WriterInv, UNCHANGED <<pc, wrote>>, Onwards,
         writer' = writer \/ WriterFree
  PROVE  WriterInv'
<1>1. \A c \in Calls : pc[c] \in {"write", "stopW", "finish"} => pc[c] \in WriterPhases
  BY Zenon DEF WriterPhases
<1>2. ASSUME NEW c \in Calls PROVE FrameOf(c)'
  BY <1>1, <1>2 DEF WriterInv, FrameOf, Onwards, WriterFree
<1> QED
  BY <1>2, Zenon DEF WriterInv

\* A future moves to phase st without touching its frame.
LEMMA WriterMoves ==
  ASSUME StreamTyped, WriterInv, Onwards, NEW c \in Calls, NEW st, pc' = [pc EXCEPT ![c] = st], UNCHANGED wrote,
         st \in WriterPhases => pc[c] \in WriterPhases \/ WriterFree,
         writer' = writer \/ pc[c] \in WriterPhases,
         FrameOf(c)'
  PROVE  WriterInv'
<1>1. pc'[c] = st /\ \A d \in Calls : d # c => pc'[d] = pc[d]
  BY DEF StreamTyped
<1>2. ASSUME NEW d \in Calls, d # c PROVE FrameOf(d)'
  <2>1. FrameOf(d) /\ (pc[d] \in {"write", "stopW", "finish"} => pc[d] \in WriterPhases)
    BY <1>2, Zenon DEF WriterInv, WriterPhases
  <2>2. pc[d] \in WriterPhases => writer' = writer
    BY <1>2, Zenon DEF WriterInv
  <2> QED
    BY <1>1, <1>2, <2>1, <2>2 DEF FrameOf, Onwards
<1>3. ASSUME NEW d \in Calls, NEW e \in Calls, pc'[d] \in WriterPhases, pc'[e] \in WriterPhases PROVE d = e
  BY <1>1, <1>3, Zenon DEF WriterInv, WriterFree
<1> QED
  BY <1>2, <1>3, Zenon DEF WriterInv

\* A future outside of the writer mutex.
LEMMA OutsideMoves ==
  ASSUME StreamTyped, WriterInv, NEW c \in Calls, NEW st, pc' = [pc EXCEPT ![c] = st], UNCHANGED <<wrote, closed, writer>>,
         pc[c] \notin WriterPhases, st \notin WriterPhases,
         st \in {"idle", "admitted", "lock"} => pc[c] \in {"idle", "admitted"}
  PROVE  WriterInv'
<1>1. pc'[c] = st
  BY DEF StreamTyped
<1>2. FrameOf(c) /\ st \notin {"write", "stopW", "finish", "locked", "failing", "dropFailing", "unwind", "dropUnwind"}
  BY Zenon DEF WriterInv, WriterPhases
<1>3. FrameOf(c)'
  BY <1>1, <1>2 DEF FrameOf
<1> QED
  BY <1>3, WriterMoves, Zenon DEF Onwards

\* Every step of a future keeps the writer and the frames,
LEMMA CallWriter ==
  ASSUME Inv, WriterInv, NEW c \in Calls, CallStep(c) \/ CallEvent(c)
  PROVE  WriterInv'
<1>1. StreamTyped
  BY Zenon DEF Inv, TypeOK, StreamTyped
<1>2. FrameOf(c)
  BY Zenon DEF WriterInv
<1>3. CASE WriteSome(c)
  <2>1. pc[c] \in {"write", "finish"} /\ UNCHANGED <<pc, writer, closed>>
    BY <1>3, Zenon DEF WriteSome, failVars
  <2>2. \A d \in Calls : d # c => wrote'[d] = wrote[d]
    BY <1>1, <1>3 DEF WriteSome, StreamTyped
  <2>3. FrameOf(c)'
    BY <1>2, <2>1 DEF FrameOf, WriterPhases
  <2>4. ASSUME NEW d \in Calls, d # c PROVE FrameOf(d)'
    BY <2>1, <2>2, <2>4 DEF WriterInv, FrameOf
  <2> QED
    BY <2>1, <2>3, <2>4, Zenon DEF WriterInv
<1>4. CASE Cancel(c) \/ Deadline(c)
  <2>1. UNCHANGED <<pc, wrote, closed, writer>>
    BY <1>4, Zenon DEF Cancel, Deadline, failVars
  <2> QED
    BY <2>1, WriterKept, Zenon DEF Onwards
<1>5. CASE \/ TryCall(c) \/ DropUnpolled(c) \/ Register(c) \/ AbandonLock(c) \/ InterruptAwait(c) \/ Return(c)
           \/ DropFuture(c)
  <2>1. UNCHANGED <<wrote, closed, writer>>
    BY <1>5, Zenon DEF TryCall, DropUnpolled, Register, AbandonLock, InterruptAwait, Return, DropFuture, failVars
  <2>2. PICK st \in {"admitted", "lock", "dropped", "done", "stopS", "stopA", "stopD"} :
           pc' = [pc EXCEPT ![c] = st] /\ (st \in {"admitted", "lock"} => pc[c] \in {"idle", "admitted"})
    BY <1>5, Zenon DEF TryCall, DropUnpolled, Register, AbandonLock, InterruptAwait, Return, DropFuture, StopCall
  <2>3. pc[c] \in {"idle", "admitted", "lock", "await", "stopwait"}
    BY <1>5, Zenon DEF TryCall, DropUnpolled, Register, AbandonLock, InterruptAwait, Return, DropFuture, MayReturn
  <2>4. pc[c] \notin WriterPhases /\ st \notin WriterPhases /\ st # "idle"
    BY <2>3 DEF WriterPhases
  <2> QED
    BY <1>1, <2>1, <2>2, <2>4, OutsideMoves, Zenon
<1>6. CASE Detach(c) /\ pc[c] # "stopW"
  <2>1. UNCHANGED <<wrote, closed, writer>> /\ pc' = [pc EXCEPT ![c] = AfterStop(c)]
    BY <1>6, Zenon DEF Detach
  <2>2. /\ pc[c] \notin WriterPhases /\ AfterStop(c) \notin WriterPhases
        /\ AfterStop(c) \notin {"idle", "admitted", "lock"}
    BY <1>6 DEF Detach, AfterStop, WriterPhases
  <2> QED
    BY <1>1, <2>1, <2>2, OutsideMoves, Zenon
<1>7. CASE LockWriter(c)
  <2>1. WriterFree /\ pc[c] = "lock" /\ pc' = [pc EXCEPT ![c] = "locked"] /\ UNCHANGED <<wrote, closed, writer>>
    BY <1>7, Zenon DEF LockWriter, failVars
  <2>2. pc'[c] = "locked"
    BY <1>1, <2>1 DEF StreamTyped
  <2>3. FrameOf(c)'
    BY <1>2, <2>1, <2>2 DEF FrameOf
  <2> QED
    BY <1>1, <2>1, <2>3, WriterMoves, Zenon DEF Onwards
<1>8. CASE CheckOpen(c) \/ InterruptWrite(c) \/ (Detach(c) /\ pc[c] = "stopW")
  <2>1. UNCHANGED <<wrote, closed, writer>>
    BY <1>8, Zenon DEF CheckOpen, InterruptWrite, Detach, failVars
  <2>2. PICK st \in {"write", "stopS", "stopW", "finish", "unwind"} : pc' = [pc EXCEPT ![c] = st]
    BY <1>8, Zenon DEF CheckOpen, InterruptWrite, Detach, AfterStop, StopCall
  <2>3. pc'[c] = st
    BY <1>1, <2>2 DEF StreamTyped
  <2>4. /\ pc[c] \in {"locked", "write", "stopW"} /\ (pc[c] = "locked" => st \in {"write", "stopS"})
        /\ (pc[c] \in {"write", "stopW"} => st \in {"stopW", "finish", "unwind"})
        /\ (st = "write" => writer) /\ (st = "unwind" => wrote[c] = "none")
    BY <1>1, <1>8, <2>3 DEF CheckOpen, InterruptWrite, Detach, AfterStop, FrameTorn, StopCall, StreamTyped
  <2>5. FrameOf(c)' /\ pc[c] \in WriterPhases
    BY <1>2, <2>1, <2>3, <2>4 DEF FrameOf, WriterPhases
  <2> QED
    BY <1>1, <2>1, <2>2, <2>5, WriterMoves, Zenon DEF Onwards
<1>9. CASE WriteDone(c) \/ Unwind(c) \/ DropUnwind(c)
  <2>1. PICK st \in {"await", "stopS", "stopD"} : pc' = [pc EXCEPT ![c] = st]
    BY <1>9, Zenon DEF WriteDone, Unwind, DropUnwind, StopCall
  <2>2. UNCHANGED <<wrote, closed>> /\ (writer' => writer) /\ (closed # "none" => ~writer')
    BY <1>9, Zenon DEF WriteDone, Unwind, DropUnwind, ReleaseFrame, failVars
  <2>3. /\ pc[c] \in {"write", "finish", "unwind", "failing", "dropUnwind", "dropFailing"}
        /\ pc[c] \in {"write", "finish"} => wrote[c] = "all"
    BY <1>9 DEF WriteDone, Unwind, DropUnwind
  <2>4. pc'[c] = st
    BY <1>1, <2>1 DEF StreamTyped
  <2>5. FrameOf(c)' /\ pc[c] \in WriterPhases
    BY <1>2, <2>2, <2>3, <2>4 DEF FrameOf, WriterPhases
  <2> QED
    BY <1>1, <2>1, <2>2, <2>5, WriterMoves, Zenon DEF Onwards, WriterPhases
<1>10. CASE WriteError(c) \/ WriteClosed(c) \/ WriteTimeout(c) \/ DropWriting(c)
  <2>1. PICK e : e # "none" /\ (Fail(e) \/ UNCHANGED <<failVars, holder>>) /\ (FrameTorn(c) => Fail(e))
    BY <1>10, Zenon DEF WriteError, WriteClosed, WriteTimeout, DropWriting, WriteFailed, Harmless
  <2>2. UNCHANGED <<wrote, writer>> /\ pc[c] \in {"write", "finish"}
    BY <1>10, Zenon DEF WriteError, WriteClosed, WriteTimeout, DropWriting, WriteFailed
  <2>3. PICK st \in {"unwind", "failing", "dropUnwind", "dropFailing"} : pc' = [pc EXCEPT ![c] = st]
    BY <1>10, Zenon DEF WriteError, WriteClosed, WriteTimeout, DropWriting, WriteFailed, AfterFail
  <2>4. pc'[c] = st
    BY <1>1, <2>3 DEF StreamTyped
  <2>5. st \in {"failing", "dropFailing"} => closed' # "none"
    <3>1. ASSUME Fail(e) PROVE closed' # "none"
      BY <2>1, <3>1, Zenon DEF Fail, failVars
    <3>2. st \in {"failing", "dropFailing"} => \E f : f # "none" /\ Fail(f)
      BY <1>1, <1>10, <2>4 DEF WriteError, WriteClosed, WriteTimeout, DropWriting, WriteFailed, StreamTyped
    <3> QED
      BY <3>2, Zenon DEF Fail, failVars
  <2>6. FrameTorn(c) => closed' # "none"
    BY <2>1, Zenon DEF Fail, failVars
  <2>7. FrameOf(c)' /\ pc[c] \in WriterPhases
    BY <2>2, <2>4, <2>5, <2>6 DEF FrameOf, FrameTorn, WriterPhases
  <2> QED
    BY <1>1, <2>1, <2>2, <2>3, <2>7, FailOnwards, WriterMoves, Zenon DEF Onwards
<1> QED
  BY <1>3, <1>4, <1>5, <1>6, <1>7, <1>8, <1>9, <1>10, Zenon DEF CallStep, CallEvent

\* Every step keeps the writer mutex exclusive and a torn stream unusable.
LEMMA WriterStep == ASSUME Inv, WriterInv, [Next]_vars PROVE WriterInv'
<1>1. ASSUME NEW c \in Calls, CallStep(c) \/ CallEvent(c) PROVE WriterInv'
  BY <1>1, CallWriter
<1>2. CASE FailStep \/ UNCHANGED vars
  <2>1. UNCHANGED <<pc, wrote, closed, writer>>
    BY <1>2, Zenon DEF FailStep, FailAdmission, FailCall, FailPermit, FailDone, vars, callVars, failVars
  <2> QED
    BY <2>1, WriterKept, Zenon DEF Onwards
<1>3. CASE ReaderStep \/ ReaderUnwinds \/ ReaderEvent \/ OwnerStep
  <2>1. UNCHANGED <<pc, wrote>>
    <3>1. CASE ReaderStep \/ ReaderUnwinds
      BY <3>1, Zenon DEF ReaderStep, ReceiveStopped, DropPermit, Cleanup, ReaderFails, ReaderLocks,
         ReaderTakesWriter, ReaderExit, ReaderExited, ReaderUnwinds, callVars
    <3>2. CASE ReaderEvent \/ OwnerStep
      BY <3>2, Zenon DEF ReaderEvent, ReadXid, ReadError, ReceiveReply, ReceiveFailed, ReceiveOverflow, Receive, Drain,
         OwnerStep, Close, CloseAborts, DropTransport, DropState, callVars
    <3> QED
      BY <1>3, <3>1, <3>2
  <2>2. closed # "none" => closed' # "none"
    <3>1. CASE ReaderStep \/ ReaderUnwinds
      BY <3>1, Zenon DEF ReaderStep, ReceiveStopped, DropPermit, Cleanup, ReaderFails, ReaderLocks,
         ReaderTakesWriter, ReaderExit, ReaderExited, ReaderUnwinds, Fail, failVars
    <3>2. CASE ReaderEvent \/ OwnerStep
      BY <3>2, Zenon DEF ReaderEvent, ReadXid, ReadError, ReceiveReply, ReceiveFailed, ReceiveOverflow, Receive, Drain,
         OwnerStep, Close, CloseAborts, DropTransport, DropState, Fail, failVars
    <3> QED
      BY <1>3, <3>1, <3>2
  <2>3. writer' = writer \/ (WriterFree /\ ~writer')
    <3>1. CASE ReaderTakesWriter \/ ReaderExited \/ CloseAborts
      <4>1. writer \in BOOLEAN
        BY Zenon DEF Inv, TypeOK
      <4> QED
        BY <3>1, <4>1, Zenon DEF ReaderTakesWriter, ReaderExited, CloseAborts, TryTakeWriter
    <3>2. CASE DropState
      BY <3>2 DEF DropState, OwnsState, WriterFree, WriterPhases
    <3>3. CASE \/ ReaderUnwinds \/ ReaderEvent \/ ReceiveStopped \/ DropPermit \/ Cleanup \/ ReaderFails \/ ReaderLocks
               \/ ReaderExit \/ Close \/ DropTransport
      BY <3>3, Zenon DEF ReaderUnwinds, ReaderEvent, ReadXid, ReadError, ReceiveReply, ReceiveFailed, ReceiveOverflow,
         Receive, Drain, ReceiveStopped, DropPermit, Cleanup, ReaderFails, ReaderLocks, ReaderExit, Close, DropTransport
    <3> QED
      BY <1>3, <3>1, <3>2, <3>3, Zenon DEF ReaderStep, OwnerStep
  <2>4. writer' => writer
    BY <2>3, Zenon
  <2> QED
    BY <2>1, <2>2, <2>3, <2>4, WriterKept, Zenon DEF Onwards
<1> QED
  BY <1>1, <1>2, <1>3, Zenon DEF Next

-----------------------------------------------------------------------------
\* One call at a time owns the writer, and a torn frame leaves no writer behind.
THEOREM WriterSafe == Spec => []WriterInv
<1>1. Init => WriterInv
  BY DEF Init, WriterInv, FrameOf, WriterPhases
<1>2. Inv /\ WriterInv /\ [Next]_vars => WriterInv'
  BY WriterStep
<1> QED
  BY <1>1, <1>2, Invariance, PTL DEF Spec

\* Only WriteSome writes bytes.
LEMMA OnlyWriteSomeWrites == ASSUME [Next]_vars PROVE wrote' = wrote \/ \E c \in Calls : WriteSome(c)
<1> USE DEF callVars
<1>1. CASE UNCHANGED vars
  BY <1>1, Zenon DEF vars
<1>2. ASSUME NEW c \in Calls, CallStep(c) PROVE wrote' = wrote
  BY <1>2, Zenon DEF CallStep, AbandonLock, LockWriter, CheckOpen, InterruptWrite, WriteClosed,
     WriteTimeout, WriteFailed, Unwind, Detach, InterruptAwait, Return, DropUnwind
<1>3. ASSUME NEW c \in Calls, CallEvent(c) PROVE wrote' = wrote \/ WriteSome(c)
  BY <1>3, Zenon DEF CallEvent, TryCall, DropUnpolled, Register, WriteDone, WriteError, WriteFailed, DropFuture,
     DropWriting, Cancel, Deadline
<1>4. CASE FailStep
  BY <1>4, Zenon DEF FailStep, FailAdmission, FailCall, FailPermit, FailDone
<1>5. CASE ReaderStep \/ ReaderUnwinds
  BY <1>5, Zenon DEF ReaderStep, ReceiveStopped, DropPermit, Cleanup, ReaderFails, ReaderLocks,
     ReaderTakesWriter, ReaderExit, ReaderExited, ReaderUnwinds
<1>6. CASE ReaderEvent
  BY <1>6, Zenon DEF ReaderEvent, ReadXid, ReadError, ReceiveReply, ReceiveFailed, ReceiveOverflow,
     Receive, Drain
<1>7. CASE OwnerStep
  BY <1>7, Zenon DEF OwnerStep, Close, CloseAborts, DropTransport, DropState
<1> QED
  BY <1>1, <1>2, <1>3, <1>4, <1>5, <1>6, <1>7, Zenon DEF Next

\* After a torn frame no other call ever writes to the stream.
THEOREM TornFrameIsLast == Spec => NoFrameAfterTear
<1>1. Inv /\ WriterInv /\ [Next]_vars =>
        \A c \in Calls : wrote'[c] # wrote[c] => \A d \in Calls \ {c} : wrote[d] # "part"
  <2> SUFFICES ASSUME Inv, WriterInv, [Next]_vars, NEW c \in Calls, wrote'[c] # wrote[c],
                      NEW d \in Calls \ {c}, wrote[d] = "part"
               PROVE  FALSE
    OBVIOUS
  <2>1. PICK e \in Calls : WriteSome(e)
    BY OnlyWriteSomeWrites
  <2>2. e = c /\ pc[c] \in {"write", "finish"}
    BY <2>1 DEF WriteSome, Inv, TypeOK
  <2>3. writer /\ pc[d] \notin WriterPhases
    BY <2>2 DEF WriterInv, FrameOf, WriterPhases
  <2> QED
    BY <2>3 DEF WriterInv, FrameOf
<1> QED
  BY <1>1, Invariance, WriterSafe, PTL DEF Spec, NoFrameAfterTear

-----------------------------------------------------------------------------
(* What may end a connection that nothing harms *)

\* The stream, close() or the last handle may end the connection.
Harmed == Faulty \/ closer # "idle" \/ ~alive

\* The future of c was dropped after the first byte of its frame.
DroppedTorn(c) ==
    pc[c] \in {"dropFailing", "dropUnwind", "stopD", "dropped"} /\ wrote[c] # "none"

\* The reader neither failed nor was aborted.
ReaderCalm ==
    ~aborted /\ rerr = "none" /\ rpc \in {"idle", "recv", "permit", "drain", "cleanup"}

\* Why a connection that nothing harmed has ended, and what holds while it has not.
HealthInv ==
    ~Harmed =>
        /\ closed # "none" =>
              \/ WriteLimited /\ closed = "WriteTimeout"
              \/ closed = "Interrupted" /\ \E c \in Droppable : DroppedTorn(c)
        /\ closed = "none" => ReaderCalm

\* A dropped future stays dropped.
TornKept == \A c \in Calls : DroppedTorn(c) => DroppedTorn(c)'

\* The connection neither ends nor is harmed.
LEMMA HealthKept ==
  ASSUME HealthInv, UNCHANGED closed, Harmed => Harmed', TornKept,
         ~Harmed /\ ReaderCalm => Harmed' \/ closed # "none" \/ ReaderCalm'
  PROVE  HealthInv'
<1>1. Droppable \subseteq Calls
  BY ConstantsAssumption, Zenon
<1> QED
  BY <1>1, Zenon DEF HealthInv, TornKept

\* No frame and no future moves.
LEMMA TornSame == ASSUME UNCHANGED <<pc, wrote>> PROVE TornKept
  BY Zenon DEF TornKept, DroppedTorn

\* A future moves, and none that was dropped becomes live.
LEMMA TornMoves ==
  ASSUME StreamTyped, NEW c \in Calls, NEW st, pc' = [pc EXCEPT ![c] = st], UNCHANGED wrote,
         pc[c] \in {"dropFailing", "dropUnwind", "stopD", "dropped"} =>
             st \in {"dropFailing", "dropUnwind", "stopD", "dropped"}
  PROVE  TornKept
<1>1. pc'[c] = st /\ \A d \in Calls : d # c => pc'[d] = pc[d]
  BY DEF StreamTyped
<1> QED
  BY <1>1, Zenon DEF TornKept, DroppedTorn

\* What a future does without State::fail harms nothing.
LEMMA CallHealth ==
  ASSUME Inv, HealthInv, NEW c \in Calls, CallStep(c) \/ CallEvent(c)
  PROVE  HealthInv'
<1>1. StreamTyped
  BY Zenon DEF Inv, TypeOK, StreamTyped
<1>2. /\ UNCHANGED <<readerVars, ownerVars>>
      /\ (aborted' = aborted) \/ aborted' = (aborted \/ closed # "none")
  <2>1. CASE CallStep(c)
    BY <2>1, Zenon DEF CallStep, AbandonLock, LockWriter, CheckOpen, InterruptWrite, WriteClosed,
       WriteTimeout, WriteFailed, Unwind, Detach, InterruptAwait, Return, DropUnwind, ReleaseFrame
  <2>2. CASE CallEvent(c)
    BY <2>2, Zenon DEF CallEvent, TryCall, DropUnpolled, Register, WriteSome, WriteDone, WriteError, WriteFailed,
       DropFuture, DropWriting, Cancel, Deadline, ReleaseFrame
  <2> QED
    BY <2>1, <2>2
<1>3. UNCHANGED <<rpc, rerr, closer, alive>>
  BY <1>2, Zenon DEF readerVars, ownerVars
<1>4. Harmed' <=> Harmed
  BY <1>3, Zenon DEF Harmed
<1>5. ASSUME closed = "none", ReaderCalm PROVE ReaderCalm'
  <2>1. CASE aborted' = aborted
    BY <1>3, <1>5, <2>1, Zenon DEF ReaderCalm
  <2>2. CASE aborted' = (aborted \/ closed # "none")
    BY <1>3, <1>5, <2>2, Zenon DEF ReaderCalm
  <2> QED
    BY <1>2, <2>1, <2>2
<1>6. ASSUME UNCHANGED closed, TornKept PROVE HealthInv'
  BY <1>4, <1>5, <1>6, HealthKept, Zenon
<1>7. CASE WriteSome(c)
  <2>1. UNCHANGED <<closed, pc>> /\ \A d \in Calls : wrote[d] # "none" => wrote'[d] # "none"
    BY <1>1, <1>7 DEF WriteSome, StreamTyped, failVars
  <2> QED
    BY <1>6, <2>1, Zenon DEF TornKept, DroppedTorn
<1>8. CASE Cancel(c) \/ Deadline(c)
  <2>1. UNCHANGED <<closed, pc, wrote>>
    BY <1>8, Zenon DEF Cancel, Deadline, failVars
  <2> QED
    BY <1>6, <2>1, TornSame, Zenon
<1>9. CASE \/ TryCall(c) \/ DropUnpolled(c) \/ Register(c) \/ AbandonLock(c) \/ LockWriter(c) \/ CheckOpen(c)
           \/ WriteDone(c) \/ InterruptWrite(c) \/ Unwind(c) \/ InterruptAwait(c) \/ Return(c) \/ DropFuture(c)
  <2>1. UNCHANGED <<closed, wrote>>
    BY <1>9, Zenon DEF TryCall, DropUnpolled, Register, AbandonLock, LockWriter, CheckOpen, WriteDone, InterruptWrite,
       Unwind, InterruptAwait, Return, DropFuture, failVars
  <2>2. PICK st : pc' = [pc EXCEPT ![c] = st]
    BY <1>9, Zenon DEF TryCall, DropUnpolled, Register, AbandonLock, LockWriter, CheckOpen, WriteDone, InterruptWrite,
       Unwind, InterruptAwait, Return, DropFuture, StopCall
  <2>3. pc[c] \in {"idle", "admitted", "lock", "locked", "write", "finish", "unwind", "failing", "await", "stopwait"}
    BY <1>9, Zenon DEF TryCall, DropUnpolled, Register, AbandonLock, LockWriter, CheckOpen, WriteDone, InterruptWrite,
       Unwind, InterruptAwait, Return, DropFuture, MayReturn
  <2> QED
    BY <1>1, <1>6, <2>1, <2>2, <2>3, TornMoves, Zenon
<1>10. CASE Detach(c) \/ DropUnwind(c)
  <2>1. UNCHANGED <<closed, wrote>>
    BY <1>10, Zenon DEF Detach, DropUnwind, failVars
  <2>2. PICK st : /\ pc' = [pc EXCEPT ![c] = st]
                  /\ pc[c] \in {"stopW", "stopS", "stopA"} \/ st \in {"stopD", "dropped"}
    BY <1>10, Zenon DEF Detach, AfterStop, DropUnwind, StopCall
  <2> QED
    BY <1>1, <1>6, <2>1, <2>2, TornMoves, Zenon
<1>11. CASE WriteError(c) \/ WriteClosed(c) \/ WriteTimeout(c) \/ DropWriting(c)
  <2>1. UNCHANGED wrote /\ pc[c] \in {"write", "finish"}
    BY <1>11, Zenon DEF WriteError, WriteClosed, WriteTimeout, DropWriting, WriteFailed
  <2>2. PICK st : pc' = [pc EXCEPT ![c] = st]
    BY <1>11, Zenon DEF WriteError, WriteClosed, WriteTimeout, DropWriting, WriteFailed
  <2>3. TornKept
    BY <1>1, <2>1, <2>2, TornMoves, Zenon
  <2>4. CASE UNCHANGED closed
    BY <1>6, <2>3, <2>4
  <2>5. CASE closed' # closed
    <3>1. \/ Faulty \/ (WriteLimited /\ closed' = "WriteTimeout")
          \/ (DropWriting(c) /\ FrameTorn(c) /\ closed = "none" /\ closed' = "Interrupted")
      BY <1>11, <2>5, Zenon DEF WriteError, WriteClosed, WriteTimeout, DropWriting, WriteFailed, Fail, failVars
    <3>2. CASE Faulty
      BY <3>2, Zenon DEF HealthInv, Harmed
    <3>3. CASE WriteLimited /\ closed' = "WriteTimeout"
      BY <3>3 DEF HealthInv
    <3>4. CASE DropWriting(c) /\ FrameTorn(c) /\ closed = "none" /\ closed' = "Interrupted"
      <4>1. c \in Droppable /\ pc' = [pc EXCEPT ![c] = "dropFailing"]
        BY <3>4, Zenon DEF DropWriting, AfterFail
      <4>2. DroppedTorn(c)'
        BY <1>1, <2>1, <3>4, <4>1 DEF DroppedTorn, FrameTorn, StreamTyped
      <4> QED
        BY <3>4, <4>1, <4>2 DEF HealthInv
    <3> QED
      BY <3>1, <3>2, <3>3, <3>4
  <2> QED
    BY <2>4, <2>5
<1> QED
  BY <1>7, <1>8, <1>9, <1>10, <1>11, Zenon DEF CallStep, CallEvent

\* Every step keeps an unharmed connection open, or is the one that may end it.
LEMMA HealthStep == ASSUME Inv, HealthInv, [Next]_vars PROVE HealthInv'
<1>1. ASSUME NEW c \in Calls, CallStep(c) \/ CallEvent(c) PROVE HealthInv'
  BY <1>1, CallHealth
<1>2. CASE FailStep \/ UNCHANGED vars
  <2>1. UNCHANGED <<closed, pc, wrote, aborted, rerr, rpc, closer, alive>>
    BY <1>2, Zenon DEF FailStep, FailAdmission, FailCall, FailPermit, FailDone, vars, callVars, failVars, readerVars, ownerVars
  <2>2. (Harmed => Harmed') /\ (ReaderCalm => ReaderCalm')
    BY <2>1, Zenon DEF Harmed, ReaderCalm
  <2> QED
    BY <2>1, <2>2, TornSame, HealthKept, Zenon
<1>3. CASE ReaderStep \/ ReaderUnwinds \/ ReaderEvent
  <2>1. UNCHANGED <<pc, wrote, aborted, closer, alive>>
    <3>1. CASE ReaderStep \/ ReaderUnwinds
      BY <3>1, Zenon DEF ReaderStep, ReceiveStopped, DropPermit, Cleanup, ReaderFails, ReaderLocks,
         ReaderTakesWriter, ReaderExit, ReaderExited, ReaderUnwinds, callVars, ownerVars
    <3>2. CASE ReaderEvent
      BY <3>2, Zenon DEF ReaderEvent, ReadXid, ReadError, ReceiveReply, ReceiveFailed, ReceiveOverflow, Receive, Drain,
         callVars, ownerVars
    <3> QED
      BY <1>3, <3>1, <3>2
  <2>2. Harmed' <=> Harmed
    BY <2>1, Zenon DEF Harmed
  <2>3. CASE Harmed
    BY <2>2, <2>3, Zenon DEF HealthInv
  <2>4. CASE ~Harmed /\ closed # "none"
    <3>1. UNCHANGED closed
      <4>1. CASE ReaderStep \/ ReaderUnwinds
        BY <2>4, <4>1, Zenon DEF ReaderStep, ReceiveStopped, DropPermit, Cleanup, ReaderFails, ReaderLocks,
           ReaderTakesWriter, ReaderExit, ReaderExited, ReaderUnwinds, Fail, failVars
      <4>2. CASE ReaderEvent
        BY <4>2, Zenon DEF ReaderEvent, ReadXid, ReadError, ReceiveReply, ReceiveFailed, ReceiveOverflow, Receive, Drain,
           failVars
      <4> QED
        BY <1>3, <4>1, <4>2
    <3> QED
      BY <2>1, <2>2, <2>4, <3>1, TornSame, HealthKept, Zenon
  <2>5. CASE ~Harmed /\ closed = "none"
    <3>1. ~Faulty /\ ~aborted /\ rerr = "none" /\ rpc \in {"idle", "recv", "permit", "drain", "cleanup"}
      BY <2>5, Zenon DEF HealthInv, Harmed, ReaderCalm
    <3>2. /\ UNCHANGED closed /\ rerr' = "none"
          /\ rpc' \in {"idle", "recv", "permit", "drain", "cleanup"}
      <4>1. CASE ReaderStep \/ ReaderUnwinds
        <5>1. ReceiveStopped \/ DropPermit \/ Cleanup
          BY <3>1, <4>1 DEF ReaderStep, ReaderFails, ReaderLocks, ReaderTakesWriter, ReaderExit, ReaderExited, ReaderUnwinds
        <5> QED
          BY <3>1, <5>1, Zenon DEF ReceiveStopped, DropPermit, Cleanup, failVars
      <4>2. CASE ReaderEvent
        BY <3>1, <4>2, Zenon DEF ReaderEvent, ReadXid, ReadError, ReceiveReply, ReceiveFailed, ReceiveOverflow, Receive,
           Drain, failVars
      <4> QED
        BY <1>3, <4>1, <4>2
    <3>3. ReaderCalm'
      BY <2>1, <3>1, <3>2, Zenon DEF ReaderCalm
    <3> QED
      BY <2>1, <2>2, <3>2, <3>3, TornSame, HealthKept, Zenon
  <2> QED
    BY <2>3, <2>4, <2>5
<1>4. CASE OwnerStep
  <2>1. CASE Close \/ CloseAborts \/ DropState
    <3>1. Harmed'
      BY <2>1 DEF Close, CloseAborts, DropState, AfterFail, Harmed
    <3> QED
      BY <3>1, Zenon DEF HealthInv
  <2>2. CASE DropTransport
    <3>1. UNCHANGED <<closed, pc, wrote, aborted, rerr, rpc, closer, alive>>
      BY <2>2, Zenon DEF DropTransport, callVars, failVars, readerVars
    <3>2. (Harmed => Harmed') /\ (ReaderCalm => ReaderCalm')
      BY <3>1, Zenon DEF Harmed, ReaderCalm
    <3> QED
      BY <3>1, <3>2, TornSame, HealthKept, Zenon
  <2> QED
    BY <1>4, <2>1, <2>2, Zenon DEF OwnerStep
<1> QED
  BY <1>1, <1>2, <1>3, <1>4, Zenon DEF Next

\* Cancellation, call deadlines, oversized replies and late replies end no connection:
\* only a write timeout or a future dropped in the middle of its frame does.
THEOREM HealthyOpen == Spec => []HealthyStaysOpen
<1>1. Init => HealthInv
  BY Zenon DEF Init, HealthInv, ReaderCalm
<1>2. Inv /\ HealthInv /\ [Next]_vars => HealthInv'
  BY HealthStep
<1>3. HealthInv => HealthyStaysOpen
  BY Zenon DEF HealthInv, HealthyStaysOpen, Harmed, DroppedTorn
<1> QED
  BY <1>1, <1>2, <1>3, Invariance, PTL DEF Spec
=============================================================================
