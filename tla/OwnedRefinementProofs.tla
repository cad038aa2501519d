----------------------- MODULE OwnedRefinementProofs ------------------------
(***************************************************************************)
(* OwnedTransport implements CallContract, for any set of calls and XIDs:  *)
(* the initial states agree, and under the inductive invariant Inv and the *)
(* invariant of the admission permits, LeaseInv, every step is one of the  *)
(* contract's, or none.  The limit on the calls that hold a permit follows *)
(* from LeaseInv too.                                                      *)
(***************************************************************************)
EXTENDS OwnedTransportProofs

Lenders == {"registry", "reader", "failer"}

\* Every live future and every sender that is not yet consumed holds the permit.
LeaseOf(c) ==
    /\ holder[c] \in Lenders => "target" \in lease[c]
    /\ pc[c] \in ActivePhases \cup {"admitted"} => "future" \in lease[c]
    /\ pc[c] = "admitted" => "target" \in lease[c]

LeaseInv == \A c \in Calls : LeaseOf(c)

\* Leases shrink unless a call is admitted.
LeaseGrows == (\A d \in Calls : lease'[d] \subseteq lease[d]) \/ (\E c \in Calls : TryCall(c))

-----------------------------------------------------------------------------
(* The permits *)

LeaseTyped ==
    /\ pc \in [Calls -> Phases] /\ holder \in [Calls -> Holders]
    /\ lease \in [Calls -> SUBSET {"future", "target"}]

\* The parts of the invariant the permits depend on.
LEMMA InvLease == ASSUME Inv PROVE LeaseTyped /\ HolderInv /\ NoCall \notin Calls
  BY ConstantsAssumption, Zenon DEF Inv, Rest, TypeOK, LeaseTyped

\* Only an admitted call may lend its sender, and none comes back to life.
HolderLess == \A d \in Calls : holder'[d] \in Lenders => holder[d] \in Lenders \/ pc[d] = "admitted"
PcLess ==
    \A d \in Calls : /\ pc'[d] \in ActivePhases \cup {"admitted"} => pc[d] \in ActivePhases \cup {"admitted"}
                     /\ pc'[d] = "admitted" => pc[d] = "admitted"

\* No permit is dropped.
LEMMA LeaseSame ==
  ASSUME LeaseInv, UNCHANGED lease, HolderLess, PcLess PROVE LeaseInv' /\ LeaseGrows
  BY Zenon DEF LeaseInv, LeaseOf, LeaseGrows, HolderLess, PcLess

\* Some sender's clone of the permit is dropped after the sender was consumed.
LEMMA LeaseDropped ==
  ASSUME LeaseInv, HolderLess, UNCHANGED pc, NEW x, lease' = Dropped({x}, "target"),
         x \in Calls => holder'[x] \notin Lenders /\ pc[x] # "admitted"
  PROVE  LeaseInv' /\ LeaseGrows
<1>1. /\ \A d \in Calls : lease'[d] = IF d = x THEN lease[d] \ {"target"} ELSE lease[d]
      /\ \A d \in Calls : lease'[d] \subseteq lease[d] /\ ("future" \in lease[d] => "future" \in lease'[d])
  BY DEF Dropped
<1>2. ASSUME NEW d \in Calls PROVE LeaseOf(d)'
  <2>1. CASE d = x
    BY <1>1, <1>2, <2>1, Zenon DEF LeaseInv, LeaseOf
  <2>2. CASE d # x
    BY <1>1, <1>2, <2>2, Zenon DEF LeaseInv, LeaseOf, HolderLess
  <2> QED
    BY <2>1, <2>2
<1> QED
  BY <1>1, <1>2, Zenon DEF LeaseInv, LeaseGrows

\* One call drops clones of its permit, and what it still owes is charged.
LEMMA LeaseShrinks ==
  ASSUME LeaseInv, NEW c \in Calls, LeaseOf(c)', lease'[c] \subseteq lease[c],
         \A d \in Calls : d # c => pc'[d] = pc[d] /\ holder'[d] = holder[d] /\ lease'[d] = lease[d]
  PROVE  LeaseInv' /\ LeaseGrows
<1>1. ASSUME NEW d \in Calls, d # c PROVE LeaseOf(d)'
  BY <1>1, Zenon DEF LeaseInv, LeaseOf
<1>2. \A d \in Calls : lease'[d] \subseteq lease[d]
  BY Zenon
<1> QED
  BY <1>1, <1>2, Zenon DEF LeaseInv, LeaseGrows

\* State::fail moves senders, and consumes none at first.
LEMMA FailLends == ASSUME LeaseTyped, NEW e, Fail(e) PROVE HolderLess
  BY DEF LeaseTyped, Fail, HolderLess, Lenders

\* A delivery only consumes a sender.
LEMMA DeliverLends ==
  ASSUME LeaseTyped, NEW c \in Calls, NEW r, Deliver(c, r) PROVE HolderLess /\ holder'[c] \notin Lenders
  BY DEF LeaseTyped, Deliver, HolderLess, Lenders

\* A future that only moves between live phases.
LEMMA WithinLess == ASSUME LeaseTyped, NEW c \in Calls, Within(c) PROVE PcLess
<1>1. CASE UNCHANGED pc
  BY <1>1, Zenon DEF PcLess
<1>2. ASSUME NEW st \in ActivePhases, pc' = [pc EXCEPT ![c] = st], pc[c] \in ActivePhases PROVE PcLess
  <2>1. st # "admitted"
    BY <1>2 DEF ActivePhases, WriterPhases
  <2> QED
    BY <1>2, <2>1 DEF LeaseTyped, PcLess
<1> QED
  BY <1>1, <1>2, Zenon DEF Within

\* The steps of a call keep the charges,
LEMMA CallLease ==
  ASSUME Inv, LeaseInv, NEW c \in Calls, CallStep(c) \/ CallEvent(c)
  PROVE  LeaseInv' /\ LeaseGrows
<1>1. LeaseTyped /\ HolderInv
  BY InvLease
<1>2. CASE Quiet(c)
  <2>1. UNCHANGED <<holder, lease>> /\ Within(c)
    BY <1>2, QuietFrame, QuietWithin, Zenon
  <2>2. HolderLess /\ PcLess
    BY <1>1, <2>1, WithinLess, Zenon DEF HolderLess
  <2> QED
    BY <2>1, <2>2, LeaseSame, Zenon
<1>3. CASE Breaks(c)
  <2>1. UNCHANGED lease /\ Within(c) /\ (UNCHANGED holder \/ \E e : Fail(e))
    BY <1>3, BreakFrame, BreakWithin, Zenon
  <2>2. HolderLess /\ PcLess
    BY <1>1, <2>1, WithinLess, FailLends, Zenon DEF HolderLess
  <2> QED
    BY <2>1, <2>2, LeaseSame, Zenon
<1>4. CASE TryCall(c)
  <2>1. /\ \A d \in Calls : d # c => pc'[d] = pc[d] /\ holder'[d] = holder[d] /\ lease'[d] = lease[d]
        /\ lease'[c] = {"future", "target"}
    BY <1>1, <1>4 DEF TryCall, LeaseTyped
  <2>2. ASSUME NEW d \in Calls PROVE LeaseOf(d)'
    BY <2>1, <2>2 DEF LeaseInv, LeaseOf
  <2> QED
    BY <1>4, <2>2, Zenon DEF LeaseInv, LeaseGrows
<1>5. CASE DropUnpolled(c) \/ (Register(c) /\ RegisterError(c) # "none")
  <2>1. /\ \A d \in Calls : d # c => pc'[d] = pc[d] /\ holder'[d] = holder[d] /\ lease'[d] = lease[d]
        /\ lease'[c] = {} /\ holder'[c] = holder[c] /\ pc[c] = "admitted" /\ pc'[c] \in {"dropped", "done"}
    BY <1>1, <1>5 DEF DropUnpolled, Register, LeaseTyped
  <2>2. holder[c] \notin Lenders
    BY <1>1, <2>1 DEF HolderInv, HolderOf, Lenders
  <2>3. LeaseOf(c)'
    BY <2>1, <2>2 DEF LeaseOf, ActivePhases, WriterPhases
  <2>4. lease'[c] \subseteq lease[c]
    BY <2>1
  <2> QED
    BY <2>1, <2>3, <2>4, LeaseShrinks, Zenon
<1>6. CASE Register(c) /\ RegisterError(c) = "none"
  <2>1. /\ UNCHANGED lease /\ pc[c] = "admitted" /\ pc' = [pc EXCEPT ![c] = "lock"]
        /\ holder' = [holder EXCEPT ![c] = "registry"]
    BY <1>6, Zenon DEF Register
  <2>2. HolderLess /\ PcLess
    BY <1>1, <2>1 DEF HolderLess, PcLess, LeaseTyped
  <2> QED
    BY <2>1, <2>2, LeaseSame, Zenon
<1>7. CASE Detach(c)
  <2>1. /\ pc[c] \in ActivePhases /\ pc'[c] = AfterStop(c)
        /\ \A d \in Calls : d # c => pc'[d] = pc[d] /\ holder'[d] = holder[d] /\ lease'[d] = lease[d]
        /\ lease'[c] = lease[c] \ (ReleasedByStop(c) \cup (IF pc[c] = "stopD" THEN {"future"} ELSE {}))
    BY <1>1, <1>7 DEF Detach, Deliver, LeaseTyped, ActivePhases, WriterPhases
  <2>2. AfterStop(c) # "admitted" /\ (pc[c] = "stopD" => AfterStop(c) \notin ActivePhases)
    BY <1>7 DEF Detach, AfterStop, ActivePhases, WriterPhases
  <2>3. holder'[c] \in Lenders => holder[c] \in Lenders /\ ReleasedByStop(c) = {}
    BY <1>1, <1>7 DEF Detach, Deliver, ReleasedByStop, LeaseTyped, Lenders
  <2>4. "future" \notin ReleasedByStop(c)
    BY DEF ReleasedByStop
  <2>5. LeaseOf(c)'
    BY <2>1, <2>2, <2>3, <2>4 DEF LeaseInv, LeaseOf
  <2>6. lease'[c] \subseteq lease[c]
    BY <2>1
  <2> QED
    BY <2>1, <2>5, <2>6, LeaseShrinks, Zenon
<1>8. CASE Return(c)
  <2>1. /\ \A d \in Calls : d # c => pc'[d] = pc[d] /\ holder'[d] = holder[d] /\ lease'[d] = lease[d]
        /\ holder'[c] = holder[c] /\ pc'[c] = "done" /\ lease'[c] = lease[c] \ {"future"}
    BY <1>1, <1>8 DEF Return, LeaseTyped
  <2>2. LeaseOf(c)' /\ lease'[c] \subseteq lease[c]
    BY <2>1 DEF LeaseInv, LeaseOf, ActivePhases, WriterPhases
  <2> QED
    BY <2>1, <2>2, LeaseShrinks, Zenon
<1> QED
  BY <1>2, <1>3, <1>4, <1>5, <1>6, <1>7, <1>8, Zenon DEF CallStep, CallEvent, Quiet, Breaks

\* and so do those of State::fail, of the reader and of the owner.
LEMMA OtherLease ==
  ASSUME Inv, LeaseInv, FailStep \/ ReaderStep \/ ReaderUnwinds \/ ReaderEvent \/ OwnerStep \/ UNCHANGED vars
  PROVE  LeaseInv' /\ LeaseGrows
<1>1. LeaseTyped /\ HolderInv /\ NoCall \notin Calls
  BY InvLease
<1>2. UNCHANGED pc
  BY Zenon DEF FailStep, FailAdmission, FailCall, FailPermit, FailDone, ReaderStep, ReceiveStopped, DropPermit,
     Cleanup, ReaderFails, ReaderLocks, ReaderTakesWriter, ReaderExit, ReaderExited, ReaderUnwinds, ReaderEvent,
     ReadXid, ReadError, ReceiveReply, ReceiveFailed, ReceiveOverflow, Receive, Drain, OwnerStep, Close,
     CloseAborts, DropTransport, DropState, vars, callVars
<1>3. PcLess
  BY <1>2, Zenon DEF PcLess
<1>4. CASE \/ FailAdmission \/ FailDone \/ Cleanup \/ ReaderLocks \/ ReaderTakesWriter \/ ReaderExited \/ ReadError
           \/ Drain \/ CloseAborts \/ DropTransport \/ DropState \/ UNCHANGED vars
  <2>1. UNCHANGED <<holder, lease>>
    BY <1>4, Zenon DEF FailAdmission, FailDone, Cleanup, ReaderLocks, ReaderTakesWriter, ReaderExited, ReadError,
       Drain, CloseAborts, DropTransport, DropState, vars, replyVars
  <2>2. HolderLess
    BY <2>1, Zenon DEF HolderLess
  <2> QED
    BY <1>3, <2>1, <2>2, LeaseSame, Zenon
<1>5. CASE (\E c \in Calls : FailCall(c) \/ ReadXid(c)) \/ ReaderFails \/ Close
  <2>1. UNCHANGED lease
    BY <1>5, Zenon DEF FailCall, ReadXid, ReaderFails, Close
  <2>2. ASSUME NEW c \in Calls, FailCall(c) \/ ReadXid(c) PROVE HolderLess
    BY <1>1, <2>2 DEF FailCall, ReadXid, LeaseTyped, HolderLess, Lenders
  <2>3. ASSUME ReaderFails \/ Close PROVE HolderLess
    <3>1. UNCHANGED holder \/ \E e : Fail(e)
      BY <2>3, Zenon DEF ReaderFails, Close
    <3> QED
      BY <1>1, <3>1, FailLends, Zenon DEF HolderLess
  <2> QED
    BY <1>3, <1>5, <2>1, <2>2, <2>3, LeaseSame, Zenon
<1>6. CASE ReceiveReply \/ ReceiveFailed \/ ReceiveOverflow \/ ReceiveStopped
  <2>1. UNCHANGED lease /\ rpc = "recv" /\ \E r : Deliver(rtoken, r)
    BY <1>6, Zenon DEF ReceiveReply, ReceiveFailed, ReceiveOverflow, ReceiveStopped, Receive
  <2>2. rtoken \in Calls
    BY <2>1, InvTyped DEF Typed
  <2> QED
    BY <1>1, <1>3, <2>1, <2>2, DeliverLends, LeaseSame, Zenon
<1>7. ASSUME NEW x, x = NoCall \/ holder[x] = "gone" PROVE x \in Calls => holder[x] \notin Lenders /\ pc[x] # "admitted"
  BY <1>1, <1>7 DEF HolderInv, HolderOf, Lenders
<1>8. CASE FailPermit \/ DropPermit
  <2>1. PICK x \in {failing, rtoken} : lease' = Dropped({x}, "target") /\ UNCHANGED holder /\ (x = NoCall \/ holder[x] = "gone")
    BY <1>1, <1>8, InvTyped DEF FailPermit, DropPermit, HolderInv, HolderOf, Typed
  <2>2. HolderLess
    BY <2>1, Zenon DEF HolderLess
  <2> QED
    BY <1>2, <1>7, <2>1, <2>2, LeaseDropped, Zenon
<1>9. CASE ReaderExit
  <2>1. lease' = Dropped({rtoken}, "target") /\ (UNCHANGED holder \/ \E e : Fail(e))
    BY <1>9, Zenon DEF ReaderExit
  <2>2. HolderLess
    BY <1>1, <2>1, FailLends, Zenon DEF HolderLess
  <2>3. rtoken \in Calls => holder[rtoken] = "gone" /\ pc[rtoken] # "admitted"
    BY <1>1, <1>9 DEF ReaderExit, HolderInv, HolderOf
  <2>4. rtoken \in Calls => holder'[rtoken] \notin Lenders
    BY <2>2, <2>3 DEF HolderLess, Lenders
  <2> QED
    BY <1>2, <2>1, <2>2, <2>3, <2>4, LeaseDropped, Zenon
<1>10. CASE ReaderUnwinds
  <2>1. CASE rpc # "recv"
    <3>1. UNCHANGED <<holder, lease>>
      BY <1>10, <2>1 DEF ReaderUnwinds
    <3> QED
      BY <1>3, <3>1, LeaseSame, Zenon DEF HolderLess
  <2>2. CASE rpc = "recv" /\ TargetReturns
    <3>1. UNCHANGED lease /\ Deliver(rtoken, "ConnectionClosed")
      BY <1>10, <2>2, Zenon DEF ReaderUnwinds
    <3>2. rtoken \in Calls
      BY <2>2, InvTyped DEF Typed
    <3> QED
      BY <1>1, <1>3, <3>1, <3>2, DeliverLends, LeaseSame, Zenon
  <2>3. CASE rpc = "recv" /\ ~TargetReturns
    <3>1. lease' = Dropped({rtoken}, "target") /\ holder' = [holder EXCEPT ![rtoken] = "gone"]
      BY <1>10, <2>3 DEF ReaderUnwinds
    <3>2. rtoken \in Calls
      BY <2>3, InvTyped DEF Typed
    <3>3. HolderLess /\ holder'[rtoken] \notin Lenders
      BY <1>1, <3>1, <3>2 DEF HolderLess, LeaseTyped, Lenders
    <3>4. pc[rtoken] # "admitted"
      BY <1>1, <2>3, <3>2 DEF HolderInv, HolderOf
    <3> QED
      BY <1>2, <3>1, <3>3, <3>4, LeaseDropped, Zenon
  <2> QED
    BY <2>1, <2>2, <2>3, Zenon
<1> QED
  BY <1>4, <1>5, <1>6, <1>8, <1>9, <1>10, Zenon DEF FailStep, ReaderStep, ReaderEvent, OwnerStep

\* Every step keeps a charge for every live future and sender, and only admission
\* adds a lease.
LEMMA LeaseStep == ASSUME Inv, LeaseInv, [Next]_vars PROVE LeaseInv' /\ LeaseGrows
  BY CallLease, OtherLease, Zenon DEF Next

-----------------------------------------------------------------------------
\* The types of what the contract's state is computed from, and of what reaches it.
Shape ==
    /\ pc \in [Calls -> Phases]
    /\ holder \in [Calls -> Holders]
    /\ chan \in [Calls -> {"empty", "sent", "closed"}]
    /\ terminal \in [Calls -> Errors \cup {"none", "ok"}]
    /\ result \in [Calls -> Errors \cup {"none", "ok"}]
    /\ lease \in [Calls -> SUBSET {"future", "target"}]
    /\ closed \in ConnectionErrors \cup {"none"}
    /\ failing \in Calls \cup {NoCall}
    /\ rtoken \in Calls \cup {NoCall}
    /\ rpc \in {"recv", "permit"} => rtoken # NoCall
    /\ rerr \in {"none", "Transport"}

\* The parts of the invariant, one by one: the types,
LEMMA ShapeOK == ASSUME Inv PROVE Shape
  BY Zenon DEF Inv, TypeOK, Shape

\* The senders,
LEMMA HolderOK == ASSUME Inv PROVE HolderInv
  BY Zenon DEF Inv, Rest

\* the decisions,
LEMMA DecisionOK == ASSUME Inv PROVE DecisionInv
  BY Zenon DEF Inv, Rest

\* and the phases.
LEMMA PhaseOK == ASSUME Inv PROVE PhaseInv
  BY Zenon DEF Inv, Rest

\* A step that changes nothing a caller can tell, but perhaps where a live call stands.
LEMMA UnseenStep ==
  ASSUME UNCHANGED <<chan, result, lease, closed>>,
         \A c \in Calls : PhaseOf(pc[c]) = PhaseOf(pc'[c]) /\ (pc[c] = "done" <=> pc'[c] = "done"),
         Lent' = Lent
  PROVE  UNCHANGED Contract!vars
  BY DEF Contract!vars, Told

\* State::fail either ends an open connection, or does nothing that shows.
LEMMA FailEnds ==
  ASSUME Shape, NEW e \in ConnectionErrors, Fail(e),
         UNCHANGED <<chan, result, lease>>,
         \A c \in Calls : PhaseOf(pc[c]) = PhaseOf(pc'[c]) /\ (pc[c] = "done" <=> pc'[c] = "done")
  PROVE  [Contract!Next]_(Contract!vars)
<1>1. Lent' = Lent
  BY DEF Fail, Lent, Holders, Shape
<1>2. CASE closed = "none"
  <2>1. closed' = e /\ e \in Errors
    BY <1>2, Zenon DEF Fail, Errors
  <2>2. Contract!End
    BY <1>1, <1>2, <2>1 DEF Contract!End, Told
  <2> QED
    BY <2>2, Zenon DEF Contract!Next
<1>3. CASE closed # "none"
  <2>1. closed' = closed
    BY <1>3, Zenon DEF Fail, failVars
  <2> QED
    BY <1>1, <2>1, UnseenStep
<1> QED
  BY <1>2, <1>3

\* A step of one call is a step of the contract.
LEMMA OneCall ==
  ASSUME NEW c \in Calls, Contract!Step(c)
  PROVE  [Contract!Next]_(Contract!vars)
  BY Zenon DEF Contract!Next

-----------------------------------------------------------------------------
\* A future that moves between live phases stands, for its application, where it stood.
LEMMA WithinShown ==
  ASSUME Shape, NEW c \in Calls, Within(c)
  PROVE  \A d \in Calls : PhaseOf(pc[d]) = PhaseOf(pc'[d]) /\ (pc[d] = "done" <=> pc'[d] = "done")
<1>1. CASE UNCHANGED pc
  BY <1>1, Zenon
<1>2. ASSUME NEW st \in ActivePhases, pc' = [pc EXCEPT ![c] = st], pc[c] \in ActivePhases
      PROVE  \A d \in Calls : PhaseOf(pc[d]) = PhaseOf(pc'[d]) /\ (pc[d] = "done" <=> pc'[d] = "done")
  <2>1. PhaseOf(st) = "running" /\ PhaseOf(pc[c]) = "running" /\ st # "done" /\ pc[c] # "done"
    BY <1>2 DEF PhaseOf, ActivePhases, WriterPhases
  <2>2. pc'[c] = st /\ \A d \in Calls : d # c => pc'[d] = pc[d]
    BY <1>2 DEF Shape
  <2> QED
    BY <2>1, <2>2, Zenon
<1> QED
  BY <1>1, <1>2, Zenon DEF Within

\* The futures' own steps that move a live call, or interrupt it, do not show.
LEMMA FutureUnseen == ASSUME Inv, NEW c \in Calls, Quiet(c) PROVE [Contract!Next]_(Contract!vars)
<1>1. UNCHANGED <<holder, chan, result, lease, closed>> /\ Within(c)
  BY QuietFrame, QuietWithin, Zenon DEF failVars
<1>2. \A d \in Calls : PhaseOf(pc[d]) = PhaseOf(pc'[d]) /\ (pc[d] = "done" <=> pc'[d] = "done")
  BY <1>1, ShapeOK, WithinShown, Zenon
<1>3. Lent' = Lent
  BY <1>1, Zenon DEF Lent
<1> QED
  BY <1>1, <1>2, <1>3, UnseenStep, Zenon

\* Nor do the steps in which State::fail, the reader and the owner only move on.
LEMMA RestUnseen ==
  ASSUME Inv,
         \/ FailAdmission \/ FailDone \/ ReadError \/ Drain \/ Cleanup \/ ReaderLocks
         \/ ReaderTakesWriter \/ ReaderExited \/ CloseAborts \/ DropTransport \/ DropState
         \/ UNCHANGED vars \/ (\E c \in Calls : ReadXid(c))
  PROVE  [Contract!Next]_(Contract!vars)
<1>1. UNCHANGED <<pc, chan, result, lease, closed>>
  BY Zenon DEF FailAdmission, FailDone, ReadError, Drain, Cleanup, ReaderLocks, ReaderTakesWriter,
     ReaderExited, CloseAborts, DropTransport, DropState, vars, callVars, replyVars, failVars,
     ReadXid
<1>2. Lent' = Lent
  <2>1. ASSUME NEW c \in Calls, ReadXid(c) PROVE Lent' = Lent
    <3>1. \/ holder' = holder
          \/ \E d \in Calls : holder[d] = "registry" /\ holder' = [holder EXCEPT ![d] = "reader"]
      BY <2>1, ConstantsAssumption, ShapeOK DEF ReadXid, Shape
    <3> QED
      BY <3>1, ShapeOK DEF Lent, Shape
  <2>2. CASE ~(\E c \in Calls : ReadXid(c))
    <3>1. holder' = holder
      BY <2>2, Zenon DEF FailAdmission, FailDone, ReadError, Drain, Cleanup, ReaderLocks,
         ReaderTakesWriter, ReaderExited, CloseAborts, DropTransport, DropState, vars, replyVars
    <3> QED
      BY <3>1, Zenon DEF Lent
  <2> QED
    BY <2>1, <2>2, Zenon
<1>3. Shape
  BY ShapeOK
<1> QED
  BY <1>1, <1>2, <1>3, UnseenStep

-----------------------------------------------------------------------------
\* The steps of a call that fail the connection show that and no more.
LEMMA CallEnds == ASSUME Inv, NEW c \in Calls, Breaks(c) PROVE [Contract!Next]_(Contract!vars)
<1>1. UNCHANGED <<chan, result, lease>> /\ Within(c)
  BY BreakFrame, BreakWithin, Zenon
<1>2. Shape
  BY ShapeOK
<1>3. \A d \in Calls : PhaseOf(pc[d]) = PhaseOf(pc'[d]) /\ (pc[d] = "done" <=> pc'[d] = "done")
  BY <1>1, <1>2, WithinShown, Zenon
<1>4. CASE UNCHANGED <<closed, holder>>
  <2>1. Lent' = Lent
    BY <1>4, Zenon DEF Lent
  <2> QED
    BY <1>1, <1>3, <1>4, <2>1, UnseenStep, Zenon
<1>5. ASSUME NEW e \in ConnectionErrors, Fail(e) PROVE [Contract!Next]_(Contract!vars)
  BY <1>1, <1>2, <1>3, <1>5, FailEnds, Zenon
<1>6. (\E e \in ConnectionErrors : Fail(e)) \/ UNCHANGED <<closed, holder>>
  <2>1. {"Transport", "WriteTimeout", "Interrupted"} \subseteq ConnectionErrors /\ (closed # "none" => closed \in ConnectionErrors)
    BY <1>2 DEF Shape, ConnectionErrors
  <2> QED
    BY <2>1, Zenon DEF Breaks, WriteError, WriteClosed, WriteTimeout, DropWriting, WriteFailed, failVars
<1> QED
  BY <1>4, <1>5, <1>6, Zenon

\* So do the reader that fails the connection and close().
LEMMA OwnerEnds ==
  ASSUME Inv, ReaderFails \/ Close
  PROVE  [Contract!Next]_(Contract!vars)
<1>1. UNCHANGED <<chan, result, lease, pc>>
  BY Zenon DEF ReaderFails, Close, callVars
<1>2. \/ \E e \in ConnectionErrors : Fail(e)
      \/ UNCHANGED <<closed, holder>>
  BY ShapeOK, PhaseOK DEF ReaderFails, Close, PhaseInv, ConnectionErrors, failVars, Shape
<1>3. Shape
  BY ShapeOK
<1>4. CASE UNCHANGED <<closed, holder>>
  <2>1. Lent' = Lent
    BY <1>4, Zenon DEF Lent
  <2> QED
    BY <1>1, <1>3, <1>4, <2>1, UnseenStep
<1> QED
  BY <1>1, <1>2, <1>3, <1>4, FailEnds

-----------------------------------------------------------------------------
\* A delivery by Deliver gives the receiver back with an outcome.
LEMMA DeliverGivesBack ==
  ASSUME Inv, NEW c \in Calls, NEW r \in Errors \cup {"ok"}, c \in Lent, Deliver(c, r),
         UNCHANGED <<pc, lease, closed>>
  PROVE  [Contract!Next]_(Contract!vars)
<1>1. pc[c] # "done" /\ chan[c] = "empty"
  BY ShapeOK, HolderOK DEF HolderInv, HolderOf, Lent, Holders, Shape
<1>2. result'[c] \in Errors \cup {"ok"}
  BY ShapeOK DEF Deliver, FinishResult, Shape
<1>3. Lent' = Lent \ {c}
  BY ShapeOK DEF Deliver, Lent, Shape
<1>4. \A d \in Calls : Told(d)' = IF d = c THEN result'[c] ELSE Told(d)
  BY ShapeOK DEF Deliver, Told, Shape
<1>5. Contract!GiveBack(c, result'[c])
  BY <1>1, <1>3, <1>4, Zenon DEF Contract!GiveBack, Told
<1> QED
  BY <1>2, <1>5, OneCall, Zenon DEF Contract!Step

\* The reader delivers what it received, or the stop that overtook it.
LEMMA ReceiveSeen ==
  ASSUME Inv, ReceiveReply \/ ReceiveFailed \/ ReceiveOverflow \/ ReceiveStopped
  PROVE  [Contract!Next]_(Contract!vars)
<1>1. \E r \in Errors \cup {"ok"} : Deliver(rtoken, r)
  <2>1. "Transport" \in Errors /\ "Capacity" \in Errors
    BY DEF Errors, ConnectionErrors
  <2> QED
    BY <2>1, Zenon DEF ReceiveReply, ReceiveFailed, ReceiveOverflow, ReceiveStopped, Receive
<1>2. UNCHANGED <<pc, lease, closed>>
  BY Zenon DEF ReceiveReply, ReceiveFailed, ReceiveOverflow, ReceiveStopped, Receive, callVars, failVars
<1>3. rpc = "recv"
  BY Zenon DEF ReceiveReply, ReceiveFailed, ReceiveOverflow, ReceiveStopped, Receive
<1>4. rtoken \in Calls /\ rtoken \in Lent
  BY <1>3, ConstantsAssumption, ShapeOK, HolderOK DEF HolderInv, HolderOf, Lent, Shape
<1> QED
  BY <1>1, <1>2, <1>4, DeliverGivesBack

\* State::fail gives back the receivers it took from the registry.
LEMMA FailCallSeen ==
  ASSUME Inv, NEW c \in Calls, FailCall(c)
  PROVE  [Contract!Next]_(Contract!vars)
<1>1. UNCHANGED <<pc, lease, closed>>
  BY Zenon DEF FailCall, callVars
<1>2. closed \in Errors
  BY ShapeOK, PhaseOK DEF FailCall, PhaseInv, Errors, Shape
<1>3. CASE holder[c] = "failer"
  <2>1. pc[c] # "done" /\ chan[c] = "empty"
    BY <1>3, ShapeOK, HolderOK DEF HolderInv, HolderOf, Shape
  <2>2. result'[c] \in Errors \cup {"ok"}
    BY <1>2, <1>3, ShapeOK DEF FailCall, FinishResult, Stop, Shape
  <2>3. Lent' = Lent \ {c} /\ c \in Lent
    BY <1>3, ShapeOK DEF FailCall, Lent, Shape
  <2>4. \A d \in Calls : Told(d)' = IF d = c THEN result'[c] ELSE Told(d)
    BY <1>1, <1>3, ShapeOK DEF FailCall, Told, Shape
  <2>5. Contract!GiveBack(c, result'[c])
    BY <1>1, <2>1, <2>3, <2>4, Zenon DEF Contract!GiveBack, Told
  <2> QED
    BY <2>2, <2>5, OneCall, Zenon DEF Contract!Step
<1>4. CASE holder[c] # "failer"
  <2>1. UNCHANGED <<holder, chan, result>>
    BY <1>4, Zenon DEF FailCall
  <2>2. Lent' = Lent
    BY <2>1, Zenon DEF Lent
  <2>3. Shape
    BY ShapeOK
  <2> QED
    BY <1>1, <2>1, <2>2, <2>3, UnseenStep
<1> QED
  BY <1>3, <1>4

\* A permit that is dropped after the sender was consumed is the charge only of a
\* call that has returned or was abandoned.
LEMMA TargetDropped ==
  ASSUME Inv, LeaseInv, NEW c \in Calls, holder[c] = "gone",
         lease' = Dropped({c}, "target"), UNCHANGED <<pc, chan, result>>, Lent' = Lent,
         closed' = closed \/ (closed = "none" /\ closed' \in Errors)
  PROVE  [Contract!Next]_(Contract!vars)
<1>1. \A d \in Calls : Told(d)' = Told(d)
  BY Zenon DEF Told
<1>2. CASE lease[c] # {} /\ lease'[c] = {}
  <2>1. "future" \notin lease[c]
    BY <1>2, ShapeOK DEF Dropped, Shape
  <2>2. pc[c] \in {"done", "dropped"}
    BY <2>1, ShapeOK, HolderOK DEF LeaseInv, LeaseOf, HolderInv, HolderOf, Phases, Shape
  <2>3. c \notin Lent
    BY DEF Lent
  <2>4. {d \in Calls : lease'[d] # {}} = {d \in Calls : lease[d] # {}} \ {c}
    BY <1>2 DEF Dropped
  <2>5. Contract!Release(c)
    BY <1>1, <1>2, <2>2, <2>3, <2>4, Zenon DEF Contract!Release, PhaseOf
  <2> QED
    BY <2>5, OneCall, Zenon DEF Contract!Step
<1>3. CASE ~(lease[c] # {} /\ lease'[c] = {})
  <2>1. {d \in Calls : lease'[d] # {}} = {d \in Calls : lease[d] # {}}
    BY <1>3, ShapeOK DEF Dropped, Shape
  <2>2. CASE closed' = closed
    BY <1>1, <2>1, <2>2 DEF Contract!vars
  <2>3. CASE closed = "none" /\ closed' \in Errors
    <3>1. Contract!End
      BY <1>1, <2>1, <2>3, Zenon DEF Contract!End
    <3> QED
      BY <3>1, Zenon DEF Contract!Next
  <2> QED
    BY <2>2, <2>3
<1> QED
  BY <1>2, <1>3

\* State::fail and the reader drop the permit after they have delivered.
LEMMA PermitSeen ==
  ASSUME Inv, LeaseInv, FailPermit \/ DropPermit
  PROVE  [Contract!Next]_(Contract!vars)
<1>1. UNCHANGED <<pc, holder, chan, result, closed>>
  BY Zenon DEF FailPermit, DropPermit, callVars, failVars
<1>2. \E c \in Calls : holder[c] = "gone" /\ lease' = Dropped({c}, "target")
  <2>1. CASE FailPermit
    BY <2>1, ShapeOK, HolderOK DEF FailPermit, HolderInv, HolderOf, Shape
  <2>2. CASE DropPermit
    BY <2>2, ConstantsAssumption, ShapeOK, HolderOK, Zenon DEF DropPermit, HolderInv, HolderOf, Shape
  <2> QED
    BY <2>1, <2>2, Zenon
<1>3. Lent' = Lent
  BY <1>1, Zenon DEF Lent
<1> QED
  BY <1>1, <1>2, <1>3, TargetDropped

\* The guard of the reader task drops what permit is left and fails the connection.
LEMMA ReaderExitSeen ==
  ASSUME Inv, LeaseInv, ReaderExit
  PROVE  [Contract!Next]_(Contract!vars)
<1>1. UNCHANGED <<pc, chan, result>> /\ lease' = Dropped({rtoken}, "target")
  BY Zenon DEF ReaderExit, callVars
<1>2. Lent' = Lent
  BY ShapeOK DEF ReaderExit, Fail, Lent, failVars, Shape
<1>3. closed' = closed \/ (closed = "none" /\ closed' \in Errors)
  BY DEF ReaderExit, Fail, failVars, Errors, ConnectionErrors
<1>4. CASE rtoken \in Calls
  <2>1. holder[rtoken] = "gone"
    BY <1>4 DEF ReaderExit, Inv, Rest, HolderInv, HolderOf
  <2> QED
    BY <1>1, <1>2, <1>3, <1>4, <2>1, TargetDropped
<1>5. CASE rtoken \notin Calls
  <2>1. \A d \in Calls : lease'[d] = lease[d] /\ Told(d)' = Told(d)
    BY <1>1, <1>5 DEF Dropped, Told
  <2>2. CASE closed' = closed
    BY <1>1, <1>2, <2>1, <2>2 DEF Contract!vars
  <2>3. CASE closed = "none" /\ closed' \in Errors
    <3>1. Contract!End
      BY <1>1, <1>2, <2>1, <2>3 DEF Contract!End
    <3> QED
      BY <3>1, Zenon DEF Contract!Next
  <2> QED
    BY <1>3, <2>2, <2>3
<1> QED
  BY <1>4, <1>5

\* An aborted reader, or one whose callback panics, gives a segmented call its
\* receiver back and drops the slot of a buffered one.
LEMMA UnwindsSeen ==
  ASSUME Inv, LeaseInv, ReaderUnwinds
  PROVE  [Contract!Next]_(Contract!vars)
<1>1. UNCHANGED <<pc, closed>>
  BY Zenon DEF ReaderUnwinds, callVars, failVars
<1>2. Shape
  BY ShapeOK
<1>3. CASE rpc = "recv" /\ TargetReturns
  <2>1. Deliver(rtoken, "ConnectionClosed") /\ UNCHANGED lease
    BY <1>3, Zenon DEF ReaderUnwinds
  <2>2. rtoken \in Calls /\ rtoken \in Lent /\ "ConnectionClosed" \in Errors
    BY <1>3, ConstantsAssumption, ShapeOK, HolderOK
       DEF HolderInv, HolderOf, Lent, Errors, ConnectionErrors, Shape
  <2> QED
    BY <1>1, <2>1, <2>2, DeliverGivesBack
<1>4. CASE rpc = "recv" /\ ~TargetReturns
  <2>1. PICK c \in Calls : c = rtoken
    BY <1>4, ConstantsAssumption, ShapeOK DEF Shape
  <2>2. /\ holder' = [holder EXCEPT ![c] = "gone"]
        /\ chan' = [chan EXCEPT ![c] = "closed"]
        /\ lease' = Dropped({c}, "target")
        /\ UNCHANGED result
    BY <1>4, <2>1 DEF ReaderUnwinds
  <2>3. holder[c] = "reader" /\ c \notin Segmented
    BY <1>4, <2>1, ShapeOK, HolderOK DEF HolderInv, HolderOf, TargetReturns, Shape
  <2>4. Lent' = Lent \ {c} /\ c \in Lent
    BY <2>2, <2>3, ShapeOK DEF Lent, Shape
  <2>5. \A d \in Calls : Told(d)' = Told(d)
    <3>1. pc[c] # "done" /\ chan[c] = "empty"
      BY <2>3, ShapeOK, HolderOK DEF HolderInv, HolderOf, Shape
    <3> QED
      BY <1>1, <2>2, <3>1, ShapeOK DEF Told, Shape
  <2>6. \/ {d \in Calls : lease'[d] # {}} = {d \in Calls : lease[d] # {}}
        \/ /\ pc[c] = "dropped"
           /\ {d \in Calls : lease'[d] # {}} = {d \in Calls : lease[d] # {}} \ {c}
    <3>1. CASE lease'[c] = {}
      <4>1. "future" \notin lease[c]
        BY <2>2, <2>3, <3>1, ShapeOK DEF Dropped, Shape
      <4>2. pc[c] = "dropped"
        BY <2>3, <4>1, ShapeOK, HolderOK DEF LeaseInv, LeaseOf, HolderInv, HolderOf, Phases, Shape
      <4> QED
        BY <2>2, <3>1, <4>2 DEF Dropped
    <3>2. CASE lease'[c] # {}
      BY <2>2, <2>3, <3>2, ShapeOK DEF Dropped, Shape
    <3> QED
      BY <3>1, <3>2
  <2>7. Contract!Lose(c)
    BY <1>1, <2>3, <2>4, <2>5, <2>6, Zenon DEF Contract!Lose, PhaseOf
  <2> QED
    BY <2>7, OneCall, Zenon DEF Contract!Step
<1>5. CASE rpc # "recv"
  <2>1. UNCHANGED <<holder, chan, result, lease>>
    BY <1>5 DEF ReaderUnwinds
  <2>2. Lent' = Lent
    BY <2>1, Zenon DEF Lent
  <2> QED
    BY <1>1, <1>2, <2>1, <2>2, UnseenStep
<1> QED
  BY <1>3, <1>4, <1>5

-----------------------------------------------------------------------------
\* Where a call stands for its application, after a step of that call alone.
LEMMA PhaseMoves ==
  ASSUME Shape, NEW c \in Calls, NEW p, pc' = [pc EXCEPT ![c] = p]
  PROVE  [d \in Calls |-> PhaseOf(pc'[d])]
           = [[d \in Calls |-> PhaseOf(pc[d])] EXCEPT ![c] = PhaseOf(p)]
  BY Zenon DEF Shape

\* Admission is Admit, and dropping the admitted future is Abandon.
LEMMA AdmissionSeen ==
  ASSUME Inv, NEW c \in Calls, TryCall(c) \/ DropUnpolled(c)
  PROVE  [Contract!Next]_(Contract!vars)
<1>1. UNCHANGED <<holder, chan, result, closed>>
  BY Zenon DEF TryCall, DropUnpolled, failVars
<1>2. Lent' = Lent
  BY <1>1, Zenon DEF Lent
<1>3. Shape
  BY ShapeOK
<1>4. CASE TryCall(c)
  <2>1. pc' = [pc EXCEPT ![c] = "admitted"] /\ pc[c] = "idle"
    BY <1>4, Zenon DEF TryCall
  <2>2. {d \in Calls : lease'[d] # {}} = {d \in Calls : lease[d] # {}} \cup {c}
    <3>1. lease' = [lease EXCEPT ![c] = {"future", "target"}]
      BY <1>4, Zenon DEF TryCall
    <3>2. \A d \in Calls : lease'[d] = IF d = c THEN {"future", "target"} ELSE lease[d]
      BY <1>3, <3>1, ShapeOK DEF Shape
    <3>3. "future" \in lease'[c]
      BY <3>2, Zenon
    <3> QED
      BY <3>2, <3>3
  <2>3. [d \in Calls |-> Told(d)'] = [d \in Calls |-> Told(d)]
    <3>1. \A d \in Calls : Told(d)' = Told(d)
      BY <1>1, <2>1, ShapeOK DEF Told, Shape
    <3> QED
      BY <3>1, Zenon
  <2>4. PhaseOf("admitted") = "running" /\ PhaseOf(pc[c]) = "idle"
    BY <2>1 DEF PhaseOf
  <2>5. Cardinality({d \in Calls : lease[d] # {}}) < MaxCalls
    BY <1>4, Zenon DEF TryCall
  <2>6. [d \in Calls |-> PhaseOf(pc'[d])]
          = [[d \in Calls |-> PhaseOf(pc[d])] EXCEPT ![c] = "running"]
    BY <1>3, <2>1, <2>4, PhaseMoves, Zenon
  <2>7. Contract!Admit(c)
    BY <1>1, <1>2, <2>2, <2>3, <2>4, <2>5, <2>6, Zenon DEF Contract!Admit, Cardinality, Contract!Cardinality
  <2> QED
    BY <2>7, OneCall, Zenon DEF Contract!Step
<1>5. CASE DropUnpolled(c)
  <2>1. pc' = [pc EXCEPT ![c] = "dropped"] /\ pc[c] = "admitted"
    BY <1>5, Zenon DEF DropUnpolled
  <2>2. {d \in Calls : lease'[d] # {}} = {d \in Calls : lease[d] # {}} \ {c}
    BY <1>5, ShapeOK DEF DropUnpolled, Shape
  <2>3. \A d \in Calls : Told(d)' = Told(d)
    BY <1>1, <2>1, ShapeOK DEF Told, Shape
  <2>4. PhaseOf("dropped") = "abandoned" /\ PhaseOf(pc[c]) = "running"
    BY <2>1 DEF PhaseOf
  <2>5. c \notin Lent
    BY <2>1 DEF Inv, Rest, HolderInv, HolderOf, Lent
  <2>6. [d \in Calls |-> PhaseOf(pc'[d])]
          = [[d \in Calls |-> PhaseOf(pc[d])] EXCEPT ![c] = "abandoned"]
    BY <1>3, <2>1, <2>4, PhaseMoves, Zenon
  <2>7. Contract!Abandon(c)
    BY <1>1, <1>2, <2>2, <2>3, <2>4, <2>5, <2>6 DEF Contract!Abandon
  <2> QED
    BY <2>7, OneCall, Zenon DEF Contract!Step
<1> QED
  BY <1>4, <1>5

\* Registration lends the receiver, and a refusal returns with its error.
LEMMA RegisterSeen ==
  ASSUME Inv, NEW c \in Calls, Register(c)
  PROVE  [Contract!Next]_(Contract!vars)
<1>1. UNCHANGED <<chan, closed>> /\ pc[c] = "admitted"
  BY Zenon DEF Register
<1>2. chan[c] = "empty" /\ holder[c] = "caller" /\ c \notin Lent /\ Shape
  BY <1>1, ShapeOK, HolderOK DEF HolderInv, HolderOf, Lent, Shape
<1>3. PhaseOf(pc[c]) = "running" /\ PhaseOf("lock") = "running" /\ PhaseOf("done") = "returned"
  BY <1>1 DEF PhaseOf
<1>4. CASE RegisterError(c) = "none"
  <2>1. /\ pc' = [pc EXCEPT ![c] = "lock"]
        /\ holder' = [holder EXCEPT ![c] = "registry"]
        /\ UNCHANGED <<result, lease>>
    BY <1>4, Zenon DEF Register
  <2>2. closed = "none"
    BY <1>4 DEF RegisterError
  <2>3. Lent' = Lent \cup {c}
    BY <2>1, ShapeOK DEF Lent, Shape
  <2>4. \A d \in Calls : Told(d)' = Told(d)
    BY <1>1, <2>1, ShapeOK DEF Told, Shape
  <2>5. [d \in Calls |-> PhaseOf(pc'[d])] = [d \in Calls |-> PhaseOf(pc[d])]
    BY <1>2, <1>3, <2>1, PhaseMoves
  <2>6. Told(c) = "none"
    BY <1>1, <1>2 DEF Told
  <2>7. Contract!Lend(c)
    BY <1>1, <1>2, <1>3, <2>1, <2>2, <2>3, <2>4, <2>5, <2>6 DEF Contract!Lend
  <2> QED
    BY <2>7, OneCall, Zenon DEF Contract!Step
<1>5. CASE RegisterError(c) # "none"
  <2>1. /\ pc' = [pc EXCEPT ![c] = "done"]
        /\ result' = [result EXCEPT ![c] = RegisterError(c)]
        /\ lease' = [lease EXCEPT ![c] = {}]
        /\ UNCHANGED holder
    BY <1>5, Zenon DEF Register
  <2>2. RegisterError(c) \in Errors
    BY <1>5, ShapeOK DEF RegisterError, Errors, Shape
  <2>3. Lent' = Lent
    BY <2>1, Zenon DEF Lent
  <2>4. [d \in Calls |-> Told(d)'] = [[d \in Calls |-> Told(d)] EXCEPT ![c] = RegisterError(c)]
    <3>1. \A d \in Calls : Told(d)' = IF d = c THEN RegisterError(c) ELSE Told(d)
      BY <1>1, <2>1, ShapeOK DEF Told, Shape
    <3> QED
      BY <3>1, Zenon
  <2>5. {d \in Calls : lease'[d] # {}} = {d \in Calls : lease[d] # {}} \ {c}
    BY <2>1, ShapeOK DEF Shape
  <2>6. Told(c) = "none"
    BY <1>1, <1>2 DEF Told
  <2>7. [d \in Calls |-> PhaseOf(pc'[d])]
          = [[d \in Calls |-> PhaseOf(pc[d])] EXCEPT ![c] = "returned"]
    <3>1. pc' = [pc EXCEPT ![c] = "done"] /\ Shape /\ PhaseOf("done") = "returned"
      BY <1>2, <1>3, <2>1, Zenon
    <3> QED
      BY <3>1, PhaseMoves, Zenon
  <2>8. Contract!Return(c)
    BY <1>1, <1>2, <1>3, <2>2, <2>3, <2>4, <2>5, <2>6, <2>7, Zenon DEF Contract!Return
  <2> QED
    BY <2>8, OneCall, Zenon DEF Contract!Step
<1> QED
  BY <1>4, <1>5

\* A future returns once its receiver is back.
LEMMA ReturnSeen ==
  ASSUME Inv, NEW c \in Calls, Return(c)
  PROVE  [Contract!Next]_(Contract!vars)
<1>1. /\ pc' = [pc EXCEPT ![c] = "done"]
      /\ pc[c] \in {"await", "stopwait"} /\ chan[c] # "empty"
      /\ UNCHANGED <<holder, chan, closed>>
  BY Zenon DEF Return, MayReturn
<1>2. Shape /\ holder[c] = "gone" /\ c \notin Lent
  BY <1>1, ShapeOK, HolderOK DEF HolderInv, HolderOf, Lent, Shape
<1>3. [d \in Calls |-> PhaseOf(pc'[d])]
        = [[d \in Calls |-> PhaseOf(pc[d])] EXCEPT ![c] = "returned"]
  <2>1. PhaseOf("done") = "returned"
    BY DEF PhaseOf
  <2> QED
    BY <1>1, <1>2, <2>1, PhaseMoves, Zenon
<1>4. PhaseOf(pc[c]) = "running"
  BY <1>1 DEF PhaseOf
<1>5. Lent' = Lent
  BY <1>1, Zenon DEF Lent
<1>6. \/ {d \in Calls : lease'[d] # {}} = {d \in Calls : lease[d] # {}}
      \/ {d \in Calls : lease'[d] # {}} = {d \in Calls : lease[d] # {}} \ {c}
  <2>1. \A d \in Calls : d # c => lease'[d] = lease[d]
    BY ShapeOK DEF Return, Shape
  <2>2. lease'[c] # {} => lease[c] # {}
    BY ShapeOK DEF Return, Shape
  <2>3. CASE lease'[c] = {}
    BY <2>1, <2>3
  <2>4. CASE lease'[c] # {}
    BY <2>1, <2>2, <2>4
  <2> QED
    BY <2>3, <2>4
<1>7. CASE chan[c] = "sent"
  <2>1. result' = result
    BY <1>7, ShapeOK DEF Return, Shape
  <2>2. \A d \in Calls : Told(d)' = Told(d)
    BY <1>1, <1>7, <2>1, ShapeOK DEF Told, Shape
  <2>3. Told(c) # "none"
    BY <1>7 DEF Told, Inv, Rest, DecisionInv, Decided, Errors, Interrupts, ConnectionErrors
  <2>4. Contract!Return(c)
    BY <1>1, <1>2, <1>3, <1>4, <1>5, <1>6, <2>2, <2>3, Zenon DEF Contract!Return
  <2> QED
    BY <2>4, OneCall, Zenon DEF Contract!Step
<1>8. CASE chan[c] # "sent"
  <2>1. result' = [result EXCEPT ![c] = result'[c]] /\ result'[c] \in Errors
    BY <1>8, ShapeOK DEF Return, Errors, ConnectionErrors, Shape
  <2>2. \A d \in Calls : Told(d)' = IF d = c THEN result'[c] ELSE Told(d)
    BY <1>1, <2>1, ShapeOK DEF Told, Shape
  <2>3. Told(c) = "none"
    BY <1>1, <1>8 DEF Told
  <2>4. [d \in Calls |-> Told(d)'] = [[d \in Calls |-> Told(d)] EXCEPT ![c] = result'[c]]
    BY <2>2, Zenon
  <2>5. Contract!Return(c)
    BY <1>1, <1>2, <1>3, <1>4, <1>5, <1>6, <2>1, <2>3, <2>4, Zenon DEF Contract!Return
  <2> QED
    BY <2>5, OneCall, Zenon DEF Contract!Step
<1> QED
  BY <1>7, <1>8

\* PendingCall::stop: the call takes its receiver back if it is still in the registry,
\* and has abandoned the call if the future is being dropped.
LEMMA DetachSeen ==
  ASSUME Inv, LeaseInv, NEW c \in Calls, Detach(c)
  PROVE  [Contract!Next]_(Contract!vars)
<1> DEFINE Held == IsOwnEntry(c) /\ holder[c] = "registry"
           Gone == pc[c] = "stopD"
<1>1. /\ pc[c] \in {"stopW", "stopS", "stopA", "stopD"}
      /\ pc' = [pc EXCEPT ![c] = AfterStop(c)]
      /\ UNCHANGED closed
  BY Zenon DEF Detach
<1>2. Shape /\ PhaseOf(pc[c]) = "running" /\ pc[c] # "done" /\ pc[c] \in ActivePhases
  BY <1>1, ShapeOK DEF PhaseOf, ActivePhases, WriterPhases
<1>3. /\ Gone => AfterStop(c) = "dropped"
      /\ ~Gone => AfterStop(c) \in {"finish", "unwind", "await", "stopwait"}
  BY <1>1 DEF AfterStop
<1>4. /\ Gone => PhaseOf(AfterStop(c)) = "abandoned"
      /\ ~Gone => PhaseOf(AfterStop(c)) = "running"
      /\ AfterStop(c) # "done"
  BY <1>3 DEF PhaseOf
<1>5. [d \in Calls |-> PhaseOf(pc'[d])]
        = [[d \in Calls |-> PhaseOf(pc[d])] EXCEPT ![c] = PhaseOf(AfterStop(c))]
  BY <1>1, <1>2, PhaseMoves, Zenon
<1>6. ~Gone => [d \in Calls |-> PhaseOf(pc'[d])] = [d \in Calls |-> PhaseOf(pc[d])]
  BY <1>2, <1>4, <1>5, Zenon
<1>7. \A d \in Calls : lease'[d] = IF d = c THEN lease[c] \ (ReleasedByStop(c) \cup
                                       (IF pc[c] = "stopD" THEN {"future"} ELSE {}))
                                  ELSE lease[d]
  BY <1>2, ShapeOK DEF Detach, Shape
<1>8. "future" \in lease[c] /\ (c \in Lent => "target" \in lease[c])
  BY <1>2 DEF LeaseInv, LeaseOf, Lenders, Lent
<1>9. ~Gone => {d \in Calls : lease'[d] # {}} = {d \in Calls : lease[d] # {}}
  <2> SUFFICES ASSUME ~Gone PROVE \A d \in Calls : lease'[d] # {} <=> lease[d] # {}
    OBVIOUS
  <2>1. "future" \in lease'[c]
    BY <1>7, <1>8 DEF ReleasedByStop
  <2> QED
    BY <1>7, <1>8, <2>1
<1>10. CASE Held
  <2>1. Deliver(c, err[c])
    BY <1>10, Zenon DEF Detach
  <2>2. c \in Lent /\ chan[c] = "empty"
    BY <1>10, ShapeOK, HolderOK DEF Lent, HolderInv, HolderOf, Shape
  <2>3. terminal[c] \in Errors
    <3>1. Decided(c) /\ terminal[c] \in Errors \cup {"none", "ok"}
      BY ShapeOK, DecisionOK DEF DecisionInv, Shape
    <3> QED
      BY <1>1, <2>2, <3>1 DEF Decided
  <2>4. result'[c] \in Errors
    BY <2>1, <2>3, ShapeOK DEF Deliver, FinishResult, Shape
  <2>5. Lent' = Lent \ {c}
    BY <2>1, ShapeOK DEF Deliver, Lent, Shape
  <2>6. [d \in Calls |-> Told(d)'] = [[d \in Calls |-> Told(d)] EXCEPT ![c] = result'[c]]
    <3>1. \A d \in Calls : Told(d)' = IF d = c THEN result'[c] ELSE Told(d)
      BY <1>1, <2>1, ShapeOK DEF Deliver, Told, Shape
    <3> QED
      BY <3>1, Zenon
  <2>7. Told(c) = "none"
    BY <1>2, <2>2 DEF Told
  <2>8. CASE ~Gone
    <3>1. Contract!GiveBack(c, result'[c])
      BY <1>1, <1>6, <1>9, <2>2, <2>5, <2>6, <2>7, <2>8 DEF Contract!GiveBack
    <3> QED
      BY <2>4, <3>1, OneCall, Zenon DEF Contract!Step
  <2>9. CASE Gone
    <3>1. lease'[c] = {}
      BY <1>7, <1>10, <2>9, ShapeOK DEF ReleasedByStop, Shape
    <3>2. {d \in Calls : lease'[d] # {}} = {d \in Calls : lease[d] # {}} \ {c}
      BY <1>7, <3>1
    <3>3. Contract!Abandon(c)
      BY <1>1, <1>2, <1>4, <1>5, <2>2, <2>4, <2>5, <2>6, <2>7, <2>9, <3>2, Zenon DEF Contract!Abandon
    <3> QED
      BY <3>3, OneCall, Zenon DEF Contract!Step
  <2> QED
    BY <2>8, <2>9
<1>11. CASE ~Held
  <2>1. UNCHANGED <<holder, chan, result>>
    BY <1>11, Zenon DEF Detach
  <2>2. Lent' = Lent
    BY <2>1, Zenon DEF Lent
  <2>3. [d \in Calls |-> Told(d)'] = [d \in Calls |-> Told(d)]
    <3>1. \A d \in Calls : Told(d)' = Told(d)
      BY <1>1, <1>2, <1>4, <2>1, ShapeOK DEF Told, Shape
    <3> QED
      BY <3>1, Zenon
  <2>4. CASE ~Gone
    BY <1>1, <1>6, <1>9, <2>2, <2>3, <2>4, Zenon DEF Contract!vars
  <2>5. CASE Gone
    <3>1. lease'[c] = lease[c] \ {"future"}
      BY <1>7, <1>11, <2>5 DEF ReleasedByStop
    <3>2. \/ {d \in Calls : lease'[d] # {}} = {d \in Calls : lease[d] # {}}
          \/ {d \in Calls : lease'[d] # {}} = {d \in Calls : lease[d] # {}} \ {c} /\ c \notin Lent
      <4>1. CASE lease'[c] = {}
        <5>1. c \notin Lent
          BY <1>8, <3>1, <4>1
        <5> QED
          BY <1>7, <4>1, <5>1
      <4>2. CASE lease'[c] # {}
        BY <1>7, <1>8, <4>2
      <4> QED
        BY <4>1, <4>2
    <3>3. Contract!Abandon(c)
      BY <1>1, <1>2, <1>4, <1>5, <2>2, <2>3, <2>5, <3>2, Zenon DEF Contract!Abandon
    <3> QED
      BY <3>3, OneCall, Zenon DEF Contract!Step
  <2> QED
    BY <2>4, <2>5
<1> QED
  BY <1>10, <1>11

-----------------------------------------------------------------------------
\* Every step of the transport is a step of the contract, or none.
LEMMA ContractStep ==
  ASSUME Inv, LeaseInv, [Next]_vars
  PROVE  [Contract!Next]_(Contract!vars)
<1>1. ASSUME NEW c \in Calls, CallStep(c) \/ CallEvent(c) PROVE [Contract!Next]_(Contract!vars)
  BY <1>1, FutureUnseen, CallEnds, AdmissionSeen, RegisterSeen, ReturnSeen, DetachSeen, Zenon
     DEF CallStep, CallEvent, Quiet, Breaks
<1>2. CASE FailStep
  BY <1>2, RestUnseen, FailCallSeen, PermitSeen, Zenon DEF FailStep
<1>3. CASE ReaderStep \/ ReaderUnwinds \/ ReaderEvent
  BY <1>3, RestUnseen, OwnerEnds, ReceiveSeen, PermitSeen, ReaderExitSeen, UnwindsSeen, Zenon
     DEF ReaderStep, ReaderEvent
<1>4. CASE OwnerStep \/ UNCHANGED vars
  BY <1>4, RestUnseen, OwnerEnds, Zenon DEF OwnerStep
<1> QED
  BY <1>1, <1>2, <1>3, <1>4, Zenon DEF Next

\* A fresh transport is a fresh contract.
LEMMA ContractInit == Init => Contract!Init
  BY DEF Init, Contract!Init, PhaseOf, Told, Lent

\* The owned transport implements the contract of docs/owned-buffers.md, however its
\* callers, its reader, State::fail and its owner interleave.
THEOREM Refinement == Spec => ImplementsContract
<1>1. Init => LeaseInv
  BY DEF Init, LeaseInv, LeaseOf, Lenders, ActivePhases, WriterPhases
<1>2. Inv /\ LeaseInv /\ [Next]_vars => LeaseInv'
  BY LeaseStep
<1>3. Inv /\ LeaseInv /\ [Next]_vars => [Contract!Next]_(Contract!vars)
  BY ContractStep
<1> QED
  BY <1>1, <1>2, <1>3, ContractInit, Invariance, PTL DEF Spec, ImplementsContract, Contract!Spec

-----------------------------------------------------------------------------
INSTANCE FiniteSetTheorems

\* Removing members keeps a finite set within a bound.
LEMMA SmallerWithin ==
  ASSUME NEW S, IsFiniteSet(S), NEW T \in SUBSET S, NEW k \in Nat, Cardinality(S) <= k
  PROVE  Cardinality(T) <= k
<1>1. Cardinality(T) <= Cardinality(S) /\ IsFiniteSet(T)
  BY FS_Subset, Zenon
<1>2. Cardinality(T) \in Nat /\ Cardinality(S) \in Nat
  BY <1>1, FS_CardinalityType, Zenon
<1> QED
  BY <1>1, <1>2

\* One member may be added to a set that is smaller than the bound.
LEMMA OneMoreWithin ==
  ASSUME NEW S, IsFiniteSet(S), NEW x, NEW T \in SUBSET (S \cup {x}), NEW k \in Nat, Cardinality(S) < k
  PROVE  Cardinality(T) <= k
<1>1. Cardinality(S) \in Nat
  BY FS_CardinalityType, Zenon
<1>2. IsFiniteSet(S \cup {x})
  BY FS_AddElement, Zenon
<1>3. Cardinality(S \cup {x}) = Cardinality(S) \/ Cardinality(S \cup {x}) = Cardinality(S) + 1
  BY FS_AddElement, Zenon
<1>4. Cardinality(S \cup {x}) <= k
  BY <1>1, <1>3
<1> QED
  BY <1>2, <1>4, SmallerWithin, Zenon

Charged == {c \in Calls : lease[c] # {}}

\* The number of admitted calls stays within max_calls.
LEMMA AdmittedBound ==
  ASSUME LeaseTyped, LeaseGrows, Cardinality(Charged) <= MaxCalls
  PROVE  Cardinality(Charged') <= MaxCalls
<1>1. IsFiniteSet(Calls) /\ MaxCalls \in Nat
  BY ConstantsAssumption, Zenon
<1>2. Charged \in SUBSET Calls
  BY Zenon DEF Charged
<1>3. IsFiniteSet(Charged)
  BY <1>1, <1>2, FS_Subset, Zenon
<1>4. CASE \A d \in Calls : lease'[d] \subseteq lease[d]
  <2>1. Charged' \in SUBSET Charged
    BY <1>4 DEF Charged
  <2> QED
    BY <1>1, <1>3, <2>1, SmallerWithin, Zenon
<1>5. ASSUME NEW c \in Calls, TryCall(c) PROVE Cardinality(Charged') <= MaxCalls
  <2>1. Cardinality(Charged) < MaxCalls
    BY <1>5, Zenon DEF TryCall, Charged
  <2>2. \A d \in Calls : d # c => lease'[d] = lease[d]
    BY <1>5 DEF TryCall, LeaseTyped
  <2>3. Charged' \in SUBSET (Charged \cup {c})
    BY <2>2 DEF Charged
  <2> QED
    BY <1>1, <1>3, <2>1, <2>3, OneMoreWithin, Zenon
<1> QED
  BY <1>4, <1>5, Zenon DEF LeaseGrows

\* Charges outlive futures and senders, and admission respects its limit.
THEOREM CapacityRespected == Spec => []CapacityHeld
<1> DEFINE CInv == Inv /\ LeaseInv /\ Cardinality(Charged) <= MaxCalls
<1>1. Init => CInv
  <2>1. ASSUME Init PROVE Charged = {}
    BY <2>1 DEF Init, Charged
  <2>2. Cardinality({}) = 0 /\ 0 <= MaxCalls
    BY FS_EmptySet, ConstantsAssumption
  <2>3. Init => LeaseInv
    BY DEF Init, LeaseInv, LeaseOf, Lenders, ActivePhases, WriterPhases
  <2> QED
    BY <2>1, <2>2, <2>3, InitInv, Zenon
<1>2. ASSUME CInv, [Next]_vars PROVE CInv'
  <2>1. Inv' /\ LeaseInv' /\ LeaseGrows
    BY <1>2, InvStep, LeaseStep, Zenon
  <2>2. LeaseTyped
    BY <1>2, InvLease, Zenon
  <2> QED
    BY <1>2, <2>1, <2>2, AdmittedBound, Zenon
<1>3. CInv => CapacityHeld
  BY DEF LeaseInv, LeaseOf, Lenders, Charged, CapacityHeld
<1> QED
  BY <1>1, <1>2, <1>3, PTL DEF Spec
=============================================================================
