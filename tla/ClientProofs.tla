---------------------------- MODULE ClientProofs ----------------------------
(***************************************************************************)
(* The small components of a client, one after the other: the admission of *)
(* one connection, the UDP transport and the XID allocator.                *)
(***************************************************************************)
EXTENDS Admission, UdpClient, XidAllocator, FiniteSetTheorems, TLAPS

-----------------------------------------------------------------------------
(* Admission: for every number of callers, every additive charge and all       *)
(* limits the counters are exact and within the limits, and no waiter misses   *)
(* the release or the close that answers it.                                   *)

\* ChargesExact is inductive with the types; NoLostWakeup needs it, because
\* an acquisition must not wrap a counter and open capacity.
Inv == TypeOK /\ ChargesExact /\ NoLostWakeup

\* A member's weight is part of the charge of the set: removing the member
\* takes exactly the weight away.
LEMMA ChargeOfMember ==
    ASSUME NEW S \in SUBSET Callers, NEW c \in S
    PROVE  /\ Charge[S] = Charge[S \ {c}] + Weight(c)
           /\ Charge[S] \in Nat /\ Charge[S \ {c}] \in Nat
<1>1. /\ S \ {c} \in SUBSET Callers
      /\ c \in Callers \ (S \ {c})
      /\ S = (S \ {c}) \cup {c}
      OBVIOUS
<1> QED BY <1>1, AdmissionAssumption, Zenon DEF Weight

\* Admitting a caller adds exactly its weight to the charge.
LEMMA ChargeOfNewcomer ==
    ASSUME NEW S \in SUBSET Callers, NEW c \in Callers \ S
    PROVE  Charge[S \cup {c}] = Charge[S] + Weight(c)
BY AdmissionAssumption, Zenon DEF Weight

\* The holders are finitely many.
LEMMA HeldFinite == IsFiniteSet(Held)
BY AdmissionAssumption, FS_Subset DEF Held

\* Arithmetic within the range of a usize does not wrap.
LEMMA WrapExact == \A n \in 0..UsizeMax : Wrap(n) = n
BY AdmissionAssumption DEF Wrap

\* Initially nobody holds or waits.
LEMMA InitInv == Init => Inv
<1> SUFFICES ASSUME Init PROVE Inv
    OBVIOUS
<1>1. Held = {}
      BY DEF Init, Held
<1>2. Cardinality({}) = 0 /\ Charge[{}] = 0
      BY FS_EmptySet, AdmissionAssumption
<1>3. ChargesExact
      BY <1>1, <1>2, AdmissionAssumption DEF Init, ChargesExact
<1>4. TypeOK
      <2>1. UsizeMax \in Nat
            BY AdmissionAssumption
      <2>2. notified \in [Callers -> BOOLEAN] /\ closed \in BOOLEAN
            BY Zenon DEF Init
      <2> QED BY <2>1, <2>2 DEF Init, TypeOK
<1>5. NoLostWakeup
      BY DEF Init, NoLostWakeup
<1> QED BY <1>3, <1>4, <1>5 DEF Inv

\* try_acquire: the new charges are exact, within the limits, and leave a
\* request that was refused still refused.
LEMMA AcquireStep ==
    ASSUME Inv, NEW c \in Callers, TryAcquire(c)
    PROVE  Inv'
<1> USE AdmissionAssumption
<1>1. /\ calls + 1 <= MaxCalls /\ bytes + Weight(c) <= MaxBytes
      /\ calls \in 0..UsizeMax /\ bytes \in 0..UsizeMax /\ Weight(c) \in 0..UsizeMax
      <2>1. /\ calls \in 0..UsizeMax /\ bytes \in 0..UsizeMax /\ UsizeMax \in Nat
            /\ MaxCalls \in Nat /\ MaxBytes \in Nat /\ Weight(c) \in 0..UsizeMax
            BY DEF Inv, TypeOK, Weight
      <2>2. ~Exceeds(calls, 1, MaxCalls) /\ ~Exceeds(bytes, Weight(c), MaxBytes)
            BY Zenon DEF TryAcquire, Check
      <2> QED BY <2>1, <2>2 DEF Exceeds
<1>2. calls' = calls + 1 /\ bytes' = bytes + Weight(c)
      BY <1>1, WrapExact DEF TryAcquire
<1>3. Held' = Held \cup {c} /\ c \in Callers \ Held /\ Held \in SUBSET Callers
      BY DEF Inv, TypeOK, TryAcquire, Held
<1>4. Cardinality(Held') = Cardinality(Held) + 1
      BY <1>3, HeldFinite, FS_AddElement, Zenon
<1>5. Charge[Held'] = Charge[Held] + Weight(c)
      BY <1>3, ChargeOfNewcomer
<1>6. ChargesExact'
      BY <1>1, <1>2, <1>4, <1>5 DEF Inv, ChargesExact
<1>7. TypeOK'
      BY <1>1, <1>2 DEF Inv, TypeOK, TryAcquire
<1>8. ASSUME NEW d \in Callers, Check(Weight(d))' # "AtCapacity"
      PROVE  Check(Weight(d)) # "AtCapacity"
      <2>1. Weight(d) \in 0..UsizeMax /\ closed' = closed
            BY DEF Weight, TryAcquire
      <2> QED BY <1>1, <1>2, <1>8, <2>1 DEF Check, Exceeds, Weight
<1>9. NoLostWakeup'
      BY <1>8 DEF Inv, TypeOK, NoLostWakeup, TryAcquire
<1> QED BY <1>6, <1>7, <1>9 DEF Inv

\* Dropping a permit subtracts what it added and owes a notification.
LEMMA ReleaseStep ==
    ASSUME Inv, NEW c \in Callers, Release(c)
    PROVE  Inv'
<1> USE AdmissionAssumption
<1>1. Held' = Held \ {c} /\ c \in Held /\ Held \in SUBSET Callers
      BY DEF Inv, TypeOK, Release, Held
<1>2. Cardinality(Held') = Cardinality(Held) - 1 /\ Cardinality(Held) \in Nat
      BY <1>1, HeldFinite, FS_RemoveElement, FS_CardinalityType, Zenon
<1>3. /\ Charge[Held] = Charge[Held'] + Weight(c)
      /\ Charge[Held] \in Nat /\ Charge[Held'] \in Nat
      BY <1>1, ChargeOfMember
<1>4. Cardinality(Held') \in Nat
      BY <1>1, HeldFinite, FS_RemoveElement, FS_CardinalityType
<1>5. Weight(c) \in Nat /\ calls \in 0..UsizeMax /\ bytes \in 0..UsizeMax
      BY DEF Weight, Inv, TypeOK
<1>6. calls - 1 \in 0..UsizeMax /\ bytes - Weight(c) \in 0..UsizeMax
      BY <1>2, <1>3, <1>4, <1>5 DEF Inv, ChargesExact
<1>7. calls' = calls - 1 /\ bytes' = bytes - Weight(c)
      BY <1>6, WrapExact DEF Release
<1>8. ChargesExact'
      BY <1>2, <1>3, <1>5, <1>6, <1>7 DEF Inv, ChargesExact
<1>9. TypeOK'
      BY <1>6, <1>7 DEF Inv, TypeOK, Release
<1>10. NoLostWakeup'
      BY DEF Inv, TypeOK, NoLostWakeup, Release
<1> QED BY <1>8, <1>9, <1>10 DEF Inv

\* A notification leaves no unwoken waiter behind.
LEMMA NotifyStep ==
    ASSUME Inv, NotifyWaiters, UNCHANGED <<calls, bytes, closed, wait>>,
           \/ UNCHANGED permit /\ NotifyClose
           \/ UNCHANGED closer /\ \E c \in Callers : NotifyRelease(c)
    PROVE  Inv'
<1>1. Held' = Held
      BY DEF Held, NotifyRelease, Inv, TypeOK
<1>2. ChargesExact'
      BY <1>1 DEF Inv, ChargesExact
<1>3. \A c \in Callers : notified[c] \/ Waiting(c) \in BOOLEAN
      BY DEF Inv, TypeOK, Waiting
<1>4. notified' \in [Callers -> BOOLEAN]
      BY <1>3, Zenon DEF NotifyWaiters, Inv, TypeOK, Waiting
<1>5. TypeOK'
      BY <1>4 DEF Inv, TypeOK, NotifyClose, NotifyRelease
<1>6. NoLostWakeup'
      BY Zenon DEF Inv, TypeOK, NoLostWakeup, NotifyWaiters, Waiting
<1> QED BY <1>2, <1>5, <1>6 DEF Inv

\* close() and the steps of a waiter leave the counters alone; a waiter
\* goes on to wait only when it is refused.
LEMMA WaitStep ==
    ASSUME Inv,
           Close \/ \E c \in Callers :
              \/ WaitForCapacity(c) \/ Refused(c) \/ Answered(c)
              \/ Park(c) \/ Woken(c) \/ DropWait(c)
    PROVE  Inv'
<1>1. UNCHANGED <<calls, bytes, permit>>
      BY DEF Close, WaitForCapacity, Refused, Answered, Park, Woken, DropWait,
             Enable, EndWait
<1>2. Held' = Held
      BY <1>1 DEF Held
<1>3. ChargesExact'
      BY <1>1, <1>2 DEF Inv, ChargesExact
<1>4. CASE Close
      <2>1. TypeOK'
            BY <1>1, <1>4 DEF Inv, TypeOK, Close
      <2>2. NoLostWakeup'
            BY <1>4 DEF NoLostWakeup, Close
      <2> QED BY <1>3, <2>1, <2>2 DEF Inv
<1>5. ASSUME NEW c \in Callers, Enable(c)
      PROVE  Inv'
      <2>1. TypeOK'
            BY <1>5 DEF Inv, TypeOK, Enable
      <2>2. NoLostWakeup'
            BY <1>5, Zenon DEF Inv, TypeOK, NoLostWakeup, Enable, Check, Exceeds, Weight
      <2> QED BY <1>3, <2>1, <2>2 DEF Inv
<1>6. ASSUME NEW c \in Callers, EndWait(c)
      PROVE  Inv'
      <2>1. TypeOK'
            BY <1>6 DEF Inv, TypeOK, EndWait
      <2>2. NoLostWakeup'
            BY <1>6, Zenon DEF Inv, TypeOK, NoLostWakeup, EndWait, Check, Exceeds, Weight
      <2> QED BY <1>3, <2>1, <2>2 DEF Inv
<1>7. ASSUME NEW c \in Callers, Refused(c) \/ Park(c)
      PROVE  Inv'
      <2>1. TypeOK'
            BY <1>7 DEF Inv, TypeOK, Refused, Park
      <2>2. \A d \in Callers : Check(Weight(d))' = Check(Weight(d))
            BY <1>7 DEF Refused, Park, Check, Weight
      <2>3. \A d \in Callers : wait'[d] \in {"refused", "parked"} =>
               wait[d] \in {"refused", "parked"} \/ Check(Weight(d)) = "AtCapacity"
            BY <1>7 DEF Inv, TypeOK, Refused, Park
      <2>4. UNCHANGED <<closer, permit, notified>>
            BY <1>7 DEF Refused, Park
      <2>5. NoLostWakeup'
            BY <2>2, <2>3, <2>4 DEF Inv, NoLostWakeup
      <2> QED BY <1>3, <2>1, <2>5 DEF Inv
<1> QED BY <1>4, <1>5, <1>6, <1>7 DEF WaitForCapacity, Woken, Answered, DropWait

\* Every step of the module preserves the invariant.
LEMMA InvStep == Inv /\ [Next]_vars => Inv'
<1> SUFFICES ASSUME Inv, [Next]_vars PROVE Inv'
    OBVIOUS
<1>1. CASE \E c \in Callers : TryAcquire(c)
      BY <1>1, AcquireStep
<1>2. CASE \E c \in Callers : Release(c)
      BY <1>2, ReleaseStep
<1>3. CASE NotifyClose \/ \E c \in Callers : NotifyRelease(c)
      BY <1>3, NotifyStep DEF NotifyClose, NotifyRelease
<1>4. CASE Close \/ \E c \in Callers :
              \/ WaitForCapacity(c) \/ Refused(c) \/ Answered(c)
              \/ Park(c) \/ Woken(c) \/ DropWait(c)
      BY <1>4, WaitStep
<1>5. CASE UNCHANGED vars
      BY <1>5 DEF vars, Inv, TypeOK, ChargesExact, NoLostWakeup, Held, Check, Exceeds, Weight
<1> QED BY <1>1, <1>2, <1>3, <1>4, <1>5 DEF Next

\* The invariant holds in every reachable state.
THEOREM Invariance == Spec => []Inv
BY InitInv, InvStep, PTL DEF Spec

\* The counters and the threads of admission keep their types.
THEOREM TypeCorrect == Spec => []TypeOK
<1>1. Inv => TypeOK
      BY DEF Inv
<1> QED BY <1>1, Invariance, PTL

\* try_acquire and AdmissionPermit::drop keep the counters equal to the
\* permits that exist, within max_calls and max_bytes.
THEOREM AccountingExact == Spec => []ChargesExact
<1>1. Inv => ChargesExact
      BY DEF Inv
<1> QED BY <1>1, Invariance, PTL

\* wait_for_capacity() never sleeps through the release or the close that
\* answers it.
THEOREM WakeupNotLost == Spec => []NoLostWakeup
<1>1. Inv => NoLostWakeup
      BY DEF Inv
<1> QED BY <1>1, Invariance, PTL

\* State::check refuses a request with AtCapacity only while a permit exists.
THEOREM RefusalJustified == Spec => []RefusalHasHolder
<1>1. ASSUME Inv, Held = {}, NEW c \in Callers
      PROVE  Check(Weight(c)) # "AtCapacity"
      <2>1. calls = 0 /\ bytes = 0
            BY <1>1, FS_EmptySet, AdmissionAssumption DEF Inv, ChargesExact
      <2> QED BY <2>1, AdmissionAssumption DEF Check, Exceeds, Weight
<1>2. Inv => RefusalHasHolder
      BY <1>1 DEF RefusalHasHolder
<1> QED BY <1>2, Invariance, PTL

-----------------------------------------------------------------------------
(* The UDP transport: for every set of calls and every assignment of XIDs the  *)
(* pending table keeps exactly the calls that can still be answered, no sender *)
(* is lost, and replies reach calls of their XID.                              *)

\* A reply that may answer call c: same XID, and its datagram was sent.
Answers(m, c) == XidOf[m] = XidOf[c] /\ m \in sent

\* Replies match their calls all the way from the reader to the result.
RepliesMatch ==
    /\ reader = "deliver" => Answers(rmsg, rcall)
    /\ \A c \in Calls : chan[c] \in Calls => Answers(chan[c], c)
    /\ \A c \in Calls : result[c] \in Calls => Answers(result[c], c)

UdpInv == UdpTypeOK /\ NoStaleEntry /\ SenderNotLost /\ RepliesMatch

\* Initially the table and the channels are empty.
LEMMA UdpInitInv ==
    UdpInit => UdpInv
BY UdpAssumption DEF UdpInit, UdpInv, UdpTypeOK, NoStaleEntry, SenderNotLost, RepliesMatch, Active

\* The steps of a call preserve the invariant.
LEMMA UdpCallInv ==
    ASSUME UdpInv, NEW c \in Calls, CallStep(c) \/ CallEvent(c)
    PROVE  UdpInv'
<1> USE UdpAssumption DEF UdpInv, UdpTypeOK, NoStaleEntry, SenderNotLost, RepliesMatch, Answers,
            Active, readerVars
<1>1. CASE \E e \in {"Cancelled", "Wire", "Transport"} : Refuse(c, e)
      BY <1>1 DEF Refuse
<1>2. CASE Register(c)
      BY <1>2 DEF Register
<1>3. CASE Send(c)
      BY <1>3 DEF Send
<1>4. CASE \E e \in {"Transport", "WriteTimeout"} : SendFails(c, e)
      BY <1>4 DEF SendFails, End
<1>5. CASE Receive(c)
      BY <1>5 DEF Receive, End
<1>6. CASE \E e \in {"Cancelled", "CallTimeout", "dropped"} : Interrupt(c, e)
      BY <1>6 DEF Interrupt, End
<1>7. CASE Unregister(c)
      BY <1>7 DEF Unregister
<1> QED BY <1>1, <1>2, <1>3, <1>4, <1>5, <1>6, <1>7, Zenon DEF CallStep, CallEvent

\* The steps of the reader preserve the invariant.
LEMMA UdpReaderInv ==
    ASSUME UdpInv, ReaderStep \/ ReaderEvent
    PROVE  UdpInv'
<1> USE UdpAssumption DEF UdpInv, UdpTypeOK, NoStaleEntry, SenderNotLost, RepliesMatch, Answers,
            Active, callVars
<1>1. CASE \E d \in Calls : ReadReply(d)
      BY <1>1 DEF ReadReply, Taken
<1>2. CASE Deliver
      BY <1>2 DEF Deliver, SendTo
<1>3. CASE ReadFails
      BY <1>3 DEF ReadFails
<1>4. CASE TakePending
      BY <1>4 DEF TakePending
<1>5. CASE \E c \in Calls : FailOne(c)
      BY <1>5 DEF FailOne, SendTo
<1>6. CASE ReaderExit
      BY <1>6 DEF ReaderExit
<1> QED BY <1>1, <1>2, <1>3, <1>4, <1>5, <1>6, Zenon DEF ReaderStep, ReaderEvent

\* Every step of the transport preserves the invariant.
LEMMA UdpStep ==
    UdpInv /\ [UdpNext]_udpVars => UdpInv'
<1>1. ASSUME UdpInv, UNCHANGED udpVars
      PROVE  UdpInv'
      BY <1>1 DEF udpVars, UdpInv, UdpTypeOK, NoStaleEntry, SenderNotLost, RepliesMatch, Answers, Active
<1> QED BY <1>1, UdpCallInv, UdpReaderInv DEF UdpNext

\* The invariant holds in every reachable state.
THEOREM UdpInvariance == UdpSpec => []UdpInv
<1>1. UdpInit => UdpInv
      BY UdpInitInv
<1>2. UdpInv /\ [UdpNext]_udpVars => UdpInv'
      BY UdpStep
<1> QED BY <1>1, <1>2, PTL DEF UdpSpec

\* The futures, the table and the reader of the UDP transport keep their
\* types.
THEOREM UdpTypeCorrect == UdpSpec => []UdpTypeOK
<1>1. UdpInv => UdpTypeOK
      BY DEF UdpInv
<1> QED BY <1>1, UdpInvariance, PTL

\* UdpPendingCall::drop and the reader leave no entry of a returned call.
THEOREM TableClean == UdpSpec => []NoStaleEntry
<1>1. UdpInv => NoStaleEntry
      BY DEF UdpInv
<1> QED BY <1>1, UdpInvariance, PTL

\* The token check of UdpPendingCall::drop never costs a waiting call its
\* sender.
THEOREM SendersKept == UdpSpec => []SenderNotLost
<1>1. UdpInv => SenderNotLost
      BY DEF UdpInv
<1> QED BY <1>1, UdpInvariance, PTL

\* udp_reader_loop matches replies to calls by XID.
THEOREM RepliesCorrect == UdpSpec => []ReplyMatches
<1>1. UdpInv => ReplyMatches
      BY DEF UdpInv, RepliesMatch, Answers, ReplyMatches
<1> QED BY <1>1, UdpInvariance, PTL

\* A client that never reuses an XID never gets another call's reply.
THEOREM UniqueXidsOwnReply ==
    ASSUME \A c, d \in Calls : XidOf[c] = XidOf[d] => c = d
    PROVE  UdpSpec => []OwnReply
<1>1. UdpInv => OwnReply
      BY DEF UdpInv, RepliesMatch, Answers, OwnReply
<1> QED BY <1>1, UdpInvariance, PTL

-----------------------------------------------------------------------------
(* The XID allocator: for every number of threads and every XID width XIDs are *)
(* issued once, in increasing order, and exhaustion is reported only when it   *)
(* is final.                                                                   *)

\* What a thread has seen of the counter is never ahead of it, because the
\* counter only grows.
SeenBehind ==
    \A t \in Threads : /\ current[t] <= counter
                       /\ last[t] < counter
                       /\ xpc[t] = "exhausted" => counter = MaxXid

XidInv == XidTypeOK /\ IssuedOnce /\ SeenBehind

\* A fresh allocator has issued nothing.
LEMMA XidInitInv ==
    XidInit => XidInv
BY XidAssumption DEF XidInit, XidInv, XidTypeOK, IssuedOnce, SeenBehind, XidSpace

\* A successful exchange issues the XID at the counter, which nobody has,
\* and it is larger than the last one of the thread.
LEMMA ExchangeStep ==
    ASSUME XidInv, NEW t \in Threads, Exchange(t)
    PROVE  XidInv' /\ IncreasesPerThread
<1> DEFINE X == XidSpace
<1>1. /\ X = 0..MaxXid /\ MaxXid \in Nat /\ counter \in 1..MaxXid
      /\ current \in [Threads -> X] /\ xpc \in [Threads -> {"idle", "cas", "exhausted"}]
      /\ issued \in [X -> Nat] /\ last \in [Threads -> X]
      BY XidAssumption, Zenon DEF XidInv, XidTypeOK, XidSpace
<1>2. /\ counter = current[t] /\ counter' \in Successor(counter)
      /\ xpc' = [xpc EXCEPT ![t] = "idle"] /\ current' = current
      /\ issued' = [issued EXCEPT ![counter] = issued[counter] + 1]
      /\ last' = [last EXCEPT ![t] = counter]
      BY Zenon DEF Exchange
<1>3. counter # MaxXid /\ counter' = counter + 1
      BY <1>2 DEF Successor
<1> HIDE DEF X
<1>4. counter \in X /\ counter' \in 1..MaxXid
      BY <1>1, <1>3
<1>5. XidTypeOK'
      <2>1. issued[counter] + 1 \in Nat
            BY <1>1, <1>4
      <2>2. issued' \in [X -> Nat] /\ last' \in [Threads -> X] /\ xpc' \in [Threads -> {"idle", "cas", "exhausted"}]
            BY <1>1, <1>2, <1>4, <2>1
      <2> QED BY <1>1, <1>2, <1>4, <2>2, Zenon DEF XidTypeOK, X
<1>6. IssuedOnce'
      <2>1. \A x \in X : issued[x] = IF x \in 1..(counter - 1) THEN 1 ELSE 0
            BY Zenon DEF XidInv, IssuedOnce, X
      <2>2. counter \notin 1..(counter - 1)
            BY <1>1
      <2>3. issued[counter] = 0
            BY <1>4, <2>1, <2>2, Zenon
      <2>4. issued'[counter] = 1 /\ \A x \in X : x # counter => issued'[x] = issued[x]
            BY <1>1, <1>2, <1>4, <2>3
      <2>5. ASSUME NEW x \in X PROVE x \in 1..(counter' - 1) <=> x = counter \/ x \in 1..(counter - 1)
            BY <1>1, <1>3
      <2>6. ASSUME NEW x \in X PROVE issued'[x] = IF x \in 1..(counter' - 1) THEN 1 ELSE 0
            <3>1. CASE x = counter
                  BY <2>4, <2>5, <3>1, Zenon
            <3>2. CASE x # counter
                  BY <2>1, <2>4, <2>5, <3>2, Zenon
            <3> QED BY <3>1, <3>2
      <2> QED BY <2>6, Zenon DEF IssuedOnce, X
<1>7. ASSUME NEW u \in Threads
      PROVE  /\ current'[u] <= counter' /\ last'[u] < counter' /\ (xpc'[u] = "exhausted" => counter' = MaxXid)
             /\ last'[u] # last[u] => last'[u] > last[u]
      <2>1. /\ current[u] <= counter /\ last[u] < counter /\ (xpc[u] = "exhausted" => counter = MaxXid)
            /\ last[t] < counter
            BY Zenon DEF XidInv, SeenBehind
      <2>2. current[u] \in Int /\ last[u] \in Int /\ counter \in Int /\ last[t] \in Int
            BY <1>1 DEF X
      <2>3. CASE u = t
            <3>1. last'[u] = counter /\ xpc'[u] = "idle"
                  BY <1>1, <1>2, <2>3
            <3> QED BY <1>2, <1>3, <2>1, <2>2, <2>3, <3>1
      <2>4. CASE u # t
            <3>1. last'[u] = last[u] /\ xpc'[u] = xpc[u]
                  BY <1>1, <1>2, <2>4
            <3> QED BY <1>2, <1>3, <2>1, <2>2, <3>1
      <2> QED BY <2>3, <2>4
<1>8. SeenBehind' /\ IncreasesPerThread
      BY <1>7, Zenon DEF SeenBehind, IncreasesPerThread
<1> QED BY <1>5, <1>6, <1>8 DEF XidInv

\* Every step preserves the invariant and the order of the XIDs.
LEMMA XidStep ==
    XidInv /\ [XidNext]_xidVars => XidInv' /\ [IncreasesPerThread]_xidVars
<1> SUFFICES ASSUME XidInv, [XidNext]_xidVars PROVE XidInv' /\ [IncreasesPerThread]_xidVars
    OBVIOUS
<1> USE XidAssumption DEF XidInv, XidTypeOK, IssuedOnce, SeenBehind, XidSpace, IncreasesPerThread
<1>1. ASSUME NEW t \in Threads, Load(t)
      PROVE  XidInv' /\ IncreasesPerThread
      BY <1>1 DEF Load
<1>2. ASSUME NEW t \in Threads, Exchange(t)
      PROVE  XidInv' /\ IncreasesPerThread
      BY <1>2, ExchangeStep, Zenon
<1>3. ASSUME NEW t \in Threads, Retry(t)
      PROVE  XidInv' /\ IncreasesPerThread
      BY <1>3 DEF Retry
<1>4. ASSUME NEW t \in Threads, Exhausted(t)
      PROVE  XidInv' /\ IncreasesPerThread
      BY <1>4 DEF Exhausted, Successor
<1>5. CASE UNCHANGED xidVars
      BY <1>5 DEF xidVars
<1> QED BY <1>1, <1>2, <1>3, <1>4, <1>5, Zenon DEF XidNext

\* The invariant and the order hold along every behaviour.
THEOREM XidInvariance == XidSpec => []XidInv
<1>1. XidInit => XidInv
      BY XidInitInv
<1>2. XidInv /\ [XidNext]_xidVars => XidInv' /\ [IncreasesPerThread]_xidVars
      BY XidStep
<1> QED BY <1>1, <1>2, PTL DEF XidSpec

\* The counter stays a u32 above zero: allocate_xid never wraps it.
THEOREM XidTypeCorrect == XidSpec => []XidTypeOK
<1>1. XidInv => XidTypeOK
      BY DEF XidInv
<1> QED BY <1>1, XidInvariance, PTL

\* allocate_xid returns each XID below the counter exactly once.
THEOREM XidsUnique == XidSpec => []IssuedOnce
<1>1. XidInv => IssuedOnce
      BY DEF XidInv
<1> QED BY <1>1, XidInvariance, PTL

\* The exhaustion error of allocate_xid means that every XID was issued.
THEOREM ExhaustionFinal == XidSpec => []ExhaustionIsReal
<1>1. XidInv => ExhaustionIsReal
      BY XidAssumption DEF XidInv, XidTypeOK, IssuedOnce, SeenBehind, ExhaustionIsReal, XidSpace
<1> QED BY <1>1, XidInvariance, PTL

\* The XIDs that allocate_xid gives to one thread increase.
THEOREM XidsIncrease == XidSpec => Monotonic
<1>1. XidInit => XidInv
      BY XidInitInv
<1>2. XidInv /\ [XidNext]_xidVars => XidInv' /\ [IncreasesPerThread]_xidVars
      BY XidStep
<1> QED BY <1>1, <1>2, PTL DEF XidSpec, Monotonic
=============================================================================
