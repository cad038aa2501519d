----------------------------- MODULE Admission -----------------------------
(***************************************************************************)
(* Pre-send admission of one connection (onc-rpc-runtime/src/admission.rs): *)
(* the counters under the mutex, the permits, and wait_for_capacity() with *)
(* its Notify.  Dropping a permit and closing admission each change the    *)
(* state under the lock and notify the waiters after releasing it, so the  *)
(* notification is a step of its own.                                      *)
(***************************************************************************)
EXTENDS Integers, FiniteSets

CONSTANTS
    Callers,    \* clones of the transport: each may hold a permit and wait
    Charge,     \* Charge[S]: the byte weights of the callers of S together
    MaxCalls,   \* limits.max_calls
    MaxBytes,   \* limits.max_bytes
    UsizeMax    \* usize::MAX

\* A byte weight is additive and fits a usize; Admission::new refuses zero
\* limits.
ASSUME AdmissionAssumption ==
    /\ IsFiniteSet(Callers)
    /\ UsizeMax \in Nat
    /\ MaxCalls \in 1..UsizeMax
    /\ MaxBytes \in 1..UsizeMax
    /\ Charge \in [SUBSET Callers -> Nat]
    /\ Charge[{}] = 0
    /\ \A S \in SUBSET Callers : \A c \in Callers \ S :
          Charge[S \cup {c}] = Charge[S] + Charge[{c}]
    /\ \A c \in Callers : Charge[{c}] \in 0..UsizeMax

VARIABLES
    calls,      \* state.calls
    bytes,      \* state.bytes
    closed,     \* state.closed
    permit,     \* [Callers -> {"none", "held", "released"}]: "released" has
                \* given its charge back and has not notified yet
    closer,     \* "idle", or "notify" between the two statements of close()
    wait,       \* where wait_for_capacity() is
    notified    \* the Notified future of that wait has been woken

vars == <<calls, bytes, closed, permit, closer, wait, notified>>

Weight(c) == Charge[{c}]

Held == {c \in Callers : permit[c] = "held"}

Waiting(c) == wait[c] # "idle"

\* usize arithmetic of a release build.
Wrap(n) == n % (UsizeMax + 1)

----------------------------------------------------------------------------

\* Mutant: the sum is computed with wrapping_add.
Exceeds_wrapping(n, k, limit) == Wrap(n + k) > limit

\* n.checked_add(k).is_none_or(|sum| sum > limit)
Exceeds(n, k, limit) == n + k > UsizeMax \/ n + k > limit

\* State::check
Check(b) ==
    IF closed THEN "Closed"
    ELSE IF b > MaxBytes THEN "TooLarge"
    ELSE IF Exceeds(calls, 1, MaxCalls) \/ Exceeds(bytes, b, MaxBytes) THEN "AtCapacity"
    ELSE "Ok"

\* Notify::notify_waiters (tokio) wakes every enabled waiter and stores
\* nothing for later ones.
NotifyWaiters == notified' = [c \in Callers |-> notified[c] \/ Waiting(c)]

----------------------------------------------------------------------------

Init ==
    /\ calls = 0
    /\ bytes = 0
    /\ closed = FALSE
    /\ permit = [c \in Callers |-> "none"]
    /\ closer = "idle"
    /\ wait = [c \in Callers |-> "idle"]
    /\ notified = [c \in Callers |-> FALSE]

\* try_acquire returns a permit; a refusal changes nothing.
TryAcquire(c) ==
    /\ permit[c] = "none"
    /\ Check(Weight(c)) = "Ok"
    /\ calls' = Wrap(calls + 1)
    /\ bytes' = Wrap(bytes + Weight(c))
    /\ permit' = [permit EXCEPT ![c] = "held"]
    /\ UNCHANGED <<closed, closer, wait, notified>>

\* Mutant: dropping a permit gives the slot back and keeps the bytes.
Release_keeps_bytes(c) ==
    /\ permit[c] = "held"
    /\ calls' = Wrap(calls - 1)
    /\ permit' = [permit EXCEPT ![c] = "released"]
    /\ UNCHANGED <<bytes, closed, closer, wait, notified>>

\* AdmissionPermit::drop, the critical section.
Release(c) ==
    /\ permit[c] = "held"
    /\ calls' = Wrap(calls - 1)
    /\ bytes' = Wrap(bytes - Weight(c))
    /\ permit' = [permit EXCEPT ![c] = "released"]
    /\ UNCHANGED <<closed, closer, wait, notified>>

\* Mutant: dropping a permit wakes nobody.
NotifyRelease_silent(c) ==
    /\ permit[c] = "released"
    /\ permit' = [permit EXCEPT ![c] = "none"]
    /\ UNCHANGED <<calls, bytes, closed, closer, wait, notified>>

\* AdmissionPermit::drop, after the lock is released.
NotifyRelease(c) ==
    /\ permit[c] = "released"
    /\ permit' = [permit EXCEPT ![c] = "none"]
    /\ NotifyWaiters
    /\ UNCHANGED <<calls, bytes, closed, closer, wait>>

\* close(), the critical section; closing again is harmless.
Close ==
    /\ closer = "idle"
    /\ closed' = TRUE
    /\ closer' = "notify"
    /\ UNCHANGED <<calls, bytes, permit, wait, notified>>

\* close(), after the lock is released.
NotifyClose ==
    /\ closer = "notify"
    /\ closer' = "idle"
    /\ NotifyWaiters
    /\ UNCHANGED <<calls, bytes, closed, permit, wait>>

\* The Notified future is created and enabled, before the check.
Enable(c) ==
    /\ wait' = [wait EXCEPT ![c] = "check"]
    /\ notified' = [notified EXCEPT ![c] = FALSE]
    /\ UNCHANGED <<calls, bytes, closed, permit, closer>>

\* wait_for_capacity() is called.
WaitForCapacity(c) == ~Waiting(c) /\ Enable(c)

\* The future ends, and its Notified with it.
EndWait(c) ==
    /\ wait' = [wait EXCEPT ![c] = "idle"]
    /\ notified' = [notified EXCEPT ![c] = FALSE]
    /\ UNCHANGED <<calls, bytes, closed, permit, closer>>

\* The check under the lock tells the waiter to wait.
Refused(c) ==
    /\ wait[c] = "check"
    /\ Check(Weight(c)) = "AtCapacity"
    /\ wait' = [wait EXCEPT ![c] = "refused"]
    /\ UNCHANGED <<calls, bytes, closed, permit, closer, notified>>

\* The check under the lock returns Ok or an error that waiting cannot cure.
Answered(c) == wait[c] = "check" /\ Check(Weight(c)) # "AtCapacity" /\ EndWait(c)

\* Mutant: the Notified future is only created here, after the check.
Park_late(c) ==
    /\ wait[c] = "refused"
    /\ wait' = [wait EXCEPT ![c] = "parked"]
    /\ notified' = [notified EXCEPT ![c] = FALSE]
    /\ UNCHANGED <<calls, bytes, closed, permit, closer>>

\* changed.await is polled for the first time.
Park(c) ==
    /\ wait[c] = "refused"
    /\ wait' = [wait EXCEPT ![c] = "parked"]
    /\ UNCHANGED <<calls, bytes, closed, permit, closer, notified>>

\* changed.await completes and the loop starts again.
Woken(c) == wait[c] = "parked" /\ notified[c] /\ Enable(c)

\* The waiting future is dropped at its await.
DropWait(c) == wait[c] = "parked" /\ EndWait(c)

Next ==
    \/ Close
    \/ NotifyClose
    \/ \E c \in Callers :
          \/ TryAcquire(c)
          \/ Release(c)
          \/ NotifyRelease(c)
          \/ WaitForCapacity(c)
          \/ Refused(c)
          \/ Answered(c)
          \/ Park(c)
          \/ Woken(c)
          \/ DropWait(c)

Spec == Init /\ [][Next]_vars

\* A thread inside drop() or close() reaches the notification, and the
\* executor polls a waiter that is not blocked.  Nobody must drop a permit.
Fairness ==
    /\ WF_vars(NotifyClose)
    /\ \A c \in Callers :
          /\ WF_vars(NotifyRelease(c))
          /\ WF_vars(Refused(c) \/ Answered(c))
          /\ WF_vars(Park(c))
          /\ WF_vars(Woken(c))

FairSpec == Spec /\ Fairness

----------------------------------------------------------------------------

\* The counters fit their type and every thread is at one of its steps.
TypeOK ==
    /\ calls \in 0..UsizeMax
    /\ bytes \in 0..UsizeMax
    /\ closed \in BOOLEAN
    /\ permit \in [Callers -> {"none", "held", "released"}]
    /\ closer \in {"idle", "notify"}
    /\ wait \in [Callers -> {"idle", "check", "refused", "parked"}]
    /\ notified \in [Callers -> BOOLEAN]

\* The counters that snapshot() reports are the permits that exist and their
\* bytes, and both respect the limits: try_acquire and drop never let them
\* drift, wrap or overshoot, whatever the order of the calls.
ChargesExact ==
    /\ calls = Cardinality(Held) /\ calls <= MaxCalls
    /\ bytes = Charge[Held] /\ bytes <= MaxBytes

\* AdmissionError::AtCapacity says that other accepted calls occupy the
\* capacity: a request that fits the limits is refused only while a permit
\* exists, so retrying after the permits are dropped must succeed.
RefusalHasHolder ==
    \A c \in Callers : Check(Weight(c)) = "AtCapacity" => Held # {}

\* Release and close cannot fall into the gap between observing full state
\* and starting to wait: a refused waiter that would now be answered has been
\* woken, or some thread is about to notify it.
NoLostWakeup ==
    \A c \in Callers :
        wait[c] \in {"refused", "parked"} /\ ~notified[c] /\ Check(Weight(c)) # "AtCapacity"
          => closer = "notify" \/ \E d \in Callers : permit[d] = "released"

\* A waiter whose request would be answered returns, unless other callers
\* take the capacity again first; after close() they cannot.
WaiterAnswered ==
    \A c \in Callers :
        (Waiting(c) /\ Check(Weight(c)) # "AtCapacity")
          ~> (~Waiting(c) \/ Check(Weight(c)) = "AtCapacity")
=============================================================================
