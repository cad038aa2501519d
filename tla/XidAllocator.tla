---------------------------- MODULE XidAllocator ----------------------------
(***************************************************************************)
(* The XID allocator that every clone and client of a physical connection  *)
(* shares (allocate_xid in onc-rpc-runtime/src/lib.rs): a load and a loop  *)
(* of compare_exchange_weak, which may fail although the values agree.     *)
(***************************************************************************)
EXTENDS Naturals

CONSTANTS
    Threads,    \* threads that call allocate()
    MaxXid      \* u32::MAX

ASSUME XidAssumption == MaxXid \in Nat \ {0}

VARIABLES
    counter,    \* the AtomicU32
    current,    \* each thread's local
    xpc,         \* "idle", "cas", or "exhausted" after the error
    issued,     \* how often each XID has been returned
    last        \* the last XID each thread was given, 0 before the first

xidVars == <<counter, current, xpc, issued, last>>

XidSpace == 0..MaxXid

XidInit ==
    /\ counter = 1
    /\ current = [t \in Threads |-> 0]
    /\ xpc = [t \in Threads |-> "idle"]
    /\ issued = [x \in XidSpace |-> 0]
    /\ last = [t \in Threads |-> 0]

\* counter.load
Load(t) ==
    /\ xpc[t] # "cas"
    /\ xpc' = [xpc EXCEPT ![t] = "cas"]
    /\ current' = [current EXCEPT ![t] = counter]
    /\ UNCHANGED <<counter, issued, last>>

\* current.checked_add(1): no successor means exhaustion.
Successor(x) == IF x = MaxXid THEN {} ELSE {x + 1}

\* Mutant: a plain store, as if the counter could not have moved.
Exchange_store(t) ==
    /\ xpc[t] = "cas"
    /\ counter' \in Successor(current[t])
    /\ xpc' = [xpc EXCEPT ![t] = "idle"]
    /\ issued' = [issued EXCEPT ![current[t]] = @ + 1]
    /\ last' = [last EXCEPT ![t] = current[t]]
    /\ UNCHANGED current

\* compare_exchange_weak succeeds and allocate() returns the old value.
Exchange(t) ==
    /\ xpc[t] = "cas"
    /\ counter = current[t]
    /\ counter' \in Successor(current[t])
    /\ xpc' = [xpc EXCEPT ![t] = "idle"]
    /\ issued' = [issued EXCEPT ![current[t]] = @ + 1]
    /\ last' = [last EXCEPT ![t] = current[t]]
    /\ UNCHANGED current

\* compare_exchange_weak fails, spuriously or because the counter moved.
Retry(t) ==
    /\ xpc[t] = "cas"
    /\ Successor(current[t]) # {}
    /\ current' = [current EXCEPT ![t] = counter]
    /\ UNCHANGED <<counter, xpc, issued, last>>

\* Mutant: exhaustion is reported one XID early.
Exhausted_early(t) ==
    /\ xpc[t] = "cas"
    /\ current[t] + 1 >= MaxXid
    /\ xpc' = [xpc EXCEPT ![t] = "exhausted"]
    /\ UNCHANGED <<counter, current, issued, last>>

\* checked_add fails: allocate() returns an error and changes nothing.
Exhausted(t) ==
    /\ xpc[t] = "cas"
    /\ Successor(current[t]) = {}
    /\ xpc' = [xpc EXCEPT ![t] = "exhausted"]
    /\ UNCHANGED <<counter, current, issued, last>>

XidNext == \E t \in Threads : Load(t) \/ Exchange(t) \/ Retry(t) \/ Exhausted(t)

XidSpec == XidInit /\ [][XidNext]_xidVars

----------------------------------------------------------------------------

\* The atomics and locals keep their types.
XidTypeOK ==
    /\ counter \in 1..MaxXid
    /\ current \in [Threads -> XidSpace]
    /\ xpc \in [Threads -> {"idle", "cas", "exhausted"}]
    /\ issued \in [XidSpace -> Nat]
    /\ last \in [Threads -> XidSpace]

\* "IDs never wrap": every XID below the counter was returned by exactly one
\* allocate() call and no other XID by any, however the threads interleave.
IssuedOnce == \A x \in XidSpace : issued[x] = IF x \in 1..(counter - 1) THEN 1 ELSE 0

\* "monotonically increasing": the XIDs one thread obtains increase.
IncreasesPerThread == \A t \in Threads : last'[t] # last[t] => last'[t] > last[t]

Monotonic == [][IncreasesPerThread]_xidVars

\* Exhaustion is reported only when every usable XID has been issued, so it
\* is final: "exhaustion requires a new physical connection".
ExhaustionIsReal ==
    \A t \in Threads : xpc[t] = "exhausted" => \A x \in 1..(MaxXid - 1) : issued[x] = 1
=============================================================================
