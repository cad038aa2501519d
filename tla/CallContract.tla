---------------------------- MODULE CallContract ----------------------------
(***************************************************************************)
(* What one generation of an owned transport promises its callers          *)
(* (docs/owned-buffers.md, "Ownership" and "Admission"), with no word on   *)
(* tasks, locks or channels: a call lends its receiver to the connection   *)
(* at most once and only while the connection is open, learns one outcome, *)
(* has its receiver back when it returns, and is charged from its          *)
(* admission until it has gone and nobody uses its receiver.               *)
(***************************************************************************)
EXTENDS Naturals, FiniteSets

CONSTANTS
    Calls,
    Owned,     \* calls that get their receiver back with their outcome
    Errors,
    MaxCalls

VARIABLES
    phase,     \* "idle", "running", "returned" or "abandoned"
    lent,      \* calls whose receiver the connection holds
    outcome,   \* what each call was told: "none", "ok" or an error
    charged,   \* calls that count against MaxCalls
    ended      \* why the connection ended, or "none"

vars == <<phase, lent, outcome, charged, ended>>

Init ==
    /\ phase = [c \in Calls |-> "idle"]
    /\ lent = {}
    /\ outcome = [c \in Calls |-> "none"]
    /\ charged = {}
    /\ ended = "none"

Admit(c) ==
    /\ phase[c] = "idle"
    /\ Cardinality(charged) < MaxCalls
    /\ phase' = [phase EXCEPT ![c] = "running"]
    /\ charged' = charged \cup {c}
    /\ UNCHANGED <<lent, outcome, ended>>

Lend(c) ==
    /\ phase[c] = "running"
    /\ outcome[c] = "none"
    /\ ended = "none"
    /\ c \notin lent
    /\ lent' = lent \cup {c}
    /\ UNCHANGED <<phase, outcome, charged, ended>>

\* The receiver comes back with the only outcome the call will ever have.
GiveBack(c, o) ==
    /\ c \in lent
    /\ outcome[c] = "none"
    /\ lent' = lent \ {c}
    /\ outcome' = [outcome EXCEPT ![c] = o]
    /\ UNCHANGED <<phase, charged, ended>>

\* A connection that is torn down may drop the slot of a buffered call.
Lose(c) ==
    /\ c \in lent \ Owned
    /\ lent' = lent \ {c}
    /\ charged' = charged \/ (phase[c] = "abandoned" /\ charged' = charged \ {c})
    /\ UNCHANGED <<phase, outcome, ended>>

\* A call told nothing can only return an error; none returns while its receiver is lent.
Return(c) ==
    /\ phase[c] = "running"
    /\ c \notin lent
    /\ phase' = [phase EXCEPT ![c] = "returned"]
    /\ \/ outcome[c] # "none" /\ UNCHANGED outcome
       \/ outcome[c] = "none" /\ \E e \in Errors : outcome' = [outcome EXCEPT ![c] = e]
    /\ charged' \in {charged, charged \ {c}}
    /\ UNCHANGED <<lent, ended>>

\* The application drops the call; a receiver in use stays lent, and charged.
Abandon(c) ==
    /\ phase[c] = "running"
    /\ phase' = [phase EXCEPT ![c] = "abandoned"]
    /\ \/ UNCHANGED <<lent, outcome>>
       \/ /\ c \in lent
          /\ outcome[c] = "none"
          /\ lent' = lent \ {c}
          /\ \E e \in Errors : outcome' = [outcome EXCEPT ![c] = e]
    /\ charged' = charged \/ (c \notin lent' /\ charged' = charged \ {c})
    /\ UNCHANGED ended

\* The charge goes last, perhaps as the connection ends.
Release(c) ==
    /\ phase[c] \in {"returned", "abandoned"}
    /\ c \in charged \ lent
    /\ charged' = charged \ {c}
    /\ ended' = ended \/ (ended = "none" /\ ended' \in Errors)
    /\ UNCHANGED <<phase, lent, outcome>>

End ==
    /\ ended = "none"
    /\ ended' \in Errors
    /\ UNCHANGED <<phase, lent, outcome, charged>>

Step(c) ==
    \/ Admit(c) \/ Lend(c) \/ (\E o \in Errors \cup {"ok"} : GiveBack(c, o)) \/ Lose(c)
    \/ Return(c) \/ Abandon(c) \/ Release(c)

Next == End \/ \E c \in Calls : Step(c)

Spec == Init /\ [][Next]_vars

=============================================================================
