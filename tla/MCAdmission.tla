---------------------------- MODULE MCAdmission ----------------------------
(* Four callers of weights 1, 2, 4 and 5 for the admission runs. *)
EXTENDS Admission, FiniteSetsExt, TLC

CONSTANTS a, b, c, d

Weights == (a :> 1) @@ (b :> 2) @@ (c :> 4) @@ (d :> 5)

Sums == [S \in SUBSET {a, b, c, d} |-> MapThenSumSet(LAMBDA x : Weights[x], S)]
=============================================================================
