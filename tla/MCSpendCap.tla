----------------------------- MODULE MCSpendCap -----------------------------
(* SpendCap for TLC: two concurrent requests of one project.               *)
EXTENDS SpendCap, TLC

CONSTANTS r1, r2

TwoRequests == {r1, r2}

(* The handlers are interchangeable: sound for the safety run only.        *)
Interchangeable == Permutations(TwoRequests)

=============================================================================
