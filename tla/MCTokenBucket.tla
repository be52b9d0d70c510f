--------------------------- MODULE MCTokenBucket ---------------------------
(* TokenBucket for TLC: two handlers that share one API key.               *)
EXTENDS TokenBucket, TLC

CONSTANTS h1, h2

TwoHandlers == {h1, h2}

(* Handlers differ in nothing but their name.                              *)
Interchangeable == Permutations(TwoHandlers)

=============================================================================
