------------------------ MODULE MCCacheMaintenance ------------------------
EXTENDS CacheMaintenance, TLC

CONSTANTS g1, g2, h1, h2, gpt, claude

TwoGateways == {g1, g2}
TwoHandlers == {h1, h2}
TwoTargets == {gpt, claude}
Alike == Permutations(TwoHandlers) \cup Permutations(TwoTargets)

(* g1 has the background jobs only; the clock of g2 is ahead.              *)
OnTheSecond == [h \in TwoHandlers |-> g2]
SecondAhead == (g1 :> 0) @@ (g2 :> 1)

LastWords == [m \in Messages |-> "ok"]
Identical == {<<"ok", "ok">>}

ShortPeriods ==
  ("cache-cleanup" :> 1) @@ ("semantic-cache-cleanup" :> 4) @@
  ("log-cleanup" :> 8) @@ ("spend-reset" :> 6)
JobTimes ==
  ("cache-cleanup" :> 0) @@ ("semantic-cache-cleanup" :> 1) @@
  ("log-cleanup" :> 1) @@ ("spend-reset" :> 3)

=============================================================================
