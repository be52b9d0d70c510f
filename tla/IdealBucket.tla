---------------------------- MODULE IdealBucket ----------------------------
(***************************************************************************)
(* What a rate limiter promises: one bucket under one clock.  It fills by  *)
(* Rate with every tick, a request takes One out of it, and a request is   *)
(* refused if there is not enough.                                         *)
(*                                                                         *)
(* How large the bucket is, is certain up to Slack only: between Burst and *)
(* Burst + Slack it may spill when something is taken, and with less than  *)
(* One + Slack in it a request may be refused as well.                     *)
(***************************************************************************)
EXTENDS Integers

CONSTANTS
  Callers,
  Rate,    \* what flows in with a tick
  One,     \* what a request takes
  Burst, Slack

VARIABLES
  level,
  waiting,   \* callers that have asked and have no answer
  granted,   \* requests granted since the observer's mark
  errors

vars == <<level, waiting, granted, errors>>

Full == Burst + Slack

Init == level = Full /\ waiting = {} /\ granted = 0 /\ errors = 0

Ask(c) ==
  /\ waiting' = waiting \cup {c}
  /\ UNCHANGED <<level, granted, errors>>

(* What was above Burst may be gone.                                       *)
Take ==
  /\ \E kept \in {level} \cup (Burst .. level) : kept >= One /\ level' = kept - One
  /\ granted' = granted + 1

Leave == level < One + Slack /\ UNCHANGED <<level, granted>>

Answer(c) ==
  /\ c \in waiting
  /\ Take \/ Leave
  /\ waiting' = waiting \ {c}
  /\ UNCHANGED errors

(* The call fails, having taken something or not; it may be made again.    *)
Fail(c) ==
  /\ c \in waiting
  /\ Take \/ UNCHANGED <<level, granted>>
  /\ waiting' \in {waiting, waiting \ {c}}
  /\ errors' = errors + 1

Flow ==
  /\ level' = IF level + Rate < Full THEN level + Rate ELSE Full
  /\ UNCHANGED <<waiting, granted, errors>>

Mark ==
  /\ granted' = 0
  /\ UNCHANGED <<level, waiting, errors>>

Next ==
  \/ \E c \in Callers : Ask(c) \/ Answer(c) \/ Fail(c)
  \/ Flow \/ Mark

Spec == Init /\ [][Next]_vars

=============================================================================
