---------------------------- MODULE TokenBucket ----------------------------
(***************************************************************************)
(* The rate limiter of an API key: a token bucket in a Redis hash, updated *)
(* by a Lua script that works with the caller's clock.                     *)
(*                                                                         *)
(* A handler reads its clock and then sends the command; commands of other *)
(* handlers, of other gateway replicas with other clocks, overtake it, so  *)
(* the script sees clock readings out of order and can be made to move     *)
(* last_refill back.  A lost reply makes go-redis send the same reading    *)
(* again.  The token unit is 1/Grain token: one tick of the clock refills  *)
(* Limit units and a request takes Grain units.                            *)
(***************************************************************************)
EXTENDS Integers

CONSTANTS
  Handlers,   \* handlers that use one API key at the same time
  Limit,      \* rate_limit_per_minute of the key
  Grain,      \* clock ticks per second
  TTL,        \* EXPIRE of the bucket, in ticks
  MaxDelay,   \* bound on the time from reading the clock to the last execution
  MaxSkew,    \* bound on the difference of two replicas' clocks
  MaxClock,   \* bound on the time that passes
  MaxFaults   \* bound on lost and unsent commands

ASSUME RateAssumption ==
  /\ Limit \in Nat \ {0} /\ Grain \in Nat \ {0}
  /\ MaxDelay \in Nat /\ MaxSkew \in Nat
  /\ MaxClock \in Nat /\ MaxFaults \in Nat
(* 900 s against 1 s and the Redis timeouts.                               *)
ASSUME TTLAssumption == TTL \in Nat /\ TTL >= Grain + MaxDelay + MaxSkew

Capacity == Limit * Grain

VARIABLES
  clock,         \* true time; a replica reads between it and it + MaxSkew
  \* Redis: the hash ratelimit:key:<KeyID>
  tokens,
  last_refill,
  expires,       \* when the hash goes away; there is none before the first call
  \* local to a handler
  pc,
  now,           \* the clock reading in ARGV[1]
  readAt,        \* when it was taken
  \* bookkeeping of the model
  mark,          \* when an observer started to count
  granted,       \* tokens handed out since then
  faults

bucket == <<tokens, last_refill, expires>>
call   == <<now, readAt>>
vars   == <<clock, bucket, pc, call, mark, granted, faults>>

TypeOK ==
  /\ clock \in 0 .. MaxClock
  /\ tokens \in Int /\ tokens <= Capacity
  /\ last_refill \in Nat
  /\ expires \in Nat
  /\ pc \in [Handlers -> {"idle", "sent"}]
  /\ now \in [Handlers -> Nat]
  /\ readAt \in [Handlers -> Nat]
  /\ mark \in 0 .. clock
  /\ granted \in Nat
  /\ faults \in 0 .. MaxFaults

Init ==
  /\ clock = 0
  /\ tokens = 0 /\ last_refill = 0 /\ expires = 0
  /\ pc = [h \in Handlers |-> "idle"]
  /\ now = [h \in Handlers |-> 0]
  /\ readAt = [h \in Handlers |-> 0]
  /\ mark = 0 /\ granted = 0 /\ faults = 0

(* nowMs := time.Now().UnixMilli(), then the command is on its way.        *)
ReadClock(h) ==
  /\ pc[h] = "idle"
  /\ pc' = [pc EXCEPT ![h] = "sent"]
  /\ \E skew \in 0 .. MaxSkew : now' = [now EXCEPT ![h] = clock + skew]
  /\ readAt' = [readAt EXCEPT ![h] = clock]
  /\ UNCHANGED <<clock, bucket, mark, granted, faults>>

-----------------------------------------------------------------------------
(* The Lua script.                                                         *)

AtMost(n, limit) == IF n < limit THEN n ELSE limit

(* Mutants: the refill is not capped; an older reading refills nothing.    *)
RefilledUncapped(h) ==
  IF clock < expires THEN tokens + (now[h] - last_refill) * Limit ELSE Capacity
RefilledForward(h) ==
  IF clock < expires /\ now[h] >= last_refill
    THEN AtMost(tokens + (now[h] - last_refill) * Limit, Capacity)
    ELSE IF clock < expires THEN tokens ELSE Capacity

(* The balance after the refill; a bucket that is not there is full.  An   *)
(* older reading than last_refill lowers the balance, possibly below zero. *)
Refilled(h) ==
  IF clock < expires
    THEN AtMost(tokens + (now[h] - last_refill) * Limit, Capacity)
    ELSE Capacity

Enough(h) == Refilled(h) >= Grain

(* Mutant: refused requests pay as well.                                   *)
RunAlwaysPay(h) ==
  /\ pc[h] = "sent"
  /\ tokens' = Refilled(h) - Grain
  /\ granted' = IF Enough(h) THEN granted + 1 ELSE granted
  /\ last_refill' = now[h]
  /\ expires' = clock + TTL

(* Mutant: a refused request's clock reading is not kept.                  *)
RunKeepsTime(h) ==
  /\ pc[h] = "sent"
  /\ tokens' = IF Enough(h) THEN Refilled(h) - Grain ELSE Refilled(h)
  /\ granted' = IF Enough(h) THEN granted + 1 ELSE granted
  /\ last_refill' = IF Enough(h) THEN now[h] ELSE last_refill
  /\ expires' = clock + TTL

Run(h) ==
  /\ pc[h] = "sent"
  /\ tokens' = IF Enough(h) THEN Refilled(h) - Grain ELSE Refilled(h)
  /\ granted' = IF Enough(h) THEN granted + 1 ELSE granted
  /\ last_refill' = now[h]
  /\ expires' = clock + TTL

Return(h) == pc' = [pc EXCEPT ![h] = "idle"]

(* The request goes on, or is answered 429.                                *)
Answered(h) ==
  /\ Run(h)
  /\ Return(h)
  /\ UNCHANGED <<clock, call, mark, faults>>

Refused(h) == Answered(h) /\ ~Enough(h)

(* A network error: the same command again, or CheckRateLimit fails open.  *)
(* How often go-redis tries is left open; so is the EVAL after a NOSCRIPT, *)
(* which sends the same arguments.                                         *)
Broken(h) ==
  /\ faults < MaxFaults
  /\ faults' = faults + 1
  /\ Return(h) \/ UNCHANGED pc
  /\ UNCHANGED <<clock, call, mark>>

ReplyLost(h) == Run(h) /\ Broken(h)
Unreached(h) == pc[h] = "sent" /\ Broken(h) /\ UNCHANGED <<bucket, granted>>

-----------------------------------------------------------------------------
(* Time passes, but no call outlives the timeouts of the Redis client.     *)
Tick ==
  /\ clock < MaxClock
  /\ \A h \in Handlers : pc[h] = "sent" => clock < readAt[h] + MaxDelay
  /\ clock' = clock + 1
  /\ UNCHANGED <<bucket, pc, call, mark, granted, faults>>

(* An observer starts to count anew, at any time.                          *)
Mark ==
  /\ mark' = clock
  /\ granted' = 0
  /\ UNCHANGED <<clock, bucket, pc, call, faults>>

Next ==
  \/ \E h \in Handlers : ReadClock(h) \/ Answered(h) \/ ReplyLost(h) \/ Unreached(h)
  \/ Tick \/ Mark

Spec == Init /\ [][Next]_vars

-----------------------------------------------------------------------------
(* In every window of time the bucket hands out at most a burst of         *)
(* Capacity and the refill of the window, widened by the skew and the      *)
(* delay, in whatever order the clock readings arrive, although the hash   *)
(* may expire in between and commands are sent twice (client.go:46-62).    *)
WindowBound ==
  granted * Grain <= Capacity + Limit * ((clock - mark) + MaxDelay + MaxSkew)

(* Nobody is refused who did not have to be: a 429 means that within the   *)
(* last second, widened by the skew and the delay, all of the capacity was *)
(* handed out but what one request more would take and what the clock      *)
(* readings may be behind each other.  Refused calls, which rewrite the    *)
(* bucket too (client.go:61), cost nobody a token.                         *)
RefusedOnlyWhenSpent ==
  [][\A h \in Handlers :
       Refused(h) /\ clock - mark >= Grain + MaxDelay + MaxSkew
         => (granted + 1) * Grain + (MaxDelay + MaxSkew) * Limit > Capacity]_vars

(* What chat.go:224 and README.md:229 say of the limit: a burst of the     *)
(* bucket's size, and then rate_limit_per_minute more each minute.         *)
SecondsPerMinute == 60
PerMinuteRate ==
  granted * Grain * SecondsPerMinute
    <= Capacity * SecondsPerMinute + Limit * ((clock - mark) + MaxDelay + MaxSkew)

(* What is in the bucket by the fastest clock.  One that is gone is full.  *)
Slack == Limit * (MaxDelay + MaxSkew)
Level ==
  IF clock < expires
    THEN AtMost(tokens + Limit * (clock + MaxSkew - last_refill), Capacity + Slack)
    ELSE Capacity + Slack

Ideal == INSTANCE IdealBucket
           WITH Callers <- Handlers, Rate <- Limit, One <- Grain, Burst <- Capacity,
                level <- Level, waiting <- {h \in Handlers : pc[h] = "sent"},
                errors <- faults

(* A hash that every replica updates with a clock reading of its own, late *)
(* and out of order, that expires, and whose script may run twice for a    *)
(* call, is one bucket under one clock: only its size is uncertain, by     *)
(* what flows in during the delay and the skew (client.go:34-67, 251).     *)
KeepsIdeal == Ideal!Spec

=============================================================================
