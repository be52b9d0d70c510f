------------------------- MODULE TokenBucketProofs -------------------------
(***************************************************************************)
(* Proofs about the token bucket, for every limit, delay and skew.  The    *)
(* window bound is inductive once two facts are added: what was handed out *)
(* since the mark is paid for by the refill up to last_refill (Paid), and  *)
(* what was handed out before the hash expires is known from its expiry    *)
(* alone (PaidByExpiry), which is what is left of the bucket afterwards.   *)
(* That refusals are earned needs the other direction (RefillInv): what    *)
(* the bucket lost was handed out.  The refinement of IdealBucket needs    *)
(* both, in tokens (IdealInv).                                             *)
(***************************************************************************)
EXTENDS TokenBucket, TLAPS

USE RateAssumption, TTLAssumption

(* A call is as young as the timeouts make it, its reading as far off as   *)
(* the clocks are.                                                         *)
CallsAreRecent ==
  \A h \in Handlers : pc[h] = "sent" =>
    /\ readAt[h] <= clock /\ clock <= readAt[h] + MaxDelay
    /\ readAt[h] <= now[h] /\ now[h] <= readAt[h] + MaxSkew

Paid ==
  granted > 0 =>
    granted * Grain + tokens <= Capacity + Limit * (last_refill - mark + MaxDelay)

PaidByExpiry ==
  granted > 0 =>
    granted * Grain <= Capacity + Limit * (expires - TTL - mark + MaxDelay + MaxSkew)

BucketInv ==
  /\ TypeOK
  /\ CallsAreRecent
  /\ expires <= clock + TTL
  /\ Paid
  /\ PaidByExpiry

-----------------------------------------------------------------------------
(* Multiplication is monotone: the solver is told once.                    *)
LEMMA TimesMonotone ==
  ASSUME NEW x \in Int, NEW y \in Int, x <= y
  PROVE  Limit * x <= Limit * y
  OBVIOUS

LEMMA CapacityHoldsOne == Capacity \in Nat /\ Grain <= Capacity
  BY DEF Capacity

LEMMA InitBucket == Init => BucketInv
<1> SUFFICES ASSUME Init PROVE BucketInv
  OBVIOUS
<1>1. 0 <= Capacity
  BY CapacityHoldsOne
<1> QED
  BY <1>1 DEF Init, BucketInv, TypeOK, CallsAreRecent, Paid, PaidByExpiry

LEMMA RefilledBounds ==
  ASSUME BucketInv, NEW h \in Handlers
  PROVE  /\ Refilled(h) \in Int /\ Refilled(h) <= Capacity
         /\ clock < expires => Refilled(h) <= tokens + (now[h] - last_refill) * Limit
         /\ clock >= expires => Refilled(h) = Capacity
  BY CapacityHoldsOne DEF BucketInv, TypeOK, Refilled, AtMost

(* The heart of the argument: one execution of the script, whatever the    *)
(* order of the clock readings.                                            *)
LEMMA RunPaid ==
  ASSUME BucketInv, NEW h \in Handlers, Run(h)
  PROVE  granted' > 0 =>
           granted' * Grain + tokens' <= Capacity + Limit * (last_refill' - mark + MaxDelay)
<1> USE DEF BucketInv, TypeOK
<1>1. granted' * Grain + tokens' = granted * Grain + Refilled(h)
  BY RefilledBounds DEF Run, Enough
<1>2. last_refill' = now[h] /\ now[h] - mark + MaxDelay >= 0 /\ now[h] \in Nat
  BY DEF Run, CallsAreRecent
<1>3. Limit * (now[h] - mark + MaxDelay) >= 0
  BY <1>2
<1>4. CASE granted = 0
  BY <1>1, <1>2, <1>3, <1>4, RefilledBounds, CapacityHoldsOne
<1>5. CASE granted > 0 /\ clock < expires
  <2>1. granted * Grain + tokens <= Capacity + Limit * (last_refill - mark + MaxDelay)
    BY <1>5 DEF Paid
  <2>2. Refilled(h) <= tokens + (now[h] - last_refill) * Limit
    BY <1>5, RefilledBounds
  <2>3. Limit * (last_refill - mark + MaxDelay) + (now[h] - last_refill) * Limit
          = Limit * (now[h] - mark + MaxDelay)
    BY <1>2
  <2> QED
    BY <1>1, <1>2, <2>1, <2>2, <2>3, RefilledBounds, CapacityHoldsOne
<1>6. CASE granted > 0 /\ clock >= expires
  <2>1. granted * Grain <= Capacity + Limit * (expires - TTL - mark + MaxDelay + MaxSkew)
    BY <1>6 DEF PaidByExpiry
  <2>2. Grain + (expires - TTL - mark + MaxDelay + MaxSkew) <= now[h] - mark + MaxDelay
    BY <1>6 DEF CallsAreRecent, Run
  <2>3. Limit * (Grain + (expires - TTL - mark + MaxDelay + MaxSkew))
          <= Limit * (now[h] - mark + MaxDelay)
    BY <1>2, <2>2, TimesMonotone
  <2>4. Capacity + Limit * (expires - TTL - mark + MaxDelay + MaxSkew)
          = Limit * (Grain + (expires - TTL - mark + MaxDelay + MaxSkew))
    BY DEF Capacity
  <2> QED
    BY <1>1, <1>2, <1>6, <2>1, <2>3, <2>4, RefilledBounds, CapacityHoldsOne
<1> QED  BY <1>4, <1>5, <1>6

LEMMA RunPaidByExpiry ==
  ASSUME BucketInv, NEW h \in Handlers, Run(h)
  PROVE  granted' > 0 =>
           granted' * Grain
             <= Capacity + Limit * (expires' - TTL - mark + MaxDelay + MaxSkew)
<1> USE DEF BucketInv, TypeOK
<1>1. expires' = clock + TTL /\ expires <= expires'
  BY DEF Run
<1>2. CASE Enough(h)
  <2>1. tokens' >= 0 /\ tokens' \in Int /\ granted' \in Nat
    BY <1>2, RefilledBounds DEF Run, Enough
  <2>2. last_refill' - mark + MaxDelay <= expires' - TTL - mark + MaxDelay + MaxSkew
    BY <1>1 DEF Run, CallsAreRecent
  <2>3. Limit * (last_refill' - mark + MaxDelay)
          <= Limit * (expires' - TTL - mark + MaxDelay + MaxSkew)
    BY <1>1, <2>2, TimesMonotone DEF Run
  <2> QED
    BY <1>1, <2>1, <2>3, RunPaid, CapacityHoldsOne DEF Run
<1>3. CASE ~Enough(h)
  <2>1. granted' = granted
    BY <1>3 DEF Run
  <2>2. expires - TTL - mark + MaxDelay + MaxSkew
          <= expires' - TTL - mark + MaxDelay + MaxSkew
    BY <1>1
  <2>3. Limit * (expires - TTL - mark + MaxDelay + MaxSkew)
          <= Limit * (expires' - TTL - mark + MaxDelay + MaxSkew)
    BY <1>1, <2>2, TimesMonotone
  <2> QED
    BY <1>1, <2>1, <2>3, CapacityHoldsOne DEF PaidByExpiry
<1> QED  BY <1>2, <1>3

LEMMA RunKeeps ==
  ASSUME BucketInv, NEW h \in Handlers, Run(h), Answered(h) \/ ReplyLost(h)
  PROVE  BucketInv'
<1> USE DEF BucketInv, TypeOK
<1>1. /\ UNCHANGED <<clock, now, readAt, mark>>
      /\ pc' = [pc EXCEPT ![h] = "idle"] \/ pc' = pc
      /\ faults' = faults \/ (faults < MaxFaults /\ faults' = faults + 1)
  BY DEF Answered, ReplyLost, Broken, Return, call
<1>2. /\ tokens' \in Int /\ tokens' <= Capacity /\ last_refill' \in Nat
      /\ expires' = clock + TTL /\ granted' \in Nat
  BY RefilledBounds, CapacityHoldsOne DEF Run, Enough
<1>3. TypeOK'
  BY <1>1, <1>2
<1>4. CallsAreRecent'
  BY <1>1 DEF CallsAreRecent
<1>5. Paid' /\ PaidByExpiry'
  BY <1>1, RunPaid, RunPaidByExpiry DEF Paid, PaidByExpiry, Capacity
<1> QED  BY <1>1, <1>2, <1>3, <1>4, <1>5

LEMMA StepBucket == BucketInv /\ [Next]_vars => BucketInv'
<1> SUFFICES ASSUME BucketInv, [Next]_vars PROVE BucketInv'
  OBVIOUS
<1> USE DEF BucketInv, TypeOK
<1>1. ASSUME NEW h \in Handlers, ReadClock(h) PROVE BucketInv'
  BY <1>1 DEF ReadClock, CallsAreRecent, Paid, PaidByExpiry, Capacity, bucket
<1>2. ASSUME NEW h \in Handlers, Answered(h) \/ ReplyLost(h) PROVE BucketInv'
  BY <1>2, RunKeeps DEF Answered, ReplyLost
<1>3. ASSUME NEW h \in Handlers, Unreached(h) PROVE BucketInv'
  <2>1. /\ UNCHANGED <<clock, tokens, last_refill, expires, now, readAt, mark, granted>>
        /\ pc' = [pc EXCEPT ![h] = "idle"] \/ pc' = pc
        /\ faults' \in 0 .. MaxFaults
    BY <1>3 DEF Unreached, Broken, Return, call, bucket
  <2> QED  BY <2>1 DEF CallsAreRecent, Paid, PaidByExpiry, Capacity
<1>4. CASE Tick
  BY <1>4 DEF Tick, CallsAreRecent, Paid, PaidByExpiry, Capacity, bucket, call
<1>5. CASE Mark
  BY <1>5 DEF Mark, CallsAreRecent, Paid, PaidByExpiry, Capacity, bucket, call
<1>6. CASE UNCHANGED vars
  BY <1>6 DEF vars, CallsAreRecent, Paid, PaidByExpiry, Capacity, bucket, call
<1> QED  BY <1>1, <1>2, <1>3, <1>4, <1>5, <1>6 DEF Next

LEMMA BucketAlways == Spec => []BucketInv
  BY InitBucket, StepBucket, PTL DEF Spec

(* The balance never exceeds the capacity and the handlers are always      *)
(* between the two Redis states of CheckRateLimit.                         *)
THEOREM BucketType == Spec => []TypeOK
<1>1. BucketInv => TypeOK
  BY DEF BucketInv
<1> QED  BY <1>1, BucketAlways, PTL

(* In any window of time, with any number of handlers and replicas, the    *)
(* script hands out at most Capacity and the refill of the window widened  *)
(* by delay and skew (client.go:46-62).                                    *)
THEOREM WindowBounded == Spec => []WindowBound
<1>1. ASSUME BucketInv PROVE WindowBound
  <2> USE <1>1 DEF BucketInv, TypeOK
  <2>1. CASE granted = 0
    <3>1. Limit * ((clock - mark) + MaxDelay + MaxSkew) >= 0
      OBVIOUS
    <3> QED  BY <2>1, <3>1, CapacityHoldsOne DEF WindowBound
  <2>2. CASE granted > 0
    <3>1. expires - TTL - mark + MaxDelay + MaxSkew <= (clock - mark) + MaxDelay + MaxSkew
      OBVIOUS
    <3>2. Limit * (expires - TTL - mark + MaxDelay + MaxSkew)
            <= Limit * ((clock - mark) + MaxDelay + MaxSkew)
      BY <3>1, TimesMonotone
    <3> QED
      BY <2>2, <3>2, CapacityHoldsOne DEF WindowBound, PaidByExpiry
  <2> QED  BY <2>1, <2>2
<1> QED  BY <1>1, BucketAlways, PTL

-----------------------------------------------------------------------------
(* The other direction: what the bucket lacks was handed out.  Behind the  *)
(* clock the balance lags by no more than the readings do (Lags), and what *)
(* is missing from a refill since the mark, or from a full bucket, went to *)
(* granted requests (Accounted).                                           *)
Lags == tokens + Limit * (clock + MaxSkew) >= Limit * last_refill

Accounted ==
  \/ granted * Grain + tokens + Limit * (mark + MaxSkew) >= Limit * last_refill
  \/ granted * Grain + tokens + Limit * (clock + MaxSkew) >= Capacity + Limit * last_refill

RefillInv == Lags /\ Accounted

LEMMA InitRefill == Init => RefillInv
<1> SUFFICES ASSUME Init PROVE RefillInv
  OBVIOUS
<1>1. clock = 0 /\ tokens = 0 /\ last_refill = 0 /\ granted = 0 /\ mark = 0
  BY DEF Init
<1>2. Limit * (0 + MaxSkew) >= 0 /\ Limit * 0 = 0 /\ 0 * Grain = 0
  OBVIOUS
<1> QED  BY <1>1, <1>2 DEF RefillInv, Lags, Accounted

(* What a refused or granted execution does to the balance.                *)
LEMMA RefillIs ==
  ASSUME BucketInv, NEW h \in Handlers, Run(h)
  PROVE  /\ last_refill' = now[h] /\ now[h] <= clock + MaxSkew /\ now[h] \in Nat
         /\ granted' * Grain + tokens' = granted * Grain + Refilled(h)
         /\ granted' \in Nat /\ tokens' \in Int /\ Refilled(h) \in Int
         /\ \/ Refilled(h) = Capacity
            \/ /\ Refilled(h) = tokens + (now[h] - last_refill) * Limit
               /\ clock < expires
         /\ tokens' >= 0 \/ tokens' = Refilled(h)
         /\ Refilled(h) = Capacity => tokens' >= 0
<1> USE DEF BucketInv, TypeOK
<1>1. last_refill' = now[h] /\ now[h] <= clock + MaxSkew /\ now[h] \in Nat
  BY DEF Run, CallsAreRecent
<1>2. Refilled(h) \in Int /\ Capacity \in Nat /\ Grain <= Capacity
  BY RefilledBounds, CapacityHoldsOne
<1>3. /\ granted' * Grain + tokens' = granted * Grain + Refilled(h)
      /\ granted' \in Nat /\ tokens' \in Int
      /\ tokens' >= 0 \/ tokens' = Refilled(h)
      /\ Refilled(h) = Capacity => tokens' >= 0
  BY <1>2 DEF Run, Enough
<1>4. \/ Refilled(h) = Capacity
      \/ /\ Refilled(h) = tokens + (now[h] - last_refill) * Limit
         /\ clock < expires
  BY DEF Refilled, AtMost
<1> QED  BY <1>1, <1>2, <1>3, <1>4

LEMMA Distributes ==
  ASSUME NEW x \in Int, NEW y \in Int
  PROVE  /\ Limit * x \in Int /\ Limit * y \in Int
         /\ (x - y) * Limit = Limit * x - Limit * y
         /\ Limit * (x + y) = Limit * x + Limit * y
  OBVIOUS

LEMMA RunRefills ==
  ASSUME BucketInv, RefillInv, NEW h \in Handlers, Run(h), UNCHANGED <<clock, mark>>
  PROVE  RefillInv'
<1> USE DEF BucketInv, TypeOK
<1> PICK n, l, m, c, k, f, g, t, u :
       /\ n = Limit * now[h] /\ l = Limit * last_refill
       /\ m = Limit * (mark + MaxSkew) /\ c = Limit * (clock + MaxSkew)
       /\ k = Capacity /\ f = Refilled(h) /\ g = granted * Grain
       /\ t = tokens /\ u = tokens'
  OBVIOUS
<1>1. /\ n \in Int /\ l \in Int /\ m \in Int /\ c \in Int /\ k \in Nat /\ f \in Int /\ g \in Int
      /\ n <= c /\ t \in Int /\ u \in Int
  BY RefillIs, TimesMonotone, CapacityHoldsOne
<1>2. /\ Limit * last_refill' = n /\ Limit * (mark' + MaxSkew) = m
      /\ Limit * (clock' + MaxSkew) = c /\ Capacity' = k
      /\ granted' * Grain + tokens' = g + f /\ granted' * Grain \in Int
  BY RefillIs DEF Capacity
<1>3. \/ f = k /\ u >= 0
      \/ f = t + n - l /\ (u >= 0 \/ u = f)
  BY RefillIs, Distributes
<1>4. t + c >= l /\ (g + t + m >= l \/ g + t + c >= k + l)
  BY DEF RefillInv, Lags, Accounted
<1>5. g >= 0
  OBVIOUS
<1>6. u + c >= n
  BY ONLY <1>1, <1>3, <1>4
<1>7. g + f + m >= n \/ g + f + c >= k + n
  BY ONLY <1>1, <1>3, <1>4, <1>5
<1> QED  BY <1>1, <1>2, <1>6, <1>7 DEF RefillInv, Lags, Accounted

LEMMA StepRefill ==
  ASSUME BucketInv, RefillInv, [Next]_vars
  PROVE  RefillInv'
<1> USE DEF BucketInv, TypeOK
<1>1. ASSUME NEW h \in Handlers, Answered(h) \/ ReplyLost(h) PROVE RefillInv'
  BY <1>1, RunRefills DEF Answered, ReplyLost, Broken
<1>2. ASSUME UNCHANGED <<clock, tokens, last_refill, mark, granted>> PROVE RefillInv'
  BY <1>2 DEF RefillInv, Lags, Accounted, Capacity
<1>3. ASSUME NEW h \in Handlers, ReadClock(h) \/ Unreached(h) PROVE RefillInv'
  BY <1>2, <1>3 DEF ReadClock, Unreached, Broken, bucket
<1>4. CASE Tick
  <2>1. /\ clock' = clock + 1
        /\ UNCHANGED <<tokens, last_refill, mark, granted>>
    BY <1>4 DEF Tick, bucket
  <2>2. Limit * (clock + MaxSkew) <= Limit * (clock' + MaxSkew)
    BY <2>1, TimesMonotone
  <2>3. /\ Limit * (clock + MaxSkew) \in Int /\ Limit * (clock' + MaxSkew) \in Int
        /\ granted * Grain \in Int /\ Limit * last_refill \in Int /\ Capacity \in Int
    BY <2>1, CapacityHoldsOne
  <2> QED  BY <2>1, <2>2, <2>3 DEF RefillInv, Lags, Accounted, Capacity
<1>5. CASE Mark
  <2>1. mark' = clock /\ granted' = 0 /\ UNCHANGED <<clock, tokens, last_refill>>
    BY <1>5 DEF Mark, bucket
  <2>2. 0 * Grain = 0
    OBVIOUS
  <2> QED  BY <2>1, <2>2 DEF RefillInv, Lags, Accounted
<1>6. CASE UNCHANGED vars
  BY <1>2, <1>6 DEF vars, bucket
<1> QED  BY <1>1, <1>3, <1>4, <1>5, <1>6 DEF Next

(* A refusal is earned: within the last second, widened by delay and skew, *)
(* the capacity was handed out, but for one request and what the readings  *)
(* may be apart; with any number of handlers, whether calls are refused,   *)
(* sent twice or never arrive, and whatever the script does to the hash on *)
(* a refusal (client.go:61).                                               *)
THEOREM RefusalIsEarned == Spec => RefusedOnlyWhenSpent
<1>1. ASSUME BucketInv, RefillInv, NEW h \in Handlers, Refused(h),
             clock - mark >= Grain + MaxDelay + MaxSkew
      PROVE  (granted + 1) * Grain + (MaxDelay + MaxSkew) * Limit > Capacity
  <2> USE <1>1 DEF BucketInv, TypeOK
  <2>1. Run(h) /\ Refilled(h) < Grain /\ Refilled(h) \in Int /\ UNCHANGED <<clock, mark>>
    BY <1>1, RefilledBounds DEF Refused, Answered, Enough
  <2>2. now[h] \in Nat /\ clock - MaxDelay <= now[h] /\ Grain \in Nat /\ Grain <= Capacity
    BY <2>1, CapacityHoldsOne DEF Run, CallsAreRecent
  <2> PICK n, l, m, c, k, g, d, f, t :
         /\ n = Limit * now[h] /\ l = Limit * last_refill
         /\ m = Limit * (mark + MaxSkew) /\ c = Limit * (clock + MaxSkew)
         /\ k = Capacity /\ g = granted * Grain /\ d = Limit * (MaxDelay + MaxSkew)
         /\ f = Refilled(h) /\ t = tokens
    OBVIOUS
  <2>3. n \in Int /\ l \in Int /\ m \in Int /\ c \in Int /\ k \in Nat /\ g \in Int /\ t \in Int
    BY <2>2, CapacityHoldsOne
  <2>4. d \in Nat
    OBVIOUS
  <2>5. t + n - l < Grain
    <3>1. f = t + n - l
      BY <2>1, <2>2, <2>3, RefillIs, Distributes
    <3> QED  BY <2>1, <3>1
  <2>6. g + t + m >= l \/ g + t + c >= k + l
    BY <1>1 DEF RefillInv, Accounted
  <2>7. n >= m + k
    <3> PICK x, y : x = mark + MaxSkew /\ y = now[h]
      OBVIOUS
    <3>1. x \in Int /\ y \in Int /\ x + Grain <= y
      BY <1>1, <2>2
    <3>2. Limit * (x + Grain) <= Limit * y
      BY ONLY <2>2, <3>1, RateAssumption, TimesMonotone
    <3>3. Limit * (x + Grain) = Limit * x + Limit * Grain
      BY ONLY <2>2, <3>1, RateAssumption, Distributes
    <3>4. Limit * x = m /\ Limit * y = n /\ Limit * Grain = k
      BY DEF Capacity
    <3> QED  BY <2>3, <3>2, <3>3, <3>4
  <2>8. c <= n + d
    <3> PICK x, y, z : x = clock + MaxSkew /\ y = now[h] /\ z = MaxDelay + MaxSkew
      OBVIOUS
    <3>1. x \in Int /\ y \in Int /\ z \in Int /\ x <= y + z
      BY <2>2
    <3>2. Limit * x <= Limit * (y + z)
      BY ONLY <3>1, RateAssumption, TimesMonotone
    <3>3. Limit * (y + z) = Limit * y + Limit * z
      BY ONLY <3>1, RateAssumption, Distributes
    <3> QED  BY <2>3, <2>4, <3>2, <3>3
  <2>9. g + Grain + d > k
    BY ONLY <2>2, <2>3, <2>4, <2>5, <2>6, <2>7, <2>8
  <2>10. (granted + 1) * Grain = g + Grain /\ (MaxDelay + MaxSkew) * Limit = d
    OBVIOUS
  <2> QED  BY <2>9, <2>10
<1>2. BucketInv /\ RefillInv /\ [Next]_vars
        => [\A h \in Handlers :
              Refused(h) /\ clock - mark >= Grain + MaxDelay + MaxSkew
                => (granted + 1) * Grain + (MaxDelay + MaxSkew) * Limit > Capacity]_vars
  BY <1>1
<1>3. Init => RefillInv
  BY InitRefill
<1>4. BucketInv /\ RefillInv /\ [Next]_vars => RefillInv'
  BY StepRefill
<1> QED  BY <1>2, <1>3, <1>4, BucketAlways, PTL DEF Spec, RefusedOnlyWhenSpent

-----------------------------------------------------------------------------
(* The script implements the ideal bucket.                                 *)

(* When the hash expires the ideal bucket is full.                         *)
Backed ==
  clock < expires => tokens + Limit * (expires - TTL + MaxSkew) >= Limit * last_refill

IdealInv == RefillInv /\ Backed

LEMMA StepIdeal ==
  ASSUME BucketInv, IdealInv, [Next]_vars
  PROVE  IdealInv'
<1> USE DEF BucketInv, TypeOK
<1>1. RefillInv'
  BY StepRefill DEF IdealInv
<1>2. ASSUME NEW h \in Handlers, Run(h), clock' = clock PROVE Backed'
  <2>1. expires' - TTL = clock' /\ expires' \in Int
    BY <1>2 DEF Run
  <2> QED  BY <1>1, <2>1 DEF RefillInv, Lags, Backed
<1>3. ASSUME clock' >= clock, UNCHANGED <<tokens, last_refill, expires>> PROVE Backed'
  <2>1. clock' < expires' => clock < expires
    <3>1. clock' \in Int \/ clock' = clock
      BY <1>3, StepBucket
    <3> QED  BY <1>3, <3>1, StepBucket
  <2> QED  BY <1>3, <2>1 DEF Backed, IdealInv
<1>4. ASSUME NEW h \in Handlers, Answered(h) \/ ReplyLost(h) PROVE Backed'
  BY <1>2, <1>4 DEF Answered, ReplyLost, Broken
<1>5. ASSUME NEW h \in Handlers, ReadClock(h) \/ Unreached(h) PROVE Backed'
  BY <1>3, <1>5 DEF ReadClock, Unreached, Broken, bucket
<1>6. CASE Tick \/ Mark \/ UNCHANGED vars
  BY <1>1, <1>3, <1>6 DEF Tick, Mark, vars, bucket, IdealInv
<1> QED  BY <1>1, <1>4, <1>5, <1>6 DEF Next, IdealInv

LEMMA InitIdeal == Init => IdealInv
<1>1. Init => Backed
  BY DEF Init, Backed
<1> QED  BY <1>1, InitRefill DEF IdealInv

(* The amounts of the argument, each a number of its own: now (n), the     *)
(* last refill (l), the fastest clock (c), capacity (k) and slack (d).     *)
LEMMA LevelIs ==
  ASSUME BucketInv
  PROVE  /\ Limit * (clock + MaxSkew) \in Int /\ Limit * last_refill \in Int
         /\ Slack \in Nat /\ Capacity \in Nat /\ Grain \in Nat \ {0} /\ Grain <= Capacity
         /\ Level = IF clock < expires
                      THEN AtMost(tokens + Limit * (clock + MaxSkew) - Limit * last_refill,
                                  Capacity + Slack)
                      ELSE Capacity + Slack
         /\ Level \in Int /\ Level <= Capacity + Slack
<1> USE DEF BucketInv, TypeOK
<1>1. /\ Limit * (clock + MaxSkew) \in Int /\ Limit * last_refill \in Int
      /\ Capacity \in Nat /\ Grain \in Nat \ {0} /\ Grain <= Capacity
  BY CapacityHoldsOne
<1>2. Slack \in Nat
  <2>1. MaxDelay + MaxSkew \in Nat
    OBVIOUS
  <2> QED  BY <2>1 DEF Slack
<1>3. Limit * (clock + MaxSkew - last_refill)
        = Limit * (clock + MaxSkew) - Limit * last_refill
  <2>1. clock + MaxSkew \in Int /\ last_refill \in Int
    OBVIOUS
  <2> QED  BY <2>1
<1>4. Level = IF clock < expires
                THEN AtMost(tokens + Limit * (clock + MaxSkew) - Limit * last_refill,
                            Capacity + Slack)
                ELSE Capacity + Slack
  <2> PICK x, y : x = Limit * (clock + MaxSkew) /\ y = Limit * last_refill
    OBVIOUS
  <2>1. x \in Int /\ y \in Int /\ Limit * (clock + MaxSkew - last_refill) = x - y
    BY <1>1, <1>3
  <2>2. tokens + (x - y) = tokens + x - y
    BY <2>1
  <2> QED  BY <2>1, <2>2 DEF Level
<1> QED  BY <1>1, <1>2, <1>4 DEF AtMost

LEMMA RunIdeal ==
  ASSUME BucketInv, BucketInv', IdealInv, NEW h \in Handlers, Run(h), clock' = clock
  PROVE  IF Enough(h) THEN Ideal!Take ELSE Ideal!Leave
<1> USE DEF BucketInv, TypeOK
<1> PICK n, l, c, k, d, f, t, u, v, w :
       /\ n = Limit * now[h] /\ l = Limit * last_refill
       /\ c = Limit * (clock + MaxSkew)
       /\ k = Capacity /\ d = Slack /\ f = Refilled(h)
       /\ t = tokens /\ u = tokens' /\ v = Level /\ w = Level'
  OBVIOUS
<1>1. /\ l \in Int /\ c \in Int /\ k \in Nat /\ d \in Nat /\ t \in Int /\ f \in Int
      /\ Grain \in Nat \ {0} /\ Grain <= k
  BY LevelIs, RefillIs
<1>2. /\ n \in Int /\ n <= c /\ c <= n + d
  <2> PICK x, y, z : x = clock + MaxSkew /\ y = now[h] /\ z = MaxDelay + MaxSkew
    OBVIOUS
  <2>1. x \in Int /\ y \in Int /\ z \in Int /\ y <= x /\ x <= y + z
    BY RefillIs DEF Run, CallsAreRecent
  <2>2. Limit * x <= Limit * (y + z) /\ Limit * y <= Limit * x
    BY ONLY <2>1, RateAssumption, TimesMonotone
  <2>3. Limit * (y + z) = Limit * y + Limit * z /\ Limit * y \in Int
    BY ONLY <2>1, RateAssumption, Distributes
  <2> QED  BY <1>1, <2>2, <2>3 DEF Slack
<1>3. v = IF clock < expires THEN AtMost(t + c - l, k + d) ELSE k + d
  BY LevelIs
<1>4. w = AtMost(u + c - n, k + d)
  <2>1. clock' < expires' /\ last_refill' = now[h]
    BY DEF Run
  <2>2. Capacity' = Capacity /\ Slack' = Slack
    BY DEF Capacity, Slack
  <2>3. Level' = AtMost(tokens' + Limit * (clock' + MaxSkew) - Limit * last_refill',
                        Capacity' + Slack')
    <3> PICK x, y : x = Limit * (clock' + MaxSkew) /\ y = Limit * last_refill'
      OBVIOUS
    <3>1. clock' + MaxSkew \in Int /\ last_refill' \in Int /\ u \in Int
      OBVIOUS
    <3>2. x \in Int /\ y \in Int /\ Limit * (clock' + MaxSkew - last_refill') = x - y
      BY <3>1
    <3>3. u + (x - y) = u + x - y
      BY <3>1, <3>2
    <3> QED  BY <2>1, <3>2, <3>3 DEF Level, AtMost
  <2> QED  BY <2>1, <2>2, <2>3
<1>5. /\ clock >= expires => f = k
      /\ clock < expires => f = AtMost(t + n - l, k)
  <2>1. clock < expires => f = AtMost(t + (now[h] - last_refill) * Limit, k)
    BY DEF Refilled
  <2>2. (now[h] - last_refill) * Limit = n - l /\ t + (n - l) = t + n - l
    BY <1>1, <1>2, RefillIs, Distributes
  <2> QED  BY <2>1, <2>2 DEF Refilled
<1>6. CASE Enough(h)
  <2>1. u = f - Grain /\ f >= Grain /\ granted' = granted + 1
    BY <1>6 DEF Run, Enough
  <2> DEFINE kept == IF f = k THEN k + c - n ELSE v
  <2>2. /\ kept = v \/ (kept \in Int /\ k <= kept /\ kept <= v)
        /\ kept >= Grain /\ w = kept - Grain
    <3>1. CASE clock < expires
      <4>1. v = AtMost(t + c - l, k + d) /\ f = AtMost(t + n - l, k)
        BY <1>3, <1>5, <3>1
      <4>2. CASE f = k
        <5>1. t + n - l >= k /\ kept = k + c - n
          BY <1>1, <1>2, <4>1, <4>2 DEF AtMost
        <5> QED  BY ONLY <1>1, <1>2, <1>4, <2>1, <4>1, <4>2, <5>1 DEF AtMost
      <4>3. CASE f # k
        <5>1. f = t + n - l /\ f < k /\ kept = v
          BY <1>1, <1>2, <4>1, <4>3 DEF AtMost
        <5> QED  BY ONLY <1>1, <1>2, <1>4, <2>1, <4>1, <5>1 DEF AtMost
      <4> QED  BY <4>2, <4>3
    <3>2. CASE clock >= expires
      BY <1>1, <1>2, <1>3, <1>4, <1>5, <2>1, <3>2 DEF AtMost
    <3> QED  BY <3>1, <3>2
  <2> HIDE DEF kept
  <2>3. kept \in {v} \cup (k .. v)
    BY <2>2, LevelIs
  <2> QED  BY <1>6, <2>1, <2>2, <2>3 DEF Ideal!Take
<1>7. CASE ~Enough(h)
  <2>1. u = f /\ f < Grain /\ granted' = granted
    BY <1>1, <1>7 DEF Run, Enough
  <2>2. clock < expires /\ f = t + n - l
    BY <1>1, <1>5, <2>1 DEF AtMost
  <2>3. w = v /\ v < Grain + d
    BY <1>1, <1>2, <1>3, <1>4, <2>1, <2>2 DEF AtMost
  <2> QED  BY <1>7, <2>1, <2>3 DEF Ideal!Leave
<1> QED  BY <1>6, <1>7

(* A tick flows in; when the hash goes away the bucket is full.            *)
LEMMA TickFlows ==
  ASSUME BucketInv, BucketInv', IdealInv, Tick
  PROVE  Ideal!Flow
<1> USE DEF BucketInv, TypeOK
<1>1. /\ clock' = clock + 1 /\ pc' = pc
      /\ UNCHANGED <<tokens, last_refill, expires, granted, faults>>
  BY DEF Tick, bucket
<1> PICK l, c, k, d, t, v, w :
       /\ l = Limit * last_refill /\ c = Limit * (clock + MaxSkew)
       /\ k = Capacity /\ d = Slack /\ t = tokens /\ v = Level /\ w = Level'
  OBVIOUS
<1>2. l \in Int /\ c \in Int /\ k \in Nat /\ d \in Nat /\ t \in Int /\ Limit \in Nat \ {0}
  BY LevelIs
<1>3. v = IF clock < expires THEN AtMost(t + c - l, k + d) ELSE k + d
  BY LevelIs
<1>4. w = IF clock + 1 < expires THEN AtMost(t + (c + Limit) - l, k + d) ELSE k + d
  <2>1. Limit * ((clock + 1) + MaxSkew - last_refill) = (c + Limit) - l
    OBVIOUS
  <2>2. t + ((c + Limit) - l) = t + (c + Limit) - l
    BY <1>2
  <2>3. w = IF clock' < expires'
              THEN AtMost(tokens' + Limit * (clock' + MaxSkew - last_refill'), k + d)
              ELSE k + d
    BY DEF Level, AtMost, Capacity, Slack
  <2> QED  BY <1>1, <2>1, <2>2, <2>3
<1>5. clock < expires /\ clock + 1 >= expires => t + c - l + Limit >= k + d
  <2> SUFFICES ASSUME clock < expires, clock + 1 >= expires PROVE t + c - l + Limit >= k + d
    OBVIOUS
  <2> PICK x, y, z : /\ x = expires - TTL + MaxSkew /\ y = Grain + MaxDelay + MaxSkew
                     /\ z = MaxDelay + MaxSkew
    OBVIOUS
  <2>1. x \in Int /\ y \in Int /\ z \in Int /\ y = Grain + z
        /\ x + y <= clock + MaxSkew + 1
    OBVIOUS
  <2>2. t + Limit * x >= l
    BY DEF IdealInv, Backed
  <2>3. Limit * (x + y) <= Limit * (clock + MaxSkew + 1)
    BY <2>1, TimesMonotone
  <2>4. Limit * (clock + MaxSkew + 1) = c + Limit
    OBVIOUS
  <2>5. Limit * (x + y) = Limit * x + Limit * y /\ Limit * y = Limit * Grain + Limit * z
    BY <2>1, Distributes
  <2>6. Limit * Grain = k /\ Limit * z = d
    BY DEF Capacity, Slack
  <2>7. Limit * x \in Int
    BY <2>1
  <2> QED  BY <1>2, <2>2, <2>3, <2>4, <2>5, <2>6, <2>7
<1>6. w = IF v + Limit < k + d THEN v + Limit ELSE k + d
  <2>1. CASE clock + 1 < expires
    BY <1>2, <1>3, <1>4, <2>1 DEF AtMost
  <2>2. CASE clock < expires /\ clock + 1 >= expires
    BY <1>2, <1>3, <1>4, <1>5, <2>2 DEF AtMost
  <2>3. CASE clock >= expires
    BY <1>2, <1>3, <1>4, <2>3
  <2> QED  BY <2>1, <2>2, <2>3
<1> QED  BY <1>1, <1>6 DEF Ideal!Flow, Ideal!Full

LEMMA LevelSame ==
  ASSUME UNCHANGED <<clock, tokens, last_refill, expires>>
  PROVE  Level' = Level
  BY DEF Level, Capacity, Slack, AtMost

Waiting == {h \in Handlers : pc[h] = "sent"}

LEMMA StepIsIdeal ==
  ASSUME BucketInv, BucketInv', IdealInv, [Next]_vars
  PROVE  [Ideal!Next]_(Ideal!vars)
<1> USE DEF BucketInv, TypeOK
<1>1. ASSUME NEW h \in Handlers, Return(h), h \in Waiting PROVE Waiting' = Waiting \ {h}
  BY <1>1 DEF Return, Waiting
<1>2. ASSUME NEW h \in Handlers, ReadClock(h) PROVE Ideal!Ask(h)
  <2>1. Waiting' = Waiting \cup {h}
    BY <1>2 DEF ReadClock, Waiting
  <2>2. Level' = Level /\ UNCHANGED <<granted, faults>>
    BY <1>2, LevelSame DEF ReadClock, bucket
  <2> QED  BY <2>1, <2>2 DEF Ideal!Ask, Waiting
<1>3. ASSUME NEW h \in Handlers, Answered(h) PROVE Ideal!Answer(h)
  <2>1. Run(h) /\ clock' = clock /\ faults' = faults /\ Return(h)
    BY <1>3 DEF Answered
  <2>2. h \in Waiting
    BY <2>1 DEF Run, Waiting
  <2>3. Ideal!Take \/ Ideal!Leave
    BY <2>1, RunIdeal
  <2>4. Waiting' = Waiting \ {h}
    BY <1>1, <2>1, <2>2
  <2> QED  BY <2>1, <2>2, <2>3, <2>4 DEF Ideal!Answer, Waiting
<1>4. ASSUME NEW h \in Handlers, ReplyLost(h) \/ Unreached(h) PROVE Ideal!Fail(h)
  <2>1. h \in Waiting /\ faults' = faults + 1 /\ clock' = clock
    BY <1>4 DEF ReplyLost, Unreached, Run, Broken, Waiting
  <2>2. Waiting' \in {Waiting, Waiting \ {h}}
    BY <1>1, <1>4, <2>1 DEF ReplyLost, Unreached, Broken, Waiting
  <2>3. Ideal!Take \/ (Level' = Level /\ granted' = granted)
    <3>1. CASE Run(h)
      BY <2>1, <3>1, RunIdeal DEF Ideal!Leave
    <3>2. CASE Unreached(h)
      <4>1. UNCHANGED <<clock, tokens, last_refill, expires, granted>>
        BY <2>1, <3>2 DEF Unreached, bucket
      <4> QED  BY <4>1, LevelSame
    <3> QED  BY <1>4, <3>1, <3>2 DEF ReplyLost
  <2> QED  BY <2>1, <2>2, <2>3 DEF Ideal!Fail, Waiting
<1>5. CASE Mark
  <2>1. granted' = 0 /\ pc' = pc /\ faults' = faults /\ Level' = Level
    BY <1>5, LevelSame DEF Mark, bucket
  <2> QED  BY <2>1 DEF Ideal!Next, Ideal!Mark
<1>6. CASE UNCHANGED vars
  <2>1. UNCHANGED <<pc, granted, faults>> /\ Level' = Level
    BY <1>6, LevelSame DEF vars, bucket
  <2> QED  BY <2>1 DEF Ideal!vars
<1>7. CASE Tick
  BY <1>7, TickFlows DEF Ideal!Next
<1> QED  BY <1>2, <1>3, <1>4, <1>5, <1>6, <1>7 DEF Next, Ideal!Next

(* For any number of handlers and replicas, however their clocks are apart *)
(* within the skew and their calls are delayed, repeated or lost, the      *)
(* script on the shared hash (client.go:34-67) is one ideal bucket, of a   *)
(* size that is uncertain by the slack.                                    *)
THEOREM ScriptIsIdeal == Spec => KeepsIdeal
<1>1. Init => Ideal!Init
  <2> SUFFICES ASSUME Init PROVE Ideal!Init
    OBVIOUS
  <2>1. Level = Capacity + Slack /\ {h \in Handlers : pc[h] = "sent"} = {}
    BY DEF Init, Level
  <2> QED  BY <2>1 DEF Init, Ideal!Init, Ideal!Full
<1>2. BucketInv /\ IdealInv /\ [Next]_vars => IdealInv'
  BY StepIdeal
<1>3. BucketInv /\ BucketInv' /\ IdealInv /\ [Next]_vars => [Ideal!Next]_(Ideal!vars)
  BY StepIsIdeal
<1>4. Spec => Ideal!Spec
  BY <1>1, <1>2, <1>3, InitIdeal, BucketAlways, PTL DEF Spec, Ideal!Spec
<1> QED  BY <1>4 DEF KeepsIdeal

=============================================================================
