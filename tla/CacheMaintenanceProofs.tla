----------------------- MODULE CacheMaintenanceProofs -----------------------
(* Theorems about the replicas with their handlers and jobs, for any       *)
(* number of them, any clocks less than a TTL apart, any calendar, TTLs,   *)
(* delays and faults.                                                      *)
EXTENDS CacheMaintenance, ResponseCacheProofs, ArithmeticTheorems

-----------------------------------------------------------------------------
(* The calendar.                                                           *)

(* Where FirstFrom lies, by whole periods back from the offset.            *)
LEMMA FirstFromAsDiv ==
  ASSUME NEW job \in Jobs, NEW t \in Int
  PROVE  /\ Period[job] \in Nat \ {0} /\ Offset[job] \in Nat
         /\ FirstFrom(job, t) \in t .. t + Period[job] - 1
         /\ Period[job] * ((Offset[job] - t) \div Period[job]) \in Int
         /\ FirstFrom(job, t) = Offset[job] - Period[job] * ((Offset[job] - t) \div Period[job])
<1>1. Period[job] \in Nat \ {0} /\ Offset[job] \in Nat
  BY SchedulerAssumption
<1> DEFINE m == Period[job]
           x == Offset[job] - t
<1>6. x \in Int /\ m \in Nat \ {0} /\ Offset[job] = x + t
  BY <1>1
<1>5. FirstFrom(job, t) = t + (x % m)
  BY DEF FirstFrom
<1> HIDE DEF x, m
<1>2. x % m \in 0 .. m - 1
  BY <1>6, ModRange
<1>3. x \div m \in Int /\ x = m * (x \div m) + (x % m)
  BY <1>6, DivMod
<1>4. m * (x \div m) \in Int
  BY <1>6, <1>3, Scaled
<1>7. t + (x % m) = (x + t) - m * (x \div m)
  BY <1>6, <1>2, <1>3, <1>4
<1>8. t + (x % m) \in t .. t + m - 1
  BY <1>6, <1>2
<1> QED  BY <1>6, <1>1, <1>4, <1>5, <1>7, <1>8 DEF m, x

LEMMA FirstFromMonotone ==
  ASSUME NEW job \in Jobs, NEW s \in Int, NEW t \in Int, s <= t
  PROVE  FirstFrom(job, s) <= FirstFrom(job, t)
<1> DEFINE m == Period[job]
           a == (Offset[job] - t) \div m
           b == (Offset[job] - s) \div m
<1>1. m \in Nat \ {0} /\ Offset[job] \in Nat
  BY FirstFromAsDiv
<1> DEFINE x == Offset[job] - t
           y == Offset[job] - s
<1>5. x \in Int /\ y \in Int /\ x <= y
  BY <1>1
<1> HIDE DEF x, y, m
<1>6. x \div m \in Int /\ y \div m \in Int /\ x \div m <= y \div m
  BY <1>1, <1>5, DivMod, DivMonotone
<1>2. a \in Int /\ b \in Int /\ a <= b
  BY <1>6 DEF x, y
<1> USE DEF m
<1>3. /\ FirstFrom(job, t) = Offset[job] - m * a
      /\ FirstFrom(job, s) = Offset[job] - m * b
  BY FirstFromAsDiv
<1> HIDE DEF a, b, m
<1>4. m * a \in Int /\ m * b \in Int /\ m * a <= m * b
  BY <1>1, <1>2, Scaled
<1> QED  BY <1>1, <1>3, <1>4

(* Two times of a job's calendar less than a period apart are the same.    *)
LEMMA OnePeriod ==
  ASSUME NEW m \in Nat \ {0}, NEW a \in Int, NEW b \in Int, m * a - m < m * b, a > b
  PROVE  FALSE
<1>1. m * b <= m * (a - 1) /\ m * (a - 1) = m * a - m /\ m * a \in Int /\ m * b \in Int
  BY Scaled, ScaledBack
<1> QED  BY <1>1

LEMMA FirstFromNext ==
  ASSUME NEW job \in Jobs, NEW t \in Int
  PROVE  FirstFrom(job, t + 1) =
           IF FirstFrom(job, t) = t THEN t + Period[job] ELSE FirstFrom(job, t)
<1> DEFINE m == Period[job]
           a == (Offset[job] - t) \div m
           b == (Offset[job] - (t + 1)) \div m
           f == FirstFrom(job, t)
           h == FirstFrom(job, t + 1)
<1>1. m \in Nat \ {0} /\ Offset[job] \in Nat
  BY FirstFromAsDiv
<1>2. f = Offset[job] - m * a /\ f \in t .. t + m - 1 /\ m * a \in Int
  BY FirstFromAsDiv
<1>3. t + 1 \in Int
  OBVIOUS
<1>4. h = Offset[job] - m * b /\ h \in t + 1 .. t + 1 + m - 1 /\ m * b \in Int
  BY <1>3, FirstFromAsDiv
<1>5. a \in Int /\ b \in Int
  BY <1>1, DivMod
<1> HIDE DEF a, b, f, h, m
<1>6. a >= b
  <2>1. SUFFICES ASSUME b >= a + 1 PROVE FALSE
    BY <1>5
  <2>2. m * a <= m * (b - 1) /\ m * (b - 1) = m * b - m
    BY <1>1, <1>5, <2>1, Scaled, ScaledBack
  <2> QED  BY <1>1, <1>2, <1>4, <2>2
<1>7. CASE f = t
  <2>1. a > b
    BY <1>2, <1>4, <1>5, <1>6, <1>7
  <2>2. m * b <= m * (a - 1) /\ m * (a - 1) = m * a - m
    BY <1>1, <1>5, <2>1, Scaled, ScaledBack
  <2> QED  BY <1>1, <1>2, <1>4, <1>7, <2>2 DEF f, h, m
<1>8. CASE f # t
  <2>1. m * a - m < m * b
    BY <1>1, <1>2, <1>4, <1>8
  <2>2. a = b
    BY <1>1, <1>5, <1>6, <2>1, OnePeriod
  <2> QED  BY <1>2, <1>4, <1>8, <2>2 DEF f, h
<1> QED  BY <1>7, <1>8

(* A month begins at or before the time in it and ends after it; time goes *)
(* from one to the next.                                                   *)
LEMMA MonthBounds ==
  ASSUME NEW t \in Int
  PROVE  /\ Month \in Nat \ {0}
         /\ MonthStart(t) \in Int /\ NextMonthStart(t) \in Int
         /\ MonthStart(t) <= t /\ t < NextMonthStart(t)
         /\ NextMonthStart(t) = MonthStart(t) + Month
<1>1. "spend-reset" \in Jobs /\ t + 1 \in Int
  BY DEF Jobs
<1>2. /\ Month \in Nat \ {0}
      /\ FirstFrom("spend-reset", t + 1) \in t + 1 .. t + 1 + Month - 1
  BY <1>1, FirstFromAsDiv DEF Month
<1> QED  BY <1>2 DEF MonthStart, NextMonthStart

LEMMA MonthTurns ==
  ASSUME NEW t \in Int
  PROVE  \/ MonthStart(t + 1) = MonthStart(t) /\ NextMonthStart(t + 1) = NextMonthStart(t)
                /\ t + 1 < NextMonthStart(t)
         \/ /\ MonthStart(t + 1) = t + 1 /\ NextMonthStart(t) = t + 1
            /\ MonthStart(t) < t + 1 /\ NextMonthStart(t + 1) = t + 1 + Month
<1>1. "spend-reset" \in Jobs /\ t + 1 \in Int /\ (t + 1) + 1 \in Int
  BY DEF Jobs
<1> DEFINE f == FirstFrom("spend-reset", t + 1)
           h == FirstFrom("spend-reset", (t + 1) + 1)
<1>2. h = IF f = t + 1 THEN (t + 1) + Month ELSE f
  BY <1>1, FirstFromNext DEF Month
<1>3. Month \in Nat \ {0} /\ f \in t + 1 .. t + 1 + Month - 1
  BY <1>1, FirstFromAsDiv DEF Month
<1>4. /\ MonthStart(t) = f - Month /\ NextMonthStart(t) = f
      /\ MonthStart(t + 1) = h - Month /\ NextMonthStart(t + 1) = h
  BY DEF MonthStart, NextMonthStart
<1> HIDE DEF f, h
<1> QED  BY <1>2, <1>3, <1>4

-----------------------------------------------------------------------------
(* The jobs.                                                               *)

(* An overdue reset is that of the current month, and it is still to do.   *)
ResetsKept ==
  /\ resets <= owed
  /\ resetAt <= clock => resets = 0 /\ owed = 1
  /\ resetAt <= MonthStart(clock) \/ resetAt = NextMonthStart(clock)

(* A timer of a running replica is set for now or the next period.         *)
Punctual ==
  \A g \in up, job \in Jobs : plan[g][job] \in Now(g) .. Now(g) + Period[job]

(* A clock that is not ahead has its timer within the month; one that was  *)
(* not seen to when the month began has it set for then or earlier.        *)
ResetsPlanned ==
  \A g \in up : Ahead[g] <= 0 =>
    /\ plan[g]["spend-reset"] <= NextMonthStart(clock)
    /\ healthy[g] < MonthStart(clock) /\ resetAt <= clock =>
         plan[g]["spend-reset"] <= MonthStart(clock)

SchedulerInv ==
  ClusterTypeOK /\ SchedulerTypeOK /\ ResetsKept /\ Punctual /\ ResetsPlanned

(* What a step of the jobs does, together with the cluster's part of it.   *)
JobStep ==
  \/ TimePasses /\ SchedulerTick
  \/ \E g \in Gateways :
       \/ Up(g) /\ StartAll(g)
       \/ Down(g) /\ StopAll(g)
       \/ \E job \in Jobs :
            \/ RunJob(g, job) /\ UNCHANGED cluster
            \/ FailJob(g, job) /\ UNCHANGED <<clock, up>>
  \/ UNCHANGED schedule /\ UNCHANGED <<clock, up>> /\ (Fault \/ UNCHANGED faults)

LEMMA NowType ==
  ASSUME ClusterTypeOK, NEW g \in Gateways
  PROVE  clock \in Int /\ Now(g) \in Int /\ Ahead[g] \in Int /\ Now(g) = clock + Ahead[g]
  BY ClusterAssumption DEF ClusterTypeOK, Now

LEMMA TimerType ==
  ASSUME ClusterTypeOK, NEW g \in Gateways, NEW job \in Jobs
  PROVE  /\ FirstFrom(job, Now(g) + 1) \in Int
         /\ FirstFrom(job, Now(g) + 1) \in Now(g) .. Now(g) + Period[job]
<1>1. Now(g) \in Int /\ Now(g) + 1 \in Int
  BY NowType
<1>2. /\ Period[job] \in Nat \ {0}
      /\ FirstFrom(job, Now(g) + 1) \in Now(g) + 1 .. (Now(g) + 1) + Period[job] - 1
  BY <1>1, FirstFromAsDiv
<1> QED  BY <1>1, <1>2

LEMMA TimerInMonth ==
  ASSUME ClusterTypeOK, NEW g \in Gateways, Ahead[g] <= 0
  PROVE  FirstFrom("spend-reset", Now(g) + 1) <= NextMonthStart(clock)
<1>1. Now(g) + 1 \in Int /\ clock + 1 \in Int /\ Now(g) + 1 <= clock + 1
  BY NowType
<1>2. "spend-reset" \in Jobs
  BY DEF Jobs
<1> QED  BY <1>1, <1>2, FirstFromMonotone DEF NextMonthStart

LEMMA ReplanType ==
  ASSUME ClusterTypeOK, SchedulerTypeOK, NEW g \in Gateways, NEW job \in Jobs,
         Replanned(g, job)
  PROVE  /\ plan' \in [Gateways -> [Jobs -> Int]]
         /\ plan'[g][job] = FirstFrom(job, Now(g) + 1)
         /\ \A h \in Gateways, other \in Jobs :
              h # g \/ other # job => plan'[h][other] = plan[h][other]
  BY TimerType DEF Replanned, SchedulerTypeOK

LEMMA SchedulerInitInv == ClusterInit /\ SchedulerInit => SchedulerInv
<1> SUFFICES ASSUME ClusterInit, SchedulerInit PROVE SchedulerInv
  OBVIOUS
<1>1. ClusterTypeOK
  BY ClusterAssumption DEF ClusterInit, ClusterTypeOK
<1>2. clock = 0 /\ up = Gateways
  BY DEF ClusterInit
<1>3. /\ MonthStart(0) \in Int /\ NextMonthStart(0) \in Int
      /\ MonthStart(0) <= 0 /\ 0 < NextMonthStart(0)
  BY MonthBounds
<1>4. plan = [g \in Gateways |-> [job \in Jobs |-> FirstFrom(job, Now(g) + 1)]]
  BY DEF SchedulerInit, Timers
<1>5. healthy = [g \in Gateways |-> 0] /\ resets = 0 /\ owed = Owed(0)
  BY DEF SchedulerInit
<1>6. resetAt \in {MonthStart(0), NextMonthStart(0)}
  BY DEF SchedulerInit
<1>7. SchedulerTypeOK
  <2>1. plan \in [Gateways -> [Jobs -> Int]]
    BY <1>1, <1>4, TimerType
  <2> QED  BY <1>3, <1>5, <1>6, <2>1, ClusterAssumption DEF SchedulerTypeOK, Owed
<1>8. ResetsKept
  BY <1>2, <1>3, <1>5, <1>6 DEF ResetsKept, Owed
<1>9. Punctual
  BY <1>1, <1>2, <1>4, TimerType DEF Punctual
<1>10. ResetsPlanned
  <2>1. "spend-reset" \in Jobs
    BY DEF Jobs
  <2>2. ASSUME NEW g \in up, Ahead[g] <= 0
        PROVE  plan[g]["spend-reset"] <= NextMonthStart(clock) /\ ~(healthy[g] < MonthStart(clock))
    <3>1. g \in Gateways /\ healthy[g] = 0 /\ plan[g]["spend-reset"] = FirstFrom("spend-reset", Now(g) + 1)
      BY <1>2, <1>4, <1>5, <2>1
    <3> QED  BY <1>1, <1>2, <1>3, <2>2, <3>1, TimerInMonth
  <2> QED  BY <2>2 DEF ResetsPlanned
<1> QED  BY <1>1, <1>7, <1>8, <1>9, <1>10 DEF SchedulerInv

(* The reset, on whichever replica it runs.                                *)
LEMMA ResetDone ==
  ASSUME ClusterTypeOK, SchedulerTypeOK, ResetsKept, resetMonthlySpend,
         UNCHANGED <<clock, owed>>
  PROVE  resetAt' \in Int /\ resetAt' > clock /\ resets' \in Nat /\ ResetsKept'
<1>1. /\ MonthStart(clock) \in Int /\ NextMonthStart(clock) \in Int
      /\ clock \in Int /\ clock < NextMonthStart(clock)
  BY MonthBounds DEF ClusterTypeOK
<1>2. /\ MonthStart(clock)' = MonthStart(clock)
      /\ NextMonthStart(clock)' = NextMonthStart(clock)
  BY DEF MonthStart, NextMonthStart
<1>3. resets \in Nat /\ owed \in Int /\ resetAt \in Int
  BY DEF SchedulerTypeOK
<1>4. CASE resetAt <= clock
  <2>1. resetAt' = NextMonthStart(clock) /\ resets' = 1 /\ owed' = 1 /\ clock' = clock
    BY <1>3, <1>4 DEF resetMonthlySpend, ResetsKept
  <2> QED  BY <1>1, <1>2, <2>1 DEF ResetsKept
<1>5. CASE ~(resetAt <= clock)
  <2>1. UNCHANGED <<resetAt, resets, owed, clock>>
    BY <1>5 DEF resetMonthlySpend
  <2> QED  BY <1>1, <1>2, <1>3, <1>5, <2>1 DEF ResetsKept
<1> QED  BY <1>4, <1>5

LEMMA UpInv ==
  ASSUME SchedulerInv, NEW g \in Gateways, Up(g), StartAll(g) PROVE SchedulerInv'
<1>1. ClusterTypeOK /\ SchedulerTypeOK
  BY DEF SchedulerInv
<1>2. UNCHANGED <<clock, faults, resetAt, owed, resets>> /\ up' = up \cup {g}
  BY DEF Up, StartAll
<1>3. ClusterTypeOK'
  BY <1>1, <1>2 DEF ClusterTypeOK
<1>4. /\ plan' \in [Gateways -> [Jobs -> Int]]
      /\ \A job \in Jobs : plan'[g][job] = FirstFrom(job, Now(g) + 1)
      /\ \A h \in Gateways : h # g => plan'[h] = plan[h]
  BY <1>1, TimerType DEF StartAll, Timers, SchedulerTypeOK
<1>5. /\ healthy' \in [Gateways -> 0 .. MaxClock] /\ healthy'[g] = clock
      /\ \A h \in Gateways : h # g => healthy'[h] = healthy[h]
  BY <1>1 DEF StartAll, SchedulerTypeOK, ClusterTypeOK
<1>6. SchedulerTypeOK'
  BY <1>1, <1>2, <1>4, <1>5 DEF SchedulerTypeOK
<1>7. /\ MonthStart(clock)' = MonthStart(clock) /\ NextMonthStart(clock)' = NextMonthStart(clock)
      /\ \A h \in Gateways : Now(h)' = Now(h)
  BY <1>2 DEF MonthStart, NextMonthStart, Now
<1>8. ResetsKept'
  BY <1>2, <1>7 DEF SchedulerInv, ResetsKept
<1>9. \A h \in up' : h \in Gateways /\ (h = g \/ h \in up)
  BY <1>1, <1>2 DEF ClusterTypeOK
<1>10. Punctual'
  BY <1>1, <1>4, <1>7, <1>9, TimerType DEF SchedulerInv, Punctual
<1>11. ResetsPlanned'
  <2>1. "spend-reset" \in Jobs
    BY DEF Jobs
  <2>2. clock \in Int /\ MonthStart(clock) \in Int /\ MonthStart(clock) <= clock
    BY <1>1, MonthBounds DEF ClusterTypeOK
  <2>3. ASSUME NEW h \in up', Ahead[h] <= 0
        PROVE  /\ plan'[h]["spend-reset"] <= NextMonthStart(clock)
               /\ healthy'[h] < MonthStart(clock) /\ resetAt <= clock =>
                    plan'[h]["spend-reset"] <= MonthStart(clock)
    <3>1. CASE h = g
      BY <1>1, <1>4, <1>5, <2>1, <2>2, <2>3, <3>1, TimerInMonth
    <3>2. CASE h # g
      BY <1>4, <1>5, <1>9, <2>3, <3>2 DEF SchedulerInv, ResetsPlanned
    <3> QED  BY <3>1, <3>2
  <2> QED  BY <1>2, <1>7, <2>3 DEF ResetsPlanned
<1> QED  BY <1>3, <1>6, <1>8, <1>10, <1>11 DEF SchedulerInv

LEMMA DownInv ==
  ASSUME SchedulerInv, NEW g \in Gateways, Down(g), StopAll(g) PROVE SchedulerInv'
<1>1. ClusterTypeOK /\ SchedulerTypeOK
  BY DEF SchedulerInv
<1>2. /\ UNCHANGED <<clock, resetAt, owed, resets>> /\ up' = up \ {g}
      /\ faults < MaxFaults /\ faults' = faults + 1
  BY DEF Down, StopAll, Fault
<1>3. ClusterTypeOK'
  BY <1>1, <1>2, ClusterAssumption DEF ClusterTypeOK
<1>4. plan' \in [Gateways -> [Jobs -> Int]] /\ \A h \in Gateways : h # g => plan'[h] = plan[h]
  BY <1>1 DEF StopAll, SchedulerTypeOK
<1>5. healthy' \in [Gateways -> 0 .. MaxClock] /\ \A h \in Gateways : h # g => healthy'[h] = healthy[h]
  BY <1>1, ClusterAssumption DEF StopAll, SchedulerTypeOK
<1>6. SchedulerTypeOK'
  BY <1>1, <1>2, <1>4, <1>5 DEF SchedulerTypeOK
<1>7. /\ MonthStart(clock)' = MonthStart(clock) /\ NextMonthStart(clock)' = NextMonthStart(clock)
      /\ \A h \in Gateways : Now(h)' = Now(h)
  BY <1>2 DEF MonthStart, NextMonthStart, Now
<1>8. ResetsKept'
  BY <1>2, <1>7 DEF SchedulerInv, ResetsKept
<1>9. \A h \in up' : h \in Gateways /\ h # g /\ h \in up
  BY <1>1, <1>2 DEF ClusterTypeOK
<1>10. Punctual'
  BY <1>4, <1>7, <1>9 DEF SchedulerInv, Punctual
<1>11. ResetsPlanned'
  BY <1>2, <1>4, <1>5, <1>7, <1>9 DEF SchedulerInv, ResetsPlanned
<1> QED  BY <1>3, <1>6, <1>8, <1>10, <1>11 DEF SchedulerInv

LEMMA RunInv ==
  ASSUME SchedulerInv, NEW g \in Gateways, NEW job \in Jobs, RunJob(g, job), UNCHANGED cluster
  PROVE  SchedulerInv'
<1>1. ClusterTypeOK /\ SchedulerTypeOK /\ ResetsKept
  BY DEF SchedulerInv
<1>2. UNCHANGED <<clock, up, faults, owed, healthy>> /\ Replanned(g, job)
  BY DEF RunJob, cluster
<1>3. ClusterTypeOK'
  BY <1>1, <1>2 DEF ClusterTypeOK
<1>4. /\ plan' \in [Gateways -> [Jobs -> Int]]
      /\ plan'[g][job] = FirstFrom(job, Now(g) + 1)
      /\ \A h \in Gateways, other \in Jobs : h # g \/ other # job => plan'[h][other] = plan[h][other]
  BY <1>1, <1>2, ReplanType
<1>5. /\ MonthStart(clock)' = MonthStart(clock) /\ NextMonthStart(clock)' = NextMonthStart(clock)
      /\ \A h \in Gateways : Now(h)' = Now(h)
  BY <1>2 DEF MonthStart, NextMonthStart, Now
<1>6. /\ resetAt' \in Int /\ resets' \in Nat /\ ResetsKept'
      /\ IF job = "spend-reset" THEN resetAt' > clock ELSE resetAt' = resetAt
  <2>1. CASE job = "spend-reset"
    BY <1>1, <1>2, <2>1, ResetDone DEF RunJob
  <2>2. CASE job # "spend-reset"
    <3>1. UNCHANGED <<resetAt, resets>>
      BY <2>2 DEF RunJob
    <3>2. ResetsKept'
      BY <1>1, <1>2, <1>5, <3>1 DEF ResetsKept
    <3> QED  BY <1>1, <2>2, <3>1, <3>2 DEF SchedulerTypeOK
  <2> QED  BY <2>1, <2>2
<1>7. SchedulerTypeOK'
  BY <1>1, <1>2, <1>4, <1>6 DEF SchedulerTypeOK
<1>8. \A h \in up : h \in Gateways
  BY <1>1 DEF ClusterTypeOK
<1>9. Punctual'
  <2>1. ASSUME NEW h \in up, NEW other \in Jobs
        PROVE  plan'[h][other] \in Now(h) .. Now(h) + Period[other]
    <3>1. CASE h = g /\ other = job
      BY <1>1, <1>4, <3>1, TimerType
    <3>2. CASE h # g \/ other # job
      BY <1>4, <1>8, <3>2 DEF SchedulerInv, Punctual
    <3> QED  BY <3>1, <3>2
  <2> QED  BY <1>2, <1>5, <1>8, <2>1 DEF Punctual
<1>10. ResetsPlanned'
  <2>1. "spend-reset" \in Jobs
    BY DEF Jobs
  <2>2. resetAt \in Int /\ clock \in Int
    BY <1>1 DEF SchedulerTypeOK, ClusterTypeOK
  <2>3. ASSUME NEW h \in up, Ahead[h] <= 0
        PROVE  /\ plan'[h]["spend-reset"] <= NextMonthStart(clock)
               /\ healthy[h] < MonthStart(clock) /\ resetAt' <= clock =>
                    plan'[h]["spend-reset"] <= MonthStart(clock)
    <3>1. CASE job = "spend-reset"
      <4>1. ~(resetAt' <= clock)
        BY <1>6, <2>2, <3>1
      <4>2. plan'[h]["spend-reset"] <= NextMonthStart(clock)
        <5>1. CASE h = g
          BY <1>1, <1>4, <2>3, <3>1, <5>1, TimerInMonth
        <5>2. CASE h # g
          BY <1>4, <1>8, <2>1, <2>3, <5>2 DEF SchedulerInv, ResetsPlanned
        <5> QED  BY <5>1, <5>2
      <4> QED  BY <4>1, <4>2
    <3>2. CASE job # "spend-reset"
      BY <1>4, <1>6, <1>8, <2>1, <2>3, <3>2 DEF SchedulerInv, ResetsPlanned
    <3> QED  BY <3>1, <3>2
  <2> QED  BY <1>2, <1>5, <2>3 DEF ResetsPlanned
<1> QED  BY <1>3, <1>6, <1>7, <1>9, <1>10 DEF SchedulerInv

LEMMA FailInv ==
  ASSUME SchedulerInv, NEW g \in Gateways, NEW job \in Jobs, FailJob(g, job),
         UNCHANGED <<clock, up>>
  PROVE  SchedulerInv'
<1>1. ClusterTypeOK /\ SchedulerTypeOK
  BY DEF SchedulerInv
<1>2. /\ UNCHANGED <<clock, up, resetAt, owed, resets>> /\ Replanned(g, job) /\ g \in up
      /\ faults < MaxFaults /\ faults' = faults + 1
  BY DEF FailJob, Fault, Due
<1>3. ClusterTypeOK'
  BY <1>1, <1>2, ClusterAssumption DEF ClusterTypeOK
<1>4. /\ plan' \in [Gateways -> [Jobs -> Int]]
      /\ plan'[g][job] = FirstFrom(job, Now(g) + 1)
      /\ \A h \in Gateways, other \in Jobs : h # g \/ other # job => plan'[h][other] = plan[h][other]
  BY <1>1, <1>2, ReplanType
<1>5. /\ healthy' \in [Gateways -> 0 .. MaxClock] /\ healthy'[g] = clock
      /\ \A h \in Gateways : h # g => healthy'[h] = healthy[h]
  BY <1>1 DEF FailJob, SchedulerTypeOK, ClusterTypeOK
<1>6. SchedulerTypeOK'
  BY <1>1, <1>2, <1>4, <1>5 DEF SchedulerTypeOK
<1>7. /\ MonthStart(clock)' = MonthStart(clock) /\ NextMonthStart(clock)' = NextMonthStart(clock)
      /\ \A h \in Gateways : Now(h)' = Now(h)
  BY <1>2 DEF MonthStart, NextMonthStart, Now
<1>8. ResetsKept'
  BY <1>2, <1>7 DEF SchedulerInv, ResetsKept
<1>9. \A h \in up : h \in Gateways
  BY <1>1 DEF ClusterTypeOK
<1>10. Punctual'
  <2>1. ASSUME NEW h \in up, NEW other \in Jobs
        PROVE  plan'[h][other] \in Now(h) .. Now(h) + Period[other]
    <3>1. CASE h = g /\ other = job
      BY <1>1, <1>4, <3>1, TimerType
    <3>2. CASE h # g \/ other # job
      BY <1>4, <1>9, <3>2 DEF SchedulerInv, Punctual
    <3> QED  BY <3>1, <3>2
  <2> QED  BY <1>2, <1>7, <1>9, <2>1 DEF Punctual
<1>11. ResetsPlanned'
  <2>1. "spend-reset" \in Jobs
    BY DEF Jobs
  <2>2. clock \in Int /\ MonthStart(clock) \in Int /\ MonthStart(clock) <= clock
    BY <1>1, MonthBounds DEF ClusterTypeOK
  <2>3. ASSUME NEW h \in up, Ahead[h] <= 0
        PROVE  /\ plan'[h]["spend-reset"] <= NextMonthStart(clock)
               /\ healthy'[h] < MonthStart(clock) /\ resetAt <= clock =>
                    plan'[h]["spend-reset"] <= MonthStart(clock)
    <3>1. CASE h = g
      <4>1. ~(healthy'[h] < MonthStart(clock))
        BY <1>5, <2>2, <3>1
      <4>2. plan'[h]["spend-reset"] <= NextMonthStart(clock)
        <5>1. CASE job = "spend-reset"
          BY <1>1, <1>4, <2>3, <3>1, <5>1, TimerInMonth
        <5>2. CASE job # "spend-reset"
          BY <1>4, <1>9, <2>1, <2>3, <5>2 DEF SchedulerInv, ResetsPlanned
        <5> QED  BY <5>1, <5>2
      <4> QED  BY <4>1, <4>2
    <3>2. CASE h # g
      BY <1>4, <1>5, <1>9, <2>1, <2>3, <3>2 DEF SchedulerInv, ResetsPlanned
    <3> QED  BY <3>1, <3>2
  <2> QED  BY <1>2, <1>7, <2>3 DEF ResetsPlanned
<1> QED  BY <1>3, <1>6, <1>8, <1>10, <1>11 DEF SchedulerInv

LEMMA TickInv ==
  ASSUME SchedulerInv, TimePasses, SchedulerTick PROVE SchedulerInv'
<1>1. ClusterTypeOK /\ SchedulerTypeOK
  BY DEF SchedulerInv
<1>2. /\ clock < MaxClock /\ clock' = clock + 1
      /\ UNCHANGED <<up, faults, plan, resetAt, healthy>>
  BY DEF TimePasses, SchedulerTick
<1>3. clock \in Int /\ ClusterTypeOK' /\ \A g \in up : g \in Gateways
  BY <1>1, <1>2, ClusterAssumption DEF ClusterTypeOK
<1> DEFINE m == MonthStart(clock)
           n == NextMonthStart(clock)
           m1 == MonthStart(clock + 1)
           n1 == NextMonthStart(clock + 1)
<1>4. MonthStart(clock)' = m1 /\ NextMonthStart(clock)' = n1
  BY <1>2 DEF MonthStart, NextMonthStart
<1>5. /\ m \in Int /\ n \in Int /\ m <= clock /\ clock < n
      /\ m1 \in Int /\ n1 \in Int /\ clock + 1 < n1 /\ Month \in Nat
  <2>1. clock + 1 \in Int
    BY <1>3
  <2> QED  BY <1>3, <2>1, MonthBounds
<1>6. \/ m1 = m /\ n1 = n /\ clock + 1 < n
      \/ m1 = clock + 1 /\ n = clock + 1 /\ m < clock + 1
  BY <1>3, MonthTurns
<1>7. IF m1 = m THEN UNCHANGED <<owed, resets>>
                ELSE owed' = Owed(clock + 1) /\ resets' = 0
  BY DEF SchedulerTick
<1>8. resetAt \in Int /\ owed \in 0 .. 1 /\ resets \in Nat
  BY <1>1 DEF SchedulerTypeOK
<1>9. /\ resets <= owed
      /\ resetAt <= clock => resets = 0 /\ owed = 1
      /\ resetAt <= m \/ resetAt = n
  BY DEF SchedulerInv, ResetsKept
<1> HIDE DEF m, n, m1, n1
<1>10. SchedulerTypeOK'
  BY <1>1, <1>2, <1>7, <1>8 DEF SchedulerTypeOK, Owed
<1>11. ResetsKept'
  BY <1>2, <1>3, <1>4, <1>5, <1>6, <1>7, <1>8, <1>9 DEF ResetsKept, Owed
<1>12. Punctual'
  <2>1. ASSUME NEW g \in up, NEW job \in Jobs
        PROVE  plan[g][job] \in Now(g)' .. Now(g)' + Period[job]
    <3>1. plan[g][job] > Now(g) /\ plan[g][job] \in Int
      BY <1>1, <1>3, NowType DEF SchedulerTick, Due, SchedulerTypeOK
    <3>2. plan[g][job] <= Now(g) + Period[job]
      BY <1>1, <1>3, <3>1, NowType DEF SchedulerInv, Punctual
    <3>3. Now(g)' = Now(g) + 1 /\ Now(g) \in Int
      BY <1>1, <1>2, <1>3, NowType, ClusterAssumption DEF Now
    <3>4. Period[job] \in Nat
      BY SchedulerAssumption
    <3> QED  BY <3>1, <3>2, <3>3, <3>4
  <2> QED  BY <1>2, <2>1 DEF Punctual
<1>13. ResetsPlanned'
  <2>1. ASSUME NEW g \in up, Ahead[g] <= 0
        PROVE  /\ plan[g]["spend-reset"] <= n1
               /\ healthy[g] < m1 /\ resetAt <= clock + 1 => plan[g]["spend-reset"] <= m1
    <3>1. plan[g]["spend-reset"] \in Int /\ healthy[g] \in Int
      <4>1. "spend-reset" \in Jobs
        BY DEF Jobs
      <4> QED  BY <1>1, <1>3, <4>1 DEF SchedulerTypeOK
    <3>2. /\ plan[g]["spend-reset"] <= n
          /\ healthy[g] < m /\ resetAt <= clock => plan[g]["spend-reset"] <= m
      BY <2>1 DEF SchedulerInv, ResetsPlanned, m, n
    <3> QED  BY <1>3, <1>5, <1>6, <1>8, <1>9, <3>1, <3>2
  <2> QED  BY <1>2, <1>4, <2>1 DEF ResetsPlanned
<1> QED  BY <1>3, <1>10, <1>11, <1>12, <1>13 DEF SchedulerInv

LEMMA RestInv ==
  ASSUME SchedulerInv, UNCHANGED schedule, UNCHANGED <<clock, up>>, Fault \/ UNCHANGED faults
  PROVE  SchedulerInv'
<1>1. ClusterTypeOK'
  BY ClusterAssumption DEF SchedulerInv, ClusterTypeOK, Fault
<1>2. SchedulerTypeOK'
  BY DEF SchedulerInv, SchedulerTypeOK, schedule
<1>3. /\ MonthStart(clock)' = MonthStart(clock) /\ NextMonthStart(clock)' = NextMonthStart(clock)
      /\ \A h \in Gateways : Now(h)' = Now(h)
  BY DEF MonthStart, NextMonthStart, Now
<1>4. ResetsKept'
  BY <1>3 DEF SchedulerInv, ResetsKept, schedule
<1>5. Punctual'
  BY <1>3 DEF SchedulerInv, Punctual, schedule, ClusterTypeOK
<1>6. ResetsPlanned'
  BY <1>3 DEF SchedulerInv, ResetsPlanned, schedule
<1> QED  BY <1>1, <1>2, <1>4, <1>5, <1>6 DEF SchedulerInv

LEMMA SchedulerStepInv ==
  ASSUME SchedulerInv, JobStep PROVE SchedulerInv'
  BY UpInv, DownInv, RunInv, FailInv, TickInv, RestInv DEF JobStep

LEMMA SchedulerProperties ==
  ASSUME SchedulerInv PROVE ResetOncePerMonth /\ ResetInTime
<1>1. /\ clock \in Int /\ MonthStart(clock) \in Int /\ NextMonthStart(clock) \in Int
      /\ MonthStart(clock) <= clock /\ clock < NextMonthStart(clock)
  BY MonthBounds DEF SchedulerInv, ClusterTypeOK
<1>2. resetAt \in Int
  BY DEF SchedulerInv, SchedulerTypeOK
<1>3. ResetOncePerMonth
  BY <1>1, <1>2 DEF SchedulerInv, ResetsKept, ResetOncePerMonth
<1>4. ResetInTime
  <2>1. SUFFICES ASSUME NEW g \in up, Ahead[g] <= 0, healthy[g] < MonthStart(clock),
                        MonthStart(clock) <= Now(g), ~Due(g, "spend-reset"),
                        resetAt <= clock
                 PROVE  FALSE
    BY <1>1, <1>2 DEF ResetInTime
  <2>2. g \in Gateways /\ "spend-reset" \in Jobs
    BY DEF SchedulerInv, ClusterTypeOK, Jobs
  <2>3. plan[g]["spend-reset"] \in Int /\ Now(g) \in Int
    BY <2>2, NowType DEF SchedulerInv, SchedulerTypeOK
  <2>4. plan[g]["spend-reset"] <= MonthStart(clock)
    BY <2>1 DEF SchedulerInv, ResetsPlanned
  <2>5. ~(plan[g]["spend-reset"] <= Now(g))
    BY <2>1 DEF Due
  <2> QED  BY <1>1, <2>1, <2>3, <2>4, <2>5
<1> QED  BY <1>3, <1>4


-----------------------------------------------------------------------------
(* The composition.                                                        *)

(* The two parts' invariants; neither needs the other.                     *)
Inv == SchedulerInv /\ PromiseInv

LEMMA InitInv == Init => Inv /\ Promise!Init
  BY SchedulerInitInv, PromiseInit DEF Init, Inv

(* What every step of the system is to its two parts.                      *)
LEMMA StepParts ==
  ASSUME Inv, Next
  PROVE  JobStep /\ PromiseInv' /\ Promise!Next
<1>1. SchedulerInv /\ PromiseInv /\ TypeInv
  BY DEF Inv, PromiseInv
<1>2. CASE Serving
  <2>1. PromiseInv' /\ Promise!Next /\ UNCHANGED <<clock, up>> /\ (Fault \/ UNCHANGED faults)
    BY <1>1, <1>2, CacheStepKeeps DEF Serving
  <2> QED  BY <1>2, <2>1 DEF Serving, JobStep
<1>3. CASE Tick
  BY <1>1, <1>3, CacheTickType, CacheTickKeeps DEF Tick, JobStep, PromiseInv
<1>4. ASSUME NEW g \in Gateways, Start(g) PROVE JobStep /\ PromiseInv' /\ Promise!Next
  <2>1. ClusterTypeOK' /\ clock' = clock
    BY <1>1, <1>4 DEF Start, Up, TypeInv, ClusterTypeOK
  <2> QED  BY <1>1, <1>4, <2>1, RestsType, RestsKeeps DEF Start, JobStep, PromiseInv
<1>5. ASSUME NEW g \in Gateways, Stop(g) PROVE JobStep /\ PromiseInv' /\ Promise!Next
  <2>1. clock' = clock
    BY <1>5 DEF Stop, Down
  <2> QED  BY <1>1, <1>5, <2>1, StoppedType, StoppedKeeps DEF Stop, JobStep, PromiseInv
<1>6. ASSUME NEW g \in Gateways, NEW job \in Jobs, Run(g, job)
      PROVE  JobStep /\ PromiseInv' /\ Promise!Next
  <2>1. RunJob(g, job) /\ UNCHANGED cluster /\ UNCHANGED clock
    BY <1>6 DEF Run, cluster
  <2>2. ClusterTypeOK'
    BY <1>1, <2>1 DEF TypeInv, ClusterTypeOK, cluster
  <2>3. CASE cleanupExpiredCache
    BY <1>1, <2>1, <2>3, cleanupType, cleanupKeeps DEF JobStep, PromiseInv
  <2>4. CASE CacheRests
    BY <1>1, <2>1, <2>2, <2>4, RestsType, RestsKeeps DEF JobStep, PromiseInv
  <2> QED  BY <1>6, <2>3, <2>4 DEF Run
<1>7. ASSUME NEW g \in Gateways, NEW job \in Jobs, Fail(g, job)
      PROVE  JobStep /\ PromiseInv' /\ Promise!Next
  <2>1. FailJob(g, job) /\ CacheRests /\ UNCHANGED <<clock, up>> /\ Fault
    BY <1>7 DEF Fail, FailJob
  <2>2. ClusterTypeOK'
    BY <1>1, <2>1, ClusterAssumption DEF TypeInv, ClusterTypeOK, Fault
  <2> QED  BY <1>1, <2>1, <2>2, RestsType, RestsKeeps DEF JobStep, PromiseInv
<1> QED  BY <1>2, <1>3, <1>4, <1>5, <1>6, <1>7 DEF Next

LEMMA StutterInv ==
  ASSUME Inv, UNCHANGED vars PROVE Inv' /\ UNCHANGED Promise!vars
<1>1. UNCHANGED <<cluster, schedule, cache>>
  BY DEF vars
<1>2. UNCHANGED <<clock, up, faults, redis, row, similar, pending, pc, asked, held, since, book, lent>>
  BY <1>1 DEF cluster, cache, caches, local
<1>3. SchedulerInv'
  BY <1>1, <1>2, RestInv DEF Inv
<1>4. TypeInv'
  BY <1>2 DEF Inv, PromiseInv, TypeInv, ClusterTypeOK, CacheTypeOK, AtWork, Stored
<1>5. Kept'
  BY <1>2, KeptFrame DEF Inv
<1> QED  BY <1>2, <1>3, <1>4, <1>5 DEF Inv, PromiseInv, Promise!vars

LEMMA NextInv == Inv /\ [Next]_vars => Inv'
<1>1. ASSUME Inv, Next PROVE Inv'
  BY <1>1, StepParts, SchedulerStepInv DEF Inv
<1> QED  BY <1>1, StutterInv

(* The invariant of both parts holds in every reachable state.             *)
THEOREM Invariance == Spec => []Inv
  BY InitInv, NextInv, PTL DEF Spec

(* Every variable of the composed system has its type.                     *)
THEOREM TypeCorrect == Spec => []TypeOK
<1>1. Inv => TypeOK
  BY DEF Inv, SchedulerInv, PromiseInv, TypeInv, TypeOK
<1> QED  BY <1>1, Invariance, PTL

(* Spend is zeroed at most once a month, never before the first.           *)
THEOREM ResetsAreSingle == Spec => []ResetOncePerMonth
<1>1. Inv => ResetOncePerMonth
  BY SchedulerProperties DEF Inv
<1> QED  BY <1>1, Invariance, PTL

(* A replica that was there for the first of the month, with a clock not   *)
(* ahead of Postgres's, has seen to the reset.                             *)
THEOREM ResetsAreTimely == Spec => []ResetInTime
<1>1. Inv => ResetInTime
  BY SchedulerProperties DEF Inv
<1> QED  BY <1>1, Invariance, PTL

(* The caches implement the answer book: every step of handlers, jobs and  *)
(* clock is a step of it or leaves it unchanged.                           *)
THEOREM CachesKeepThePromise == Spec => KeepsPromise
<1>1. Init => Promise!Init
  BY InitInv
<1>2. Inv /\ [Next]_vars => [Promise!Next]_(Promise!vars)
  BY StepParts, StutterInv
<1>3. Spec => Promise!Spec
  BY <1>1, <1>2, Invariance, PTL DEF Spec, Promise!Spec
<1> QED  BY <1>3 DEF KeepsPromise

-----------------------------------------------------------------------------
(* The rows are pruned.                                                    *)

(* When, on Postgres's clock, the cleanup of a replica last had its turn.  *)
LastTurn(g) == plan[g]["cache-cleanup"] - Period["cache-cleanup"] - Ahead[g]

(* If it did not fail then, no older row was left, and none comes back.    *)
PrunedSince ==
  \A g \in up : healthy[g] < LastTurn(g) =>
    \A q \in Questions : row[q] # Nothing => row[q].until >= LastTurn(g)

LEMMA LastTurnType ==
  ASSUME Inv, NEW g \in up
  PROVE  /\ g \in Gateways /\ clock \in Int /\ LastTurn(g) \in Int
         /\ clock - Period["cache-cleanup"] <= LastTurn(g) /\ LastTurn(g) <= clock
<1>1. ClusterTypeOK /\ SchedulerTypeOK /\ Punctual
  BY DEF Inv, SchedulerInv
<1>2. g \in Gateways /\ "cache-cleanup" \in Jobs
  BY <1>1 DEF ClusterTypeOK, Jobs
<1>3. clock \in Int /\ Ahead[g] \in Int /\ Now(g) = clock + Ahead[g]
  BY <1>1, <1>2, NowType
<1>4. Period["cache-cleanup"] \in Nat
  BY <1>2, SchedulerAssumption
<1>5. plan[g]["cache-cleanup"] \in Now(g) .. Now(g) + Period["cache-cleanup"]
  BY <1>1, <1>2 DEF Punctual
<1>6. plan[g]["cache-cleanup"] \in Int
  BY <1>1, <1>2 DEF SchedulerTypeOK
<1> QED  BY <1>2, <1>3, <1>4, <1>5, <1>6 DEF LastTurn

LEMMA LastTurnNext ==
  ASSUME Inv', NEW g \in up'
  PROVE  clock' \in Int /\ LastTurn(g)' \in Int /\ LastTurn(g)' <= clock'
<1>1. ClusterTypeOK' /\ SchedulerTypeOK' /\ Punctual'
  BY DEF Inv, SchedulerInv
<1>2. g \in Gateways /\ "cache-cleanup" \in Jobs
  BY <1>1 DEF ClusterTypeOK, Jobs
<1>3. clock' \in Int /\ Ahead[g] \in Int /\ Now(g)' = clock' + Ahead[g]
  BY <1>1, <1>2, ClusterAssumption DEF ClusterTypeOK, Now
<1>4. Period["cache-cleanup"] \in Nat
  BY <1>2, SchedulerAssumption
<1>5. plan'[g]["cache-cleanup"] \in Now(g)' .. Now(g)' + Period["cache-cleanup"]
  BY <1>1, <1>2 DEF Punctual
<1>6. plan'[g]["cache-cleanup"] \in Int
  BY <1>1, <1>2 DEF SchedulerTypeOK
<1> QED  BY <1>3, <1>4, <1>5, <1>6 DEF LastTurn

(* A step leaves a row, removes it, or lets it live to a later time.       *)
LEMMA RowSteps ==
  ASSUME Inv, CacheStep, NEW q \in Questions, row'[q] # Nothing
  PROVE  row'[q] = row[q] \/ row'[q].until >= clock
<1>1. ClusterTypeOK /\ CacheTypeOK
  BY DEF Inv, PromiseInv, TypeInv
<1>2. CASE row' = row
  BY <1>2
<1>3. CASE \E write \in pending : storeInDB(write)
  <2>1. PICK write \in pending : storeInDB(write)
    BY <1>3
  <2>2. /\ row' = [row EXCEPT ![write.answer.question] = Upserted(write)]
        /\ write.home \in Gateways /\ write.ttl \in TTLs
    BY <1>1, <2>1 DEF storeInDB, CacheTypeOK
  <2>3. Upserted(write).until = Now(write.home) + write.ttl
    BY DEF Upserted
  <2>4. Now(write.home) + write.ttl >= clock
    <3>1. /\ Now(write.home) \in Int /\ Now(write.home) >= clock - Skew /\ Skew \in Nat
          /\ Skew <= write.ttl /\ write.ttl \in Nat /\ clock \in Int
      BY <1>1, <2>2, HomeNow, ClockType, LeaseType, ClocksAssumption
    <3> QED  BY <3>1
  <2>5. row'[q] = row[q] \/ row'[q] = Upserted(write)
    <3> PICK u : u = Upserted(write)
      OBVIOUS
    <3>1. q \in DOMAIN row
      BY <1>1 DEF CacheTypeOK
    <3>2. row' = [row EXCEPT ![write.answer.question] = u]
      BY <2>2
    <3> QED  BY ONLY <3>1, <3>2, u = Upserted(write)
  <2> QED  BY <2>3, <2>4, <2>5
<1>4. row' = row \/ \E write \in pending : storeInDB(write)
  BY DEF CacheStep, HandlerStep, Get, getFromDB, StoreWarm, GetSimilar, Unanswerable, Set,
     SetSimilar, storeInDBFails, Evict, caches
<1> QED  BY <1>2, <1>3, <1>4

LEMMA PrunedSinceStep ==
  ASSUME Inv, PrunedSince, Next, Inv' PROVE PrunedSince'
<1>1. ClusterTypeOK /\ SchedulerTypeOK /\ CacheTypeOK
  BY DEF Inv, SchedulerInv, PromiseInv, TypeInv
<1>2. "cache-cleanup" \in Jobs /\ \A g \in up : g \in Gateways
  BY <1>1 DEF Jobs, ClusterTypeOK
(* A replica whose timer, health and rows stay keeps what it had.          *)
<1>3. ASSUME NEW g \in up, healthy'[g] = healthy[g],
             plan'[g]["cache-cleanup"] = plan[g]["cache-cleanup"],
             \A q \in Questions : row'[q] # Nothing => row'[q] = row[q] \/ row'[q].until >= clock,
             healthy'[g] < LastTurn(g)',
             NEW q \in Questions, row'[q] # Nothing
      PROVE  row'[q].until >= LastTurn(g)'
  <2>1. LastTurn(g)' = LastTurn(g) /\ LastTurn(g) \in Int /\ LastTurn(g) <= clock /\ clock \in Int
    BY <1>3, LastTurnType DEF LastTurn
  <2>2. CASE row'[q] = row[q]
    BY <1>3, <2>1, <2>2 DEF PrunedSince
  <2>3. CASE row'[q].until >= clock
    <3>1. row'[q].until \in Int
      BY EntryType DEF Inv, PromiseInv, TypeInv, CacheTypeOK
    <3> QED  BY <2>1, <2>3, <3>1
  <2> QED  BY <1>3, <2>2, <2>3
(* One that has just started or failed owes nothing yet.                   *)
<1>4. ASSUME NEW g \in up', healthy'[g] = clock, clock' = clock
      PROVE  ~(healthy'[g] < LastTurn(g)')
  <2>1. clock \in Int /\ LastTurn(g)' \in Int /\ LastTurn(g)' <= clock'
    BY <1>1, ClockType, LastTurnNext
  <2> QED  BY <1>4, <2>1
<1>5. CASE Serving
  <2>1. UNCHANGED <<plan, healthy, up>>
    BY <1>1, <1>5, CacheStepKeeps DEF Serving, schedule, Inv
  <2>2. \A q \in Questions : row'[q] # Nothing => row'[q] = row[q] \/ row'[q].until >= clock
    BY <1>5, RowSteps DEF Serving
  <2> QED  BY <1>3, <2>1, <2>2 DEF PrunedSince
<1>6. CASE Tick
  <2>1. UNCHANGED <<plan, healthy, up, row>>
    BY <1>6 DEF Tick, SchedulerTick, TimePasses, CacheTick
  <2> QED  BY <1>3, <2>1 DEF PrunedSince
<1>7. ASSUME NEW h \in Gateways, Start(h) PROVE PrunedSince'
  <2>1. /\ UNCHANGED <<clock, row>> /\ up' = up \cup {h} /\ healthy'[h] = clock
        /\ \A g \in Gateways : g # h => healthy'[g] = healthy[g] /\ plan'[g] = plan[g]
    BY <1>1, <1>7 DEF Start, Up, StartAll, CacheRests, caches, SchedulerTypeOK
  <2>2. ASSUME NEW g \in up', healthy'[g] < LastTurn(g)', NEW q \in Questions, row'[q] # Nothing
        PROVE  row'[q].until >= LastTurn(g)'
    <3>1. g # h /\ g \in up
      BY <1>4, <2>1, <2>2
    <3> QED  BY <1>2, <1>3, <2>1, <2>2, <3>1
  <2> QED  BY <2>2 DEF PrunedSince
<1>8. ASSUME NEW h \in Gateways, Stop(h) PROVE PrunedSince'
  <2>1. /\ UNCHANGED <<clock, row>> /\ up' = up \ {h}
        /\ \A g \in Gateways : g # h => healthy'[g] = healthy[g] /\ plan'[g] = plan[g]
    BY <1>1, <1>8 DEF Stop, Down, StopAll, Stopped, caches, SchedulerTypeOK
  <2>2. ASSUME NEW g \in up', healthy'[g] < LastTurn(g)', NEW q \in Questions, row'[q] # Nothing
        PROVE  row'[q].until >= LastTurn(g)'
    <3>1. g # h /\ g \in up
      BY <2>1, <2>2
    <3> QED  BY <1>2, <1>3, <2>1, <2>2, <3>1
  <2> QED  BY <2>2 DEF PrunedSince
<1>9. ASSUME NEW h \in Gateways, NEW job \in Jobs, Run(h, job) PROVE PrunedSince'
  <2>1. UNCHANGED <<clock, up, healthy>> /\ Replanned(h, job)
    BY <1>9 DEF Run, RunJob, cluster
  <2>2. CASE job = "cache-cleanup"
    <3>1. \A q \in Questions : row'[q] # Nothing => row'[q].until >= clock
      <4>1. \A q \in Questions : row'[q] = IF row[q].until < clock THEN Nothing ELSE row[q]
        BY <1>9, <2>2 DEF Run, cleanupExpiredCache
      <4>2. clock \in Int /\ \A q \in Questions : row[q].until \in Int
        BY <1>1, ClockType, EntryType DEF CacheTypeOK
      <4> QED  BY <4>1, <4>2
    <3>2. ASSUME NEW g \in up', NEW q \in Questions, row'[q] # Nothing
          PROVE  row'[q].until >= LastTurn(g)'
      <4>1. LastTurn(g)' \in Int /\ LastTurn(g)' <= clock' /\ clock' \in Int
        BY LastTurnNext
      <4>2. row'[q].until \in Int
        BY EntryType DEF Inv, PromiseInv, TypeInv, CacheTypeOK
      <4> QED  BY <2>1, <3>1, <3>2, <4>1, <4>2
    <3> QED  BY <3>2 DEF PrunedSince
  <2>3. CASE job # "cache-cleanup"
    <3>1. UNCHANGED row
      BY <1>9, <2>3 DEF Run, CacheRests, caches
    <3>2. \A g \in Gateways : plan'[g]["cache-cleanup"] = plan[g]["cache-cleanup"]
      BY <1>1, <1>2, <2>1, <2>3, ReplanType
    <3> QED  BY <1>2, <1>3, <2>1, <3>1, <3>2 DEF PrunedSince
  <2> QED  BY <2>2, <2>3
<1>10. ASSUME NEW h \in Gateways, NEW job \in Jobs, Fail(h, job) PROVE PrunedSince'
  <2>1. UNCHANGED <<clock, up, row>> /\ Replanned(h, job) /\ healthy' = [healthy EXCEPT ![h] = clock]
    BY <1>10 DEF Fail, FailJob, CacheRests, caches
  <2>2. \A g \in Gateways : g # h =>
          healthy'[g] = healthy[g] /\ plan'[g]["cache-cleanup"] = plan[g]["cache-cleanup"]
    BY <1>1, <1>2, <2>1, ReplanType DEF SchedulerTypeOK
  <2>3. healthy'[h] = clock
    BY <1>1, <2>1 DEF SchedulerTypeOK
  <2>4. ASSUME NEW g \in up', healthy'[g] < LastTurn(g)', NEW q \in Questions, row'[q] # Nothing
        PROVE  row'[q].until >= LastTurn(g)'
    <3>1. g # h /\ g \in up
      BY <1>4, <2>1, <2>3, <2>4
    <3> QED  BY <1>2, <1>3, <2>1, <2>2, <2>4, <3>1
  <2> QED  BY <2>4 DEF PrunedSince
<1> QED  BY <1>5, <1>6, <1>7, <1>8, <1>9, <1>10 DEF Next

LEMMA PrunedSinceStutter ==
  ASSUME PrunedSince, UNCHANGED vars PROVE PrunedSince'
<1>1. UNCHANGED <<up, plan, healthy, row>>
  BY DEF vars, cluster, schedule, cache, caches
<1> QED  BY <1>1 DEF PrunedSince, LastTurn

LEMMA PrunedEnough ==
  ASSUME Inv, PrunedSince PROVE RowsPruned
<1>1. ASSUME NEW g \in up, healthy[g] < clock - Period["cache-cleanup"],
             NEW q \in Questions, row[q] # Nothing
      PROVE  row[q].until >= clock - Period["cache-cleanup"]
  <2>1. /\ g \in Gateways /\ clock \in Int /\ LastTurn(g) \in Int
        /\ clock - Period["cache-cleanup"] <= LastTurn(g)
    BY LastTurnType
  <2>2. healthy[g] \in Int /\ row[q].until \in Int /\ Period["cache-cleanup"] \in Int
    BY <2>1, EntryType, SchedulerAssumption
    DEF Inv, SchedulerInv, SchedulerTypeOK, PromiseInv, TypeInv, CacheTypeOK, Jobs
  <2>3. healthy[g] < LastTurn(g)
    BY <1>1, <2>1, <2>2
  <2>4. row[q].until >= LastTurn(g)
    BY <1>1, <2>3 DEF PrunedSince
  <2> QED  BY <2>1, <2>2, <2>4
<1> QED  BY <1>1 DEF RowsPruned

(* No row outlives its end by more than an hour under a replica that runs  *)
(* and whose jobs do not fail.                                             *)
THEOREM RowsArePruned == Spec => []RowsPruned
<1>1. Init => PrunedSince
  BY DEF Init, CacheInit, PrunedSince
<1>2. Inv /\ Inv' /\ PrunedSince /\ [Next]_vars => PrunedSince'
  BY PrunedSinceStep, PrunedSinceStutter
<1>3. Inv /\ PrunedSince => RowsPruned
  BY PrunedEnough
<1> QED  BY <1>1, <1>2, <1>3, Invariance, PTL DEF Spec

=============================================================================
