----------------------------- MODULE Scheduler -----------------------------
(***************************************************************************)
(* The background jobs.  Every replica runs all of them on its own timers  *)
(* and its own clock; nothing coordinates the replicas and nothing is      *)
(* remembered over a restart.                                              *)
(*                                                                         *)
(* A job runs at the times Offset + k * Period of its calendar.  Calendar  *)
(* months are of equal length here.  A job's five to fifteen minutes are   *)
(* short against the hour: it ends in the tick it starts in.               *)
(***************************************************************************)
EXTENDS Cluster

CONSTANTS
  Period,      \* job -> the time from one run to the next
  Offset       \* job -> the time of day, week or month it runs at

(* What StartAll starts, without the hourly reconciliation, which changes  *)
(* nothing and is CustomerLimits'.                                         *)
Jobs == {"cache-cleanup", "semantic-cache-cleanup", "log-cleanup", "spend-reset"}
Month == Period["spend-reset"]

ASSUME SchedulerAssumption ==
  /\ Period \in [Jobs -> Nat \ {0}] /\ Offset \in [Jobs -> Nat]

VARIABLES
  plan,      \* replica -> job -> when, on the replica's clock, it runs next
  resetAt,   \* projects.spend_reset_at
  owed,      \* 1 if the current month began with a reset to do
  resets,    \* the times spend was set to zero since
  healthy    \* replica -> since when it has run and no job of it has failed

schedule == <<plan, resetAt, owed, resets, healthy>>

(* The first run of a job at t or later.                                   *)
FirstFrom(job, t) == t + ((Offset[job] - t) % Period[job])

(* Month boundaries on Postgres's clock.                                   *)
MonthStart(t) == FirstFrom("spend-reset", t + 1) - Month
NextMonthStart(t) == FirstFrom("spend-reset", t + 1)

SchedulerTypeOK ==
  /\ plan \in [Gateways -> [Jobs -> Int]]
  /\ resetAt \in Int
  /\ owed \in 0 .. 1 /\ resets \in Nat
  /\ healthy \in [Gateways -> 0 .. MaxClock]

(* Timers are set for the times that lie ahead: a replica that starts on   *)
(* the dot has missed it.                                                  *)
Timers(g) == [job \in Jobs |-> FirstFrom(job, Now(g) + 1)]

Owed(t) == IF resetAt <= t THEN 1 ELSE 0

(* spend_reset_at may be overdue: a reset was missed.                      *)
SchedulerInit ==
  /\ plan = [g \in Gateways |-> Timers(g)]
  /\ resetAt \in {MonthStart(0), NextMonthStart(0)}
  /\ owed = Owed(0) /\ resets = 0
  /\ healthy = [g \in Gateways |-> 0]

StartAll(g) ==
  /\ plan' = [plan EXCEPT ![g] = Timers(g)]
  /\ healthy' = [healthy EXCEPT ![g] = clock]
  /\ UNCHANGED <<resetAt, owed, resets>>

(* ctx is cancelled: the timers are gone.                                  *)
StopAll(g) ==
  /\ plan' = [plan EXCEPT ![g] = [job \in Jobs |-> 0]]
  /\ healthy' = [healthy EXCEPT ![g] = 0]
  /\ UNCHANGED <<resetAt, owed, resets>>

Due(g, job) == g \in up /\ plan[g][job] <= Now(g)

(* Mutant: the loop of the daily jobs serves all.                          *)
ReplannedDaily(g, job) ==
  plan' = [plan EXCEPT ![g][job] = FirstFrom("semantic-cache-cleanup", Now(g) + 1)]

(* The ticker's next tick; the next day, week or month, now that the time  *)
(* has passed.                                                             *)
Replanned(g, job) ==
  plan' = [plan EXCEPT ![g][job] = FirstFrom(job, Now(g) + 1)]

(* Mutant: no WHERE.                                                       *)
resetMonthlySpendAlways ==
  /\ resetAt' = NextMonthStart(clock)
  /\ resets' = resets + 1

(* Mutant: WHERE spend_reset_at < NOW(), and the job is on time.           *)
resetMonthlySpendLate ==
  IF resetAt < clock
    THEN resetAt' = NextMonthStart(clock) /\ resets' = resets + 1
    ELSE UNCHANGED <<resetAt, resets>>

(* UPDATE projects ... WHERE spend_reset_at <= NOW()                       *)
resetMonthlySpend ==
  IF resetAt <= clock
    THEN resetAt' = NextMonthStart(clock) /\ resets' = resets + 1
    ELSE UNCHANGED <<resetAt, resets>>

(* The statement of cleanupSemanticCache names a column ttl_seconds and    *)
(* that of cleanupOldLogs a column tier, which the schema does not have:   *)
(* these two fail every time.                                              *)
Rejected == {"semantic-cache-cleanup", "log-cleanup"}

(* A job that runs; what cleanupExpiredCache deletes is ResponseCache's.   *)
RunJob(g, job) ==
  /\ Due(g, job)
  /\ Replanned(g, job)
  /\ IF job = "spend-reset" THEN resetMonthlySpend ELSE UNCHANGED <<resetAt, resets>>
  /\ UNCHANGED <<owed, healthy>>

(* An error is logged and the job waits for its next turn.                 *)
FailJob(g, job) ==
  /\ Due(g, job) /\ job \notin Rejected
  /\ Fault
  /\ Replanned(g, job)
  /\ healthy' = [healthy EXCEPT ![g] = clock]
  /\ UNCHANGED <<resetAt, owed, resets>>

(* Timers are punctual: no time passes while one is due.                   *)
SchedulerTick ==
  /\ \A g \in Gateways, job \in Jobs : ~Due(g, job)
  /\ IF MonthStart(clock + 1) = MonthStart(clock)
       THEN UNCHANGED <<owed, resets>>
       ELSE owed' = Owed(clock + 1) /\ resets' = 0
  /\ UNCHANGED <<plan, resetAt, healthy>>

-----------------------------------------------------------------------------
(* However many replicas run the job, and however early or late their      *)
(* clocks run it, spend is zeroed at most once for every first of a month  *)
(* and never before it, and the next reset is never put off beyond the     *)
(* next first (maintenance.go:67).                                         *)
ResetOncePerMonth ==
  /\ resets <= owed
  /\ resetAt <= NextMonthStart(clock)

(* A replica that has run since before the first of the month without a    *)
(* failed job, and whose clock is not ahead of Postgres's, has seen to the *)
(* reset (scheduler.go:175).  A clock that is ahead runs the job before    *)
(* spend_reset_at, resets nothing, and then waits for a month; a replica   *)
(* that starts after the first does the same.                              *)
ResetInTime ==
  \A g \in up :
    /\ Ahead[g] <= 0
    /\ healthy[g] < MonthStart(clock)
    /\ MonthStart(clock) <= Now(g) /\ ~Due(g, "spend-reset")
    => resetAt > clock

(* README.md:1197: "If the gateway was down on the 1st, the next startup   *)
(* catches up", and README.md:1253 likewise: a replica whose clock agrees  *)
(* with Postgres's and which has run for a while without a failed job      *)
(* leaves no reset overdue, whenever it was started (scheduler.go:175).    *)
CatchesUp ==
  \A g \in up :
    Ahead[g] = 0 /\ healthy[g] < clock /\ ~Due(g, "spend-reset") => resetAt > clock

=============================================================================
