-------------------------- MODULE CacheMaintenance --------------------------
(***************************************************************************)
(* The replicas with their request handlers and background jobs over the   *)
(* response caches.                                                        *)
(***************************************************************************)
EXTENDS Scheduler, ResponseCache

(* No row is written that has already expired.                             *)
ASSUME ClocksAssumption == \A ttl \in TTLs : Skew <= ttl

vars == <<cluster, schedule, cache>>

TypeOK == ClusterTypeOK /\ SchedulerTypeOK /\ CacheTypeOK

Init == ClusterInit /\ SchedulerInit /\ CacheInit

Start(g) == Up(g) /\ StartAll(g) /\ CacheRests
Stop(g) == Down(g) /\ StopAll(g) /\ Stopped(g)

Serving == CacheStep /\ UNCHANGED schedule

Run(g, job) ==
  /\ RunJob(g, job)
  /\ IF job = "cache-cleanup" THEN cleanupExpiredCache ELSE CacheRests
  /\ UNCHANGED cluster

Fail(g, job) == FailJob(g, job) /\ CacheRests /\ UNCHANGED <<clock, up>>

Tick == TimePasses /\ SchedulerTick /\ CacheTick

Next ==
  \/ Serving \/ Tick
  \/ \E g \in Gateways :
       \/ Start(g) \/ Stop(g)
       \/ \E job \in Jobs : Run(g, job) \/ Fail(g, job)

Spec == Init /\ [][Next]_vars

-----------------------------------------------------------------------------
(* No row of exact_cache is left more than an hour after it expired by a   *)
(* replica that has run for longer than that without a failed job, however *)
(* often rows are prolonged and replicas restart (scheduler.go:47,         *)
(* cache_cleanup.go:13).                                                   *)
RowsPruned ==
  \A g \in up : healthy[g] < clock - Period["cache-cleanup"] =>
    \A q \in Questions : row[q] # Nothing => row[q].until >= clock - Period["cache-cleanup"]

=============================================================================
