# llm0 in TLA+

A verification project for the llm0 gateway: an OpenAI-compatible HTTP proxy
that authenticates an API key, applies a rate limit, per-customer limits and a
project spend cap, answers from caches or calls an LLM provider with failover,
and books what the answer cost. Paths are relative to the repository (`src/`);
`chat.go` is `internal/gateway/handlers/chat.go`, `client.go` is
`internal/shared/redis/client.go`, and so on.

Contents: [the system](#1-the-system), [modules](#2-modules-and-code),
[runs](#3-runs-bounds-and-what-they-show), [fairness](#4-fairness),
[proofs](#5-what-is-proved), [divergences](#6-where-the-code-and-its-documentation-disagree),
[not modelled](#7-what-is-not-modelled), [plan](#8-plan).

## 1. The system

The gateway is stateless apart from a few in-process caches. Several replicas
may run. All shared state is in Redis (counters, token buckets, cached key
records, cached answers) and in Postgres (projects, keys, tiers, logs, the cold
answer cache). A request is one goroutine, plus goroutines it leaves behind for
what need not finish before the answer.

The order of a request in `ChatCompletions` (chat.go:167-536):

    authenticate -> token bucket -> customer check -> caches -> reserve spend
      -> failover chain -> adjust spend -> fill caches -> answer
      \-> in the background: request log, failover log, customer record

`ChatCompletionsStream` (chat_stream.go:66-545) does the same up to the first
chunk, relays chunks, and does everything after the last one in the background.

| Component | State | Operations | What makes it hard | What makes it correct |
|---|---|---|---|---|
| Project spend cap (`client.go:71,278`, `chat.go:380-461`, `chat_stream.go`) | Redis counter per project and month | reserve the estimate, adjust to the bill, both by one Lua script | concurrent requests, lost replies and resends, fail-open, NOSCRIPT after a restart, late adjustments, shutdown, cap changes | the counter is the sum of what requests booked; the cap holds at every increase; no provider call without a reservation; a refusal costs nothing |
| API key rate limit (`client.go:34,250`) | Redis hash per key: tokens, last refill | one Lua script, with the caller's clock | readings arrive out of order and from skewed clocks; resends; expiry | a burst plus the refill bounds every window; nobody is refused while tokens are left |
| Failover (`internal/gateway/failover`) | the chain and the attempts of one request | derive the chain, try, classify the error, open/prime/close streams | four modes, configurable order, string matching on names and errors, streams that open and then fail | mode respected, the failed origin not asked again, documented triggers fail over, no stream leaked |
| Customer limits (`limiter.go`, `customer_limits.go`, `client.go:95-146,373-585`) | Redis counters per customer, window and slot, and per model and label | check before the call, record after the answer | check and record are apart; record is asynchronous and stops at the first error; windows turn in between | the overshoot is bounded by the requests in between; windows agree with each other; nothing recorded out of order |
| Limit resolution and tier cache (`resolver.go`, `customer_tiers*.go`, `customer_limits_cache.go`) | TTL caches in each replica over Postgres | resolve, upsert, invalidate | a fill that races an invalidation; replicas do not see each other's invalidations | a limit set by the admin API is eventually the one applied, within a TTL |
| API key authentication (`validator.go`, `middleware.go`) | Redis record per key over Postgres | look up, fill, invalidate | `InvalidateCache` has no caller; a fill races a revocation | a revoked key stops working within the TTL |
| Response caches (`exact_cache.go`, `semantic_cache.go`) | Redis over Postgres; embeddings in Postgres | get, set, warm Redis from Postgres, count hits | asynchronous fills, TTL restarted by warming, a row that keeps its first answer, keys after failover, an object shared with the handler | an answer is only given to the question it was stored for or to an akin one, and only for a bounded time |
| Background workers (`workers/`) | timers of each replica | reconcile spend, reset the month, clean caches and logs | every replica runs every job on its own clock; a run missed while the process is down is not made up for | a month is reset once and in time; expired rows go within an hour |
| Cost calculator, providers, streaming helpers, embeddings | price cache; none | price, call, convert, count tokens | floats, formats | arithmetic and conversion |
| Admin API | Postgres rows | CRUD of projects, keys, tiers | caches in front of the rows | covered with the caches |
| Entry point | contexts, servers | start, drain, stop | background goroutines are not awaited | shutdown leaves counters as they are |

Components interact through calls on the request path, and through Redis and
Postgres across requests. The spend cap and the customer limits are joined by the
bill: the handler computes it once and hands it to both. The failover result
decides which model the bill, the caches and the customer record are about.
`PROJECT.json` lists the hazards of each, line by line.

## 2. Modules and code

Every module keeps the code's control (each Redis or provider call is a step of
its own, since other handlers run in between) and abstracts data: a request, a
model or a label is a model value, money is an integer number of micro-dollars,
a clock is a number of ticks. `PROJECT.json` "map" gives the lines of each
definition. `MC*` modules hold values for TLC only.

### SpendCap

The counter `spend:project:<id>:<month>` (`counter`), and each handler's locals
as functions of the request: `pc`, `monthlyCap` (from the key record in its
context), `spendKey` (the month it was formed in), `estimatedCost`,
`actualCost`, and the state of `CheckSpendCap`: `cmd` (EVALSHA or EVAL) and
`tries`.

| Action | Code |
|---|---|
| `Admit`, `CacheHit`, `EnterSpendCheck` | chat.go:167-399: limiters, cache hit, spend key and estimate |
| `Answered` | one atomic run of `spendCheckLuaScript` and the handler's continuation: call the provider, 402, or settled |
| `NoScript` | EVALSHA answered NOSCRIPT; the text is sent (client.go:283) |
| `ReplyLost`, `Unreached` | a read timeout after the script ran; a command that never arrives (dial or pool timeout, cancelled context). go-redis resends up to `REDIS_MAX_RETRIES` times; then `CheckSpendCap` returns `(true, nil)` and the handler goes on |
| `Completed`, `ProviderFailed` | non-streaming: bill and adjustment; all steps failed |
| `FirstChunk`, `StreamDone`, `StreamDropped` | streaming: relay, background adjustment, or an end without adjustment |
| `SetCap`, `NextMonth`, `RedisRestart`, `Crash` | admin change as seen by the next authentication; the calendar; Redis restarted (data kept by its append-only file, script cache lost); gateway stopped |

`net[r]`, `resent` and `failedOpen` are bookkeeping of the model, not of the
code: what the script added for `r`, and which faults `r` met. Two things of a
state the program can be in are wider than usual: a command whose context is
cancelled is treated like any other that does not arrive (it then counts as
resent, which only weakens what is claimed of it), and an unpriceable answer is
billed at its estimate, as in chat.go:448-451. Left out: the reply's
`current_spend`, which goes into the 402's text only, and rounding
(chat.go:452).

### TokenBucket

The hash `ratelimit:key:<KeyID>` (`tokens`, `last_refill`, `expires`) and the
calls in flight. `ReadClock` takes `nowMs` before the command is sent
(client.go:251); `Answered` runs the script; `ReplyLost` runs it and resends or
fails open; `Unreached` does not run it. A replica's clock is up to `MaxSkew`
ahead of the slowest one, and a call lasts at most `MaxDelay` (the Redis
timeouts and the retries); both are parameters of every bound. A
token is `Grain` units, so that the refill of a tick is a whole number; the
script's own fractions are exact in these units. `Mark` is an observer that starts to
count at any time, so an invariant about `granted` since `mark` is a statement
about every window. The EVAL after a NOSCRIPT sends the same arguments once
more and is covered by the resend.

`IdealBucket` is the abstract specification: one bucket, one clock, a level that rises
with each tick and falls with each grant. `KeepsIdeal` says that TokenBucket implements it. What the
code adds, a hash that expires, a reading of somebody's clock, a reply that is lost, shows in one
place only: the size of the bucket is uncertain by `Slack`, which is what flows in during
the delay and the skew. `Level` is the mapping: the stored balance, refilled up to the fastest
clock.

### FailoverChain and Failover

`FailoverChain` has the pure functions: `classifyTier`, `cloudClass`,
`detectProviderForModel` (executor) and `detectProvider` (handler),
`buildCloudChain`, `GetFailoverChain`, `classifyError`, `extractStatusCode`,
`isRetriableError`. A model name is its namespace prefix and the marker words
in it; `Contained` adds the substring that a prefix itself contains. An error is
what its text mentions, whether the status stands in the form the code looks
for, and whether the 60 s of the attempt had passed.

`Failover` is one request: `Begin` computes and cuts the chain (executor.go:62-85),
`AttemptRequest` is one non-streaming attempt, `OpenStream` and `PrimeStream` are
the two halves of `attemptStream` (open; first `Recv`, closing on error),
`EndRelay` is the end of the relay loop with its deferred `Close`, and
`ClientLeaves` may happen at any time and makes later attempts fail as
cancelled, or not, since the provider may have answered. Requests share no
state here, so one request with every configuration as an initial state is the
whole component.

### CustomerLimits

The counters of one customer: `spent[window][slot]`, `count[window][slot]`,
`named[model or label][slot]`. `Snapshot` is the MGET of the five
counters with the cost limits and then the request limits (limiter.go:89-137);
`NoSnapshot` a tier without either; `CheckName` one counter of the model and the
labels; `EndCheck` the per-request maximum and `applyCustomerDowngrade`;
`CheckFails` any error, which lets the request through (chat.go:278).
`Completed` fixes the final model and the bill, then the background record runs
one Redis command a step: `TrackCustomerSpend`, `TrackCustomerRequests`,
`IncrWithTTL` per name; `Command` is what they share: an error after which
go-redis resends or `RecordRequest` returns. `Killed` is shutdown or the five
seconds of the record's context. `keysAt` is the `time.Now()` the keys of a
command were formed with; it may lie in an earlier slot than the execution.

Abstractions: minute, hour, day and month are nested periods of ticks; a slot's
key outlives its slot (TTLs 120 s, 7200 s, 24 h, 31 d against 60 s, 1 h, 1 d, a
month), so expiry shows nowhere; a reply arrives in the tick in which its command ran; a
request's tier is chosen once (`spec`), since the resolver is called once per
request. `persistToDatabase` and `PersistFails` are the goroutine that writes the
analytics rows with a clock reading of its own; `ledger` is what the rows of
`customer_spend` sum up to by date, which is all the reconciliation reads of them.
The `X-Warning` headers are left out. `last`, `lastAt` and `late` are bookkeeping: the last request measured
against its limits, and the requests that were unrecorded at that moment or came by
unmeasured after it.

### ConfigCaches

Where a request's limits come from: one key of one project and one tier slug,
over what Postgres holds (`keyRows`, `tierRows`: the successive rows, each with
the time it began). A cached value is the number of the row it was read from, so
staleness can be stated; the code's caches hold the row itself.

| State, action | Code |
|---|---|
| `record`; `KeyHit`, `KeyMiss`, `SelectKey`, `StoreKey` and their failures | `apikey:<hash>` in Redis; `ValidateAPIKey` (validator.go): GET, SELECT, checks of the two switches, SET with `CACHE_TTL_SECONDS`. No code deletes the record: `InvalidateCache` has no caller |
| `tiers[g]`; `WithoutTier`, `TierHit`, `TierMiss`, `DropExpired`, `LoadTiers`, `LoadTiersFails`, `SetSet` | the entry of the project in `customerTiersCache` of one gateway: `ResolveCustomerLimit`, `GetCustomerTier`, `get` with its delete of an expired set, `loadProjectTiers`, `setSet` |
| `SweepFinds`, `SweepDrops` | `sweepLoop`: `Range` sees the entry, `Delete` comes after |
| `UpsertCustomerTier`, `DeleteCustomerTier`, `Invalidate` | the write and, once it returned, `invalidateProject` on the same gateway |
| `WriteElsewhere` | a tier write this model's gateways do not invalidate for: `scripts/manage_tiers.sh`, another replica's admin API seen from here, a write that was committed but answered with an error |
| `UpdateKeyOrProject`, `SetProjectDefaults`, `ClearProjectDefaults` | admin writes to keys and projects; none touches a cache |
| `Restart`, `Tick` | a gateway is restarted with an empty cache and loses the requests in it; time |

`deadline[r]` is the latest moment for the store that a request has ahead:
`MaxDelay` after its SELECT. For the key record the code has such a bound, the
500 ms context of `middleware.go:55`; a tier load runs in the request's context,
which has no deadline, and for it `MaxDelay` is an assumption, without which no
staleness bound could be given. `seen` and `racing` are
bookkeeping: the newest row a gateway has invalidated for, and the rows that loads
had in hand then. When a handler returns, its locals are set to zero. The
override cache (`customer_limits_cache.go`) follows the same protocol and has no
caller on the request path; it is left out, and so is the slug-level
negative answer, which is part of the set.

### Cluster, Scheduler, ResponseCache and CacheMaintenance

`Cluster` has what replicas share: time (`clock`, that of Postgres and Redis), which
replicas are `up`, how far a replica's own clock is `Ahead`, and the faults so far.

| State, action | Code |
|---|---|
| Scheduler: `plan`; `StartAll`, `StopAll`, `Replanned` | the tickers and timers of one replica (scheduler.go); nothing coordinates replicas and nothing is remembered over a restart |
| `RunJob`, `FailJob`, `resetMonthlySpend` | a job that is due; `UPDATE projects ... WHERE spend_reset_at <= NOW()` (maintenance.go:67). `resetAt` is `spend_reset_at` |
| ResponseCache: `redis`, `row`, `similar` | `cache:exact:<key>` in Redis, the rows of `exact_cache` and of `semantic_cache` |
| `Get`, `getFromDB`, `StoreWarm`, `GetSimilar` | the lookups: Redis, then Postgres, whose answer goes to Redis for an hour, then the nearest live row of the project and target |
| `Set`, `storeInDB`, `storeInDBFails`, `SetSimilar` | what a provider answered is stored under the target that answered: Redis at once, Postgres by a goroutine (`pending`), the semantic row last |
| `Unanswerable`, `Evict`, `Stopped`, `cleanupExpiredCache` | an end without an answer, Redis dropping an answer, a gateway that stops with its goroutines, the hourly DELETE |

`CacheMaintenance` composes them: replicas start and stop (`Start`, `Stop`), their
jobs run or fail (`Run`, `Fail`), their handlers serve (`Serving`), time passes
(`Tick`). The jobs and the handlers meet in `row` and in the clocks.

A question is what the exact key hashes: project, target and messages. Lookups name the
target after the customer's downgrade, stores the one that answered, so after a failover the two
differ. Similarity is a relation on prompts (`Similar`); the code's threshold on
embeddings is one such relation. A job of at most fifteen minutes ends in the tick it
starts in, calendar months are equally long, and timers are punctual. `MaxDelay` bounds the time from a
handler's read to its store; the five seconds of `storeInDB`'s context and the
timeouts of the Redis and embedding clients are such a bound. Hit counts, which only statistics
read, are left out. `owed`, `resets`, `healthy`, `book` and `lent` are bookkeeping:
whether this month began with a reset to do and how often it was done, since when a replica's jobs
have run without an error, the answers providers gave, and what the last step served.

`AnswerBook` is the abstract specification of the two caches: a book of answers, a
requester who is lent one. `KeepsPromise` says that CacheMaintenance implements it.

### Composition

The components meet in the request path, in a fixed order, and share no
variables: SpendCap and CustomerLimits use different Redis keys, Failover is
local to a request, and what ConfigCaches resolves is a constant of the request in the
modules that apply it (`monthlyCap`, `spec`). Each module therefore has the others as a nondeterministic
step: `Admit` and `CacheHit` in SpendCap stand for the limiters and caches,
`Completed` for any outcome of Failover, as does `Set` in ResponseCache, which lets any target
answer; `NotRecorded` in CustomerLimits stands
for all ends without a record. What is lost that way is which model each part
is about.

The proofs have modules of their own: `SpendCapProofs`, `TokenBucketProofs`,
`CustomerLimitsProofs`, `ConfigCachesProofs`, `FailoverProofs`, `ResponseCacheProofs` and
`CacheMaintenanceProofs`, which also has those about Scheduler; `ArithmeticTheorems` has the lemmas on
division and on sums over finite sets.

## 3. Runs, bounds and what they show

| Run | Checks | Bounds |
|---|---|---|
| `SpendCap` | type; `Ledger`, `CapAtIncrease`, `NoOvercommit`, `ReservedBeforeCall`, `RefusedHoldsNothing`, `NegativeOnlyAfterFault`, `NeverOvercharged`, `OvershootBounded`, `SurplusBounded` | two requests, estimates 0 and 3, bills 1 and 4, caps 4 and 6, two months, one retry, two faults |
| `SpendCapLive` | `HandlerEnds` | the same with one cap and three faults, without symmetry |
| `SpendCapReconciled` | violation of `Reconciled` | as needed for the trace |
| `TokenBucket` | type; `WindowBound`, `RefusedOnlyWhenSpent`, and the refinement `KeepsIdeal` | two handlers, limit 3, three ticks a second, delay and skew of one tick, six ticks, one fault |
| `TokenBucketPerMinute` | violation of `PerMinuteRate` | as needed |
| `Failover` | type; `ModeRespected`, `EachProviderOnce`, `OneOpenStream`, `TriggersFailOver`, `CheapStaysCheap` | eight model names, four modes, four orders, with and without Ollama, plain and streaming, nine errors, three attempts |
| `FailoverClass`, `FailoverLastResort` | violation of `FlagshipStaysFlagship`, `OllamaIsLastResort` | one model, the default order |
| `CustomerLimits` | type; `SpendOvershoot`, `CountOvershoot`, `WindowsAgree`, `RecordedInOrder`, `LedgerFollows` | two requests for the big model, which the small one answers after a downgrade or a failover; three tiers, a midnight, one fault |
| `ConfigCaches` | type; `RevocationBound`, `OnlyActiveCached`, `TierStaleness`, `StaleOnlyByRace`, `UnlimitedOnlyIfUncovered` | two requests, one gateway, one write to each table, TTLs of two ticks (key) and one (tiers), a delay of one, three ticks, one fault; the project has no default limits at first and knows the tier |
| `CacheMaintenance` | type; `ResetOncePerMonth`, `ResetInTime`, `RowsPruned`, and the refinement `KeepsPromise` | two replicas, the second one's clock one tick ahead; two handlers on the second; one project, two targets, one question to each; TTLs of one tick; jobs every 1, 4, 8 and 6 ticks; four ticks, two answers, one fault |
| `SchedulerCatchUp` | violation of `CatchesUp` | the same without faults |

Why the bounds are enough. Requests interact only through counters that are
added to one at a time, so a disagreement needs one request that is past
a check and another that passes it: two. One retry is the code's default
(config.go:149); two faults let one request meet a resend and a fail-open,
or a Redis restart and a lost reply. The amounts are chosen so that one
reservation fits the cap and two do not, that a bill can be below, equal to and
above its estimate, and that an adjustment can be refused; the estimate 0 is a local model's.
Two months let an adjustment run in another month than its reservation. In the
token bucket the clock bound covers a full burst, a refill of more than the
capacity and the expiry of the hash (5 ticks); delay and skew of one tick each let two
readings arrive in the opposite order. In the customer limits one tick of time
turns every window but the month, and the tiers between them have every kind of
limit: day and month spend, minute and hour counts, per request, per model, per
label. In the caches, staleness needs a load, a write and a store in the worst order,
and then a whole TTL: three ticks; a second request lets two stores overtake each
other. A second gateway adds nothing that `WriteElsewhere` does not, since
gateways share only Postgres and the key record; and the proofs are for any number.
In the response caches a failover, a second answer to the same question, a warming
and an expiry need two targets, two answers and TTLs of a tick; the month turns at tick 3,
once with a reset that is due and once with one that was missed. The first replica has only its
jobs, so that a job of one and a handler of the other meet at the row. `MaxDelay` is 0 there, one prompt
is similar only to itself and one project is in play: with a delay of one, a second project or a second
fault the run takes longer than is of use (1.1 million states in two minutes as it is), and
the proofs of section 5 hold for all of them.
Deadlock is not checked where the system may stop: when every request of the
bounded set has ended. Symmetry is used in safety runs only; requests and handlers
differ in nothing but their names.

What the properties say of the code:

* `Ledger`: the books are straight per month, although an adjustment may run in
  a later month than its reservation. The key is formed once (chat.go:382).
* `CapAtIncrease`: the cap holds at the moment of every increase, whatever is
  resent; the script compares what the counter would become.
* `NoOvercommit`, `ReservedBeforeCall`: concurrent requests cannot spend the same
  money twice, because the estimate is in the counter before a provider is
  called, and what is in the counter together fits the cap of one of them, although
  caps may differ between requests. A failed-open reservation is the exception, by design.
* `NegativeOnlyAfterFault`: the exception has a price. A request that failed
  open and whose refund is booked later takes out of the counter
  what it never put in; likewise a refund that is sent twice.
* `NeverOvercharged`, `OvershootBounded`: with a healthy Redis and one cap the
  refund of a cheaper answer is never refused. The surcharge of a costlier one may be,
  and the cap is then exceeded by that shortfall and no more.
* `SurplusBounded`: a reservation whose provider call failed is never given back, nor is that
  of a stream that broke off or of a handler that was stopped, and the counter stays ahead of the
  money spent. It is ahead by those estimates and those in flight, and by nothing that a
  settled request has left.
* `WindowBound`: reading the clock before the call is harmless up to skew and
  delay: an older reading lowers the balance by what a newer one will give back.
* `RefusedOnlyWhenSpent`: the same in the other direction. Refused calls
  rewrite the hash and cost nobody a token.
* `KeepsIdeal`: both together, and step by step: a grant takes exactly one token out of the
  ideal bucket, a refusal, an expiry or a reading out of order takes nothing, and every tick
  flows in. Only what lay above the capacity may be lost.
* `ModeRespected`, `TriggersFailOver`, `CheapStaysCheap`: the
  documented routing rules, for every configuration, although three functions with three
  ideas of a model's provider take part in them.
* `EachProviderOnce`: the origin that failed is not asked again, nor is Ollama. Another cloud
  provider that the configured order repeats is, because `buildCloudChain` does not look for
  repetitions: at most as often as the order names it.
* `OneOpenStream`: every stream that a provider opened is closed on every path.
* `SpendOvershoot`, `CountOvershoot`: a customer's limits are not hard. They can
  be exceeded by what the requests in between check and record add; the property
  says by how much exactly. The last request's bill counts only by
  what it exceeds its estimate.
* `RevocationBound`: a revoked key, a suspended project, a lowered cap or rate
  limit counts at the latest `KeyTTL + MaxDelay` later, although a slow lookup may
  overwrite a newer record with an older one, and a resent SET may do so again.
* `OnlyActiveCached`: an inactive key is never cached, so reactivating it works
  at once, while revoking does not; the `IsActive` check on a hit (validator.go:48-55)
  never refuses anyone.
* `TierStaleness`, `StaleOnlyByRace`: a tier set is at most `TierTTL + MaxDelay`
  out of date on any gateway. On the gateway that made the change it is out of
  date for one reason only: a request that was between load and store at the
  invalidation put its older set back.
* `UnlimitedOnlyIfUncovered`: a customer loses all limits only if the row its key
  was authenticated with had no defaults and a recent tier table did not know its tier.
  The two are read at different times from different caches, so a customer that
  Postgres covered all along (default first, tier later) may still be
  unlimited for a while: the property says how long.
* `WindowsAgree`: errors, resends and midnights cannot make a month disagree with its days, a day with
  its hours or an hour with its minutes, slot by slot.
* `RecordedInOrder`: nor can they leave a request counted whose spend is missing, or in a name's
  counter without being counted; without faults each is in each counter exactly once.

* `LedgerFollows`: whatever is lost or late, Postgres never has more of a customer's
  spend up to a day than Redis has, and without faults nothing is missing once the
  records are through. A single day may have more, when a record crosses midnight,
  and a difference that the reconciliation logs (reconciliation.go:95) may be just late.
* `KeepsPromise`: what comes out of a cache was given by a provider to the asker's
  project and from the target it asked for. The exact cache returns an answer to
  these messages, but not the last one and of no bounded age: a row keeps the answer it
  was created with and each new answer prolongs its life, so what is bounded is the
  time since the question was last answered: `Lease`, the row's TTL plus the hour of
  a warming at its end, plus delay and skew. The semantic cache returns an answer to a similar last user message,
  whatever came before it in the conversation, and that one is at most `Youth` old.
* `RowsPruned`: prolonging, cleaning and restarting may race as they like: a replica
  whose cleanup has run leaves no row that expired more than an hour ago.
* `ResetOncePerMonth`: every replica runs the reset, and the month is reset once; the
  WHERE clause makes the job idempotent, on any clocks.
* `ResetInTime`: it is reset in time if one replica was up before the first of the
  month, its job did not fail and its clock is not ahead of Postgres's. All three
  conditions are needed: a clock that is ahead runs the job before
  `spend_reset_at`, changes nothing and then waits a month; so does a replica that starts on the
  first, against what the documentation says (`CatchesUp`, section 6).

## 4. Fairness

Only `HandlerEnds` needs it. `SpendCap` asks weak fairness of each handler's
timed steps: Redis commands have dial, read, write and pool timeouts
(client.go:155-164, 100-500 ms) and a bounded number of tries, and a
non-streaming attempt has 60 s (executor.go:170). So a handler that is at
such a step takes some outcome of it. Nothing is asked of a stream that waits
for its provider: `attemptStream` runs under the client's own context without a
deadline, and `HandlerEnds` accepts a stream that is still there. Nothing is asked of
admission, of the calendar, of faults or of the administrator. The faults are bounded, as a
liveness statement of this kind needs: against a Redis that fails for ever the handler
ends as well, by failing open, and that is covered by the faults exceeding the tries.
No other module has fairness. That jobs run is not asked as fairness but as punctuality: time does
not pass a timer that is due (`SchedulerTick`), and what must happen by a certain time
(`ResetInTime`, `RowsPruned`) is an invariant.

## 5. What is proved

The theorems are checked by TLAPS and
hold for every value of the constants that the modules' assumptions allow: any
number of requests, handlers and gateways, any costs, caps, limits, times to live,
calendars, clocks, provider orders, retries and faults.

| Theorem | States | Argument |
|---|---|---|
| `SpendCapProofs!TypeCorrect` | `TypeOK` | inductive by itself; one case per action |
| `SpendCapProofs!CapHolds` | `CapAtIncrease` | only `Book` moves a counter (`OnlyBookMovesCounters`), and it moves it up only below the cap of the request whose key it is (`BookRespectsCap`) |
| `SpendCapProofs!CallIsReserved`, `RefusalIsFree`, `DebitNeedsFault` | `ReservedBeforeCall`, `RefusedHoldsNothing`, `NegativeOnlyAfterFault` | the invariant `BooksInv` |
| `SpendCapProofs!RefundNeverRefused` | `NeverOvercharged` | the invariant `CalmInv` |
| `SpendCapProofs!BooksBalance` | `Ledger` | one step changes one summand and its counter by the same amount (`BookLedger`) |
| `SpendCapProofs!NobodyOvercommits` | `NoOvercommit` | `Ledger` and the invariant `Commitments` |
| `SpendCapProofs!CapIsNearlyHard` | `OvershootBounded` | `Ledger`, and that without faults nobody's bookings are negative (`Unharmed`, `PartOfTheBooks`) |
| `SpendCapProofs!SurplusIsBounded` | `SurplusBounded` | `Ledger`, and `CalmInv` for each request's part of it |
| `TokenBucketProofs!BucketType`, `WindowBounded` | `TypeOK`, `WindowBound` | the invariant `BucketInv` |
| `TokenBucketProofs!RefusalIsEarned` | `RefusedOnlyWhenSpent` | the invariant `RefillInv` beside it |
| `TokenBucketProofs!ScriptIsIdeal` | `KeepsIdeal`: TokenBucket implements IdealBucket | `IdealInv`; every step is a step of IdealBucket (`StepIsIdeal`), an execution a grant or a refusal (`RunIdeal`), a tick an inflow (`TickFlows`) |
| `CustomerLimitsProofs!CustomerType` | `TypeOK` | the invariant `TypeInv`: no request goes to its provider with a counter left to read |
| `CustomerLimitsProofs!SpendOvershootBounded`, `CountOvershootBounded` | `SpendOvershoot`, `CountOvershoot` | with `LateInv` each step keeps them |
| `CustomerLimitsProofs!WindowsAlwaysAgree` | `WindowsAgree` | one command adds the same amount to an inner slot and to the outer one that it begins in (`NestedDiv`) |
| `CustomerLimitsProofs!RecordsInOrder` | `RecordedInOrder` | each of its parts by itself: a step that adds a request to a set has added its amount to the counter |
| `CustomerLimitsProofs!LedgerAlwaysFollows` | `LedgerFollows` | the invariant `LedgerInv` |
| `ConfigCachesProofs!TypeCorrect` | `TypeOK` | inductive by itself |
| `ConfigCachesProofs!RevocationIsBounded`, `ActiveIsCached`, `TiersAreRecent`, `StaleByRaceOnly`, `UnlimitedIsUncovered` | `RevocationBound`, `OnlyActiveCached`, `TierStaleness`, `StaleOnlyByRace`, `UnlimitedOnlyIfUncovered` | the invariant `IInv` |
| `FailoverProofs!Invariance`, `TypeCorrect`, `ModesAreRespected`, `ProvidersTriedOnce`, `StreamsAreClosed`, `TriggersDoFailOver`, `CheapModelsStayCheap` | `TypeOK`, `ModeRespected`, `EachProviderOnce`, `OneOpenStream`, `TriggersFailOver`, `CheapStaysCheap` | the invariant `Inv` of FailoverProofs |
| `CacheMaintenanceProofs!Invariance`, `TypeCorrect` | `TypeOK` | the invariant `Inv`, its two halves below |
| `CacheMaintenanceProofs!ResetsAreSingle`, `ResetsAreTimely` | `ResetOncePerMonth`, `ResetInTime` | the invariant `SchedulerInv` |
| `CacheMaintenanceProofs!CachesKeepThePromise` | `KeepsPromise`: CacheMaintenance implements AnswerBook | the invariant `PromiseInv`; every step is a step of AnswerBook or changes nothing of it |
| `CacheMaintenanceProofs!RowsArePruned` | `RowsPruned` | `PrunedSince`: since a replica's last good cleanup no row is older than that; `Punctual` says when it was |

`BooksInv`. None of the three properties is inductive: whether a request in
front of its provider is reserved depends on what was booked while it was
reserving, with or without a resend. `BookedAt(r)` therefore says for every control
point what has been booked for `r` there, and which faults it has met. A
handler's step changes only its own books (`OthersUntouched`).

`CalmInv`. That a refund is never refused needs the counter to be below the cap
before it, that is, for as long as Redis has been healthy and all admitted
requests had one cap; and it must hold for a request that is admitted later.
The second conjunct (all idle: all counters zero) starts the first request.
`CalmBefore` shows that a calm state has a calm predecessor.

`Commitments`. That the estimates at the providers fit the cap of one of these requests is not
inductive: the one whose cap they fit may leave first, and the cap of those who stay may be
lower. `Commitments` says it of every subset of them. A new reservation is the one for every subset
it is in, since the script compared its cap with a counter that holds all of their estimates
(`EstimatesInside`, `NewlyReserved`).

`BucketInv`. `WindowBound` speaks of what was handed out, the script only of a
balance. `Paid` says that tokens handed out since the mark and those left were paid for by
the refill up to `last_refill`, whichever way `last_refill` moved. When the hash
expires that knowledge is lost with it and the bucket is full again;
`PaidByExpiry` keeps what follows from the time of expiry alone, and
`TTLAssumption` (the TTL is at least a second, the skew and the delay; it is 900 s) makes
it enough. `TimesMonotone` is the one fact of
multiplication that the solver must be told.

`RefillInv`, `IdealInv`. The lower bound is the same account read from the other side: `Lags` says
that by the fastest clock the balance is never in debt, which is what an observer who starts
to count finds, and `Accounted` that what has flowed in since the mark, or what is missing from a
full bucket, was granted; which of the two holds depends on whether the balance met its cap, and
time only weakens the second. For the refinement, `Backed` says that the hash lives long enough
after its last use for the ideal bucket to be full when it goes away.

`LateInv`. The overshoot is charged to the requests in `late`, so whoever may still add to a
counter must be among them, at whatever control point it is. A measured request resets `late`, and
the cap then holds by its own check; each later record adds its bill to both sides.

`LedgerInv`. That Postgres is behind up to every day does not follow from itself: the row
is written for a later day than the charge. `Ahead` says that Redis exceeds the
ledger by the bills on their way, `NothingAhead` that the slots after today are empty, so that
up to today means in all; the two together are what a row that is written needs. `Settled` is the equality
without faults.

`IInv` (ConfigCachesProofs). The properties speak of what is cached at this
moment; a stale row gets there from a request that read it long ago. `KeyLoads`
and `TierLoads` therefore bound the age of a row in hand by its deadline, `CachedKey`
and `CachedTiers` that of a cached one by its expiry, neither of which moves with the
clock, and `Races` says which of the rows in hand an invalidation has missed.
A write makes the row it replaces stale from now on, and no deadline or
expiry reaches so far back that this would matter (`CurrentAppend`). The action property
follows from the same invariant: `RequestFrame` singles out the three steps that resolve.

Sums. `Ledger` and its consequences speak of sums over any finite set of requests.
The library defines them by a fold in the order of `CHOOSE`, and its induction theorems take
operators. `ArithmeticTheorems` goes by a minimal counterexample instead
(`MinimalSubset`): from a set of subsets for which a claim fails, a smallest one is taken,
and it fails to be one. That gives the lemmas on adding, removing and changing a summand.

`Inv` (FailoverProofs). `ChainInv` says that the steps are the chain of the request's
model cut to the attempts, and that the attempts are a beginning of it; `StreamInv` which stream
is open at each control point; `EndInv` what the last error was. What a chain contains
is a fact about operators: `ListedGood` says, by a minimal counterexample again, that the
loop over the configured order takes each provider it keeps from a place of its own in the
order, `StepsGood` that a chain respects its mode, has its origin once, and asks every other cloud
from different places of the order (`Places`).

`SchedulerInv`. The two properties speak of a month, the timers of a replica's own
clock. `Punctual` keeps every timer between now and the next period;
`ResetsKept` says that an overdue reset is that of the current month; and
`ResetsPlanned` that a replica whose clock is not ahead has its timer within the month
on Postgres's clock. `FirstFromMonotone` and `OnePeriod` are the arithmetic of calendars.

`PromiseInv`. An answer in Redis is served long after the row it was copied from
may be gone, so every copy on the way (`redis`, `row`, `similar`, what a handler has in hand, what
a goroutine is about to write) carries its own part of the lease (`Kept`,
`AliveTo`). `ClocksAssumption` is needed: a replica whose clock is behind by more than a TTL writes
rows that are already expired, and `RowsPruned` would fail of them.

Assumptions: `MoneyAssumption` (amounts are natural numbers; there is a cap),
`BoundAssumption`, `RateAssumption` (a key has a positive limit),
`TTLAssumption`, `ConfigAssumption` (times to live are positive; a TTL of 0 would mean
for ever, and no bound would hold), `RequestsAssumption` (finitely many requests),
`AttemptsAssumption` and `OrdersAssumption` (at least one attempt; an order is a
sequence of strings), `CustomerAssumption` and `SpecsAssumption` (amounts are natural numbers, a
tier's limits are numbers, and it limits requests in windows that are counted; a window has a
length), `NestedAssumption` (a minute lies in one hour, an hour in one day, a day in one
month: true of the clock's fields that the keys are made of, stated with periods of equal
length), `ClusterAssumption`, `SchedulerAssumption` and `CacheAssumption` (the types of the
constants), `ClocksAssumption` (clocks are apart by at most a TTL). TLC evaluates them in every run.

Only model-checked: `HandlerEnds`, which is liveness under fairness, out of TLAPS's reach like
ENABLED. Every safety property that a run checks has a theorem. Induction over data is out of reach
as well, and so is anything about a RECURSIVE operator: the modules have none, and sums go by the
minimal counterexample above.

## 6. Where the code and its documentation disagree

Five runs are violations of a sentence the repository writes about the program:

1. `SpendCapReconciled`. The adjustment goes through the same script as the
   reservation, which refuses an increase above the cap, and chat.go:457 ignores
   the refusal. README.md:1280 says the difference is reconciled.
2. `TokenBucketPerMinute`. The limit per minute is refilled every second
   (client.go:48 against chat.go:224 and README.md:229).
3. `FailoverClass`. "gemini" contains "mini", so `gemini-2.5-pro` is classed as
   cheap (chains.go:36 against README.md:946, 959).
4. `FailoverLastResort`. Three attempts against a four-step default chain: the
   last-resort local model is never reached (executor.go:83 against
   README.md:138, 954).
5. `SchedulerCatchUp`. A missed monthly reset is not caught up at the next startup: when this
   month's minute is past, the timer is set for the next month and nothing runs the job at start
   (scheduler.go:175 against README.md:268, 1197, 1253).

Observations met while modelling that no run is about:

* `on_limit_behavior: warn` is not implemented: it blocks; and request limits block under
  every behaviour (limiter.go:198, 240 against README.md:248-251, customer_limits.go:22).
* `detectProvider` knows `chatgpt-`, `o1`, `o3` and `o4` names, the executor's
  `detectProviderForModel` does not, so such a request gets no cloud chain: in
  `cloud_only` mode it has no step at all and fails with 500.
* `extractStatusCode` looks for "status 400"; a text of another form, such as
  "status code: 400", yields no status, and the error counts as retriable.
* A lowered cap makes the script refuse refunds as well, since what would be
  left may still exceed it. `NeverOvercharged` says so with `OneCap`.
* An estimate of 0 (Ollama) still goes through the spend check; above a lowered
  cap it is answered 402.
* A chain without steps makes `failover_count` -1 (chat.go:423).
* `X-RateLimit-Reset` is a number of seconds.
* The model limit is checked for the requested model and counted for the final
  one; downgrade and failover go past the final model's limit.
* A customer's downgrade on the daily cap skips the monthly one (limiter.go:193-197).
* docker-compose.yml runs Redis with `allkeys-lru`, which may evict counters.
* README.md:1210 and scripts/manage_limits.sh:133 say that a changed cap or rate limit
  takes effect immediately. The key record carries both and is not invalidated:
  it takes up to `CACHE_TTL_SECONDS`, an hour by default, as README.md:876 says.
* A tier write is "visible immediately on this instance" (customer_tiers.go:101-102,
  customer_tiers_cache.go:22-23) and a customer of a deleted tier falls to the
  default "on their next request" (tiers.go:128-130), except for the race of
  `StaleOnlyByRace`.
* A tier table that cannot be loaded lets the request through without limits,
  even when the project has defaults.
* PATCH of a key updates the row before it compares the key's project with the one in
  the path, and then answers 404 (api_keys.go of the admin handlers, 81-83 and 102-103).
* A row of `exact_cache` keeps its first answer: `ON CONFLICT DO UPDATE` of
  `storeInDB` sets hits and expiry, not `cached_response`. After Redis has dropped the
  newer answer the older one is served again, and is warmed into Redis for an hour.
* exact_cache.go:90-96 says that "the next hit will reconstruct the DB row via Set()"; a hit
  never calls `Set`.
* The semantic cache's key hashes the last user message only and is unique over all projects,
  providers and models: the first one to ask has the row, the others' conflict only
  counts, and they get no entry. README.md:169 speaks of the first user message. The projects'
  `semantic_threshold` is not used; the threshold is 0.95 and the TTL an hour (chat.go:91-96).
* `cleanupSemanticCache` names a column `ttl_seconds` and `cleanupOldLogs` a column `tier`, which the
  schema does not have: both fail every time, against README.md:270 and 1236-1244. An expired row of
  `semantic_cache` thus keeps its prompt out of the cache for good.
* `Set` marshals the answer in a goroutine (exact_cache.go:107) while the handler may still write
  `LatencyMs` and `CostUSD` into it; the stored copy may carry either value.
* The background context is cancelled before HTTP requests are drained (main.go:150-170), and
  `DISABLE_BACKGROUND_WORKERS` leaves a deployment without cleanup and reset if every
  replica sets it.
* `persistToDatabase` writes NULL for the hour, so the unique key never conflicts: each request has its
  own row. The sums are right.
* reconciliation.go takes yesterday's date in UTC, the keys are formed with the
  local time.

## 7. What is not modelled

* Cost calculator, providers, streaming helpers, embeddings: arithmetic,
  conversion and I/O. Their results are inputs of the modules.
* Health and model lists, configuration, TLS, database pool: parsing and
  read-only endpoints. Of the admin API only what its writes do to the caches and
  to the cap is modelled; the rest is CRUD.
* Parsing of the Authorization header, keys that do not exist (401, never
  cached), `last_used_at`.
* `LogFailover`, `logRequest`: inserts nobody on the request path reads; hit counts, the breakdowns of
  `customer_spend` by model and label; `InvalidateByProject`, `GetStats` and
  `CleanupExpired` of the exact cache, which have no callers.
* The reconciliation's query: it only reads and logs. What it compares is `LedgerFollows`.
* An attempt that is abandoned after 60 s and billed by its provider all the same: no
  state of the gateway shows it.
* The numbers in rate-limit headers and error texts.
* Eviction by Redis: it sets a counter to zero, and no bound survives that.

## 8. Plan

Done: SpendCap, TokenBucket, Failover, CustomerLimits, ConfigCaches, CacheMaintenance with its parts,
their runs, and the proofs of section 5. What would add most from here:

1. One request through customer check, spend cap and failover, for
   what the parts cannot say: the model that is limited, billed and
   counted.
2. An abstract specification `Budget` (an amount is promised, then spent or given
   back, and the promises fit the cap), implemented by SpendCap while no fault
   occurs.
3. `AnswerBook` and `IdealBucket` for themselves: what a client may conclude from them alone.
