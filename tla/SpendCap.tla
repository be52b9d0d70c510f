------------------------------ MODULE SpendCap ------------------------------
(***************************************************************************)
(* The project spend cap: a chat request reserves its estimated cost in a  *)
(* Redis counter before the provider is called and afterwards books the    *)
(* difference to the actual cost through the same Lua script.              *)
(*                                                                         *)
(* Many handlers run at once and meet only in Redis.  A handler's local    *)
(* variables are functions of the request; a step is whatever the handler does *)
(* between two Redis or provider calls.  Money is an integer number of     *)
(* micro-dollars.  A Redis round trip may lose its reply or never reach    *)
(* the server; go-redis then repeats it MaxRetries times before            *)
(* CheckSpendCap gives up and lets the request through.                    *)
(***************************************************************************)
EXTENDS Integers, FiniteSets, Functions

CONSTANTS
  Requests,    \* the requests of one project
  Estimates,   \* possible results of EstimateCostForRequest
  Costs,       \* possible bills of the provider
  Caps,        \* values monthly_cap_usd takes
  LastMonth,   \* bound on the months that pass
  MaxRetries,  \* REDIS_MAX_RETRIES
  MaxFaults    \* bound on lost or unsent Redis commands and Redis restarts

ASSUME RequestsAssumption == IsFiniteSet(Requests)
ASSUME MoneyAssumption ==
  /\ Estimates \subseteq Nat
  /\ Costs \subseteq Nat
  /\ Caps \subseteq Nat /\ Caps # {}
ASSUME BoundAssumption ==
  /\ MaxRetries \in Nat /\ MaxFaults \in Nat
  /\ LastMonth \in Nat \ {0}

(* The months, each of which has its spend key.                            *)
Months == 1 .. LastMonth

VARIABLES
  \* shared
  month,          \* the month time.Now() falls in
  cap,            \* monthly_cap_usd as the next authentication reads it
  counter,        \* Redis: spend:project:<id>:<month>, an absent key being 0
  scriptLoaded,   \* Redis: spendCheckScriptSHA is in the script cache
  \* local to a handler
  pc,             \* where it is
  stream,         \* the requests with req.Stream set
  monthlyCap,     \* apiKey.MonthlyCap
  spendKey,       \* the month in spendKey
  estimatedCost,
  actualCost,     \* the provider's bill, 0 until there is one
  cmd,            \* what CheckSpendCap sends
  tries,          \* how often cmd has been resent
  \* bookkeeping of the model
  resent,         \* requests whose current CheckSpendCap resent a command
  failedOpen,     \* requests whose reservation failed open
  net,            \* what the script has added to the counters for a request
  faults          \* Redis faults so far

world  == <<month, cap>>
books  == <<counter, net>>
inputs == <<stream, monthlyCap>>
quote  == <<spendKey, estimatedCost>>
trip   == <<cmd, tries, resent>>
vars == <<world, books, inputs, quote, trip, scriptLoaded, pc, actualCost,
          failedOpen, faults>>

(***************************************************************************)
(* Control points.  A "reserving" or "adjusting" handler is inside         *)
(* CheckSpendCap; a "calling" one inside Execute or ExecuteStream; a       *)
(* "streaming" one relays chunks.                                          *)
(***************************************************************************)
InRedis  == {"reserving", "adjusting"}
InFlight == {"admitted", "calling", "streaming"} \cup InRedis
Final    == {"cached", "blocked", "failed", "dropped", "settled", "killed"}

TypeOK ==
  /\ month \in Months
  /\ cap \in Caps
  /\ counter \in [Months -> Int]
  /\ scriptLoaded \in BOOLEAN
  /\ pc \in [Requests -> {"idle"} \cup InFlight \cup Final]
  /\ stream \subseteq Requests
  /\ monthlyCap \in [Requests -> Caps]
  /\ spendKey \in [Requests -> Months]
  /\ estimatedCost \in [Requests -> Nat]
  /\ actualCost \in [Requests -> Nat]
  /\ cmd \in [Requests -> {"EVALSHA", "EVAL"}]
  /\ tries \in [Requests -> 0 .. MaxRetries]
  /\ resent \subseteq Requests
  /\ failedOpen \subseteq Requests
  /\ net \in [Requests -> Int]
  /\ faults \in 0 .. MaxFaults

Init ==
  /\ month = 1
  /\ cap \in Caps
  /\ counter = [m \in Months |-> 0]
  /\ scriptLoaded = TRUE
  /\ pc = [r \in Requests |-> "idle"]
  /\ stream = {}
  /\ monthlyCap = [r \in Requests |-> cap]
  /\ spendKey = [r \in Requests |-> 1]
  /\ estimatedCost = [r \in Requests |-> 0]
  /\ actualCost = [r \in Requests |-> 0]
  /\ cmd = [r \in Requests |-> "EVALSHA"]
  /\ tries = [r \in Requests |-> 0]
  /\ resent = {}
  /\ failedOpen = {}
  /\ net = [r \in Requests |-> 0]
  /\ faults = 0

Goto(r, label) == pc' = [pc EXCEPT ![r] = label]

-----------------------------------------------------------------------------
(* The handler up to the spend check.                                      *)

(* Authentication and the limiters let r through; the key record it was    *)
(* authenticated with travels in the request context.                      *)
Admit(r) ==
  /\ pc[r] = "idle"
  /\ Goto(r, "admitted")
  /\ stream' \in {stream, stream \cup {r}}
  /\ monthlyCap' = [monthlyCap EXCEPT ![r] = cap]
  /\ UNCHANGED <<world, books, quote, trip, scriptLoaded, actualCost, failedOpen, faults>>

(* An exact or semantic cache hit answers before any money is touched.     *)
CacheHit(r) ==
  /\ pc[r] = "admitted"
  /\ Goto(r, "cached")
  /\ UNCHANGED <<world, books, inputs, quote, trip, scriptLoaded, actualCost,
                 failedOpen, faults>>

(* A fresh CheckSpendCap begins with EVALSHA.                              *)
StartTrip(r) ==
  /\ cmd' = [cmd EXCEPT ![r] = "EVALSHA"]
  /\ tries' = [tries EXCEPT ![r] = 0]
  /\ resent' = resent \ {r}

(* The spend key is formed once, from the month of this moment, and the    *)
(* same key is used for the adjustment however late that happens.          *)
EnterSpendCheck(r) ==
  /\ pc[r] = "admitted"
  /\ Goto(r, "reserving")
  /\ spendKey' = [spendKey EXCEPT ![r] = month]
  /\ \E e \in Estimates : estimatedCost' = [estimatedCost EXCEPT ![r] = e]
  /\ StartTrip(r)
  /\ UNCHANGED <<world, books, inputs, scriptLoaded, actualCost, failedOpen, faults>>

-----------------------------------------------------------------------------
(* CheckSpendCap and its Lua script.                                       *)

(* Mutants: a stream reserves nothing; the adjustment gives the estimate   *)
(* back instead of booking the difference.                                 *)
AmountStreamsFree(r) ==
  IF pc[r] = "reserving" THEN (IF r \in stream THEN 0 ELSE estimatedCost[r])
                         ELSE actualCost[r] - estimatedCost[r]
AmountReleases(r) ==
  IF pc[r] = "reserving" THEN estimatedCost[r] ELSE -estimatedCost[r]

(* What the call in progress asks the script to add: the estimate, or the  *)
(* difference between bill and estimate, which may be negative.            *)
Amount(r) == IF pc[r] = "reserving" THEN estimatedCost[r]
                                    ELSE actualCost[r] - estimatedCost[r]

(* Mutant: the script compares what is spent, not what would be spent.     *)
FitsWithoutAmount(r) == counter[spendKey[r]] <= monthlyCap[r]

Fits(r) == counter[spendKey[r]] + Amount(r) <= monthlyCap[r]

(* Mutants: the key is formed again at every call; the script increments   *)
(* before it compares.                                                     *)
BookThisMonth(r) ==
  IF Fits(r)
    THEN /\ counter' = [counter EXCEPT ![month] = @ + Amount(r)]
         /\ net' = [net EXCEPT ![r] = @ + Amount(r)]
    ELSE UNCHANGED books
BookFirst(r) ==
  /\ counter' = [counter EXCEPT ![spendKey[r]] = @ + Amount(r)]
  /\ net' = [net EXCEPT ![r] = @ + Amount(r)]

(* The script refuses whatever would leave the counter above the cap.      *)
Book(r) ==
  IF Fits(r)
    THEN /\ counter' = [counter EXCEPT ![spendKey[r]] = @ + Amount(r)]
         /\ net' = [net EXCEPT ![r] = @ + Amount(r)]
    ELSE UNCHANGED books

(* One execution inside Redis, which is atomic.  EVAL leaves the script in *)
(* the script cache.                                                       *)
ScriptRuns(r) ==
  /\ pc[r] \in InRedis /\ (cmd[r] = "EVAL" \/ scriptLoaded)
  /\ Book(r)
  /\ scriptLoaded' = TRUE

(* Mutants: canAfford is not looked at; a 402 gives its estimate back.     *)
ContinueUnchecked(r, allowed) ==
  Goto(r, IF pc[r] = "adjusting" THEN "settled" ELSE "calling")
ContinueReleasing(r, allowed) ==
  Goto(r, IF pc[r] = "adjusting" THEN "settled"
          ELSE IF allowed THEN "calling" ELSE "adjusting")

(* The handler's continuation.  A refused reservation is a 402; the        *)
(* result of an adjustment is not looked at.                               *)
Continue(r, allowed) ==
  Goto(r, IF pc[r] = "adjusting" THEN "settled"
          ELSE IF allowed THEN "calling" ELSE "blocked")

Answered(r) ==
  /\ ScriptRuns(r)
  /\ Continue(r, Fits(r))
  /\ UNCHANGED <<world, inputs, quote, trip, actualCost, failedOpen, faults>>

(* Mutant: the SHA is sent again, not the text.                            *)
NoScriptAgain(r) ==
  /\ pc[r] \in InRedis /\ cmd[r] = "EVALSHA" /\ ~scriptLoaded
  /\ tries' = [tries EXCEPT ![r] = 0]
  /\ UNCHANGED <<world, books, inputs, quote, cmd, resent, scriptLoaded, pc,
                 actualCost, failedOpen, faults>>

(* EVALSHA of a script Redis does not know: NOSCRIPT, the text is sent.    *)
NoScript(r) ==
  /\ pc[r] \in InRedis /\ cmd[r] = "EVALSHA" /\ ~scriptLoaded
  /\ cmd' = [cmd EXCEPT ![r] = "EVAL"]
  /\ tries' = [tries EXCEPT ![r] = 0]
  /\ UNCHANGED <<world, books, inputs, quote, resent, scriptLoaded, pc, actualCost,
                 failedOpen, faults>>

(* Mutant: one try more than MaxRetries.                                   *)
ResendTooOften(r) ==
  /\ faults < MaxFaults /\ tries[r] <= MaxRetries
  /\ faults' = faults + 1
  /\ tries' = [tries EXCEPT ![r] = @ + 1]
  /\ resent' = resent \cup {r}
  /\ UNCHANGED <<world, inputs, quote, cmd, pc, actualCost, failedOpen>>

(* A network error: the client resends, and after the last try             *)
(* CheckSpendCap reports (true, nil), so the handler goes on as allowed.   *)
ResendOrFailOpen(r) ==
  /\ faults < MaxFaults
  /\ faults' = faults + 1
  /\ \/ /\ tries[r] < MaxRetries
        /\ tries' = [tries EXCEPT ![r] = @ + 1]
        /\ resent' = resent \cup {r}
        /\ UNCHANGED <<pc, failedOpen>>
     \/ /\ tries[r] = MaxRetries
        /\ Continue(r, TRUE)
        /\ failedOpen' = IF pc[r] = "reserving" THEN failedOpen \cup {r}
                                                ELSE failedOpen
        /\ UNCHANGED <<tries, resent>>
  /\ UNCHANGED <<world, inputs, quote, cmd, actualCost>>

(* The script ran, its reply did not arrive in RedisReadTimeout.           *)
ReplyLost(r) == ScriptRuns(r) /\ ResendOrFailOpen(r)

(* Dial or pool timeout, or the request context is cancelled: the command  *)
(* does not reach Redis.                                                   *)
Unreached(r) ==
  /\ pc[r] \in InRedis
  /\ ResendOrFailOpen(r)
  /\ UNCHANGED <<books, scriptLoaded>>

-----------------------------------------------------------------------------
(* The provider call and what follows it.                                  *)

(* Mutant: only a bill above the estimate is booked.                       *)
BillUpwardsOnly(r) ==
  /\ \E c \in Costs \cup {estimatedCost[r]} :
       /\ actualCost' = [actualCost EXCEPT ![r] = c]
       /\ Goto(r, IF c <= estimatedCost[r] THEN "settled" ELSE "adjusting")
  /\ StartTrip(r)
  /\ UNCHANGED <<world, books, inputs, quote, scriptLoaded, failedOpen, faults>>

(* The bill is known, or taken to be the estimate if it cannot be priced;  *)
(* a zero difference needs no Redis call.                                  *)
Bill(r) ==
  /\ \E c \in Costs \cup {estimatedCost[r]} :
       /\ actualCost' = [actualCost EXCEPT ![r] = c]
       /\ Goto(r, IF c = estimatedCost[r] THEN "settled" ELSE "adjusting")
  /\ StartTrip(r)
  /\ UNCHANGED <<world, books, inputs, quote, scriptLoaded, failedOpen, faults>>

Completed(r) == pc[r] = "calling" /\ r \notin stream /\ Bill(r)

(* Every step of the failover chain failed: 500, and nothing else.         *)
ProviderFailed(r) ==
  /\ pc[r] = "calling"
  /\ Goto(r, "failed")
  /\ UNCHANGED <<world, books, inputs, quote, trip, scriptLoaded, actualCost,
                 failedOpen, faults>>

FirstChunk(r) ==
  /\ pc[r] = "calling" /\ r \in stream
  /\ Goto(r, "streaming")
  /\ UNCHANGED <<world, books, inputs, quote, trip, scriptLoaded, actualCost,
                 failedOpen, faults>>

(* EOF: [DONE] goes out, postStreamProcessing goes on in the background.   *)
StreamDone(r) == pc[r] = "streaming" /\ Bill(r)

(* A mid-stream provider error or a client that went away ends the         *)
(* handler; the tokens produced so far are billed by the provider.         *)
StreamDropped(r) ==
  /\ pc[r] = "streaming"
  /\ Goto(r, "dropped")
  /\ \E c \in Costs : actualCost' = [actualCost EXCEPT ![r] = c]
  /\ UNCHANGED <<world, books, inputs, quote, trip, scriptLoaded, failedOpen, faults>>

-----------------------------------------------------------------------------
(* The world around the handlers.                                          *)

(* A new monthly_cap_usd reaches the next authentication; the cached key   *)
(* record may be behind the project row until its TTL is over.             *)
SetCap ==
  /\ cap' \in Caps \ {cap}
  /\ UNCHANGED <<month, books, inputs, quote, trip, scriptLoaded, pc, actualCost,
                 failedOpen, faults>>

NextMonth ==
  /\ month < LastMonth
  /\ month' = month + 1
  /\ UNCHANGED <<cap, books, inputs, quote, trip, scriptLoaded, pc, actualCost,
                 failedOpen, faults>>

(* Redis restarts with its append-only file: data stays, scripts go.       *)
RedisRestart ==
  /\ scriptLoaded /\ faults < MaxFaults
  /\ scriptLoaded' = FALSE
  /\ faults' = faults + 1
  /\ UNCHANGED <<world, books, inputs, quote, trip, pc, actualCost, failedOpen>>

(* The gateway stops: every handler and background goroutine ends where    *)
(* it is.                                                                  *)
Crash ==
  /\ \E r \in Requests : pc[r] \in InFlight
  /\ pc' = [r \in Requests |-> IF pc[r] \in InFlight THEN "killed" ELSE pc[r]]
  /\ UNCHANGED <<world, books, inputs, quote, trip, scriptLoaded, actualCost,
                 failedOpen, faults>>

HandlerStep(r) ==
  \/ CacheHit(r) \/ EnterSpendCheck(r)
  \/ Answered(r) \/ NoScript(r) \/ ReplyLost(r) \/ Unreached(r)
  \/ Completed(r) \/ ProviderFailed(r) \/ FirstChunk(r)
  \/ StreamDone(r) \/ StreamDropped(r)

Next ==
  \/ \E r \in Requests : Admit(r) \/ HandlerStep(r)
  \/ SetCap \/ NextMonth \/ RedisRestart \/ Crash

(* Redis round trips have read and dial timeouts, and a non-streaming      *)
(* provider call has 60 s per attempt, so those handlers keep moving.  A   *)
(* stream runs under the client's own context, without a deadline: nothing *)
(* obliges its provider or its client.                                     *)
TimedStep(r) ==
  \/ CacheHit(r) \/ EnterSpendCheck(r)
  \/ Answered(r) \/ NoScript(r) \/ ReplyLost(r) \/ Unreached(r)
  \/ Completed(r) \/ (r \notin stream /\ ProviderFailed(r))

Fairness == \A r \in Requests : WF_vars(TimedStep(r))

Spec == Init /\ [][Next]_vars /\ Fairness

-----------------------------------------------------------------------------
(* Safety.                                                                 *)

KeyedTo(m) == {r \in Requests : spendKey[r] = m}
Reserved(m) ==
  {r \in KeyedTo(m) : pc[r] \in {"calling", "streaming", "adjusting"}}
Settled(m) == {r \in KeyedTo(m) : pc[r] = "settled"}
Shortfall == [r \in Requests |->
  IF actualCost[r] > estimatedCost[r] THEN actualCost[r] - estimatedCost[r] ELSE 0]

(* Each month's counter holds exactly what its own requests put there,     *)
(* although the adjustment of a request may run in a later month           *)
(* (chat.go:382 forms the key once, chat_stream.go:490 reuses it).         *)
Ledger ==
  \A m \in Months : counter[m] = SumFunctionOnSet(net, KeyedTo(m))

(* A counter only ever rises to a value that the cap of some request       *)
(* charged to that month allows (spendCheckLuaScript), concurrent requests *)
(* and resent commands included.                                           *)
CapAtIncrease ==
  [][\A m \in Months : counter'[m] > counter[m] =>
        \E r \in KeyedTo(m) : counter'[m] <= monthlyCap[r]]_vars

(* While Redis is healthy the estimates of all requests that are with a    *)
(* provider are inside their month's counter, and together they fit the    *)
(* cap that one of them was checked against, however many were checked at  *)
(* once and however the cap changed (chat.go:399, before chat.go:414).     *)
NoOvercommit ==
  faults = 0 => \A m \in Months :
    /\ SumFunctionOnSet(estimatedCost, Reserved(m)) <= counter[m]
    /\ Reserved(m) # {} => \E q \in Reserved(m) :
         SumFunctionOnSet(estimatedCost, Reserved(m)) <= monthlyCap[q]

(* A provider is called only for a request whose estimate was booked, or   *)
(* whose reservation failed open (client.go:290).                          *)
ReservedBeforeCall ==
  \A r \in Requests : pc[r] \in {"calling", "streaming"} /\ r \notin failedOpen
                        => net[r] >= estimatedCost[r]

(* A request answered 402 has booked nothing, unless its command was       *)
(* resent: then the first execution may have counted.                      *)
RefusedHoldsNothing ==
  \A r \in Requests : pc[r] = "blocked" /\ r \notin resent => net[r] = 0

(* Only a request whose reservation failed open, or whose adjustment was   *)
(* sent twice, can take more out of a counter than it put in.              *)
NegativeOnlyAfterFault ==
  \A r \in Requests : net[r] < 0 => r \in failedOpen \/ r \in resent

(* The requests so far were all admitted under the same cap.               *)
OneCap ==
  \A q, r \in Requests : pc[q] # "idle" /\ pc[r] # "idle" => monthlyCap[q] = monthlyCap[r]

(* As long as the cap has not changed and Redis is healthy, a settled      *)
(* request is never booked above its bill: it is booked at the bill, or    *)
(* still at an estimate below it (chat.go:455-461).                        *)
NeverOvercharged ==
  faults = 0 /\ OneCap => \A r \in Requests : pc[r] = "settled" =>
    \/ net[r] = actualCost[r]
    \/ net[r] = estimatedCost[r] /\ estimatedCost[r] < actualCost[r]

(* How hard the cap is: the bills of a month's settled requests exceed the *)
(* cap at most by what their estimates fell short of the bills.            *)
OvershootBounded ==
  faults = 0 /\ OneCap => \A m \in Months : \A q \in Settled(m) :
    SumFunctionOnSet(actualCost, Settled(m))
      <= monthlyCap[q] + SumFunctionOnSet(Shortfall, Settled(m))

(* What a request may hold of its month's counter.  A provider call that   *)
(* failed, a stream that broke off and a handler that was killed are never *)
(* adjusted: they keep their estimates.                                    *)
Claim == [r \in Requests |->
  IF pc[r] = "settled" THEN actualCost[r]
  ELSE IF pc[r] \in {"calling", "streaming", "adjusting", "failed", "dropped", "killed"}
    THEN estimatedCost[r]
  ELSE 0]

(* A counter is ahead of the bills at most by the estimates of requests in *)
(* flight and of those that ended without a bill: what is booked for them  *)
(* stays booked (chat.go:416, main.go:154), but no settled request, 402 or *)
(* cache hit leaves anything behind.                                       *)
SurplusBounded ==
  faults = 0 /\ OneCap => \A m \in Months :
    counter[m] <= SumFunctionOnSet(Claim, KeyedTo(m))

(* README.md:1280: the gateway "reconciles the difference against Redis    *)
(* spend counters", so a settled request is booked at its bill.            *)
Reconciled ==
  faults = 0 => \A r \in Requests : pc[r] = "settled" => net[r] = actualCost[r]

-----------------------------------------------------------------------------
(* Liveness.                                                               *)

(* Every admitted request reaches an end, or is a stream that waits for    *)
(* its provider: the NOSCRIPT fallback and the bounded retries of          *)
(* CheckSpendCap leave no handler and no background adjustment behind.     *)
HandlerEnds ==
  \A r \in Requests : (pc[r] \in InFlight) ~>
    \/ pc[r] \in Final
    \/ r \in stream /\ pc[r] \in {"calling", "streaming"}

=============================================================================
