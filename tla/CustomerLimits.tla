--------------------------- MODULE CustomerLimits ---------------------------
(***************************************************************************)
(* Per-customer limits: every request that names a customer is checked     *)
(* against the customer's counters in Redis before the provider is called, *)
(* and recorded in them after the answer has gone out.  Check and record   *)
(* are apart, so what holds of the limits holds up to the requests that    *)
(* are between the two.                                                    *)
(*                                                                         *)
(* A counter belongs to a window of time; its key names the window's slot  *)
(* that the clock was in when the key was formed, and the command may      *)
(* reach Redis in a later slot.  A slot's key outlives the slot (EXPIRE),  *)
(* so expiry shows nowhere.  All requests here are of one customer.        *)
(***************************************************************************)
EXTENDS Integers, FiniteSets, Functions

CONSTANTS
  Requests,
  Models, Labels,   \* what a request may ask for and carry
  Specs,            \* the LimitSpecs the resolver may return
  Estimates, Bills, \* model -> what a request may be estimated at and cost
  Period,           \* window -> its length in ticks
  MaxClock,         \* bound on the time that passes
  MaxFaults         \* bound on Redis and Postgres errors

SpendWindows   == {"day", "month"}
RequestWindows == {"minute", "hour", "day"}
None == "none"

ASSUME CustomerAssumption ==
  /\ Estimates \in [Models -> SUBSET Nat] /\ Bills \in [Models -> SUBSET Nat]
  /\ Period \in [SpendWindows \cup RequestWindows -> Nat \ {0}]
  /\ MaxClock \in Nat /\ MaxFaults \in Nat
ASSUME RequestsAssumption == IsFiniteSet(Requests)
(* Amounts and counts; requests are limited by the windows that are counted.*)
ASSUME SpecsAssumption == \A limits \in Specs :
  /\ \A w \in DOMAIN limits.spend : limits.spend[w] \in Int
  /\ DOMAIN limits.requests \subseteq RequestWindows
  /\ \A w \in DOMAIN limits.requests : limits.requests[w] \in Int
(* A minute lies in one hour, an hour in one day, a day in one month.      *)
ASSUME NestedAssumption ==
  /\ Period["hour"] % Period["minute"] = 0
  /\ Period["day"] % Period["hour"] = 0
  /\ Period["month"] % Period["day"] = 0

VARIABLES
  clock,
  \* Redis
  spent,          \* spend:customer:...:<window>:<slot>
  count,          \* requests:customer:...:<window>:<slot>
  named,          \* requests:customer:...:model|label:<name>:daily:<slot>
  \* Postgres
  ledger,         \* customer_spend: SUM(total_spend_usd) by date
  \* local to a handler
  pc,
  spec,           \* what ResolveCustomerLimit returned
  model,          \* req.Model, then FinalModel
  labels,
  estimatedCost,
  actualCost,
  keysAt,         \* time.Now() when the keys of the next command were formed
  todo,           \* names whose counters are still to be read or incremented
  degraded,       \* requests with result.ShouldDegrade
  \* bookkeeping of the model
  last,           \* the last request that was measured against the limits
  lastAt,         \* its keysAt
  late,           \* requests that were then unrecorded, or came by unmeasured
  faults

redis  == <<spent, count, named>>
inputs == <<spec, labels, estimatedCost>>
ghosts == <<last, lastAt, late>>
vars   == <<clock, redis, ledger, pc, inputs, model, actualCost, keysAt, todo, degraded,
            ghosts, faults>>

Slot(w, t) == t \div Period[w]
Slots == 0 .. MaxClock
Names == Models \cup Labels

InFlight == {"checking", "names", "calling", "spend", "requests", "named"}
Refused  == {"overBudget", "overCount", "overName", "tooCostly"}

TypeOK ==
  /\ clock \in 0 .. MaxClock
  /\ spent \in [SpendWindows -> [Slots -> Nat]]
  /\ count \in [RequestWindows -> [Slots -> Nat]]
  /\ named \in [Names -> [Slots -> Nat]]
  /\ ledger \in [Slots -> Nat]
  /\ pc \in [Requests -> {"idle", "persisting", "recorded", "unrecorded"} \cup InFlight \cup Refused]
  /\ \A r \in Requests :
       /\ spec[r] \in Specs /\ model[r] \in Models /\ labels[r] \subseteq Labels
       /\ estimatedCost[r] \in Nat /\ actualCost[r] \in Nat
       /\ keysAt[r] \in 0 .. clock
       /\ todo[r] \subseteq {model[r]} \cup labels[r]
  /\ degraded \subseteq Requests
  /\ last \in Requests \cup {None} /\ lastAt \in 0 .. clock
  /\ late \in [{"charge", "count"} -> SUBSET Requests]
  /\ faults \in 0 .. MaxFaults

Init ==
  /\ clock = 0
  /\ spent = [w \in SpendWindows |-> [s \in Slots |-> 0]]
  /\ count = [w \in RequestWindows |-> [s \in Slots |-> 0]]
  /\ named = [n \in Names |-> [s \in Slots |-> 0]]
  /\ ledger = [s \in Slots |-> 0]
  /\ pc = [r \in Requests |-> "idle"]
  /\ spec \in [Requests -> Specs]
  /\ model \in [Requests -> Models]
  /\ labels \in [Requests -> SUBSET Labels]
  /\ estimatedCost = [r \in Requests |-> 0]
  /\ actualCost = [r \in Requests |-> 0]
  /\ keysAt = [r \in Requests |-> 0]
  /\ todo = [r \in Requests |-> {}]
  /\ degraded = {}
  /\ last = None /\ lastAt = 0 /\ late = [k \in {"charge", "count"} |-> {}]
  /\ faults = 0

(* The handler goes on; if it goes on to Redis, then with keys formed now. *)
InRedis == {"checking", "names", "spend", "requests", "named"}
Goto(r, label) ==
  /\ pc' = [pc EXCEPT ![r] = label]
  /\ keysAt' = [keysAt EXCEPT ![r] = IF label \in InRedis THEN clock ELSE 0]

Arrive(r) ==
  /\ pc[r] = "idle"
  /\ Goto(r, "checking")
  /\ \E c \in Estimates[model[r]] : estimatedCost' = [estimatedCost EXCEPT ![r] = c]
  /\ UNCHANGED <<clock, redis, ledger, spec, labels, model, actualCost, todo, degraded,
                 ghosts, faults>>

-----------------------------------------------------------------------------
(* Limiter.Check.                                                          *)

Spent(r, w) == spent[w][Slot(w, keysAt[r])]
Count(r, w) == count[w][Slot(w, keysAt[r])]

(* Mutant: what is spent is compared, not what would be spent.             *)
OverBudgetSpent(r) ==
  \E w \in SpendWindows \cap DOMAIN spec[r].spend : Spent(r, w) > spec[r].spend[w]

OverBudget(r) ==
  \E w \in SpendWindows \cap DOMAIN spec[r].spend :
    Spent(r, w) + estimatedCost[r] > spec[r].spend[w]

(* Mutant: one request too many.                                           *)
OverCountByOne(r) ==
  \E w \in DOMAIN spec[r].requests : Count(r, w) > spec[r].requests[w]

OverCount(r) ==
  \E w \in DOMAIN spec[r].requests : Count(r, w) >= spec[r].requests[w]

Downgrades(r) == spec[r].onLimit = "downgrade" /\ spec[r].downgradeModel # None
Counters(r)   == DOMAIN spec[r].spend \cup DOMAIN spec[r].requests # {}

(* The requests that may still add to the counters.                        *)
Unrecorded == [charge |-> {q \in Requests : pc[q] \in {"names", "calling", "spend"}},
               count  |-> {q \in Requests :
                             pc[q] \in {"names", "calling", "spend", "requests"}}]

With(sets, r) == [k \in DOMAIN sets |-> sets[k] \cup {r}]

(* One MGET of the five counters, then cost limits before request limits.  *)
(* A spend cap with a model to go down to refuses nothing.                 *)
Snapshot(r) ==
  /\ pc[r] = "checking" /\ Counters(r)
  /\ \/ /\ OverBudget(r) /\ ~Downgrades(r)
        /\ Goto(r, "overBudget")
        /\ UNCHANGED <<todo, degraded, ghosts>>
     \/ /\ OverBudget(r) => Downgrades(r)
        /\ degraded' = IF OverBudget(r) THEN degraded \cup {r} ELSE degraded
        /\ \/ /\ OverCount(r)
              /\ Goto(r, "overCount")
              /\ UNCHANGED <<todo, ghosts>>
           \/ /\ ~OverCount(r)
              /\ Goto(r, "names")
              /\ todo' = [todo EXCEPT ![r] =
                            DOMAIN spec[r].named \cap ({model[r]} \cup labels[r])]
              /\ IF OverBudget(r)
                   THEN /\ late' = With(late, r)
                        /\ UNCHANGED <<last, lastAt>>
                   ELSE /\ last' = r /\ lastAt' = keysAt[r]
                        /\ late' = With(Unrecorded, r)
  /\ UNCHANGED <<clock, redis, ledger, inputs, model, actualCost, faults>>

(* Neither a cost nor a request limit: no MGET.                            *)
NoSnapshot(r) ==
  /\ pc[r] = "checking" /\ ~Counters(r)
  /\ Goto(r, "names")
  /\ todo' = [todo EXCEPT ![r] = DOMAIN spec[r].named \cap ({model[r]} \cup labels[r])]
  /\ late' = With(late, r)
  /\ UNCHANGED <<clock, redis, ledger, inputs, model, actualCost, degraded, last, lastAt, faults>>

(* The model's counter first, then the labels' in the order of a Go map.   *)
FirstOf(r) == IF model[r] \in todo[r] THEN {model[r]} ELSE todo[r]

CheckName(r) ==
  /\ pc[r] = "names"
  /\ \E n \in FirstOf(r) :
       \/ /\ named[n][Slot("day", keysAt[r])] >= spec[r].named[n]
          /\ Goto(r, "overName")
          /\ UNCHANGED todo
       \/ /\ named[n][Slot("day", keysAt[r])] < spec[r].named[n]
          /\ Goto(r, "names")
          /\ todo' = [todo EXCEPT ![r] = @ \ {n}]
  /\ UNCHANGED <<clock, redis, ledger, inputs, model, actualCost, degraded, ghosts, faults>>

TooCostly(r) ==
  "request" \in DOMAIN spec[r].spend /\ estimatedCost[r] > spec[r].spend["request"]

(* The last limit needs no counter.  applyCustomerDowngrade keeps the      *)
(* requested model when no provider knows the one to go down to.           *)
EndCheck(r) ==
  /\ pc[r] = "names" /\ todo[r] = {}
  /\ Goto(r, IF TooCostly(r) THEN "tooCostly" ELSE "calling")
  /\ model' = IF r \in degraded /\ ~TooCostly(r) /\ spec[r].downgradeModel \in Models
                THEN [model EXCEPT ![r] = spec[r].downgradeModel] ELSE model
  /\ UNCHANGED <<clock, redis, ledger, inputs, actualCost, todo, degraded, ghosts, faults>>

(* Any error of Check, or of the resolver before it, lets the request      *)
(* through as it is.                                                       *)
CheckFails(r) ==
  /\ pc[r] = "checking" \/ (pc[r] = "names" /\ todo[r] # {})
  /\ faults < MaxFaults
  /\ faults' = faults + 1
  /\ Goto(r, "calling")
  /\ todo' = [todo EXCEPT ![r] = {}]
  /\ late' = With(late, r)
  /\ UNCHANGED <<clock, redis, ledger, inputs, model, actualCost, degraded, last, lastAt>>

-----------------------------------------------------------------------------
(* From the check to the record.                                           *)

(* The answer is out; any model of the failover chain may have given it.   *)
Completed(r) ==
  /\ pc[r] = "calling"
  /\ Goto(r, "spend")
  /\ \E m \in Models : \E c \in Bills[m] :
       /\ model' = [model EXCEPT ![r] = m]
       /\ actualCost' = [actualCost EXCEPT ![r] = c]
  /\ UNCHANGED <<clock, redis, ledger, inputs, todo, degraded, ghosts, faults>>

(* A cache hit, a 402, a failed chain or a dropped stream: no record.      *)
NotRecorded(r) ==
  /\ pc[r] = "calling"
  /\ Goto(r, "unrecorded")
  /\ UNCHANGED <<clock, redis, ledger, inputs, model, actualCost, todo, degraded, ghosts, faults>>

-----------------------------------------------------------------------------
(* Limiter.RecordRequest.                                                  *)

(* Mutant: the error of a command does not end the record.                 *)
CommandGoesOn(r, Effect, Follow) ==
  \/ Effect /\ Follow /\ UNCHANGED faults
  \/ /\ faults < MaxFaults /\ faults' = faults + 1
     /\ Effect \/ UNCHANGED redis
     /\ UNCHANGED <<pc, keysAt, todo>> \/ Follow

(* One Redis command of it.  It runs once and the next one follows; or it  *)
(* meets an error, having run or not, and is sent again or given up, and   *)
(* with it everything that was to come.                                    *)
Command(r, Effect, Follow) ==
  \/ Effect /\ Follow /\ UNCHANGED faults
  \/ /\ faults < MaxFaults /\ faults' = faults + 1
     /\ Effect \/ UNCHANGED redis
     /\ \/ UNCHANGED <<pc, keysAt, todo>>
        \/ Goto(r, "unrecorded") /\ todo' = [todo EXCEPT ![r] = {}]

(* slot: for each window the slot whose key is used.                       *)
AddTo(counters, amount, slot) ==
  [w \in DOMAIN counters |-> [counters[w] EXCEPT ![slot[w]] = @ + amount]]

Keys(r) == [w \in DOMAIN Period |-> Slot(w, keysAt[r])]

(* Mutant: the difference to the estimate is added.                        *)
ChargeDifference(r) ==
  /\ spent' = AddTo(spent, actualCost[r] - estimatedCost[r], Keys(r))
  /\ UNCHANGED <<count, named>>

Charge(r) ==
  /\ spent' = AddTo(spent, actualCost[r], Keys(r))
  /\ UNCHANGED <<count, named>>

(* Mutant: the minute's key is formed when the command runs.               *)
CountInAtRun(r) ==
  /\ count' = AddTo(count, 1, [Keys(r) EXCEPT !["minute"] = Slot("minute", clock)])
  /\ UNCHANGED <<spent, named>>

CountIn(r) ==
  /\ count' = AddTo(count, 1, Keys(r))
  /\ UNCHANGED <<spent, named>>

Increment(r, n) ==
  /\ named' = [named EXCEPT ![n][Slot("day", keysAt[r])] = @ + 1]
  /\ UNCHANGED <<spent, count>>

Local(r) == UNCHANGED <<clock, ledger, inputs, model, actualCost, degraded, ghosts>>

TrackCustomerSpend(r) ==
  /\ pc[r] = "spend"
  /\ Command(r, Charge(r), Goto(r, "requests") /\ UNCHANGED todo)
  /\ Local(r)

TrackCustomerRequests(r) ==
  /\ pc[r] = "requests"
  /\ Command(r, CountIn(r),
             Goto(r, "named") /\ todo' = [todo EXCEPT ![r] = {model[r]} \cup labels[r]])
  /\ Local(r)

(* One time.Now() serves the model's key and the labels'.                  *)
IncrWithTTL(r) ==
  /\ pc[r] = "named"
  /\ \E n \in FirstOf(r) :
       Command(r, Increment(r, n),
               /\ todo' = [todo EXCEPT ![r] = @ \ {n}]
               /\ IF todo[r] = {n} THEN Goto(r, "persisting") ELSE UNCHANGED <<pc, keysAt>>)
  /\ Local(r)

-----------------------------------------------------------------------------
(* A row of its own or added to the day's.                                 *)
RecordCustomerSpend(r, date) == ledger' = [ledger EXCEPT ![date] = @ + actualCost[r]]

(* Mutant: the row bears the date on which the request came in.            *)
persistToDatabaseEarly(r) ==
  /\ pc[r] = "persisting"
  /\ RecordCustomerSpend(r, 0)
  /\ Goto(r, "recorded")
  /\ UNCHANGED <<clock, redis, inputs, model, actualCost, todo, degraded, ghosts, faults>>

(* A goroutine reads the clock again and writes for the reports.           *)
persistToDatabase(r) ==
  /\ pc[r] = "persisting"
  /\ RecordCustomerSpend(r, Slot("day", clock))
  /\ Goto(r, "recorded")
  /\ UNCHANGED <<clock, redis, inputs, model, actualCost, todo, degraded, ghosts, faults>>

(* The error is logged, or the gateway stops: the row is lost.             *)
PersistFails(r) ==
  /\ pc[r] = "persisting" /\ faults < MaxFaults
  /\ faults' = faults + 1
  /\ Goto(r, "recorded")
  /\ UNCHANGED <<clock, redis, ledger, inputs, model, actualCost, todo, degraded, ghosts>>

-----------------------------------------------------------------------------
Tick ==
  /\ clock < MaxClock
  /\ clock' = clock + 1
  /\ UNCHANGED <<redis, ledger, pc, inputs, model, actualCost, keysAt, todo, degraded, ghosts,
                 faults>>

(* The gateway stops, or the record's five seconds are over.               *)
Killed(r) ==
  /\ pc[r] \in InFlight /\ faults < MaxFaults
  /\ faults' = faults + 1
  /\ Goto(r, "unrecorded")
  /\ todo' = [todo EXCEPT ![r] = {}]
  /\ UNCHANGED <<clock, redis, ledger, inputs, model, actualCost, degraded, ghosts>>

Next ==
  \/ \E r \in Requests :
       \/ Arrive(r) \/ Snapshot(r) \/ NoSnapshot(r) \/ CheckName(r) \/ EndCheck(r)
       \/ CheckFails(r) \/ Completed(r) \/ NotRecorded(r)
       \/ TrackCustomerSpend(r) \/ TrackCustomerRequests(r) \/ IncrWithTTL(r)
       \/ persistToDatabase(r) \/ PersistFails(r) \/ Killed(r)
  \/ Tick

Spec == Init /\ [][Next]_vars

-----------------------------------------------------------------------------
UpTo(counter, s) == SumFunctionOnSet(counter, {i \in Slots : i <= s})
Total(counter) == SumFunctionOnSet(counter, Slots)
Bill(S) == SumFunctionOnSet(actualCost, S)

Charged == {r \in Requests : pc[r] \in {"requests", "named", "persisting", "recorded"}}
Counted == {r \in Requests : pc[r] \in {"named", "persisting", "recorded"}}
Bearers(n) == {r \in Counted : n \in ({model[r]} \cup labels[r]) \ todo[r]}

(* How hard a customer's spend cap is (limiter.go:192, chat.go:496): with  *)
(* Redis healthy, a window's spend exceeds the cap by no more than what    *)
(* requests have added that were already past their own check, or came by  *)
(* unmeasured, when the last one was measured; that one's bill counts only *)
(* by what it exceeds its estimate.                                        *)
SpendOvershoot ==
  faults = 0 /\ last # None => \A w \in SpendWindows \cap DOMAIN spec[last].spend :
    spent[w][Slot(w, lastAt)] + estimatedCost[last]
      <= spec[last].spend[w] + Bill(late["charge"] \cap Charged)

(* The same of the request limits (limiter.go:240), whose counters lag     *)
(* behind the spend: a window counts at most its limit and one less than   *)
(* those requests.                                                         *)
CountOvershoot ==
  faults = 0 /\ last # None => \A w \in DOMAIN spec[last].requests :
    count[w][Slot(w, lastAt)]
      < spec[last].requests[w] + Cardinality(late["count"] \cap Counted)

(* A slot holds what the slots hold that begin in it.                      *)
Agree(counter, inner, outer) ==
  \A s \in Slots :
    counter[outer][s] =
      SumFunctionOnSet(counter[inner], {i \in Slots : Slot(outer, i * Period[inner]) = s})

(* The windows never disagree, whatever is lost or sent twice and          *)
(* whichever midnight falls between a check and its record: what a month   *)
(* holds is what its days hold, an hour what its minutes, a day what its   *)
(* hours (one time.Now() for all keys, client.go:378 and 441).             *)
WindowsAgree ==
  Agree(spent, "day", "month") /\ Agree(count, "minute", "hour") /\ Agree(count, "hour", "day")

(* At least what is owed, and no more as long as nothing was sent twice.   *)
Covers(held, owed) == held >= owed /\ (faults = 0 => held = owed)

(* Nothing is recorded halfway without an error (limiter.go:352-389): a    *)
(* request that got as far as its request count is in the spend, one that  *)
(* got past the counter of its final model or of a label is in that one,   *)
(* whatever faults there were; without faults each is there once.          *)
RecordedInOrder ==
  /\ Covers(Total(spent["day"]), Bill(Charged))
  /\ Covers(Total(count["day"]), Cardinality(Counted))
  /\ \A n \in Names : Covers(Total(named[n]), Cardinality(Bearers(n)))

(* Postgres runs behind Redis and never ahead of it, whatever fails        *)
(* (limiter.go:387): up to any day it has at most what Redis has, though a *)
(* single day may have more, when a record crosses midnight; and without   *)
(* faults nothing is missing once the records are through.  So what the    *)
(* reconciliation finds missing may just be late (reconciliation.go:95).   *)
LedgerFollows ==
  /\ \A s \in Slots : UpTo(ledger, s) <= UpTo(spent["day"], s)
  /\ faults = 0 => Total(ledger) = Bill({r \in Requests : pc[r] = "recorded"})

=============================================================================
