--------------------------- MODULE SpendCapProofs ---------------------------
(* Theorems about SpendCap for any number of requests, any amounts and any *)
(* number of faults.                                                       *)
EXTENDS SpendCap, ArithmeticTheorems, TLAPS

-----------------------------------------------------------------------------
(* Type correctness.                                                       *)

LEMMA InitType == Init => TypeOK
  BY MoneyAssumption, BoundAssumption
  DEF Init, TypeOK, InFlight, InRedis, Final, Months

LEMMA BookType ==
  ASSUME TypeOK, NEW r \in Requests, Book(r)
  PROVE  counter' \in [Months -> Int] /\ net' \in [Requests -> Int]
<1>1. Amount(r) \in Int
  BY DEF TypeOK, Amount
<1> QED  BY <1>1 DEF TypeOK, Book, books

LEMMA BillType ==
  ASSUME TypeOK, NEW r \in Requests, Bill(r)
  PROVE  /\ pc' \in [Requests -> {"idle"} \cup InFlight \cup Final]
         /\ actualCost' \in [Requests -> Nat]
<1>1. PICK c \in Costs \cup {estimatedCost[r]} :
        /\ actualCost' = [actualCost EXCEPT ![r] = c]
        /\ Goto(r, IF c = estimatedCost[r] THEN "settled" ELSE "adjusting")
  BY DEF Bill
<1>2. c \in Nat
  BY <1>1, MoneyAssumption DEF TypeOK
<1>3. actualCost' \in [Requests -> Nat]
  BY <1>1, <1>2 DEF TypeOK
<1>4. pc' \in [Requests -> {"idle"} \cup InFlight \cup Final]
  BY <1>1 DEF TypeOK, Goto, InFlight, InRedis, Final
<1> QED  BY <1>3, <1>4

LEMMA ResendType ==
  ASSUME TypeOK, NEW r \in Requests, ResendOrFailOpen(r)
  PROVE  /\ pc' \in [Requests -> {"idle"} \cup InFlight \cup Final]
         /\ tries' \in [Requests -> 0 .. MaxRetries]
         /\ resent' \subseteq Requests
         /\ failedOpen' \subseteq Requests
         /\ faults' \in 0 .. MaxFaults
<1> USE BoundAssumption DEF TypeOK, ResendOrFailOpen
<1>1. pc' \in [Requests -> {"idle"} \cup InFlight \cup Final]
  BY DEF Continue, Goto, InFlight, Final
<1>2. tries' \in [Requests -> 0 .. MaxRetries]
  <2>1. \/ tries' = tries
        \/ tries[r] < MaxRetries /\ tries' = [tries EXCEPT ![r] = @ + 1]
    BY Zenon
  <2> QED  BY <2>1
<1>3. resent' \subseteq Requests
  OBVIOUS
<1>4. failedOpen' \subseteq Requests
  OBVIOUS
<1>5. faults' \in 0 .. MaxFaults
  OBVIOUS
<1> QED  BY <1>1, <1>2, <1>3, <1>4, <1>5

LEMMA HandlerType ==
  ASSUME TypeOK, NEW r \in Requests, HandlerStep(r) PROVE TypeOK'
<1> USE MoneyAssumption, BoundAssumption
    DEF TypeOK, InFlight, InRedis, Final, Months, Goto, StartTrip,
        world, books, inputs, quote, trip
<1>1. CASE CacheHit(r)  BY <1>1 DEF CacheHit
<1>2. CASE EnterSpendCheck(r)
  <2>1. estimatedCost' \in [Requests -> Nat] /\ spendKey' \in [Requests -> Months]
    BY <1>2 DEF EnterSpendCheck
  <2>2. tries' \in [Requests -> 0 .. MaxRetries]
    BY <1>2 DEF EnterSpendCheck
  <2> QED  BY <1>2, <2>1, <2>2 DEF EnterSpendCheck
<1>3. CASE Answered(r)
  <2>1. counter' \in [Months -> Int] /\ net' \in [Requests -> Int]
    BY <1>3, BookType DEF Answered, ScriptRuns
  <2>2. pc' \in [Requests -> {"idle"} \cup InFlight \cup Final]
    BY <1>3 DEF Answered, Continue
  <2>3. scriptLoaded' \in BOOLEAN
    BY <1>3 DEF Answered, ScriptRuns
  <2> QED  BY <1>3, <2>1, <2>2, <2>3 DEF Answered
<1>4. CASE NoScript(r)
  <2>1. cmd' = [cmd EXCEPT ![r] = "EVAL"] /\ tries' = [tries EXCEPT ![r] = 0]
    BY <1>4, Zenon DEF NoScript
  <2>2. /\ cmd' \in [Requests -> {"EVALSHA", "EVAL"}]
        /\ tries' \in [Requests -> 0 .. MaxRetries]
    BY <2>1
  <2> QED  BY <1>4, <2>2 DEF NoScript
<1>5. CASE ReplyLost(r)
  <2>1. counter' \in [Months -> Int] /\ net' \in [Requests -> Int]
    BY <1>5, BookType DEF ReplyLost, ScriptRuns
  <2>2. scriptLoaded' \in BOOLEAN
    BY <1>5 DEF ReplyLost, ScriptRuns
  <2> QED  BY <1>5, <2>1, <2>2, ResendType DEF ReplyLost, ResendOrFailOpen
<1>6. CASE Unreached(r)
  BY <1>6, ResendType DEF Unreached, ResendOrFailOpen
<1>7. CASE Completed(r) \/ StreamDone(r)
  <2>1. Bill(r)
    BY <1>7 DEF Completed, StreamDone
  <2>2. /\ cmd' \in [Requests -> {"EVALSHA", "EVAL"}]
        /\ tries' \in [Requests -> 0 .. MaxRetries]
        /\ resent' \subseteq Requests
    BY <2>1 DEF Bill
  <2> QED  BY <2>1, <2>2, BillType DEF Bill
<1>8. CASE StreamDropped(r)  BY <1>8 DEF StreamDropped
<1>9. CASE ProviderFailed(r)  BY <1>9 DEF ProviderFailed
<1>10. CASE FirstChunk(r)  BY <1>10 DEF FirstChunk
<1> QED
  BY <1>1, <1>2, <1>3, <1>4, <1>5, <1>6, <1>7, <1>8, <1>9, <1>10 DEF HandlerStep

LEMMA StepType == TypeOK /\ [Next]_vars => TypeOK'
<1> SUFFICES ASSUME TypeOK, [Next]_vars PROVE TypeOK'
  OBVIOUS
<1>1. CASE \E r \in Requests : HandlerStep(r)
  BY <1>1, HandlerType
<1> USE MoneyAssumption, BoundAssumption
    DEF TypeOK, InFlight, InRedis, Final, Months, Goto,
        world, books, inputs, quote, trip
<1>2. CASE \E r \in Requests : Admit(r)
  <2>1. PICK r \in Requests : Admit(r)
    BY <1>2
  <2>2. pc' \in [Requests -> {"idle"} \cup InFlight \cup Final]
    BY <2>1 DEF Admit
  <2>3. stream' \subseteq Requests /\ monthlyCap' \in [Requests -> Caps]
    BY <2>1 DEF Admit
  <2> QED  BY <2>1, <2>2, <2>3, Zenon DEF Admit
<1>3. CASE SetCap
  <2>1. cap' \in Caps
    BY <1>3 DEF SetCap
  <2> QED  BY <1>3, <2>1, Zenon DEF SetCap
<1>4. CASE NextMonth  BY <1>4 DEF NextMonth
<1>5. CASE RedisRestart
  <2>1. faults < MaxFaults /\ faults' = faults + 1 /\ scriptLoaded' \in BOOLEAN
    BY <1>5, Zenon DEF RedisRestart
  <2>2. faults' \in 0 .. MaxFaults
    BY <2>1
  <2> QED  BY <1>5, <2>1, <2>2, Zenon DEF RedisRestart
<1>6. CASE Crash  BY <1>6 DEF Crash
<1>7. CASE UNCHANGED vars  BY <1>7 DEF vars
<1> QED
  BY <1>1, <1>2, <1>3, <1>4, <1>5, <1>6, <1>7 DEF Next

(* Every handler stays at one of its control points with well-typed locals *)
(* (chat.go:167-536, chat_stream.go:66-545), and resends a command at most *)
(* REDIS_MAX_RETRIES times.                                                *)
THEOREM TypeCorrect == Spec => []TypeOK
  BY InitType, StepType, PTL DEF Spec

-----------------------------------------------------------------------------
(* The counters.                                                           *)

LEMMA OnlyBookMovesCounters ==
  ASSUME [Next]_vars
  PROVE  UNCHANGED counter \/ \E r \in Requests : Book(r) /\ pc[r] # "idle"
<1>1. CASE \E r \in Requests : HandlerStep(r)
  BY <1>1 DEF HandlerStep, CacheHit, EnterSpendCheck, Answered, NoScript,
     ReplyLost, Unreached, Completed, ProviderFailed, FirstChunk, StreamDone,
     StreamDropped, Bill, ScriptRuns, books, InRedis
<1>2. CASE (\E r \in Requests : Admit(r)) \/ SetCap \/ NextMonth \/ RedisRestart \/ Crash
  BY <1>2 DEF Admit, SetCap, NextMonth, RedisRestart, Crash, books
<1>3. CASE UNCHANGED vars
  BY <1>3 DEF vars, books
<1> QED
  BY <1>1, <1>2, <1>3 DEF Next

LEMMA BookRespectsCap ==
  ASSUME TypeOK, NEW r \in Requests, Book(r),
         NEW m \in Months, counter'[m] > counter[m]
  PROVE  spendKey[r] = m /\ counter'[m] <= monthlyCap[r]
<1>1. Amount(r) \in Int /\ spendKey[r] \in Months
  BY DEF TypeOK, Amount
<1>2. Fits(r)
  BY DEF Book, books, TypeOK
<1>3. counter' = [counter EXCEPT ![spendKey[r]] = @ + Amount(r)]
  BY <1>2 DEF Book
<1>4. spendKey[r] = m
  BY <1>1, <1>3 DEF TypeOK
<1>5. counter'[m] = counter[m] + Amount(r)
  BY <1>1, <1>3, <1>4 DEF TypeOK
<1> QED
  BY <1>2, <1>4, <1>5 DEF Fits

(* However many handlers race and however often a command is resent, the   *)
(* script (client.go:71-92) raises a month's counter only to a value that  *)
(* the cap of a request charged to that month allows.                      *)
THEOREM CapHolds == Spec => CapAtIncrease
<1> DEFINE Raise == \A m \in Months : counter'[m] > counter[m] =>
                      \E r \in KeyedTo(m) : counter'[m] <= monthlyCap[r]
<1>1. TypeOK /\ [Next]_vars => Raise \/ UNCHANGED vars
  <2> SUFFICES ASSUME TypeOK, [Next]_vars, NEW m \in Months,
                      counter'[m] > counter[m]
               PROVE  \E r \in KeyedTo(m) : counter'[m] <= monthlyCap[r]
    OBVIOUS
  <2>1. counter' # counter
    BY DEF TypeOK
  <2>2. PICK r \in Requests : Book(r)
    BY <2>1, OnlyBookMovesCounters
  <2> QED
    BY <2>2, BookRespectsCap DEF KeyedTo
<1> QED
  BY <1>1, TypeCorrect, PTL DEF Spec, CapAtIncrease

-----------------------------------------------------------------------------
(* What is booked for a request at each control point.  This strengthens   *)
(* the three properties below to something a step preserves.               *)

BookedAt(r) ==
  /\ pc[r] \in {"idle", "admitted", "cached"} =>
       net[r] = 0 /\ r \notin resent /\ r \notin failedOpen
  /\ pc[r] = "reserving" =>
       r \notin failedOpen /\ net[r] >= 0 /\ (r \notin resent => net[r] = 0)
  /\ pc[r] \in {"calling", "streaming"} =>
       net[r] >= 0 /\ (r \notin failedOpen => net[r] >= estimatedCost[r])
  /\ pc[r] = "adjusting" /\ r \notin resent =>
       r \in failedOpen \/ net[r] >= estimatedCost[r]
  /\ pc[r] = "blocked" => net[r] >= 0 /\ (r \notin resent => net[r] = 0)
  /\ pc[r] \in {"failed", "dropped"} => net[r] >= 0
  /\ net[r] < 0 => r \in failedOpen \/ r \in resent

BooksInv == \A r \in Requests : BookedAt(r)

LEMMA InitBooks == Init => BooksInv
  BY DEF Init, BooksInv, BookedAt

(* A handler's steps leave the books of the other handlers alone.          *)
LEMMA OthersUntouched ==
  ASSUME TypeOK, NEW r \in Requests, Admit(r) \/ HandlerStep(r),
         NEW q \in Requests, q # r, BookedAt(q)
  PROVE  BookedAt(q)'
<1>1. /\ pc'[q] = pc[q] /\ net'[q] = net[q]
      /\ estimatedCost'[q] = estimatedCost[q]
      /\ q \in resent' <=> q \in resent
      /\ q \in failedOpen' <=> q \in failedOpen
  BY DEF TypeOK, HandlerStep, Admit, CacheHit, EnterSpendCheck, Answered, NoScript,
     ReplyLost, Unreached, Completed, ProviderFailed, FirstChunk, StreamDone,
     StreamDropped, Bill, ScriptRuns, ResendOrFailOpen, Continue, Book, Goto,
     StartTrip, books, quote, trip
<1> QED
  BY <1>1 DEF BookedAt


LEMMA BookAmount ==
  ASSUME TypeOK, NEW r \in Requests, Book(r)
  PROVE  \/ Fits(r) /\ net'[r] = net[r] + Amount(r)
         \/ ~Fits(r) /\ net'[r] = net[r]
<1>1. Amount(r) \in Int
  BY DEF TypeOK, Amount
<1> QED  BY <1>1 DEF TypeOK, Book, books

LEMMA AnsweredBooks ==
  ASSUME TypeOK, NEW r \in Requests, BookedAt(r), Answered(r)
  PROVE  BookedAt(r)'
<1>1. Book(r) /\ pc[r] \in InRedis
  BY DEF Answered, ScriptRuns
<1>2. UNCHANGED <<estimatedCost, resent, failedOpen>>
  BY DEF Answered, quote, trip
<1>3. CASE pc[r] = "reserving"
  <2>1. pc'[r] = IF Fits(r) THEN "calling" ELSE "blocked"
    BY <1>3 DEF Answered, Continue, Goto, TypeOK
  <2>2. Amount(r) = estimatedCost[r]
    BY <1>3 DEF Amount
  <2> QED
    BY <1>1, <1>2, <1>3, <2>1, <2>2, BookAmount DEF BookedAt, TypeOK
<1>4. CASE pc[r] = "adjusting"
  <2>1. pc'[r] = "settled"
    BY <1>4 DEF Answered, Continue, Goto, TypeOK
  <2>2. Amount(r) = actualCost[r] - estimatedCost[r]
    BY <1>4 DEF Amount
  <2> QED
    BY <1>1, <1>2, <1>4, <2>1, <2>2, BookAmount DEF BookedAt, TypeOK
<1> QED  BY <1>1, <1>3, <1>4 DEF InRedis

(* The books of r after a command of its was lost, with the script run     *)
(* (Book) or not.                                                          *)
LEMMA ResendBooks ==
  ASSUME TypeOK, NEW r \in Requests, BookedAt(r), pc[r] \in InRedis,
         ResendOrFailOpen(r), Book(r) \/ UNCHANGED books
  PROVE  BookedAt(r)'
<1>1. UNCHANGED estimatedCost
  BY DEF ResendOrFailOpen, quote
<1>2. net'[r] = net[r] \/ net'[r] = net[r] + Amount(r)
  BY BookAmount DEF books
<1>3. CASE resent' = resent \cup {r} /\ UNCHANGED <<pc, failedOpen>>
  <2>1. CASE pc[r] = "reserving"
    <3>1. Amount(r) = estimatedCost[r]
      BY <2>1 DEF Amount
    <3> QED
      BY <1>2, <1>3, <2>1, <3>1 DEF BookedAt, TypeOK
  <2>2. CASE pc[r] = "adjusting"
    BY <1>3, <2>2 DEF BookedAt
  <2> QED  BY <2>1, <2>2 DEF InRedis
<1>4. CASE Continue(r, TRUE) /\ UNCHANGED resent
           /\ failedOpen' = IF pc[r] = "reserving" THEN failedOpen \cup {r}
                                                  ELSE failedOpen
  <2>1. CASE pc[r] = "reserving"
    <3>1. Amount(r) = estimatedCost[r] /\ pc'[r] = "calling"
      BY <1>4, <2>1 DEF Amount, Continue, Goto, TypeOK
    <3> QED
      BY <1>2, <1>4, <2>1, <3>1 DEF BookedAt, TypeOK
  <2>2. CASE pc[r] = "adjusting"
    <3>1. Amount(r) = actualCost[r] - estimatedCost[r] /\ pc'[r] = "settled"
      BY <1>4, <2>2 DEF Amount, Continue, Goto, TypeOK
    <3> QED
      BY <1>2, <1>4, <2>2, <3>1 DEF BookedAt, TypeOK
  <2> QED  BY <2>1, <2>2 DEF InRedis
<1> QED  BY <1>3, <1>4 DEF ResendOrFailOpen

LEMMA HandlerBooks ==
  ASSUME TypeOK, NEW r \in Requests, BookedAt(r), Admit(r) \/ HandlerStep(r)
  PROVE  BookedAt(r)'
<1> USE DEF BookedAt, TypeOK, Goto, StartTrip, books, quote, trip
<1>1. CASE Admit(r)  BY <1>1 DEF Admit
<1>2. CASE CacheHit(r)  BY <1>2 DEF CacheHit
<1>3. CASE EnterSpendCheck(r)  BY <1>3 DEF EnterSpendCheck
<1>4. CASE Answered(r)  BY <1>4, AnsweredBooks
<1>5. CASE NoScript(r)  BY <1>5 DEF NoScript
<1>6. CASE ReplyLost(r)  BY <1>6, ResendBooks DEF ReplyLost, ScriptRuns
<1>7. CASE Unreached(r)  BY <1>7, ResendBooks DEF Unreached
<1>8. CASE Completed(r) \/ StreamDone(r)
  <2>1. Bill(r) /\ pc[r] \in {"calling", "streaming"}
    BY <1>8 DEF Completed, StreamDone
  <2>2. /\ pc'[r] \in {"settled", "adjusting"} /\ r \notin resent'
        /\ net'[r] = net[r] /\ estimatedCost'[r] = estimatedCost[r]
        /\ failedOpen' = failedOpen
    BY <2>1 DEF Bill
  <2> QED  BY <2>1, <2>2
<1>9. CASE ProviderFailed(r)  BY <1>9 DEF ProviderFailed
<1>10. CASE FirstChunk(r)  BY <1>10 DEF FirstChunk
<1>11. CASE StreamDropped(r)  BY <1>11 DEF StreamDropped
<1> QED
  BY <1>1, <1>2, <1>3, <1>4, <1>5, <1>6, <1>7, <1>8, <1>9, <1>10, <1>11
  DEF HandlerStep

LEMMA StepBooks == TypeOK /\ BooksInv /\ [Next]_vars => BooksInv'
<1> SUFFICES ASSUME TypeOK, BooksInv, [Next]_vars, NEW q \in Requests
             PROVE  BookedAt(q)'
  BY DEF BooksInv
<1>1. BookedAt(q)
  BY DEF BooksInv
<1>2. CASE \E r \in Requests : Admit(r) \/ HandlerStep(r)
  BY <1>1, <1>2, HandlerBooks, OthersUntouched
<1>3. CASE SetCap \/ NextMonth \/ RedisRestart \/ UNCHANGED vars
  BY <1>1, <1>3 DEF SetCap, NextMonth, RedisRestart, vars, BookedAt, books, quote, trip
<1>4. CASE Crash
  <2>1. /\ pc'[q] = pc[q] \/ pc'[q] = "killed"
        /\ UNCHANGED <<net, estimatedCost, resent, failedOpen>>
    BY <1>4 DEF Crash, books, quote, trip
  <2> QED  BY <1>1, <2>1 DEF BookedAt
<1> QED  BY <1>2, <1>3, <1>4 DEF Next

LEMMA Books == Spec => []BooksInv
  BY InitType, StepType, InitBooks, StepBooks, PTL DEF Spec

(* No provider is paid for a request whose estimate is not in the counter, *)
(* unless Redis could not be reached and CheckSpendCap let it through      *)
(* (client.go:290, chat.go:399-414).                                       *)
THEOREM CallIsReserved == Spec => []ReservedBeforeCall
<1>1. BooksInv => ReservedBeforeCall
  BY DEF BooksInv, BookedAt, ReservedBeforeCall
<1> QED  BY <1>1, Books, PTL

(* A 402 whose command was not resent leaves nothing in the counter        *)
(* (client.go:81-83).                                                      *)
THEOREM RefusalIsFree == Spec => []RefusedHoldsNothing
<1>1. BooksInv => RefusedHoldsNothing
  BY DEF BooksInv, BookedAt, RefusedHoldsNothing
<1> QED  BY <1>1, Books, PTL

(* A request takes more out of the counter than it put in only if its      *)
(* reservation failed open or its adjustment was sent twice (chat.go:457,  *)
(* chat_stream.go:490).                                                    *)
THEOREM DebitNeedsFault == Spec => []NegativeOnlyAfterFault
<1>1. BooksInv => NegativeOnlyAfterFault
  BY DEF BooksInv, BookedAt, NegativeOnlyAfterFault
<1> QED  BY <1>1, Books, PTL

-----------------------------------------------------------------------------
(* As long as the cap has not changed and Redis is healthy no counter is   *)
(* above the cap, so an adjustment that lowers a counter is never refused. *)

ExactlyBooked(r) ==
  /\ pc[r] \in {"idle", "admitted", "reserving", "cached", "blocked"} => net[r] = 0
  /\ pc[r] \in {"calling", "streaming", "adjusting", "failed", "dropped"} =>
       net[r] = estimatedCost[r]
  /\ pc[r] = "killed" => net[r] = 0 \/ net[r] = estimatedCost[r]
  /\ pc[r] = "settled" =>
       \/ net[r] = actualCost[r]
       \/ net[r] = estimatedCost[r] /\ estimatedCost[r] < actualCost[r]

Calm == faults = 0 /\ OneCap

CountersBelowCap ==
  \A m \in Months, r \in Requests : pc[r] # "idle" => counter[m] <= monthlyCap[r]

(* The second conjunct is what the first request to be admitted needs.     *)
CalmInv ==
  /\ Calm => CountersBelowCap /\ \A r \in Requests : ExactlyBooked(r)
  /\ (\A r \in Requests : pc[r] = "idle") => \A m \in Months : counter[m] = 0

LEMMA InitCalm == Init => CalmInv
  BY DEF Init, CalmInv, CountersBelowCap, ExactlyBooked

(* Nobody returns to "idle", and a cap is fixed once admitted.             *)
LEMMA CapsAreKept ==
  ASSUME TypeOK, [Next]_vars, NEW r \in Requests
  PROVE  /\ pc[r] # "idle" => pc'[r] # "idle" /\ monthlyCap'[r] = monthlyCap[r]
         /\ pc[r] = "idle" /\ pc'[r] # "idle" => Admit(r)
<1>1. ASSUME NEW q \in Requests, HandlerStep(q)
      PROVE  /\ pc[q] # "idle" /\ pc'[q] # "idle"
             /\ q # r => pc'[r] = pc[r]
             /\ monthlyCap' = monthlyCap
  BY <1>1 DEF TypeOK, HandlerStep, CacheHit, EnterSpendCheck, Answered, NoScript,
     ReplyLost, Unreached, Completed, ProviderFailed, FirstChunk, StreamDone,
     StreamDropped, Bill, ScriptRuns, ResendOrFailOpen, Continue, Goto, InRedis, inputs
<1>2. ASSUME NEW q \in Requests, Admit(q)
      PROVE  /\ pc[q] = "idle" /\ pc'[q] # "idle"
             /\ q # r => pc'[r] = pc[r] /\ monthlyCap'[r] = monthlyCap[r]
  BY <1>2 DEF Admit, TypeOK, Goto
<1>3. CASE SetCap \/ NextMonth \/ RedisRestart \/ UNCHANGED vars
  BY <1>3 DEF SetCap, NextMonth, RedisRestart, vars, inputs
<1>4. CASE Crash
  BY <1>4 DEF Crash, TypeOK, inputs, InFlight, InRedis
<1> QED
  BY <1>1, <1>2, <1>3, <1>4 DEF Next

LEMMA HealthyBefore ==
  ASSUME TypeOK, [Next]_vars, faults' = 0
  PROVE  faults = 0 /\ \A r \in Requests : ~ReplyLost(r) /\ ~Unreached(r)
<1>1. faults' = faults \/ faults' = faults + 1
  BY DEF Next, HandlerStep, Admit, CacheHit, EnterSpendCheck, Answered, NoScript,
     ReplyLost, Unreached, Completed, ProviderFailed, FirstChunk, StreamDone,
     StreamDropped, Bill, ResendOrFailOpen, SetCap, NextMonth, RedisRestart, Crash, vars
<1>2. faults \in Nat
  BY BoundAssumption DEF TypeOK
<1>3. faults = 0
  BY <1>1, <1>2
<1>4. ASSUME NEW r \in Requests PROVE ~ReplyLost(r) /\ ~Unreached(r)
  <2>1. ReplyLost(r) \/ Unreached(r) => faults' = faults + 1
    BY Zenon DEF ReplyLost, Unreached, ResendOrFailOpen
  <2> QED  BY <2>1, <1>3
<1> QED  BY <1>3, <1>4

LEMMA CalmBefore ==
  ASSUME TypeOK, [Next]_vars, Calm'
  PROVE  Calm /\ \A r \in Requests : ~ReplyLost(r) /\ ~Unreached(r)
<1>1. OneCap
  BY CapsAreKept DEF Calm, OneCap
<1>2. faults' = 0
  BY DEF Calm
<1> QED  BY <1>1, <1>2, HealthyBefore DEF Calm

LEMMA ExactStep ==
  ASSUME TypeOK, CalmInv, [Next]_vars, Calm', NEW q \in Requests
  PROVE  ExactlyBooked(q)'
<1>1. ExactlyBooked(q) /\ CountersBelowCap /\ ~ReplyLost(q) /\ ~Unreached(q)
  BY CalmBefore DEF CalmInv
<1>2. ASSUME NEW r \in Requests, Admit(r) \/ HandlerStep(r), r # q
      PROVE  ExactlyBooked(q)'
  <2>1. /\ pc'[q] = pc[q] /\ net'[q] = net[q]
        /\ estimatedCost'[q] = estimatedCost[q] /\ actualCost'[q] = actualCost[q]
    BY <1>2 DEF TypeOK, HandlerStep, Admit, CacheHit, EnterSpendCheck, Answered,
       NoScript, ReplyLost, Unreached, Completed, ProviderFailed, FirstChunk,
       StreamDone, StreamDropped, Bill, ScriptRuns, ResendOrFailOpen, Continue,
       Book, Goto, StartTrip, books, quote, trip
  <2> QED  BY <1>1, <2>1 DEF ExactlyBooked
<1>3. CASE Answered(q)
  <2>1. Book(q) /\ pc[q] \in InRedis /\ UNCHANGED <<estimatedCost, actualCost>>
    BY <1>3 DEF Answered, ScriptRuns, quote
  <2>2. CASE pc[q] = "reserving"
    <3>1. pc'[q] = IF Fits(q) THEN "calling" ELSE "blocked"
      BY <1>3, <2>2 DEF Answered, Continue, Goto, TypeOK
    <3>2. Amount(q) = estimatedCost[q]
      BY <2>2 DEF Amount
    <3> QED
      BY <1>1, <2>1, <2>2, <3>1, <3>2, BookAmount DEF ExactlyBooked, TypeOK
  <2>3. CASE pc[q] = "adjusting"
    <3>1. pc'[q] = "settled"
      BY <1>3, <2>3 DEF Answered, Continue, Goto, TypeOK
    <3>2. Amount(q) = actualCost[q] - estimatedCost[q]
      BY <2>3 DEF Amount
    <3>3. ~Fits(q) => estimatedCost[q] < actualCost[q]
      <4>1. spendKey[q] \in Months /\ monthlyCap[q] \in Nat
        BY MoneyAssumption DEF TypeOK
      <4>2. counter[spendKey[q]] <= monthlyCap[q] /\ counter[spendKey[q]] \in Int
        BY <1>1, <2>3, <4>1 DEF CountersBelowCap, TypeOK
      <4> QED
        BY <3>2, <4>1, <4>2 DEF Fits, TypeOK
    <3> QED
      BY <1>1, <2>1, <2>3, <3>1, <3>2, <3>3, BookAmount DEF ExactlyBooked, TypeOK
  <2> QED  BY <2>1, <2>2, <2>3 DEF InRedis
<1>4. CASE Completed(q) \/ StreamDone(q)
  <2>1. Bill(q) /\ pc[q] \in {"calling", "streaming"}
    BY <1>4 DEF Completed, StreamDone
  <2>2. /\ pc'[q] = IF actualCost'[q] = estimatedCost[q] THEN "settled" ELSE "adjusting"
        /\ net'[q] = net[q] /\ estimatedCost'[q] = estimatedCost[q]
    BY <2>1 DEF Bill, Goto, books, quote, TypeOK
  <2> QED  BY <1>1, <2>1, <2>2 DEF ExactlyBooked
<1>5. CASE Admit(q) \/ HandlerStep(q)
  <2> USE <1>1 DEF ExactlyBooked, TypeOK, Goto, StartTrip, books, quote, trip
  <2>1. CASE Admit(q)  BY <2>1 DEF Admit
  <2>2. CASE CacheHit(q)  BY <2>2 DEF CacheHit
  <2>3. CASE EnterSpendCheck(q)  BY <2>3 DEF EnterSpendCheck
  <2>4. CASE NoScript(q)  BY <2>4 DEF NoScript
  <2>5. CASE ProviderFailed(q)  BY <2>5 DEF ProviderFailed
  <2>6. CASE FirstChunk(q)  BY <2>6 DEF FirstChunk
  <2>7. CASE StreamDropped(q)  BY <2>7 DEF StreamDropped
  <2> QED
    BY <1>1, <1>3, <1>4, <1>5, <2>1, <2>2, <2>3, <2>4, <2>5, <2>6, <2>7
    DEF HandlerStep
<1>6. CASE SetCap \/ NextMonth \/ RedisRestart \/ UNCHANGED vars
  BY <1>1, <1>6 DEF SetCap, NextMonth, RedisRestart, vars, ExactlyBooked, books, quote, trip
<1>7. CASE Crash
  <2>1. /\ pc'[q] = pc[q] \/ (pc'[q] = "killed" /\ pc[q] \in InFlight)
        /\ UNCHANGED <<net, estimatedCost, actualCost>>
    BY <1>7 DEF Crash, books, quote, trip
  <2> QED  BY <1>1, <2>1 DEF ExactlyBooked, InFlight, InRedis
<1> QED
  BY <1>2, <1>5, <1>6, <1>7 DEF Next

LEMMA CountersStep ==
  ASSUME TypeOK, TypeOK', CalmInv, [Next]_vars, Calm'
  PROVE  CountersBelowCap'
<1> SUFFICES ASSUME NEW m \in Months, NEW q \in Requests, pc'[q] # "idle"
             PROVE  counter'[m] <= monthlyCap'[q]
  BY DEF CountersBelowCap
<1>1. CountersBelowCap
  BY CalmBefore DEF CalmInv
<1>2. monthlyCap'[q] \in Nat /\ monthlyCap[q] \in Nat
      /\ counter[m] \in Int /\ counter'[m] \in Int
  BY MoneyAssumption DEF TypeOK
<1>3. ASSUME NEW r \in Requests, Book(r), pc[r] # "idle"
      PROVE  counter'[m] <= monthlyCap'[q]
  <2>1. pc'[r] # "idle" /\ monthlyCap'[r] = monthlyCap[r]
    BY <1>3, CapsAreKept
  <2>2. monthlyCap'[q] = monthlyCap[r]
    BY <2>1 DEF Calm, OneCap
  <2>3. counter[m] <= monthlyCap[r]
    BY <1>1, <1>3 DEF CountersBelowCap
  <2> QED
    BY <1>2, <1>3, <2>2, <2>3, BookRespectsCap
<1>4. CASE UNCHANGED counter
  <2>1. CASE pc[q] # "idle"
    BY <1>1, <1>4, <2>1, CapsAreKept DEF CountersBelowCap
  <2>2. CASE pc[q] = "idle" /\ \E r \in Requests : pc[r] # "idle"
    <3>1. PICK r \in Requests : pc[r] # "idle"
      BY <2>2
    <3>2. monthlyCap'[q] = monthlyCap[r]
      BY <3>1, CapsAreKept DEF Calm, OneCap
    <3> QED
      BY <1>1, <1>4, <3>1, <3>2 DEF CountersBelowCap
  <2>3. CASE \A r \in Requests : pc[r] = "idle"
    BY <1>2, <1>4, <2>3 DEF CalmInv
  <2> QED  BY <2>1, <2>2, <2>3
<1>5. UNCHANGED counter \/ \E r \in Requests : Book(r) /\ pc[r] # "idle"
  BY OnlyBookMovesCounters
<1> QED  BY <1>3, <1>4, <1>5

LEMMA StepCalm == TypeOK /\ CalmInv /\ [Next]_vars => CalmInv'
<1> SUFFICES ASSUME TypeOK, CalmInv, [Next]_vars PROVE CalmInv'
  OBVIOUS
<1>1. TypeOK'
  BY StepType
<1>2. Calm' => CountersBelowCap' /\ \A r \in Requests : ExactlyBooked(r)'
  BY <1>1, ExactStep, CountersStep
<1>3. ASSUME \A r \in Requests : pc'[r] = "idle"
      PROVE  \A m \in Months : counter'[m] = 0
  <2>1. \A r \in Requests : pc[r] = "idle"
    BY <1>3, CapsAreKept
  <2>2. UNCHANGED counter
    BY <2>1, OnlyBookMovesCounters
  <2> QED  BY <2>1, <2>2 DEF CalmInv
<1> QED  BY <1>2, <1>3 DEF CalmInv

(* As long as the cap has not changed and Redis is healthy, the second     *)
(* CheckSpendCap never refuses to give back an estimate that was too high: *)
(* what a settled request is booked at is its bill, or an estimate below   *)
(* it (chat.go:455-461).                                                   *)
THEOREM RefundNeverRefused == Spec => []NeverOvercharged
<1>1. CalmInv => NeverOvercharged
  BY DEF CalmInv, Calm, ExactlyBooked, NeverOvercharged
<1> QED
  BY <1>1, InitType, StepType, InitCalm, StepCalm, PTL DEF Spec

-----------------------------------------------------------------------------
(* The books balance: sums over the requests of a month.                   *)

LEMMA KeyedFinite ==
  \A m : IsFiniteSet(KeyedTo(m)) /\ KeyedTo(m) \subseteq Requests
  BY RequestsAssumption, FS_Subset DEF KeyedTo

LEMMA InitLedger == Init => Ledger
<1> SUFFICES ASSUME Init, NEW m \in Months
             PROVE  counter[m] = SumFunctionOnSet(net, KeyedTo(m))
  BY DEF Ledger
<1>1. \A r \in KeyedTo(m) : net[r] = 0
  BY DEF Init, KeyedTo
<1>2. SumFunctionOnSet(net, KeyedTo(m)) = 0
  BY <1>1, KeyedFinite, SumZero
<1> QED  BY <1>2 DEF Init

(* The script books the same amount in the counter and in net.             *)
LEMMA BookLedger ==
  ASSUME TypeOK, Ledger, NEW r \in Requests, Book(r), spendKey' = spendKey
  PROVE  Ledger'
<1> SUFFICES ASSUME NEW m \in Months
             PROVE  counter'[m] = SumFunctionOnSet(net', KeyedTo(m))
  BY DEF Ledger, KeyedTo
<1>1. counter[m] = SumFunctionOnSet(net, KeyedTo(m))
  BY DEF Ledger
<1>2. Amount(r) \in Int /\ spendKey[r] \in Months
  BY DEF TypeOK, Amount
<1>3. /\ IsFiniteSet(KeyedTo(m)) /\ KeyedTo(m) \subseteq Requests
      /\ net \in [Requests -> Int] /\ net' \in [Requests -> Int]
  BY KeyedFinite, BookType DEF TypeOK
<1>4. CASE UNCHANGED books
  BY <1>1, <1>4 DEF books
<1>5. CASE /\ counter' = [counter EXCEPT ![spendKey[r]] = @ + Amount(r)]
           /\ net' = [net EXCEPT ![r] = @ + Amount(r)]
  <2>1. \A q \in Requests : q # r => net'[q] = net[q]
    BY <1>5, <1>3
  <2>2. CASE r \in KeyedTo(m)
    <3>1. SumFunctionOnSet(net', KeyedTo(m))
            = SumFunctionOnSet(net, KeyedTo(m)) + (net'[r] - net[r])
      BY <1>3, <2>1, <2>2, SumUpdate
    <3>2. net'[r] - net[r] = Amount(r)
      BY <1>2, <1>3, <1>5
    <3>3. counter'[m] = counter[m] + Amount(r)
      BY <1>2, <1>5, <2>2 DEF KeyedTo, TypeOK
    <3> QED  BY <1>1, <3>1, <3>2, <3>3
  <2>3. CASE r \notin KeyedTo(m)
    <3>1. SumFunctionOnSet(net', KeyedTo(m)) = SumFunctionOnSet(net, KeyedTo(m))
      BY <1>3, <2>1, <2>3, SumSame
    <3>2. counter'[m] = counter[m]
      BY <1>2, <1>5, <2>3 DEF KeyedTo, TypeOK
    <3> QED  BY <1>1, <3>1, <3>2
  <2> QED  BY <2>2, <2>3
<1> QED  BY <1>4, <1>5 DEF Book

(* A request changes its month before it has booked anything.              *)
LEMMA RekeyLedger ==
  ASSUME TypeOK, BooksInv, Ledger, NEW r \in Requests, EnterSpendCheck(r)
  PROVE  Ledger'
<1> SUFFICES ASSUME NEW m \in Months
             PROVE  counter'[m] = SumFunctionOnSet(net', KeyedTo(m)')
  BY DEF Ledger
<1>1. counter' = counter /\ net' = net
  BY DEF EnterSpendCheck, books
<1>2. net[r] = 0 /\ net \in [Requests -> Int]
  BY DEF EnterSpendCheck, BooksInv, BookedAt, TypeOK
<1>3. KeyedTo(m)' \ {r} = KeyedTo(m) \ {r}
  BY DEF EnterSpendCheck, KeyedTo, TypeOK
<1>4. KeyedTo(m) \subseteq Requests /\ KeyedTo(m)' \subseteq Requests
  BY DEF KeyedTo
<1>5. /\ IsFiniteSet(KeyedTo(m)) /\ IsFiniteSet(KeyedTo(m)')
  BY <1>4, RequestsAssumption, FS_Subset
<1>6. /\ SumFunctionOnSet(net, KeyedTo(m)) = SumFunctionOnSet(net, KeyedTo(m) \ {r})
      /\ SumFunctionOnSet(net, KeyedTo(m)') = SumFunctionOnSet(net, KeyedTo(m)' \ {r})
  BY <1>2, <1>4, <1>5, SumDropsZero
<1> QED  BY <1>1, <1>3, <1>6 DEF Ledger

LEMMA StepLedger ==
  ASSUME TypeOK, BooksInv, Ledger, [Next]_vars PROVE Ledger'
<1>1. CASE \E r \in Requests : EnterSpendCheck(r)
  BY <1>1, RekeyLedger
<1>2. CASE \E r \in Requests : Answered(r) \/ ReplyLost(r)
  <2>1. PICK r \in Requests : Answered(r) \/ ReplyLost(r)
    BY <1>2
  <2>2. Book(r) /\ spendKey' = spendKey
    BY <2>1 DEF Answered, ReplyLost, ScriptRuns, ResendOrFailOpen, quote
  <2> QED  BY <2>2, BookLedger
<1>3. CASE UNCHANGED <<counter, net, spendKey>>
  BY <1>3 DEF Ledger, KeyedTo
<1> QED
  BY <1>1, <1>2, <1>3
  DEF Next, vars, HandlerStep, Admit, CacheHit, NoScript, Unreached, Completed,
      ProviderFailed, FirstChunk, StreamDone, StreamDropped, Bill, SetCap,
      NextMonth, RedisRestart, Crash, ResendOrFailOpen, books, quote

(* Nothing is booked twice, lost, or charged to another month: a counter   *)
(* is the sum of what the script added for that month's requests           *)
(* (chat.go:382-399, chat.go:457, chat_stream.go:490), for any number of   *)
(* handlers, faults and month turns.                                       *)
THEOREM BooksBalance == Spec => []Ledger
  BY InitType, StepType, InitBooks, StepBooks, InitLedger, StepLedger, PTL DEF Spec

-----------------------------------------------------------------------------
(* While Redis is healthy nothing was resent and nothing failed open.      *)

Unharmed == faults = 0 => resent = {} /\ failedOpen = {}

LEMMA InitUnharmed == Init => Unharmed
  BY DEF Init, Unharmed

LEMMA StepUnharmed == TypeOK /\ Unharmed /\ [Next]_vars => Unharmed'
<1> SUFFICES ASSUME TypeOK, Unharmed, [Next]_vars, faults' = 0
             PROVE  resent' = {} /\ failedOpen' = {}
  BY DEF Unharmed
<1>1. faults \in Nat
  BY BoundAssumption DEF TypeOK
<1>2. CASE faults' = faults + 1
  BY <1>1, <1>2
<1>3. CASE /\ faults' = faults /\ failedOpen' = failedOpen
           /\ resent' \subseteq resent
  BY <1>3 DEF Unharmed
<1> QED
  BY <1>2, <1>3
  DEF Next, vars, HandlerStep, Admit, CacheHit, EnterSpendCheck, Answered, NoScript,
      ReplyLost, Unreached, Completed, ProviderFailed, FirstChunk, StreamDone,
      StreamDropped, Bill, StartTrip, SetCap, NextMonth, RedisRestart, Crash,
      ResendOrFailOpen, trip

LEMMA Unharming == Spec => []Unharmed
  BY InitType, StepType, InitUnharmed, StepUnharmed, PTL DEF Spec

(* Then nobody's bookings are negative, so any of them together are at     *)
(* most the counter.                                                       *)
LEMMA PartOfTheBooks ==
  ASSUME TypeOK, BooksInv, Ledger, Unharmed, faults = 0,
         NEW m \in Months, NEW S \in SUBSET KeyedTo(m)
  PROVE  SumFunctionOnSet(net, S) <= counter[m]
<1>1. \A r \in KeyedTo(m) : net[r] \in Nat
  BY DEF KeyedTo, BooksInv, BookedAt, Unharmed, TypeOK
<1> QED  BY <1>1, KeyedFinite, SumMonotone DEF Ledger

(* Whoever is with a provider has the estimate in the counter.             *)
EstimatesInside ==
  faults = 0 => \A m \in Months : \A S \in SUBSET Reserved(m) :
    SumFunctionOnSet(estimatedCost, S) <= counter[m]

LEMMA ReservedFinite ==
  ASSUME NEW m, NEW S \in SUBSET Reserved(m)
  PROVE  S \subseteq KeyedTo(m) /\ S \subseteq Requests /\ IsFiniteSet(S)
<1>1. S \subseteq KeyedTo(m) /\ S \subseteq Requests
  BY DEF Reserved, KeyedTo
<1> QED  BY <1>1, RequestsAssumption, FS_Subset

LEMMA Inside == Spec => []EstimatesInside
<1>1. ASSUME TypeOK, BooksInv, Ledger, Unharmed PROVE EstimatesInside
  <2> SUFFICES ASSUME faults = 0, NEW m \in Months, NEW S \in SUBSET Reserved(m)
               PROVE  SumFunctionOnSet(estimatedCost, S) <= counter[m]
    BY DEF EstimatesInside
  <2>1. S \subseteq KeyedTo(m) /\ S \subseteq Requests /\ IsFiniteSet(S)
    BY ReservedFinite
  <2>2. \A r \in S : /\ estimatedCost[r] \in Int /\ net[r] \in Int
                     /\ estimatedCost[r] <= net[r]
    BY <1>1, <2>1 DEF Reserved, BooksInv, BookedAt, Unharmed, TypeOK
  <2>3. /\ SumFunctionOnSet(estimatedCost, S) <= SumFunctionOnSet(net, S)
        /\ SumFunctionOnSet(estimatedCost, S) \in Int
        /\ SumFunctionOnSet(net, S) \in Int
    BY <2>1, <2>2, SumPointwise, SumType
  <2>4. SumFunctionOnSet(net, S) <= counter[m]
    BY <1>1, <2>1, PartOfTheBooks
  <2>5. counter[m] \in Int
    BY <1>1 DEF TypeOK
  <2> QED  BY <2>3, <2>4, <2>5
<1> QED  BY <1>1, TypeCorrect, Books, BooksBalance, Unharming, PTL

(* Of any requests with a provider, the one that was checked last had the  *)
(* others' estimates in the counter already: together they fit its cap.    *)
(* Stated for all of them it would not survive that one's leaving.         *)
Commitments ==
  faults = 0 => \A m \in Months : \A S \in SUBSET Reserved(m) :
    S # {} => \E q \in S : SumFunctionOnSet(estimatedCost, S) <= monthlyCap[q]

LEMMA InitCommitments == Init => Commitments
<1>1. Init => \A m \in Months : Reserved(m) = {}
  BY DEF Init, Reserved, KeyedTo
<1> QED  BY <1>1 DEF Commitments

(* How a request gets to a provider while Redis is healthy.                *)
LEMMA NewlyReserved ==
  ASSUME TypeOK, [Next]_vars, faults' = 0, NEW m \in Months,
         NEW r \in Reserved(m)'
  PROVE  /\ r \in Requests /\ monthlyCap'[r] = monthlyCap[r]
         /\ estimatedCost'[r] = estimatedCost[r]
         /\ r \notin Reserved(m) => counter'[m] <= monthlyCap[r]
<1>1. /\ r \in Requests /\ spendKey'[r] = m
      /\ pc'[r] \in {"calling", "streaming", "adjusting"}
  BY DEF Reserved, KeyedTo
<1>2. \A q \in Requests : ~ReplyLost(q) /\ ~Unreached(q)
  BY HealthyBefore
<1>3. monthlyCap'[r] = monthlyCap[r]
  <2>1. pc[r] # "idle"
    BY <1>1, CapsAreKept DEF Admit, Goto, TypeOK
  <2> QED  BY <1>1, <2>1, CapsAreKept
<1>4. ASSUME NEW q \in Requests, Admit(q) \/ HandlerStep(q), q # r
      PROVE  /\ pc'[r] = pc[r] /\ spendKey'[r] = spendKey[r]
             /\ estimatedCost'[r] = estimatedCost[r]
  BY <1>1, <1>2, <1>4
  DEF TypeOK, HandlerStep, Admit, CacheHit, EnterSpendCheck, Answered, NoScript,
      Completed, ProviderFailed, FirstChunk, StreamDone, StreamDropped, Bill,
      Continue, Goto, quote
<1>5. CASE Answered(r)
  <2>1. /\ pc[r] = "reserving" /\ Fits(r) /\ Book(r)
        /\ spendKey[r] = m /\ estimatedCost' = estimatedCost
    BY <1>1, <1>5 DEF Answered, ScriptRuns, Continue, Goto, InRedis, quote, TypeOK
  <2>2. Amount(r) \in Int /\ spendKey[r] \in Months
    BY <1>1 DEF TypeOK, Amount
  <2>3. counter'[m] = counter[m] + Amount(r)
    BY <2>1, <2>2 DEF Book, TypeOK
  <2> QED  BY <1>1, <1>3, <2>1, <2>3 DEF Fits
<1>6. CASE Admit(r) \/ (HandlerStep(r) /\ ~Answered(r))
  <2>1. /\ pc[r] \in {"calling", "streaming", "adjusting"}
        /\ spendKey'[r] = spendKey[r] /\ estimatedCost'[r] = estimatedCost[r]
    BY <1>1, <1>2, <1>6
    DEF TypeOK, HandlerStep, Admit, CacheHit, EnterSpendCheck, NoScript, Completed,
        ProviderFailed, FirstChunk, StreamDone, StreamDropped, Bill, Goto, quote
  <2> QED  BY <1>1, <1>3, <2>1 DEF Reserved, KeyedTo
<1>7. CASE SetCap \/ NextMonth \/ RedisRestart \/ Crash \/ UNCHANGED vars
  <2>1. /\ pc'[r] = pc[r] /\ spendKey' = spendKey /\ estimatedCost' = estimatedCost
    BY <1>1, <1>7 DEF SetCap, NextMonth, RedisRestart, Crash, vars, quote
  <2> QED  BY <1>1, <1>3, <2>1 DEF Reserved, KeyedTo
<1>8. CASE \E q \in Requests : (Admit(q) \/ HandlerStep(q)) /\ q # r
  BY <1>1, <1>3, <1>4, <1>8 DEF Reserved, KeyedTo
<1> QED  BY <1>5, <1>6, <1>7, <1>8 DEF Next

LEMMA CapType ==
  ASSUME NEW caps \in [Requests -> Caps], NEW r \in Requests
  PROVE  caps[r] \in Int
<1>1. caps[r] \in Nat
  BY MoneyAssumption
<1> QED  BY <1>1

LEMMA StepCommitments ==
  TypeOK /\ TypeOK' /\ Commitments /\ EstimatesInside' /\ [Next]_vars => Commitments'
<1> SUFFICES ASSUME TypeOK, TypeOK', Commitments, EstimatesInside', [Next]_vars,
                    faults' = 0, NEW m \in Months,
                    NEW S \in SUBSET Reserved(m)', S # {}
             PROVE  \E q \in S : SumFunctionOnSet(estimatedCost', S) <= monthlyCap'[q]
  BY DEF Commitments
<1>1. faults = 0
  BY HealthyBefore
<1>2. \A r \in S : /\ r \in Requests /\ monthlyCap'[r] = monthlyCap[r]
                   /\ estimatedCost'[r] = estimatedCost[r]
                   /\ r \notin Reserved(m) => counter'[m] <= monthlyCap[r]
  BY NewlyReserved
<1>3. IsFiniteSet(S) /\ S \subseteq Requests
  BY <1>2, RequestsAssumption, FS_Subset
<1>4. CASE S \subseteq Reserved(m)
  <2>1. PICK q \in S : SumFunctionOnSet(estimatedCost, S) <= monthlyCap[q]
    BY <1>1, <1>4 DEF Commitments
  <2>2. \A r \in S : estimatedCost[r] \in Int /\ estimatedCost'[r] \in Int
    BY <1>3 DEF TypeOK
  <2>3. SumFunctionOnSet(estimatedCost', S) = SumFunctionOnSet(estimatedCost, S)
    BY <1>2, <1>3, <2>2, SumSame
  <2> QED  BY <1>2, <2>1, <2>3
<1>5. CASE \E r \in S : r \notin Reserved(m)
  <2>1. PICK r \in S : r \notin Reserved(m)
    BY <1>5
  <2>2. counter'[m] <= monthlyCap'[r]
    BY <1>2, <2>1
  <2>3. SumFunctionOnSet(estimatedCost', S) <= counter'[m]
    BY DEF EstimatesInside
  <2>4. SumFunctionOnSet(estimatedCost', S) \in Int
    <3>1. \A q \in S : estimatedCost'[q] \in Int
      BY <1>3 DEF TypeOK
    <3> QED  BY <1>3, <3>1, SumType
  <2>5. counter'[m] \in Int /\ monthlyCap'[r] \in Int
    <3>1. counter' \in [Months -> Int] /\ monthlyCap' \in [Requests -> Caps]
      BY DEF TypeOK
    <3> QED  BY <1>2, <3>1, CapType
  <2> QED  BY <2>2, <2>3, <2>4, <2>5
<1> QED  BY <1>4, <1>5

(* While Redis is healthy the requests at a provider have their estimates  *)
(* in the counter all together, and these fit the cap of one of them       *)
(* (chat.go:399-414): concurrent requests cannot each be admitted on the   *)
(* same remaining budget.                                                  *)
THEOREM NobodyOvercommits == Spec => []NoOvercommit
<1>1. EstimatesInside /\ Commitments => NoOvercommit
  <2> SUFFICES ASSUME EstimatesInside, Commitments, faults = 0, NEW m \in Months
               PROVE  /\ SumFunctionOnSet(estimatedCost, Reserved(m)) <= counter[m]
                      /\ Reserved(m) # {} => \E q \in Reserved(m) :
                           SumFunctionOnSet(estimatedCost, Reserved(m)) <= monthlyCap[q]
    BY DEF NoOvercommit
  <2>1. Reserved(m) \in SUBSET Reserved(m)
    OBVIOUS
  <2> QED  BY <2>1 DEF EstimatesInside, Commitments
<1> QED
  BY <1>1, InitCommitments, StepCommitments, TypeCorrect, Inside, PTL DEF Spec

(* How hard the cap is with one cap and a healthy Redis: the bills of a    *)
(* month exceed it at most by what their estimates fell short of them      *)
(* (chat.go:399, chat.go:455-461).                                         *)
THEOREM CapIsNearlyHard == Spec => []OvershootBounded
<1>1. ASSUME TypeOK, BooksInv, CalmInv, Ledger, Unharmed PROVE OvershootBounded
  <2> SUFFICES ASSUME faults = 0, OneCap, NEW m \in Months, NEW q \in Settled(m)
               PROVE  SumFunctionOnSet(actualCost, Settled(m))
                        <= monthlyCap[q] + SumFunctionOnSet(Shortfall, Settled(m))
    BY DEF OvershootBounded
  <2> DEFINE S == Settled(m)
  <2>1. S \subseteq KeyedTo(m) /\ S \subseteq Requests
    BY DEF Settled, KeyedTo
  <2>2. IsFiniteSet(S)
    BY <2>1, RequestsAssumption, FS_Subset
  <2>3. \A r \in S : /\ actualCost[r] \in Int /\ net[r] \in Int /\ Shortfall[r] \in Int
                      /\ actualCost[r] <= net[r] + Shortfall[r]
    <3> SUFFICES ASSUME NEW r \in S
                 PROVE  /\ actualCost[r] \in Int /\ net[r] \in Int /\ Shortfall[r] \in Int
                        /\ actualCost[r] <= net[r] + Shortfall[r]
      OBVIOUS
    <3>1. /\ actualCost[r] \in Nat /\ net[r] \in Int /\ estimatedCost[r] \in Nat
      BY <1>1, <2>1 DEF TypeOK
    <3>2. \/ net[r] = actualCost[r]
          \/ net[r] = estimatedCost[r] /\ estimatedCost[r] < actualCost[r]
      BY <1>1 DEF CalmInv, Calm, ExactlyBooked, Settled, KeyedTo
    <3>3. Shortfall[r] = IF actualCost[r] > estimatedCost[r]
                           THEN actualCost[r] - estimatedCost[r] ELSE 0
      BY <2>1 DEF Shortfall
    <3> QED  BY <3>1, <3>2, <3>3
  <2>4. counter[m] <= monthlyCap[q] /\ counter[m] \in Int /\ monthlyCap[q] \in Int
    <3>1. q \in Requests /\ pc[q] = "settled"
      BY DEF Settled, KeyedTo
    <3>2. counter[m] <= monthlyCap[q]
      BY <1>1, <3>1 DEF CalmInv, Calm, CountersBelowCap
    <3>3. counter \in [Months -> Int] /\ monthlyCap \in [Requests -> Caps]
      BY <1>1 DEF TypeOK
    <3>4. counter[m] \in Int
      BY <3>3
    <3>5. monthlyCap[q] \in Int
      BY <3>1, <3>3, CapType
    <3> QED  BY <3>2, <3>4, <3>5
  <2>5. SumFunctionOnSet(net, S) <= counter[m]
    BY <1>1, <2>1, PartOfTheBooks
  <2> HIDE DEF S
  <2>6. /\ SumFunctionOnSet(actualCost, S)
             <= SumFunctionOnSet(net, S) + SumFunctionOnSet(Shortfall, S)
        /\ SumFunctionOnSet(actualCost, S) \in Int
        /\ SumFunctionOnSet(net, S) \in Int
        /\ SumFunctionOnSet(Shortfall, S) \in Int
    BY <2>2, <2>3, SumPointwiseTwo, SumType
  <2>7. SumFunctionOnSet(actualCost, S) <= monthlyCap[q] + SumFunctionOnSet(Shortfall, S)
    BY <2>4, <2>5, <2>6
  <2> QED  BY <2>7 DEF S
<1> QED
  BY <1>1, InitType, StepType, InitCalm, StepCalm, Books, BooksBalance, Unharming, PTL
  DEF Spec

(* With one cap and a healthy Redis a counter is ahead of the settled      *)
(* bills at most by the estimates of requests that are in flight or ended  *)
(* without a bill (chat.go:416, main.go:154).                              *)
THEOREM SurplusIsBounded == Spec => []SurplusBounded
<1>1. ASSUME TypeOK, CalmInv, Ledger PROVE SurplusBounded
  <2> SUFFICES ASSUME faults = 0, OneCap, NEW m \in Months
               PROVE  counter[m] <= SumFunctionOnSet(Claim, KeyedTo(m))
    BY DEF SurplusBounded
  <2>1. IsFiniteSet(KeyedTo(m)) /\ KeyedTo(m) \subseteq Requests
    BY KeyedFinite
  <2>2. \A r \in Requests : net[r] \in Int /\ Claim[r] \in Int /\ net[r] <= Claim[r]
    <3> SUFFICES ASSUME NEW r \in Requests
                 PROVE  net[r] \in Int /\ Claim[r] \in Int /\ net[r] <= Claim[r]
      OBVIOUS
    <3>1. /\ net[r] \in Int /\ estimatedCost[r] \in Nat /\ actualCost[r] \in Nat
          /\ pc[r] \in {"idle"} \cup InFlight \cup Final
      BY <1>1 DEF TypeOK
    <3>2. ExactlyBooked(r)
      BY <1>1 DEF CalmInv, Calm
    <3> QED  BY <3>1, <3>2 DEF Claim, ExactlyBooked, InFlight, InRedis, Final
  <2>3. SumFunctionOnSet(net, KeyedTo(m)) <= SumFunctionOnSet(Claim, KeyedTo(m))
    BY <2>1, <2>2, SumPointwise
  <2> QED  BY <1>1, <2>3 DEF Ledger
<1> QED
  BY <1>1, InitType, StepType, InitCalm, StepCalm, BooksBalance, PTL DEF Spec

=============================================================================
