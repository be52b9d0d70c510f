------------------------ MODULE ResponseCacheProofs ------------------------
(* What the response caches keep, for any number of replicas, handlers,    *)
(* projects, targets and messages, any TTLs, delays and faults.            *)
(* CacheMaintenanceProofs cites these lemmas for its steps.                *)
EXTENDS ResponseCache, TLAPS

-----------------------------------------------------------------------------
(* Type correctness.                                                       *)

Labels == {"idle", "row", "warm", "semantic", "calling", "similar"}

(* A handler that is under way knows its question, one that has something  *)
(* to store holds an answer.                                               *)
AtWork ==
  \A r \in Handlers :
    /\ pc[r] # "idle" => asked[r] \in Questions
    /\ pc[r] \in {"warm", "similar"} => held[r] \in Answers

(* What is stored is an answer.                                            *)
Stored ==
  /\ \A q \in Questions : redis[q] = Nothing \/ redis[q].answer \in book
  /\ \A q \in Questions : row[q] = Nothing \/ row[q].answer \in book
  /\ \A p \in Prompts : similar[p] = Nothing \/ similar[p].answer \in book
  /\ \A r \in Handlers : pc[r] \in {"warm", "similar"} => held[r] \in book
  /\ \A write \in pending : write.answer \in book

TypeInv == ClusterTypeOK /\ CacheTypeOK /\ AtWork /\ Stored

LEMMA CacheInitType ==
  ASSUME ClusterInit, CacheInit PROVE TypeInv
<1>1. ClusterTypeOK
  BY ClusterAssumption DEF ClusterInit, ClusterTypeOK
<1>2. CacheTypeOK
  BY <1>1 DEF CacheInit, CacheTypeOK, Entry, Nothing, ClusterInit
<1> QED  BY <1>1, <1>2 DEF CacheInit, TypeInv, AtWork, Stored

LEMMA EntryType ==
  /\ Nothing \in Entry
  /\ \A answer \in Answers, until \in Int : [answer |-> answer, until |-> until] \in Entry
  /\ \A entry \in Entry : entry.until \in Int
  /\ Nothing.until = 0
  BY DEF Entry, Nothing

LEMMA ClockType ==
  ASSUME ClusterTypeOK
  PROVE  clock \in 0 .. MaxClock /\ clock \in Int
  BY ClusterAssumption DEF ClusterTypeOK

LEMMA HomeNow ==
  ASSUME ClusterTypeOK, NEW g \in Gateways
  PROVE  Now(g) \in Int /\ Now(g) <= clock + Skew /\ Now(g) >= clock - Skew /\ Skew \in Nat
  BY ClusterAssumption DEF ClusterTypeOK, Now

LEMMA AnswerType ==
  /\ \A answer \in Answers : answer.question \in Questions /\ answer.at \in Int
  /\ \A q \in Questions, t \in 0 .. MaxClock : [question |-> q, at |-> t] \in Answers
  /\ \A q \in Questions : q.messages \in Messages
  /\ \A q \in Questions, final \in Targets : [q EXCEPT !.target = final] \in Questions
  BY ClusterAssumption DEF Answers, Questions

(* Finish and Hold leave the handlers' variables well typed.               *)
LEMMA FinishType ==
  ASSUME ClusterTypeOK, CacheTypeOK, AtWork, NEW r \in Handlers, Finish(r)
  PROVE  /\ pc' \in [Handlers -> Labels] /\ asked' \in [Handlers -> Questions \cup {None}]
         /\ held' \in [Handlers -> Answers \cup {None}] /\ since' \in [Handlers -> 0 .. clock]
         /\ pc'[r] = "idle" /\ \A s \in Handlers : s # r =>
              pc'[s] = pc[s] /\ asked'[s] = asked[s] /\ held'[s] = held[s] /\ since'[s] = since[s]
  BY ClockType DEF Finish, Goto, CacheTypeOK, Labels

LEMMA HoldType ==
  ASSUME ClusterTypeOK, CacheTypeOK, NEW r \in Handlers, NEW answer \in Answers,
         NEW label \in Labels, Hold(r, answer), Goto(r, label)
  PROVE  /\ pc' \in [Handlers -> Labels]
         /\ held' \in [Handlers -> Answers \cup {None}] /\ since' \in [Handlers -> 0 .. clock]
         /\ pc'[r] = label /\ held'[r] = answer /\ since'[r] = clock
         /\ \A s \in Handlers : s # r =>
              pc'[s] = pc[s] /\ held'[s] = held[s] /\ since'[s] = since[s]
  BY ClockType DEF Hold, Goto, CacheTypeOK, Labels

LEMMA GotoType ==
  ASSUME CacheTypeOK, NEW r \in Handlers, NEW label \in Labels, Goto(r, label)
  PROVE  /\ pc' \in [Handlers -> Labels] /\ pc'[r] = label
         /\ \A s \in Handlers : s # r => pc'[s] = pc[s]
  BY DEF Goto, CacheTypeOK, Labels

LEMMA ClusterSteps ==
  ASSUME ClusterTypeOK, UNCHANGED cluster \/ Error
  PROVE  ClusterTypeOK' /\ UNCHANGED <<clock, up>>
  BY ClusterAssumption DEF ClusterTypeOK, Error, Fault, cluster

LEMMA GetType ==
  ASSUME TypeInv, NEW r \in Handlers, Get(r) PROVE TypeInv'
<1>1. ClusterTypeOK /\ CacheTypeOK /\ AtWork /\ Stored
  BY DEF TypeInv
<1>2. UNCHANGED <<redis, row, similar, pending, book>>
  BY DEF Get, caches
<1>3. PICK q \in Questions :
        \/ /\ redis[q] # Nothing
           /\ Serve(q, redis[q].answer)
           /\ UNCHANGED <<cluster, pc, local>>
        \/ /\ UNCHANGED cluster \/ Error
           /\ asked' = [asked EXCEPT ![r] = q]
           /\ Goto(r, "row")
           /\ lent' = {}
           /\ UNCHANGED <<held, since>>
  BY DEF Get
<1>4. CASE redis[q] # Nothing /\ Serve(q, redis[q].answer) /\ UNCHANGED <<cluster, pc, local>>
  <2>1. ClusterTypeOK' /\ UNCHANGED <<clock, up, pc, asked, held, since>>
    BY <1>1, <1>4, ClusterSteps DEF local
  <2>2. redis[q].answer \in book
    BY <1>1, <1>4 DEF Stored
  <2>3. lent' \subseteq [to : Questions, answer : book']
    BY <1>2, <1>4, <2>2 DEF Serve
  <2>4. CacheTypeOK'
    BY <1>1, <1>2, <2>1, <2>3 DEF CacheTypeOK
  <2>5. AtWork' /\ Stored'
    BY <1>1, <1>2, <2>1 DEF AtWork, Stored
  <2> QED  BY <2>1, <2>4, <2>5 DEF TypeInv
<1>5. CASE /\ UNCHANGED cluster \/ Error
           /\ asked' = [asked EXCEPT ![r] = q]
           /\ Goto(r, "row")
           /\ lent' = {}
           /\ UNCHANGED <<held, since>>
  <2>1. ClusterTypeOK' /\ UNCHANGED <<clock, up, held, since>>
    BY <1>1, <1>5, ClusterSteps
  <2>2. /\ pc' \in [Handlers -> Labels] /\ pc'[r] = "row"
        /\ \A s \in Handlers : s # r => pc'[s] = pc[s]
    BY <1>1, <1>5, GotoType DEF Labels
  <2>3. /\ asked' \in [Handlers -> Questions \cup {None}] /\ asked'[r] = q
        /\ \A s \in Handlers : s # r => asked'[s] = asked[s]
    BY <1>1, <1>5 DEF CacheTypeOK
  <2>4. CacheTypeOK'
    BY <1>1, <1>2, <1>5, <2>1, <2>2, <2>3 DEF CacheTypeOK, Labels
  <2>5. AtWork' /\ Stored'
    BY <1>1, <1>2, <2>1, <2>2, <2>3 DEF AtWork, Stored
  <2> QED  BY <2>1, <2>4, <2>5 DEF TypeInv
<1> QED  BY <1>3, <1>4, <1>5

LEMMA getFromDBType ==
  ASSUME TypeInv, NEW r \in Handlers, getFromDB(r) PROVE TypeInv'
<1>1. ClusterTypeOK /\ CacheTypeOK /\ AtWork /\ Stored
  BY DEF TypeInv
<1>2. UNCHANGED <<redis, row, similar, pending, book, asked>> /\ lent' = {} /\ pc[r] = "row"
  BY DEF getFromDB, caches, Step
<1>3. asked[r] \in Questions
  BY <1>1, <1>2 DEF AtWork
<1> DEFINE entry == row[asked[r]]
<1>4. CASE clock < entry.until /\ Hold(r, entry.answer) /\ Goto(r, "warm") /\ UNCHANGED cluster
  <2>1. ClusterTypeOK' /\ UNCHANGED <<clock, up>>
    BY <1>1, <1>4, ClusterSteps
  <2>2. entry # Nothing
    BY <1>1, <1>4, EntryType, ClockType
  <2>3. entry.answer \in book /\ entry.answer \in Answers
    BY <1>1, <1>3, <2>2 DEF Stored, CacheTypeOK
  <2>4. /\ pc' \in [Handlers -> Labels]
        /\ held' \in [Handlers -> Answers \cup {None}] /\ since' \in [Handlers -> 0 .. clock]
        /\ pc'[r] = "warm" /\ held'[r] = entry.answer
        /\ \A s \in Handlers : s # r => pc'[s] = pc[s] /\ held'[s] = held[s]
    BY <1>1, <1>4, <2>3, HoldType DEF Labels
  <2>5. CacheTypeOK'
    BY <1>1, <1>2, <2>1, <2>4 DEF CacheTypeOK, Labels
  <2>6. AtWork' /\ Stored'
    BY <1>1, <1>2, <1>3, <2>3, <2>4 DEF AtWork, Stored
  <2> QED  BY <2>1, <2>5, <2>6 DEF TypeInv
<1>5. CASE /\ UNCHANGED cluster \/ Error
           /\ \E next \in AfterExactMiss(asked[r]) : Goto(r, next)
           /\ UNCHANGED <<held, since>>
  <2>1. ClusterTypeOK' /\ UNCHANGED <<clock, up>>
    BY <1>1, <1>5, ClusterSteps
  <2>2. PICK next \in {"calling", "semantic"} : Goto(r, next)
    BY <1>5 DEF AfterExactMiss
  <2>3. /\ pc' \in [Handlers -> Labels] /\ pc'[r] = next
        /\ \A s \in Handlers : s # r => pc'[s] = pc[s]
    BY <1>1, <2>2, GotoType DEF Labels
  <2>4. CacheTypeOK'
    BY <1>1, <1>2, <1>5, <2>1, <2>3 DEF CacheTypeOK, Labels
  <2>5. AtWork' /\ Stored'
    BY <1>1, <1>2, <1>3, <1>5, <2>2, <2>3 DEF AtWork, Stored
  <2> QED  BY <2>1, <2>4, <2>5 DEF TypeInv
<1> QED  BY <1>4, <1>5 DEF getFromDB

LEMMA StoreWarmType ==
  ASSUME TypeInv, NEW r \in Handlers, StoreWarm(r) PROVE TypeInv'
<1>1. ClusterTypeOK /\ CacheTypeOK /\ AtWork /\ Stored
  BY DEF TypeInv
<1>2. /\ UNCHANGED <<row, similar, pending, book>> /\ pc[r] = "warm"
      /\ UNCHANGED cluster \/ Error
      /\ Serve(asked[r], held[r]) /\ Finish(r)
  BY DEF StoreWarm, Step
<1>3. asked[r] \in Questions /\ held[r] \in Answers /\ held[r] \in book
  BY <1>1, <1>2 DEF AtWork, Stored
<1>4. ClusterTypeOK' /\ UNCHANGED <<clock, up>>
  BY <1>1, <1>2, ClusterSteps
<1>5. /\ pc' \in [Handlers -> Labels] /\ asked' \in [Handlers -> Questions \cup {None}]
      /\ held' \in [Handlers -> Answers \cup {None}] /\ since' \in [Handlers -> 0 .. clock]
      /\ pc'[r] = "idle" /\ \A s \in Handlers : s # r =>
           pc'[s] = pc[s] /\ asked'[s] = asked[s] /\ held'[s] = held[s] /\ since'[s] = since[s]
  BY <1>1, <1>2, FinishType
<1>6. /\ redis' \in [Questions -> Entry]
      /\ \A q \in Questions : redis'[q] = redis[q] \/ redis'[q].answer = held[r]
  <2>1. clock + Warm \in Int
    BY <1>1, ClockType, CacheAssumption
  <2>2. [answer |-> held[r], until |-> clock + Warm] \in Entry
    BY <1>3, <2>1, EntryType
  <2>3. \/ redis' = [redis EXCEPT ![asked[r]] = [answer |-> held[r], until |-> clock + Warm]]
        \/ redis' = redis
    BY DEF StoreWarm
  <2> QED  BY <1>1, <1>3, <2>2, <2>3 DEF CacheTypeOK
<1>7. CacheTypeOK'
  BY <1>1, <1>2, <1>3, <1>4, <1>5, <1>6 DEF CacheTypeOK, Labels, Serve
<1>8. AtWork' /\ Stored'
  BY <1>1, <1>2, <1>3, <1>5, <1>6 DEF AtWork, Stored
<1> QED  BY <1>4, <1>7, <1>8 DEF TypeInv

(* A candidate is a live row.                                              *)
LEMMA CandidateType ==
  ASSUME TypeInv, NEW q \in Questions, NEW p \in Nearest(q)
  PROVE  /\ p \in Prompts /\ clock < similar[p].until
         /\ similar[p] # Nothing /\ similar[p].answer \in book /\ similar[p].answer \in Answers
         /\ similar[p].answer.question.project = q.project
         /\ similar[p].answer.question.target = q.target
         /\ <<Prompt[q.messages], p>> \in Similar
<1>1. p \in Candidates(q)
  BY DEF Nearest
<1>2. p \in Prompts /\ clock < similar[p].until
  BY <1>1 DEF Candidates
<1>3. similar[p] # Nothing
  BY <1>2, EntryType, ClockType DEF TypeInv
<1>4. similar[p].answer \in book /\ similar[p].answer \in Answers
  BY <1>2, <1>3 DEF TypeInv, Stored, CacheTypeOK
<1> QED  BY <1>1, <1>2, <1>3, <1>4 DEF Candidates

LEMMA GetSimilarType ==
  ASSUME TypeInv, NEW r \in Handlers, GetSimilar(r) PROVE TypeInv'
<1>1. ClusterTypeOK /\ CacheTypeOK /\ AtWork /\ Stored
  BY DEF TypeInv
<1>2. UNCHANGED <<redis, row, similar, pending, book>> /\ pc[r] = "semantic"
  BY DEF GetSimilar, Step, caches
<1>3. asked[r] \in Questions
  BY <1>1, <1>2 DEF AtWork
<1>4. CASE /\ \E p \in Nearest(asked[r]) : Serve(asked[r], similar[p].answer)
           /\ Finish(r)
           /\ UNCHANGED cluster
  <2>1. ClusterTypeOK' /\ UNCHANGED <<clock, up>>
    BY <1>1, <1>4, ClusterSteps
  <2>2. PICK p \in Nearest(asked[r]) : Serve(asked[r], similar[p].answer)
    BY <1>4
  <2>3. lent' \subseteq [to : Questions, answer : book']
    <3>1. similar[p].answer \in book
      BY <1>3, <2>2, CandidateType
    <3> QED  BY <1>2, <1>3, <2>2, <3>1 DEF Serve
  <2>4. /\ pc' \in [Handlers -> Labels] /\ asked' \in [Handlers -> Questions \cup {None}]
        /\ held' \in [Handlers -> Answers \cup {None}] /\ since' \in [Handlers -> 0 .. clock]
        /\ pc'[r] = "idle" /\ \A s \in Handlers : s # r =>
             pc'[s] = pc[s] /\ asked'[s] = asked[s] /\ held'[s] = held[s] /\ since'[s] = since[s]
    BY <1>1, <1>4, FinishType
  <2>5. CacheTypeOK'
    BY <1>1, <1>2, <2>1, <2>3, <2>4 DEF CacheTypeOK, Labels
  <2>6. AtWork' /\ Stored'
    BY <1>1, <1>2, <2>4 DEF AtWork, Stored
  <2> QED  BY <2>1, <2>5, <2>6 DEF TypeInv
<1>5. CASE /\ UNCHANGED cluster \/ Error
           /\ Goto(r, "calling")
           /\ lent' = {}
           /\ UNCHANGED local
  <2>1. ClusterTypeOK' /\ UNCHANGED <<clock, up, asked, held, since>>
    BY <1>1, <1>5, ClusterSteps DEF local
  <2>2. /\ pc' \in [Handlers -> Labels] /\ pc'[r] = "calling"
        /\ \A s \in Handlers : s # r => pc'[s] = pc[s]
    BY <1>1, <1>5, GotoType DEF Labels
  <2>3. CacheTypeOK'
    BY <1>1, <1>2, <1>5, <2>1, <2>2 DEF CacheTypeOK, Labels
  <2>4. AtWork' /\ Stored'
    BY <1>1, <1>2, <1>3, <2>1, <2>2 DEF AtWork, Stored
  <2> QED  BY <2>1, <2>3, <2>4 DEF TypeInv
<1> QED  BY <1>4, <1>5 DEF GetSimilar

LEMMA UnanswerableType ==
  ASSUME TypeInv, NEW r \in Handlers, Unanswerable(r) PROVE TypeInv'
<1>1. ClusterTypeOK /\ CacheTypeOK /\ AtWork /\ Stored
  BY DEF TypeInv
<1>2. /\ UNCHANGED <<redis, row, similar, pending, book>> /\ lent' = {}
      /\ UNCHANGED cluster /\ Finish(r)
  BY DEF Unanswerable, caches
<1>3. ClusterTypeOK' /\ UNCHANGED <<clock, up>>
  BY <1>1, <1>2, ClusterSteps
<1>4. /\ pc' \in [Handlers -> Labels] /\ asked' \in [Handlers -> Questions \cup {None}]
      /\ held' \in [Handlers -> Answers \cup {None}] /\ since' \in [Handlers -> 0 .. clock]
      /\ pc'[r] = "idle" /\ \A s \in Handlers : s # r =>
           pc'[s] = pc[s] /\ asked'[s] = asked[s] /\ held'[s] = held[s] /\ since'[s] = since[s]
  BY <1>1, <1>2, FinishType
<1>5. CacheTypeOK'
  BY <1>1, <1>2, <1>3, <1>4 DEF CacheTypeOK, Labels
<1>6. AtWork' /\ Stored'
  BY <1>1, <1>2, <1>4 DEF AtWork, Stored
<1> QED  BY <1>3, <1>5, <1>6 DEF TypeInv

(* What Set does for a final target and a TTL.                             *)
LEMMA SetEffect ==
  ASSUME TypeInv, NEW r \in Handlers, Set(r)
  PROVE  \E final \in Targets, ttl \in TTLs :
           LET q == [asked[r] EXCEPT !.target = final]
               answer == [question |-> q, at |-> clock]
           IN  /\ q \in Questions /\ answer \in Answers /\ ttl \in Nat
               /\ book' = book \cup {answer}
               /\ \/ redis' = redis
                  \/ redis' = [redis EXCEPT ![q] = [answer |-> answer, until |-> clock + ttl]]
               /\ pending' = pending \cup {[home |-> Home[r], answer |-> answer, ttl |-> ttl]}
               /\ Hold(r, answer) /\ Goto(r, "similar")
               /\ UNCHANGED cluster \/ Error
               /\ lent' = {} /\ UNCHANGED <<row, similar, asked>>
<1>1. pc[r] = "calling" /\ Goto(r, "similar") /\ lent' = {} /\ UNCHANGED <<row, similar, asked>>
  BY DEF Set, Step
<1>2. asked[r] \in Questions /\ clock \in 0 .. MaxClock
  BY <1>1, ClockType DEF TypeInv, AtWork
<1>3. PICK final \in Targets :
       LET q      == [asked[r] EXCEPT !.target = final]
           answer == [question |-> q, at |-> clock]
       IN  /\ book' = book \cup {answer}
           /\ \E ttl \in TTLs :
                /\ \/ /\ redis' = [redis EXCEPT ![q] = [answer |-> answer, until |-> clock + ttl]]
                      /\ UNCHANGED cluster
                   \/ Error /\ UNCHANGED redis
                /\ pending' = pending \cup {[home |-> Home[r], answer |-> answer, ttl |-> ttl]}
           /\ Hold(r, answer)
  BY DEF Set
<1> DEFINE q == [asked[r] EXCEPT !.target = final]
           answer == [question |-> q, at |-> clock]
<1>4. q \in Questions /\ answer \in Answers
  BY <1>2, AnswerType
<1>5. PICK ttl \in TTLs :
        /\ \/ /\ redis' = [redis EXCEPT ![q] = [answer |-> answer, until |-> clock + ttl]]
              /\ UNCHANGED cluster
           \/ Error /\ UNCHANGED redis
        /\ pending' = pending \cup {[home |-> Home[r], answer |-> answer, ttl |-> ttl]}
  BY <1>3
<1>6. ttl \in Nat
  BY CacheAssumption
<1>7. book' = book \cup {answer} /\ Hold(r, answer)
  BY <1>3
<1> HIDE DEF q, answer
<1>8. /\ q \in Questions /\ answer \in Answers /\ ttl \in Nat
      /\ book' = book \cup {answer}
      /\ \/ redis' = redis
         \/ redis' = [redis EXCEPT ![q] = [answer |-> answer, until |-> clock + ttl]]
      /\ pending' = pending \cup {[home |-> Home[r], answer |-> answer, ttl |-> ttl]}
      /\ Hold(r, answer) /\ Goto(r, "similar")
      /\ UNCHANGED cluster \/ Error
      /\ lent' = {} /\ UNCHANGED <<row, similar, asked>>
  BY <1>1, <1>4, <1>5, <1>6, <1>7
<1> USE DEF q, answer
<1> QED  BY <1>8, Zenon

LEMMA SetType ==
  ASSUME TypeInv, NEW r \in Handlers, Set(r) PROVE TypeInv'
<1>1. ClusterTypeOK /\ CacheTypeOK /\ AtWork /\ Stored
  BY DEF TypeInv
<1>2. PICK final \in Targets, ttl \in TTLs :
        LET q == [asked[r] EXCEPT !.target = final]
            answer == [question |-> q, at |-> clock]
        IN  /\ q \in Questions /\ answer \in Answers /\ ttl \in Nat
            /\ book' = book \cup {answer}
            /\ \/ redis' = redis
               \/ redis' = [redis EXCEPT ![q] = [answer |-> answer, until |-> clock + ttl]]
            /\ pending' = pending \cup {[home |-> Home[r], answer |-> answer, ttl |-> ttl]}
            /\ Hold(r, answer) /\ Goto(r, "similar")
            /\ UNCHANGED cluster \/ Error
            /\ lent' = {} /\ UNCHANGED <<row, similar, asked>>
  BY SetEffect
<1> DEFINE q == [asked[r] EXCEPT !.target = final]
           answer == [question |-> q, at |-> clock]
<1>3. /\ q \in Questions /\ answer \in Answers /\ ttl \in Nat
      /\ book' = book \cup {answer}
      /\ \/ redis' = redis
         \/ redis' = [redis EXCEPT ![q] = [answer |-> answer, until |-> clock + ttl]]
      /\ pending' = pending \cup {[home |-> Home[r], answer |-> answer, ttl |-> ttl]}
      /\ Hold(r, answer) /\ Goto(r, "similar")
      /\ UNCHANGED cluster \/ Error
      /\ lent' = {} /\ UNCHANGED <<row, similar, asked>>
  BY <1>2
<1> HIDE DEF q, answer
<1>4. ClusterTypeOK' /\ UNCHANGED <<clock, up>>
  BY <1>1, <1>3, ClusterSteps
<1>5. /\ pc' \in [Handlers -> Labels]
      /\ held' \in [Handlers -> Answers \cup {None}] /\ since' \in [Handlers -> 0 .. clock]
      /\ pc'[r] = "similar" /\ held'[r] = answer
      /\ \A s \in Handlers : s # r => pc'[s] = pc[s] /\ held'[s] = held[s]
  BY <1>1, <1>3, HoldType DEF Labels
<1>6. /\ redis' \in [Questions -> Entry]
      /\ \A k \in Questions : redis'[k] = redis[k] \/ redis'[k].answer = answer
  <2>1. [answer |-> answer, until |-> clock + ttl] \in Entry
    <3>1. clock + ttl \in Int
      BY <1>1, <1>3, ClockType
    <3> QED  BY <1>3, <3>1, EntryType
  <2> QED  BY <1>1, <1>3, <2>1 DEF CacheTypeOK
<1>7. pending' \subseteq [home : Gateways, answer : Answers, ttl : TTLs]
  BY <1>1, <1>3, CacheAssumption DEF CacheTypeOK
<1>8. pc[r] = "calling" /\ asked[r] \in Questions
  BY <1>1 DEF Set, Step, AtWork
<1>9. CacheTypeOK'
  BY <1>1, <1>3, <1>4, <1>5, <1>6, <1>7 DEF CacheTypeOK, Labels
<1>10. AtWork'
  BY <1>1, <1>3, <1>5, <1>8 DEF AtWork
<1>11. Stored'
  BY <1>1, <1>3, <1>5, <1>6 DEF Stored
<1> QED  BY <1>4, <1>9, <1>10, <1>11 DEF TypeInv

LEMMA storeInDBType ==
  ASSUME TypeInv, NEW write \in pending, storeInDB(write) PROVE TypeInv'
<1>1. ClusterTypeOK /\ CacheTypeOK /\ AtWork /\ Stored
  BY DEF TypeInv
<1>2. /\ UNCHANGED <<redis, similar, pc, asked, held, since, book>> /\ lent' = {}
      /\ UNCHANGED cluster /\ pending' = pending \ {write}
  BY DEF storeInDB, local
<1>3. ClusterTypeOK' /\ UNCHANGED <<clock, up>>
  BY <1>1, <1>2, ClusterSteps
<1>4. /\ write.answer \in book /\ write.answer \in Answers /\ write.answer.question \in Questions
      /\ write.home \in Gateways /\ write.ttl \in Nat
  BY <1>1, AnswerType, CacheAssumption DEF Stored, CacheTypeOK
<1>5. Upserted(write) \in Entry /\ Upserted(write).answer \in book
  <2>1. Now(write.home) + write.ttl \in Int
    BY <1>1, <1>4, HomeNow
  <2> DEFINE old == row[write.answer.question]
  <2>2. (IF old = Nothing THEN write.answer ELSE old.answer) \in book
    BY <1>1, <1>4 DEF Stored
  <2>3. book \subseteq Answers
    BY <1>1 DEF CacheTypeOK
  <2> QED  BY <2>1, <2>2, <2>3, EntryType DEF Upserted
<1>6. /\ row' \in [Questions -> Entry]
      /\ \A q \in Questions : row'[q] = row[q] \/ row'[q] = Upserted(write)
  BY <1>1, <1>4, <1>5 DEF storeInDB, CacheTypeOK
<1>7. CacheTypeOK'
  BY <1>1, <1>2, <1>3, <1>6 DEF CacheTypeOK
<1>8. AtWork' /\ Stored'
  BY <1>1, <1>2, <1>5, <1>6 DEF AtWork, Stored
<1> QED  BY <1>3, <1>7, <1>8 DEF TypeInv

LEMMA storeInDBFailsType ==
  ASSUME TypeInv, NEW write \in pending, storeInDBFails(write) PROVE TypeInv'
<1>1. ClusterTypeOK /\ CacheTypeOK /\ AtWork /\ Stored
  BY DEF TypeInv
<1>2. /\ UNCHANGED <<redis, row, similar, pc, asked, held, since, book>> /\ lent' = {}
      /\ Error /\ pending' = pending \ {write}
  BY DEF storeInDBFails, local, caches
<1>3. ClusterTypeOK' /\ UNCHANGED <<clock, up>>
  BY <1>1, <1>2, ClusterSteps
<1>4. CacheTypeOK' /\ AtWork' /\ Stored'
  BY <1>1, <1>2, <1>3 DEF CacheTypeOK, AtWork, Stored
<1> QED  BY <1>3, <1>4 DEF TypeInv

LEMMA SetSimilarType ==
  ASSUME TypeInv, NEW r \in Handlers, SetSimilar(r) PROVE TypeInv'
<1>1. ClusterTypeOK /\ CacheTypeOK /\ AtWork /\ Stored
  BY DEF TypeInv
<1> DEFINE p == Prompt[held[r].question.messages]
           e == [answer |-> held[r], until |-> Now(Home[r]) + SemanticTTL]
<1>2. /\ UNCHANGED <<redis, row, pending, book>> /\ lent' = {}
      /\ Finish(r) /\ pc[r] = "similar"
      /\ UNCHANGED cluster \/ Error
      /\ similar' = similar \/ similar' = [similar EXCEPT ![p] = e]
  BY DEF SetSimilar, Step
<1>3. held[r] \in book /\ held[r] \in Answers
  BY <1>1, <1>2 DEF AtWork, Stored
<1>4. ClusterTypeOK' /\ UNCHANGED <<clock, up>>
  BY <1>1, <1>2, ClusterSteps
<1>5. /\ pc' \in [Handlers -> Labels] /\ asked' \in [Handlers -> Questions \cup {None}]
      /\ held' \in [Handlers -> Answers \cup {None}] /\ since' \in [Handlers -> 0 .. clock]
      /\ pc'[r] = "idle" /\ \A s \in Handlers : s # r =>
           pc'[s] = pc[s] /\ asked'[s] = asked[s] /\ held'[s] = held[s] /\ since'[s] = since[s]
  BY <1>1, <1>2, FinishType
<1>6. e \in Entry
  <2>1. Home[r] \in Gateways /\ SemanticTTL \in Nat
    BY CacheAssumption
  <2>2. Now(Home[r]) + SemanticTTL \in Int
    BY <1>1, <2>1, HomeNow
  <2> QED  BY <1>3, <2>2, EntryType
<1> HIDE DEF p
<1>7. /\ similar' \in [Prompts -> Entry]
      /\ \A k \in Prompts : similar'[k] = similar[k] \/ similar'[k].answer = held[r]
  BY <1>1, <1>2, <1>6 DEF CacheTypeOK
<1>8. CacheTypeOK'
  BY <1>1, <1>2, <1>4, <1>5, <1>7 DEF CacheTypeOK, Labels
<1>9. AtWork'
  BY <1>1, <1>2, <1>5 DEF AtWork
<1>10. Stored'
  BY <1>1, <1>2, <1>3, <1>5, <1>7 DEF Stored
<1> QED  BY <1>4, <1>8, <1>9, <1>10 DEF TypeInv

LEMMA EvictType ==
  ASSUME TypeInv, NEW q \in Questions, Evict(q) PROVE TypeInv'
<1>1. ClusterTypeOK /\ CacheTypeOK /\ AtWork /\ Stored
  BY DEF TypeInv
<1>2. /\ UNCHANGED <<row, similar, pending, pc, asked, held, since, book>> /\ lent' = {}
      /\ Error /\ redis' = [redis EXCEPT ![q] = Nothing]
  BY DEF Evict, local
<1>3. ClusterTypeOK' /\ UNCHANGED <<clock, up>>
  BY <1>1, <1>2, ClusterSteps
<1>4. CacheTypeOK'
  BY <1>1, <1>2, <1>3, EntryType DEF CacheTypeOK
<1>5. AtWork' /\ Stored'
  BY <1>1, <1>2 DEF AtWork, Stored, CacheTypeOK
<1> QED  BY <1>3, <1>4, <1>5 DEF TypeInv

LEMMA cleanupType ==
  ASSUME TypeInv, cleanupExpiredCache, UNCHANGED cluster PROVE TypeInv'
<1>1. ClusterTypeOK /\ CacheTypeOK /\ AtWork /\ Stored
  BY DEF TypeInv
<1>2. /\ UNCHANGED <<redis, similar, pending, pc, asked, held, since, book>> /\ lent' = {}
  BY DEF cleanupExpiredCache, local
<1>3. ClusterTypeOK' /\ UNCHANGED <<clock, up>>
  BY <1>1, ClusterSteps
<1>4. /\ row' \in [Questions -> Entry]
      /\ \A q \in Questions : row'[q] = row[q] \/ row'[q] = Nothing
  BY <1>1, EntryType DEF cleanupExpiredCache, CacheTypeOK
<1>5. CacheTypeOK'
  BY <1>1, <1>2, <1>3, <1>4 DEF CacheTypeOK
<1>6. AtWork' /\ Stored'
  BY <1>1, <1>2, <1>4 DEF AtWork, Stored
<1> QED  BY <1>3, <1>5, <1>6 DEF TypeInv

LEMMA CacheTickType ==
  ASSUME TypeInv, CacheTick, TimePasses PROVE TypeInv'
<1>1. ClusterTypeOK /\ CacheTypeOK /\ AtWork /\ Stored
  BY DEF TypeInv
<1>2. /\ UNCHANGED <<row, similar, pending, pc, asked, held, since, book>> /\ lent' = {}
      /\ clock < MaxClock /\ clock' = clock + 1 /\ UNCHANGED <<up, faults>>
  BY DEF CacheTick, local, TimePasses
<1>3. ClusterTypeOK'
  BY <1>1, <1>2, ClusterAssumption DEF ClusterTypeOK
<1>4. /\ redis' \in [Questions -> Entry]
      /\ \A q \in Questions : redis'[q] = redis[q] \/ redis'[q] = Nothing
  BY <1>1, EntryType DEF CacheTick, CacheTypeOK
<1>5. since' \in [Handlers -> 0 .. clock']
  BY <1>1, <1>2, ClockType DEF CacheTypeOK
<1>6. CacheTypeOK'
  BY <1>1, <1>2, <1>4, <1>5 DEF CacheTypeOK
<1>7. AtWork' /\ Stored'
  BY <1>1, <1>2, <1>4 DEF AtWork, Stored
<1> QED  BY <1>3, <1>6, <1>7 DEF TypeInv

LEMMA StoppedType ==
  ASSUME TypeInv, NEW g \in Gateways, Stopped(g), Down(g) PROVE TypeInv'
<1>1. ClusterTypeOK /\ CacheTypeOK /\ AtWork /\ Stored
  BY DEF TypeInv
<1>2. /\ UNCHANGED <<redis, row, similar, book, clock>> /\ lent' = {}
      /\ pending' \subseteq pending /\ up' = up \ {g}
      /\ faults < MaxFaults /\ faults' = faults + 1
  BY DEF Stopped, caches, Down, Fault
<1>3. ClusterTypeOK'
  BY <1>1, <1>2, ClusterAssumption DEF ClusterTypeOK
<1>4. /\ pc' \in [Handlers -> Labels] /\ asked' \in [Handlers -> Questions \cup {None}]
      /\ held' \in [Handlers -> Answers \cup {None}] /\ since' \in [Handlers -> 0 .. clock]
      /\ \A s \in Handlers : \/ pc'[s] = "idle"
                             \/ pc'[s] = pc[s] /\ asked'[s] = asked[s] /\ held'[s] = held[s]
  BY <1>1, ClockType DEF Stopped, CacheTypeOK, Labels
<1>5. CacheTypeOK'
  BY <1>1, <1>2, <1>4 DEF CacheTypeOK, Labels
<1>6. AtWork' /\ Stored'
  BY <1>1, <1>2, <1>4 DEF AtWork, Stored
<1> QED  BY <1>3, <1>5, <1>6 DEF TypeInv

LEMMA RestsType ==
  ASSUME TypeInv, CacheRests, ClusterTypeOK', clock' = clock PROVE TypeInv'
<1>1. /\ UNCHANGED <<redis, row, similar, pending, pc, asked, held, since, book>> /\ lent' = {}
  BY DEF CacheRests, caches, local
<1>2. CacheTypeOK' /\ AtWork' /\ Stored'
  BY <1>1 DEF TypeInv, CacheTypeOK, AtWork, Stored
<1> QED  BY <1>2 DEF TypeInv

-----------------------------------------------------------------------------
(* The promise.                                                            *)

(* The question is kept alive to t by a span from one of its answers.      *)
AliveTo(q, t, span) == \E a \in book : a.question = q /\ t <= a.at + span

Kept ==
  /\ \A q \in Questions : redis[q] # Nothing =>
       /\ redis[q].answer.question = q /\ clock < redis[q].until
       /\ AliveTo(q, redis[q].until, Lease)
  /\ \A q \in Questions : row[q] # Nothing =>
       row[q].answer.question = q /\ AliveTo(q, row[q].until, RowLease)
  /\ \A p \in Prompts : similar[p] # Nothing =>
       /\ Prompt[similar[p].answer.question.messages] = p
       /\ similar[p].until <= similar[p].answer.at + Youth
  /\ \A write \in pending : clock <= write.answer.at + MaxDelay
  /\ \A r \in Handlers :
       /\ pc[r] \in {"warm", "similar"} => clock <= since[r] + MaxDelay
       /\ pc[r] = "warm" =>
            held[r].question = asked[r] /\ AliveTo(asked[r], since[r] + 1, RowLease)
       /\ pc[r] = "similar" => since[r] = held[r].at

PromiseInv == TypeInv /\ Kept

LEMMA LeaseType ==
  /\ RowLease \in Nat /\ Lease \in Nat /\ Youth \in Nat
  /\ Lease = RowLease + MaxDelay + Warm
  /\ RowLease = MaxDelay + Skew + MaxTTL /\ Youth = MaxDelay + Skew + SemanticTTL
  /\ MaxDelay \in Nat /\ Warm \in Nat \ {0} /\ SemanticTTL \in Nat /\ Skew \in Nat
  /\ \A ttl \in TTLs : ttl \in Nat /\ 1 <= ttl /\ ttl <= MaxTTL
  BY CacheAssumption, ClusterAssumption DEF RowLease, Lease, Youth

LEMMA AliveStays ==
  ASSUME NEW q, NEW t, NEW span, AliveTo(q, t, span), book \subseteq book'
  PROVE  \E a \in book' : a.question = q /\ t <= a.at + span
  BY DEF AliveTo

(* The life of a question that lasts to t lasts to any earlier time.       *)
LEMMA AliveBefore ==
  ASSUME TypeInv, NEW q, NEW t \in Int, NEW s \in Int, NEW span \in Nat, NEW longer \in Nat,
         AliveTo(q, t, span), s <= t + longer
  PROVE  AliveTo(q, s, span + longer)
<1>1. PICK a \in book : a.question = q /\ t <= a.at + span
  BY DEF AliveTo
<1>2. a.at \in Int
  BY AnswerType DEF TypeInv, CacheTypeOK
<1>3. s <= a.at + (span + longer)
  BY <1>1, <1>2
<1> QED  BY <1>1, <1>3 DEF AliveTo

LEMMA PromiseInit ==
  ASSUME ClusterInit, CacheInit PROVE PromiseInv /\ Promise!Init
<1>1. TypeInv
  BY CacheInitType
<1>2. Kept
  BY DEF CacheInit, Kept
<1>3. Promise!Init
  BY DEF ClusterInit, CacheInit, Promise!Init
<1> QED  BY <1>1, <1>2, <1>3 DEF PromiseInv

(* A step that leaves what is stored alone, and the handlers that hold     *)
(* something to store, keeps Kept.                                         *)
LEMMA KeptFrame ==
  ASSUME PromiseInv, clock' = clock, book' = book,
         \A q \in Questions : redis'[q] \in {redis[q], Nothing},
         \A q \in Questions : row'[q] \in {row[q], Nothing},
         \A p \in Prompts : similar'[p] = similar[p],
         pending' \subseteq pending,
         \A r \in Handlers : \/ pc'[r] \notin {"warm", "similar"}
                             \/ /\ pc'[r] = pc[r] /\ held'[r] = held[r]
                                /\ since'[r] = since[r] /\ asked'[r] = asked[r]
  PROVE  Kept'
<1>1. ASSUME NEW q \in Questions, redis'[q] # Nothing
      PROVE  /\ redis'[q].answer.question = q /\ clock < redis'[q].until
             /\ AliveTo(q, redis[q].until, Lease)' /\ redis'[q] = redis[q]
  BY <1>1 DEF PromiseInv, Kept, AliveTo
<1>2. ASSUME NEW q \in Questions, row'[q] # Nothing
      PROVE  /\ row'[q].answer.question = q
             /\ AliveTo(q, row[q].until, RowLease)' /\ row'[q] = row[q]
  BY <1>2 DEF PromiseInv, Kept, AliveTo
<1>3. ASSUME NEW r \in Handlers
      PROVE  /\ pc'[r] \in {"warm", "similar"} => clock' <= since'[r] + MaxDelay
             /\ pc'[r] = "warm" =>
                  held'[r].question = asked'[r] /\ AliveTo(asked[r], since[r] + 1, RowLease)'
             /\ pc'[r] = "similar" => since'[r] = held'[r].at
  BY DEF PromiseInv, Kept, AliveTo
<1> QED  BY <1>1, <1>2, <1>3 DEF PromiseInv, Kept, AliveTo

(* The steps of the abstract specification.                                *)
LEMMA LendStep ==
  ASSUME NEW q \in Questions, NEW a \in book, Serve(q, a), UNCHANGED <<clock, book>>,
         \/ a.question = q /\ \E b \in book : b.question = q /\ clock < b.at + Lease
         \/ <<q, a.question>> \in Akin /\ clock < a.at + Youth
  PROVE  Promise!Next
<1>1. Promise!Lend(q)
  BY DEF Serve, Promise!Lend, Promise!Alive, Promise!Loan
<1> QED  BY <1>1 DEF Promise!Next

LEMMA RestStep ==
  ASSUME lent' = {}, UNCHANGED <<clock, book>> PROVE Promise!Next
  BY DEF Promise!Next, Promise!Rest

LEMMA GetKeeps ==
  ASSUME PromiseInv, NEW r \in Handlers, Get(r) PROVE Kept' /\ Promise!Next
<1>1. ClusterTypeOK /\ CacheTypeOK /\ Stored
  BY DEF PromiseInv, TypeInv
<1>2. UNCHANGED <<redis, row, similar, pending, book>>
  BY DEF Get, caches
<1>3. UNCHANGED cluster \/ Error
  BY DEF Get
<1>4. UNCHANGED clock
  BY <1>1, <1>3, ClusterSteps
<1>5. PICK q \in Questions :
        \/ /\ redis[q] # Nothing
           /\ Serve(q, redis[q].answer)
           /\ UNCHANGED <<cluster, pc, local>>
        \/ /\ asked' = [asked EXCEPT ![r] = q]
           /\ Goto(r, "row")
           /\ lent' = {}
           /\ UNCHANGED <<held, since>>
  BY DEF Get
<1>6. CASE redis[q] # Nothing /\ Serve(q, redis[q].answer) /\ UNCHANGED <<cluster, pc, local>>
  <2>1. Kept'
    BY <1>2, <1>4, <1>6, KeptFrame DEF local
  <2>2. /\ redis[q].answer \in book /\ redis[q].answer.question = q
        /\ clock < redis[q].until /\ AliveTo(q, redis[q].until, Lease)
    BY <1>1, <1>6 DEF Stored, PromiseInv, Kept
  <2>3. PICK b \in book : b.question = q /\ redis[q].until <= b.at + Lease
    BY <2>2 DEF AliveTo
  <2>4. clock < b.at + Lease
    <3>1. b.at \in Int /\ clock \in Int /\ redis[q].until \in Int
      BY <1>1, AnswerType, EntryType, ClockType DEF CacheTypeOK
    <3> QED  BY <2>2, <2>3, <3>1, LeaseType
  <2>5. Promise!Next
    BY <1>2, <1>4, <1>6, <2>2, <2>3, <2>4, LendStep
  <2> QED  BY <2>1, <2>5
<1>7. CASE /\ asked' = [asked EXCEPT ![r] = q]
           /\ Goto(r, "row")
           /\ lent' = {}
           /\ UNCHANGED <<held, since>>
  <2>1. /\ pc'[r] = "row" /\ \A s \in Handlers : s # r => pc'[s] = pc[s]
        /\ \A s \in Handlers : s # r => asked'[s] = asked[s]
    BY <1>1, <1>7 DEF Goto, CacheTypeOK
  <2>2. Kept'
    BY <1>2, <1>4, <1>7, <2>1, KeptFrame
  <2> QED  BY <1>2, <1>4, <1>7, <2>2, RestStep
<1> QED  BY <1>5, <1>6, <1>7

LEMMA getFromDBKeeps ==
  ASSUME PromiseInv, NEW r \in Handlers, getFromDB(r) PROVE Kept' /\ Promise!Next
<1>1. ClusterTypeOK /\ CacheTypeOK /\ AtWork /\ Stored
  BY DEF PromiseInv, TypeInv
<1>2. UNCHANGED <<redis, row, similar, pending, book, asked>> /\ lent' = {} /\ pc[r] = "row"
  BY DEF getFromDB, caches, Step
<1>3. asked[r] \in Questions
  BY <1>1, <1>2 DEF AtWork
<1>4. UNCHANGED clock
  <2>1. UNCHANGED cluster \/ Error
    BY DEF getFromDB
  <2> QED  BY <1>1, <2>1, ClusterSteps
<1>5. Promise!Next
  BY <1>2, <1>4, RestStep
<1> DEFINE entry == row[asked[r]]
<1>6. CASE clock < entry.until /\ Hold(r, entry.answer) /\ Goto(r, "warm")
  <2>1. entry # Nothing
    BY <1>1, <1>6, EntryType, ClockType
  <2>2. /\ entry.answer \in Answers /\ entry.answer.question = asked[r]
        /\ AliveTo(asked[r], entry.until, RowLease)
    BY <1>1, <1>3, <2>1 DEF Stored, CacheTypeOK, PromiseInv, Kept
  <2>3. /\ pc'[r] = "warm" /\ held'[r] = entry.answer /\ since'[r] = clock
        /\ \A s \in Handlers : s # r =>
             pc'[s] = pc[s] /\ held'[s] = held[s] /\ since'[s] = since[s]
    BY <1>1, <1>6, <2>2, HoldType DEF Labels
  <2>4. AliveTo(asked[r], clock + 1, RowLease)
    <3>1. entry.until \in Int /\ clock \in Int /\ clock + 1 <= entry.until + 0 /\ clock + 1 \in Int
      BY <1>1, <1>3, <1>6, EntryType, ClockType DEF CacheTypeOK
    <3>2. AliveTo(asked[r], clock + 1, RowLease + 0)
      BY <2>2, <3>1, LeaseType, AliveBefore DEF PromiseInv
    <3>3. RowLease + 0 = RowLease
      BY LeaseType
    <3> QED  BY <3>2, <3>3
  <2>5. clock <= clock + MaxDelay
    BY <1>1, ClockType, LeaseType
  <2>6. ASSUME NEW s \in Handlers
        PROVE  /\ pc'[s] \in {"warm", "similar"} => clock' <= since'[s] + MaxDelay
               /\ pc'[s] = "warm" =>
                    held'[s].question = asked'[s] /\ AliveTo(asked'[s], since'[s] + 1, RowLease)
               /\ pc'[s] = "similar" => since'[s] = held'[s].at
    <3>1. CASE s = r
      BY <1>2, <1>4, <2>2, <2>3, <2>4, <2>5, <3>1
    <3>2. CASE s # r
      BY <1>2, <1>4, <2>3, <3>2 DEF PromiseInv, Kept
    <3> QED  BY <3>1, <3>2
  <2>7. Kept'
    BY <1>2, <1>4, <2>6 DEF PromiseInv, Kept, AliveTo
  <2> QED  BY <1>5, <2>7
<1>7. CASE /\ \E next \in AfterExactMiss(asked[r]) : Goto(r, next)
           /\ UNCHANGED <<held, since>>
  <2>1. PICK next \in {"calling", "semantic"} : Goto(r, next)
    BY <1>7 DEF AfterExactMiss
  <2>2. pc'[r] = next /\ \A s \in Handlers : s # r => pc'[s] = pc[s]
    BY <1>1, <2>1, GotoType DEF Labels
  <2>3. Kept'
    BY <1>2, <1>4, <1>7, <2>1, <2>2, KeptFrame
  <2> QED  BY <1>5, <2>3
<1> QED  BY <1>6, <1>7 DEF getFromDB

LEMMA StoreWarmKeeps ==
  ASSUME PromiseInv, NEW r \in Handlers, StoreWarm(r) PROVE Kept' /\ Promise!Next
<1>1. ClusterTypeOK /\ CacheTypeOK /\ AtWork /\ Stored
  BY DEF PromiseInv, TypeInv
<1>2. /\ UNCHANGED <<row, similar, pending, book>> /\ pc[r] = "warm"
      /\ UNCHANGED cluster \/ Error
      /\ Serve(asked[r], held[r]) /\ Finish(r)
  BY DEF StoreWarm, Step
<1>3. UNCHANGED clock
  BY <1>1, <1>2, ClusterSteps
<1>4. /\ asked[r] \in Questions /\ held[r] \in book /\ held[r].question = asked[r]
      /\ clock <= since[r] + MaxDelay /\ AliveTo(asked[r], since[r] + 1, RowLease)
  BY <1>1, <1>2 DEF AtWork, Stored, PromiseInv, Kept
<1>5. /\ clock \in Int /\ since[r] \in Int /\ since[r] + 1 \in Int
      /\ clock + Warm \in Int /\ clock < clock + Warm
      /\ clock + Warm <= (since[r] + 1) + (MaxDelay + Warm)
  <2>1. clock \in Int /\ since[r] \in Int
    BY <1>1, ClockType DEF CacheTypeOK
  <2> QED  BY <1>4, <2>1, LeaseType
<1>6. AliveTo(asked[r], clock + Warm, Lease)
  <2>1. MaxDelay + Warm \in Nat /\ RowLease \in Nat /\ RowLease + (MaxDelay + Warm) = Lease
    BY LeaseType
  <2>2. AliveTo(asked[r], clock + Warm, RowLease + (MaxDelay + Warm))
    BY <1>4, <1>5, <2>1, AliveBefore DEF PromiseInv
  <2> QED  BY <2>1, <2>2
<1>7. \A q \in Questions : redis'[q] # Nothing =>
        /\ redis'[q].answer.question = q /\ clock < redis'[q].until
        /\ AliveTo(q, redis'[q].until, Lease)
  <2>1. \/ redis' = [redis EXCEPT ![asked[r]] = [answer |-> held[r], until |-> clock + Warm]]
        \/ redis' = redis
    BY DEF StoreWarm
  <2>2. ASSUME NEW q \in Questions, redis'[q] # Nothing, redis'[q] = redis[q]
        PROVE  /\ redis'[q].answer.question = q /\ clock < redis'[q].until
               /\ AliveTo(q, redis'[q].until, Lease)
    BY <2>2 DEF PromiseInv, Kept
  <2>3. ASSUME NEW q \in Questions, redis'[q] # redis[q]
        PROVE  q = asked[r] /\ redis'[q].answer = held[r] /\ redis'[q].until = clock + Warm
    BY <1>1, <1>4, <2>1, <2>3 DEF CacheTypeOK
  <2> QED  BY <1>4, <1>5, <1>6, <2>2, <2>3
<1>8. /\ pc'[r] = "idle" /\ \A s \in Handlers : s # r =>
           pc'[s] = pc[s] /\ asked'[s] = asked[s] /\ held'[s] = held[s] /\ since'[s] = since[s]
  BY <1>1, <1>2, FinishType
<1>9. Kept'
  BY <1>2, <1>3, <1>7, <1>8 DEF PromiseInv, Kept, AliveTo
<1>10. Promise!Next
  <2>1. PICK b \in book : b.question = asked[r] /\ clock + Warm <= b.at + Lease
    BY <1>6 DEF AliveTo
  <2>2. clock < b.at + Lease
    <3>1. b.at \in Int
      BY <1>1, AnswerType DEF CacheTypeOK
    <3> QED  BY <1>5, <2>1, <3>1, LeaseType
  <2> QED  BY <1>2, <1>3, <1>4, <2>1, <2>2, LendStep
<1> QED  BY <1>9, <1>10

LEMMA GetSimilarKeeps ==
  ASSUME PromiseInv, NEW r \in Handlers, GetSimilar(r) PROVE Kept' /\ Promise!Next
<1>1. ClusterTypeOK /\ CacheTypeOK /\ AtWork /\ Stored
  BY DEF PromiseInv, TypeInv
<1>2. UNCHANGED <<redis, row, similar, pending, book>> /\ pc[r] = "semantic"
  BY DEF GetSimilar, Step, caches
<1>3. asked[r] \in Questions
  BY <1>1, <1>2 DEF AtWork
<1>4. UNCHANGED clock
  <2>1. UNCHANGED cluster \/ Error
    BY DEF GetSimilar
  <2> QED  BY <1>1, <2>1, ClusterSteps
<1>5. CASE (\E p \in Nearest(asked[r]) : Serve(asked[r], similar[p].answer)) /\ Finish(r)
  <2>1. /\ pc'[r] = "idle" /\ \A s \in Handlers : s # r =>
             pc'[s] = pc[s] /\ asked'[s] = asked[s] /\ held'[s] = held[s] /\ since'[s] = since[s]
    BY <1>1, <1>5, FinishType
  <2>2. Kept'
    BY <1>2, <1>4, <2>1, KeptFrame
  <2>3. PICK p \in Nearest(asked[r]) : Serve(asked[r], similar[p].answer)
    BY <1>5
  <2> DEFINE a == similar[p].answer
             q == asked[r]
  <2>4. /\ p \in Prompts /\ clock < similar[p].until /\ similar[p] # Nothing
        /\ a \in book /\ a \in Answers
        /\ a.question.project = q.project /\ a.question.target = q.target
        /\ <<Prompt[q.messages], p>> \in Similar
    BY <1>3, <2>3, CandidateType DEF PromiseInv
  <2>5. Prompt[a.question.messages] = p /\ similar[p].until <= a.at + Youth
    BY <2>4 DEF PromiseInv, Kept
  <2>6. clock < a.at + Youth
    <3>1. a.at \in Int /\ clock \in Int /\ similar[p].until \in Int
      BY <1>1, <2>4, AnswerType, EntryType, ClockType DEF CacheTypeOK
    <3> QED  BY <2>4, <2>5, <3>1, LeaseType
  <2>7. a.question \in Questions
    BY <2>4, AnswerType
  <2> HIDE DEF a, q
  <2>8. <<q, a.question>> \in Akin
    BY <1>3, <2>4, <2>5, <2>7 DEF Akin, q
  <2>9. Serve(q, a) /\ q \in Questions
    BY <1>3, <2>3 DEF q, a
  <2>10. Promise!Next
    BY <1>2, <1>4, <2>4, <2>6, <2>8, <2>9, LendStep
  <2> QED  BY <2>2, <2>10
<1>6. CASE Goto(r, "calling") /\ lent' = {} /\ UNCHANGED local
  <2>1. pc'[r] = "calling" /\ \A s \in Handlers : s # r => pc'[s] = pc[s]
    BY <1>1, <1>6, GotoType DEF Labels
  <2>2. Kept'
    BY <1>2, <1>4, <1>6, <2>1, KeptFrame DEF local
  <2> QED  BY <1>2, <1>4, <1>6, <2>2, RestStep
<1> QED  BY <1>5, <1>6 DEF GetSimilar

LEMMA UnanswerableKeeps ==
  ASSUME PromiseInv, NEW r \in Handlers, Unanswerable(r) PROVE Kept' /\ Promise!Next
<1>1. ClusterTypeOK /\ CacheTypeOK /\ AtWork
  BY DEF PromiseInv, TypeInv
<1>2. /\ UNCHANGED <<redis, row, similar, pending, book>> /\ lent' = {}
      /\ UNCHANGED clock /\ Finish(r)
  BY DEF Unanswerable, caches, cluster
<1>3. /\ pc'[r] = "idle" /\ \A s \in Handlers : s # r =>
           pc'[s] = pc[s] /\ asked'[s] = asked[s] /\ held'[s] = held[s] /\ since'[s] = since[s]
  BY <1>1, <1>2, FinishType
<1>4. Kept'
  BY <1>2, <1>3, KeptFrame
<1> QED  BY <1>2, <1>4, RestStep

LEMMA SetKeeps ==
  ASSUME PromiseInv, NEW r \in Handlers, Set(r) PROVE Kept' /\ Promise!Next
<1>1. ClusterTypeOK /\ CacheTypeOK /\ AtWork /\ Stored
  BY DEF PromiseInv, TypeInv
<1>2. PICK final \in Targets, ttl \in TTLs :
        LET q == [asked[r] EXCEPT !.target = final]
            answer == [question |-> q, at |-> clock]
        IN  /\ q \in Questions /\ answer \in Answers /\ ttl \in Nat
            /\ book' = book \cup {answer}
            /\ \/ redis' = redis
               \/ redis' = [redis EXCEPT ![q] = [answer |-> answer, until |-> clock + ttl]]
            /\ pending' = pending \cup {[home |-> Home[r], answer |-> answer, ttl |-> ttl]}
            /\ Hold(r, answer) /\ Goto(r, "similar")
            /\ UNCHANGED cluster \/ Error
            /\ lent' = {} /\ UNCHANGED <<row, similar, asked>>
  BY SetEffect DEF PromiseInv
<1> DEFINE q == [asked[r] EXCEPT !.target = final]
           answer == [question |-> q, at |-> clock]
<1>3. /\ q \in Questions /\ answer \in Answers /\ ttl \in Nat
      /\ book' = book \cup {answer}
      /\ \/ redis' = redis
         \/ redis' = [redis EXCEPT ![q] = [answer |-> answer, until |-> clock + ttl]]
      /\ pending' = pending \cup {[home |-> Home[r], answer |-> answer, ttl |-> ttl]}
      /\ Hold(r, answer) /\ Goto(r, "similar")
      /\ UNCHANGED cluster \/ Error
      /\ lent' = {} /\ UNCHANGED <<row, similar, asked>>
  BY <1>2
<1>4. answer.question = q /\ answer.at = clock /\ answer = Promise!Answer(q, clock)
  BY DEF Promise!Answer
<1> HIDE DEF q, answer
<1>5. UNCHANGED clock
  BY <1>1, <1>3, ClusterSteps
<1>6. /\ pc'[r] = "similar" /\ held'[r] = answer /\ since'[r] = clock
      /\ \A s \in Handlers : s # r =>
           pc'[s] = pc[s] /\ held'[s] = held[s] /\ since'[s] = since[s]
  BY <1>1, <1>3, HoldType DEF Labels
<1>7. book \subseteq book' /\ answer \in book'
  BY <1>3
<1>8. /\ clock \in Int /\ clock < clock + ttl /\ clock + ttl <= answer.at + Lease
      /\ clock <= clock + MaxDelay
  <2>1. clock \in Int /\ ttl \in Nat /\ 1 <= ttl /\ ttl <= MaxTTL /\ MaxTTL \in Nat
    BY <1>1, ClockType, LeaseType, CacheAssumption
  <2> QED  BY <1>4, <2>1, LeaseType
<1>9. \A k \in Questions : redis'[k] # Nothing =>
        /\ redis'[k].answer.question = k /\ clock < redis'[k].until
        /\ \E a \in book' : a.question = k /\ redis'[k].until <= a.at + Lease
  <2>1. ASSUME NEW k \in Questions, redis'[k] # Nothing, redis'[k] = redis[k]
        PROVE  /\ redis'[k].answer.question = k /\ clock < redis'[k].until
               /\ \E a \in book' : a.question = k /\ redis'[k].until <= a.at + Lease
    BY <1>7, <2>1 DEF PromiseInv, Kept, AliveTo
  <2>2. ASSUME NEW k \in Questions, redis'[k] # redis[k]
        PROVE  k = q /\ redis'[k].answer = answer /\ redis'[k].until = clock + ttl
    BY <1>1, <1>3, <2>2 DEF CacheTypeOK
  <2> QED  BY <1>4, <1>7, <1>8, <2>1, <2>2
<1>10. \A k \in Questions : row'[k] # Nothing =>
        /\ row'[k].answer.question = k
        /\ \E a \in book' : a.question = k /\ row'[k].until <= a.at + RowLease
  BY <1>3, <1>7 DEF PromiseInv, Kept, AliveTo
<1>11. \A write \in pending' : clock' <= write.answer.at + MaxDelay
  BY <1>3, <1>4, <1>5, <1>8 DEF PromiseInv, Kept
<1>12. ASSUME NEW s \in Handlers
       PROVE  /\ pc'[s] \in {"warm", "similar"} => clock' <= since'[s] + MaxDelay
              /\ pc'[s] = "warm" =>
                   /\ held'[s].question = asked'[s]
                   /\ \E a \in book' : a.question = asked'[s] /\ since'[s] + 1 <= a.at + RowLease
              /\ pc'[s] = "similar" => since'[s] = held'[s].at
  <2>1. CASE s = r
    BY <1>4, <1>5, <1>6, <1>8, <2>1
  <2>2. CASE s # r
    BY <1>3, <1>5, <1>6, <1>7, <2>2 DEF PromiseInv, Kept, AliveTo
  <2> QED  BY <2>1, <2>2
<1>13. Kept'
  BY <1>3, <1>5, <1>9, <1>10, <1>11, <1>12 DEF PromiseInv, Kept, AliveTo
<1>14. Promise!Next
  <2>1. Promise!Enter(q)
    BY <1>3, <1>4, <1>5 DEF Promise!Enter
  <2> QED  BY <1>3, <2>1 DEF Promise!Next
<1> QED  BY <1>13, <1>14

LEMMA storeInDBKeeps ==
  ASSUME PromiseInv, NEW write \in pending, storeInDB(write) PROVE Kept' /\ Promise!Next
<1>1. ClusterTypeOK /\ CacheTypeOK /\ AtWork /\ Stored
  BY DEF PromiseInv, TypeInv
<1>2. /\ UNCHANGED <<redis, similar, pc, asked, held, since, book>> /\ lent' = {}
      /\ UNCHANGED clock /\ pending' = pending \ {write}
      /\ row' = [row EXCEPT ![write.answer.question] = Upserted(write)]
  BY DEF storeInDB, local, cluster
<1> DEFINE k == write.answer.question
           new == Upserted(write)
<1>3. /\ write.answer \in book /\ write.answer \in Answers /\ k \in Questions
      /\ write.home \in Gateways /\ write.ttl \in TTLs
  BY <1>1, AnswerType DEF Stored, CacheTypeOK
<1>4. new.until <= write.answer.at + RowLease
  <2>1. new.until = Now(write.home) + write.ttl
    BY DEF Upserted
  <2>2. /\ Now(write.home) \in Int /\ Now(write.home) <= clock + Skew /\ clock \in Int
        /\ write.ttl \in Nat /\ write.ttl <= MaxTTL /\ write.answer.at \in Int /\ MaxTTL \in Nat
    BY <1>1, <1>3, HomeNow, ClockType, LeaseType, AnswerType, CacheAssumption
  <2>3. clock <= write.answer.at + MaxDelay
    BY DEF PromiseInv, Kept
  <2> QED  BY <2>1, <2>2, <2>3, LeaseType
<1>5. new.answer.question = k
  BY <1>3 DEF Upserted, PromiseInv, Kept
<1> HIDE DEF new
<1>6. \A q \in Questions : row'[q] # Nothing =>
        row'[q].answer.question = q /\ AliveTo(q, row'[q].until, RowLease)
  <2>1. ASSUME NEW q \in Questions, row'[q] # Nothing, q # k
        PROVE  row'[q].answer.question = q /\ AliveTo(q, row'[q].until, RowLease)
    BY <1>1, <1>2, <2>1 DEF CacheTypeOK, PromiseInv, Kept
  <2>2. ASSUME NEW q \in Questions, q = k
        PROVE  row'[q].answer.question = q /\ AliveTo(q, row'[q].until, RowLease)
    <3>1. row'[q] = new
      BY <1>1, <1>2, <2>2 DEF CacheTypeOK, new
    <3>2. AliveTo(q, row'[q].until, RowLease)
      BY <1>3, <1>4, <2>2, <3>1 DEF AliveTo
    <3> QED  BY <1>5, <2>2, <3>1, <3>2
  <2> QED  BY <2>1, <2>2
<1>7. Kept'
  BY <1>2, <1>6 DEF PromiseInv, Kept, AliveTo
<1> QED  BY <1>2, <1>7, RestStep

LEMMA storeInDBFailsKeeps ==
  ASSUME PromiseInv, NEW write \in pending, storeInDBFails(write) PROVE Kept' /\ Promise!Next
<1>1. ClusterTypeOK
  BY DEF PromiseInv, TypeInv
<1>2. /\ UNCHANGED <<redis, row, similar, pc, asked, held, since, book>> /\ lent' = {}
      /\ Error /\ pending' = pending \ {write}
  BY DEF storeInDBFails, local, caches
<1>3. UNCHANGED clock
  BY <1>1, <1>2, ClusterSteps
<1>4. Kept'
  BY <1>2, <1>3, KeptFrame
<1> QED  BY <1>2, <1>3, <1>4, RestStep

LEMMA SetSimilarKeeps ==
  ASSUME PromiseInv, NEW r \in Handlers, SetSimilar(r) PROVE Kept' /\ Promise!Next
<1>1. ClusterTypeOK /\ CacheTypeOK /\ AtWork /\ Stored
  BY DEF PromiseInv, TypeInv
<1> DEFINE p == Prompt[held[r].question.messages]
           e == [answer |-> held[r], until |-> Now(Home[r]) + SemanticTTL]
<1>2. /\ UNCHANGED <<redis, row, pending, book>> /\ lent' = {}
      /\ Finish(r) /\ pc[r] = "similar"
      /\ UNCHANGED cluster \/ Error
      /\ similar' = similar \/ similar' = [similar EXCEPT ![p] = e]
  BY DEF SetSimilar, Step
<1>3. UNCHANGED clock
  BY <1>1, <1>2, ClusterSteps
<1>4. /\ pc'[r] = "idle" /\ \A s \in Handlers : s # r =>
           pc'[s] = pc[s] /\ asked'[s] = asked[s] /\ held'[s] = held[s] /\ since'[s] = since[s]
  BY <1>1, <1>2, FinishType
<1>5. e.answer = held[r] /\ e.until <= held[r].at + Youth
  <2>1. held[r] \in Answers /\ since[r] = held[r].at /\ clock <= since[r] + MaxDelay
    BY <1>1, <1>2 DEF AtWork, PromiseInv, Kept
  <2>2. held[r].at \in Int /\ clock \in Int /\ Home[r] \in Gateways
    BY <1>1, <2>1, AnswerType, ClockType, CacheAssumption
  <2>3. Now(Home[r]) \in Int /\ Now(Home[r]) <= clock + Skew
    BY <1>1, <2>2, HomeNow
  <2>4. Now(Home[r]) + SemanticTTL <= held[r].at + Youth
    BY <2>1, <2>2, <2>3, LeaseType
  <2> QED  BY <2>4
<1> HIDE DEF e
<1>6. \A k \in Prompts : similar'[k] # Nothing =>
        /\ Prompt[similar'[k].answer.question.messages] = k
        /\ similar'[k].until <= similar'[k].answer.at + Youth
  <2>1. ASSUME NEW k \in Prompts, similar'[k] # Nothing, similar'[k] = similar[k]
        PROVE  /\ Prompt[similar'[k].answer.question.messages] = k
               /\ similar'[k].until <= similar'[k].answer.at + Youth
    BY <2>1 DEF PromiseInv, Kept
  <2>2. ASSUME NEW k \in Prompts, similar'[k] # similar[k]
        PROVE  k = p /\ similar'[k] = e
    <3> HIDE DEF p
    <3> QED  BY <1>1, <1>2, <2>2 DEF CacheTypeOK
  <2> QED  BY <1>5, <2>1, <2>2
<1>7. Kept'
  BY <1>2, <1>3, <1>4, <1>6 DEF PromiseInv, Kept, AliveTo
<1> QED  BY <1>2, <1>3, <1>7, RestStep

LEMMA EvictKeeps ==
  ASSUME PromiseInv, NEW q \in Questions, Evict(q) PROVE Kept' /\ Promise!Next
<1>1. ClusterTypeOK /\ CacheTypeOK
  BY DEF PromiseInv, TypeInv
<1>2. /\ UNCHANGED <<row, similar, pending, pc, asked, held, since, book>> /\ lent' = {}
      /\ Error /\ redis' = [redis EXCEPT ![q] = Nothing]
  BY DEF Evict, local
<1>3. UNCHANGED clock
  BY <1>1, <1>2, ClusterSteps
<1>4. \A k \in Questions : redis'[k] \in {redis[k], Nothing}
  BY <1>1, <1>2 DEF CacheTypeOK
<1>5. Kept'
  BY <1>2, <1>3, <1>4, KeptFrame
<1> QED  BY <1>2, <1>3, <1>5, RestStep

LEMMA cleanupKeeps ==
  ASSUME PromiseInv, cleanupExpiredCache, UNCHANGED cluster PROVE Kept' /\ Promise!Next
<1>1. /\ UNCHANGED <<redis, similar, pending, pc, asked, held, since, book>> /\ lent' = {}
      /\ UNCHANGED clock
  BY DEF cleanupExpiredCache, local, cluster
<1>2. \A q \in Questions : row'[q] \in {row[q], Nothing}
  BY DEF cleanupExpiredCache
<1>3. Kept'
  BY <1>1, <1>2, KeptFrame
<1> QED  BY <1>1, <1>3, RestStep

LEMMA RestsKeeps ==
  ASSUME PromiseInv, CacheRests, UNCHANGED clock PROVE Kept' /\ Promise!Next
<1>1. /\ UNCHANGED <<redis, row, similar, pending, pc, asked, held, since, book>> /\ lent' = {}
  BY DEF CacheRests, local, caches
<1>2. Kept'
  BY <1>1, KeptFrame
<1> QED  BY <1>1, <1>2, RestStep

LEMMA StoppedKeeps ==
  ASSUME PromiseInv, NEW g \in Gateways, Stopped(g), UNCHANGED clock PROVE Kept' /\ Promise!Next
<1>1. CacheTypeOK
  BY DEF PromiseInv, TypeInv
<1>2. /\ UNCHANGED <<redis, row, similar, book>> /\ lent' = {} /\ pending' \subseteq pending
  BY DEF Stopped, caches
<1>3. \A s \in Handlers : \/ pc'[s] = "idle"
                          \/ /\ pc'[s] = pc[s] /\ held'[s] = held[s]
                             /\ since'[s] = since[s] /\ asked'[s] = asked[s]
  BY <1>1 DEF Stopped, CacheTypeOK
<1>4. Kept'
  BY <1>2, <1>3, KeptFrame
<1> QED  BY <1>2, <1>4, RestStep

LEMMA CacheTickKeeps ==
  ASSUME PromiseInv, CacheTick, TimePasses PROVE Kept' /\ Promise!Next
<1>1. ClusterTypeOK /\ CacheTypeOK /\ AtWork
  BY DEF PromiseInv, TypeInv
<1>2. /\ UNCHANGED <<row, similar, pending, pc, asked, held, since, book>> /\ lent' = {}
      /\ clock' = clock + 1
  BY DEF CacheTick, local, TimePasses
<1>3. clock \in Int
  BY <1>1, ClockType
<1>4. \A q \in Questions : redis'[q] # Nothing => redis'[q] = redis[q] /\ clock + 1 < redis[q].until
  BY <1>1, <1>3, EntryType DEF CacheTick, CacheTypeOK
<1>5. \A write \in pending : clock + 1 <= write.answer.at + MaxDelay
  <2>1. ASSUME NEW write \in pending PROVE clock + 1 <= write.answer.at + MaxDelay
    <3>1. write.answer.at \in Int
      BY <1>1, AnswerType DEF CacheTypeOK
    <3>2. clock < write.answer.at + MaxDelay
      BY DEF CacheTick, CacheInTime
    <3> QED  BY <1>3, <3>1, <3>2, LeaseType
  <2> QED  BY <2>1
<1>6. \A r \in Handlers : pc[r] \in {"warm", "similar"} => clock + 1 <= since[r] + MaxDelay
  <2>1. ASSUME NEW r \in Handlers, pc[r] \in {"warm", "similar"} PROVE clock + 1 <= since[r] + MaxDelay
    <3>1. since[r] \in Int
      BY <1>1 DEF CacheTypeOK
    <3>2. clock < since[r] + MaxDelay
      BY <2>1 DEF CacheTick, CacheInTime
    <3> QED  BY <1>3, <3>1, <3>2, LeaseType
  <2> QED  BY <2>1
<1>7. Kept'
  BY <1>2, <1>4, <1>5, <1>6 DEF PromiseInv, Kept, AliveTo
<1>8. Promise!Next
  <2>1. Promise!Time
    BY <1>2 DEF Promise!Time
  <2> QED  BY <2>1 DEF Promise!Next
<1> QED  BY <1>7, <1>8

-----------------------------------------------------------------------------
(* The steps together.                                                     *)

LEMMA CacheStepKeeps ==
  ASSUME PromiseInv, CacheStep
  PROVE  PromiseInv' /\ Promise!Next /\ UNCHANGED <<clock, up>> /\ (Fault \/ UNCHANGED faults)
<1>1. TypeInv
  BY DEF PromiseInv
<1>2. CASE \E r \in Handlers : HandlerStep(r)
  <2>1. PICK r \in Handlers : HandlerStep(r)
    BY <1>2
  <2>2. UNCHANGED cluster \/ Error
    BY <2>1 DEF HandlerStep, Get, getFromDB, StoreWarm, GetSimilar, Unanswerable, Set, SetSimilar
  <2>3. TypeInv'
    BY <1>1, <2>1, GetType, getFromDBType, StoreWarmType, GetSimilarType, UnanswerableType,
       SetType, SetSimilarType DEF HandlerStep
  <2>4. Kept' /\ Promise!Next
    BY <2>1, GetKeeps, getFromDBKeeps, StoreWarmKeeps, GetSimilarKeeps, UnanswerableKeeps,
       SetKeeps, SetSimilarKeeps DEF HandlerStep
  <2> QED  BY <2>2, <2>3, <2>4 DEF PromiseInv, Error, cluster
<1>3. CASE \E write \in pending : storeInDB(write) \/ storeInDBFails(write)
  <2>1. PICK write \in pending : storeInDB(write) \/ storeInDBFails(write)
    BY <1>3
  <2>2. UNCHANGED cluster \/ Error
    BY <2>1 DEF storeInDB, storeInDBFails
  <2>3. TypeInv'
    BY <1>1, <2>1, storeInDBType, storeInDBFailsType
  <2>4. Kept' /\ Promise!Next
    BY <2>1, storeInDBKeeps, storeInDBFailsKeeps
  <2> QED  BY <2>2, <2>3, <2>4 DEF PromiseInv, Error, cluster
<1>4. CASE \E q \in Questions : Evict(q)
  <2>1. PICK q \in Questions : Evict(q)
    BY <1>4
  <2> QED  BY <1>1, <2>1, EvictType, EvictKeeps DEF PromiseInv, Error, Evict
<1> QED  BY <1>2, <1>3, <1>4 DEF CacheStep

=============================================================================
