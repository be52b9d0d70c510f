--------------------------- MODULE ResponseCache ---------------------------
(***************************************************************************)
(* The response caches on a request's way: exact matches in Redis over     *)
(* Postgres, then similar prompts in Postgres; what a provider answered is *)
(* stored in all three.                                                    *)
(*                                                                         *)
(* A question is what the exact key hashes: project, target (provider and  *)
(* model) and messages.  Lookups name the target after the downgrade,      *)
(* stores the one that answered.  The semantic cache's key hashes nothing  *)
(* but the prompt, and is unique over all projects and targets.            *)
(***************************************************************************)
EXTENDS Cluster

CONSTANTS
  Handlers,
  Home,              \* handler -> its gateway
  Projects, Targets, Messages, Prompts,
  Prompt,            \* messages -> content of the last user message
  Similar,           \* pairs of prompts above the similarity threshold
  SemanticProjects,  \* those with the semantic cache switched on
  TTLs,              \* a project's cache_ttl_seconds, or the default for 0
  MaxTTL,            \* bound on them
  Warm,              \* the hour that an answer of Postgres stays in Redis
  SemanticTTL,
  MaxDelay,          \* bound on the time from one step to the next of a handler
  MaxAnswers,        \* bound on the answers of providers
  None

Questions == [project : Projects, target : Targets, messages : Messages]
Answers == [question : Questions, at : 0 .. MaxClock]

ASSUME CacheAssumption ==
  /\ Home \in [Handlers -> Gateways]
  /\ Projects # {} /\ Targets # {} /\ Messages # {}
  /\ None \notin Prompts \cup Questions \cup Answers
  /\ Prompt \in [Messages -> Prompts \cup {None}]
  /\ Similar \subseteq Prompts \X Prompts
  /\ MaxTTL \in Nat /\ TTLs \subseteq 1 .. MaxTTL /\ TTLs # {}
  /\ Warm \in Nat \ {0} /\ SemanticTTL \in Nat
  /\ MaxDelay \in Nat /\ MaxAnswers \in Nat

VARIABLES
  redis,      \* cache:exact:<key>: the answer and when Redis drops it
  row,        \* exact_cache by cache_key: cached_response, expires_at
  similar,    \* semantic_cache by cache_key: the same
  pending,    \* the goroutines of Set that have not run storeInDB yet
  pc,
  asked,      \* the request's question
  held,       \* the answer a handler has in hand
  since,      \* when it got it
  \* bookkeeping of the model
  book,       \* the answers providers gave
  lent        \* the answer that the last step served from a cache

caches == <<redis, row, similar>>
local  == <<asked, held, since>>
cache  == <<caches, pending, pc, local, book, lent>>

Nothing == [answer |-> None, until |-> 0]
Entry == [answer : Answers \cup {None}, until : Int]

CacheTypeOK ==
  /\ redis \in [Questions -> Entry]
  /\ row \in [Questions -> Entry]
  /\ similar \in [Prompts -> Entry]
  /\ pending \subseteq [home : Gateways, answer : Answers, ttl : TTLs]
  /\ pc \in [Handlers -> {"idle", "row", "warm", "semantic", "calling", "similar"}]
  /\ asked \in [Handlers -> Questions \cup {None}]
  /\ held \in [Handlers -> Answers \cup {None}]
  /\ since \in [Handlers -> 0 .. clock]
  /\ book \subseteq Answers
  /\ lent \subseteq [to : Questions, answer : book]

CacheInit ==
  /\ redis = [q \in Questions |-> Nothing]
  /\ row = [q \in Questions |-> Nothing]
  /\ similar = [p \in Prompts |-> Nothing]
  /\ pending = {}
  /\ pc = [r \in Handlers |-> "idle"]
  /\ asked = [r \in Handlers |-> None]
  /\ held = [r \in Handlers |-> None]
  /\ since = [r \in Handlers |-> 0]
  /\ book = {} /\ lent = {}

-----------------------------------------------------------------------------
Step(r, from) == pc[r] = from /\ Home[r] \in up
Goto(r, label) == pc' = [pc EXCEPT ![r] = label]

(* An error of Redis, Postgres or the embedding service is logged and the  *)
(* handler goes on.                                                        *)
Error == Fault /\ UNCHANGED <<clock, up>>

(* The handler is done with the request and forgets it.                    *)
Finish(r) ==
  /\ Goto(r, "idle")
  /\ asked' = [asked EXCEPT ![r] = None]
  /\ held' = [held EXCEPT ![r] = None]
  /\ since' = [since EXCEPT ![r] = 0]

Hold(r, answer) ==
  /\ held' = [held EXCEPT ![r] = answer]
  /\ since' = [since EXCEPT ![r] = clock]

Serve(question, answer) == lent' = {[to |-> question, answer |-> answer]}

(* A request of a project with cache_enabled, past the limiters:           *)
(* ExactCache.Get asks Redis first.                                        *)
Get(r) ==
  /\ Step(r, "idle")
  /\ \E q \in Questions :
       \/ /\ redis[q] # Nothing
          /\ Serve(q, redis[q].answer)
          /\ UNCHANGED <<cluster, pc, local>>
       \/ /\ \/ redis[q] = Nothing /\ UNCHANGED cluster
             \/ Error
          /\ asked' = [asked EXCEPT ![r] = q]
          /\ Goto(r, "row")
          /\ lent' = {}
          /\ UNCHANGED <<held, since>>
  /\ UNCHANGED <<caches, pending, book>>

-----------------------------------------------------------------------------
(* Without a user message there is no prompt.                              *)
Semantic(q) == q.project \in SemanticProjects /\ Prompt[q.messages] # None

(* The streaming handler has no semantic lookup.                           *)
AfterExactMiss(q) == {"calling"} \cup IF Semantic(q) THEN {"semantic"} ELSE {}

(* Mutant: expires_at is not looked at.                                    *)
getFromDBExpired(r) ==
  /\ Step(r, "row")
  /\ LET entry == row[asked[r]]
     IN  \/ /\ entry # Nothing
            /\ Hold(r, entry.answer) /\ Goto(r, "warm")
            /\ UNCHANGED cluster
         \/ /\ \/ entry = Nothing /\ UNCHANGED cluster
               \/ Error
            /\ \E next \in AfterExactMiss(asked[r]) : Goto(r, next)
            /\ UNCHANGED <<held, since>>
  /\ lent' = {}
  /\ UNCHANGED <<caches, pending, asked, book>>

(* Mutant: no row is taken for an empty answer.                            *)
getFromDBNoRow(r) ==
  /\ Step(r, "row")
  /\ LET entry == row[asked[r]]
     IN  \/ /\ clock < entry.until \/ entry = Nothing
            /\ Hold(r, entry.answer) /\ Goto(r, "warm")
            /\ UNCHANGED cluster
         \/ /\ \/ clock >= entry.until /\ UNCHANGED cluster
               \/ Error
            /\ \E next \in AfterExactMiss(asked[r]) : Goto(r, next)
            /\ UNCHANGED <<held, since>>
  /\ lent' = {}
  /\ UNCHANGED <<caches, pending, asked, book>>

(* SELECT cached_response ... WHERE cache_key = $1 AND expires_at > NOW()  *)
getFromDB(r) ==
  /\ Step(r, "row")
  /\ LET entry == row[asked[r]]
     IN  \/ /\ clock < entry.until
            /\ Hold(r, entry.answer) /\ Goto(r, "warm")
            /\ UNCHANGED cluster
         \/ /\ \/ clock >= entry.until /\ UNCHANGED cluster
               \/ Error
            /\ \E next \in AfterExactMiss(asked[r]) : Goto(r, next)
            /\ UNCHANGED <<held, since>>
  /\ lent' = {}
  /\ UNCHANGED <<caches, pending, asked, book>>

(* Into Redis for an hour, whatever is left of the row's life.             *)
StoreWarm(r) ==
  /\ Step(r, "warm")
  /\ \/ /\ redis' = [redis EXCEPT ![asked[r]] =
                       [answer |-> held[r], until |-> clock + Warm]]
        /\ UNCHANGED cluster
     \/ Error /\ UNCHANGED redis
  /\ Serve(asked[r], held[r])
  /\ Finish(r)
  /\ UNCHANGED <<row, similar, pending, book>>

-----------------------------------------------------------------------------
(* SemanticCache.Get: the nearest live row of the project and target.  The *)
(* row of the very prompt is at distance zero.                             *)

Candidates(q) ==
  {p \in Prompts :
     /\ clock < similar[p].until
     /\ similar[p].answer.question.project = q.project
     /\ similar[p].answer.question.target = q.target
     /\ <<Prompt[q.messages], p>> \in Similar}

Nearest(q) ==
  Candidates(q) \cap
    (IF Prompt[q.messages] \in Candidates(q) THEN {Prompt[q.messages]} ELSE Prompts)

GetSimilar(r) ==
  /\ Step(r, "semantic")
  /\ \/ /\ \E p \in Nearest(asked[r]) : Serve(asked[r], similar[p].answer)
        /\ Finish(r)
        /\ UNCHANGED cluster
     \/ /\ \/ Candidates(asked[r]) = {} /\ UNCHANGED cluster
           \/ Error
        /\ Goto(r, "calling")
        /\ lent' = {}
        /\ UNCHANGED local
  /\ UNCHANGED <<caches, pending, book>>

-----------------------------------------------------------------------------
(* Past the caches.                                                        *)

(* A 402, a failed chain, a stream that breaks off.                        *)
Unanswerable(r) ==
  /\ Step(r, "calling")
  /\ Finish(r)
  /\ lent' = {}
  /\ UNCHANGED <<cluster, caches, pending, book>>

(* Any target of the failover chain answers, and ExactCache.Set stores the *)
(* answer under that target: in Redis now, in Postgres by a goroutine.     *)
Set(r) ==
  /\ Step(r, "calling")
  /\ Cardinality(book) < MaxAnswers
  /\ \E final \in Targets :
       LET q      == [asked[r] EXCEPT !.target = final]
           answer == [question |-> q, at |-> clock]
       IN  /\ book' = book \cup {answer}
           /\ \E ttl \in TTLs :
                /\ \/ /\ redis' = [redis EXCEPT ![q] = [answer |-> answer, until |-> clock + ttl]]
                      /\ UNCHANGED cluster
                   \/ Error /\ UNCHANGED redis
                /\ pending' = pending \cup {[home |-> Home[r], answer |-> answer, ttl |-> ttl]}
           /\ Hold(r, answer)
  /\ Goto(r, "similar")
  /\ lent' = {}
  /\ UNCHANGED <<row, similar, asked>>

(* ON CONFLICT (cache_key) DO UPDATE: the row that is there, expired or    *)
(* not, keeps its answer and gets the new one's life.                      *)
Upserted(write) ==
  LET old == row[write.answer.question]
  IN  [answer |-> IF old = Nothing THEN write.answer ELSE old.answer,
       until  |-> Now(write.home) + write.ttl]

storeInDB(write) ==
  /\ write \in pending /\ write.home \in up
  /\ row' = [row EXCEPT ![write.answer.question] = Upserted(write)]
  /\ pending' = pending \ {write}
  /\ lent' = {}
  /\ UNCHANGED <<cluster, redis, similar, pc, local, book>>

storeInDBFails(write) ==
  /\ write \in pending /\ write.home \in up
  /\ Error
  /\ pending' = pending \ {write}
  /\ lent' = {}
  /\ UNCHANGED <<caches, pc, local, book>>

(* SemanticCache.Set: the first answer to a prompt has its row for good;   *)
(* a conflict only counts.                                                 *)
SetSimilar(r) ==
  /\ Step(r, "similar")
  /\ LET p == Prompt[held[r].question.messages]
     IN  \/ /\ similar' = IF ~Semantic(held[r].question) \/ similar[p] # Nothing THEN similar
                          ELSE [similar EXCEPT ![p] =
                                  [answer |-> held[r], until |-> Now(Home[r]) + SemanticTTL]]
            /\ UNCHANGED cluster
         \/ Error /\ UNCHANGED similar
  /\ Finish(r)
  /\ lent' = {}
  /\ UNCHANGED <<redis, row, pending, book>>

-----------------------------------------------------------------------------
(* Redis evicts an answer or restarts without it.                          *)
Evict(q) ==
  /\ redis[q] # Nothing
  /\ Error
  /\ redis' = [redis EXCEPT ![q] = Nothing]
  /\ lent' = {}
  /\ UNCHANGED <<row, similar, pending, pc, local, book>>

(* DELETE FROM exact_cache WHERE expires_at < NOW()                        *)
cleanupExpiredCache ==
  /\ row' = [q \in Questions |-> IF row[q].until < clock THEN Nothing ELSE row[q]]
  /\ lent' = {}
  /\ UNCHANGED <<redis, similar, pending, pc, local, book>>

(* A store is done or given up within MaxDelay: the goroutine has five     *)
(* seconds, the Redis client and the embedding client have timeouts.       *)
CacheInTime ==
  /\ \A r \in Handlers : pc[r] \in {"warm", "similar"} => clock < since[r] + MaxDelay
  /\ \A write \in pending : clock < write.answer.at + MaxDelay

(* Redis drops what has expired.                                           *)
CacheTick ==
  /\ CacheInTime
  /\ redis' = [q \in Questions |-> IF redis[q].until <= clock + 1 THEN Nothing ELSE redis[q]]
  /\ lent' = {}
  /\ UNCHANGED <<row, similar, pending, pc, local, book>>

(* What happens elsewhere.                                                 *)
CacheRests ==
  /\ lent' = {}
  /\ UNCHANGED <<caches, pending, pc, local, book>>

(* The gateway stops: its handlers and goroutines are gone.                *)
Stopped(g) ==
  /\ pc' = [r \in Handlers |-> IF Home[r] = g THEN "idle" ELSE pc[r]]
  /\ asked' = [r \in Handlers |-> IF Home[r] = g THEN None ELSE asked[r]]
  /\ held' = [r \in Handlers |-> IF Home[r] = g THEN None ELSE held[r]]
  /\ since' = [r \in Handlers |-> IF Home[r] = g THEN 0 ELSE since[r]]
  /\ pending' = {w \in pending : w.home # g}
  /\ lent' = {}
  /\ UNCHANGED <<caches, book>>

HandlerStep(r) ==
  \/ Get(r) \/ getFromDB(r) \/ StoreWarm(r) \/ GetSimilar(r)
  \/ Unanswerable(r) \/ Set(r) \/ SetSimilar(r)

CacheStep ==
  \/ \E r \in Handlers : HandlerStep(r)
  \/ \E write \in pending : storeInDB(write) \/ storeInDBFails(write)
  \/ \E q \in Questions : Evict(q)

-----------------------------------------------------------------------------
(* How old the last answer to a question can be when one is served from    *)
(* Redis: the row lives for a TTL from a write that was delayed, and just  *)
(* before its end its answer moves to Redis for another hour.              *)
RowLease == MaxDelay + Skew + MaxTTL
Lease == RowLease + MaxDelay + Warm
Youth == MaxDelay + Skew + SemanticTTL

(* The semantic cache answers by the last user message alone, within the   *)
(* project and target.                                                     *)
Akin ==
  {pair \in Questions \X Questions :
     /\ pair[1].project = pair[2].project /\ pair[1].target = pair[2].target
     /\ <<Prompt[pair[1].messages], Prompt[pair[2].messages]>> \in Similar}

Promise == INSTANCE AnswerBook WITH now <- clock

(* Every answer out of the caches is one a provider gave to the asker's    *)
(* project from the target it asked for, to these messages and kept alive  *)
(* by an answer at most Lease old, or to a similar prompt at most Youth    *)
(* ago (exact_cache.go:54 and 172, semantic_cache.go:159, chat.go:466).    *)
KeepsPromise == Promise!Spec

=============================================================================
