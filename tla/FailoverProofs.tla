--------------------------- MODULE FailoverProofs ---------------------------
(* Theorems about Failover for every configuration, provider order, model  *)
(* name, error and number of attempts.                                     *)
EXTENDS Failover, FiniteSetTheorems, ArithmeticTheorems, TLAPS

-----------------------------------------------------------------------------
(* The loop over the configured order.                                     *)

Grown(kept, i, order, S) ==
  IF i = 0 THEN <<>>
  ELSE IF order[i] \in S THEN Append(kept[i - 1], order[i])
  ELSE kept[i - 1]
Loop(kept, n, order, S) == kept = [i \in 0 .. n |-> Grown(kept, i, order, S)]

(* The loop has a result after each round.                                 *)
LEMMA LoopRuns ==
  ASSUME NEW N \in Nat, NEW order, NEW S
  PROVE  \A n \in 0 .. N : \E kept : Loop(kept, n, order, S)
<1> DEFINE Bad == {n \in 0 .. N : ~\E kept : Loop(kept, n, order, S)}
<1>1. SUFFICES ASSUME Bad # {} PROVE FALSE
  OBVIOUS
<1>2. PICK n \in Bad : \A m \in Bad : n <= m
  <2>1. Bad \subseteq Nat
    OBVIOUS
  <2> HIDE DEF Bad
  <2> QED  BY <1>1, <2>1, LeastNumber
<1>3. n \in 0 .. N /\ ~\E kept : Loop(kept, n, order, S)
  BY <1>2
<1>4. n # 0
  <2>1. Loop([i \in 0 .. 0 |-> <<>>], 0, order, S)
    BY DEF Loop, Grown
  <2> QED  BY <1>3, <2>1
<1>5. n - 1 \in 0 .. N /\ n - 1 < n
  BY <1>3, <1>4
<1>6. n - 1 \notin Bad
  BY <1>2, <1>3, <1>5
<1>7. PICK kept : Loop(kept, n - 1, order, S)
  BY <1>5, <1>6
<1> DEFINE next == [i \in 0 .. n |-> Grown(kept, i, order, S)]
<1>8. \A i \in 0 .. n - 1 : next[i] = kept[i]
  BY <1>3, <1>7 DEF Loop
<1>9. \A i \in 0 .. n : Grown(next, i, order, S) = Grown(kept, i, order, S)
  <2> HIDE DEF next
  <2> SUFFICES ASSUME NEW i \in 0 .. n
               PROVE  Grown(next, i, order, S) = Grown(kept, i, order, S)
    OBVIOUS
  <2>1. CASE i = 0
    BY <2>1 DEF Grown
  <2>2. CASE i # 0
    <3>1. i - 1 \in 0 .. n - 1
      BY <1>3, <2>2
    <3>2. next[i - 1] = kept[i - 1]
      BY <1>8, <3>1
    <3> QED  BY <3>2 DEF Grown
  <2> QED  BY <2>1, <2>2
<1>10. Loop(next, n, order, S)
  BY <1>9 DEF Loop
<1> QED  BY <1>3, <1>10

(* What one round adds to a good list leaves it good: its elements are     *)
(* elements of S and come from different places among the first i.         *)
From(place, seq, i, order) ==
  /\ place \in [1 .. Len(seq) -> 1 .. i]
  /\ \A a \in 1 .. Len(seq) : order[place[a]] = seq[a]
  /\ \A a, b \in 1 .. Len(seq) : place[a] = place[b] => a = b
Good(seq, i, order, S) == seq \in Seq(S) /\ \E place : From(place, seq, i, order)

LEMMA AppendGood ==
  ASSUME NEW T, NEW order \in Seq(T), NEW S, NEW i \in 1 .. Len(order),
         NEW seq, Good(seq, i - 1, order, S), order[i] \in S
  PROVE  Good(Append(seq, order[i]), i, order, S)
<1> DEFINE longer == Append(seq, order[i])
<1>1. seq \in Seq(S) /\ longer \in Seq(S) /\ Len(longer) = Len(seq) + 1
  BY DEF Good
<1>2. /\ \A a \in 1 .. Len(seq) : longer[a] = seq[a]
      /\ longer[Len(seq) + 1] = order[i]
  BY <1>1
<1>3. i \in Nat /\ Len(seq) \in Nat /\ i >= 1
  BY <1>1
<1>4. PICK place : From(place, seq, i - 1, order)
  BY DEF Good
<1> HIDE DEF longer
<1> DEFINE wider == [a \in 1 .. Len(longer) |-> IF a = Len(seq) + 1 THEN i ELSE place[a]]
<1>5. \A a \in 1 .. Len(longer) : a \in 1 .. Len(seq) \/ a = Len(seq) + 1
  BY <1>1, <1>3
<1>6. /\ Len(seq) + 1 \notin 1 .. Len(seq)
      /\ \A a \in 1 .. Len(seq) : place[a] \in 1 .. i /\ place[a] # i
  BY <1>3, <1>4 DEF From
<1>7. wider \in [1 .. Len(longer) -> 1 .. i]
  BY <1>3, <1>5, <1>6
<1>8. \A a \in 1 .. Len(longer) : order[wider[a]] = longer[a]
  BY <1>2, <1>4, <1>5, <1>6 DEF From
<1>9. \A a, b \in 1 .. Len(longer) : wider[a] = wider[b] => a = b
  BY <1>4, <1>5, <1>6 DEF From
<1> HIDE DEF wider
<1>10. Good(longer, i, order, S)
  BY <1>1, <1>7, <1>8, <1>9 DEF Good, From
<1> QED  BY <1>10 DEF longer

LEMMA LoopGood ==
  ASSUME NEW T, NEW order \in Seq(T), NEW S, NEW kept, Loop(kept, Len(order), order, S)
  PROVE  \A i \in 0 .. Len(order) : Good(kept[i], i, order, S)
<1> DEFINE Bad == {i \in 0 .. Len(order) : ~Good(kept[i], i, order, S)}
<1>1. SUFFICES ASSUME Bad # {} PROVE FALSE
  OBVIOUS
<1>2. Len(order) \in Nat
  OBVIOUS
<1>3. PICK n \in Bad : \A m \in Bad : n <= m
  <2>1. Bad \subseteq Nat
    OBVIOUS
  <2> HIDE DEF Bad
  <2> QED  BY <1>1, <2>1, LeastNumber
<1>4. n \in 0 .. Len(order) /\ ~Good(kept[n], n, order, S)
  BY <1>3
<1>5. kept[n] = Grown(kept, n, order, S)
  BY <1>4 DEF Loop
<1>6. n # 0
  <2>1. <<>> \in Seq(S) /\ Len(<<>>) = 0 /\ DOMAIN <<>> = {}
    OBVIOUS
  <2>2. From(<<>>, <<>>, 0, order)
    BY <2>1 DEF From
  <2>3. Good(<<>>, 0, order, S)
    BY <2>1, <2>2 DEF Good
  <2> QED  BY <1>4, <1>5, <2>3 DEF Grown
<1>7. n \in 1 .. Len(order) /\ n - 1 \in 0 .. Len(order) /\ n - 1 < n
  BY <1>2, <1>4, <1>6
<1>8. Good(kept[n - 1], n - 1, order, S)
  BY <1>3, <1>4, <1>7
<1>9. CASE order[n] \in S
  <2>1. kept[n] = Append(kept[n - 1], order[n])
    BY <1>5, <1>6, <1>9 DEF Grown
  <2> QED  BY <1>4, <1>7, <1>8, <1>9, <2>1, AppendGood
<1>10. CASE order[n] \notin S
  <2>1. kept[n] = kept[n - 1]
    BY <1>5, <1>6, <1>10 DEF Grown
  <2>2. 1 .. n - 1 \subseteq 1 .. n
    BY <1>7
  <2>3. PICK place : From(place, kept[n - 1], n - 1, order)
    BY <1>8 DEF Good
  <2>4. From(place, kept[n - 1], n, order)
    BY <2>2, <2>3 DEF From
  <2> QED  BY <1>4, <1>8, <2>1, <2>4 DEF Good
<1> QED  BY <1>9, <1>10

(* The providers kept are providers of S, each from a place of its own in  *)
(* the order.                                                              *)
LEMMA ListedGood ==
  ASSUME NEW T, NEW order \in Seq(T), NEW S
  PROVE  Good(Listed(order, S), Len(order), order, S)
<1> DEFINE kept == CHOOSE k : Loop(k, Len(order), order, S)
<1>1. Len(order) \in Nat /\ Len(order) \in 0 .. Len(order)
  OBVIOUS
<1>2. Loop(kept, Len(order), order, S)
  BY <1>1, LoopRuns
<1>3. Listed(order, S) = kept[Len(order)]
  BY DEF Listed, Loop, Grown
<1>4. Good(kept[Len(order)], Len(order), order, S)
  BY <1>1, <1>2, LoopGood
<1> QED  BY <1>3, <1>4

-----------------------------------------------------------------------------
(* Chains.                                                                 *)

ChainSteps ==
  [provider : Clouds \cup {"ollama"},
   model : {"requested", "cheap", "flagship", "balanced", "budget"}]
Cheap(model) ==
  model.words \cap {"mini", "nano", "haiku", "flash", "lite", "3.5", "sonnet"} # {}

CloudSteps(model) ==
  {step \in ChainSteps : /\ step.provider \in Clouds
                         /\ Cheap(model) => step.model # "flagship"}
LocalSteps == {step \in ChainSteps : step.provider = "ollama"}

(* The steps that a configuration's mode allows.                           *)
Allowed(model, cfg) ==
  {step \in CloudSteps(model) \cup LocalSteps :
     /\ cfg.mode = "local_only" => step.provider = "ollama"
     /\ cfg.mode = "cloud_only" => step.provider # "ollama"}

(* Every step that asks a provider of S stands at a place of the order     *)
(* that names it, no two of them at the same; of the other providers none  *)
(* is asked twice.                                                         *)
Places(place, chain, order, S) ==
  /\ \A a \in DOMAIN chain : chain[a].provider \in S =>
       place[a] \in DOMAIN order /\ order[place[a]] = chain[a].provider
  /\ \A a, b \in DOMAIN chain :
       /\ chain[a].provider = chain[b].provider
       /\ chain[a].provider \in S => place[a] = place[b]
       => a = b
OneEach(chain, order, S) == \E place : Places(place, chain, order, S)
Others(model) == Clouds \ {detectProviderForModel(model)}

LEMMA Widened ==
  ASSUME NEW A, NEW B, A \subseteq B, NEW seq \in Seq(A)
  PROVE  seq \in Seq(B)
  OBVIOUS

LEMMA TierFacts ==
  ASSUME NEW model
  PROVE  /\ classifyTier(model) \in {"budget", "balanced", "flagship"}
         /\ cloudClass(classifyTier(model)) \in {"cheap", "flagship"}
         /\ Cheap(model) => cloudClass(classifyTier(model)) # "flagship"
  BY DEF classifyTier, cloudClass, Contained, Cheap

LEMMA OriginFacts ==
  ASSUME NEW model
  PROVE  detectProviderForModel(model) \in Clouds \cup {None}
  BY DEF detectProviderForModel, Clouds

(* Chains of different providers may be joined.                            *)
LEMMA JoinedOneEach ==
  ASSUME NEW A, NEW B, NEW s \in Seq(A), NEW t \in Seq(B), NEW order, NEW S,
         OneEach(s, order, S), OneEach(t, order, S),
         \A x \in A, y \in B : x.provider # y.provider
  PROVE  OneEach(s \o t, order, S)
<1> DEFINE j == s \o t
<1>1. Len(s) \in Nat /\ Len(t) \in Nat /\ DOMAIN s = 1 .. Len(s) /\ DOMAIN t = 1 .. Len(t)
  OBVIOUS
<1>2. /\ DOMAIN j = 1 .. Len(s) + Len(t)
      /\ \A k \in 1 .. Len(s) : j[k] = s[k] /\ s[k] \in A
      /\ \A k \in Len(s) + 1 .. Len(s) + Len(t) :
           k - Len(s) \in 1 .. Len(t) /\ j[k] = t[k - Len(s)] /\ t[k - Len(s)] \in B
  OBVIOUS
<1> HIDE DEF j
<1>3. PICK ps : Places(ps, s, order, S)
  BY DEF OneEach
<1>4. PICK pt : Places(pt, t, order, S)
  BY DEF OneEach
<1> DEFINE place == [k \in DOMAIN j |-> IF k \in 1 .. Len(s) THEN ps[k] ELSE pt[k - Len(s)]]
<1>5. /\ \A k \in 1 .. Len(s) : k \in DOMAIN j
      /\ \A k \in Len(s) + 1 .. Len(s) + Len(t) : k \in DOMAIN j /\ k \notin 1 .. Len(s)
      /\ \A k \in DOMAIN j : k \in 1 .. Len(s) \/ k \in Len(s) + 1 .. Len(s) + Len(t)
  BY <1>1, <1>2
<1>6. /\ \A k \in 1 .. Len(s) : place[k] = ps[k]
      /\ \A k \in Len(s) + 1 .. Len(s) + Len(t) : place[k] = pt[k - Len(s)]
  BY <1>5
<1> HIDE DEF place
<1>7. ASSUME NEW a \in DOMAIN j, j[a].provider \in S
      PROVE  place[a] \in DOMAIN order /\ order[place[a]] = j[a].provider
  <2>1. CASE a \in 1 .. Len(s)
    BY <1>1, <1>2, <1>6, <1>7, <1>3, <2>1 DEF Places
  <2>2. CASE a \in Len(s) + 1 .. Len(s) + Len(t)
    BY <1>1, <1>2, <1>6, <1>7, <1>4, <2>2 DEF Places
  <2> QED  BY <1>5, <2>1, <2>2
<1>8. ASSUME NEW a \in DOMAIN j, NEW b \in DOMAIN j,
             j[a].provider = j[b].provider, j[a].provider \in S => place[a] = place[b]
      PROVE  a = b
  <2>1. CASE a \in 1 .. Len(s) /\ b \in 1 .. Len(s)
    BY <1>1, <1>2, <1>6, <1>8, <1>3, <2>1 DEF Places
  <2>2. CASE /\ a \in Len(s) + 1 .. Len(s) + Len(t)
             /\ b \in Len(s) + 1 .. Len(s) + Len(t)
    <3>1. /\ a - Len(s) \in DOMAIN t /\ b - Len(s) \in DOMAIN t
          /\ t[a - Len(s)].provider = t[b - Len(s)].provider
          /\ t[a - Len(s)].provider \in S => pt[a - Len(s)] = pt[b - Len(s)]
      BY <1>1, <1>2, <1>6, <1>8, <2>2
    <3>2. a - Len(s) = b - Len(s)
      BY <1>4, <3>1 DEF Places
    <3> QED  BY <1>1, <2>2, <3>2
  <2>3. CASE a \in 1 .. Len(s) /\ b \in Len(s) + 1 .. Len(s) + Len(t)
    BY <1>2, <1>8, <2>3
  <2>4. CASE b \in 1 .. Len(s) /\ a \in Len(s) + 1 .. Len(s) + Len(t)
    BY <1>2, <1>8, <2>4
  <2> QED  BY <1>5, <2>1, <2>2, <2>3, <2>4
<1>9. Places(place, j, order, S)
  BY <1>7, <1>8 DEF Places
<1> QED  BY <1>9 DEF OneEach, j

(* One step of a provider outside S.                                       *)
LEMMA OneStepOneEach ==
  ASSUME NEW step, NEW order, NEW S, step.provider \notin S
  PROVE  OneEach(<<step>>, order, S) /\ OneEach(<<>>, order, S)
<1>1. Places(<<1>>, <<step>>, order, S) /\ Places(<<1>>, <<>>, order, S)
  BY DEF Places
<1> QED  BY <1>1 DEF OneEach

LEMMA CloudStep ==
  ASSUME NEW model, NEW provider \in Clouds,
         NEW class \in {"requested", "cheap", "flagship"},
         Cheap(model) => class # "flagship"
  PROVE  /\ Step(provider, class) \in CloudSteps(model)
         /\ Step(provider, class).provider = provider
<1>1. Step(provider, class) \in ChainSteps
  BY DEF Step, ChainSteps
<1> QED  BY <1>1 DEF Step, CloudSteps

(* A chain from the origin and the others that the loop listed.            *)
ChainOf(origin, class, others) ==
  <<Step(origin, "requested")>> \o [k \in DOMAIN others |-> Step(others[k], class)]

LEMMA OriginAndOthers ==
  ASSUME NEW model, NEW origin \in Clouds, NEW class \in {"cheap", "flagship"},
         NEW T, NEW order \in Seq(T), NEW others,
         Good(others, Len(order), order, Clouds \ {origin}),
         Cheap(model) => class # "flagship"
  PROVE  /\ ChainOf(origin, class, others) \in Seq(CloudSteps(model))
         /\ OneEach(ChainOf(origin, class, others), order, Clouds \ {origin})
<1> DEFINE first == <<Step(origin, "requested")>>
           rest  == [k \in DOMAIN others |-> Step(others[k], class)]
           A == {step \in CloudSteps(model) : step.provider = origin}
           B == {step \in CloudSteps(model) : step.provider # origin}
<1>1. Step(origin, "requested") \in A
  BY CloudStep
<1>2. first \in Seq(A) /\ OneEach(first, order, Clouds \ {origin})
  BY <1>1, OneStepOneEach
<1>3. others \in Seq(Clouds \ {origin})
  BY DEF Good
<1>4. DOMAIN others = 1 .. Len(others) /\ Len(others) \in Nat
      /\ \A k \in DOMAIN others : others[k] \in Clouds \ {origin}
  BY <1>3
<1>5. ASSUME NEW k \in DOMAIN others PROVE Step(others[k], class) \in B
  <2>1. others[k] \in Clouds /\ others[k] # origin
    BY <1>4
  <2>2. class \in {"requested", "cheap", "flagship"}
    OBVIOUS
  <2>3. /\ Step(others[k], class) \in CloudSteps(model)
        /\ Step(others[k], class).provider = others[k]
    BY <2>1, <2>2, CloudStep
  <2> QED  BY <2>1, <2>3
<1>6. rest \in Seq(B)
  BY <1>4, <1>5
<1>7. OneEach(rest, order, Clouds \ {origin})
  <2>1. PICK place : From(place, others, Len(order), order)
    BY DEF Good
  <2>2. DOMAIN order = 1 .. Len(order) /\ DOMAIN rest = 1 .. Len(others)
    BY <1>4
  <2>3. \A k \in DOMAIN rest : rest[k].provider = others[k]
    BY DEF Step
  <2>4. Places(place, rest, order, Clouds \ {origin})
    BY <1>4, <2>1, <2>2, <2>3 DEF From, Places
  <2> QED  BY <2>4 DEF OneEach
<1>8. \A x \in A, y \in B : x.provider # y.provider
  OBVIOUS
<1>9. A \subseteq CloudSteps(model) /\ B \subseteq CloudSteps(model)
  OBVIOUS
<1> HIDE DEF A, B, first, rest
<1>10. OneEach(first \o rest, order, Clouds \ {origin})
  BY <1>2, <1>6, <1>7, <1>8, JoinedOneEach
<1>11. first \in Seq(CloudSteps(model)) /\ rest \in Seq(CloudSteps(model))
  BY <1>2, <1>6, <1>9, Widened
<1>12. first \o rest \in Seq(CloudSteps(model))
  BY <1>11
<1> QED  BY <1>10, <1>12 DEF ChainOf, first, rest

LEMMA CloudChain ==
  ASSUME NEW model, NEW cfg, NEW T, cfg.order \in Seq(T)
  PROVE  /\ buildCloudChain(model, cfg) \in Seq(CloudSteps(model))
         /\ OneEach(buildCloudChain(model, cfg), cfg.order, Others(model))
<1>a. PICK origin : origin = detectProviderForModel(model)
  OBVIOUS
<1>b. PICK class : class = cloudClass(classifyTier(model))
  OBVIOUS
<1>c. PICK others : others = Listed(cfg.order, Clouds \ {origin})
  OBVIOUS
<1>1. CASE origin = None
  <2>1. buildCloudChain(model, cfg) = <<>>
    BY <1>a, <1>1 DEF buildCloudChain
  <2> QED  BY <2>1 DEF OneEach, Places
<1>2. CASE origin # None
  <2>1. Good(others, Len(cfg.order), cfg.order, Clouds \ {origin})
    BY <1>c, ListedGood
  <2>2. /\ origin \in Clouds /\ class \in {"cheap", "flagship"}
        /\ Cheap(model) => class # "flagship"
    BY <1>a, <1>b, <1>2, OriginFacts, TierFacts
  <2>3. buildCloudChain(model, cfg) = ChainOf(origin, class, others)
    BY <1>a, <1>b, <1>c, <1>2 DEF buildCloudChain, ChainOf
  <2>4. /\ ChainOf(origin, class, others) \in Seq(CloudSteps(model))
        /\ OneEach(ChainOf(origin, class, others), cfg.order, Clouds \ {origin})
    BY <2>1, <2>2, OriginAndOthers
  <2> QED  BY <1>a, <2>3, <2>4 DEF Others
<1> QED  BY <1>1, <1>2

LEMMA LocalChain ==
  ASSUME NEW model, NEW cfg, NEW order
  PROVE  /\ ollamaStepForModel(model, cfg) \in Seq(LocalSteps)
         /\ OneEach(ollamaStepForModel(model, cfg), order, Others(model))
<1>1. Step("ollama", classifyTier(model)) \in LocalSteps
  BY TierFacts DEF Step, LocalSteps, ChainSteps
<1>2. Step("ollama", classifyTier(model)).provider \notin Others(model)
  BY DEF Step, Others, Clouds
<1>3. /\ <<Step("ollama", classifyTier(model))>> \in Seq(LocalSteps)
      /\ <<>> \in Seq(LocalSteps)
  BY <1>1
<1> QED  BY <1>2, <1>3, OneStepOneEach DEF ollamaStepForModel

-----------------------------------------------------------------------------
(* The chain of a request.                                                 *)

FullChain(model) ==
  LET chain  == GetFailoverChain(model, config)
      origin == detectProviderForModel(model)
  IN  IF chain # <<>> THEN chain
      ELSE IF origin # None THEN <<Step(origin, "requested")>> ELSE <<>>

LEMMA ChainGood ==
  ASSUME NEW model, NEW T, config.order \in Seq(T),
         detectProvider(model, config) # None
  PROVE  /\ FullChain(model) \in Seq(Allowed(model, config))
         /\ OneEach(FullChain(model), config.order, Others(model))
<1> DEFINE cloud == buildCloudChain(model, config)
           local == ollamaStepForModel(model, config)
           A == Allowed(model, config)
<1>1. /\ cloud \in Seq(CloudSteps(model))
      /\ OneEach(cloud, config.order, Others(model))
  BY CloudChain
<1>2. local \in Seq(LocalSteps) /\ OneEach(local, config.order, Others(model))
  BY LocalChain
<1>3. \A x \in CloudSteps(model), y \in LocalSteps : x.provider # y.provider
  BY DEF CloudSteps, LocalSteps, Clouds
<1>4. CASE config.mode = "local_only"
  <2>1. LocalSteps \subseteq A
    BY <1>4 DEF Allowed, LocalSteps
  <2>2. config.ollama
    BY <1>4 DEF detectProvider
  <2>3. FullChain(model) = local
    BY <1>4, <2>2 DEF FullChain, GetFailoverChain, ollamaStepForModel
  <2> HIDE DEF local, A
  <2> QED  BY <1>2, <2>1, <2>3, Widened DEF A
<1>5. CASE config.mode = "cloud_only"
  <2>1. CloudSteps(model) \subseteq A
    BY <1>5 DEF Allowed, CloudSteps, Clouds
  <2>2. cloud = <<>> => detectProviderForModel(model) = None
    <3>1. ASSUME detectProviderForModel(model) # None PROVE cloud # <<>>
      BY <1>1, <3>1 DEF buildCloudChain
    <3> QED  BY <3>1
  <2>3. FullChain(model) = cloud
    BY <1>5, <2>2 DEF FullChain, GetFailoverChain
  <2> HIDE DEF cloud, A
  <2> QED  BY <1>1, <2>1, <2>3, Widened DEF A
<1>6. CASE config.mode \notin {"local_only", "cloud_only"}
  <2>1. CloudSteps(model) \subseteq A /\ LocalSteps \subseteq A
    BY <1>6 DEF Allowed
  <2>2. cloud \in Seq(A) /\ local \in Seq(A)
    BY <1>1, <1>2, <2>1, Widened
  <2>3. cloud = <<>> => detectProviderForModel(model) = None
    <3>1. ASSUME detectProviderForModel(model) # None PROVE cloud # <<>>
      BY <1>1, <3>1 DEF buildCloudChain
    <3> QED  BY <3>1
  <2>4. \/ FullChain(model) = local \o cloud
        \/ FullChain(model) = cloud \o local
    <3>1. CASE config.mode = "local_first"
      <4>1. GetFailoverChain(model, config) = local \o cloud
        BY <3>1 DEF GetFailoverChain
      <4>2. local \o cloud = <<>> => cloud = <<>>
        BY <2>2
      <4> QED  BY <2>3, <4>1, <4>2 DEF FullChain
    <3>2. CASE config.mode # "local_first"
      <4>1. GetFailoverChain(model, config) = cloud \o local
        BY <1>6, <3>2 DEF GetFailoverChain
      <4>2. cloud \o local = <<>> => cloud = <<>>
        BY <2>2
      <4> QED  BY <2>3, <4>1, <4>2 DEF FullChain
    <3> QED  BY <3>1, <3>2
  <2> HIDE DEF cloud, local, A
  <2>5. cloud \o local \in Seq(A) /\ local \o cloud \in Seq(A)
    BY <2>2
  <2>6. /\ OneEach(cloud \o local, config.order, Others(model))
        /\ OneEach(local \o cloud, config.order, Others(model))
    BY <1>1, <1>2, <1>3, JoinedOneEach
  <2> QED  BY <2>4, <2>5, <2>6 DEF A
<1> QED  BY <1>4, <1>5, <1>6

(* Cutting a chain keeps what it is made of.                               *)
LEMMA StepsGood ==
  ASSUME NEW model, NEW T, config.order \in Seq(T),
         detectProvider(model, config) # None
  PROVE  /\ StepsFor(model) \in Seq(Allowed(model, config))
         /\ Len(StepsFor(model)) <= maxAttempts
         /\ OneEach(StepsFor(model), config.order, Others(model))
<1> DEFINE all == FullChain(model)
           n == IF Len(all) < maxAttempts THEN Len(all) ELSE maxAttempts
           cut == SubSeq(all, 1, n)
<1>1. StepsFor(model) = cut
  BY DEF StepsFor, FullChain
<1>2. /\ all \in Seq(Allowed(model, config))
      /\ OneEach(all, config.order, Others(model))
  BY ChainGood
<1> HIDE DEF all
<1>3. n \in Nat /\ n <= Len(all) /\ n <= maxAttempts
  BY <1>2, AttemptsAssumption
<1> HIDE DEF n
<1>4. /\ cut \in Seq(Allowed(model, config)) /\ Len(cut) = n
      /\ \A k \in DOMAIN cut : k \in DOMAIN all /\ cut[k] = all[k]
  BY <1>2, <1>3
<1>5. PICK place : Places(place, all, config.order, Others(model))
  BY <1>2 DEF OneEach
<1> HIDE DEF cut
<1>6. Places(place, cut, config.order, Others(model))
  BY <1>4, <1>5 DEF Places
<1> QED  BY <1>1, <1>3, <1>4, <1>6 DEF OneEach

-----------------------------------------------------------------------------
(* The inductive invariant: the attempts are the chain's first steps, a    *)
(* provider's stream is open only in the control points that read it, and  *)
(* only an error that is not retriable ends the chain early.               *)

Outcomes == Errors \cup {Answered, Cancelled}
Trials == [step : ChainSteps, outcome : Outcomes]

WorldInv ==
  /\ config \in [mode : Modes, order : Orders, ollama : BOOLEAN]
  /\ request \in [model : Models, stream : BOOLEAN]
  /\ pc \in {"new", "trying", "priming", "relaying", "rejected", "failed", "done"}
  /\ cancelled \in BOOLEAN

ChainInv ==
  /\ steps \in Seq(ChainSteps) /\ attempts \in Seq(Trials)
  /\ pc \in {"new", "rejected"} => steps = <<>> /\ attempts = <<>>
  /\ pc \notin {"new", "rejected"} =>
       /\ detectProvider(request.model, config) # None
       /\ steps = StepsFor(request.model)
  /\ Len(attempts) <= Len(steps)
  /\ pc \in {"trying", "priming"} => Len(attempts) < Len(steps)
  /\ \A k \in 1 .. Len(attempts) : attempts[k].step = steps[k]

StreamInv ==
  /\ pc = "priming" => open = {Len(attempts) + 1}
  /\ pc = "relaying" => /\ Len(attempts) >= 1 /\ open = {Len(attempts)}
                        /\ result.final = steps[Len(attempts)]
  /\ pc \notin {"priming", "relaying"} => open = {}

EndInv ==
  pc = "failed" /\ Len(attempts) < Len(steps) =>
    Len(attempts) >= 1 /\ ~isRetriableError(attempts[Len(attempts)].outcome)

Inv == WorldInv /\ ChainInv /\ StreamInv /\ EndInv

LEMMA InitInv == Init => Inv
<1> SUFFICES ASSUME Init PROVE Inv
  OBVIOUS
<1>1. /\ pc = "new" /\ steps = <<>> /\ attempts = <<>> /\ Len(<<>>) = 0
      /\ open = {} /\ cancelled = FALSE
  BY DEF Init
<1>2. WorldInv
  BY DEF Init, WorldInv
<1>3. <<>> \in Seq(ChainSteps) /\ <<>> \in Seq(Trials)
  OBVIOUS
<1>4. ChainInv
  BY <1>1, <1>3 DEF ChainInv
<1>5. StreamInv /\ EndInv
  BY <1>1 DEF StreamInv, EndInv
<1> QED  BY <1>2, <1>4, <1>5 DEF Inv

LEMMA ChainStepsBound ==
  ASSUME Inv, pc \notin {"new", "rejected"}
  PROVE  /\ steps \in Seq(Allowed(request.model, config))
         /\ Len(steps) <= maxAttempts
         /\ OneEach(steps, config.order, Others(request.model))
<1>1. config.order \in Seq(STRING)
  BY OrdersAssumption DEF Inv, WorldInv
<1>2. detectProvider(request.model, config) # None /\ steps = StepsFor(request.model)
  BY DEF Inv, ChainInv
<1> QED  BY <1>1, <1>2, StepsGood

LEMMA RecordInv ==
  ASSUME Inv, Len(attempts) < Len(steps), NEW outcome \in Outcomes, Record(outcome)
  PROVE  /\ attempts' \in Seq(Trials) /\ Len(attempts') = Len(attempts) + 1
         /\ \A k \in 1 .. Len(attempts') : attempts'[k].step = steps[k]
         /\ attempts'[Len(attempts) + 1].outcome = outcome
         /\ Current = steps[Len(attempts) + 1]
<1>1. /\ steps \in Seq(ChainSteps) /\ attempts \in Seq(Trials)
      /\ Len(attempts) \in Nat /\ Len(steps) \in Nat
  BY DEF Inv, ChainInv
<1>2. Current = steps[Len(attempts) + 1]
  BY DEF Current, Position
<1>3. Current \in ChainSteps
  BY <1>1, <1>2
<1> DEFINE trial == [step |-> Current, outcome |-> outcome]
<1>4. trial \in Trials /\ trial.step = Current /\ trial.outcome = outcome
  BY <1>3 DEF Trials
<1> HIDE DEF trial
<1>5. attempts' = Append(attempts, trial)
  BY DEF Record, trial
<1>6. /\ attempts' \in Seq(Trials) /\ Len(attempts') = Len(attempts) + 1
      /\ attempts'[Len(attempts) + 1] = trial
      /\ \A k \in 1 .. Len(attempts) : attempts'[k] = attempts[k]
  BY <1>1, <1>4, <1>5
<1>7. ASSUME NEW k \in 1 .. Len(attempts') PROVE attempts'[k].step = steps[k]
  <2>1. CASE k \in 1 .. Len(attempts)
    BY <1>6, <2>1 DEF Inv, ChainInv
  <2>2. CASE k = Len(attempts) + 1
    BY <1>2, <1>4, <1>6, <2>2
  <2> QED  BY <1>1, <1>6, <2>1, <2>2
<1> QED  BY <1>2, <1>4, <1>6, <1>7

(* What an attempt that was logged leaves, whatever became of it.          *)
LEMMA LoggedInv ==
  ASSUME Inv, pc \in {"trying", "priming"},
         UNCHANGED <<config, request, steps>>, cancelled' \in BOOLEAN,
         NEW outcome \in Outcomes, Record(outcome),
         pc' \in {"trying", "relaying", "failed", "done"},
         pc' = "trying" => Len(attempts) + 1 < Len(steps),
         pc' = "failed" => ~isRetriableError(outcome) \/ Len(attempts) + 1 >= Len(steps),
         pc' = "relaying" => open' = {Len(attempts) + 1} /\ result'.final = Current,
         pc' # "relaying" => open' = {}
  PROVE  Inv'
<1>1. /\ Len(attempts) < Len(steps) /\ Len(attempts) \in Nat /\ Len(steps) \in Nat
      /\ steps \in Seq(ChainSteps)
      /\ detectProvider(request.model, config) # None
      /\ steps = StepsFor(request.model)
  BY DEF Inv, ChainInv
<1>2. /\ attempts' \in Seq(Trials) /\ Len(attempts') = Len(attempts) + 1
      /\ \A k \in 1 .. Len(attempts') : attempts'[k].step = steps[k]
      /\ attempts'[Len(attempts) + 1].outcome = outcome
      /\ Current = steps[Len(attempts) + 1]
  BY <1>1, RecordInv
<1>3. WorldInv'
  BY DEF Inv, WorldInv
<1>4. StepsFor(request.model)' = StepsFor(request.model)
      /\ detectProvider(request.model, config)' = detectProvider(request.model, config)
  BY DEF StepsFor
<1>5. ChainInv'
  BY <1>1, <1>2, <1>4 DEF ChainInv
<1>6. StreamInv'
  BY <1>1, <1>2 DEF StreamInv
<1>7. EndInv'
  BY <1>1, <1>2 DEF EndInv
<1> QED  BY <1>3, <1>5, <1>6, <1>7 DEF Inv

LEMMA FailureOutcome == Failures \subseteq Outcomes
  BY DEF Failures, Outcomes

LEMMA StepInv == Inv /\ [Next]_vars => Inv'
<1> SUFFICES ASSUME Inv, [Next]_vars PROVE Inv'
  OBVIOUS
<1>1. CASE Reject
  <2>1. StepsFor(request.model)' = StepsFor(request.model)
    BY <1>1 DEF Reject, StepsFor
  <2> QED
    BY <1>1, <2>1 DEF Reject, Inv, WorldInv, ChainInv, StreamInv, EndInv
<1>2. CASE Begin
  <2>1. /\ pc = "new" /\ pc' = IF steps' = <<>> THEN "failed" ELSE "trying"
        /\ detectProvider(request.model, config) # None
        /\ UNCHANGED <<config, request, attempts, open, cancelled, result>>
    BY <1>2 DEF Begin
  <2>2. StepsFor(request.model)' = StepsFor(request.model)
    BY <2>1 DEF StepsFor
  <2>3. steps' = StepsFor(request.model)
    BY <1>2 DEF Begin
  <2>4. config.order \in Seq(STRING)
    BY OrdersAssumption DEF Inv, WorldInv
  <2>5. steps' \in Seq(ChainSteps) /\ Len(steps') \in Nat
    <3>1. steps' \in Seq(Allowed(request.model, config))
      BY <2>1, <2>3, <2>4, StepsGood
    <3>2. Allowed(request.model, config) \subseteq ChainSteps
      BY DEF Allowed, CloudSteps, LocalSteps
    <3> QED  BY <3>1, <3>2, Widened
  <2>6. steps' # <<>> => Len(steps') > 0
    BY <2>5
  <2>7. attempts = <<>> /\ open = {} /\ Len(attempts) = 0 /\ Len(<<>>) = 0
    BY <2>1 DEF Inv, ChainInv, StreamInv
  <2>8. WorldInv'
    BY <2>1 DEF Inv, WorldInv
  <2>9. ChainInv'
    BY <2>1, <2>2, <2>3, <2>5, <2>6, <2>7 DEF Inv, ChainInv
  <2>10. StreamInv' /\ EndInv'
    BY <2>1, <2>5, <2>6, <2>7 DEF StreamInv, EndInv
  <2> QED  BY <2>8, <2>9, <2>10 DEF Inv
<1>3. CASE AttemptRequest
  <2>1. /\ pc = "trying" /\ UNCHANGED <<config, request, steps, open, cancelled>>
        /\ open = {} /\ cancelled \in BOOLEAN
    BY <1>3 DEF AttemptRequest, Inv, StreamInv, WorldInv
  <2>2. CASE Win("done")
    <3>1. Record(Answered) /\ pc' = "done" /\ Answered \in Outcomes
      BY <2>2 DEF Win, Outcomes
    <3> QED  BY <2>1, <3>1, LoggedInv
  <2>3. CASE \E error \in Failures : Fail(error)
    <3>1. PICK error \in Failures : Fail(error)
      BY <2>3
    <3>2. /\ Record(error) /\ error \in Outcomes
          /\ pc' = IF isRetriableError(error) /\ Len(attempts) + 1 < Len(steps)
                     THEN "trying" ELSE "failed"
      BY <3>1, FailureOutcome DEF Fail, Position
    <3>3. Len(attempts) \in Nat /\ Len(steps) \in Nat
      BY DEF Inv, ChainInv
    <3> QED  BY <2>1, <3>2, <3>3, LoggedInv
  <2> QED  BY <1>3, <2>2, <2>3 DEF AttemptRequest
<1>4. CASE OpenStream
  <2>1. /\ pc = "trying" /\ UNCHANGED <<config, request, steps, cancelled>>
        /\ open = {} /\ cancelled \in BOOLEAN
    BY <1>4 DEF OpenStream, Inv, StreamInv, WorldInv
  <2>2. CASE /\ pc' = "priming" /\ open' = open \cup {Position}
             /\ UNCHANGED <<attempts, result>>
    <3>1. StepsFor(request.model)' = StepsFor(request.model)
      BY <2>1 DEF StepsFor
    <3>2. open' = {Len(attempts) + 1}
      BY <2>1, <2>2 DEF Position
    <3>3. WorldInv' /\ StreamInv' /\ EndInv'
      BY <2>1, <2>2, <3>2 DEF Inv, WorldInv, StreamInv, EndInv
    <3>4. ChainInv'
      BY <2>1, <2>2, <3>1 DEF Inv, ChainInv
    <3> QED  BY <3>3, <3>4 DEF Inv
  <2>3. CASE (\E error \in Failures : ~error.deadline /\ Fail(error)) /\ UNCHANGED open
    <3>1. PICK error \in Failures : Fail(error)
      BY <2>3
    <3>2. /\ Record(error) /\ error \in Outcomes
          /\ pc' = IF isRetriableError(error) /\ Len(attempts) + 1 < Len(steps)
                     THEN "trying" ELSE "failed"
      BY <3>1, FailureOutcome DEF Fail, Position
    <3>3. Len(attempts) \in Nat /\ Len(steps) \in Nat
      BY DEF Inv, ChainInv
    <3> QED  BY <2>1, <2>3, <3>2, <3>3, LoggedInv
  <2> QED  BY <1>4, <2>2, <2>3 DEF OpenStream
<1>5. CASE PrimeStream
  <2>1. /\ pc = "priming" /\ UNCHANGED <<config, request, steps, cancelled>>
        /\ open = {Len(attempts) + 1} /\ cancelled \in BOOLEAN
    BY <1>5 DEF PrimeStream, Inv, StreamInv, WorldInv
  <2>2. CASE Win("relaying") /\ UNCHANGED open
    <3>1. /\ Record(Answered) /\ pc' = "relaying" /\ Answered \in Outcomes
          /\ result'.final = Current
      BY <2>2 DEF Win, Outcomes
    <3> QED  BY <2>1, <2>2, <3>1, LoggedInv
  <2>3. CASE /\ \E error \in Failures : ~error.deadline /\ Fail(error)
             /\ open' = open \ {Position}
    <3>1. PICK error \in Failures : Fail(error)
      BY <2>3
    <3>2. /\ Record(error) /\ error \in Outcomes
          /\ pc' = IF isRetriableError(error) /\ Len(attempts) + 1 < Len(steps)
                     THEN "trying" ELSE "failed"
      BY <3>1, FailureOutcome DEF Fail, Position
    <3>3. Len(attempts) \in Nat /\ Len(steps) \in Nat
      BY DEF Inv, ChainInv
    <3>4. open' = {}
      BY <2>1, <2>3 DEF Position
    <3> QED  BY <2>1, <3>2, <3>3, <3>4, LoggedInv
  <2> QED  BY <1>5, <2>2, <2>3 DEF PrimeStream
<1>6. CASE EndRelay
  <2>1. StepsFor(request.model)' = StepsFor(request.model)
    BY <1>6 DEF EndRelay, StepsFor
  <2>2. /\ pc = "relaying" /\ pc' = "done" /\ open' = {}
        /\ UNCHANGED <<config, request, steps, attempts, cancelled, result>>
    BY <1>6 DEF EndRelay, Inv, StreamInv
  <2>3. ChainInv'
    BY <2>1, <2>2 DEF Inv, ChainInv
  <2> QED  BY <2>2, <2>3 DEF Inv, WorldInv, StreamInv, EndInv
<1>7. CASE ClientLeaves \/ UNCHANGED vars
  <2>1. /\ UNCHANGED <<config, request, pc, steps, attempts, open, result>>
        /\ cancelled' \in BOOLEAN
    BY <1>7 DEF ClientLeaves, vars, Inv, WorldInv
  <2>2. StepsFor(request.model)' = StepsFor(request.model)
    BY <2>1 DEF StepsFor
  <2>3. ChainInv'
    BY <2>1, <2>2 DEF Inv, ChainInv
  <2> QED  BY <2>1, <2>3 DEF Inv, WorldInv, StreamInv, EndInv
<1> QED
  BY <1>1, <1>2, <1>3, <1>4, <1>5, <1>6, <1>7 DEF Next

(* Every reachable state of a request satisfies the inductive invariant,   *)
(* in any configuration.                                                   *)
THEOREM Invariance == Spec => []Inv
  BY InitInv, StepInv, PTL DEF Spec

-----------------------------------------------------------------------------
(* What it means for the request.                                          *)

(* The executor tries at most maxAttempts steps, each a step of the chain, *)
(* and never reads past its end (executor.go:85-96, executor.go:300).      *)
THEOREM TypeCorrect == Spec => []TypeOK
<1>1. ASSUME Inv PROVE TypeOK
  <2>1. /\ steps \in Seq(ChainSteps) /\ attempts \in Seq(Trials)
        /\ DOMAIN steps = 1 .. Len(steps)
        /\ Len(attempts) \in Nat /\ Len(steps) \in Nat
    BY <1>1 DEF Inv, ChainInv
  <2>2. Len(steps) <= maxAttempts
    <3>1. CASE pc \in {"new", "rejected"}
      BY <1>1, <3>1, AttemptsAssumption DEF Inv, ChainInv
    <3> QED  BY <1>1, <3>1, ChainStepsBound
  <2>3. open \subseteq DOMAIN steps
    BY <1>1, <2>1 DEF Inv, ChainInv, StreamInv, WorldInv
  <2>4. /\ Len(attempts) <= Len(steps)
        /\ pc \in {"trying", "priming"} => Position <= Len(steps)
    BY <1>1, <2>1 DEF Inv, ChainInv, Position
  <2> QED  BY <1>1, <2>2, <2>3, <2>4 DEF TypeOK, Inv, WorldInv
<1> QED  BY <1>1, Invariance, PTL

LEMMA TriedSteps ==
  ASSUME Inv
  PROVE  \A k \in DOMAIN attempts :
           /\ k \in DOMAIN steps /\ attempts[k].step = steps[k]
           /\ steps[k] \in Allowed(request.model, config)
<1> SUFFICES ASSUME NEW k \in DOMAIN attempts
             PROVE  /\ k \in DOMAIN steps /\ attempts[k].step = steps[k]
                    /\ steps[k] \in Allowed(request.model, config)
  OBVIOUS
<1>1. /\ steps \in Seq(ChainSteps) /\ attempts \in Seq(Trials)
      /\ DOMAIN steps = 1 .. Len(steps) /\ DOMAIN attempts = 1 .. Len(attempts)
      /\ Len(attempts) \in Nat /\ Len(steps) \in Nat /\ Len(attempts) <= Len(steps)
      /\ attempts[k].step = steps[k]
  BY DEF Inv, ChainInv
<1>2. k \in DOMAIN steps
  BY <1>1
<1>3. pc \notin {"new", "rejected"}
  BY <1>1 DEF Inv, ChainInv
<1>4. steps \in Seq(Allowed(request.model, config))
  BY <1>3, ChainStepsBound
<1> QED  BY <1>1, <1>2, <1>4

(* local_only keeps a request off the clouds and cloud_only off the local  *)
(* models, whatever the model is called, whatever order is configured and  *)
(* however attempts fail (chains.go:251-273, executor.go:68-80).           *)
THEOREM ModesAreRespected == Spec => []ModeRespected
<1>1. ASSUME Inv PROVE ModeRespected
  BY <1>1, TriedSteps DEF ModeRespected, Tried, Allowed
<1> QED  BY <1>1, Invariance, PTL

(* A provider that failed is not asked again for the same request, except  *)
(* a fallback that the configured order names again (chains.go:164-178):   *)
(* the attempts at one provider stand at different places of the order.    *)
THEOREM ProvidersTriedOnce == Spec => []EachProviderOnce
<1>1. ASSUME Inv, NEW provider \in Tried
      PROVE  Cardinality(AttemptsAt(provider)) <=
               IF provider \in Others(request.model)
                 THEN Cardinality(PlacesOf(provider)) ELSE 1
  <2> DEFINE S == AttemptsAt(provider)
  <2>1. \A k \in S : /\ k \in DOMAIN attempts /\ k \in DOMAIN steps
                     /\ steps[k].provider = provider
    BY <1>1, TriedSteps DEF AttemptsAt
  <2>2. pc \notin {"new", "rejected"} /\ config.order \in Seq(STRING)
    BY <1>1, OrdersAssumption DEF Tried, Inv, ChainInv, WorldInv
  <2>3. PICK place : Places(place, steps, config.order, Others(request.model))
    BY <1>1, <2>2, ChainStepsBound DEF OneEach
  <2> HIDE DEF S
  <2>4. CASE provider \in Others(request.model)
    <3> DEFINE f == [k \in S |-> place[k]]
    <3>1. \A k \in S : place[k] \in DOMAIN config.order /\ config.order[place[k]] = provider
      BY <2>1, <2>3, <2>4 DEF Places
    <3>2. \A k \in S : f[k] \in PlacesOf(provider)
      BY <3>1 DEF PlacesOf
    <3>3. \A k, l \in S : f[k] = f[l] => k = l
      BY <2>1, <2>3 DEF Places
    <3>4. f \in Injection(S, PlacesOf(provider))
      BY <3>2, <3>3 DEF Injection, IsInjective
    <3>5. IsFiniteSet(PlacesOf(provider))
      <4>1. PlacesOf(provider) \subseteq 1 .. Len(config.order) /\ Len(config.order) \in Nat
        BY <2>2 DEF PlacesOf
      <4>2. IsFiniteSet(1 .. Len(config.order))
        BY <4>1, FS_Interval
      <4> QED  BY <4>1, <4>2, FS_Subset
    <3>6. Cardinality(S) <= Cardinality(PlacesOf(provider))
      BY <3>4, <3>5, FS_Injection
    <3> QED  BY <2>4, <3>6 DEF S
  <2>5. CASE provider \notin Others(request.model)
    <3>1. \A k, l \in S : k = l
      BY <2>1, <2>3, <2>5 DEF Places
    <3>2. Cardinality(S) <= 1
      <4>1. CASE S = {}
        BY <4>1, FS_EmptySet
      <4>2. CASE S # {}
        <5>1. PICK k \in S : TRUE
          BY <4>2
        <5>2. S = {k}
          BY <3>1, <5>1
        <5>3. Cardinality(S) = 1
          BY <5>2, FS_Singleton
        <5> QED  BY <5>3
      <4> QED  BY <4>1, <4>2
    <3> QED  BY <2>5, <3>2 DEF S
  <2> QED  BY <2>4, <2>5
<1>2. ASSUME Inv PROVE EachProviderOnce
  BY <1>1, <1>2 DEF EachProviderOnce, Others
<1> QED  BY <1>2, Invariance, PTL

(* No interleaving of failures, end of file and a client that leaves keeps *)
(* a provider's stream open that nobody reads (executor.go:372,            *)
(* chat_stream.go:303).                                                    *)
THEOREM StreamsAreClosed == Spec => []OneOpenStream
<1>1. ASSUME Inv PROVE OneOpenStream
  <2>1. open = {} \/ \E k : open = {k}
    BY <1>1 DEF Inv, StreamInv
  <2>2. Cardinality(open) <= 1
    <3>1. CASE open = {}
      BY <3>1, FS_EmptySet
    <3>2. CASE \E k : open = {k}
      <4>1. Cardinality(open) = 1
        BY <3>2, FS_Singleton
      <4> QED  BY <4>1
    <3> QED  BY <2>1, <3>1, <3>2
  <2> QED  BY <1>1, <2>2 DEF OneOpenStream, Ended, Inv, StreamInv
<1> QED  BY <1>1, Invariance, PTL

LEMMA TriggersAreRetriable ==
  ASSUME NEW error, ~isRetriableError(error)
  PROVE  ~DocumentedTrigger(error)
<1>1. /\ classifyError(error) = "unknown_error"
      /\ extractStatusCode(error) = "400"
  BY DEF isRetriableError
<1>2. error.status = "400"
  BY <1>1 DEF extractStatusCode, None
<1>3. /\ ~error.deadline
      /\ Mentioned(error) \cap {"connection", "network", "timeout"} = {}
  BY <1>1 DEF classifyError
<1> QED  BY <1>2, <1>3 DEF DocumentedTrigger, Mentioned

(* A request never gives up on a documented failover trigger while a step  *)
(* of its chain is left, however the error is worded                       *)
(* (executor.go:393-496).                                                  *)
THEOREM TriggersDoFailOver == Spec => []TriggersFailOver
<1>1. ASSUME Inv PROVE TriggersFailOver
  BY <1>1, TriggersAreRetriable DEF Inv, EndInv, TriggersFailOver
<1> QED  BY <1>1, Invariance, PTL

(* A request for a cheap model is never answered by a cloud provider's     *)
(* flagship after a failure (chains.go:33-61).                             *)
THEOREM CheapModelsStayCheap == Spec => []CheapStaysCheap
<1>1. ASSUME Inv PROVE CheapStaysCheap
  BY <1>1, TriedSteps
  DEF CheapStaysCheap, Fallbacks, Allowed, CloudSteps, LocalSteps, Cheap, Clouds
<1> QED  BY <1>1, Invariance, PTL

=============================================================================
