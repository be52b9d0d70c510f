------------------------ MODULE CustomerLimitsProofs ------------------------
(***************************************************************************)
(* Proofs about the limits of a customer, for any number of requests, any  *)
(* tiers, amounts, periods and faults.                                     *)
(*                                                                         *)
(* The windows agree and the record is in order by themselves: each step   *)
(* keeps them.  The overshoot needs that whoever may still add to the      *)
(* counters is known to be late, and that the last measured request is no  *)
(* longer to arrive.  The ledger needs that Redis already holds what is    *)
(* still on its way to Postgres (Ahead) and nothing of the days to come    *)
(* (NothingAhead).                                                         *)
(***************************************************************************)
EXTENDS CustomerLimits, ArithmeticTheorems, TLAPS

(* TypeOK speaks of each request; the updates need functions, and a new    *)
(* model may be set because nothing of the old one is left to do.          *)
TypeInv ==
  /\ TypeOK
  /\ spec \in [Requests -> Specs]
  /\ model \in [Requests -> Models]
  /\ labels \in [Requests -> SUBSET Labels]
  /\ estimatedCost \in [Requests -> Nat]
  /\ actualCost \in [Requests -> Nat]
  /\ keysAt \in [Requests -> 0 .. clock]
  /\ todo \in [Requests -> SUBSET Names]
  /\ \A r \in Requests : pc[r] = "calling" => todo[r] = {}

(* The requests that can still add to a counter are late.                  *)
LateInv ==
  /\ \A r \in Requests : pc[r] \in {"names", "calling", "spend"} => r \in late["charge"]
  /\ \A r \in Requests :
       pc[r] \in {"names", "calling", "spend", "requests"} => r \in late["count"]
  /\ last # None => last \in Requests /\ pc[last] # "idle"

Pending == {r \in Requests : pc[r] \in {"requests", "named", "persisting"}}

Ahead == Total(spent["day"]) >= Total(ledger) + Bill(Pending)

NothingAhead == \A s \in Slots : s > Slot("day", clock) => spent["day"][s] = 0

Early == {"idle", "checking", "names", "calling", "spend", "unrecorded"} \cup Refused

-----------------------------------------------------------------------------
(* Slots and keys.                                                         *)

Windows == SpendWindows \cup RequestWindows

LEMMA PeriodType == DOMAIN Period = Windows /\ \A w \in Windows : Period[w] \in Nat \ {0}
  BY CustomerAssumption DEF Windows

LEMMA SlotIn ==
  ASSUME NEW w \in Windows, NEW t \in Nat
  PROVE  Slot(w, t) \in 0 .. t
  BY PeriodType, DivAtMost DEF Slot

LEMMA KeysIn ==
  ASSUME TypeInv, NEW r \in Requests
  PROVE  \A w \in Windows : /\ Keys(r)[w] = Slot(w, keysAt[r])
                            /\ Keys(r)[w] \in Slots /\ Keys(r)[w] <= Slot(w, clock)
<1>1. keysAt[r] \in Nat /\ keysAt[r] <= clock /\ clock \in Nat /\ clock <= MaxClock /\ MaxClock \in Nat
  BY CustomerAssumption DEF TypeInv, TypeOK
<1> TAKE w \in Windows
<1>2. Keys(r)[w] = Slot(w, keysAt[r])
  BY PeriodType DEF Keys
<1>3. Slot(w, keysAt[r]) \in Slots
  <2>1. Slot(w, keysAt[r]) \in 0 .. keysAt[r]
    BY <1>1, SlotIn
  <2> QED  BY <1>1, <2>1 DEF Slots
<1>4. Slot(w, keysAt[r]) <= Slot(w, clock)
  BY <1>1, PeriodType, DivMonotone DEF Slot
<1> QED  BY <1>2, <1>3, <1>4

LEMMA TodayIn ==
  ASSUME TypeInv
  PROVE  Slot("day", clock) \in Slots
<1>1. clock \in Nat /\ clock <= MaxClock /\ MaxClock \in Nat /\ "day" \in Windows
  BY CustomerAssumption DEF TypeInv, TypeOK, Windows, SpendWindows
<1>2. Slot("day", clock) \in 0 .. clock
  BY <1>1, SlotIn
<1> QED  BY <1>1, <1>2 DEF Slots

LEMMA AddAt ==
  ASSUME NEW c \in [Slots -> Nat], NEW amount \in Nat, NEW s \in Slots
  PROVE  /\ [c EXCEPT ![s] = @ + amount] \in [Slots -> Nat]
         /\ \A i \in Slots : [c EXCEPT ![s] = @ + amount][i] = c[i] + IF i = s THEN amount ELSE 0
  OBVIOUS

LEMMA AddToIs ==
  ASSUME NEW W, NEW c \in [W -> [Slots -> Nat]], NEW amount \in Nat,
         NEW keys, \A w \in W : keys[w] \in Slots
  PROVE  /\ AddTo(c, amount, keys) \in [W -> [Slots -> Nat]]
         /\ \A w \in W : \A s \in Slots :
              AddTo(c, amount, keys)[w][s] = c[w][s] + IF s = keys[w] THEN amount ELSE 0
  BY DEF AddTo

-----------------------------------------------------------------------------
(* Type correctness.                                                       *)

Places == {"idle", "persisting", "recorded", "unrecorded"} \cup InFlight \cup Refused

LEMMA InitType == Init => TypeInv
<1> SUFFICES ASSUME Init PROVE TypeInv
  OBVIOUS
<1> USE CustomerAssumption DEF Init
<1>1. /\ clock \in 0 .. MaxClock /\ faults \in 0 .. MaxFaults /\ lastAt \in 0 .. clock
      /\ last \in Requests \cup {None} /\ degraded \subseteq Requests
  OBVIOUS
<1>2. /\ spent \in [SpendWindows -> [Slots -> Nat]] /\ ledger \in [Slots -> Nat]
      /\ count \in [RequestWindows -> [Slots -> Nat]] /\ named \in [Names -> [Slots -> Nat]]
  OBVIOUS
<1>3. pc \in [Requests -> Places] /\ \A r \in Requests : pc[r] = "idle"
  BY DEF Places
<1>4. /\ keysAt \in [Requests -> 0 .. clock] /\ todo \in [Requests -> SUBSET Names]
      /\ estimatedCost \in [Requests -> Nat] /\ actualCost \in [Requests -> Nat]
      /\ \A r \in Requests : todo[r] = {}
  OBVIOUS
<1>5. late \in [{"charge", "count"} -> SUBSET Requests]
  OBVIOUS
<1> QED  BY <1>1, <1>2, <1>3, <1>4, <1>5 DEF TypeInv, TypeOK, Places

LEMMA GotoType ==
  ASSUME TypeInv, NEW r \in Requests, NEW label \in Places, Goto(r, label), clock' = clock
  PROVE  /\ pc' \in [Requests -> Places] /\ keysAt' \in [Requests -> 0 .. clock]
         /\ pc'[r] = label /\ \A q \in Requests \ {r} : pc'[q] = pc[q]
<1>1. clock \in Nat /\ pc \in [Requests -> Places] /\ keysAt \in [Requests -> 0 .. clock]
  BY CustomerAssumption DEF TypeInv, TypeOK, Places
<1> QED  BY <1>1 DEF Goto

LEMMA WithType ==
  ASSUME NEW sets \in [{"charge", "count"} -> SUBSET Requests], NEW r \in Requests
  PROVE  /\ With(sets, r) \in [{"charge", "count"} -> SUBSET Requests]
         /\ \A k \in {"charge", "count"} : With(sets, r)[k] = sets[k] \cup {r}
  BY DEF With

LEMMA UnrecordedType ==
  /\ Unrecorded \in [{"charge", "count"} -> SUBSET Requests]
  /\ Unrecorded["charge"] = {q \in Requests : pc[q] \in {"names", "calling", "spend"}}
  /\ Unrecorded["count"] =
       {q \in Requests : pc[q] \in {"names", "calling", "spend", "requests"}}
  BY DEF Unrecorded

(* What the steps before the record leave alone and where they lead.       *)
LEMMA TypeFrom ==
  ASSUME TypeInv, NEW r \in Requests, clock' = clock,
         pc' \in [Requests -> Places], \A q \in Requests \ {r} : pc'[q] = pc[q],
         keysAt' \in [Requests -> 0 .. clock],
         UNCHANGED <<spec, labels>>,
         spent' \in [SpendWindows -> [Slots -> Nat]],
         count' \in [RequestWindows -> [Slots -> Nat]],
         named' \in [Names -> [Slots -> Nat]], ledger' \in [Slots -> Nat],
         model' \in [Requests -> Models], \A q \in Requests \ {r} : model'[q] = model[q],
         estimatedCost' \in [Requests -> Nat], actualCost' \in [Requests -> Nat],
         todo' \in [Requests -> SUBSET Names], \A q \in Requests \ {r} : todo'[q] = todo[q],
         todo'[r] \subseteq {model'[r]} \cup labels[r],
         pc'[r] = "calling" => todo'[r] = {},
         degraded' \subseteq Requests,
         last' \in Requests \cup {None}, lastAt' \in 0 .. clock,
         late' \in [{"charge", "count"} -> SUBSET Requests],
         faults' \in 0 .. MaxFaults
  PROVE  TypeInv'
<1>1. \A q \in Requests :
        /\ spec'[q] \in Specs /\ model'[q] \in Models /\ labels'[q] \subseteq Labels
        /\ estimatedCost'[q] \in Nat /\ actualCost'[q] \in Nat
        /\ keysAt'[q] \in 0 .. clock'
        /\ todo'[q] \subseteq {model'[q]} \cup labels'[q]
        /\ pc'[q] = "calling" => todo'[q] = {}
  BY DEF TypeInv, TypeOK
<1>2. /\ spec' \in [Requests -> Specs] /\ labels' \in [Requests -> SUBSET Labels]
      /\ clock' \in 0 .. MaxClock
  BY DEF TypeInv, TypeOK
<1>3. TypeOK'
  BY <1>1, <1>2 DEF TypeOK, Places
<1> QED  BY <1>1, <1>2, <1>3 DEF TypeInv

(* The variables that a step leaves alone, in the form TypeFrom asks for.   *)
LEMMA TypeKept ==
  ASSUME TypeInv, NEW r \in Requests
  PROVE  /\ UNCHANGED redis => /\ spent' \in [SpendWindows -> [Slots -> Nat]]
                                /\ count' \in [RequestWindows -> [Slots -> Nat]]
                                /\ named' \in [Names -> [Slots -> Nat]]
         /\ UNCHANGED ledger => ledger' \in [Slots -> Nat]
         /\ UNCHANGED model => /\ model' \in [Requests -> Models]
                                /\ \A q \in Requests \ {r} : model'[q] = model[q]
         /\ UNCHANGED estimatedCost => estimatedCost' \in [Requests -> Nat]
         /\ UNCHANGED actualCost => actualCost' \in [Requests -> Nat]
         /\ UNCHANGED todo => /\ todo' \in [Requests -> SUBSET Names]
                               /\ \A q \in Requests \ {r} : todo'[q] = todo[q]
         /\ UNCHANGED <<todo, model>> => todo'[r] \subseteq {model'[r]} \cup labels[r]
         /\ UNCHANGED degraded => degraded' \subseteq Requests
         /\ UNCHANGED <<last, lastAt>> => last' \in Requests \cup {None} /\ lastAt' \in 0 .. clock
         /\ UNCHANGED late => late' \in [{"charge", "count"} -> SUBSET Requests]
         /\ UNCHANGED faults => faults' \in 0 .. MaxFaults
  BY DEF TypeInv, TypeOK, redis

LEMMA ArriveType ==
  ASSUME TypeInv, NEW r \in Requests, Arrive(r)
  PROVE  TypeInv'
<1>1. Goto(r, "checking") /\ clock' = clock
  BY DEF Arrive
<1>2. "checking" \in Places
  BY DEF Places, InFlight
<1>3. PICK c \in Estimates[model[r]] : estimatedCost' = [estimatedCost EXCEPT ![r] = c]
  BY DEF Arrive
<1>4. c \in Nat
  BY CustomerAssumption DEF TypeInv
<1>5. estimatedCost' \in [Requests -> Nat]
  BY <1>3, <1>4 DEF TypeInv
<1>6. /\ pc' \in [Requests -> Places] /\ keysAt' \in [Requests -> 0 .. clock]
      /\ pc'[r] = "checking" /\ \A q \in Requests \ {r} : pc'[q] = pc[q]
  BY <1>1, <1>2, GotoType
<1>7. /\ UNCHANGED <<redis, ledger, spec, labels, model, actualCost, todo>>
      /\ UNCHANGED <<degraded, last, lastAt, late, faults>>
  BY DEF Arrive, ghosts
<1> QED  BY <1>1, <1>5, <1>6, <1>7, TypeKept, TypeFrom

LEMMA TodoType ==
  ASSUME TypeInv, NEW r \in Requests, NEW S, S \subseteq {model[r]} \cup labels[r],
         todo' = [todo EXCEPT ![r] = S]
  PROVE  /\ todo' \in [Requests -> SUBSET Names] /\ todo'[r] = S
         /\ \A q \in Requests \ {r} : todo'[q] = todo[q]
<1>1. S \subseteq Names
  BY DEF TypeInv, Names
<1> QED  BY <1>1 DEF TypeInv

LEMMA SnapshotType ==
  ASSUME TypeInv, NEW r \in Requests, Snapshot(r)
  PROVE  TypeInv'
<1> DEFINE S == DOMAIN spec[r].named \cap ({model[r]} \cup labels[r])
<1>1. S \subseteq {model[r]} \cup labels[r]
  OBVIOUS
<1>2. /\ UNCHANGED <<clock, redis, ledger, inputs, model, actualCost, faults>>
      /\ late \in [{"charge", "count"} -> SUBSET Requests] /\ degraded' \subseteq Requests
  BY DEF Snapshot, TypeInv, TypeOK
<1>3. "overBudget" \in Places /\ "overCount" \in Places /\ "names" \in Places
  BY DEF Places, InFlight, Refused
<1>4. CASE (Goto(r, "overBudget") \/ Goto(r, "overCount")) /\ UNCHANGED <<todo, ghosts>>
  <2>1. /\ pc' \in [Requests -> Places] /\ keysAt' \in [Requests -> 0 .. clock]
        /\ pc'[r] # "calling" /\ \A q \in Requests \ {r} : pc'[q] = pc[q]
    BY <1>2, <1>3, <1>4, GotoType
  <2>2. /\ UNCHANGED <<clock, redis, ledger, spec, labels, estimatedCost, model, actualCost>>
        /\ UNCHANGED <<todo, last, lastAt, late, faults>>
    BY <1>2, <1>4 DEF inputs, ghosts
  <2> QED  BY <1>2, <2>1, <2>2, TypeKept, TypeFrom
<1>5. CASE /\ Goto(r, "names") /\ todo' = [todo EXCEPT ![r] = S]
           /\ \/ late' = With(late, r) /\ UNCHANGED <<last, lastAt>>
              \/ last' = r /\ lastAt' = keysAt[r] /\ late' = With(Unrecorded, r)
  <2>1. late' \in [{"charge", "count"} -> SUBSET Requests]
    BY <1>2, <1>5, WithType, UnrecordedType
  <2>2. last' \in Requests \cup {None} /\ lastAt' \in 0 .. clock
    BY <1>5 DEF TypeInv, TypeOK
  <2>3. /\ todo' \in [Requests -> SUBSET Names] /\ todo'[r] = S
        /\ \A q \in Requests \ {r} : todo'[q] = todo[q]
    BY <1>1, <1>5, TodoType
  <2>4. /\ pc' \in [Requests -> Places] /\ keysAt' \in [Requests -> 0 .. clock]
        /\ pc'[r] = "names" /\ \A q \in Requests \ {r} : pc'[q] = pc[q]
    BY <1>2, <1>3, <1>5, GotoType
  <2> HIDE DEF S
  <2> QED
    BY <1>1, <1>2, <2>1, <2>2, <2>3, <2>4, TypeFrom
    DEF redis, inputs, TypeInv, TypeOK
<1> QED  BY <1>4, <1>5 DEF Snapshot

LEMMA NoSnapshotType ==
  ASSUME TypeInv, NEW r \in Requests, NoSnapshot(r)
  PROVE  TypeInv'
<1> DEFINE S == DOMAIN spec[r].named \cap ({model[r]} \cup labels[r])
<1>1. S \subseteq {model[r]} \cup labels[r] /\ "names" \in Places
  BY DEF Places, InFlight
<1>2. late' \in [{"charge", "count"} -> SUBSET Requests]
  BY WithType DEF NoSnapshot, TypeInv, TypeOK
<1>3. /\ todo' \in [Requests -> SUBSET Names] /\ todo'[r] = S
      /\ \A q \in Requests \ {r} : todo'[q] = todo[q]
  BY <1>1, TodoType DEF NoSnapshot
<1>4. /\ pc' \in [Requests -> Places] /\ keysAt' \in [Requests -> 0 .. clock]
      /\ pc'[r] = "names" /\ \A q \in Requests \ {r} : pc'[q] = pc[q]
  BY <1>1, GotoType DEF NoSnapshot
<1> HIDE DEF S
<1> QED
  BY <1>1, <1>2, <1>3, <1>4, TypeFrom
  DEF NoSnapshot, redis, inputs, TypeInv, TypeOK

LEMMA CheckNameType ==
  ASSUME TypeInv, NEW r \in Requests, CheckName(r)
  PROVE  TypeInv'
<1>1. PICK n \in FirstOf(r) :
        \/ Goto(r, "overName") /\ UNCHANGED todo
        \/ Goto(r, "names") /\ todo' = [todo EXCEPT ![r] = @ \ {n}]
  BY DEF CheckName
<1>2. todo[r] \subseteq {model[r]} \cup labels[r] /\ todo \in [Requests -> SUBSET Names]
  BY DEF TypeInv, TypeOK
<1>3. /\ todo' \in [Requests -> SUBSET Names] /\ todo'[r] \subseteq todo[r]
      /\ \A q \in Requests \ {r} : todo'[q] = todo[q]
  BY <1>1, <1>2
<1>4. "overName" \in Places /\ "names" \in Places
  BY DEF Places, InFlight, Refused
<1>5. /\ pc' \in [Requests -> Places] /\ keysAt' \in [Requests -> 0 .. clock]
      /\ pc'[r] # "calling" /\ \A q \in Requests \ {r} : pc'[q] = pc[q]
  BY <1>1, <1>4, GotoType DEF CheckName
<1> QED
  BY <1>2, <1>3, <1>5, TypeFrom
  DEF CheckName, redis, inputs, ghosts, TypeInv, TypeOK

LEMMA EndCheckType ==
  ASSUME TypeInv, NEW r \in Requests, EndCheck(r)
  PROVE  TypeInv'
<1>1. Goto(r, "tooCostly") \/ Goto(r, "calling")
  BY DEF EndCheck
<1>2. "tooCostly" \in Places /\ "calling" \in Places
  BY DEF Places, InFlight, Refused
<1>3. /\ pc' \in [Requests -> Places] /\ keysAt' \in [Requests -> 0 .. clock]
      /\ \A q \in Requests \ {r} : pc'[q] = pc[q]
  BY <1>1, <1>2, GotoType DEF EndCheck
<1>4. /\ model' \in [Requests -> Models] /\ \A q \in Requests \ {r} : model'[q] = model[q]
  BY DEF EndCheck, TypeInv
<1>5. todo' = todo /\ todo[r] = {}
  BY DEF EndCheck
<1> QED
  BY <1>3, <1>4, <1>5, TypeFrom
  DEF EndCheck, redis, inputs, ghosts, TypeInv, TypeOK

LEMMA CheckFailsType ==
  ASSUME TypeInv, NEW r \in Requests, CheckFails(r)
  PROVE  TypeInv'
<1>1. "calling" \in Places
  BY DEF Places, InFlight
<1>2. /\ pc' \in [Requests -> Places] /\ keysAt' \in [Requests -> 0 .. clock]
      /\ \A q \in Requests \ {r} : pc'[q] = pc[q]
  BY <1>1, GotoType DEF CheckFails
<1>3. /\ todo' \in [Requests -> SUBSET Names] /\ todo'[r] = {}
      /\ \A q \in Requests \ {r} : todo'[q] = todo[q]
  BY TodoType DEF CheckFails
<1>4. late' \in [{"charge", "count"} -> SUBSET Requests]
  BY WithType DEF CheckFails, TypeInv, TypeOK
<1>5. faults' \in 0 .. MaxFaults
  BY CustomerAssumption DEF CheckFails, TypeInv, TypeOK
<1> QED
  BY <1>2, <1>3, <1>4, <1>5, TypeFrom
  DEF CheckFails, redis, inputs, TypeInv, TypeOK

LEMMA CompletedType ==
  ASSUME TypeInv, NEW r \in Requests, Completed(r)
  PROVE  TypeInv'
<1>1. "spend" \in Places
  BY DEF Places, InFlight
<1>2. /\ pc' \in [Requests -> Places] /\ keysAt' \in [Requests -> 0 .. clock]
      /\ pc'[r] = "spend" /\ \A q \in Requests \ {r} : pc'[q] = pc[q]
  BY <1>1, GotoType DEF Completed
<1>3. PICK m \in Models : \E c \in Bills[m] :
        model' = [model EXCEPT ![r] = m] /\ actualCost' = [actualCost EXCEPT ![r] = c]
  BY DEF Completed
<1> PICK c \in Bills[m] : actualCost' = [actualCost EXCEPT ![r] = c]
  BY <1>3
<1>4. c \in Nat
  BY CustomerAssumption
<1>5. /\ model' \in [Requests -> Models] /\ \A q \in Requests \ {r} : model'[q] = model[q]
      /\ actualCost' \in [Requests -> Nat]
  BY <1>3, <1>4 DEF TypeInv
<1>6. todo' = todo /\ todo'[r] \subseteq {model'[r]} \cup labels[r]
  BY DEF Completed, TypeInv
<1>7. /\ UNCHANGED <<clock, redis, ledger, spec, labels, estimatedCost>>
      /\ UNCHANGED <<degraded, last, lastAt, late, faults>>
  BY DEF Completed, inputs, ghosts
<1> QED  BY <1>2, <1>5, <1>6, <1>7, TypeKept, TypeFrom

LEMMA EndsType ==
  ASSUME TypeInv, NEW r \in Requests,
         NotRecorded(r) \/ Killed(r) \/ PersistFails(r) \/ persistToDatabase(r)
  PROVE  TypeInv'
<1>1. "unrecorded" \in Places /\ "recorded" \in Places
  BY DEF Places
<1>2. /\ pc' \in [Requests -> Places] /\ keysAt' \in [Requests -> 0 .. clock]
      /\ pc'[r] # "calling" /\ \A q \in Requests \ {r} : pc'[q] = pc[q]
  BY <1>1, GotoType DEF NotRecorded, Killed, PersistFails, persistToDatabase
<1>3. /\ todo' \in [Requests -> SUBSET Names] /\ todo'[r] \subseteq {model[r]} \cup labels[r]
      /\ \A q \in Requests \ {r} : todo'[q] = todo[q]
  <2>1. CASE Killed(r)
    BY <2>1, TodoType DEF Killed
  <2>2. CASE NotRecorded(r) \/ PersistFails(r) \/ persistToDatabase(r)
    BY <2>2 DEF NotRecorded, PersistFails, persistToDatabase, TypeInv, TypeOK
  <2> QED  BY <2>1, <2>2
<1>4. faults' \in 0 .. MaxFaults
  BY CustomerAssumption
  DEF NotRecorded, Killed, PersistFails, persistToDatabase, TypeInv, TypeOK
<1>5. ledger' \in [Slots -> Nat]
  <2>1. CASE persistToDatabase(r)
    <3>1. ledger' = [ledger EXCEPT ![Slot("day", clock)] = @ + actualCost[r]]
      BY <2>1 DEF persistToDatabase, RecordCustomerSpend
    <3>2. actualCost[r] \in Nat /\ ledger \in [Slots -> Nat]
      BY DEF TypeInv, TypeOK
    <3> QED  BY <3>1, <3>2, TodayIn, AddAt
  <2>2. CASE NotRecorded(r) \/ PersistFails(r) \/ Killed(r)
    BY <2>2 DEF NotRecorded, PersistFails, Killed, TypeInv, TypeOK
  <2> QED  BY <2>1, <2>2
<1>6. UNCHANGED <<clock, redis, inputs, model, actualCost, degraded, ghosts>>
  BY DEF NotRecorded, Killed, PersistFails, persistToDatabase
<1> QED
  BY <1>2, <1>3, <1>4, <1>5, <1>6, TypeFrom
  DEF redis, inputs, ghosts, TypeInv, TypeOK

(* One command of the record: what it does to the counters, where the      *)
(* request stands then, and what is left to do.                            *)
Runs(r, from, to) ==
  /\ pc[r] = from
  /\ UNCHANGED <<clock, ledger, inputs, model, actualCost, degraded, ghosts>>
  /\ pc' \in [Requests -> Places] /\ \A q \in Requests \ {r} : pc'[q] = pc[q]
  /\ keysAt' \in [Requests -> 0 .. clock]
  /\ pc'[r] \in {from, to, "unrecorded"}
  /\ todo' \in [Requests -> SUBSET Names] /\ \A q \in Requests \ {r} : todo'[q] = todo[q]
  /\ todo'[r] \subseteq {model[r]} \cup labels[r]
  /\ faults' \in 0 .. MaxFaults

LEMMA SpendRuns ==
  ASSUME TypeInv, NEW r \in Requests, TrackCustomerSpend(r)
  PROVE  /\ Runs(r, "spend", "requests") /\ todo'[r] \subseteq todo[r]
         /\ Charge(r) \/ UNCHANGED redis
         /\ faults' # 0 \/ (Charge(r) /\ pc'[r] = "requests")
         /\ pc'[r] = "requests" => Charge(r)
<1> USE DEF TrackCustomerSpend, Local
<1>1. "requests" \in Places /\ "unrecorded" \in Places /\ "spend" \in Places
  BY DEF Places, InFlight
<1>2. UNCHANGED <<clock, ledger, inputs, model, actualCost, degraded, ghosts>> /\ pc[r] = "spend"
  OBVIOUS
<1>3. /\ todo[r] \subseteq {model[r]} \cup labels[r] /\ todo \in [Requests -> SUBSET Names]
      /\ pc \in [Requests -> Places] /\ keysAt \in [Requests -> 0 .. clock]
      /\ faults \in 0 .. MaxFaults /\ MaxFaults \in Nat
  BY CustomerAssumption DEF TypeInv, TypeOK, Places
<1>4. CASE Charge(r) /\ Goto(r, "requests") /\ UNCHANGED todo /\ UNCHANGED faults
  <2>1. /\ pc' \in [Requests -> Places] /\ keysAt' \in [Requests -> 0 .. clock]
        /\ pc'[r] = "requests" /\ \A q \in Requests \ {r} : pc'[q] = pc[q]
    BY <1>1, <1>2, <1>4, GotoType
  <2> QED  BY <1>2, <1>3, <1>4, <2>1 DEF Runs
<1>5. CASE /\ faults' = faults + 1 /\ faults < MaxFaults
           /\ Charge(r) \/ UNCHANGED redis
           /\ UNCHANGED <<pc, keysAt, todo>>
  <2>1. faults' \in 0 .. MaxFaults /\ faults' # 0
    BY <1>3, <1>5
  <2> QED  BY <1>2, <1>3, <1>5, <2>1 DEF Runs
<1>6. CASE /\ faults' = faults + 1 /\ faults < MaxFaults
           /\ Charge(r) \/ UNCHANGED redis
           /\ Goto(r, "unrecorded") /\ todo' = [todo EXCEPT ![r] = {}]
  <2>1. faults' \in 0 .. MaxFaults /\ faults' # 0
    BY <1>3, <1>6
  <2>2. /\ pc' \in [Requests -> Places] /\ keysAt' \in [Requests -> 0 .. clock]
        /\ pc'[r] = "unrecorded" /\ \A q \in Requests \ {r} : pc'[q] = pc[q]
    BY <1>1, <1>2, <1>6, GotoType
  <2>3. /\ todo' \in [Requests -> SUBSET Names] /\ todo'[r] = {}
        /\ \A q \in Requests \ {r} : todo'[q] = todo[q]
    BY <1>6, TodoType
  <2> QED  BY <1>2, <1>6, <2>1, <2>2, <2>3 DEF Runs
<1> QED  BY <1>4, <1>5, <1>6 DEF Command

LEMMA RequestsRuns ==
  ASSUME TypeInv, NEW r \in Requests, TrackCustomerRequests(r)
  PROVE  /\ Runs(r, "requests", "named")
         /\ CountIn(r) \/ UNCHANGED redis
         /\ faults' # 0 \/ (CountIn(r) /\ pc'[r] = "named")
         /\ pc'[r] = "named" =>
              CountIn(r) /\ todo'[r] = {model[r]} \cup labels[r] /\ faults' = faults
<1> USE DEF TrackCustomerRequests, Local
<1>1. "requests" \in Places /\ "unrecorded" \in Places /\ "named" \in Places
  BY DEF Places, InFlight
<1>2. /\ UNCHANGED <<clock, ledger, inputs, model, actualCost, degraded, ghosts>>
      /\ pc[r] = "requests"
  OBVIOUS
<1>3. /\ todo[r] \subseteq {model[r]} \cup labels[r] /\ todo \in [Requests -> SUBSET Names]
      /\ pc \in [Requests -> Places] /\ keysAt \in [Requests -> 0 .. clock]
      /\ faults \in 0 .. MaxFaults /\ MaxFaults \in Nat
  BY CustomerAssumption DEF TypeInv, TypeOK, Places
<1>4. CASE /\ CountIn(r) /\ Goto(r, "named") /\ UNCHANGED faults
           /\ todo' = [todo EXCEPT ![r] = {model[r]} \cup labels[r]]
  <2>1. /\ pc' \in [Requests -> Places] /\ keysAt' \in [Requests -> 0 .. clock]
        /\ pc'[r] = "named" /\ \A q \in Requests \ {r} : pc'[q] = pc[q]
    BY <1>1, <1>2, <1>4, GotoType
  <2>2. /\ todo' \in [Requests -> SUBSET Names] /\ todo'[r] = {model[r]} \cup labels[r]
        /\ \A q \in Requests \ {r} : todo'[q] = todo[q]
    BY <1>4, TodoType
  <2> QED  BY <1>2, <1>3, <1>4, <2>1, <2>2 DEF Runs
<1>5. CASE /\ faults' = faults + 1 /\ faults < MaxFaults
           /\ CountIn(r) \/ UNCHANGED redis
           /\ UNCHANGED <<pc, keysAt, todo>>
  <2>1. faults' \in 0 .. MaxFaults /\ faults' # 0
    BY <1>3, <1>5
  <2> QED  BY <1>2, <1>3, <1>5, <2>1 DEF Runs
<1>6. CASE /\ faults' = faults + 1 /\ faults < MaxFaults
           /\ CountIn(r) \/ UNCHANGED redis
           /\ Goto(r, "unrecorded") /\ todo' = [todo EXCEPT ![r] = {}]
  <2>1. faults' \in 0 .. MaxFaults /\ faults' # 0
    BY <1>3, <1>6
  <2>2. /\ pc' \in [Requests -> Places] /\ keysAt' \in [Requests -> 0 .. clock]
        /\ pc'[r] = "unrecorded" /\ \A q \in Requests \ {r} : pc'[q] = pc[q]
    BY <1>1, <1>2, <1>6, GotoType
  <2>3. /\ todo' \in [Requests -> SUBSET Names] /\ todo'[r] = {}
        /\ \A q \in Requests \ {r} : todo'[q] = todo[q]
    BY <1>6, TodoType
  <2> QED  BY <1>2, <1>6, <2>1, <2>2, <2>3 DEF Runs
<1> QED  BY <1>4, <1>5, <1>6 DEF Command

(* The steps of IncrWithTTL each concern one name that is left.            *)
LEMMA IncrRuns ==
  ASSUME TypeInv, NEW r \in Requests, IncrWithTTL(r)
  PROVE  \E n \in todo[r] :
           /\ Runs(r, "named", "persisting")
           /\ Increment(r, n) \/ UNCHANGED redis
           /\ faults' # 0 \/ (/\ Increment(r, n) /\ todo'[r] = todo[r] \ {n}
                              /\ pc'[r] # "unrecorded")
           /\ \/ pc'[r] = "unrecorded"
              \/ todo'[r] = todo[r]
              \/ todo'[r] = todo[r] \ {n} /\ Increment(r, n)
<1> USE DEF IncrWithTTL, Local
<1>1. "persisting" \in Places /\ "unrecorded" \in Places /\ "named" \in Places
  BY DEF Places, InFlight
<1>2. /\ UNCHANGED <<clock, ledger, inputs, model, actualCost, degraded, ghosts>>
      /\ pc[r] = "named"
  OBVIOUS
<1>3. /\ todo[r] \subseteq {model[r]} \cup labels[r] /\ todo \in [Requests -> SUBSET Names]
      /\ pc \in [Requests -> Places] /\ keysAt \in [Requests -> 0 .. clock]
      /\ faults \in 0 .. MaxFaults /\ MaxFaults \in Nat
  BY CustomerAssumption DEF TypeInv, TypeOK, Places
<1>4. PICK n \in FirstOf(r) :
        Command(r, Increment(r, n),
                /\ todo' = [todo EXCEPT ![r] = @ \ {n}]
                /\ IF todo[r] = {n} THEN Goto(r, "persisting") ELSE UNCHANGED <<pc, keysAt>>)
  OBVIOUS
<1>5. n \in todo[r]
  BY DEF FirstOf
<1>6. CASE /\ Increment(r, n) /\ UNCHANGED faults
           /\ todo' = [todo EXCEPT ![r] = @ \ {n}]
           /\ IF todo[r] = {n} THEN Goto(r, "persisting") ELSE UNCHANGED <<pc, keysAt>>
  <2>1. /\ pc' \in [Requests -> Places] /\ keysAt' \in [Requests -> 0 .. clock]
        /\ pc'[r] \in {"named", "persisting"} /\ \A q \in Requests \ {r} : pc'[q] = pc[q]
    BY <1>1, <1>2, <1>3, <1>6, GotoType
  <2>2. todo' = [todo EXCEPT ![r] = todo[r] \ {n}] /\ todo[r] \ {n} \subseteq {model[r]} \cup labels[r]
    BY <1>3, <1>6
  <2>3. /\ todo' \in [Requests -> SUBSET Names] /\ todo'[r] = todo[r] \ {n}
        /\ \A q \in Requests \ {r} : todo'[q] = todo[q]
    BY <2>2, TodoType
  <2> QED  BY <1>2, <1>3, <1>5, <1>6, <2>1, <2>2, <2>3 DEF Runs
<1>7. CASE /\ faults' = faults + 1 /\ faults < MaxFaults
           /\ Increment(r, n) \/ UNCHANGED redis
           /\ UNCHANGED <<pc, keysAt, todo>>
  <2>1. faults' \in 0 .. MaxFaults /\ faults' # 0
    BY <1>3, <1>7
  <2> QED  BY <1>2, <1>3, <1>5, <1>7, <2>1 DEF Runs
<1>8. CASE /\ faults' = faults + 1 /\ faults < MaxFaults
           /\ Increment(r, n) \/ UNCHANGED redis
           /\ Goto(r, "unrecorded") /\ todo' = [todo EXCEPT ![r] = {}]
  <2>1. faults' \in 0 .. MaxFaults /\ faults' # 0
    BY <1>3, <1>8
  <2>2. /\ pc' \in [Requests -> Places] /\ keysAt' \in [Requests -> 0 .. clock]
        /\ pc'[r] = "unrecorded" /\ \A q \in Requests \ {r} : pc'[q] = pc[q]
    BY <1>1, <1>2, <1>8, GotoType
  <2>3. /\ todo' \in [Requests -> SUBSET Names] /\ todo'[r] = {}
        /\ \A q \in Requests \ {r} : todo'[q] = todo[q]
    BY <1>8, TodoType
  <2> QED  BY <1>2, <1>5, <1>8, <2>1, <2>2, <2>3 DEF Runs
<1> QED  BY <1>4, <1>6, <1>7, <1>8 DEF Command

(* The three commands, each amount at the slot of its key.                 *)
LEMMA ChargeIs ==
  ASSUME TypeInv, NEW r \in Requests, Charge(r)
  PROVE  /\ spent' \in [SpendWindows -> [Slots -> Nat]]
         /\ \A w \in SpendWindows : \A s \in Slots :
              spent'[w][s] =
                spent[w][s] + IF s = Slot(w, keysAt[r]) THEN actualCost[r] ELSE 0
         /\ count' = count /\ named' = named
<1>1. \A w \in SpendWindows : Keys(r)[w] = Slot(w, keysAt[r]) /\ Keys(r)[w] \in Slots
  BY KeysIn DEF Windows
<1>2. /\ spent \in [SpendWindows -> [Slots -> Nat]] /\ actualCost[r] \in Nat
      /\ spent' = AddTo(spent, actualCost[r], Keys(r))
  BY DEF Charge, TypeInv, TypeOK
<1>3. /\ spent' \in [SpendWindows -> [Slots -> Nat]]
      /\ \A w \in SpendWindows : \A s \in Slots :
           spent'[w][s] = spent[w][s] + IF s = Keys(r)[w] THEN actualCost[r] ELSE 0
  BY <1>1, <1>2, AddToIs
<1> QED  BY <1>1, <1>3 DEF Charge

LEMMA CountInIs ==
  ASSUME TypeInv, NEW r \in Requests, CountIn(r)
  PROVE  /\ count' \in [RequestWindows -> [Slots -> Nat]]
         /\ \A w \in RequestWindows : \A s \in Slots :
              count'[w][s] = count[w][s] + IF s = Slot(w, keysAt[r]) THEN 1 ELSE 0
         /\ spent' = spent /\ named' = named
<1>1. \A w \in RequestWindows : Keys(r)[w] = Slot(w, keysAt[r]) /\ Keys(r)[w] \in Slots
  BY KeysIn DEF Windows
<1>2. PICK one, keys : /\ one = 1 /\ keys = Keys(r)
                       /\ count' = AddTo(count, one, keys)
  BY DEF CountIn
<1>3. count \in [RequestWindows -> [Slots -> Nat]] /\ one \in Nat
  BY <1>2 DEF TypeInv, TypeOK
<1>4. \A w \in RequestWindows : keys[w] \in Slots
  BY <1>1, <1>2
<1>5. /\ count' \in [RequestWindows -> [Slots -> Nat]]
      /\ \A w \in RequestWindows : \A s \in Slots :
           count'[w][s] = count[w][s] + IF s = keys[w] THEN one ELSE 0
  BY <1>2, <1>3, <1>4, AddToIs
<1> QED  BY <1>1, <1>2, <1>5 DEF CountIn

LEMMA IncrementIs ==
  ASSUME TypeInv, NEW r \in Requests, NEW n \in Names, Increment(r, n)
  PROVE  /\ named' \in [Names -> [Slots -> Nat]]
         /\ \A k \in Names : \A s \in Slots :
              named'[k][s] =
                named[k][s] + IF k = n /\ s = Slot("day", keysAt[r]) THEN 1 ELSE 0
         /\ spent' = spent /\ count' = count
<1>1. PICK day : day = Slot("day", keysAt[r])
  OBVIOUS
<1>2. day \in Slots
  BY <1>1, KeysIn DEF Windows, SpendWindows
<1>3. named \in [Names -> [Slots -> Nat]] /\ named' = [named EXCEPT ![n][day] = @ + 1]
  BY <1>1 DEF Increment, TypeInv, TypeOK
<1>4. /\ named' \in [Names -> [Slots -> Nat]]
      /\ \A k \in Names : \A s \in Slots :
              named'[k][s] = named[k][s] + IF k = n /\ s = day THEN 1 ELSE 0
  BY <1>2, <1>3
<1> QED  BY <1>1, <1>4 DEF Increment

LEMMA RecordType ==
  ASSUME TypeInv, NEW r \in Requests,
         TrackCustomerSpend(r) \/ TrackCustomerRequests(r) \/ IncrWithTTL(r)
  PROVE  TypeInv'
<1>1. /\ UNCHANGED <<clock, ledger, inputs, model, actualCost, degraded, ghosts>>
      /\ pc' \in [Requests -> Places] /\ \A q \in Requests \ {r} : pc'[q] = pc[q]
      /\ keysAt' \in [Requests -> 0 .. clock] /\ pc'[r] # "calling"
      /\ todo' \in [Requests -> SUBSET Names] /\ \A q \in Requests \ {r} : todo'[q] = todo[q]
      /\ todo'[r] \subseteq {model[r]} \cup labels[r]
      /\ faults' \in 0 .. MaxFaults
  BY SpendRuns, RequestsRuns, IncrRuns DEF Runs
<1>2. /\ spent' \in [SpendWindows -> [Slots -> Nat]]
      /\ count' \in [RequestWindows -> [Slots -> Nat]] /\ named' \in [Names -> [Slots -> Nat]]
  <2> USE DEF TypeInv, TypeOK, redis
  <2>1. CASE TrackCustomerSpend(r)
    BY <2>1, SpendRuns, ChargeIs
  <2>2. CASE TrackCustomerRequests(r)
    BY <2>2, RequestsRuns, CountInIs
  <2>3. CASE IncrWithTTL(r)
    <3>1. PICK n \in todo[r] : Increment(r, n) \/ UNCHANGED redis
      BY <2>3, IncrRuns
    <3> QED  BY <3>1, IncrementIs
  <2> QED  BY <2>1, <2>2, <2>3
<1> QED
  BY <1>1, <1>2, TypeFrom
  DEF inputs, ghosts, TypeInv, TypeOK

LEMMA TickType == ASSUME TypeInv, Tick PROVE TypeInv'
<1> USE CustomerAssumption DEF Tick, redis, inputs, ghosts, TypeInv, TypeOK
<1>1. clock' \in 0 .. MaxClock /\ 0 .. clock \subseteq 0 .. clock'
  OBVIOUS
<1> QED  BY <1>1

LEMMA StepType == ASSUME TypeInv, [Next]_vars PROVE TypeInv'
<1>1. ASSUME NEW r \in Requests,
             \/ Arrive(r) \/ Snapshot(r) \/ NoSnapshot(r) \/ CheckName(r) \/ EndCheck(r)
             \/ CheckFails(r) \/ Completed(r)
      PROVE  TypeInv'
  BY <1>1, ArriveType, SnapshotType, NoSnapshotType, CheckNameType, EndCheckType,
     CheckFailsType, CompletedType
<1>2. ASSUME NEW r \in Requests,
             \/ TrackCustomerSpend(r) \/ TrackCustomerRequests(r) \/ IncrWithTTL(r)
             \/ NotRecorded(r) \/ Killed(r) \/ PersistFails(r) \/ persistToDatabase(r)
      PROVE  TypeInv'
  BY <1>2, RecordType, EndsType
<1>3. CASE UNCHANGED vars
  BY <1>3 DEF vars, redis, inputs, ghosts, TypeInv, TypeOK
<1> QED  BY <1>1, <1>2, <1>3, TickType DEF Next

LEMMA TypeAlways == Spec => []TypeInv
  BY InitType, StepType, PTL DEF Spec

(* Amounts and counts never become negative, a request carries the tier it *)
(* came with, and what is left to do for it concerns its own names.        *)
THEOREM CustomerType == Spec => []TypeOK
<1>1. TypeInv => TypeOK
  BY DEF TypeInv
<1> QED  BY <1>1, TypeAlways, PTL

-----------------------------------------------------------------------------
(* The windows agree.                                                      *)

LEMMA SlotsFinite == IsFiniteSet(Slots) /\ Slots \subseteq Nat
<1>1. 0 \in Int /\ MaxClock \in Int
  BY CustomerAssumption
<1>2. IsFiniteSet(0 .. MaxClock)
  BY <1>1, FS_Interval
<1> QED  BY <1>2 DEF Slots

LEMMA AgreeKept ==
  ASSUME NEW inner \in Windows, NEW outer \in Windows, Period[outer] % Period[inner] = 0,
         NEW c, NEW d, NEW amount \in Nat, NEW t \in 0 .. MaxClock,
         \A w \in {inner, outer} : \A s \in Slots :
           /\ c[w][s] \in Nat
           /\ d[w][s] = c[w][s] + IF s = Slot(w, t) THEN amount ELSE 0,
         Agree(c, inner, outer)
  PROVE  Agree(d, inner, outer)
<1> DEFINE Within(s) == {i \in Slots : Slot(outer, i * Period[inner]) = s}
<1> SUFFICES ASSUME NEW s \in Slots
             PROVE  d[outer][s] = SumFunctionOnSet(d[inner], Within(s))
  BY DEF Agree
<1>1. c[outer][s] = SumFunctionOnSet(c[inner], Within(s))
  BY DEF Agree
<1> PICK S : S = Within(s)
  OBVIOUS
<1> PICK x : x = Slot(inner, t)
  OBVIOUS
<1>2. S \subseteq Slots
  OBVIOUS
<1>3. IsFiniteSet(S)
  BY <1>2, SlotsFinite, FS_Subset
<1>4. x \in Slots /\ (x \in S <=> s = Slot(outer, t))
  <2>1. t \in Nat /\ t <= MaxClock /\ MaxClock \in Nat
    BY CustomerAssumption
  <2>2. x \in Slots
    <3>1. x \in 0 .. t
      BY <2>1, SlotIn
    <3> QED  BY <2>1, <3>1 DEF Slots
  <2>3. Slot(outer, x * Period[inner]) = Slot(outer, t)
    <3>1. PICK p, q : p = Period[outer] /\ q = Period[inner]
      OBVIOUS
    <3>2. p \in Nat \ {0} /\ q \in Nat \ {0} /\ p % q = 0
      BY <3>1, PeriodType
    <3>3. ((t \div q) * q) \div p = t \div p
      BY ONLY t \in Nat, <2>1, <3>2, NestedDiv
    <3> QED  BY <3>1, <3>3 DEF Slot
  <2> QED  BY <2>2, <2>3
<1> PICK f, g : f = c[inner] /\ g = d[inner]
  OBVIOUS
<1>5. \A i \in S : f[i] \in Int /\ g[i] = f[i] + IF i = x THEN amount ELSE 0
  <2>1. \A i \in Slots : f[i] \in Nat /\ g[i] = f[i] + IF i = x THEN amount ELSE 0
    OBVIOUS
  <2> QED  BY ONLY <1>2, <2>1
<1>6. SumFunctionOnSet(g, S) = SumFunctionOnSet(f, S) + IF x \in S THEN amount ELSE 0
  BY ONLY amount \in Int, <1>3, <1>5, SumAddsAt
<1>7. d[outer][s] = c[outer][s] + IF s = Slot(outer, t) THEN amount ELSE 0
  OBVIOUS
<1> QED  BY <1>1, <1>4, <1>6, <1>7

LEMMA WindowsNest ==
  /\ "day" \in SpendWindows /\ "month" \in SpendWindows
  /\ RequestWindows = {"minute", "hour", "day"}
  /\ {"minute", "hour", "day", "month"} \subseteq Windows
  BY DEF Windows, SpendWindows, RequestWindows

(* Without a command of the record nothing changes in Redis.               *)
LEMMA RedisKept ==
  ASSUME [Next]_vars,
         ~\E r \in Requests :
            TrackCustomerSpend(r) \/ TrackCustomerRequests(r) \/ IncrWithTTL(r)
  PROVE  UNCHANGED redis
<1>1. ASSUME NEW r \in Requests,
             \/ Arrive(r) \/ Snapshot(r) \/ NoSnapshot(r) \/ CheckName(r) \/ EndCheck(r)
             \/ CheckFails(r) \/ Completed(r) \/ NotRecorded(r)
             \/ persistToDatabase(r) \/ PersistFails(r) \/ Killed(r)
      PROVE  UNCHANGED redis
  BY <1>1
  DEF Arrive, Snapshot, NoSnapshot, CheckName, EndCheck, CheckFails, Completed, NotRecorded,
      persistToDatabase, PersistFails, Killed
<1>2. CASE Tick \/ UNCHANGED vars
  BY <1>2 DEF Tick, vars
<1> QED  BY <1>1, <1>2 DEF Next

LEMMA StepAgree ==
  ASSUME TypeInv, WindowsAgree, [Next]_vars
  PROVE  WindowsAgree'
<1>1. /\ spent \in [SpendWindows -> [Slots -> Nat]]
      /\ count \in [RequestWindows -> [Slots -> Nat]]
      /\ \A r \in Requests : keysAt[r] \in 0 .. MaxClock /\ actualCost[r] \in Nat
  <2>1. clock \in Nat /\ clock <= MaxClock /\ MaxClock \in Nat
    BY CustomerAssumption DEF TypeInv, TypeOK
  <2> QED  BY <2>1 DEF TypeInv, TypeOK
<1>2. CASE UNCHANGED <<spent, count>>
  BY <1>2 DEF WindowsAgree, Agree
<1>3. ASSUME NEW r \in Requests, Charge(r) PROVE WindowsAgree'
  <2>1. /\ spent' \in [SpendWindows -> [Slots -> Nat]] /\ count' = count
        /\ \A w \in SpendWindows : \A s \in Slots :
             spent'[w][s] =
               spent[w][s] + IF s = Slot(w, keysAt[r]) THEN actualCost[r] ELSE 0
    BY <1>3, ChargeIs
  <2>2. PICK old, new, amount, t :
          old = spent /\ new = spent' /\ amount = actualCost[r] /\ t = keysAt[r]
    OBVIOUS
  <2>3. /\ amount \in Nat /\ t \in 0 .. MaxClock
        /\ Period["month"] % Period["day"] = 0
        /\ \A w \in {"day", "month"} : \A s \in Slots :
             /\ old[w][s] \in Nat
             /\ new[w][s] = old[w][s] + IF s = Slot(w, t) THEN amount ELSE 0
        /\ Agree(old, "day", "month")
    BY <1>1, <2>1, <2>2, NestedAssumption, WindowsNest DEF WindowsAgree
  <2>4. Agree(new, "day", "month")
    BY <2>3, AgreeKept, WindowsNest
  <2> QED  BY <2>1, <2>2, <2>4 DEF WindowsAgree, Agree
<1>4. ASSUME NEW r \in Requests, CountIn(r) PROVE WindowsAgree'
  <2>1. PICK old, new, amount, t :
          old = count /\ new = count' /\ amount = 1 /\ t = keysAt[r]
    OBVIOUS
  <2>2. /\ count' \in [RequestWindows -> [Slots -> Nat]] /\ spent' = spent
        /\ \A w \in RequestWindows : \A s \in Slots :
             count'[w][s] = count[w][s] + IF s = Slot(w, keysAt[r]) THEN 1 ELSE 0
    BY <1>4, CountInIs
  <2>3. /\ amount \in Nat /\ t \in 0 .. MaxClock
        /\ Period["hour"] % Period["minute"] = 0 /\ Period["day"] % Period["hour"] = 0
        /\ \A w \in {"minute", "hour", "day"} : \A s \in Slots :
             /\ old[w][s] \in Nat
             /\ new[w][s] = old[w][s] + IF s = Slot(w, t) THEN amount ELSE 0
        /\ Agree(old, "minute", "hour") /\ Agree(old, "hour", "day")
    BY <1>1, <2>1, <2>2, NestedAssumption, WindowsNest DEF WindowsAgree
  <2>4. Agree(new, "minute", "hour")
    <3>1. \A w \in {"minute", "hour"} : \A s \in Slots :
            /\ old[w][s] \in Nat
            /\ new[w][s] = old[w][s] + IF s = Slot(w, t) THEN amount ELSE 0
      BY <2>3
    <3> QED  BY <2>3, <3>1, AgreeKept, WindowsNest
  <2>5. Agree(new, "hour", "day")
    <3>1. \A w \in {"hour", "day"} : \A s \in Slots :
            /\ old[w][s] \in Nat
            /\ new[w][s] = old[w][s] + IF s = Slot(w, t) THEN amount ELSE 0
      BY <2>3
    <3> QED  BY <2>3, <3>1, AgreeKept, WindowsNest
  <2> QED  BY <2>1, <2>2, <2>4, <2>5 DEF WindowsAgree, Agree
<1>5. ASSUME NEW r \in Requests,
             TrackCustomerSpend(r) \/ TrackCustomerRequests(r) \/ IncrWithTTL(r)
      PROVE  WindowsAgree'
  <2>1. CASE TrackCustomerSpend(r)
    BY <1>2, <1>3, <2>1, SpendRuns DEF redis
  <2>2. CASE TrackCustomerRequests(r)
    BY <1>2, <1>4, <2>2, RequestsRuns DEF redis
  <2>3. CASE IncrWithTTL(r)
    BY <1>2, <2>3, IncrRuns DEF redis, Increment
  <2> QED  BY <1>5, <2>1, <2>2, <2>3
<1> QED  BY <1>2, <1>5, RedisKept DEF redis

LEMMA InitAgree == Init => WindowsAgree
<1> SUFFICES ASSUME Init PROVE WindowsAgree
  OBVIOUS
<1>1. ASSUME NEW c, NEW inner, NEW outer,
             \A w \in {inner, outer} : \A s \in Slots : c[w][s] = 0
      PROVE  Agree(c, inner, outer)
  <2> SUFFICES ASSUME NEW s \in Slots
               PROVE  c[outer][s] =
                        SumFunctionOnSet(c[inner],
                                         {i \in Slots : Slot(outer, i * Period[inner]) = s})
    BY DEF Agree
  <2> PICK S : S = {i \in Slots : Slot(outer, i * Period[inner]) = s}
    OBVIOUS
  <2>1. IsFiniteSet(S) /\ S \subseteq Slots
    BY SlotsFinite, FS_Subset
  <2>2. SumFunctionOnSet(c[inner], S) = 0
    BY <1>1, <2>1, SumZero
  <2> QED  BY <1>1, <2>2
<1>2. /\ \A w \in {"day", "month"} : \A s \in Slots : spent[w][s] = 0
      /\ \A w \in {"minute", "hour", "day"} : \A s \in Slots : count[w][s] = 0
  BY WindowsNest DEF Init
<1> QED  BY <1>1, <1>2 DEF WindowsAgree

(* A month holds what its days hold, an hour what its minutes and a day    *)
(* what its hours, whatever is lost or sent twice and whichever midnight   *)
(* falls between a check and its record (client.go:378 and 441).           *)
THEOREM WindowsAlwaysAgree == Spec => []WindowsAgree
<1>1. TypeInv /\ WindowsAgree /\ [Next]_vars => WindowsAgree'
  BY StepAgree
<1> QED  BY <1>1, InitAgree, TypeAlways, PTL DEF Spec

-----------------------------------------------------------------------------
(* The record is in order.                                                 *)

(* Before the record a request is in none of the sums.                     *)
Quiet(r) ==
  \/ Arrive(r) \/ Snapshot(r) \/ NoSnapshot(r) \/ CheckName(r) \/ EndCheck(r)
  \/ CheckFails(r) \/ Completed(r) \/ NotRecorded(r)

QuietStep(r) ==
  /\ UNCHANGED <<clock, redis, ledger, spec, labels>>
  /\ pc[r] \in Early /\ pc'[r] \in Early /\ \A q \in Requests \ {r} : pc'[q] = pc[q]
  /\ \A q \in Requests \ {r} : /\ actualCost'[q] = actualCost[q] /\ model'[q] = model[q]
                               /\ todo'[q] = todo[q]
  /\ faults' \in {faults, faults + 1}

LEMMA QuietIs ==
  ASSUME TypeInv, NEW r \in Requests, Quiet(r)
  PROVE  QuietStep(r)
<1> USE DEF QuietStep, Goto, Early, Refused, redis, inputs, ghosts, TypeInv, TypeOK
<1>1. CASE Arrive(r)  BY <1>1 DEF Arrive
<1>2. CASE Snapshot(r)  BY <1>2 DEF Snapshot
<1>3. CASE NoSnapshot(r)  BY <1>3 DEF NoSnapshot
<1>4. CASE CheckName(r)  BY <1>4 DEF CheckName
<1>5. CASE EndCheck(r)  BY <1>5 DEF EndCheck
<1>6. CASE CheckFails(r)  BY <1>6 DEF CheckFails
<1>7. CASE Completed(r)  BY <1>7 DEF Completed
<1>8. CASE NotRecorded(r)  BY <1>8 DEF NotRecorded
<1> QED  BY <1>1, <1>2, <1>3, <1>4, <1>5, <1>6, <1>7, <1>8 DEF Quiet

LEMMA FaultsGrow ==
  ASSUME TypeInv, [Next]_vars
  PROVE  faults \in Nat /\ faults' \in Nat /\ (faults' = 0 => faults = 0)
<1>1. faults \in Nat
  BY CustomerAssumption DEF TypeInv, TypeOK
<1>2. faults' \in {faults, faults + 1}
  <2>1. ASSUME NEW r \in Requests, Quiet(r) PROVE faults' \in {faults, faults + 1}
    BY <2>1, QuietIs DEF QuietStep
  <2>2. ASSUME NEW r \in Requests,
               TrackCustomerSpend(r) \/ TrackCustomerRequests(r) \/ IncrWithTTL(r)
        PROVE  faults' \in {faults, faults + 1}
    BY <2>2 DEF TrackCustomerSpend, TrackCustomerRequests, IncrWithTTL, Command
  <2>3. ASSUME NEW r \in Requests, persistToDatabase(r) \/ PersistFails(r) \/ Killed(r)
        PROVE  faults' \in {faults, faults + 1}
    BY <2>3 DEF persistToDatabase, PersistFails, Killed
  <2>4. CASE Tick \/ UNCHANGED vars
    BY <2>4 DEF Tick, vars
  <2> QED  BY <2>1, <2>2, <2>3, <2>4 DEF Next, Quiet
<1> QED  BY <1>1, <1>2

LEMMA CoversKept ==
  ASSUME TypeInv, [Next]_vars,
         NEW held \in Int, NEW owed \in Int, NEW held2 \in Int, NEW owed2 \in Int,
         Covers(held, owed), owed2 - owed <= held2 - held,
         faults' # 0 \/ owed2 - owed = held2 - held
  PROVE  held2 >= owed2 /\ (faults' = 0 => held2 = owed2)
<1>1. faults' = 0 => faults = 0
  BY FaultsGrow
<1> QED  BY <1>1 DEF Covers

LEMMA TotalAdds ==
  ASSUME NEW c \in [Slots -> Nat], NEW d, NEW x \in Slots, NEW amount \in Nat,
         \A s \in Slots : d[s] = c[s] + IF s = x THEN amount ELSE 0
  PROVE  Total(c) \in Nat /\ Total(d) = Total(c) + amount
<1>1. IsFiniteSet(Slots) /\ Slots \in SUBSET Slots /\ amount \in Int
      /\ \A s \in Slots : c[s] \in Nat /\ c[s] \in Int
  BY SlotsFinite
<1>2. SumFunctionOnSet(c, Slots) \in Nat
  BY <1>1, SumMonotone
<1>3. SumFunctionOnSet(d, Slots) = SumFunctionOnSet(c, Slots) + IF x \in Slots THEN amount ELSE 0
  BY ONLY <1>1, \A s \in Slots : d[s] = c[s] + IF s = x THEN amount ELSE 0, SumAddsAt
<1> QED  BY <1>2, <1>3 DEF Total

LEMMA TotalType ==
  ASSUME NEW c \in [Slots -> Nat]
  PROVE  Total(c) \in Nat
<1>1. Slots \in SUBSET Slots
  OBVIOUS
<1> QED  BY <1>1, SlotsFinite, SumMonotone DEF Total

(* A bill depends on the costs of its requests alone.                      *)
LEMMA BillSame ==
  ASSUME NEW S \in SUBSET Requests, NEW cost \in [Requests -> Nat], NEW other,
         \A q \in S : other[q] = cost[q]
  PROVE  SumFunctionOnSet(other, S) = SumFunctionOnSet(cost, S)
<1>1. IsFiniteSet(S) /\ \A q \in S : cost[q] \in Int
  BY RequestsAssumption, FS_Subset
<1> QED  BY <1>1, SumSame

LEMMA BillType ==
  ASSUME NEW S \in SUBSET Requests, NEW T \in SUBSET S, NEW cost \in [Requests -> Nat]
  PROVE  /\ SumFunctionOnSet(cost, S) \in Nat /\ SumFunctionOnSet(cost, T) \in Nat
         /\ SumFunctionOnSet(cost, T) <= SumFunctionOnSet(cost, S)
<1>1. IsFiniteSet(S) /\ S \in SUBSET S /\ \A q \in S : cost[q] \in Nat
  BY RequestsAssumption, FS_Subset
<1> QED  BY <1>1, SumMonotone

LEMMA BillAdds ==
  ASSUME NEW S \in SUBSET Requests, NEW r \in Requests \ S, NEW cost \in [Requests -> Nat]
  PROVE  SumFunctionOnSet(cost, S \cup {r}) = SumFunctionOnSet(cost, S) + cost[r]
<1>1. IsFiniteSet(S) /\ r \notin S /\ \A q \in S \cup {r} : cost[q] \in Int
  BY RequestsAssumption, FS_Subset
<1>2. SumFunctionOnSet(cost, S \cup {r}) = cost[r] + SumFunctionOnSet(cost, S)
  BY <1>1, SumAdd
<1>3. SumFunctionOnSet(cost, S) \in Int /\ cost[r] \in Int
  BY <1>1, SumType
<1> QED  BY <1>2, <1>3

LEMMA CardAdds ==
  ASSUME NEW S \in SUBSET Requests, NEW r \in Requests
  PROVE  /\ Cardinality(S) \in Nat /\ Cardinality(S \cup {r}) \in Nat
         /\ r \notin S => Cardinality(S \cup {r}) = Cardinality(S) + 1
         /\ Cardinality(S \ {r}) \in Nat /\ Cardinality(S \ {r}) <= Cardinality(S)
<1>1. IsFiniteSet(S)
  BY RequestsAssumption, FS_Subset
<1>2. IsFiniteSet(S \cup {r}) /\ IsFiniteSet(S \ {r}) /\ S \ {r} \subseteq S
  BY <1>1, FS_AddElement, FS_RemoveElement
<1>3. Cardinality(S) \in Nat /\ Cardinality(S \cup {r}) \in Nat /\ Cardinality(S \ {r}) \in Nat
  BY <1>1, <1>2, FS_CardinalityType
<1>4. Cardinality(S \ {r}) <= Cardinality(S)
  BY <1>1, <1>2, FS_Subset
<1>5. r \notin S => Cardinality(S \cup {r}) = Cardinality(S) + 1
  BY <1>1, FS_AddElement
<1> QED  BY <1>3, <1>4, <1>5

LEMMA SetsType ==
  ASSUME TypeInv
  PROVE  /\ Charged \in SUBSET Requests /\ Counted \in SUBSET Charged
         /\ \A n \in Names : Bearers(n) \in SUBSET Requests
         /\ actualCost \in [Requests -> Nat]
  BY DEF TypeInv, Charged, Counted, Bearers

(* Who is charged or counted after a step.                                 *)
LEMMA ChargedIs ==
  ASSUME TypeInv, NEW r \in Requests, pc' \in [Requests -> Places],
         \A q \in Requests \ {r} : pc'[q] = pc[q]
  PROVE  /\ Charged' = IF pc'[r] \in {"requests", "named", "persisting", "recorded"}
                         THEN Charged \cup {r} ELSE Charged \ {r}
         /\ Counted' = IF pc'[r] \in {"named", "persisting", "recorded"}
                         THEN Counted \cup {r} ELSE Counted \ {r}
         /\ r \in Charged <=> pc[r] \in {"requests", "named", "persisting", "recorded"}
         /\ r \in Counted <=> pc[r] \in {"named", "persisting", "recorded"}
  BY DEF Charged, Counted

(* A request is killed before its row, persisted at it; neither touches    *)
(* Redis.                                                                  *)
LEMMA EndIs ==
  ASSUME TypeInv, NEW r \in Requests, Killed(r) \/ PersistFails(r) \/ persistToDatabase(r)
  PROVE  /\ UNCHANGED <<clock, redis, inputs, model, actualCost>>
         /\ pc' \in [Requests -> Places] /\ \A q \in Requests \ {r} : pc'[q] = pc[q]
         /\ \A q \in Requests \ {r} : todo'[q] = todo[q]
         /\ \/ Killed(r) /\ ledger' = ledger /\ pc'[r] = "unrecorded" /\ faults' # 0
            \/ /\ PersistFails(r) /\ pc[r] = "persisting" /\ ledger' = ledger
               /\ pc'[r] = "recorded" /\ todo'[r] = todo[r] /\ faults' # 0
            \/ /\ persistToDatabase(r) /\ pc[r] = "persisting"
               /\ pc'[r] = "recorded" /\ todo'[r] = todo[r]
<1>1. "unrecorded" \in Places /\ "recorded" \in Places
  BY DEF Places
<1>2. UNCHANGED <<clock, redis, inputs, model, actualCost>>
  BY DEF Killed, PersistFails, persistToDatabase
<1>3. /\ pc' \in [Requests -> Places] /\ \A q \in Requests \ {r} : pc'[q] = pc[q]
      /\ Killed(r) => pc'[r] = "unrecorded"
      /\ PersistFails(r) \/ persistToDatabase(r) => pc'[r] = "recorded"
  BY <1>1, <1>2, GotoType DEF Killed, PersistFails, persistToDatabase
<1>4. /\ \A q \in Requests \ {r} : todo'[q] = todo[q]
      /\ PersistFails(r) \/ persistToDatabase(r) => todo' = todo
  BY DEF Killed, PersistFails, persistToDatabase, TypeInv
<1>5. /\ Killed(r) \/ PersistFails(r) => faults' # 0 /\ ledger' = ledger
      /\ PersistFails(r) \/ persistToDatabase(r) => pc[r] = "persisting"
  <2>1. faults \in Nat
    BY CustomerAssumption DEF TypeInv, TypeOK
  <2> QED  BY <2>1 DEF Killed, PersistFails, persistToDatabase
<1> QED  BY <1>2, <1>3, <1>4, <1>5

SpendInOrder == Covers(Total(spent["day"]), Bill(Charged))
CountInOrder == Covers(Total(count["day"]), Cardinality(Counted))
NameInOrder(n) == Covers(Total(named[n]), Cardinality(Bearers(n)))

LEMMA StepSpendInOrder ==
  ASSUME TypeInv, SpendInOrder, [Next]_vars
  PROVE  SpendInOrder'
<1> PICK held, owed : held = Total(spent["day"]) /\ owed = Bill(Charged)
  OBVIOUS
<1> PICK held2, owed2 : held2 = Total(spent["day"])' /\ owed2 = Bill(Charged)'
  OBVIOUS
<1>1. held \in Int /\ owed \in Int
  <2>1. spent["day"] \in [Slots -> Nat]
    BY WindowsNest DEF TypeInv, TypeOK
  <2>2. owed \in Nat
    BY SetsType, BillType DEF Bill
  <2> QED  BY <2>1, <2>2, TotalType
<1>2. SUFFICES /\ held2 \in Int /\ owed2 \in Int /\ owed2 - owed <= held2 - held
               /\ faults' # 0 \/ owed2 - owed = held2 - held
  <2>1. Covers(held, owed)
    BY DEF SpendInOrder
  <2>2. held2 >= owed2 /\ (faults' = 0 => held2 = owed2)
    BY <1>1, <1>2, <2>1, CoversKept
  <2> QED  BY <2>2 DEF SpendInOrder, Covers
(* The same requests, or fewer; the same counters, or more.                *)
<1>3. ASSUME Charged' = Charged, \A q \in Charged : actualCost'[q] = actualCost[q]
      PROVE  owed2 = owed
  BY <1>3, SetsType, BillSame DEF Bill
<1>4. ASSUME NEW r \in Requests, Charged' = Charged \ {r}, actualCost' = actualCost
      PROVE  owed2 \in Int /\ owed2 <= owed
  <2>1. Charged \ {r} \in SUBSET Charged
    OBVIOUS
  <2> QED  BY <1>4, <2>1, SetsType, BillType DEF Bill
<1>5. ASSUME NEW r \in Requests, Charge(r)
      PROVE  held2 = held + actualCost[r] /\ actualCost[r] \in Nat
  <2>1. PICK c, d, x, amount : /\ c = spent["day"] /\ d = spent'["day"]
                               /\ x = Slot("day", keysAt[r]) /\ amount = actualCost[r]
    OBVIOUS
  <2>2. c \in [Slots -> Nat] /\ amount \in Nat /\ x \in Slots
    BY <2>1, KeysIn, WindowsNest DEF TypeInv, TypeOK
  <2>3. \A s \in Slots : d[s] = c[s] + IF s = x THEN amount ELSE 0
    BY <1>5, <2>1, ChargeIs, WindowsNest
  <2>4. Total(d) = Total(c) + amount
    BY ONLY <2>2, <2>3, TotalAdds
  <2> QED  BY <2>1, <2>2, <2>4 DEF Total
<1>6. spent' = spent => held2 = held
  BY DEF Total
<1>7. ASSUME NEW r \in Requests, Quiet(r) PROVE owed2 = owed /\ held2 = held
  <2>1. QuietStep(r)
    BY <1>7, QuietIs
  <2>2. Charged' = Charged /\ \A q \in Charged : actualCost'[q] = actualCost[q]
    BY <2>1 DEF QuietStep, Early, Refused, Charged
  <2> QED  BY <1>3, <1>6, <2>1, <2>2 DEF QuietStep, redis
<1>8. ASSUME NEW r \in Requests, TrackCustomerSpend(r)
      PROVE  /\ held2 \in Int /\ owed2 \in Int /\ owed2 - owed <= held2 - held
             /\ faults' # 0 \/ owed2 - owed = held2 - held
  <2>1. /\ Runs(r, "spend", "requests")
        /\ Charge(r) \/ UNCHANGED redis
        /\ faults' # 0 \/ (Charge(r) /\ pc'[r] = "requests")
        /\ pc'[r] = "requests" => Charge(r)
    BY <1>8, SpendRuns
  <2>2. /\ Charged' = IF pc'[r] = "requests" THEN Charged \cup {r} ELSE Charged
        /\ r \notin Charged /\ actualCost' = actualCost
    <3>1. /\ actualCost' = actualCost /\ pc[r] = "spend"
          /\ pc' \in [Requests -> Places] /\ \A q \in Requests \ {r} : pc'[q] = pc[q]
          /\ pc'[r] \in {"spend", "requests", "unrecorded"}
      BY <2>1 DEF Runs
    <3>2. r \notin Charged
      BY <3>1 DEF Charged
    <3> QED  BY <3>1, <3>2, ChargedIs
  <2>3. CASE pc'[r] = "requests"
    <3>1. owed2 = owed + actualCost[r]
      BY <2>2, <2>3, SetsType, BillAdds DEF Bill
    <3> QED  BY <1>1, <1>5, <2>1, <2>3, <3>1
  <2>4. CASE pc'[r] # "requests"
    <3>1. owed2 = owed
      BY <1>3, <2>2, <2>4
    <3>2. held2 \in Int /\ held2 >= held
      BY <1>1, <1>5, <1>6, <2>1 DEF redis
    <3> QED  BY <1>1, <2>1, <2>4, <3>1, <3>2
  <2> QED  BY <2>3, <2>4
<1>9. ASSUME NEW r \in Requests, TrackCustomerRequests(r) \/ IncrWithTTL(r)
      PROVE  /\ held2 = held /\ owed2 \in Int /\ owed2 <= owed
             /\ faults' # 0 \/ owed2 = owed
  <2>1. /\ spent' = spent /\ actualCost' = actualCost
        /\ pc' \in [Requests -> Places] /\ \A q \in Requests \ {r} : pc'[q] = pc[q]
        /\ pc[r] \in {"requests", "named"}
        /\ pc'[r] \in {"requests", "named", "persisting", "unrecorded"}
        /\ faults' # 0 \/ pc'[r] # "unrecorded"
    BY <1>9, RequestsRuns, IncrRuns DEF Runs, CountIn, Increment, redis
  <2>2. /\ Charged' = IF pc'[r] = "unrecorded" THEN Charged \ {r} ELSE Charged \cup {r}
        /\ r \in Charged
    BY <2>1, ChargedIs
  <2>3. CASE pc'[r] = "unrecorded"
    BY <1>1, <1>4, <1>6, <2>1, <2>2, <2>3
  <2>4. CASE pc'[r] # "unrecorded"
    <3>1. Charged' = Charged
      BY <2>2, <2>4
    <3> QED  BY <1>1, <1>3, <1>6, <2>1, <3>1
  <2> QED  BY <2>3, <2>4
<1>10. ASSUME NEW r \in Requests, Killed(r) \/ PersistFails(r) \/ persistToDatabase(r)
       PROVE  /\ held2 = held /\ owed2 \in Int /\ owed2 <= owed
              /\ faults' # 0 \/ owed2 = owed
  <2>1. /\ spent' = spent /\ actualCost' = actualCost
        /\ pc' \in [Requests -> Places] /\ \A q \in Requests \ {r} : pc'[q] = pc[q]
        /\ \/ pc'[r] = "unrecorded" /\ faults' # 0
           \/ pc[r] = "persisting" /\ pc'[r] = "recorded"
    BY <1>10, EndIs DEF redis
  <2>2. CASE pc'[r] = "unrecorded" /\ faults' # 0
    <3>1. Charged' = Charged \ {r}
      BY <2>1, <2>2, ChargedIs
    <3> QED  BY <1>1, <1>4, <1>6, <2>1, <2>2, <3>1
  <2>3. CASE pc[r] = "persisting" /\ pc'[r] = "recorded"
    <3>1. Charged' = Charged
      BY <2>1, <2>3, ChargedIs
    <3> QED  BY <1>1, <1>3, <1>6, <2>1, <3>1
  <2> QED  BY <2>1, <2>2, <2>3
<1>11. CASE Tick \/ UNCHANGED vars
  <2>1. spent' = spent /\ pc' = pc /\ actualCost' = actualCost
    BY <1>11 DEF Tick, vars, redis
  <2> QED  BY <1>1, <1>3, <1>6, <2>1 DEF Charged
<1> QED  BY <1>1, <1>7, <1>8, <1>9, <1>10, <1>11 DEF Next, Quiet

LEMMA StepCountInOrder ==
  ASSUME TypeInv, CountInOrder, [Next]_vars
  PROVE  CountInOrder'
<1> PICK held, owed : held = Total(count["day"]) /\ owed = Cardinality(Counted)
  OBVIOUS
<1> PICK held2, owed2 : held2 = Total(count["day"])' /\ owed2 = Cardinality(Counted)'
  OBVIOUS
<1>1. held \in Int /\ owed \in Int /\ Counted \in SUBSET Requests
  <2>1. count["day"] \in [Slots -> Nat]
    BY WindowsNest DEF TypeInv, TypeOK
  <2>2. Counted \in SUBSET Requests /\ IsFiniteSet(Counted)
    BY RequestsAssumption, FS_Subset, SetsType
  <2>3. owed \in Nat
    BY <2>2, FS_CardinalityType
  <2> QED  BY <2>1, <2>2, <2>3, TotalType
<1>2. SUFFICES /\ held2 \in Int /\ owed2 \in Int /\ owed2 - owed <= held2 - held
               /\ faults' # 0 \/ owed2 - owed = held2 - held
  <2>1. Covers(held, owed)
    BY DEF CountInOrder
  <2>2. held2 >= owed2 /\ (faults' = 0 => held2 = owed2)
    BY <1>1, <1>2, <2>1, CoversKept
  <2> QED  BY <2>2 DEF CountInOrder, Covers
<1>3. Counted' = Counted => owed2 = owed
  OBVIOUS
<1>4. ASSUME NEW r \in Requests, Counted' = Counted \ {r}
      PROVE  owed2 \in Int /\ owed2 <= owed
  <2>1. owed2 = Cardinality(Counted \ {r})
    BY <1>4
  <2> QED  BY <1>1, <2>1, CardAdds
<1>5. ASSUME NEW r \in Requests, CountIn(r)
      PROVE  held2 = held + 1
  <2>1. PICK c, d, x, amount : /\ c = count["day"] /\ d = count'["day"]
                               /\ x = Slot("day", keysAt[r]) /\ amount = 1
    OBVIOUS
  <2>2. c \in [Slots -> Nat] /\ amount \in Nat /\ x \in Slots
    BY <2>1, KeysIn, WindowsNest DEF TypeInv, TypeOK
  <2>3. \A s \in Slots : d[s] = c[s] + IF s = x THEN amount ELSE 0
    BY <1>5, <2>1, CountInIs, WindowsNest
  <2>4. Total(d) = Total(c) + amount
    BY ONLY <2>2, <2>3, TotalAdds
  <2> QED  BY <2>1, <2>2, <2>4 DEF Total
<1>6. count' = count => held2 = held
  BY DEF Total
<1>7. ASSUME NEW r \in Requests, Quiet(r) PROVE owed2 = owed /\ held2 = held
  <2>1. QuietStep(r)
    BY <1>7, QuietIs
  <2>2. Counted' = Counted
    BY <2>1 DEF QuietStep, Early, Refused, Counted
  <2> QED  BY <1>3, <1>6, <2>1, <2>2 DEF QuietStep, redis
<1>8. ASSUME NEW r \in Requests, TrackCustomerRequests(r)
      PROVE  /\ held2 \in Int /\ owed2 \in Int /\ owed2 - owed <= held2 - held
             /\ faults' # 0 \/ owed2 - owed = held2 - held
  <2>1. /\ Runs(r, "requests", "named")
        /\ CountIn(r) \/ UNCHANGED redis
        /\ faults' # 0 \/ (CountIn(r) /\ pc'[r] = "named")
        /\ pc'[r] = "named" => CountIn(r)
    BY <1>8, RequestsRuns
  <2>2. /\ Counted' = IF pc'[r] = "named" THEN Counted \cup {r} ELSE Counted
        /\ r \notin Counted
    <3>1. /\ pc[r] = "requests"
          /\ pc' \in [Requests -> Places] /\ \A q \in Requests \ {r} : pc'[q] = pc[q]
          /\ pc'[r] \in {"requests", "named", "unrecorded"}
      BY <2>1 DEF Runs
    <3>2. r \notin Counted
      BY <3>1 DEF Counted
    <3> QED  BY <3>1, <3>2, ChargedIs
  <2>3. CASE pc'[r] = "named"
    <3>1. owed2 = owed + 1
      BY <1>1, <2>2, <2>3, CardAdds
    <3> QED  BY <1>1, <1>5, <2>1, <2>3, <3>1
  <2>4. CASE pc'[r] # "named"
    <3>1. owed2 = owed
      BY <1>3, <2>2, <2>4
    <3>2. held2 \in Int /\ held2 >= held
      BY <1>1, <1>5, <1>6, <2>1 DEF redis
    <3> QED  BY <1>1, <2>1, <2>4, <3>1, <3>2
  <2> QED  BY <2>3, <2>4
<1>9. ASSUME NEW r \in Requests, TrackCustomerSpend(r) \/ IncrWithTTL(r)
      PROVE  /\ held2 = held /\ owed2 \in Int /\ owed2 <= owed
             /\ faults' # 0 \/ owed2 = owed
  <2>1. /\ count' = count
        /\ pc' \in [Requests -> Places] /\ \A q \in Requests \ {r} : pc'[q] = pc[q]
        /\ \/ /\ pc[r] = "spend"
              /\ pc'[r] \in {"spend", "requests", "unrecorded"}
           \/ /\ pc[r] = "named"
              /\ pc'[r] \in {"named", "persisting", "unrecorded"}
              /\ faults' # 0 \/ pc'[r] # "unrecorded"
    BY <1>9, SpendRuns, IncrRuns DEF Runs, Charge, Increment, redis
  <2>2. CASE pc[r] = "named" /\ pc'[r] = "unrecorded"
    <3>1. Counted' = Counted \ {r}
      BY <2>1, <2>2, ChargedIs
    <3>2. faults' # 0
      BY <2>1, <2>2
    <3> QED  BY <1>1, <1>4, <1>6, <2>1, <3>1, <3>2
  <2>3. CASE ~(pc[r] = "named" /\ pc'[r] = "unrecorded")
    <3>1. Counted' = Counted
      BY <2>1, <2>3, ChargedIs
    <3> QED  BY <1>1, <1>3, <1>6, <2>1, <3>1
  <2> QED  BY <2>2, <2>3
<1>10. ASSUME NEW r \in Requests, Killed(r) \/ PersistFails(r) \/ persistToDatabase(r)
       PROVE  /\ held2 = held /\ owed2 \in Int /\ owed2 <= owed
              /\ faults' # 0 \/ owed2 = owed
  <2>1. /\ count' = count
        /\ pc' \in [Requests -> Places] /\ \A q \in Requests \ {r} : pc'[q] = pc[q]
        /\ \/ pc'[r] = "unrecorded" /\ faults' # 0
           \/ pc[r] = "persisting" /\ pc'[r] = "recorded"
    BY <1>10, EndIs DEF redis
  <2>2. CASE pc'[r] = "unrecorded" /\ faults' # 0
    <3>1. Counted' = Counted \ {r}
      BY <2>1, <2>2, ChargedIs
    <3> QED  BY <1>1, <1>4, <1>6, <2>1, <2>2, <3>1
  <2>3. CASE pc[r] = "persisting" /\ pc'[r] = "recorded"
    <3>1. Counted' = Counted
      BY <2>1, <2>3, ChargedIs
    <3> QED  BY <1>1, <1>3, <1>6, <2>1, <3>1
  <2> QED  BY <2>1, <2>2, <2>3
<1>11. CASE Tick \/ UNCHANGED vars
  <2>1. count' = count /\ pc' = pc
    BY <1>11 DEF Tick, vars, redis
  <2> QED  BY <1>1, <1>3, <1>6, <2>1 DEF Counted
<1> QED  BY <1>1, <1>7, <1>8, <1>9, <1>10, <1>11 DEF Next, Quiet

LEMMA StepNameInOrder ==
  ASSUME TypeInv, NEW n \in Names, NameInOrder(n), [Next]_vars
  PROVE  NameInOrder(n)'
<1> PICK held, owed : held = Total(named[n]) /\ owed = Cardinality(Bearers(n))
  OBVIOUS
<1> PICK held2, owed2 : held2 = Total(named[n])' /\ owed2 = Cardinality(Bearers(n))'
  OBVIOUS
<1>1. held \in Int /\ owed \in Int /\ Bearers(n) \in SUBSET Requests
  <2>1. named[n] \in [Slots -> Nat]
    BY DEF TypeInv, TypeOK
  <2>2. Bearers(n) \in SUBSET Requests /\ IsFiniteSet(Bearers(n))
    BY RequestsAssumption, FS_Subset, SetsType
  <2>3. owed \in Nat
    BY <2>2, FS_CardinalityType
  <2> QED  BY <2>1, <2>2, <2>3, TotalType
<1>2. SUFFICES /\ held2 \in Int /\ owed2 \in Int /\ owed2 - owed <= held2 - held
               /\ faults' # 0 \/ owed2 - owed = held2 - held
  <2>1. Covers(held, owed)
    BY DEF NameInOrder
  <2>2. held2 >= owed2 /\ (faults' = 0 => held2 = owed2)
    BY <1>1, <1>2, <2>1, CoversKept
  <2> QED  BY <2>2 DEF NameInOrder, Covers
<1>3. Bearers(n)' = Bearers(n) => owed2 = owed
  OBVIOUS
<1>4. ASSUME NEW r \in Requests, Bearers(n)' = Bearers(n) \ {r}
      PROVE  owed2 \in Int /\ owed2 <= owed
  BY <1>1, <1>4, CardAdds
<1>5. ASSUME NEW r \in Requests, NEW k \in Names, Increment(r, k)
      PROVE  held2 = IF k = n THEN held + 1 ELSE held
  <2>1. PICK c, d, x, amount : /\ c = named[n] /\ d = named'[n]
                               /\ x = Slot("day", keysAt[r])
                               /\ amount = IF k = n THEN 1 ELSE 0
    OBVIOUS
  <2>2. c \in [Slots -> Nat] /\ amount \in Nat /\ x \in Slots
    <3>1. x \in Slots
      BY <2>1, KeysIn, WindowsNest
    <3>2. c \in [Slots -> Nat] /\ amount \in Nat
      BY <2>1 DEF TypeInv, TypeOK
    <3> QED  BY <3>1, <3>2
  <2>3. \A s \in Slots : d[s] = c[s] + IF s = x THEN amount ELSE 0
    BY <1>5, <2>1, IncrementIs
  <2>4. Total(d) = Total(c) + amount
    BY ONLY <2>2, <2>3, TotalAdds
  <2> QED  BY <1>1, <2>1, <2>2, <2>4 DEF Total
<1>6. named' = named => held2 = held
  BY DEF Total
<1>7. ASSUME NEW r \in Requests, Quiet(r) PROVE owed2 = owed /\ held2 = held
  <2>1. QuietStep(r)
    BY <1>7, QuietIs
  <2>2. Bearers(n)' = Bearers(n)
    BY <2>1 DEF QuietStep, Early, Refused, Counted, Bearers
  <2> QED  BY <1>3, <1>6, <2>1, <2>2 DEF QuietStep, redis
<1>8. ASSUME NEW r \in Requests, IncrWithTTL(r)
      PROVE  /\ held2 \in Int /\ owed2 \in Int /\ owed2 - owed <= held2 - held
             /\ faults' # 0 \/ owed2 - owed = held2 - held
  <2>1. PICK k \in todo[r] :
          /\ Runs(r, "named", "persisting")
          /\ Increment(r, k) \/ UNCHANGED redis
          /\ faults' # 0 \/ (/\ Increment(r, k) /\ todo'[r] = todo[r] \ {k}
                             /\ pc'[r] # "unrecorded")
          /\ \/ pc'[r] = "unrecorded"
             \/ todo'[r] = todo[r]
             \/ todo'[r] = todo[r] \ {k} /\ Increment(r, k)
    BY <1>8, IncrRuns
  <2>2. k \in Names /\ k \in {model[r]} \cup labels[r]
    BY DEF TypeInv, TypeOK, Names
  <2>3. /\ model' = model /\ labels' = labels /\ pc[r] = "named"
        /\ pc'[r] \in {"named", "persisting", "unrecorded"}
        /\ pc' \in [Requests -> Places] /\ \A q \in Requests \ {r} : pc'[q] = pc[q]
        /\ \A q \in Requests \ {r} : todo'[q] = todo[q]
    BY <2>1 DEF Runs, inputs
  <2>4. held2 \in Int /\ held2 >= held
    BY <1>1, <1>5, <1>6, <2>1, <2>2 DEF redis
  <2>5. CASE pc'[r] = "unrecorded"
    <3>1. Bearers(n)' = Bearers(n) \ {r}
      BY <2>3, <2>5 DEF Bearers, Counted
    <3> QED  BY <1>1, <1>4, <2>1, <2>4, <2>5, <3>1
  <2>6. CASE pc'[r] # "unrecorded" /\ todo'[r] = todo[r]
    <3>1. Bearers(n)' = Bearers(n)
      BY <2>3, <2>6 DEF Bearers, Counted
    <3>2. todo[r] # todo[r] \ {k}
      OBVIOUS
    <3> QED  BY <1>1, <1>3, <2>1, <2>4, <2>6, <3>1, <3>2
  <2>7. CASE pc'[r] # "unrecorded" /\ todo'[r] = todo[r] \ {k} /\ Increment(r, k)
    <3>1. CASE k = n
      <4>1. Bearers(n)' = Bearers(n) \cup {r} /\ r \notin Bearers(n)
        BY <2>2, <2>3, <2>7, <3>1 DEF Bearers, Counted
      <4>2. owed2 = owed + 1
        BY <1>1, <4>1, CardAdds
      <4> QED  BY <1>1, <1>5, <2>2, <2>7, <3>1, <4>2
    <3>2. CASE k # n
      <4>1. Bearers(n)' = Bearers(n)
        BY <2>3, <2>7, <3>2 DEF Bearers, Counted
      <4> QED  BY <1>1, <1>3, <1>5, <2>2, <2>7, <3>2, <4>1
    <3> QED  BY <3>1, <3>2
  <2> QED  BY <2>1, <2>5, <2>6, <2>7
<1>9. ASSUME NEW r \in Requests, TrackCustomerSpend(r) \/ TrackCustomerRequests(r)
      PROVE  held2 = held /\ owed2 = owed
  <2>1. /\ named' = named /\ model' = model /\ labels' = labels
        /\ \A q \in Requests \ {r} : pc'[q] = pc[q] /\ todo'[q] = todo[q]
        /\ \/ /\ pc[r] = "spend"
              /\ pc'[r] \in {"spend", "requests", "unrecorded"}
           \/ /\ pc[r] = "requests"
              /\ pc'[r] \in {"requests", "named", "unrecorded"}
              /\ pc'[r] = "named" => todo'[r] = {model[r]} \cup labels[r]
    BY <1>9, SpendRuns, RequestsRuns DEF Runs, Charge, CountIn, redis, inputs
  <2>2. Bearers(n)' = Bearers(n)
    BY <2>1 DEF Bearers, Counted
  <2> QED  BY <1>3, <1>6, <2>1, <2>2
<1>10. ASSUME NEW r \in Requests, Killed(r) \/ PersistFails(r) \/ persistToDatabase(r)
       PROVE  /\ held2 = held /\ owed2 \in Int /\ owed2 <= owed
              /\ faults' # 0 \/ owed2 = owed
  <2>1. /\ named' = named /\ model' = model /\ labels' = labels
        /\ \A q \in Requests \ {r} : pc'[q] = pc[q] /\ todo'[q] = todo[q]
        /\ \/ pc'[r] = "unrecorded" /\ faults' # 0
           \/ pc[r] = "persisting" /\ pc'[r] = "recorded" /\ todo'[r] = todo[r]
    BY <1>10, EndIs DEF redis, inputs
  <2>2. CASE pc'[r] = "unrecorded" /\ faults' # 0
    <3>1. Bearers(n)' = Bearers(n) \ {r}
      BY <2>1, <2>2 DEF Bearers, Counted
    <3> QED  BY <1>1, <1>4, <1>6, <2>1, <2>2, <3>1
  <2>3. CASE pc[r] = "persisting" /\ pc'[r] = "recorded" /\ todo'[r] = todo[r]
    <3>1. Bearers(n)' = Bearers(n)
      BY <2>1, <2>3 DEF Bearers, Counted
    <3> QED  BY <1>1, <1>3, <1>6, <2>1, <3>1
  <2> QED  BY <2>1, <2>2, <2>3
<1>11. CASE Tick \/ UNCHANGED vars
  <2>1. UNCHANGED <<named, pc, model, labels, todo>>
    BY <1>11 DEF Tick, vars, redis, inputs
  <2> QED  BY <1>1, <1>3, <1>6, <2>1 DEF Bearers, Counted
<1> QED  BY <1>1, <1>7, <1>8, <1>9, <1>10, <1>11 DEF Next, Quiet

LEMMA InitInOrder == Init => RecordedInOrder
<1> SUFFICES ASSUME Init PROVE RecordedInOrder
  OBVIOUS
<1>1. Charged = {} /\ Counted = {} /\ \A n \in Names : Bearers(n) = {}
  BY DEF Init, Charged, Counted, Bearers
<1>2. /\ \A s \in Slots : spent["day"][s] = 0 /\ count["day"][s] = 0
      /\ \A n \in Names : \A s \in Slots : named[n][s] = 0
  BY WindowsNest DEF Init
<1>3. Total(spent["day"]) = 0 /\ Total(count["day"]) = 0 /\ \A n \in Names : Total(named[n]) = 0
  BY <1>2, SlotsFinite, SumZero DEF Total
<1>4. Bill({}) = 0 /\ Cardinality({}) = 0
  BY SumEmpty, FS_EmptySet DEF Bill
<1> QED  BY <1>1, <1>3, <1>4 DEF RecordedInOrder, Covers

(* No command of a record is skipped without an error: a request that got  *)
(* past one is in that counter, whatever faults there were, and without    *)
(* faults it is there once (limiter.go:352-389).                           *)
THEOREM RecordsInOrder == Spec => []RecordedInOrder
<1>1. RecordedInOrder <=> SpendInOrder /\ CountInOrder /\ \A n \in Names : NameInOrder(n)
  BY DEF RecordedInOrder, SpendInOrder, CountInOrder, NameInOrder
<1>2. TypeInv /\ RecordedInOrder /\ [Next]_vars => RecordedInOrder'
  <2> SUFFICES ASSUME TypeInv, RecordedInOrder, [Next]_vars PROVE RecordedInOrder'
    OBVIOUS
  <2>1. SpendInOrder' /\ CountInOrder'
    BY <1>1, StepSpendInOrder, StepCountInOrder
  <2>2. \A n \in Names : NameInOrder(n)'
    BY <1>1, StepNameInOrder
  <2> QED
    BY <2>1, <2>2 DEF RecordedInOrder, SpendInOrder, CountInOrder, NameInOrder
<1> QED  BY <1>2, InitInOrder, TypeAlways, PTL DEF Spec

-----------------------------------------------------------------------------
(* The ledger follows.                                                     *)

LEMMA ChargeTotal ==
  ASSUME TypeInv, NEW r \in Requests, Charge(r)
  PROVE  Total(spent["day"])' = Total(spent["day"]) + actualCost[r] /\ actualCost[r] \in Nat
<1> PICK c, d, x, amount : /\ c = spent["day"] /\ d = spent'["day"]
                           /\ x = Slot("day", keysAt[r]) /\ amount = actualCost[r]
  OBVIOUS
<1>1. c \in [Slots -> Nat] /\ amount \in Nat /\ x \in Slots
  <2>1. c \in [Slots -> Nat]
    BY WindowsNest DEF TypeInv, TypeOK
  <2>2. amount \in Nat
    BY DEF TypeInv, TypeOK
  <2>3. x \in Slots
    BY KeysIn, WindowsNest
  <2> QED  BY <2>1, <2>2, <2>3
<1>2. \A s \in Slots : d[s] = c[s] + IF s = x THEN amount ELSE 0
  BY ChargeIs, WindowsNest
<1>3. Total(d) = Total(c) + amount
  BY ONLY <1>1, <1>2, TotalAdds
<1> QED  BY <1>1, <1>3 DEF Total

LEMMA PersistIs ==
  ASSUME TypeInv, NEW r \in Requests, persistToDatabase(r)
  PROVE  /\ ledger' \in [Slots -> Nat] /\ actualCost[r] \in Nat
         /\ \A s \in Slots :
              ledger'[s] = ledger[s] + IF s = Slot("day", clock) THEN actualCost[r] ELSE 0
         /\ Total(ledger)' = Total(ledger) + actualCost[r]
<1> PICK c, d, x, amount : /\ c = ledger /\ d = ledger'
                           /\ x = Slot("day", clock) /\ amount = actualCost[r]
  OBVIOUS
<1>1. x \in Slots
  BY TodayIn
<1>2. c \in [Slots -> Nat] /\ amount \in Nat
  BY DEF TypeInv, TypeOK
<1>3. d = [c EXCEPT ![x] = @ + amount]
  BY DEF persistToDatabase, RecordCustomerSpend
<1>4. /\ d \in [Slots -> Nat]
      /\ \A s \in Slots : d[s] = c[s] + IF s = x THEN amount ELSE 0
  BY <1>1, <1>2, <1>3, AddAt
<1>5. \A s \in Slots : d[s] = c[s] + IF s = x THEN amount ELSE 0
  BY <1>4
<1>6. Total(d) = Total(c) + amount
  BY ONLY <1>1, <1>2, <1>5, TotalAdds
<1> QED  BY <1>2, <1>4, <1>6 DEF Total

(* Who is owed a row after a step, and who has one.                        *)
Rowed == {r \in Requests : pc[r] = "recorded"}

LEMMA PendingIs ==
  ASSUME TypeInv, NEW r \in Requests, pc' \in [Requests -> Places],
         \A q \in Requests \ {r} : pc'[q] = pc[q]
  PROVE  /\ Pending' = IF pc'[r] \in {"requests", "named", "persisting"}
                         THEN Pending \cup {r} ELSE Pending \ {r}
         /\ Rowed' = IF pc'[r] = "recorded" THEN Rowed \cup {r} ELSE Rowed \ {r}
         /\ r \in Pending <=> pc[r] \in {"requests", "named", "persisting"}
         /\ r \in Rowed <=> pc[r] = "recorded"
         /\ Pending \in SUBSET Requests /\ Rowed \in SUBSET Requests
  BY DEF Pending, Rowed

LEMMA StepAhead ==
  ASSUME TypeInv, Ahead, [Next]_vars
  PROVE  Ahead'
<1> PICK held, row, owed :
      held = Total(spent["day"]) /\ row = Total(ledger) /\ owed = Bill(Pending)
  OBVIOUS
<1> PICK held2, row2, owed2 :
      held2 = Total(spent["day"])' /\ row2 = Total(ledger)' /\ owed2 = Bill(Pending)'
  OBVIOUS
<1>1. /\ held \in Int /\ row \in Int /\ owed \in Int /\ held >= row + owed
      /\ Pending \in SUBSET Requests /\ actualCost \in [Requests -> Nat]
  <2>1. spent["day"] \in [Slots -> Nat] /\ ledger \in [Slots -> Nat]
    BY WindowsNest DEF TypeInv, TypeOK
  <2>2. Pending \in SUBSET Requests /\ actualCost \in [Requests -> Nat]
    BY DEF TypeInv, Pending
  <2>3. owed \in Nat
    BY <2>2, BillType DEF Bill
  <2> QED  BY <2>1, <2>2, <2>3, TotalType DEF Ahead
<1>2. SUFFICES held2 >= row2 + owed2
  BY DEF Ahead
<1>3. ASSUME Pending' = Pending, \A q \in Pending : actualCost'[q] = actualCost[q]
      PROVE  owed2 = owed
  BY <1>1, <1>3, BillSame DEF Bill
<1>4. ASSUME NEW r \in Requests, Pending' = Pending \ {r}, actualCost' = actualCost
      PROVE  /\ owed2 \in Int /\ owed2 <= owed
             /\ r \in Pending => owed = owed2 + actualCost[r]
  <2>1. owed2 = SumFunctionOnSet(actualCost, Pending \ {r})
    BY <1>4 DEF Bill
  <2>2. Pending \ {r} \in SUBSET Pending
    OBVIOUS
  <2>3. owed2 \in Int /\ owed2 <= owed
    BY <1>1, <2>1, <2>2, BillType DEF Bill
  <2>4. ASSUME r \in Pending PROVE owed = owed2 + actualCost[r]
    <3>1. Pending \ {r} \in SUBSET Requests /\ r \in Requests \ (Pending \ {r})
      BY <1>1
    <3>2. (Pending \ {r}) \cup {r} = Pending
      BY <2>4
    <3>3. SumFunctionOnSet(actualCost, (Pending \ {r}) \cup {r})
            = SumFunctionOnSet(actualCost, Pending \ {r}) + actualCost[r]
      BY <1>1, <3>1, BillAdds
    <3> QED  BY <2>1, <3>2, <3>3 DEF Bill
  <2> QED  BY <2>3, <2>4
<1>5. spent' = spent => held2 = held
  BY DEF Total
<1>6. ledger' = ledger => row2 = row
  BY DEF Total
<1>7. ASSUME NEW r \in Requests, Quiet(r) PROVE held2 >= row2 + owed2
  <2>1. QuietStep(r)
    BY <1>7, QuietIs
  <2>2. Pending' = Pending /\ \A q \in Pending : actualCost'[q] = actualCost[q]
    BY <2>1 DEF QuietStep, Early, Refused, Pending
  <2> QED  BY <1>1, <1>3, <1>5, <1>6, <2>1, <2>2 DEF QuietStep, redis
<1>8. ASSUME NEW r \in Requests, TrackCustomerSpend(r) PROVE held2 >= row2 + owed2
  <2>1. /\ Runs(r, "spend", "requests")
        /\ Charge(r) \/ UNCHANGED redis
        /\ pc'[r] = "requests" => Charge(r)
    BY <1>8, SpendRuns
  <2>2. /\ actualCost' = actualCost /\ pc[r] = "spend" /\ ledger' = ledger
        /\ pc' \in [Requests -> Places] /\ \A q \in Requests \ {r} : pc'[q] = pc[q]
        /\ pc'[r] \in {"spend", "requests", "unrecorded"}
    BY <2>1 DEF Runs
  <2>3. CASE pc'[r] = "requests"
    <3>1. Pending' = Pending \cup {r} /\ r \notin Pending
      BY <2>2, <2>3, PendingIs
    <3>2. owed2 = owed + actualCost[r]
      BY <1>1, <2>2, <3>1, BillAdds DEF Bill
    <3>3. held2 = held + actualCost[r] /\ actualCost[r] \in Nat
      BY <1>1, <2>1, <2>3, ChargeTotal
    <3>4. row2 = row
      BY <1>6, <2>2
    <3> QED  BY <1>1, <3>2, <3>3, <3>4
  <2>4. CASE pc'[r] # "requests"
    <3>1. Pending' = Pending
      <4>1. r \notin Pending /\ Pending' = Pending \ {r}
        BY <2>2, <2>4, PendingIs
      <4> QED  BY <4>1
    <3>2. CASE UNCHANGED redis
      <4>1. held2 = held
        BY <1>5, <3>2 DEF redis
      <4>2. owed2 = owed /\ row2 = row
        BY <1>3, <1>6, <2>2, <3>1
      <4> QED  BY <1>1, <4>1, <4>2
    <3>3. CASE Charge(r)
      <4>1. held2 = held + actualCost[r] /\ actualCost[r] \in Nat
        BY <3>3, ChargeTotal
      <4> QED  BY <1>1, <1>3, <1>6, <2>2, <3>1, <4>1
    <3> QED  BY <2>1, <3>2, <3>3
  <2> QED  BY <2>3, <2>4
<1>9. ASSUME NEW r \in Requests, TrackCustomerRequests(r) \/ IncrWithTTL(r)
      PROVE  held2 >= row2 + owed2
  <2>1. /\ spent' = spent /\ actualCost' = actualCost /\ ledger' = ledger
        /\ pc' \in [Requests -> Places] /\ \A q \in Requests \ {r} : pc'[q] = pc[q]
        /\ pc[r] \in {"requests", "named"}
        /\ pc'[r] \in {"requests", "named", "persisting", "unrecorded"}
    BY <1>9, RequestsRuns, IncrRuns DEF Runs, CountIn, Increment, redis
  <2>2. Pending' = Pending \/ Pending' = Pending \ {r}
    BY <2>1, PendingIs
  <2> QED  BY <1>1, <1>3, <1>4, <1>5, <1>6, <2>1, <2>2
<1>10. ASSUME NEW r \in Requests, Killed(r) \/ PersistFails(r) \/ persistToDatabase(r)
       PROVE  held2 >= row2 + owed2
  <2>1. /\ spent' = spent /\ actualCost' = actualCost
        /\ pc' \in [Requests -> Places] /\ \A q \in Requests \ {r} : pc'[q] = pc[q]
        /\ pc'[r] \in {"unrecorded", "recorded"}
        /\ ledger' = ledger \/ (persistToDatabase(r) /\ pc[r] = "persisting")
    BY <1>10, EndIs DEF redis
  <2>2. Pending' = Pending \ {r} /\ (pc[r] = "persisting" => r \in Pending)
    BY <2>1, PendingIs
  <2>3. CASE ledger' = ledger
    BY <1>1, <1>4, <1>5, <1>6, <2>1, <2>2, <2>3
  <2>4. CASE persistToDatabase(r) /\ pc[r] = "persisting"
    <3>1. row2 = row + actualCost[r] /\ actualCost[r] \in Nat
      BY <2>4, PersistIs
    <3>2. owed = owed2 + actualCost[r] /\ owed2 \in Int
      BY <1>4, <2>1, <2>2, <2>4
    <3> QED  BY <1>1, <1>5, <2>1, <3>1, <3>2
  <2> QED  BY <2>1, <2>3, <2>4
<1>11. CASE Tick \/ UNCHANGED vars
  <2>1. spent' = spent /\ pc' = pc /\ actualCost' = actualCost /\ ledger' = ledger
    BY <1>11 DEF Tick, vars, redis
  <2> QED  BY <1>1, <1>3, <1>5, <1>6, <2>1 DEF Pending
<1> QED  BY <1>7, <1>8, <1>9, <1>10, <1>11 DEF Next, Quiet

LEMMA StepNothingAhead ==
  ASSUME TypeInv, NothingAhead, [Next]_vars
  PROVE  NothingAhead'
<1> SUFFICES ASSUME NEW s \in Slots, s > Slot("day", clock') PROVE spent'["day"][s] = 0
  BY DEF NothingAhead, Slot
<1>1. s > Slot("day", clock)
  <2>1. clock \in Nat /\ clock' \in Nat /\ clock <= clock'
    <3>1. clock \in Nat
      BY CustomerAssumption DEF TypeInv, TypeOK
    <3>2. clock' = clock \/ clock' = clock + 1
      <4>1. ASSUME NEW r \in Requests, Quiet(r) PROVE clock' = clock
        BY <4>1, QuietIs DEF QuietStep
      <4>2. ASSUME NEW r \in Requests,
                   \/ TrackCustomerSpend(r) \/ TrackCustomerRequests(r) \/ IncrWithTTL(r)
                   \/ Killed(r) \/ PersistFails(r) \/ persistToDatabase(r)
            PROVE  clock' = clock
        BY <4>2, EndIs DEF TrackCustomerSpend, TrackCustomerRequests, IncrWithTTL, Local
      <4>3. CASE Tick \/ UNCHANGED vars
        BY <4>3 DEF Tick, vars
      <4> QED  BY <4>1, <4>2, <4>3 DEF Next, Quiet
    <3> QED  BY <3>1, <3>2
  <2>2. /\ Slot("day", clock) <= Slot("day", clock')
        /\ Slot("day", clock) \in Int /\ Slot("day", clock') \in Int
    <3>1. PICK p, x, y : p = Period["day"] /\ x = clock /\ y = clock'
      OBVIOUS
    <3>2. p \in Nat \ {0} /\ x \in Int /\ y \in Int /\ x <= y
      BY <2>1, <3>1, PeriodType, WindowsNest
    <3>3. x \div p <= y \div p /\ x \div p \in Int /\ y \div p \in Int
      BY ONLY <3>2, DivMonotone, DivMod
    <3>4. Slot("day", clock) = x \div p /\ Slot("day", clock') = y \div p
      BY <3>1 DEF Slot
    <3> QED  BY <3>3, <3>4
  <2> QED  BY <2>2, SlotsFinite
<1>2. spent["day"][s] = 0
  BY <1>1 DEF NothingAhead
<1>3. ASSUME NEW r \in Requests, Charge(r) PROVE spent'["day"][s] = 0
  <2>1. Slot("day", keysAt[r]) <= Slot("day", clock) /\ Slot("day", keysAt[r]) \in Slots
    BY KeysIn, WindowsNest
  <2>2. s # Slot("day", keysAt[r])
    <3>1. Slot("day", clock) \in Nat
      BY TodayIn, SlotsFinite
    <3> QED  BY <1>1, <2>1, <3>1, SlotsFinite
  <2> QED  BY <1>2, <1>3, <2>2, ChargeIs, WindowsNest
<1>4. ASSUME NEW r \in Requests,
             TrackCustomerSpend(r) \/ TrackCustomerRequests(r) \/ IncrWithTTL(r)
      PROVE  Charge(r) \/ spent' = spent
  <2>1. CASE TrackCustomerSpend(r)
    BY <2>1, SpendRuns DEF redis
  <2>2. CASE TrackCustomerRequests(r)
    BY <2>2, RequestsRuns DEF CountIn, redis
  <2>3. CASE IncrWithTTL(r)
    BY <2>3, IncrRuns DEF Increment, redis
  <2> QED  BY <1>4, <2>1, <2>2, <2>3
<1> QED  BY <1>2, <1>3, <1>4, RedisKept DEF redis

(* The first half of LedgerFollows: a row is written today, when Redis     *)
(* already has its amount and nothing later.                               *)
NeverAhead == \A s \in Slots : UpTo(ledger, s) <= UpTo(spent["day"], s)

LEMMA UpToAdds ==
  ASSUME NEW c \in [Slots -> Nat], NEW d, NEW x \in Slots, NEW amount \in Nat, NEW s \in Slots,
         \A i \in Slots : d[i] = c[i] + IF i = x THEN amount ELSE 0
  PROVE  UpTo(c, s) \in Nat /\ UpTo(d, s) = UpTo(c, s) + IF x <= s THEN amount ELSE 0
<1> PICK S : S = {i \in Slots : i <= s}
  OBVIOUS
<1>1. IsFiniteSet(S) /\ S \in SUBSET S /\ S \subseteq Slots
  BY SlotsFinite, FS_Subset
<1>2. \A i \in S : c[i] \in Nat
  BY <1>1
<1>3. SumFunctionOnSet(c, S) \in Nat
  BY <1>1, <1>2, SumMonotone
<1>4. \A i \in S : c[i] \in Int /\ d[i] = c[i] + IF i = x THEN amount ELSE 0
  BY <1>1
<1>5. SumFunctionOnSet(d, S) = SumFunctionOnSet(c, S) + IF x \in S THEN amount ELSE 0
  BY ONLY amount \in Int, <1>1, <1>4, SumAddsAt
<1> QED  BY <1>3, <1>5 DEF UpTo

LEMMA UpToTotal ==
  ASSUME NEW c \in [Slots -> Nat], NEW s \in Slots
  PROVE  /\ UpTo(c, s) \in Nat /\ UpTo(c, s) <= Total(c)
         /\ (\A i \in Slots : i > s => c[i] = 0) => UpTo(c, s) = Total(c)
<1> PICK S : S = {i \in Slots : i <= s}
  OBVIOUS
<1>1. IsFiniteSet(Slots) /\ S \in SUBSET Slots /\ \A i \in Slots : c[i] \in Nat
  BY SlotsFinite
<1>2. SumFunctionOnSet(c, S) <= SumFunctionOnSet(c, Slots) /\ SumFunctionOnSet(c, S) \in Nat
  BY ONLY <1>1, SumMonotone
<1>3. ASSUME \A i \in Slots : i > s => c[i] = 0
      PROVE  SumFunctionOnSet(c, S) = SumFunctionOnSet(c, Slots)
  <2> DEFINE Bad == {U \in SUBSET Slots :
                       S \subseteq U /\ SumFunctionOnSet(c, U) # SumFunctionOnSet(c, S)}
  <2>1. SUFFICES ASSUME Bad # {} PROVE FALSE
    OBVIOUS
  <2>2. PICK U \in Bad : \A Y \in Bad : Y \subseteq U => Y = U
    <3>1. Bad \subseteq SUBSET Slots
      OBVIOUS
    <3> HIDE DEF Bad
    <3> QED  BY <1>1, <2>1, <3>1, MinimalSubset
  <2>3. /\ U \in SUBSET Slots /\ S \subseteq U
        /\ SumFunctionOnSet(c, U) # SumFunctionOnSet(c, S)
    BY <2>2
  <2>4. PICK i \in U : i \notin S
    BY <2>3
  <2>5. c[i] = 0
    <3>1. i \in Slots /\ i > s
      BY <2>3, <2>4, SlotsFinite
    <3> QED  BY <1>3, <3>1
  <2>6. U \ {i} \in SUBSET Slots /\ S \subseteq U \ {i} /\ U \ {i} # U
    BY <2>3, <2>4
  <2>7. SumFunctionOnSet(c, U \ {i}) = SumFunctionOnSet(c, S)
    BY <2>2, <2>6
  <2>8. SumFunctionOnSet(c, U) = SumFunctionOnSet(c, U \ {i})
    <3>1. IsFiniteSet(U) /\ \A j \in U : c[j] \in Int
      BY <1>1, <2>3, FS_Subset
    <3> QED  BY <2>5, <3>1, SumDropsZero
  <2> QED  BY <2>3, <2>7, <2>8
<1> QED  BY <1>2, <1>3 DEF UpTo, Total

LEMMA StepNeverAhead ==
  ASSUME TypeInv, Ahead, NothingAhead, NeverAhead, [Next]_vars
  PROVE  NeverAhead'
<1>1. spent["day"] \in [Slots -> Nat] /\ ledger \in [Slots -> Nat]
  BY WindowsNest DEF TypeInv, TypeOK
<1>2. CASE spent' = spent /\ ledger' = ledger
  BY <1>2 DEF NeverAhead, UpTo
<1>3. ASSUME NEW r \in Requests, Charge(r), ledger' = ledger PROVE NeverAhead'
  <2> SUFFICES ASSUME NEW s \in Slots PROVE UpTo(ledger, s) <= UpTo(spent'["day"], s)
    BY <1>3 DEF NeverAhead, UpTo
  <2> PICK c, d, x, amount : /\ c = spent["day"] /\ d = spent'["day"]
                             /\ x = Slot("day", keysAt[r]) /\ amount = actualCost[r]
    OBVIOUS
  <2>1. x \in Slots
    BY KeysIn, WindowsNest
  <2>2. c \in [Slots -> Nat] /\ amount \in Nat
    BY <1>1 DEF TypeInv, TypeOK
  <2>3. \A i \in Slots : d[i] = c[i] + IF i = x THEN amount ELSE 0
    BY <1>3, ChargeIs, WindowsNest
  <2>4. UpTo(c, s) \in Nat /\ UpTo(d, s) = UpTo(c, s) + IF x <= s THEN amount ELSE 0
    BY ONLY s \in Slots, <2>1, <2>2, <2>3, UpToAdds
  <2>5. UpTo(ledger, s) <= UpTo(c, s) /\ UpTo(ledger, s) \in Nat
    BY <1>1, UpToTotal DEF NeverAhead
  <2>6. x <= s \/ ~(x <= s)
    OBVIOUS
  <2> QED  BY <2>2, <2>4, <2>5
<1>4. ASSUME NEW r \in Requests, persistToDatabase(r) PROVE NeverAhead'
  <2> SUFFICES ASSUME NEW s \in Slots PROVE UpTo(ledger', s) <= UpTo(spent["day"], s)
    BY <1>4 DEF NeverAhead, UpTo, persistToDatabase, redis
  <2> PICK c, d, x, amount : /\ c = ledger /\ d = ledger'
                             /\ x = Slot("day", clock) /\ amount = actualCost[r]
    OBVIOUS
  <2>1. x \in Slots
    BY TodayIn
  <2>2. c \in [Slots -> Nat] /\ amount \in Nat
    BY <1>1, <1>4, PersistIs
  <2>3. \A i \in Slots : d[i] = c[i] + IF i = x THEN amount ELSE 0
    BY <1>4, PersistIs
  <2>4. UpTo(c, s) \in Nat /\ UpTo(d, s) = UpTo(c, s) + IF x <= s THEN amount ELSE 0
    BY ONLY s \in Slots, <2>1, <2>2, <2>3, UpToAdds
  <2>5. CASE x <= s
    <3>1. UpTo(d, s) <= Total(d) /\ UpTo(d, s) \in Nat
      <4>1. d \in [Slots -> Nat]
        BY <1>4, PersistIs
      <4> QED  BY <4>1, UpToTotal
    <3>2. Total(d) = Total(c) + amount
      BY <1>4, PersistIs DEF Total
    <3>3. Total(c) + amount <= Total(spent["day"])
      <4>1. r \in Pending /\ Pending \in SUBSET Requests /\ actualCost \in [Requests -> Nat]
        BY <1>4 DEF persistToDatabase, Pending, TypeInv
      <4>2. amount <= Bill(Pending) /\ Bill(Pending) \in Nat
        <5> PICK P : P = Pending \ {r}
          OBVIOUS
        <5>1. /\ P \in SUBSET Requests /\ r \in Requests \ P
              /\ P \cup {r} = Pending /\ P \in SUBSET Pending
          BY <4>1
        <5>2. SumFunctionOnSet(actualCost, P \cup {r})
                = SumFunctionOnSet(actualCost, P) + actualCost[r]
          BY <4>1, <5>1, BillAdds
        <5>3. /\ SumFunctionOnSet(actualCost, P) \in Nat
              /\ SumFunctionOnSet(actualCost, P \cup {r}) \in Nat
          BY <4>1, <5>1, BillType
        <5>4. Bill(Pending) = SumFunctionOnSet(actualCost, P \cup {r}) /\ amount = actualCost[r]
          BY <5>1 DEF Bill
        <5> QED  BY <2>2, <5>2, <5>3, <5>4
      <4>3. Total(c) \in Nat /\ Total(spent["day"]) \in Nat
        BY <1>1, TotalType
      <4> QED  BY <2>2, <4>2, <4>3 DEF Ahead
    <3>4. UpTo(spent["day"], s) = Total(spent["day"]) /\ UpTo(spent["day"], s) \in Nat
      <4>1. \A i \in Slots : i > s => spent["day"][i] = 0
        BY <2>1, <2>5, SlotsFinite DEF NothingAhead
      <4> QED  BY <1>1, <4>1, UpToTotal
    <3>5. Total(c) \in Nat
      BY <1>1, TotalType
    <3> QED  BY <2>2, <3>1, <3>2, <3>3, <3>4, <3>5
  <2>6. CASE ~(x <= s)
    <3>1. UpTo(d, s) = UpTo(c, s)
      BY <2>4, <2>6
    <3> QED  BY <3>1 DEF NeverAhead
  <2> QED  BY <2>5, <2>6
<1>5. ASSUME NEW r \in Requests, TrackCustomerSpend(r) PROVE NeverAhead'
  <2>1. ledger' = ledger
    BY <1>5, SpendRuns DEF Runs
  <2> QED  BY <1>2, <1>3, <1>5, <2>1, SpendRuns DEF redis
<1>6. ASSUME NEW r \in Requests,
             Quiet(r) \/ TrackCustomerRequests(r) \/ IncrWithTTL(r)
      PROVE  spent' = spent /\ ledger' = ledger
  BY <1>6, QuietIs, RequestsRuns, IncrRuns DEF QuietStep, Runs, CountIn, Increment, redis
<1>7. ASSUME NEW r \in Requests, Killed(r) \/ PersistFails(r)
      PROVE  spent' = spent /\ ledger' = ledger
  BY <1>7 DEF Killed, PersistFails, redis
<1>8. CASE Tick \/ UNCHANGED vars
  BY <1>2, <1>8 DEF Tick, vars, redis
<1> QED  BY <1>2, <1>4, <1>5, <1>6, <1>7, <1>8 DEF Next, Quiet

Settled == faults = 0 => Total(ledger) = Bill(Rowed)

(* Without faults the ledger has what was recorded: only its own step adds *)
(* to it, and nobody leaves it.                                            *)
LEMMA StepSettled ==
  ASSUME TypeInv, Settled, [Next]_vars
  PROVE  Settled'
<1> SUFFICES ASSUME faults' = 0 PROVE Total(ledger)' = Bill(Rowed)'
  BY DEF Settled
<1>1. Total(ledger) = Bill(Rowed)
  BY FaultsGrow DEF Settled
<1>2. Rowed \in SUBSET Requests /\ actualCost \in [Requests -> Nat] /\ ledger \in [Slots -> Nat]
  BY DEF TypeInv, TypeOK, Rowed
<1>3. ASSUME Rowed' = Rowed, \A q \in Rowed : actualCost'[q] = actualCost[q], ledger' = ledger
      PROVE  Total(ledger)' = Bill(Rowed)'
  <2>1. Bill(Rowed)' = Bill(Rowed)
    BY <1>2, <1>3, BillSame DEF Bill
  <2> QED  BY <1>1, <1>3, <2>1 DEF Total
<1>4. ASSUME NEW r \in Requests, Quiet(r) PROVE Total(ledger)' = Bill(Rowed)'
  <2>1. QuietStep(r)
    BY <1>4, QuietIs
  <2>2. Rowed' = Rowed /\ \A q \in Rowed : actualCost'[q] = actualCost[q]
    BY <2>1 DEF QuietStep, Early, Refused, Rowed
  <2> QED  BY <1>3, <2>1, <2>2 DEF QuietStep
<1>5. ASSUME NEW r \in Requests,
             TrackCustomerSpend(r) \/ TrackCustomerRequests(r) \/ IncrWithTTL(r)
      PROVE  Total(ledger)' = Bill(Rowed)'
  <2>1. /\ actualCost' = actualCost /\ ledger' = ledger
        /\ \A q \in Requests \ {r} : pc'[q] = pc[q]
        /\ pc[r] \in {"spend", "requests", "named"}
        /\ pc'[r] \in {"spend", "requests", "named", "persisting", "unrecorded"}
    BY <1>5, SpendRuns, RequestsRuns, IncrRuns DEF Runs
  <2>2. Rowed' = Rowed
    BY <2>1 DEF Rowed
  <2> QED  BY <1>3, <2>1, <2>2
<1>6. ASSUME NEW r \in Requests, Killed(r) \/ PersistFails(r) \/ persistToDatabase(r)
      PROVE  Total(ledger)' = Bill(Rowed)'
  <2>1. /\ actualCost' = actualCost /\ persistToDatabase(r) /\ pc[r] = "persisting"
        /\ pc' \in [Requests -> Places] /\ \A q \in Requests \ {r} : pc'[q] = pc[q]
        /\ pc'[r] = "recorded"
    BY <1>6, EndIs
  <2>2. Rowed' = Rowed \cup {r} /\ r \notin Rowed
    BY <2>1, PendingIs
  <2>3. Bill(Rowed)' = Bill(Rowed) + actualCost[r]
    BY <1>2, <2>1, <2>2, BillAdds DEF Bill
  <2> QED  BY <1>1, <2>1, <2>3, PersistIs
<1>7. CASE Tick \/ UNCHANGED vars
  <2>1. UNCHANGED <<pc, actualCost, ledger>>
    BY <1>7 DEF Tick, vars, redis
  <2> QED  BY <1>3, <2>1 DEF Rowed
<1> QED  BY <1>4, <1>5, <1>6, <1>7 DEF Next, Quiet

LedgerInv == Ahead /\ NothingAhead /\ NeverAhead /\ Settled

LEMMA InitLedger == Init => LedgerInv
<1> SUFFICES ASSUME Init PROVE LedgerInv
  OBVIOUS
<1>1. Pending = {} /\ Rowed = {}
  BY DEF Init, Pending, Rowed
<1>2. \A s \in Slots : spent["day"][s] = 0 /\ ledger[s] = 0
  BY WindowsNest DEF Init
<1>3. Total(spent["day"]) = 0 /\ Total(ledger) = 0
  BY <1>2, SlotsFinite, SumZero DEF Total
<1>4. Bill({}) = 0
  BY SumEmpty DEF Bill
<1>5. Ahead /\ Settled
  BY <1>1, <1>3, <1>4 DEF Ahead, Settled
<1>6. NothingAhead
  BY <1>2 DEF NothingAhead
<1>7. ASSUME NEW s \in Slots PROVE UpTo(ledger, s) <= UpTo(spent["day"], s)
  <2> PICK S : S = {i \in Slots : i <= s}
    OBVIOUS
  <2>1. IsFiniteSet(S) /\ S \subseteq Slots
    BY SlotsFinite, FS_Subset
  <2>2. SumFunctionOnSet(ledger, S) = 0 /\ SumFunctionOnSet(spent["day"], S) = 0
    BY <1>2, <2>1, SumZero
  <2> QED  BY <2>2 DEF UpTo
<1> QED  BY <1>5, <1>6, <1>7 DEF LedgerInv, NeverAhead

(* Postgres runs behind Redis and never ahead of it: up to any day it has  *)
(* at most what Redis has, whatever fails, and without faults nothing is   *)
(* missing once the records are through (limiter.go:387).                  *)
THEOREM LedgerAlwaysFollows == Spec => []LedgerFollows
<1>1. TypeInv /\ LedgerInv /\ [Next]_vars => LedgerInv'
  BY StepAhead, StepNothingAhead, StepNeverAhead, StepSettled DEF LedgerInv
<1>2. LedgerInv => LedgerFollows
  BY DEF LedgerInv, LedgerFollows, NeverAhead, Settled, Rowed
<1> QED  BY <1>1, <1>2, InitLedger, TypeAlways, PTL DEF Spec

-----------------------------------------------------------------------------
(* The overshoot.                                                          *)

(* What a step before the record does to the model's bookkeeping.          *)
Measured(r) ==
  /\ pc[r] = "checking" /\ ~OverBudget(r) /\ ~OverCount(r)
  /\ last' = r /\ lastAt' = keysAt[r] /\ late' = With(Unrecorded, r)

QuietLate(r) ==
  /\ pc'[r] # "idle"
  /\ \A q \in Requests : pc[q] # "idle" => estimatedCost'[q] = estimatedCost[q]
  /\ \/ /\ UNCHANGED ghosts
        /\ pc'[r] \in {"names", "calling", "spend"} => pc[r] \in {"names", "calling"}
     \/ late' = With(late, r) /\ UNCHANGED <<last, lastAt>>
     \/ Measured(r)

LEMMA QuietLateIs ==
  ASSUME TypeInv, NEW r \in Requests, Quiet(r)
  PROVE  QuietLate(r)
<1> USE DEF QuietLate, Goto, inputs, ghosts
<1>0. pc \in [Requests -> Places] /\ estimatedCost \in [Requests -> Nat]
  BY DEF TypeInv, TypeOK, Places
<1>1. CASE Arrive(r)
  BY <1>0, <1>1 DEF Arrive
<1>2. CASE Snapshot(r)
  <2>1. pc'[r] # "idle" /\ estimatedCost' = estimatedCost
    BY <1>0, <1>2 DEF Snapshot
  <2>2. CASE UNCHANGED ghosts /\ pc'[r] \in {"overBudget", "overCount"}
    BY <2>1, <2>2
  <2>3. CASE late' = With(late, r) /\ UNCHANGED <<last, lastAt>>
    BY <2>1, <2>3
  <2>4. CASE Measured(r)
    BY <2>1, <2>4
  <2> QED  BY <1>0, <1>2, <2>2, <2>3, <2>4 DEF Snapshot, Measured
<1>3. CASE NoSnapshot(r)
  BY <1>0, <1>3 DEF NoSnapshot
<1>4. CASE CheckName(r)
  BY <1>0, <1>4 DEF CheckName
<1>5. CASE EndCheck(r)
  BY <1>0, <1>5 DEF EndCheck
<1>6. CASE CheckFails(r)
  BY <1>0, <1>6 DEF CheckFails
<1>7. CASE Completed(r)
  BY <1>0, <1>7 DEF Completed
<1>8. CASE NotRecorded(r)
  BY <1>0, <1>8 DEF NotRecorded
<1> QED  BY <1>1, <1>2, <1>3, <1>4, <1>5, <1>6, <1>7, <1>8 DEF Quiet

(* What a step of the record, or an end, does.                             *)
RecordStep(r) ==
  /\ UNCHANGED <<spec, estimatedCost, actualCost, ghosts>>
  /\ pc' \in [Requests -> Places] /\ \A q \in Requests \ {r} : pc'[q] = pc[q]
  /\ pc'[r] # "idle"
  /\ pc'[r] \in {"names", "calling", "spend"} => pc[r] = "spend"
  /\ pc'[r] = "requests" => pc[r] \in {"spend", "requests"}

LEMMA RecordStepIs ==
  ASSUME TypeInv, NEW r \in Requests,
         \/ TrackCustomerSpend(r) \/ TrackCustomerRequests(r) \/ IncrWithTTL(r)
         \/ Killed(r) \/ PersistFails(r) \/ persistToDatabase(r)
  PROVE  RecordStep(r)
<1> USE DEF RecordStep, inputs, ghosts
<1>1. CASE TrackCustomerSpend(r)
  BY <1>1, SpendRuns DEF Runs
<1>2. CASE TrackCustomerRequests(r)
  BY <1>2, RequestsRuns DEF Runs
<1>3. CASE IncrWithTTL(r)
  BY <1>3, IncrRuns DEF Runs
<1>4. CASE Killed(r) \/ PersistFails(r) \/ persistToDatabase(r)
  <2>1. UNCHANGED ghosts
    BY <1>4 DEF Killed, PersistFails, persistToDatabase
  <2> QED  BY <1>4, <2>1, EndIs
<1> QED  BY <1>1, <1>2, <1>3, <1>4

LEMMA StepLate ==
  ASSUME TypeInv, LateInv, [Next]_vars
  PROVE  LateInv'
<1>0. late \in [{"charge", "count"} -> SUBSET Requests]
  BY DEF TypeInv, TypeOK
<1>1. ASSUME NEW r \in Requests, Quiet(r) PROVE LateInv'
  <2>1. QuietLate(r) /\ pc[r] \in Early /\ pc'[r] \in Early
        /\ \A q \in Requests \ {r} : pc'[q] = pc[q]
    BY <1>1, QuietLateIs, QuietIs DEF QuietStep
  <2>2. CASE /\ UNCHANGED ghosts
             /\ pc'[r] \in {"names", "calling", "spend"} => pc[r] \in {"names", "calling"}
    BY <2>1, <2>2 DEF LateInv, ghosts, QuietLate, Early, Refused
  <2>3. CASE late' = With(late, r) /\ UNCHANGED <<last, lastAt>>
    <3>1. late'["charge"] = late["charge"] \cup {r} /\ late'["count"] = late["count"] \cup {r}
      BY <1>0, <2>3, WithType
    <3> QED  BY <2>1, <2>3, <3>1 DEF LateInv, QuietLate
  <2>4. CASE Measured(r)
    <3>1. /\ late'["charge"] = {q \in Requests : pc[q] \in {"names", "calling", "spend"}} \cup {r}
          /\ late'["count"] =
               {q \in Requests : pc[q] \in {"names", "calling", "spend", "requests"}} \cup {r}
      BY <2>4, WithType, UnrecordedType DEF Measured
    <3> QED  BY <2>1, <2>4, <3>1 DEF LateInv, Measured, QuietLate
  <2> QED  BY <2>1, <2>2, <2>3, <2>4 DEF QuietLate
<1>2. ASSUME NEW r \in Requests, RecordStep(r) PROVE LateInv'
  BY <1>2 DEF RecordStep, LateInv, ghosts
<1>3. CASE Tick \/ UNCHANGED vars
  <2>1. UNCHANGED <<pc, ghosts>>
    BY <1>3 DEF Tick, vars
  <2> QED  BY <2>1 DEF LateInv, ghosts
<1> QED  BY <1>1, <1>2, <1>3, RecordStepIs DEF Next, Quiet

LEMMA InitLate == Init => LateInv
  BY DEF Init, LateInv

LEMMA LastIn ==
  ASSUME TypeInv
  PROVE  \A w \in Windows : Slot(w, lastAt) \in Slots
<1>1. lastAt \in Nat /\ lastAt <= MaxClock /\ MaxClock \in Nat
  BY CustomerAssumption DEF TypeInv, TypeOK
<1> TAKE w \in Windows
<1>2. Slot(w, lastAt) \in 0 .. lastAt
  BY <1>1, SlotIn
<1> QED  BY <1>1, <1>2 DEF Slots

LEMMA StepSpendOvershoot ==
  ASSUME TypeInv, LateInv, SpendOvershoot, [Next]_vars
  PROVE  SpendOvershoot'
<1> SUFFICES ASSUME faults' = 0, last' # None,
                    NEW w \in SpendWindows, w \in DOMAIN spec'[last'].spend
             PROVE  spent'[w][Slot(w, lastAt')] + estimatedCost'[last']
                      <= spec'[last'].spend[w] + Bill(late["charge"] \cap Charged)'
  BY DEF SpendOvershoot, Slot
<1>1. faults = 0
  BY FaultsGrow
<1>2. /\ late \in [{"charge", "count"} -> SUBSET Requests]
      /\ Charged \in SUBSET Requests /\ actualCost \in [Requests -> Nat]
      /\ spent \in [SpendWindows -> [Slots -> Nat]] /\ w \in Windows
      /\ estimatedCost \in [Requests -> Nat]
  BY SetsType DEF TypeInv, TypeOK, Windows
<1> PICK S : S = late["charge"] \cap Charged
  OBVIOUS
<1>3. S \in SUBSET Requests /\ Bill(S) \in Nat
  <2>1. S \in SUBSET Requests
    BY <1>2
  <2> QED  BY <1>2, <2>1, BillType DEF Bill
(* The cap of the last request is a number; what was so stays so.          *)
<1>4. ASSUME last # None, w \in DOMAIN spec[last].spend
      PROVE  /\ last \in Requests /\ pc[last] # "idle" /\ spec[last].spend[w] \in Int
             /\ estimatedCost[last] \in Nat /\ spent[w][Slot(w, lastAt)] \in Nat
             /\ spent[w][Slot(w, lastAt)] + estimatedCost[last] <= spec[last].spend[w] + Bill(S)
  <2>1. last \in Requests /\ pc[last] # "idle"
    BY <1>4 DEF LateInv
  <2>2. spec[last] \in Specs
    BY <2>1 DEF TypeInv
  <2>3. spec[last].spend[w] \in Int
    BY <1>4, <2>2, SpecsAssumption
  <2>4. spent[w][Slot(w, lastAt)] \in Nat
    BY <1>2, LastIn
  <2> QED  BY <1>1, <1>2, <1>4, <2>1, <2>3, <2>4 DEF SpendOvershoot
<1>5. ASSUME UNCHANGED <<spent, spec, last, lastAt>>,
             \A q \in Requests : pc[q] # "idle" => estimatedCost'[q] = estimatedCost[q],
             late'["charge"] \cap Charged' = S, \A q \in S : actualCost'[q] = actualCost[q]
      PROVE  spent'[w][Slot(w, lastAt')] + estimatedCost'[last']
               <= spec'[last'].spend[w] + Bill(late["charge"] \cap Charged)'
  <2>1. Bill(late["charge"] \cap Charged)' = Bill(S)
    <3> PICK other : other = actualCost'
      OBVIOUS
    <3>1. Bill(late["charge"] \cap Charged)' = SumFunctionOnSet(other, S)
      BY <1>5 DEF Bill
    <3>2. \A q \in S : other[q] = actualCost[q]
      BY <1>5
    <3>3. SumFunctionOnSet(other, S) = SumFunctionOnSet(actualCost, S)
      BY ONLY <1>2, <1>3, <3>2, BillSame
    <3> QED  BY <3>1, <3>3 DEF Bill
  <2>2. last # None /\ w \in DOMAIN spec[last].spend
    BY <1>5
  <2>3. last \in Requests /\ estimatedCost'[last'] = estimatedCost[last]
    BY <1>4, <1>5, <2>2
  <2>4. spent'[w][Slot(w, lastAt')] = spent[w][Slot(w, lastAt)]
    BY <1>5 DEF Slot
  <2> QED  BY <1>4, <1>5, <2>1, <2>2, <2>3, <2>4
<1>6. ASSUME NEW r \in Requests, Quiet(r)
      PROVE  spent'[w][Slot(w, lastAt')] + estimatedCost'[last']
               <= spec'[last'].spend[w] + Bill(late["charge"] \cap Charged)'
  <2>1. /\ spent' = spent /\ spec' = spec
        /\ pc[r] \in Early /\ pc'[r] \in Early /\ \A q \in Requests \ {r} : pc'[q] = pc[q]
        /\ \A q \in Requests \ {r} : actualCost'[q] = actualCost[q]
    BY <1>6, QuietIs DEF QuietStep, redis
  <2>2. /\ QuietLate(r)
        /\ \A q \in Requests : pc[q] # "idle" => estimatedCost'[q] = estimatedCost[q]
    BY <1>6, QuietLateIs DEF QuietLate
  <2>3. Charged' = Charged /\ r \notin Charged
    BY <2>1 DEF Early, Refused, Charged
  <2>4. \A q \in S : actualCost'[q] = actualCost[q]
    BY <1>2, <2>1, <2>3
  <2>5. CASE UNCHANGED ghosts
    BY <1>5, <2>1, <2>2, <2>3, <2>4, <2>5 DEF ghosts
  <2>6. CASE late' = With(late, r) /\ UNCHANGED <<last, lastAt>>
    <3>1. late'["charge"] = late["charge"] \cup {r}
      BY <1>2, <2>6, WithType
    <3>2. late'["charge"] \cap Charged' = S
      BY <2>3, <3>1
    <3> QED  BY <1>5, <2>1, <2>2, <2>4, <2>6, <3>2
  <2>7. CASE Measured(r)
    <3>1. late'["charge"] = {q \in Requests : pc[q] \in {"names", "calling", "spend"}} \cup {r}
      BY <2>7, WithType, UnrecordedType DEF Measured
    <3>2. late'["charge"] \cap Charged' = {}
      BY <2>3, <3>1 DEF Charged
    <3>3. Bill(late["charge"] \cap Charged)' = 0
      BY <3>2, SumEmpty DEF Bill
    <3>4. /\ last' = r /\ lastAt' = keysAt[r] /\ w \in DOMAIN spec[r].spend
          /\ ~OverBudget(r) /\ estimatedCost'[r] = estimatedCost[r]
      BY <2>1, <2>2, <2>7 DEF Measured
    <3>5. spec[r].spend[w] \in Int /\ estimatedCost[r] \in Nat
      <4>1. spec[r] \in Specs
        BY DEF TypeInv
      <4> QED  BY <1>2, <3>4, <4>1, SpecsAssumption
    <3>6. Spent(r, w) \in Nat /\ Spent(r, w) = spent'[w][Slot(w, lastAt')]
      <4>1. Slot(w, keysAt[r]) \in Slots
        BY <1>2, KeysIn
      <4> QED  BY <1>2, <2>1, <3>4, <4>1 DEF Spent
    <3>7. Spent(r, w) + estimatedCost[r] <= spec[r].spend[w]
      BY <3>4, <3>5, <3>6 DEF OverBudget
    <3> QED  BY <2>1, <3>3, <3>4, <3>5, <3>6, <3>7
  <2> QED  BY <2>2, <2>5, <2>6, <2>7 DEF QuietLate
<1>7. ASSUME NEW r \in Requests, TrackCustomerSpend(r)
      PROVE  spent'[w][Slot(w, lastAt')] + estimatedCost'[last']
               <= spec'[last'].spend[w] + Bill(late["charge"] \cap Charged)'
  <2>1. Charge(r) /\ pc'[r] = "requests" /\ pc[r] = "spend"
    BY <1>7, SpendRuns DEF Runs
  <2>2. RecordStep(r)
    BY <1>7, RecordStepIs
  <2>3. /\ UNCHANGED <<spec, estimatedCost, actualCost, last, lastAt, late>>
        /\ pc' \in [Requests -> Places] /\ \A q \in Requests \ {r} : pc'[q] = pc[q]
    BY <2>2 DEF RecordStep, ghosts
  <2>4. Charged' = Charged \cup {r} /\ r \notin Charged
    BY <2>1, <2>3, ChargedIs
  <2>5. r \in late["charge"]
    BY <2>1 DEF LateInv
  <2>6. late'["charge"] \cap Charged' = S \cup {r} /\ r \in Requests \ S
    BY <2>3, <2>4, <2>5
  <2>7. Bill(late["charge"] \cap Charged)' = Bill(S) + actualCost[r]
    BY <1>2, <1>3, <2>3, <2>6, BillAdds DEF Bill
  <2>8. last # None /\ w \in DOMAIN spec[last].spend
    BY <2>3
  <2>9. /\ actualCost[r] \in Nat
        /\ spent'[w][Slot(w, lastAt)] <= spent[w][Slot(w, lastAt)] + actualCost[r]
        /\ spent'[w][Slot(w, lastAt)] \in Nat
    <3> PICK s, a : s = Slot(w, lastAt) /\ a = actualCost[r]
      OBVIOUS
    <3>1. s \in Slots /\ a \in Nat /\ spent[w][s] \in Nat
      BY <1>2, LastIn
    <3>2. spent'[w][s] = spent[w][s] + IF s = Slot(w, keysAt[r]) THEN a ELSE 0
      BY <2>1, <3>1, ChargeIs
    <3> QED  BY <3>1, <3>2
  <2>10. spent'[w][Slot(w, lastAt')] = spent'[w][Slot(w, lastAt)]
    BY <2>3 DEF Slot
  <2> QED  BY <1>3, <1>4, <2>3, <2>7, <2>8, <2>9, <2>10
<1>8. ASSUME NEW r \in Requests,
             \/ TrackCustomerRequests(r) \/ IncrWithTTL(r)
             \/ Killed(r) \/ PersistFails(r) \/ persistToDatabase(r)
      PROVE  spent'[w][Slot(w, lastAt')] + estimatedCost'[last']
               <= spec'[last'].spend[w] + Bill(late["charge"] \cap Charged)'
  <2>1. RecordStep(r)
    BY <1>8, RecordStepIs
  <2>2. /\ UNCHANGED <<spec, estimatedCost, actualCost, last, lastAt, late>>
        /\ pc' \in [Requests -> Places] /\ \A q \in Requests \ {r} : pc'[q] = pc[q]
    BY <2>1 DEF RecordStep, ghosts
  <2>3. /\ spent' = spent
        /\ pc[r] \in {"requests", "named", "persisting"}
        /\ pc'[r] \in {"requests", "named", "persisting", "recorded"}
    BY <1>8, RequestsRuns, IncrRuns, EndIs DEF Runs, CountIn, Increment, redis
  <2>4. Charged' = Charged
    BY <2>2, <2>3, ChargedIs
  <2> QED  BY <1>5, <2>2, <2>3, <2>4
<1>9. CASE Tick \/ UNCHANGED vars
  <2>1. UNCHANGED <<spent, spec, estimatedCost, actualCost, last, lastAt, late, pc>>
    BY <1>9 DEF Tick, vars, redis, inputs, ghosts
  <2>2. Charged' = Charged
    BY <2>1 DEF Charged
  <2> QED  BY <1>5, <2>1, <2>2
<1> QED  BY <1>6, <1>7, <1>8, <1>9 DEF Next, Quiet

(* With Redis healthy a window's spend exceeds the cap by no more than     *)
(* what requests have added that were past their own check, or unmeasured, *)
(* when the last one was measured, and that one's bill only by what it     *)
(* exceeds its estimate: for any number of requests, interleaved at will   *)
(* (limiter.go:192, chat.go:496).                                          *)
THEOREM SpendOvershootBounded == Spec => []SpendOvershoot
<1>1. Init => SpendOvershoot
  BY DEF Init, SpendOvershoot
<1>2. TypeInv /\ LateInv /\ [Next]_vars => LateInv'
  BY StepLate
<1>3. TypeInv /\ LateInv /\ SpendOvershoot /\ [Next]_vars => SpendOvershoot'
  BY StepSpendOvershoot
<1> QED  BY <1>1, <1>2, <1>3, InitLate, TypeAlways, PTL DEF Spec

LEMMA StepCountOvershoot ==
  ASSUME TypeInv, LateInv, CountOvershoot, [Next]_vars
  PROVE  CountOvershoot'
<1> SUFFICES ASSUME faults' = 0, last' # None, NEW w \in DOMAIN spec'[last'].requests
             PROVE  count'[w][Slot(w, lastAt')]
                      < spec'[last'].requests[w] + Cardinality(late'["count"] \cap Counted')
  BY DEF CountOvershoot, Slot
<1>1. faults = 0
  BY FaultsGrow
<1>2. /\ late \in [{"charge", "count"} -> SUBSET Requests]
      /\ Counted \in SUBSET Requests
      /\ count \in [RequestWindows -> [Slots -> Nat]]
  BY SetsType DEF TypeInv, TypeOK
<1> PICK S : S = late["count"] \cap Counted
  OBVIOUS
<1>3. S \in SUBSET Requests /\ Cardinality(S) \in Nat
  <2>1. S \in SUBSET Requests
    BY <1>2
  <2>2. IsFiniteSet(S)
    BY <2>1, RequestsAssumption, FS_Subset
  <2> QED  BY <2>1, <2>2, FS_CardinalityType
(* The limit of the last request is a number; what was so stays so.        *)
<1>4. ASSUME last # None, w \in DOMAIN spec[last].requests
      PROVE  /\ w \in RequestWindows /\ spec[last].requests[w] \in Int
             /\ count[w][Slot(w, lastAt)] \in Nat
             /\ count[w][Slot(w, lastAt)] < spec[last].requests[w] + Cardinality(S)
  <2>1. last \in Requests
    BY <1>4 DEF LateInv
  <2>2. spec[last] \in Specs
    BY <2>1 DEF TypeInv
  <2>3. w \in RequestWindows /\ spec[last].requests[w] \in Int
    BY <1>4, <2>2, SpecsAssumption
  <2>4. count[w][Slot(w, lastAt)] \in Nat
    BY <1>2, <2>3, LastIn DEF Windows
  <2> QED  BY <1>1, <1>4, <2>3, <2>4 DEF CountOvershoot
<1>5. ASSUME UNCHANGED <<count, spec, last, lastAt>>, late'["count"] \cap Counted' = S
      PROVE  count'[w][Slot(w, lastAt')]
               < spec'[last'].requests[w] + Cardinality(late'["count"] \cap Counted')
  <2>1. last # None /\ w \in DOMAIN spec[last].requests
    BY <1>5
  <2>2. count'[w][Slot(w, lastAt')] = count[w][Slot(w, lastAt)]
    BY <1>5 DEF Slot
  <2>3. Cardinality(late'["count"] \cap Counted') = Cardinality(S)
    BY <1>5
  <2> QED  BY <1>4, <1>5, <2>1, <2>2, <2>3
<1>6. ASSUME NEW r \in Requests, Quiet(r)
      PROVE  count'[w][Slot(w, lastAt')]
               < spec'[last'].requests[w] + Cardinality(late'["count"] \cap Counted')
  <2>1. /\ count' = count /\ spec' = spec
        /\ pc[r] \in Early /\ pc'[r] \in Early /\ \A q \in Requests \ {r} : pc'[q] = pc[q]
    BY <1>6, QuietIs DEF QuietStep, redis
  <2>2. QuietLate(r)
    BY <1>6, QuietLateIs
  <2>3. Counted' = Counted /\ r \notin Counted
    BY <2>1 DEF Early, Refused, Counted
  <2>4. CASE UNCHANGED ghosts
    BY <1>5, <2>1, <2>3, <2>4 DEF ghosts
  <2>5. CASE late' = With(late, r) /\ UNCHANGED <<last, lastAt>>
    <3>1. late'["count"] = late["count"] \cup {r}
      BY <1>2, <2>5, WithType
    <3> QED  BY <1>5, <2>1, <2>3, <2>5, <3>1
  <2>6. CASE Measured(r)
    <3>1. late'["count"] =
            {q \in Requests : pc[q] \in {"names", "calling", "spend", "requests"}} \cup {r}
      BY <2>6, WithType, UnrecordedType DEF Measured
    <3>2. late'["count"] \cap Counted' = {}
      BY <2>3, <3>1 DEF Counted
    <3>3. Cardinality(late'["count"] \cap Counted') = 0
      BY <3>2, FS_EmptySet
    <3>4. /\ last' = r /\ lastAt' = keysAt[r] /\ w \in DOMAIN spec[r].requests /\ ~OverCount(r)
      BY <2>1, <2>6 DEF Measured
    <3>5. spec[r].requests[w] \in Int /\ w \in RequestWindows
      <4>1. spec[r] \in Specs
        BY DEF TypeInv
      <4> QED  BY <3>4, <4>1, SpecsAssumption
    <3>6. Count(r, w) \in Nat /\ Count(r, w) = count'[w][Slot(w, lastAt')]
      <4>1. Slot(w, keysAt[r]) \in Slots
        BY <3>5, KeysIn DEF Windows
      <4> QED  BY <1>2, <2>1, <3>4, <3>5, <4>1 DEF Count
    <3>7. Count(r, w) < spec[r].requests[w]
      BY <3>4, <3>5, <3>6 DEF OverCount
    <3> QED  BY <2>1, <3>3, <3>4, <3>5, <3>6, <3>7
  <2> QED  BY <2>2, <2>4, <2>5, <2>6 DEF QuietLate
<1>7. ASSUME NEW r \in Requests, TrackCustomerRequests(r)
      PROVE  count'[w][Slot(w, lastAt')]
               < spec'[last'].requests[w] + Cardinality(late'["count"] \cap Counted')
  <2>1. CountIn(r) /\ pc'[r] = "named" /\ pc[r] = "requests"
    BY <1>7, RequestsRuns DEF Runs
  <2>2. /\ UNCHANGED <<spec, last, lastAt, late>>
        /\ pc' \in [Requests -> Places] /\ \A q \in Requests \ {r} : pc'[q] = pc[q]
    BY <1>7, RecordStepIs DEF RecordStep, ghosts
  <2>3. Counted' = Counted \cup {r} /\ r \notin Counted
    BY <2>1, <2>2, ChargedIs
  <2>4. r \in late["count"]
    BY <2>1 DEF LateInv
  <2>5. late'["count"] \cap Counted' = S \cup {r} /\ r \notin S
    BY <2>2, <2>3, <2>4
  <2>6. Cardinality(late'["count"] \cap Counted') = Cardinality(S) + 1
    BY <1>3, <2>5, CardAdds
  <2>7. last # None /\ w \in DOMAIN spec[last].requests
    BY <2>2
  <2>8. /\ count'[w][Slot(w, lastAt)] <= count[w][Slot(w, lastAt)] + 1
        /\ count'[w][Slot(w, lastAt)] \in Nat
    <3> PICK s : s = Slot(w, lastAt)
      OBVIOUS
    <3>1. w \in RequestWindows /\ s \in Slots /\ count[w][s] \in Nat
      BY <1>2, <1>4, <2>7, LastIn DEF Windows
    <3>2. count'[w][s] = count[w][s] + IF s = Slot(w, keysAt[r]) THEN 1 ELSE 0
      BY <2>1, <3>1, CountInIs
    <3> QED  BY <3>1, <3>2
  <2>9. count'[w][Slot(w, lastAt')] = count'[w][Slot(w, lastAt)]
    BY <2>2 DEF Slot
  <2> QED  BY <1>3, <1>4, <2>2, <2>6, <2>7, <2>8, <2>9
<1>8. ASSUME NEW r \in Requests,
             \/ TrackCustomerSpend(r) \/ IncrWithTTL(r)
             \/ Killed(r) \/ PersistFails(r) \/ persistToDatabase(r)
      PROVE  count'[w][Slot(w, lastAt')]
               < spec'[last'].requests[w] + Cardinality(late'["count"] \cap Counted')
  <2>1. /\ UNCHANGED <<spec, last, lastAt, late>>
        /\ pc' \in [Requests -> Places] /\ \A q \in Requests \ {r} : pc'[q] = pc[q]
    BY <1>8, RecordStepIs DEF RecordStep, ghosts
  <2>2. /\ count' = count
        /\ \/ pc[r] = "spend" /\ pc'[r] = "requests"
           \/ /\ pc[r] \in {"named", "persisting"}
              /\ pc'[r] \in {"named", "persisting", "recorded"}
    BY <1>8, SpendRuns, IncrRuns, EndIs DEF Runs, Charge, Increment, redis
  <2>3. Counted' = Counted
    BY <2>1, <2>2, ChargedIs
  <2> QED  BY <1>5, <2>1, <2>2, <2>3
<1>9. CASE Tick \/ UNCHANGED vars
  <2>1. UNCHANGED <<count, spec, last, lastAt, late, pc>>
    BY <1>9 DEF Tick, vars, redis, inputs, ghosts
  <2>2. Counted' = Counted
    BY <2>1 DEF Counted
  <2> QED  BY <1>5, <2>1, <2>2
<1> QED  BY <1>6, <1>7, <1>8, <1>9 DEF Next, Quiet

(* The same of the request limits: a window counts at most its limit and   *)
(* one less than the requests that came between a check and its record     *)
(* (limiter.go:240).                                                       *)
THEOREM CountOvershootBounded == Spec => []CountOvershoot
<1>1. Init => CountOvershoot
  BY DEF Init, CountOvershoot
<1>2. TypeInv /\ LateInv /\ [Next]_vars => LateInv'
  BY StepLate
<1>3. TypeInv /\ LateInv /\ CountOvershoot /\ [Next]_vars => CountOvershoot'
  BY StepCountOvershoot
<1> QED  BY <1>1, <1>2, <1>3, InitLate, TypeAlways, PTL DEF Spec

=============================================================================
