------------------------ MODULE ConfigCachesProofs ------------------------
(***************************************************************************)
(* Type correctness of ConfigCaches and its staleness bounds, for any      *)
(* requests, gateways, times to live and bounds.  The properties speak of  *)
(* what is cached now; they are inductive only together with what is true  *)
(* of rows that requests still hold between a SELECT and their store,      *)
(* which is IInv.                                                          *)
(***************************************************************************)
EXTENDS ConfigCaches, SequenceTheorems, TLAPS

USE ConfigAssumption

(* The steps of Next that request r takes.                                 *)
RequestStep(r) ==
  \/ KeyHit(r) \/ KeyMiss(r) \/ SelectKey(r) \/ SelectKeyFails(r)
  \/ StoreKey(r) \/ StoreKeyFails(r)
  \/ WithoutTier(r) \/ TierHit(r) \/ TierMiss(r) \/ DropExpired(r)
  \/ LoadTiers(r) \/ LoadTiersFails(r) \/ SetSet(r)

LEMMA InitType == Init => TypeOK
<1> SUFFICES ASSUME Init PROVE TypeOK
  OBVIOUS
<1>1. PICK start \in Starts :
        /\ keyRows  = << [active |-> TRUE, defaults |-> start.defaults, since |-> 0] >>
        /\ tierRows = << [known |-> start.known, since |-> 0] >>
  BY DEF Init
<1>2. keyRows \in Seq(KeyRowType) /\ tierRows \in Seq(TierRowType)
  BY <1>1 DEF KeyRowType, TierRowType
<1>3. Len(keyRows) = 1 /\ Len(tierRows) = 1
  BY <1>1
<1> QED
  BY <1>2, <1>3 DEF Init, TypeOK, PostgresType, CacheType, RequestType, AdminType, Entries,
     LocalsType, Empty, Admitted, Storing, Done, Limits

LEMMA WritesType ==
  ASSUME PostgresType,
         \/ \E active, defaults \in BOOLEAN : WriteKeyRow(active, defaults)
         \/ \E known \in BOOLEAN : WriteTierRow(known)
  PROVE  /\ PostgresType' /\ clock' = clock
         /\ Len(keyRows') >= Len(keyRows) /\ Len(tierRows') >= Len(tierRows)
<1>1. CASE \E active, defaults \in BOOLEAN : WriteKeyRow(active, defaults)
  <2>1. PICK active, defaults \in BOOLEAN : WriteKeyRow(active, defaults)
    BY <1>1
  <2>2. [active |-> active, defaults |-> defaults, since |-> clock] \in KeyRowType
    BY DEF PostgresType, KeyRowType
  <2>3. keyRows' \in Seq(KeyRowType) /\ Len(keyRows') = Len(keyRows) + 1
    BY <2>1, <2>2, AppendProperties DEF WriteKeyRow, PostgresType
  <2> QED  BY <2>1, <2>3 DEF WriteKeyRow, PostgresType
<1>2. CASE \E known \in BOOLEAN : WriteTierRow(known)
  <2>1. PICK known \in BOOLEAN : WriteTierRow(known)
    BY <1>2
  <2>2. [known |-> known, since |-> clock] \in TierRowType
    BY DEF PostgresType, TierRowType
  <2>3. tierRows' \in Seq(TierRowType) /\ Len(tierRows') = Len(tierRows) + 1
    BY <2>1, <2>2, AppendProperties DEF WriteTierRow, PostgresType
  <2> QED  BY <2>1, <2>3 DEF WriteTierRow, PostgresType
<1> QED  BY <1>1, <1>2

(* A step of r sets its label and locals, and leaves the others' alone.    *)
Moves(r, label, k, t, d) ==
  /\ pc' = [pc EXCEPT ![r] = label] /\ keyRow' = [keyRow EXCEPT ![r] = k]
  /\ tierRow' = [tierRow EXCEPT ![r] = t] /\ deadline' = [deadline EXCEPT ![r] = d]
  /\ UNCHANGED <<clock, postgres, inputs>>

LEMMA MovesType ==
  ASSUME TypeOK, NEW r \in Requests,
         NEW label \in {"idle", "selecting", "storingKey"} \cup Admitted \cup Done,
         NEW k \in IF label \in Admitted \cup {"storingKey"} THEN 1 .. Len(keyRows) ELSE {0},
         NEW t \in IF label = "storingTiers" THEN 1 .. Len(tierRows) ELSE {0},
         NEW d \in IF label \in Storing THEN clock .. clock + MaxDelay ELSE {0},
         Moves(r, label, k, t, d)
  PROVE  RequestType'
<1> USE DEF TypeOK, RequestType, postgres, inputs, Moves
<1>1. \A q \in Requests : q # r =>
        /\ pc'[q] = pc[q] /\ keyRow'[q] = keyRow[q]
        /\ tierRow'[q] = tierRow[q] /\ deadline'[q] = deadline[q]
  OBVIOUS
<1>2. pc'[r] = label /\ keyRow'[r] = k /\ tierRow'[r] = t /\ deadline'[r] = d
  OBVIOUS
<1>3. k \in Nat /\ t \in Nat /\ d \in Nat
  BY DEF PostgresType
<1>4. /\ pc' \in [Requests -> {"idle", "selecting", "storingKey"} \cup Admitted \cup Done]
      /\ keyRow' \in [Requests -> Nat] /\ tierRow' \in [Requests -> Nat]
      /\ deadline' \in [Requests -> Nat]
  BY <1>3
<1>5. LocalsType(r)'
  BY <1>2 DEF LocalsType
<1>6. \A q \in Requests : q # r => LocalsType(q)'
  BY <1>1 DEF LocalsType
<1> QED  BY <1>4, <1>5, <1>6

LEMMA EndType ==
  ASSUME TypeOK, NEW r \in Requests, UNCHANGED <<clock, postgres, inputs>>,
         NEW label \in Done, End(r, label)
  PROVE  RequestType'
<1>1. Moves(r, label, 0, 0, 0)
  BY DEF End, Goto, Moves
<1> QED  BY <1>1, MovesType DEF Done, Limits, Admitted, Storing

LEMMA AuthenticatedType ==
  ASSUME TypeOK, NEW r \in Requests, UNCHANGED <<clock, postgres, inputs, tierRow>>,
         pc[r] \in {"idle", "storingKey"},
         NEW row \in 1 .. Len(keyRows), Authenticated(r, row)
  PROVE  RequestType'
<1>1. tierRow[r] = 0
  BY DEF TypeOK, RequestType, LocalsType
<1>2. Moves(r, "keyed", row, 0, 0)
  BY <1>1 DEF Authenticated, Goto, Moves, TypeOK, RequestType
<1> QED  BY <1>2, MovesType DEF Done, Limits, Admitted, Storing

LEMMA RequestStepType ==
  ASSUME TypeOK, NEW r \in Requests, RequestStep(r)
  PROVE  RequestType'
<1>1. LocalsType(r) /\ gateway[r] \in Gateways /\ tierRow[r] \in Nat /\ keyRow[r] \in Nat
  BY DEF TypeOK, RequestType
<1> USE <1>1 DEF Admitted, Storing, Done, Limits, LocalsType
<1> USE DEF Goto, Moves, postgres, inputs
<1>2. CASE KeyHit(r)
  <2>1. record.row \in 1 .. Len(keyRows)
    BY <1>2 DEF KeyHit, Live, TypeOK, CacheType, Entries
  <2> QED  BY <1>2, <2>1, EndType, AuthenticatedType DEF KeyHit
<1>3. CASE KeyMiss(r)
  <2>1. Moves(r, "selecting", 0, 0, 0)
    BY <1>3 DEF KeyMiss, TypeOK, RequestType
  <2> QED  BY <2>1, MovesType
<1>4. CASE SelectKey(r)
  <2>1. CASE Now(keyRows).active
    <3>1. Moves(r, "storingKey", Len(keyRows), 0, clock + MaxDelay)
      BY <1>4, <2>1 DEF SelectKey, TypeOK, RequestType
    <3>2. Len(keyRows) \in 1 .. Len(keyRows) /\ clock + MaxDelay \in clock .. clock + MaxDelay
      BY DEF TypeOK, PostgresType
    <3> QED  BY <3>1, <3>2, MovesType
  <2> QED  BY <1>4, <2>1, EndType DEF SelectKey
<1>5. CASE SelectKeyFails(r)
  BY <1>5, EndType DEF SelectKeyFails
<1>6. CASE StoreKey(r)
  <2>1. keyRow[r] \in 1 .. Len(keyRows)
    BY <1>6 DEF StoreKey
  <2>2. CASE UNCHANGED <<keyRow, deadline, pc>>
    BY <1>6, <2>2 DEF StoreKey, TypeOK, RequestType
  <2> QED  BY <1>6, <2>1, <2>2, AuthenticatedType DEF StoreKey
<1>7. CASE StoreKeyFails(r)
  BY <1>7, AuthenticatedType DEF StoreKeyFails
<1>8. CASE WithoutTier(r)
  BY <1>8, EndType DEF WithoutTier, Resolved
<1>9. CASE TierHit(r)
  BY <1>9, EndType DEF TierHit, Resolved
<1>10. CASE TierMiss(r)
  <2>1. \E label \in {"loading", "dropping"} : Moves(r, label, keyRow[r], 0, 0)
    BY <1>10 DEF TierMiss, TypeOK, RequestType
  <2> QED  BY <1>10, <2>1, MovesType DEF TierMiss
<1>11. CASE DropExpired(r)
  <2>1. Moves(r, "loading", keyRow[r], 0, 0)
    BY <1>11 DEF DropExpired, TypeOK, RequestType
  <2> QED  BY <1>11, <2>1, MovesType DEF DropExpired
<1>12. CASE LoadTiers(r)
  <2>1. Moves(r, "storingTiers", keyRow[r], Len(tierRows), clock + MaxDelay)
    BY <1>12 DEF LoadTiers, TypeOK, RequestType
  <2>2. Len(tierRows) \in 1 .. Len(tierRows) /\ clock + MaxDelay \in clock .. clock + MaxDelay
    BY DEF TypeOK, PostgresType
  <2>3. keyRow[r] \in 1 .. Len(keyRows)
    BY <1>12 DEF LoadTiers
  <2> HIDE DEF Moves
  <2> QED  BY <2>1, <2>2, <2>3, MovesType
<1>13. CASE LoadTiersFails(r)
  BY <1>13, EndType DEF LoadTiersFails
<1>14. CASE SetSet(r)
  BY <1>14, EndType DEF SetSet, Resolved
<1> QED
  BY <1>2, <1>3, <1>4, <1>5, <1>6, <1>7, <1>8, <1>9, <1>10, <1>11, <1>12, <1>13, <1>14
     DEF RequestStep

(* A gateway's set is replaced, by one no newer than the table.            *)
LEMMA PutType ==
  ASSUME TypeOK, NEW g \in Gateways, NEW entry \in Entries,
         entry.row <= Len(tierRows), entry.until <= clock + TierTTL,
         UNCHANGED <<clock, keyRows, tierRows, record>>,
         tiers' = [tiers EXCEPT ![g] = entry]
  PROVE  CacheType'
<1>1. \A h \in Gateways : tiers'[h] = IF h = g THEN entry ELSE tiers[h]
  BY DEF TypeOK, CacheType
<1>2. tiers' \in [Gateways -> Entries]
  BY DEF TypeOK, CacheType
<1> QED  BY <1>1, <1>2 DEF TypeOK, CacheType

LEMMA EmptyType == TypeOK => /\ Empty \in Entries
                             /\ Empty.row <= Len(tierRows)
                             /\ Empty.until <= clock + TierTTL
<1>1. TypeOK => clock \in Nat /\ Len(tierRows) \in Nat
  BY DEF TypeOK, PostgresType
<1> QED  BY <1>1 DEF Empty, Entries

LEMMA RequestStepCaches ==
  ASSUME TypeOK, NEW r \in Requests, RequestStep(r)
  PROVE  PostgresType' /\ CacheType' /\ AdminType'
<1>1. LocalsType(r) /\ gateway[r] \in Gateways
  BY DEF TypeOK, RequestType
<1>2. UNCHANGED <<clock, postgres, admin>> /\ faults' \in 0 .. MaxFaults
  BY DEF RequestStep, KeyHit, KeyMiss, SelectKey, SelectKeyFails, StoreKey, StoreKeyFails,
     WithoutTier, TierHit, TierMiss, DropExpired, LoadTiers, LoadTiersFails, SetSet, Fault,
     NoFault, TypeOK, PostgresType
<1>3. PostgresType' /\ AdminType'
  BY <1>2 DEF TypeOK, PostgresType, AdminType, postgres, admin
<1>4. UNCHANGED <<clock, keyRows, tierRows>>
  BY <1>2 DEF postgres
<1>5. Len(keyRows) \in Nat \ {0} /\ Len(tierRows) \in Nat \ {0} /\ clock \in Nat
  BY DEF TypeOK, PostgresType
<1>6. CASE StoreKey(r)
  <2>1. keyRow[r] \in 1 .. Len(keyRows)
    BY <1>1, <1>6 DEF StoreKey, LocalsType
  <2>2. record' = [row |-> keyRow[r], until |-> clock + KeyTTL] /\ UNCHANGED tiers
    BY <1>6 DEF StoreKey
  <2>3. record' \in Entries /\ record'.row <= Len(keyRows) /\ record'.until <= clock + KeyTTL
    BY <1>5, <2>1, <2>2 DEF Entries
  <2> QED  BY <1>3, <1>4, <2>2, <2>3 DEF TypeOK, CacheType
<1>7. CASE ~StoreKey(r)
  <2>1. UNCHANGED record
    BY <1>7 DEF RequestStep, KeyHit, KeyMiss, SelectKey, SelectKeyFails, StoreKeyFails,
       WithoutTier, TierHit, TierMiss, DropExpired, LoadTiers, LoadTiersFails, SetSet
  <2>2. CASE UNCHANGED tiers
    BY <1>3, <1>4, <2>1, <2>2 DEF TypeOK, CacheType
  <2>3. CASE DropExpired(r)
    BY <1>1, <1>3, <1>4, <2>1, <2>3, EmptyType, PutType DEF DropExpired
  <2>4. CASE SetSet(r)
    <3>1. tierRow[r] \in 1 .. Len(tierRows)
      BY <1>1, <2>4 DEF SetSet, LocalsType
    <3> DEFINE entry == [row |-> tierRow[r], until |-> clock + TierTTL]
    <3>2. /\ entry \in Entries
          /\ entry.row <= Len(tierRows) /\ entry.until <= clock + TierTTL
      BY <1>5, <3>1 DEF Entries
    <3>3. tiers' = [tiers EXCEPT ![gateway[r]] = entry]
      BY <2>4 DEF SetSet
    <3> HIDE DEF entry
    <3> QED  BY <1>1, <1>3, <1>4, <2>1, <3>2, <3>3, PutType
  <2> QED
    BY <1>3, <1>7, <2>2, <2>3, <2>4 DEF RequestStep, KeyHit, KeyMiss, SelectKey, SelectKeyFails,
       StoreKeyFails, WithoutTier, TierHit, TierMiss, LoadTiers, LoadTiersFails
<1> QED  BY <1>3, <1>6, <1>7

(* The steps of Next that gateway g takes, apart from requests.            *)
AdminStep(g) ==
  \/ SweepFinds(g) \/ SweepDrops(g) \/ UpsertCustomerTier(g) \/ DeleteCustomerTier(g)
  \/ Invalidate(g) \/ Restart(g)

LEMMA WritesKeepType ==
  ASSUME TypeOK, writing' \subseteq Gateways,
         \/ (\E active, defaults \in BOOLEAN : WriteKeyRow(active, defaults)) /\ UNCHANGED writing
         \/ \E known \in BOOLEAN : WriteTierRow(known)
  PROVE  TypeOK'
<1>1. /\ PostgresType' /\ clock' = clock
      /\ Len(keyRows') >= Len(keyRows) /\ Len(tierRows') >= Len(tierRows)
  BY WritesType DEF TypeOK
<1>2. UNCHANGED <<record, tiers, sweeping, seen, racing, pc, inputs, keyRow, tierRow, deadline>>
  BY DEF WriteKeyRow, WriteTierRow, admin
<1>3. Len(keyRows) \in Nat /\ Len(tierRows) \in Nat /\ Len(keyRows') \in Nat /\ Len(tierRows') \in Nat
  BY <1>1 DEF TypeOK, PostgresType
<1>4. CacheType'
  BY <1>1, <1>2, <1>3 DEF TypeOK, CacheType, Entries
<1>5. \A r \in Requests : LocalsType(r)'
  BY <1>1, <1>2, <1>3 DEF TypeOK, RequestType, LocalsType
<1>6. RequestType'
  BY <1>2, <1>5 DEF TypeOK, RequestType, inputs
<1>7. AdminType'
  <2>1. \A g \in Gateways : seen[g] \in 0 .. Len(tierRows') /\ racing[g] \subseteq 1 .. Len(tierRows')
    BY <1>1, <1>3 DEF TypeOK, AdminType
  <2> QED  BY <1>2, <2>1 DEF TypeOK, AdminType
<1> QED  BY <1>1, <1>4, <1>6, <1>7 DEF TypeOK

LEMMA AdminStepType ==
  ASSUME TypeOK, NEW g \in Gateways, AdminStep(g)
  PROVE  TypeOK'
<1>1. CASE SweepFinds(g)
  BY <1>1 DEF SweepFinds, TypeOK, PostgresType, CacheType, RequestType, LocalsType, AdminType,
     postgres, inputs
<1>2. CASE SweepDrops(g)
  <2>1. CacheType'
    BY <1>2, EmptyType, PutType DEF SweepDrops, postgres
  <2>2. PostgresType' /\ RequestType' /\ AdminType'
    BY <1>2 DEF SweepDrops, TypeOK, PostgresType, RequestType, LocalsType, AdminType, postgres,
       inputs
  <2> QED  BY <2>1, <2>2 DEF TypeOK
<1>3. CASE UpsertCustomerTier(g) \/ DeleteCustomerTier(g)
  <2>1. (\E known \in BOOLEAN : WriteTierRow(known)) /\ writing' \subseteq Gateways
    BY <1>3 DEF UpsertCustomerTier, DeleteCustomerTier, TypeOK, AdminType
  <2> QED  BY <2>1, WritesKeepType
<1>4. CASE Invalidate(g)
  <2>1. PostgresType' /\ RequestType'
    BY <1>4 DEF Invalidate, TypeOK, PostgresType, RequestType, LocalsType, postgres, inputs
  <2>2. CacheType'
    BY <1>4, EmptyType, PutType DEF Invalidate, postgres
  <2>3. {tierRow[r] : r \in {q \in Requests : gateway[q] = g /\ pc[q] = "storingTiers"}}
           \subseteq 1 .. Len(tierRows)
    BY DEF TypeOK, RequestType, LocalsType
  <2>4. AdminType'
    BY <1>4, <2>3 DEF Invalidate, TypeOK, PostgresType, AdminType, postgres
  <2> QED  BY <2>1, <2>2, <2>4 DEF TypeOK
<1>5. CASE Restart(g)
  <2>1. CacheType'
    BY <1>5, EmptyType, PutType DEF Restart, postgres
  <2>4. PostgresType' /\ AdminType'
    BY <1>5 DEF Restart, Fault, TypeOK, PostgresType, AdminType, postgres
  <2>2. \A r \in Requests : LocalsType(r)'
    BY <1>5 DEF Restart, TypeOK, RequestType, LocalsType, postgres, Done, Admitted, Storing,
       Limits
  <2>3. RequestType'
    BY <1>5, <2>2 DEF Restart, TypeOK, RequestType, inputs, Done
  <2> QED  BY <2>1, <2>3, <2>4 DEF TypeOK
<1> QED  BY <1>1, <1>2, <1>3, <1>4, <1>5 DEF AdminStep

LEMMA TickType ==
  ASSUME TypeOK, Tick
  PROVE  TypeOK'
<1>1. PostgresType' /\ CacheType' /\ AdminType'
  BY DEF Tick, TypeOK, PostgresType, CacheType, AdminType, Entries, postgres, admin
<1>2. \A r \in Requests : LocalsType(r)'
  BY DEF Tick, TypeOK, PostgresType, RequestType, LocalsType, postgres, Storing
<1> QED  BY <1>1, <1>2 DEF Tick, TypeOK, RequestType, inputs

(* The actions of Next, grouped as the lemmas are.                         *)
LEMMA Steps ==
  ASSUME TypeOK, Next
  PROVE  \/ \E r \in Requests : RequestStep(r)
         \/ (\E active, defaults \in BOOLEAN : WriteKeyRow(active, defaults)) /\ UNCHANGED writing
         \/ WriteElsewhere
         \/ \E g \in Gateways : AdminStep(g)
         \/ Tick
<1>1. ASSUME NEW active, NEW defaults, WriteKeyRow(active, defaults)
      PROVE  UNCHANGED writing
  BY <1>1 DEF WriteKeyRow, admin
<1>2. CASE UpdateKeyOrProject \/ SetProjectDefaults \/ ClearProjectDefaults
  <2>1. Now(keyRows).active \in BOOLEAN /\ Now(keyRows).defaults \in BOOLEAN
    <3>1. keyRows[Len(keyRows)] \in KeyRowType
      BY DEF TypeOK, PostgresType
    <3> QED  BY <3>1 DEF KeyRowType, Now
  <2> QED  BY <1>1, <1>2, <2>1 DEF UpdateKeyOrProject, SetProjectDefaults, ClearProjectDefaults
<1>3. CASE ~(UpdateKeyOrProject \/ SetProjectDefaults \/ ClearProjectDefaults)
  BY <1>3 DEF Next, RequestStep, AdminStep
<1> QED  BY <1>2, <1>3

LEMMA StepType == TypeOK /\ [Next]_vars => TypeOK'
<1> SUFFICES ASSUME TypeOK, [Next]_vars PROVE TypeOK'
  OBVIOUS
<1>1. CASE \E r \in Requests : RequestStep(r)
  BY <1>1, RequestStepType, RequestStepCaches DEF TypeOK
<1>2. CASE (\E active, defaults \in BOOLEAN : WriteKeyRow(active, defaults)) /\ UNCHANGED writing
  BY <1>2, WritesKeepType DEF TypeOK, AdminType
<1>3. CASE WriteElsewhere
  BY <1>3, WritesKeepType DEF WriteElsewhere, TypeOK, AdminType
<1>4. CASE \E g \in Gateways : AdminStep(g)
  BY <1>4, AdminStepType
<1>5. CASE Tick
  BY <1>5, TickType
<1>6. CASE UNCHANGED vars
  BY <1>6 DEF vars, TypeOK, PostgresType, CacheType, RequestType, LocalsType, AdminType,
     postgres, inputs, admin
<1> QED  BY <1>1, <1>2, <1>3, <1>4, <1>5, <1>6, Steps

(* No step indexes a table past its end, holds a row it has not read or    *)
(* lets a store come after its deadline, whatever the constants are.       *)
THEOREM TypeCorrect == Spec => []TypeOK
BY InitType, StepType, PTL DEF Spec

-----------------------------------------------------------------------------
(* How stale a row in hand or in a cache can be: it was still current when *)
(* the store's deadline was set, and a store comes no later than that.     *)
KeyLoads == \A r \in Requests : pc[r] = "storingKey" =>
  /\ keyRows[keyRow[r]].active
  /\ CurrentAt(keyRows, keyRow[r], deadline[r] - MaxDelay)

TierLoads == \A r \in Requests : pc[r] = "storingTiers" =>
  CurrentAt(tierRows, tierRow[r], deadline[r] - MaxDelay)

CachedKey == record.row > 0 =>
  /\ keyRows[record.row].active
  /\ CurrentAt(keyRows, record.row, record.until - KeyTTL - MaxDelay)

CachedTiers == \A g \in Gateways : tiers[g].row > 0 =>
  CurrentAt(tierRows, tiers[g].row, tiers[g].until - TierTTL - MaxDelay)

(* A load older than its gateway's last invalidation was in hand then.     *)
Races == \A r \in Requests : pc[r] = "storingTiers" =>
  \/ tierRow[r] >= seen[gateway[r]]
  \/ tierRow[r] \in racing[gateway[r]]

IInv == KeyLoads /\ TierLoads /\ CachedKey /\ CachedTiers /\ Races /\ StaleOnlyByRace

LEMMA InitStale == Init => IInv
BY DEF Init, IInv, KeyLoads, TierLoads, CachedKey, CachedTiers, Races, StaleOnlyByRace, Empty

LEMMA CurrentEarlier ==
  ASSUME NEW rows, NEW n \in Nat, n = Len(rows), NEW v \in 1 .. n, NEW t \in Int, NEW u \in Int, u <= t,
         \A w \in 1 .. n : rows[w].since \in Nat, CurrentAt(rows, v, t)
  PROVE  CurrentAt(rows, v, u)
<1>1. CASE v = n
  BY <1>1 DEF CurrentAt
<1>2. CASE v + 1 \in 1 .. n /\ t <= rows[v + 1].since
  <2>1. rows[v + 1].since \in Nat
    BY <1>2
  <2> QED  BY <1>2, <2>1 DEF CurrentAt
<1> QED  BY <1>1, <1>2 DEF CurrentAt

LEMMA CurrentAppend ==
  ASSUME NEW T, NEW rows \in Seq(T), NEW row \in T, NEW v \in 1 .. Len(rows), NEW t \in Int,
         t <= row.since, CurrentAt(rows, v, t)
  PROVE  CurrentAt(Append(rows, row), v, t)
<1>1. /\ Len(Append(rows, row)) = Len(rows) + 1
      /\ \A w \in 1 .. Len(rows) : Append(rows, row)[w] = rows[w]
      /\ Append(rows, row)[Len(rows) + 1] = row
  BY AppendProperties
<1> QED  BY <1>1 DEF CurrentAt

(* What a step of r leaves alone, and how it comes to hold a row to store. *)
LEMMA RequestFrame ==
  ASSUME TypeOK, NEW r \in Requests, RequestStep(r)
  PROVE  /\ UNCHANGED <<clock, keyRows, tierRows, gateway, tier, seen, racing>>
         /\ \A q \in Requests \ {r} :
              /\ pc'[q] = pc[q] /\ keyRow'[q] = keyRow[q]
              /\ tierRow'[q] = tierRow[q] /\ deadline'[q] = deadline[q]
         /\ pc'[r] = "storingKey" => \/ SelectKey(r)
                                     \/ pc[r] = pc'[r] /\ UNCHANGED <<keyRow, deadline>>
         /\ pc'[r] = "storingTiers" => LoadTiers(r)
         /\ StoreKey(r) \/ UNCHANGED record
         /\ SetSet(r) \/ DropExpired(r) \/ UNCHANGED tiers
<1> USE DEF End, Goto, Authenticated, postgres, inputs, admin, TypeOK, RequestType
<1>1. CASE KeyHit(r)           BY <1>1 DEF KeyHit
<1>2. CASE KeyMiss(r)          BY <1>2 DEF KeyMiss
<1>3. CASE SelectKey(r)        BY <1>3 DEF SelectKey
<1>4. CASE SelectKeyFails(r)   BY <1>4 DEF SelectKeyFails
<1>5. CASE StoreKey(r)         BY <1>5 DEF StoreKey
<1>6. CASE StoreKeyFails(r)    BY <1>6 DEF StoreKeyFails
<1>7. CASE WithoutTier(r)      BY <1>7 DEF WithoutTier, Resolved
<1>8. CASE TierHit(r)          BY <1>8 DEF TierHit, Resolved
<1>9. CASE TierMiss(r)         BY <1>9 DEF TierMiss
<1>10. CASE DropExpired(r)     BY <1>10 DEF DropExpired
<1>11. CASE LoadTiers(r)       BY <1>11 DEF LoadTiers
<1>12. CASE LoadTiersFails(r)  BY <1>12 DEF LoadTiersFails
<1>13. CASE SetSet(r)          BY <1>13 DEF SetSet, Resolved
<1> QED
  BY <1>1, <1>2, <1>3, <1>4, <1>5, <1>6, <1>7, <1>8, <1>9, <1>10, <1>11, <1>12, <1>13
     DEF RequestStep

LEMMA Numbers ==
  ASSUME TypeOK
  PROVE  /\ clock \in Nat /\ MaxDelay \in Nat /\ KeyTTL \in Nat /\ TierTTL \in Nat
         /\ Len(keyRows) \in Nat \ {0} /\ Len(tierRows) \in Nat \ {0}
         /\ \A v \in 1 .. Len(keyRows) : keyRows[v].since \in Nat
         /\ \A v \in 1 .. Len(tierRows) : tierRows[v].since \in Nat
         /\ record.row \in 0 .. Len(keyRows) /\ record.until \in Nat
         /\ record.until <= clock + KeyTTL
         /\ \A g \in Gateways : /\ tiers[g].row \in 0 .. Len(tierRows) /\ tiers[g].until \in Nat
                               /\ tiers[g].until <= clock + TierTTL
         /\ \A r \in Requests : LocalsType(r)
<1> USE DEF TypeOK, PostgresType, CacheType, RequestType, Entries
<1>1. /\ \A v \in 1 .. Len(keyRows) : keyRows[v] \in KeyRowType
      /\ \A v \in 1 .. Len(tierRows) : tierRows[v] \in TierRowType
  OBVIOUS
<1>2. /\ \A v \in 1 .. Len(keyRows) : keyRows[v].since \in Nat
      /\ \A v \in 1 .. Len(tierRows) : tierRows[v].since \in Nat
  <2> HIDE DEF TypeOK, PostgresType, CacheType, RequestType
  <2>1. /\ \A row \in KeyRowType : row.since \in Nat
        /\ \A row \in TierRowType : row.since \in Nat
    BY DEF KeyRowType, TierRowType
  <2> QED  BY <1>1, <2>1
<1>3. record.row \in 0 .. Len(keyRows) /\ record.until \in Nat /\ record.until <= clock + KeyTTL
  OBVIOUS
<1>4. \A g \in Gateways : /\ tiers[g].row \in 0 .. Len(tierRows) /\ tiers[g].until \in Nat
                          /\ tiers[g].until <= clock + TierTTL
  <2>1. \A g \in Gateways : tiers[g] \in Entries
    OBVIOUS
  <2> QED  BY <2>1
<1>5. /\ clock \in Nat /\ MaxDelay \in Nat /\ KeyTTL \in Nat /\ TierTTL \in Nat
      /\ Len(keyRows) \in Nat \ {0} /\ Len(tierRows) \in Nat \ {0}
      /\ \A r \in Requests : LocalsType(r)
  OBVIOUS
<1> HIDE DEF TypeOK, PostgresType, CacheType, RequestType, Entries
<1> QED  BY <1>2, <1>3, <1>4, <1>5

(* Arithmetic of expiry: of the time an entry's row was surely current.    *)
LEMMA ExpiryArithmetic ==
  ASSUME NEW now \in Nat, NEW until \in Nat, NEW ttl \in Nat, NEW delay \in Nat
  PROVE  /\ until - ttl - delay \in Int /\ now - ttl - delay \in Int
         /\ now - ttl - delay + 1 \in Int
         /\ until <= now + ttl => until - ttl - delay <= now
         /\ now <= until => now - ttl - delay <= until - ttl - delay
         /\ now < until => now - ttl - delay + 1 <= until - ttl - delay
OBVIOUS

LEMMA RequestStale ==
  ASSUME TypeOK, IInv, NEW r \in Requests, RequestStep(r)
  PROVE  IInv'
<1>1. /\ UNCHANGED <<clock, keyRows, tierRows, gateway, tier, seen, racing>>
      /\ \A q \in Requests \ {r} :
           /\ pc'[q] = pc[q] /\ keyRow'[q] = keyRow[q]
           /\ tierRow'[q] = tierRow[q] /\ deadline'[q] = deadline[q]
  BY RequestFrame
<1>2. KeyLoads'
  <2>1. CASE pc'[r] # "storingKey"
    BY <1>1, <2>1 DEF IInv, KeyLoads, CurrentAt
  <2>2. CASE pc[r] = pc'[r] /\ UNCHANGED <<keyRow, deadline>>
    BY <1>1, <2>2 DEF IInv, KeyLoads, CurrentAt
  <2>3. CASE SelectKey(r) /\ pc'[r] = "storingKey"
    <3>1. keyRow'[r] = Len(keyRows) /\ keyRows[Len(keyRows)].active
      BY <2>3 DEF SelectKey, End, Goto, Now, TypeOK, RequestType, Done, Limits
    <3> QED  BY <1>1, <3>1 DEF IInv, KeyLoads, CurrentAt
  <2> QED  BY <2>1, <2>2, <2>3, RequestFrame
<1>3. TierLoads' /\ Races'
  <2>1. CASE pc'[r] # "storingTiers"
    BY <1>1, <2>1 DEF IInv, TierLoads, Races, CurrentAt
  <2>2. CASE LoadTiers(r)
    <3>1. tierRow'[r] = Len(tierRows)
      BY <2>2 DEF LoadTiers, TypeOK, RequestType
    <3>2. Len(tierRows) >= seen[gateway[r]]
      <4>1. seen[gateway[r]] \in 0 .. Len(tierRows)
        BY DEF TypeOK, RequestType, AdminType
      <4> QED  BY <4>1
    <3>3. TierLoads'
      BY <1>1, <3>1 DEF IInv, TierLoads, CurrentAt
    <3>4. Races'
      BY <1>1, <3>1, <3>2 DEF IInv, Races
    <3> QED  BY <3>3, <3>4
  <2> QED  BY <2>1, <2>2, RequestFrame
<1>4. CachedKey'
  <2>1. CASE UNCHANGED record
    BY <1>1, <2>1 DEF IInv, CachedKey, CurrentAt
  <2>2. CASE StoreKey(r)
    <3>1. /\ pc[r] = "storingKey"
          /\ record' = [row |-> keyRow[r], until |-> clock + KeyTTL]
      BY <2>2 DEF StoreKey
    <3>2. keyRow[r] \in 1 .. Len(keyRows) /\ deadline[r] \in clock .. clock + MaxDelay
      BY <3>1, Numbers DEF LocalsType, Storing
    <3>3. CurrentAt(keyRows, keyRow[r], clock - MaxDelay)
      <4>1. CurrentAt(keyRows, keyRow[r], deadline[r] - MaxDelay)
        BY <3>1 DEF IInv, KeyLoads
      <4>2. /\ clock - MaxDelay \in Int /\ deadline[r] - MaxDelay \in Int
            /\ clock - MaxDelay <= deadline[r] - MaxDelay
        BY <3>2, Numbers
      <4> HIDE DEF CurrentAt
      <4> QED  BY <3>2, <4>1, <4>2, CurrentEarlier, Numbers
    <3>4. record'.row = keyRow[r] /\ record'.until - KeyTTL - MaxDelay = clock - MaxDelay
      BY <3>1, Numbers
    <3> QED  BY <1>1, <3>1, <3>3, <3>4 DEF IInv, KeyLoads, CachedKey, CurrentAt
  <2> QED  BY <2>1, <2>2, RequestFrame
<1>5. CachedTiers' /\ StaleOnlyByRace'
  <2>1. CASE UNCHANGED tiers
    BY <1>1, <2>1 DEF IInv, CachedTiers, StaleOnlyByRace, CurrentAt
  <2>2. ASSUME NEW entry, tiers' = [tiers EXCEPT ![gateway[r]] = entry]
        PROVE  \A g \in Gateways : tiers'[g] = IF g = gateway[r] THEN entry ELSE tiers[g]
    BY <2>2 DEF TypeOK, CacheType
  <2>3. CASE DropExpired(r)
    <3>1. \A g \in Gateways : tiers'[g] = IF g = gateway[r] THEN Empty ELSE tiers[g]
      BY <2>2, <2>3 DEF DropExpired
    <3> QED  BY <1>1, <3>1 DEF IInv, CachedTiers, StaleOnlyByRace, CurrentAt, Empty
  <2>4. CASE SetSet(r)
    <3>1. pc[r] = "storingTiers" /\ gateway[r] \in Gateways
      BY <2>4 DEF SetSet, TypeOK, RequestType
    <3>2. tierRow[r] \in 1 .. Len(tierRows) /\ deadline[r] \in clock .. clock + MaxDelay
      BY <3>1, Numbers DEF LocalsType, Storing
    <3>3. CurrentAt(tierRows, tierRow[r], clock - MaxDelay)
      <4>1. CurrentAt(tierRows, tierRow[r], deadline[r] - MaxDelay)
        BY <3>1 DEF IInv, TierLoads
      <4>2. /\ clock - MaxDelay \in Int /\ deadline[r] - MaxDelay \in Int
            /\ clock - MaxDelay <= deadline[r] - MaxDelay
        BY <3>2, Numbers
      <4> HIDE DEF CurrentAt
      <4> QED  BY <3>2, <4>1, <4>2, CurrentEarlier, Numbers
    <3> DEFINE entry == [row |-> tierRow[r], until |-> clock + TierTTL]
    <3>4. entry.row = tierRow[r] /\ entry.until - TierTTL - MaxDelay = clock - MaxDelay
      BY Numbers
    <3>5. tiers' = [tiers EXCEPT ![gateway[r]] = entry]
      BY <2>4 DEF SetSet
    <3>6. seen[gateway[r]] \in Nat
      BY <3>1 DEF TypeOK, AdminType
    <3> HIDE DEF entry
    <3>7. CachedTiers'
      BY <1>1, <2>2, <3>3, <3>4, <3>5 DEF IInv, CachedTiers, CurrentAt
    <3>8. StaleOnlyByRace'
      BY <1>1, <2>2, <3>1, <3>2, <3>4, <3>5, <3>6 DEF IInv, Races, StaleOnlyByRace
    <3> QED  BY <3>7, <3>8
  <2> QED  BY <2>1, <2>3, <2>4, RequestFrame
<1> QED  BY <1>2, <1>3, <1>4, <1>5 DEF IInv

(* A table row that is replaced now was current until now.                 *)
LEMMA WriteKeyStale ==
  ASSUME TypeOK, IInv, NEW active \in BOOLEAN, NEW defaults \in BOOLEAN,
         WriteKeyRow(active, defaults)
  PROVE  IInv'
<1> DEFINE row == [active |-> active, defaults |-> defaults, since |-> clock]
<1>1. /\ keyRows' = Append(keyRows, row)
      /\ UNCHANGED <<tierRows, record, tiers, seen, racing, pc, gateway, keyRow, tierRow, deadline>>
  BY DEF WriteKeyRow, admin, inputs
<1>2. row \in KeyRowType /\ keyRows \in Seq(KeyRowType) /\ row.since = clock
  BY DEF KeyRowType, TypeOK, PostgresType
<1> HIDE DEF row
<1>3. \A v \in 1 .. Len(keyRows) : keyRows'[v] = keyRows[v]
  BY <1>1, <1>2, AppendProperties
<1>4. ASSUME NEW v \in 1 .. Len(keyRows), NEW t \in Int, t <= clock, CurrentAt(keyRows, v, t)
      PROVE  CurrentAt(keyRows', v, t)
  BY <1>1, <1>2, <1>4, CurrentAppend
<1>5. KeyLoads'
  <2> SUFFICES ASSUME NEW r \in Requests, pc[r] = "storingKey"
               PROVE  /\ keyRows'[keyRow[r]].active
                      /\ CurrentAt(keyRows', keyRow[r], deadline[r] - MaxDelay)
    BY <1>1 DEF KeyLoads, CurrentAt
  <2>1. keyRow[r] \in 1 .. Len(keyRows) /\ deadline[r] \in clock .. clock + MaxDelay
    BY Numbers DEF LocalsType, Storing
  <2>2. deadline[r] - MaxDelay \in Int /\ deadline[r] - MaxDelay <= clock
    BY <2>1, Numbers
  <2> QED  BY <1>3, <1>4, <2>1, <2>2 DEF IInv, KeyLoads
<1>6. CachedKey'
  <2> SUFFICES ASSUME record.row > 0
               PROVE  /\ keyRows'[record.row].active
                      /\ CurrentAt(keyRows', record.row, record.until - KeyTTL - MaxDelay)
    BY <1>1 DEF CachedKey, CurrentAt
  <2>1. record.row \in 1 .. Len(keyRows)
    BY Numbers
  <2>2. record.until - KeyTTL - MaxDelay \in Int /\ record.until - KeyTTL - MaxDelay <= clock
    BY Numbers, ExpiryArithmetic
  <2> QED  BY <1>3, <1>4, <2>1, <2>2 DEF IInv, CachedKey
<1>7. TierLoads' /\ CachedTiers' /\ Races' /\ StaleOnlyByRace'
  BY <1>1 DEF IInv, TierLoads, CachedTiers, Races, StaleOnlyByRace, CurrentAt
<1> QED  BY <1>5, <1>6, <1>7 DEF IInv

LEMMA WriteTierStale ==
  ASSUME TypeOK, IInv, NEW known \in BOOLEAN, WriteTierRow(known)
  PROVE  IInv'
<1> DEFINE row == [known |-> known, since |-> clock]
<1>1. /\ tierRows' = Append(tierRows, row)
      /\ UNCHANGED <<keyRows, record, tiers, seen, racing, pc, gateway, keyRow, tierRow, deadline>>
  BY DEF WriteTierRow, inputs
<1>2. row \in TierRowType /\ tierRows \in Seq(TierRowType) /\ row.since = clock
  BY DEF TierRowType, TypeOK, PostgresType
<1> HIDE DEF row
<1>3. ASSUME NEW v \in 1 .. Len(tierRows), NEW t \in Int, t <= clock, CurrentAt(tierRows, v, t)
      PROVE  CurrentAt(tierRows', v, t)
  BY <1>1, <1>2, <1>3, CurrentAppend
<1>4. TierLoads'
  <2> SUFFICES ASSUME NEW r \in Requests, pc[r] = "storingTiers"
               PROVE  CurrentAt(tierRows', tierRow[r], deadline[r] - MaxDelay)
    BY <1>1 DEF TierLoads, CurrentAt
  <2>1. tierRow[r] \in 1 .. Len(tierRows) /\ deadline[r] \in clock .. clock + MaxDelay
    BY Numbers DEF LocalsType, Storing
  <2>2. deadline[r] - MaxDelay \in Int /\ deadline[r] - MaxDelay <= clock
    BY <2>1, Numbers
  <2> QED  BY <1>3, <2>1, <2>2 DEF IInv, TierLoads
<1>5. CachedTiers'
  <2> SUFFICES ASSUME NEW g \in Gateways, tiers[g].row > 0
               PROVE  CurrentAt(tierRows', tiers[g].row, tiers[g].until - TierTTL - MaxDelay)
    BY <1>1 DEF CachedTiers, CurrentAt
  <2>1. tiers[g].row \in 1 .. Len(tierRows) /\ tiers[g].until \in Nat
        /\ tiers[g].until <= clock + TierTTL
    BY Numbers
  <2>2. /\ tiers[g].until - TierTTL - MaxDelay \in Int
        /\ tiers[g].until - TierTTL - MaxDelay <= clock
    BY <2>1, Numbers, ExpiryArithmetic
  <2> QED  BY <1>3, <2>1, <2>2 DEF IInv, CachedTiers
<1>6. KeyLoads' /\ CachedKey' /\ Races' /\ StaleOnlyByRace'
  BY <1>1 DEF IInv, KeyLoads, CachedKey, Races, StaleOnlyByRace, CurrentAt
<1> QED  BY <1>4, <1>5, <1>6 DEF IInv

LEMMA AdminStale ==
  ASSUME TypeOK, IInv, NEW g \in Gateways, AdminStep(g)
  PROVE  IInv'
<1> USE DEF KeyLoads, TierLoads, CachedKey, CachedTiers, Races, StaleOnlyByRace, CurrentAt
<1>1. CASE SweepFinds(g)
  BY <1>1 DEF SweepFinds, IInv, postgres, inputs
<1>2. ASSUME tiers' = [tiers EXCEPT ![g] = Empty]
      PROVE  \A h \in Gateways : tiers'[h] = IF h = g THEN Empty ELSE tiers[h]
  BY <1>2 DEF TypeOK, CacheType
<1>3. CASE SweepDrops(g)
  <2>1. \A h \in Gateways : tiers'[h] = IF h = g THEN Empty ELSE tiers[h]
    BY <1>2, <1>3 DEF SweepDrops
  <2> QED  BY <1>3, <2>1 DEF SweepDrops, IInv, postgres, inputs, Empty
<1>4. CASE UpsertCustomerTier(g) \/ DeleteCustomerTier(g)
  BY <1>4, WriteTierStale DEF UpsertCustomerTier, DeleteCustomerTier
<1>5. CASE Invalidate(g)
  <2>1. /\ UNCHANGED <<keyRows, tierRows, record, pc, gateway, keyRow, tierRow, deadline>>
        /\ \A h \in Gateways : tiers'[h] = IF h = g THEN Empty ELSE tiers[h]
    BY <1>2, <1>5 DEF Invalidate, postgres, inputs
  <2>2. /\ \A h \in Gateways \ {g} : seen'[h] = seen[h] /\ racing'[h] = racing[h]
        /\ \A r \in Requests : gateway[r] = g /\ pc[r] = "storingTiers" =>
             tierRow[r] \in racing'[g]
    BY <1>5 DEF Invalidate, TypeOK, AdminType
  <2>3. KeyLoads' /\ TierLoads' /\ CachedKey' /\ CachedTiers'
    BY <2>1 DEF IInv, Empty
  <2>4. Races'
    BY <2>1, <2>2 DEF IInv, TypeOK, RequestType
  <2>5. StaleOnlyByRace'
    BY <2>1, <2>2 DEF IInv, Empty
  <2> QED  BY <2>3, <2>4, <2>5 DEF IInv
<1>6. CASE Restart(g)
  <2>1. /\ UNCHANGED <<keyRows, tierRows, record, gateway, seen, racing>>
        /\ \A h \in Gateways : tiers'[h] = IF h = g THEN Empty ELSE tiers[h]
    BY <1>2, <1>6 DEF Restart, postgres, inputs
  <2>2. \A r \in Requests : pc'[r] \in Storing =>
          /\ pc'[r] = pc[r] /\ keyRow'[r] = keyRow[r]
          /\ tierRow'[r] = tierRow[r] /\ deadline'[r] = deadline[r]
    BY <1>6 DEF Restart, Storing
  <2>3. KeyLoads' /\ TierLoads' /\ CachedKey' /\ Races'
    BY <2>1, <2>2 DEF IInv, Storing
  <2>4. CachedTiers' /\ StaleOnlyByRace'
    BY <2>1 DEF IInv, Empty
  <2> QED  BY <2>3, <2>4 DEF IInv
<1> QED  BY <1>1, <1>3, <1>4, <1>5, <1>6 DEF AdminStep

LEMMA StepStale == TypeOK /\ IInv /\ [Next]_vars => IInv'
<1> SUFFICES ASSUME TypeOK, IInv, [Next]_vars PROVE IInv'
  OBVIOUS
<1>1. CASE \E r \in Requests : RequestStep(r)
  BY <1>1, RequestStale
<1>2. CASE \E active, defaults \in BOOLEAN : WriteKeyRow(active, defaults)
  BY <1>2, WriteKeyStale
<1>3. CASE WriteElsewhere
  BY <1>3, WriteTierStale DEF WriteElsewhere
<1>4. CASE \E g \in Gateways : AdminStep(g)
  BY <1>4, AdminStale
<1>5. CASE Tick \/ UNCHANGED vars
  BY <1>5 DEF Tick, vars, admin, inputs, postgres, IInv, KeyLoads, TierLoads, CachedKey,
     CachedTiers, Races, StaleOnlyByRace, CurrentAt
<1> QED  BY <1>1, <1>2, <1>3, <1>4, <1>5, Steps

-----------------------------------------------------------------------------
LEMMA Inductive == Spec => [](TypeOK /\ IInv)
<1>1. Init => TypeOK /\ IInv
  BY InitType, InitStale
<1>2. TypeOK /\ IInv /\ [Next]_vars => (TypeOK /\ IInv)'
  BY StepType, StepStale
<1> QED  BY <1>1, <1>2, PTL DEF Spec

(* However lookups of the key race and resend their stores, and whatever   *)
(* the TTL, a lookup is answered from a record that was current less than  *)
(* KeyTTL + MaxDelay ago (validator.go:38-65).                             *)
THEOREM RevocationIsBounded == Spec => []RevocationBound
<1>1. TypeOK /\ IInv => RevocationBound
  <2> SUFFICES ASSUME TypeOK, IInv, Live(record)
               PROVE  CurrentAt(keyRows, record.row, clock - KeyTTL - MaxDelay + 1)
    BY DEF RevocationBound
  <2> DEFINE t == record.until - KeyTTL - MaxDelay
             u == clock - KeyTTL - MaxDelay + 1
  <2>1. record.row \in 1 .. Len(keyRows) /\ t \in Int /\ u \in Int /\ u <= t
    <3>1. record.row \in 1 .. Len(keyRows) /\ record.until \in Nat /\ clock < record.until
      BY Numbers DEF Live
    <3>2. t \in Int /\ u \in Int /\ u <= t
      BY <3>1, Numbers, ExpiryArithmetic
    <3> QED  BY <3>1, <3>2
  <2>2. CurrentAt(keyRows, record.row, t)
    BY <2>1 DEF IInv, CachedKey
  <2> HIDE DEF t, u
  <2>3. CurrentAt(keyRows, record.row, u)
    BY <2>1, <2>2, CurrentEarlier, Numbers
  <2> QED  BY <2>3 DEF u
<1> QED  BY <1>1, Inductive, PTL

(* A key that is revoked or whose project is suspended never gets into the *)
(* cache: the check of the switches on a hit has nothing to refuse         *)
(* (validator.go:48-55, 142-148).                                          *)
THEOREM ActiveIsCached == Spec => []OnlyActiveCached
<1>1. TypeOK /\ IInv => OnlyActiveCached
  BY DEF IInv, CachedKey, OnlyActiveCached, Live
<1> QED  BY <1>1, Inductive, PTL

LEMMA FreshIsRecent ==
  ASSUME TypeOK, IInv, NEW g \in Gateways, Fresh(tiers[g])
  PROVE  CurrentAt(tierRows, tiers[g].row, clock - TierTTL - MaxDelay)
<1> DEFINE t == tiers[g].until - TierTTL - MaxDelay
           u == clock - TierTTL - MaxDelay
<1>1. tiers[g].row \in 1 .. Len(tierRows) /\ t \in Int /\ u \in Int /\ u <= t
  <2>1. /\ tiers[g].row \in 0 .. Len(tierRows) /\ tiers[g].until \in Nat
        /\ tiers[g].row > 0 /\ clock <= tiers[g].until
    BY Numbers DEF Fresh
  <2>2. tiers[g].row \in 1 .. Len(tierRows)
    BY <2>1
  <2>3. t \in Int /\ u \in Int /\ u <= t
    BY <2>1, Numbers, ExpiryArithmetic
  <2> QED  BY <2>2, <2>3
<1>2. CurrentAt(tierRows, tiers[g].row, t)
  BY <1>1 DEF IInv, CachedTiers
<1> HIDE DEF t, u
<1>3. CurrentAt(tierRows, tiers[g].row, u)
  BY <1>1, <1>2, CurrentEarlier, Numbers
<1> QED  BY <1>3 DEF u

(* A gateway serves a tier set for at most TierTTL + MaxDelay after it was *)
(* replaced, wherever the write came from (customer_tiers_cache.go:20-27). *)
THEOREM TiersAreRecent == Spec => []TierStaleness
<1>1. TypeOK /\ IInv => TierStaleness
  BY FreshIsRecent DEF TierStaleness
<1> QED  BY <1>1, Inductive, PTL

(* A gateway that invalidated for a write holds an older set only because  *)
(* a request had loaded it by then and stored it later                     *)
(* (customer_tiers.go:38-44).                                              *)
THEOREM StaleByRaceOnly == Spec => []StaleOnlyByRace
BY Inductive, PTL DEF IInv

(* No interleaving of reads, stores, sweeps and writes leaves a customer   *)
(* without limits unless the cached row had no default and a tier it names *)
(* was unknown a bounded time ago (resolver.go:41-68).                     *)
THEOREM UnlimitedIsUncovered == Spec => UnlimitedOnlyIfUncovered
<1> DEFINE Uncovered(r) ==
      /\ ~keyRows[keyRow[r]].defaults
      /\ tier[r] => \E v \in DOMAIN tierRows :
           /\ ~tierRows[v].known
           /\ CurrentAt(tierRows, v, clock - TierTTL - MaxDelay)
<1>1. ASSUME TypeOK, IInv, NEW r \in Requests, RequestStep(r), pc'[r] = "unlimited"
      PROVE  Uncovered(r)
  <2> DEFINE Recent(v) == CurrentAt(tierRows, v, clock - TierTTL - MaxDelay)
  <2>1. DOMAIN tierRows = 1 .. Len(tierRows) /\ gateway[r] \in Gateways
    BY <1>1 DEF TypeOK, PostgresType, RequestType
  <2>2. \/ WithoutTier(r) /\ Resolved(r, 0) = "unlimited"
        \/ TierHit(r) /\ Resolved(r, tiers[gateway[r]].row) = "unlimited"
        \/ SetSet(r) /\ Resolved(r, tierRow[r]) = "unlimited"
    BY <1>1 DEF RequestStep, KeyHit, KeyMiss, SelectKey, SelectKeyFails, StoreKey,
       StoreKeyFails, WithoutTier, TierHit, TierMiss, DropExpired, LoadTiers, LoadTiersFails,
       SetSet, End, Goto, Authenticated, TypeOK, RequestType
  <2>3. CASE WithoutTier(r) /\ Resolved(r, 0) = "unlimited"
    BY <2>3 DEF WithoutTier, Resolved
  <2>4. ASSUME NEW v \in DOMAIN tierRows, Resolved(r, v) = "unlimited", Recent(v)
        PROVE  Uncovered(r)
    BY <2>4 DEF Resolved
  <2>5. CASE TierHit(r) /\ Resolved(r, tiers[gateway[r]].row) = "unlimited"
    <3>1. Fresh(tiers[gateway[r]]) /\ tiers[gateway[r]].row \in DOMAIN tierRows
      BY <1>1, <2>1, <2>5, Numbers DEF TierHit, Fresh
    <3> HIDE DEF Uncovered
    <3> QED  BY <2>1, <2>4, <2>5, <3>1, <1>1, FreshIsRecent
  <2>6. CASE SetSet(r) /\ Resolved(r, tierRow[r]) = "unlimited"
    <3>1. pc[r] = "storingTiers"
      BY <2>6 DEF SetSet
    <3>2. tierRow[r] \in 1 .. Len(tierRows) /\ deadline[r] \in clock .. clock + MaxDelay
      BY <1>1, <3>1, Numbers DEF LocalsType, Storing
    <3>3. CurrentAt(tierRows, tierRow[r], deadline[r] - MaxDelay)
      BY <1>1, <3>1 DEF IInv, TierLoads
    <3>4. PICK v, n, t, u : /\ v = tierRow[r] /\ n = Len(tierRows)
                            /\ t = deadline[r] - MaxDelay /\ u = clock - TierTTL - MaxDelay
      OBVIOUS
    <3>5. t \in Int /\ u \in Int /\ u <= t
      <4>1. clock \in Nat /\ MaxDelay \in Nat /\ TierTTL \in Nat
        BY <1>1, Numbers
      <4> QED  BY ONLY <3>2, <3>4, <4>1
    <3>6. n \in Nat /\ v \in 1 .. n /\ \A w \in 1 .. n : tierRows[w].since \in Nat
      <4>1. Len(tierRows) \in Nat /\ \A w \in 1 .. Len(tierRows) : tierRows[w].since \in Nat
        BY <1>1, Numbers
      <4> QED  BY ONLY <3>2, <3>4, <4>1
    <3>7. n = Len(tierRows) /\ CurrentAt(tierRows, v, t)
      BY <3>3, <3>4
    <3>8. CurrentAt(tierRows, v, u)
      BY ONLY <3>5, <3>6, <3>7, CurrentEarlier
    <3>9. Recent(tierRow[r])
      BY <3>4, <3>8
    <3> HIDE DEF Recent, Uncovered
    <3> QED  BY <2>1, <2>4, <2>6, <3>2, <3>9
  <2> QED  BY <2>2, <2>3, <2>5, <2>6
<1>2. ASSUME TypeOK, IInv, [Next]_vars
      PROVE  \A r \in Requests : pc[r] # "unlimited" /\ pc'[r] = "unlimited" => Uncovered(r)
  <2> SUFFICES ASSUME NEW r \in Requests, pc[r] # "unlimited", pc'[r] = "unlimited"
               PROVE  Uncovered(r)
    OBVIOUS
  <2>1. \E q \in Requests : RequestStep(q)
    <3>1. ASSUME NEW active, NEW defaults, WriteKeyRow(active, defaults) PROVE UNCHANGED pc
      BY <3>1 DEF WriteKeyRow
    <3>2. ASSUME NEW known, WriteTierRow(known) PROVE UNCHANGED pc
      BY <3>2 DEF WriteTierRow
    <3>3. ASSUME NEW g \in Gateways, AdminStep(g) PROVE pc'[r] # "unlimited"
      BY <3>2, <3>3 DEF AdminStep, SweepFinds, SweepDrops, UpsertCustomerTier,
         DeleteCustomerTier, Invalidate, Restart
    <3> QED  BY <1>2, <3>1, <3>2, <3>3, Steps DEF WriteElsewhere, Tick, vars
  <2>2. PICK q \in Requests : RequestStep(q)
    BY <2>1
  <2>3. q = r
    BY <1>2, <2>2, RequestFrame
  <2> HIDE DEF Uncovered
  <2> QED  BY <1>1, <1>2, <2>2, <2>3
<1>3. TypeOK /\ IInv /\ [Next]_vars =>
        [\A r \in Requests : pc[r] # "unlimited" /\ pc'[r] = "unlimited" => Uncovered(r)]_vars
  BY <1>2
<1> QED  BY <1>3, Inductive, PTL DEF Spec, UnlimitedOnlyIfUncovered
=============================================================================
