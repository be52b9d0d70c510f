---------------------------- MODULE ConfigCaches ----------------------------
(***************************************************************************)
(* Where a request's limits come from.  Postgres is the truth; between it  *)
(* and a request stand two caches that nobody keeps in step:               *)
(*                                                                         *)
(*   - the key record apikey:<hash> in Redis, shared by all gateways, with *)
(*     the key's and its project's switches and the project's default      *)
(*     limits.  It is never invalidated, only expires;                     *)
(*   - each gateway's own set of the project's tiers, which expires, and   *)
(*     is dropped by a write that goes through the same gateway.           *)
(*                                                                         *)
(* One key of one project, and one tier slug.  A cached value is the       *)
(* number of the row it was read from, so that how stale it is shows.      *)
(***************************************************************************)
EXTENDS Integers, Sequences

CONSTANTS
  Requests, Gateways,
  Starts,      \* what Postgres may hold at first: default limits, the tier
  KeyTTL,      \* CACHE_TTL_SECONDS of the key record; 0 would mean forever
  TierTTL,     \* CUSTOMER_LIMIT_CACHE_TTL_SECONDS of a gateway's tier set
  MaxDelay,    \* from a SELECT to the store of what it returned
  MaxClock,    \* bound on the time that passes
  MaxWrites,   \* bound on the writes to a table
  MaxFaults    \* bound on errors of Redis, Postgres and gateways

ASSUME ConfigAssumption ==
  /\ Starts \subseteq [defaults : BOOLEAN, known : BOOLEAN]
  /\ KeyTTL \in Nat \ {0} /\ TierTTL \in Nat \ {0} /\ MaxDelay \in Nat
  /\ MaxClock \in Nat /\ MaxWrites \in Nat /\ MaxFaults \in Nat

VARIABLES
  clock,
  \* Postgres: the successive contents of what is cached, and when each began
  keyRows,        \* api_keys joined with projects
  tierRows,       \* customer_tiers of the project
  \* caches
  record,         \* the key record in Redis
  tiers,          \* gateway -> its customerTiersCache entry of the project
  sweeping,       \* gateways whose sweepLoop found its entry expired
  writing,        \* gateways with a tier write that is not yet invalidated
  \* local to a request
  pc,
  gateway,
  tier,           \* it carries X-Customer-Tier
  keyRow,         \* the row its CachedAPIKey came from
  tierRow,        \* the row loadProjectTiers returned
  deadline,       \* the latest moment for the store it has ahead
  \* bookkeeping of the model
  seen,           \* gateway -> the newest tier row it has invalidated for
  racing,         \* gateway -> rows that loads had in hand at that moment
  faults

postgres == <<keyRows, tierRows>>
inputs   == <<gateway, tier>>
admin    == <<sweeping, writing, seen, racing>>
vars     == <<clock, postgres, record, tiers, admin, pc, inputs, keyRow,
              tierRow, deadline, faults>>

Empty   == [row |-> 0, until |-> 0]
Entries == [row : Nat, until : Nat]

(* Mutant: expired sets are served until the sweeper comes.                *)
FreshUntilSwept(entry) == entry.row > 0

(* Redis drops a key when its time is up; time.Now().After is strict.      *)
Live(entry)  == entry.row > 0 /\ clock < entry.until
Fresh(entry) == entry.row > 0 /\ clock <= entry.until

Storing  == {"storingKey", "storingTiers"}
Admitted == {"keyed", "dropping", "loading", "storingTiers"}
Limits   == {"tier", "default", "unlimited"}    \* what the resolver returned
Done     == {"refused", "failedOpen", "killed"} \cup Limits

KeyRowType  == [active : BOOLEAN, defaults : BOOLEAN, since : 0 .. MaxClock]
TierRowType == [known : BOOLEAN, since : 0 .. MaxClock]

PostgresType ==
  /\ clock \in 0 .. MaxClock /\ faults \in 0 .. MaxFaults
  /\ keyRows \in Seq(KeyRowType) /\ tierRows \in Seq(TierRowType)
  /\ Len(keyRows) \in 1 .. 1 + MaxWrites /\ Len(tierRows) \in 1 .. 1 + MaxWrites

CacheType ==
  /\ record \in Entries
  /\ record.row <= Len(keyRows) /\ record.until <= clock + KeyTTL
  /\ tiers \in [Gateways -> Entries]
  /\ \A g \in Gateways :
       tiers[g].row <= Len(tierRows) /\ tiers[g].until <= clock + TierTTL

LocalsType(r) ==
  /\ keyRow[r] \in IF pc[r] \in Admitted \cup {"storingKey"} THEN 1 .. Len(keyRows) ELSE {0}
  /\ tierRow[r] \in IF pc[r] = "storingTiers" THEN 1 .. Len(tierRows) ELSE {0}
  /\ deadline[r] \in IF pc[r] \in Storing THEN clock .. clock + MaxDelay ELSE {0}

RequestType ==
  /\ pc \in [Requests -> {"idle", "selecting", "storingKey"} \cup Admitted \cup Done]
  /\ gateway \in [Requests -> Gateways] /\ tier \in [Requests -> BOOLEAN]
  /\ keyRow \in [Requests -> Nat] /\ tierRow \in [Requests -> Nat]
  /\ deadline \in [Requests -> Nat]
  /\ \A r \in Requests : LocalsType(r)

AdminType ==
  /\ sweeping \subseteq Gateways /\ writing \subseteq Gateways
  /\ seen \in [Gateways -> 0 .. Len(tierRows)]
  /\ racing \in [Gateways -> SUBSET (1 .. Len(tierRows))]

TypeOK == PostgresType /\ CacheType /\ RequestType /\ AdminType

Init ==
  /\ clock = 0
  /\ \E start \in Starts :
       /\ keyRows  = << [active |-> TRUE, defaults |-> start.defaults, since |-> 0] >>
       /\ tierRows = << [known |-> start.known, since |-> 0] >>
  /\ record = Empty /\ tiers = [g \in Gateways |-> Empty]
  /\ sweeping = {} /\ writing = {}
  /\ pc = [r \in Requests |-> "idle"]
  /\ gateway \in [Requests -> Gateways] /\ tier \in [Requests -> BOOLEAN]
  /\ keyRow = [r \in Requests |-> 0] /\ tierRow = [r \in Requests |-> 0]
  /\ deadline = [r \in Requests |-> 0]
  /\ seen = [g \in Gateways |-> 0] /\ racing = [g \in Gateways |-> {}]
  /\ faults = 0

Now(rows) == rows[Len(rows)]
Goto(r, label) == pc' = [pc EXCEPT ![r] = label]
NoFault == UNCHANGED faults
Fault   == faults < MaxFaults /\ faults' = faults + 1

(* A handler returns, and its locals are gone.                             *)
End(r, label) ==
  /\ Goto(r, label)
  /\ keyRow' = [keyRow EXCEPT ![r] = 0] /\ tierRow' = [tierRow EXCEPT ![r] = 0]
  /\ deadline' = [deadline EXCEPT ![r] = 0]

-----------------------------------------------------------------------------
(* Authentication: ValidateAPIKey.                                         *)

Authenticated(r, row) ==
  /\ keyRow' = [keyRow EXCEPT ![r] = row]
  /\ deadline' = [deadline EXCEPT ![r] = 0]
  /\ Goto(r, "keyed")

(* Mutant: a hit keeps the record alive for another KeyTTL.                *)
KeyHitSliding(r) ==
  /\ pc[r] = "idle" /\ Live(record)
  /\ keyRows[record.row].active /\ Authenticated(r, record.row)
  /\ record' = [record EXCEPT !.until = clock + KeyTTL]
  /\ UNCHANGED <<clock, postgres, tiers, admin, inputs, tierRow, faults>>

(* A hit is trusted; what it says of the switches is checked again.        *)
KeyHit(r) ==
  /\ pc[r] = "idle" /\ Live(record)
  /\ IF keyRows[record.row].active
       THEN Authenticated(r, record.row) /\ UNCHANGED tierRow
       ELSE End(r, "refused")
  /\ UNCHANGED <<clock, postgres, record, tiers, admin, inputs, faults>>

(* No record, or GET failed: the two are treated alike.                    *)
KeyMiss(r) ==
  /\ pc[r] = "idle"
  /\ IF Live(record) THEN Fault ELSE NoFault
  /\ Goto(r, "selecting")
  /\ UNCHANGED <<clock, postgres, record, tiers, admin, inputs, keyRow, tierRow, deadline>>

(* Mutant: the inactive row is cached, to be refused on a hit.             *)
SelectKeyUnchecked(r) ==
  /\ pc[r] = "selecting"
  /\ keyRow' = [keyRow EXCEPT ![r] = Len(keyRows)]
  /\ deadline' = [deadline EXCEPT ![r] = clock + MaxDelay]
  /\ Goto(r, "storingKey")
  /\ UNCHANGED <<clock, postgres, record, tiers, admin, inputs, tierRow, faults>>

(* Only an active key of an active project gets as far as the cache.       *)
SelectKey(r) ==
  /\ pc[r] = "selecting"
  /\ \/ /\ Now(keyRows).active
        /\ keyRow' = [keyRow EXCEPT ![r] = Len(keyRows)]
        /\ deadline' = [deadline EXCEPT ![r] = clock + MaxDelay]
        /\ Goto(r, "storingKey") /\ UNCHANGED tierRow
     \/ ~Now(keyRows).active /\ End(r, "refused")
  /\ UNCHANGED <<clock, postgres, record, tiers, admin, inputs, faults>>

(* A database error is answered 401, like a wrong key.                     *)
SelectKeyFails(r) ==
  /\ pc[r] = "selecting" /\ Fault
  /\ End(r, "refused")
  /\ UNCHANGED <<clock, postgres, record, tiers, admin, inputs>>

(* Mutant: a SET adds to the time to live that is left.                    *)
StoreKeyAdding(r) ==
  /\ pc[r] = "storingKey"
  /\ record' = [row |-> keyRow[r],
                until |-> (IF Live(record) THEN record.until ELSE clock) + KeyTTL]
  /\ \/ NoFault /\ Authenticated(r, keyRow[r])
     \/ Fault /\ UNCHANGED <<keyRow, deadline, pc>>
  /\ UNCHANGED <<clock, postgres, tiers, admin, inputs, tierRow>>

(* SET replaces whatever record is there, an older or a newer one.  When   *)
(* its reply is lost it is sent again.                                     *)
StoreKey(r) ==
  /\ pc[r] = "storingKey"
  /\ record' = [row |-> keyRow[r], until |-> clock + KeyTTL]
  /\ \/ NoFault /\ Authenticated(r, keyRow[r])
     \/ Fault /\ UNCHANGED <<keyRow, deadline, pc>>
  /\ UNCHANGED <<clock, postgres, tiers, admin, inputs, tierRow>>

StoreKeyFails(r) ==
  /\ pc[r] = "storingKey" /\ Fault
  /\ Authenticated(r, keyRow[r])
  /\ UNCHANGED <<clock, postgres, record, tiers, admin, inputs, tierRow>>

-----------------------------------------------------------------------------
(* The limits of a customer: ResolveCustomerLimit and GetCustomerTier.     *)

(* Mutant: a tier header ends the resolution, known or not.                *)
ResolvedByTierOnly(r, row) ==
  IF tier[r] THEN (IF tierRows[row].known THEN "tier" ELSE "unlimited")
  ELSE IF keyRows[keyRow[r]].defaults THEN "default" ELSE "unlimited"

(* Tier first, then the default on the request's key record, else none.    *)
Resolved(r, row) ==
  IF tier[r] /\ tierRows[row].known THEN "tier"
  ELSE IF keyRows[keyRow[r]].defaults THEN "default" ELSE "unlimited"

WithoutTier(r) ==
  /\ pc[r] = "keyed" /\ ~tier[r]
  /\ End(r, Resolved(r, 0))
  /\ UNCHANGED <<clock, postgres, record, tiers, admin, inputs, faults>>

TierHit(r) ==
  /\ pc[r] = "keyed" /\ tier[r] /\ Fresh(tiers[gateway[r]])
  /\ End(r, Resolved(r, tiers[gateway[r]].row))
  /\ UNCHANGED <<clock, postgres, record, tiers, admin, inputs, faults>>

TierMiss(r) ==
  /\ pc[r] = "keyed" /\ tier[r] /\ ~Fresh(tiers[gateway[r]])
  /\ Goto(r, IF tiers[gateway[r]].row = 0 THEN "loading" ELSE "dropping")
  /\ UNCHANGED <<clock, postgres, record, tiers, admin, inputs, keyRow, tierRow, deadline,
                 faults>>

(* Delete takes whatever is there by then, a fresh set included.           *)
DropExpired(r) ==
  /\ pc[r] = "dropping"
  /\ tiers' = [tiers EXCEPT ![gateway[r]] = Empty]
  /\ Goto(r, "loading")
  /\ UNCHANGED <<clock, postgres, record, admin, inputs, keyRow, tierRow, deadline, faults>>

LoadTiers(r) ==
  /\ pc[r] = "loading"
  /\ tierRow' = [tierRow EXCEPT ![r] = Len(tierRows)]
  /\ deadline' = [deadline EXCEPT ![r] = clock + MaxDelay]
  /\ Goto(r, "storingTiers")
  /\ UNCHANGED <<clock, postgres, record, tiers, admin, inputs, keyRow, faults>>

(* The limiter's error lets the request through without any limit.         *)
LoadTiersFails(r) ==
  /\ pc[r] = "loading" /\ Fault
  /\ End(r, "failedOpen")
  /\ UNCHANGED <<clock, postgres, record, tiers, admin, inputs>>

SetSet(r) ==
  /\ pc[r] = "storingTiers"
  /\ tiers' = [tiers EXCEPT ![gateway[r]] =
       [row |-> tierRow[r], until |-> clock + TierTTL]]
  /\ End(r, Resolved(r, tierRow[r]))
  /\ UNCHANGED <<clock, postgres, record, admin, inputs, faults>>

(* sweepLoop: Range saw the entry expired, Delete comes after.             *)
SweepFinds(g) ==
  /\ g \notin sweeping /\ tiers[g].row > 0 /\ ~Fresh(tiers[g])
  /\ sweeping' = sweeping \cup {g}
  /\ UNCHANGED <<clock, postgres, record, tiers, writing, seen, racing, pc, inputs, keyRow,
                 tierRow, deadline, faults>>

SweepDrops(g) ==
  /\ g \in sweeping
  /\ sweeping' = sweeping \ {g}
  /\ tiers' = [tiers EXCEPT ![g] = Empty]
  /\ UNCHANGED <<clock, postgres, record, writing, seen, racing, pc, inputs, keyRow, tierRow,
                 deadline, faults>>

-----------------------------------------------------------------------------
(* Administration.                                                         *)

(* No cache is touched.                                                    *)
WriteKeyRow(active, defaults) ==
  /\ Len(keyRows) <= MaxWrites
  /\ keyRows' = Append(keyRows, [active |-> active, defaults |-> defaults, since |-> clock])
  /\ UNCHANGED <<clock, tierRows, record, tiers, admin, pc, inputs, keyRow, tierRow, deadline,
                 faults>>

(* UpdateAPIKey and UpdateProject: the switch, or only caps and the like.  *)
UpdateKeyOrProject   == \E active \in BOOLEAN : WriteKeyRow(active, Now(keyRows).defaults)
SetProjectDefaults   == WriteKeyRow(Now(keyRows).active, TRUE)
ClearProjectDefaults == WriteKeyRow(Now(keyRows).active, FALSE)

WriteTierRow(known) ==
  /\ Len(tierRows) <= MaxWrites
  /\ tierRows' = Append(tierRows, [known |-> known, since |-> clock])
  /\ UNCHANGED <<clock, keyRows, record, tiers, sweeping, seen, racing, pc, inputs, keyRow,
                 tierRow, deadline, faults>>

(* Through a gateway: the row is written first, its cache dropped after.   *)
UpsertCustomerTier(g) ==
  /\ g \notin writing /\ writing' = writing \cup {g}
  /\ WriteTierRow(TRUE)

DeleteCustomerTier(g) ==
  /\ g \notin writing /\ writing' = writing \cup {g}
  /\ WriteTierRow(FALSE)

(* A script's psql, or a write that was committed but reported an error.   *)
WriteElsewhere ==
  /\ \E known \in BOOLEAN : WriteTierRow(known)
  /\ UNCHANGED writing

(* Mutant: only a set that has expired is evicted.                         *)
InvalidateExpired(g) ==
  /\ g \in writing /\ writing' = writing \ {g}
  /\ tiers' = IF Fresh(tiers[g]) THEN tiers ELSE [tiers EXCEPT ![g] = Empty]
  /\ seen' = [seen EXCEPT ![g] = Len(tierRows)]
  /\ racing' = [racing EXCEPT ![g] =
       {tierRow[r] : r \in {q \in Requests : gateway[q] = g /\ pc[q] = "storingTiers"}}]
  /\ UNCHANGED <<clock, postgres, record, sweeping, pc, inputs, keyRow, tierRow, deadline,
                 faults>>

Invalidate(g) ==
  /\ g \in writing /\ writing' = writing \ {g}
  /\ tiers' = [tiers EXCEPT ![g] = Empty]
  /\ seen' = [seen EXCEPT ![g] = Len(tierRows)]
  /\ racing' = [racing EXCEPT ![g] =
       {tierRow[r] : r \in {q \in Requests : gateway[q] = g /\ pc[q] = "storingTiers"}}]
  /\ UNCHANGED <<clock, postgres, record, sweeping, pc, inputs, keyRow, tierRow, deadline,
                 faults>>

-----------------------------------------------------------------------------
(* A gateway stops and is started again with an empty cache.               *)
Restart(g) ==
  LET lost == {r \in Requests : gateway[r] = g /\ pc[r] \notin Done \cup {"idle"}}
      Cleared(local) == [r \in Requests |-> IF r \in lost THEN 0 ELSE local[r]]
  IN  /\ Fault
      /\ tiers' = [tiers EXCEPT ![g] = Empty]
      /\ sweeping' = sweeping \ {g} /\ writing' = writing \ {g}
      /\ pc' = [r \in Requests |-> IF r \in lost THEN "killed" ELSE pc[r]]
      /\ keyRow' = Cleared(keyRow) /\ tierRow' = Cleared(tierRow)
      /\ deadline' = Cleared(deadline)
      /\ UNCHANGED <<clock, postgres, record, seen, racing, inputs>>

(* A store follows its SELECT within MaxDelay.                             *)
Tick ==
  /\ clock < MaxClock
  /\ \A r \in Requests : pc[r] \in Storing => clock < deadline[r]
  /\ clock' = clock + 1
  /\ UNCHANGED <<postgres, record, tiers, admin, pc, inputs, keyRow, tierRow, deadline,
                 faults>>

Next ==
  \/ \E r \in Requests :
       \/ KeyHit(r) \/ KeyMiss(r) \/ SelectKey(r) \/ SelectKeyFails(r)
       \/ StoreKey(r) \/ StoreKeyFails(r)
       \/ WithoutTier(r) \/ TierHit(r) \/ TierMiss(r) \/ DropExpired(r)
       \/ LoadTiers(r) \/ LoadTiersFails(r) \/ SetSet(r)
  \/ UpdateKeyOrProject \/ SetProjectDefaults \/ ClearProjectDefaults \/ WriteElsewhere
  \/ \E g \in Gateways :
       \/ SweepFinds(g) \/ SweepDrops(g)
       \/ UpsertCustomerTier(g) \/ DeleteCustomerTier(g) \/ Invalidate(g)
       \/ Restart(g)
  \/ Tick

Spec == Init /\ [][Next]_vars

-----------------------------------------------------------------------------
(* Row v of rows was still the current one at time t, or later.            *)
CurrentAt(rows, v, t) == v = Len(rows) \/ t <= rows[v + 1].since

(* What a lookup of the key is answered from the cache (switches, caps,    *)
(* default limits) was current less than KeyTTL + MaxDelay ago, however    *)
(* stores race and are resent: a revoked key is refused, and a lowered cap *)
(* counts, at the latest then (validator.go:38-65).                        *)
RevocationBound ==
  Live(record) => CurrentAt(keyRows, record.row, clock - KeyTTL - MaxDelay + 1)

(* An inactive key is never cached, so reactivating it works at once,      *)
(* although deactivating does not (validator.go:142-148).                  *)
OnlyActiveCached == Live(record) => keyRows[record.row].active

(* A tier set is served for at most TierTTL + MaxDelay after it was        *)
(* replaced in Postgres, on every gateway (customer_tiers_cache.go:20-27). *)
TierStaleness ==
  \A g \in Gateways : Fresh(tiers[g]) =>
    CurrentAt(tierRows, tiers[g].row, clock - TierTTL - MaxDelay)

(* A gateway that has invalidated for a write keeps an older set only if a *)
(* lookup had loaded it before that moment and stored it afterwards: that  *)
(* race is the one exception to "visible immediately on this instance"     *)
(* (customer_tiers.go:38-44, 101-102).                                     *)
StaleOnlyByRace ==
  \A g \in Gateways : tiers[g].row \in 1 .. seen[g] - 1 => tiers[g].row \in racing[g]

(* A customer goes unlimited, errors aside, only if the row its key was     *)
(* authenticated with had no default limits and a tier it names was        *)
(* unknown at some moment in the last TierTTL + MaxDelay.  The row and     *)
(* that moment may be far apart: Postgres may have covered the customer    *)
(* all along (resolver.go:41-68).                                          *)
UnlimitedOnlyIfUncovered ==
  [][\A r \in Requests : pc[r] # "unlimited" /\ pc'[r] = "unlimited" =>
       /\ ~keyRows[keyRow[r]].defaults
       /\ tier[r] => \E v \in DOMAIN tierRows :
            /\ ~tierRows[v].known
            /\ CurrentAt(tierRows, v, clock - TierTTL - MaxDelay)]_vars
=============================================================================
