\* Two requests, one write to each table, a stale row that is stored a tick
\* late and lives for its whole TTL.
CONSTANTS
  r1 = r1  r2 = r2  g1 = g1
  Requests <- TwoRequests
  Gateways = {g1}
  Starts <- TierCovers
  KeyTTL = 2
  TierTTL = 1
  MaxDelay = 1
  MaxClock = 3
  MaxWrites = 1
  MaxFaults = 1
SPECIFICATION Spec
SYMMETRY Interchangeable
INVARIANTS TypeOK RevocationBound OnlyActiveCached TierStaleness StaleOnlyByRace
PROPERTY UnlimitedOnlyIfUncovered
CHECK_DEADLOCK FALSE
