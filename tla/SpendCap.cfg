\* Two requests; the cap changes, the month turns, Redis loses replies,
\* cannot be reached and restarts, the gateway stops.
CONSTANTS
  r1 = r1  r2 = r2
  Requests <- TwoRequests
  Estimates = {0, 3}
  Costs = {1, 4}
  Caps = {4, 6}
  LastMonth = 2
  MaxRetries = 1
  MaxFaults = 2
SPECIFICATION Spec
SYMMETRY Interchangeable
INVARIANTS
  TypeOK Ledger NoOvercommit ReservedBeforeCall RefusedHoldsNothing
  NegativeOnlyAfterFault NeverOvercharged OvershootBounded SurplusBounded
PROPERTY CapAtIncrease
CHECK_DEADLOCK FALSE
