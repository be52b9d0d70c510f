\* Two handlers, clock readings out of order, the bucket expires and refills.
CONSTANTS
  h1 = h1  h2 = h2
  Handlers <- TwoHandlers
  Limit = 3
  Grain = 3
  TTL = 5
  MaxDelay = 1
  MaxSkew = 1
  MaxClock = 6
  MaxFaults = 1
SPECIFICATION Spec
SYMMETRY Interchangeable
INVARIANTS TypeOK WindowBound
PROPERTIES RefusedOnlyWhenSpent KeepsIdeal
