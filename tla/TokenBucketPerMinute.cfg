\* Exact clocks and a healthy Redis: a burst, and the same again a second later.
CONSTANTS
  h1 = h1  h2 = h2
  Handlers <- TwoHandlers
  Limit = 3
  Grain = 1
  TTL = 3
  MaxDelay = 0
  MaxSkew = 0
  MaxClock = 3
  MaxFaults = 0
SPECIFICATION Spec
INVARIANT PerMinuteRate
