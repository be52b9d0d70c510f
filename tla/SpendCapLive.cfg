\* Every handler ends, through lost replies and a Redis restart.
CONSTANTS
  r1 = r1  r2 = r2
  Requests <- TwoRequests
  Estimates = {3}
  Costs = {1, 3}
  Caps = {5}
  LastMonth = 1
  MaxRetries = 1
  MaxFaults = 3
SPECIFICATION Spec
PROPERTY HandlerEnds
CHECK_DEADLOCK FALSE
