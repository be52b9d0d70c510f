\* One cap, healthy Redis: the bill exceeds the estimate near the cap.
CONSTANTS
  r1 = r1  r2 = r2
  Requests <- TwoRequests
  Estimates = {2}
  Costs = {4}
  Caps = {5}
  LastMonth = 1
  MaxRetries = 1
  MaxFaults = 0
SPECIFICATION Spec
INVARIANT Reconciled
CHECK_DEADLOCK FALSE
