\* Two concurrent requests, a midnight, one fault.
CONSTANTS
  r1 = r1  r2 = r2
  Requests <- TwoRequests
  Models = {"big", "small"}
  Labels = {"chat"}
  Specs <- AllSpecs
  Estimates <- SomeEstimates
  Bills <- SomeBills
  Period <- ShortDays
  MaxClock = 1
  MaxFaults = 1
SPECIFICATION Spec
SYMMETRY Interchangeable
INVARIANTS
  TypeOK SpendOvershoot CountOvershoot WindowsAgree RecordedInOrder LedgerFollows
CHECK_DEADLOCK FALSE
