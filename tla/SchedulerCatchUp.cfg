\* The replicas start after the first of the month, whose reset was missed.
CONSTANTS
  g1 = g1  g2 = g2  h1 = h1  h2 = h2  gpt = gpt  claude = claude  None = None
  Gateways <- TwoGateways
  Ahead <- SecondAhead
  Skew = 1
  MaxClock = 4
  MaxFaults = 0
  Period <- ShortPeriods
  Offset <- JobTimes
  Handlers <- TwoHandlers
  Home <- OnTheSecond
  Projects = {"p"}
  Targets <- TwoTargets
  Messages = {"yes"}
  Prompts = {"ok"}
  Prompt <- LastWords
  Similar <- Identical
  SemanticProjects = {"p"}
  TTLs = {1}
  MaxTTL = 1
  Warm = 1
  SemanticTTL = 1
  MaxDelay = 0
  MaxAnswers = 2
SPECIFICATION Spec
INVARIANT CatchesUp
CHECK_DEADLOCK FALSE
