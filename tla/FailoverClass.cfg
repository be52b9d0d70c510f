\* A request for gemini-2.5-pro, the default configuration, an upstream error.
CONSTANTS
  Models <- GeminiPro
  Modes = {"cloud_first"}
  Orders <- OnlyDefaultOrder
  Errors <- OneError
  maxAttempts = 3
SPECIFICATION Spec
INVARIANT FlagshipStaysFlagship
CHECK_DEADLOCK FALSE
