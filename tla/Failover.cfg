\* Every mode, with and without Ollama, plain and streaming.
CONSTANTS
  Models <- SomeModels
  Modes <- AllModes
  Orders <- SomeOrders
  Errors <- SomeErrors
  maxAttempts = 3
SPECIFICATION Spec
INVARIANTS
  TypeOK ModeRespected EachProviderOnce OneOpenStream TriggersFailOver CheapStaysCheap
CHECK_DEADLOCK FALSE
