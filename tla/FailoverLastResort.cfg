\* A request for gpt-4o-mini, the default configuration with Ollama, an upstream error.
CONSTANTS
  Models <- GptMini
  Modes = {"cloud_first"}
  Orders <- OnlyDefaultOrder
  Errors <- OneError
  maxAttempts = 3
SPECIFICATION Spec
INVARIANT OllamaIsLastResort
CHECK_DEADLOCK FALSE
