------------------------------ MODULE Failover ------------------------------
(***************************************************************************)
(* One chat request on its way through the failover executor: Execute for  *)
(* a plain request, ExecuteStream and the relay loop for a streaming one.  *)
(* Requests share nothing here, so one request is all there is; every      *)
(* configuration and every model is an initial state.                      *)
(***************************************************************************)
EXTENDS FailoverChain, FiniteSets

CONSTANTS
  Models,      \* the names a request may ask for
  Modes,       \* values of FAILOVER_MODE
  Orders,      \* values of FAILOVER_PROVIDER_ORDER
  Errors,      \* what an attempt may fail with
  maxAttempts  \* steps of a chain that are tried

ASSUME AttemptsAssumption == maxAttempts \in Nat \ {0}
ASSUME OrdersAssumption == \A order \in Orders : order \in Seq(STRING)

VARIABLES
  config,    \* mode, order, whether Ollama is configured
  request,   \* the model, whether it streams
  pc,
  steps,     \* the chain, cut to maxAttempts
  attempts,  \* the steps tried so far, each with its outcome
  open,      \* positions in steps whose provider stream is open
  cancelled, \* the client has gone: the request context is done
  result     \* FinalProvider, FinalModel and Success, once there are

vars == <<config, request, pc, steps, attempts, open, cancelled, result>>

Answered == [status |-> "200"]
Cancelled == [status |-> None, shown |-> FALSE, words |-> {}, deadline |-> FALSE]
NoResult == [success |-> FALSE, final |-> Step(None, None)]

Position == Len(attempts) + 1
Current == steps[Position]
Ended == pc \in {"rejected", "failed", "done"}

TypeOK ==
  /\ config \in [mode : Modes, order : Orders, ollama : BOOLEAN]
  /\ request \in [model : Models, stream : BOOLEAN]
  /\ pc \in {"new", "trying", "priming", "relaying", "rejected", "failed", "done"}
  /\ Len(steps) <= maxAttempts /\ Len(attempts) <= Len(steps)
  /\ pc \in {"trying", "priming"} => Position <= Len(steps)
  /\ open \subseteq DOMAIN steps
  /\ cancelled \in BOOLEAN

Init ==
  /\ config \in [mode : Modes, order : Orders, ollama : BOOLEAN]
  /\ request \in [model : Models, stream : BOOLEAN]
  /\ pc = "new"
  /\ steps = <<>> /\ attempts = <<>> /\ open = {}
  /\ cancelled = FALSE
  /\ result = NoResult

-----------------------------------------------------------------------------
(* No provider claims the model: 400.                                      *)
Reject ==
  /\ pc = "new" /\ detectProvider(request.model, config) = None
  /\ pc' = "rejected"
  /\ UNCHANGED <<config, request, steps, attempts, open, cancelled, result>>

(* Mutant: one step more than maxAttempts.                                 *)
StepsForOneMore(model) ==
  LET chain == GetFailoverChain(model, config)
  IN  SubSeq(chain, 1, IF Len(chain) <= maxAttempts THEN Len(chain) ELSE maxAttempts + 1)

(* Without a chain the requested model alone is tried, if its provider is  *)
(* known to the executor.                                                  *)
StepsFor(model) ==
  LET chain  == GetFailoverChain(model, config)
      origin == detectProviderForModel(model)
      all    == IF chain # <<>> THEN chain
                ELSE IF origin # None THEN <<Step(origin, "requested")>> ELSE <<>>
  IN  SubSeq(all, 1, IF Len(all) < maxAttempts THEN Len(all) ELSE maxAttempts)

Begin ==
  /\ pc = "new" /\ detectProvider(request.model, config) # None
  /\ steps' = StepsFor(request.model)
  /\ pc' = IF steps' = <<>> THEN "failed" ELSE "trying"
  /\ UNCHANGED <<config, request, attempts, open, cancelled, result>>

Record(outcome) == attempts' = Append(attempts, [step |-> Current, outcome |-> outcome])

(* What an attempt may fail with: once the client is gone, usually that.   *)
Failures == Errors \cup (IF cancelled THEN {Cancelled} ELSE {})

(* Log the attempt; stop at an error that is not retriable and after the   *)
(* last step.                                                              *)
Fail(error) ==
  /\ Record(error)
  /\ pc' = IF isRetriableError(error) /\ Position < Len(steps) THEN "trying" ELSE "failed"
  /\ result' = IF pc' = "failed" THEN [success |-> FALSE, final |-> Current] ELSE result

Win(label) ==
  /\ Record(Answered)
  /\ pc' = label
  /\ result' = [success |-> TRUE, final |-> Current]

(* attemptRequest: 60 s, then the next provider.                           *)
AttemptRequest ==
  /\ pc = "trying" /\ ~request.stream
  /\ Win("done") \/ \E error \in Failures : Fail(error)
  /\ UNCHANGED <<config, request, steps, open, cancelled>>

(* attemptStream opens the stream; its context has no deadline.            *)
OpenStream ==
  /\ pc = "trying" /\ request.stream
  /\ \/ /\ pc' = "priming"
        /\ open' = open \cup {Position}
        /\ UNCHANGED <<attempts, result>>
     \/ /\ \E error \in Failures : ~error.deadline /\ Fail(error)
        /\ UNCHANGED open
  /\ UNCHANGED <<config, request, steps, cancelled>>

(* Mutant: a stream that fails on its first Recv is left open.             *)
PrimeStreamLeaking ==
  /\ pc = "priming"
  /\ Win("relaying") \/ \E error \in Failures : ~error.deadline /\ Fail(error)
  /\ UNCHANGED <<config, request, steps, open, cancelled>>

(* The first Recv yields a chunk, or the stream is closed again.           *)
PrimeStream ==
  /\ pc = "priming"
  /\ \/ Win("relaying") /\ UNCHANGED open
     \/ /\ \E error \in Failures : ~error.deadline /\ Fail(error)
        /\ open' = open \ {Position}
  /\ UNCHANGED <<config, request, steps, cancelled>>

(* EOF, an error in mid-stream or a client that went away: the relay loop  *)
(* returns and the deferred Close runs.                                    *)
EndRelay ==
  /\ pc = "relaying"
  /\ pc' = "done"
  /\ open' = open \ {Len(attempts)}
  /\ UNCHANGED <<config, request, steps, attempts, cancelled, result>>

ClientLeaves ==
  /\ ~cancelled /\ ~Ended
  /\ cancelled' = TRUE
  /\ UNCHANGED <<config, request, pc, steps, attempts, open, result>>

Next == Reject \/ Begin \/ AttemptRequest \/ OpenStream \/ PrimeStream \/ EndRelay
          \/ ClientLeaves

Spec == Init /\ [][Next]_vars

-----------------------------------------------------------------------------
Tried == {attempts[k].step.provider : k \in DOMAIN attempts}
Fallbacks == {attempts[k].step : k \in DOMAIN attempts \ {1}}

(* README.md:140-141: local_only never contacts a cloud API, cloud_only    *)
(* never uses local models, whatever else is configured and whatever the   *)
(* model is called (chains.go:251-273, executor.go:68-80).                 *)
ModeRespected ==
  /\ config.mode = "local_only" => Tried \subseteq {"ollama"}
  /\ config.mode = "cloud_only" => "ollama" \notin Tried

AttemptsAt(provider) == {k \in DOMAIN attempts : attempts[k].step.provider = provider}
PlacesOf(provider) == {i \in DOMAIN config.order : config.order[i] = provider}

(* The origin is never its own fallback and Ollama is asked once, whatever *)
(* names the configured order repeats or misspells; another cloud provider *)
(* is asked at most as often as the order names it (chains.go:164-178).    *)
EachProviderOnce ==
  \A provider \in Tried :
    Cardinality(AttemptsAt(provider)) <=
      IF provider \in Clouds \ {detectProviderForModel(request.model)}
        THEN Cardinality(PlacesOf(provider)) ELSE 1

(* At most one provider stream is open; while bytes flow it is the one     *)
(* that answered, and whatever way the request ends none is left open      *)
(* (executor.go:372, chat_stream.go:303).                                  *)
OneOpenStream ==
  /\ Cardinality(open) <= 1
  /\ pc = "relaying" => open = {Len(attempts)} /\ result.final = steps[Len(attempts)]
  /\ Ended => open = {}

(* The list of README.md:961.                                              *)
DocumentedTrigger(error) ==
  \/ error.deadline
  \/ error.status \in {"429", "500", "502", "503", "504", "401", "403", "404"}
  \/ "connection" \in error.words

(* A request gives up early only on an error that is not a documented      *)
(* failover trigger, however the provider words it (executor.go:393-496).  *)
TriggersFailOver ==
  pc = "failed" /\ Len(attempts) < Len(steps) =>
    ~DocumentedTrigger(attempts[Len(attempts)].outcome)

(* README.md:935-946: a request for a model the documentation calls cheap  *)
(* never fails over to a cloud provider's flagship (chains.go:56-61).      *)
CheapStaysCheap ==
  request.model.words \cap {"mini", "nano", "haiku", "flash", "lite", "3.5", "sonnet"} # {} =>
    \A step \in Fallbacks : step.provider \in Clouds => step.model # "flagship"

(* README.md:946: opus and pro models map to the flagship class, so a      *)
(* request for one fails over to flagship models.                          *)
FlagshipStaysFlagship ==
  request.model.words \cap {"opus", "pro"} # {} =>
    \A step \in Fallbacks : step.provider \in Clouds => step.model # "cheap"

(* README.md:138 and 954: in cloud_first mode Ollama is the last resort,   *)
(* after every cloud provider of the chain has failed.                     *)
OllamaIsLastResort ==
  /\ config.mode = "cloud_first" /\ config.ollama /\ pc = "failed" /\ ~cancelled
  /\ \A k \in DOMAIN attempts : DocumentedTrigger(attempts[k].outcome)
  => "ollama" \in Tried

=============================================================================
