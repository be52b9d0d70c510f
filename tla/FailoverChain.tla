--------------------------- MODULE FailoverChain ---------------------------
(***************************************************************************)
(* How a request's failover chain is derived from the model's name and the *)
(* configuration, and which errors of an attempt move on to the next step. *)
(*                                                                         *)
(* A model name is the namespace prefix it begins with and the set of      *)
(* marker words that occur in the rest of it; an error is the status it    *)
(* reports, whether its text has the form "status <code>", the other       *)
(* phrases in its text, and whether the attempt's 60 s had passed.         *)
(***************************************************************************)
EXTENDS Integers, Sequences

Clouds == {"openai", "anthropic", "google"}
None == "none"

-----------------------------------------------------------------------------
(* Models.                                                                 *)

(* The prefixes OpenAI's ValidateModel claims beyond "gpt-".               *)
OtherOpenAI == {"chatgpt-", "o1", "o3", "o4"}

(* strings.Contains looks at the whole name, and "gemini" contains "mini". *)
Contained(model) == model.words \cup (IF model.prefix = "gemini-" THEN {"mini"} ELSE {})

classifyTier(model) ==
  IF Contained(model) \cap {"nano", "mini", "haiku", "lite", "3.5"} # {} THEN "budget"
  ELSE IF Contained(model) \cap {"flash", "sonnet"} # {} THEN "balanced"
  ELSE "flagship"

(* Mutant: only the cheapest of the three tiers is cheap.                  *)
cloudClassBudgetOnly(tier) == IF tier = "budget" THEN "cheap" ELSE "flagship"

cloudClass(tier) == IF tier = "flagship" THEN "flagship" ELSE "cheap"

(* The executor's and the chain builder's idea of a model's provider.      *)
detectProviderForModel(model) ==
  CASE model.prefix = "gpt-"    -> "openai"
    [] model.prefix = "claude-" -> "anthropic"
    [] model.prefix = "gemini-" -> "google"
    [] OTHER -> None

(* The handler's idea of it, which is wider and knows the mode.            *)
detectProvider(model, config) ==
  CASE config.mode # "local_only" /\ model.prefix \in OtherOpenAI -> "openai"
    [] config.mode # "local_only" /\ detectProviderForModel(model) # None
         -> detectProviderForModel(model)
    [] OTHER -> IF config.ollama THEN "ollama" ELSE None

-----------------------------------------------------------------------------
(* Chains.  A step's model is the requested one, a provider's configured   *)
(* model of a cost class, or the local model of a tier.                    *)

Step(provider, model) == [provider |-> provider, model |-> model]

(* The loop over the configured order keeps the providers of S.            *)
Listed(order, S) ==
  LET kept[i \in 0 .. Len(order)] ==
        IF i = 0 THEN <<>>
        ELSE IF order[i] \in S THEN Append(kept[i - 1], order[i])
        ELSE kept[i - 1]
  IN  kept[Len(order)]

(* Mutant: the origin is not left out of its own fallbacks.                *)
buildCloudChainWithOrigin(model, config) ==
  LET origin == detectProviderForModel(model)
      others == Listed(config.order, Clouds)
  IN  IF origin = None THEN <<>>
      ELSE <<Step(origin, "requested")>>
             \o [k \in DOMAIN others |-> Step(others[k], cloudClass(classifyTier(model)))]

(* The empty chain stands for nil.  Names in the order that are no cloud   *)
(* provider have no default model and are left out.                        *)
buildCloudChain(model, config) ==
  LET origin == detectProviderForModel(model)
      others == Listed(config.order, Clouds \ {origin})
  IN  IF origin = None THEN <<>>
      ELSE <<Step(origin, "requested")>>
             \o [k \in DOMAIN others |-> Step(others[k], cloudClass(classifyTier(model)))]

ollamaStepForModel(model, config) ==
  IF config.ollama THEN <<Step("ollama", classifyTier(model))>> ELSE <<>>

(* Mutant: cloud_only is not told from cloud_first.                        *)
GetFailoverChainThreeModes(model, config) ==
  LET cloud == buildCloudChain(model, config)
      local == ollamaStepForModel(model, config)
  IN  CASE config.mode = "local_only"  -> local
        [] config.mode = "local_first" -> local \o cloud
        [] OTHER -> cloud \o local

(* A nil local step or a nil cloud chain leaves the other one.             *)
GetFailoverChain(model, config) ==
  LET cloud == buildCloudChain(model, config)
      local == ollamaStepForModel(model, config)
  IN  CASE config.mode = "local_only"  -> local
        [] config.mode = "cloud_only"  -> cloud
        [] config.mode = "local_first" -> local \o cloud
        [] OTHER -> cloud \o local

-----------------------------------------------------------------------------
(* Errors.                                                                 *)

Mentioned(error) == error.words \cup {error.status}

classifyError(error) ==
  LET mentions(phrases) == Mentioned(error) \cap phrases # {}
  IN  IF error.deadline THEN "timeout"
      ELSE IF mentions({"429", "rate limit"}) THEN "rate_limit"
      ELSE IF mentions({"401", "403", "api key", "500", "502", "503", "504",
                        "server error"}) THEN "server_error"
      ELSE IF mentions({"connection", "network", "timeout"}) THEN "connection_error"
      ELSE "unknown_error"

extractStatusCode(error) ==
  IF error.shown /\ error.status \in {"429", "500", "502", "503", "504",
                                      "400", "401", "403", "404"}
    THEN error.status ELSE None

(* Mutant: a model that a provider does not know ends the chain.           *)
isRetriableErrorNot404(error) ==
  \/ classifyError(error) # "unknown_error"
  \/ extractStatusCode(error) = "400" /\ Mentioned(error) \cap {"api key", "invalid"} # {}
  \/ extractStatusCode(error) \notin {"400", "404"}

(* Of the errors classifyError does not recognise, only a 400 that does    *)
(* not speak of keys or of something invalid ends the chain.               *)
isRetriableError(error) ==
  \/ classifyError(error) # "unknown_error"
  \/ extractStatusCode(error) = "400" /\ Mentioned(error) \cap {"api key", "invalid"} # {}
  \/ extractStatusCode(error) # "400"

=============================================================================
