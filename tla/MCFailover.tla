---------------------------- MODULE MCFailover ----------------------------
(* Failover for TLC: model names of every namespace and tier, orders that  *)
(* lack, repeat and misspell providers, errors of every kind.              *)
EXTENDS Failover

Name(prefix, words) == [prefix |-> prefix, words |-> words]

SomeModels ==
  {Name("gpt-", {}), Name("gpt-", {"mini"}), Name("claude-", {"opus"}),
   Name("claude-", {"sonnet"}), Name("gemini-", {"pro"}), Name("gemini-", {"flash"}),
   Name("o3", {"mini"}), Name("llama", {})}
GeminiPro == {Name("gemini-", {"pro"})}
GptMini == {Name("gpt-", {"mini"})}

AllModes == {"cloud_first", "local_first", "local_only", "cloud_only"}

DefaultOrder == <<"openai", "anthropic", "google">>
SomeOrders ==
  {DefaultOrder, <<"google", "mistral">>, <<"anthropic", "anthropic", "openai">>,
   <<"ollama", "google", "anthropic", "openai">>}
OnlyDefaultOrder == {DefaultOrder}

Error(status, shown, words, deadline) ==
  [status |-> status, shown |-> shown, words |-> words, deadline |-> deadline]

SomeErrors ==
  {Error("429", TRUE, {}, FALSE), Error("503", FALSE, {}, FALSE),
   Error("404", TRUE, {}, FALSE), Error("400", TRUE, {}, FALSE),
   Error("400", FALSE, {}, FALSE), Error("400", TRUE, {"invalid"}, FALSE),
   Error("401", TRUE, {"api key"}, FALSE), Error(None, FALSE, {"connection"}, FALSE),
   Error(None, FALSE, {}, TRUE)}
OneError == {Error("503", TRUE, {}, FALSE)}

=============================================================================
