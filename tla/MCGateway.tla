----------------------------- MODULE MCGateway -----------------------------
(* A few environments, profiles of every shape validation and resolution    *)
(* tell apart, and prompts with no, one and several system texts.           *)
EXTENDS Gateway

MCProfiles ==
  {Empty, NotObject,
   [L1 |-> <<"ollama", ":", "qwen", ":", "7b">>, L2 |-> <<"gemini", ":", "pro">>,
    L3 |-> <<"mock", ":", "m">>],
   [L2 |-> <<"openai", ":", "mini">>],
   [L0 |-> <<"openai", ":", "emb">>, L1 |-> <<"acme", ":", "x">>],
   [L1 |-> <<"anthropic">>, L2 |-> <<"openai", ":">>, L3 |-> NotText]}

Dressed == [body |-> <<"body-01">>, accessory |-> Null]
MCAppearances == {Dressed, [hat |-> <<"hat-01">>], [eyes |-> <<" ">>]}

MCSeed == [profile |-> Empty, appearance |-> Dressed]

Keys(a, o, g) == [anthropic |-> a, openai |-> o, gemini |-> g]

MCEnvs ==
  {[LLM_MODE |-> Absent, key |-> Keys("sk", "sk", "sk"), OLLAMA_BASE_URL |-> Absent,
    provider |-> [L2 |-> Absent, L3 |-> "openai"]],
   [LLM_MODE |-> "real", key |-> Keys("sk", Absent, " "), OLLAMA_BASE_URL |-> "",
    provider |-> [L2 |-> "mock", L3 |-> "acme"]],
   [LLM_MODE |-> "mock", key |-> Keys("sk", "sk", Absent), OLLAMA_BASE_URL |-> "url",
    provider |-> [L2 |-> "gemini", L3 |-> Absent]]}

Msg(role, text) == [role |-> role, text |-> text]

MCRequests ==
  {<<Msg("user", "hello")>>,
   <<Msg("system", "be brief"), Msg("user", "hello"), Msg("system", "in JSON"),
     Msg("assistant", "yes"), Msg("user", "go on")>>}
=============================================================================
