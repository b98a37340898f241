------------------------------ MODULE Gateway ------------------------------
(***************************************************************************)
(* llm-gateway: which provider and model a call for a tier goes to, the    *)
(* retry loop, what each provider puts on the wire, and what /healthz says *)
(* of them.  The callers are those the entry point chat_for_tier is made   *)
(* for; calls share nothing but the agent's data, which users patch while  *)
(* a call is under way, so one call stands for any number.                 *)
(*                                                                         *)
(* Left out: `no target resolved' (from_env gives every tier a default),   *)
(* token counts, temperature.  Models are the pieces of their names.       *)
(***************************************************************************)
EXTENDS AgentData, FiniteSets

CONSTANTS
  Envs,       \* environments a process may be started in
  Requests    \* message lists callers send

Cloud == {"anthropic", "openai", "gemini"}
Providers == Cloud \cup {"ollama", "mock"}
Tiers == {"L0", "L1", "L2", "L3"}

\* An environment variable that is not set reads as Absent.
EnvType == [LLM_MODE : {Absent, "mock", "real"},
            key : [Cloud -> {Absent, " ", "sk"}],
            OLLAMA_BASE_URL : {Absent, "", "url"},
            provider : [{"L2", "L3"} -> Providers \cup {Absent, "acme"}]]

ChatMessage == [role : {"system", "user", "assistant"}, text : STRING]

ASSUME EnvAssumption == Envs \subseteq EnvType
ASSUME MessageAssumption == Requests \subseteq Seq(ChatMessage)

VARIABLES
  env,      \* read once, when the process starts
  call,     \* the call under way or the last one
  health    \* what /healthz last answered

vars == <<dataVars, env, call, health>>

-----------------------------------------------------------------------------
(* Tiers: defaults and policy; an override swaps provider and model only. *)

Mock == env.LLM_MODE = "mock"

Timeout(tier) == [L0 |-> 15, L1 |-> 30, L2 |-> 60, L3 |-> 90][tier]
MaxRetries(tier) == [L0 |-> 2, L1 |-> 2, L2 |-> 2, L3 |-> 1][tier]

Target(tier, provider, model) ==
  [provider |-> provider, model |-> model,
   timeout |-> Timeout(tier), max_retries |-> MaxRetries(tier)]

\* LLM_Lx_MODEL
DefaultModel(tier) == <<tier, "default">>

\* Mutant: LLM_L2_PROVIDER and LLM_L3_PROVIDER are not parsed.
DefaultUnparsed(tier) ==
  Target(tier,
         IF tier \in {"L0", "L1"} THEN "ollama"
         ELSE IF env.provider[tier] # Absent THEN env.provider[tier] ELSE "anthropic",
         DefaultModel(tier))

Default(tier) ==
  Target(tier,
         IF tier \in {"L0", "L1"} THEN "ollama"
         ELSE IF env.provider[tier] \in Providers THEN env.provider[tier] ELSE "anthropic",
         DefaultModel(tier))

\* Mutant: the parser misses a provider the validator knows.
ParseOld(tier, text) ==
  {Target(tier, p, ModelPart(text)) :
     p \in {q \in Providers \ {"gemini"} : ProviderPart(text) = <<q>> /\ ModelPart(text) # <<>>}}

\* The one target a text names, or none.
ParseOverride(tier, text) ==
  {Target(tier, p, ModelPart(text)) :
     p \in {q \in Providers : Colon(text) # 0 /\ ProviderPart(text) = <<q>> /\ ModelPart(text) # <<>>}}

\* Mutant: every tier may be overridden.
OverridableAll(tier) == TRUE

Overridable(tier) == tier # "L0"

Overrides(tier, profile) ==
  IF /\ Overridable(tier) /\ profile # NotObject
     /\ tier \in DOMAIN profile /\ profile[tier] # NotText
  THEN ParseOverride(tier, profile[tier]) ELSE {}

\* Mutant: the mode is asked only when the profile names nothing.
ResolveProfileFirst(tier, profile) ==
  IF Overrides(tier, profile) # {} THEN CHOOSE t \in Overrides(tier, profile) : TRUE
  ELSE IF Mock THEN Target(tier, "mock", DefaultModel(tier)) ELSE Default(tier)

\* What cannot be parsed falls back to the tier's default.
Resolve(tier, profile) ==
  IF Mock THEN Target(tier, "mock", DefaultModel(tier))
  ELSE IF Overrides(tier, profile) # {} THEN CHOOSE t \in Overrides(tier, profile) : TRUE
  ELSE Default(tier)

-----------------------------------------------------------------------------
(* Providers. *)

\* Blank keys are none; OLLAMA_BASE_URL has a default.
IsEnabled(p) ==
  \/ p \in Cloud /\ env.key[p] = "sk"
  \/ p = "ollama" /\ env.OLLAMA_BASE_URL # ""
  \/ p = "mock"

\* The messages of some roles, in their order, as the loops of the providers
\* collect them.
Texts(msgs, roles) ==
  LET taken[n \in 0 .. Len(msgs)] ==
        IF n = 0 THEN <<>>
        ELSE IF msgs[n].role \in roles THEN Append(taken[n - 1], msgs[n]) ELSE taken[n - 1]
  IN  taken[Len(msgs)]

\* Mutant: a second system message replaces the first.
BodyOneSystem(p, msgs) ==
  [provider |-> p,
   system |-> LET sys == Texts(msgs, {"system"})
              IN  IF sys = <<>> THEN <<>> ELSE <<sys[Len(sys)]>>,
   turns |-> Texts(msgs, {"user", "assistant"})]

\* anthropic and gemini take the system texts apart from the turns; gemini
\* calls the assistant the model.
Body(p, msgs) ==
  CASE p = "anthropic" -> [provider |-> p, system |-> Texts(msgs, {"system"}),
                           turns |-> Texts(msgs, {"user", "assistant"})]
    [] p = "gemini" -> [provider |-> p, system |-> Texts(msgs, {"system"}),
                        turns |-> [i \in DOMAIN Texts(msgs, {"user", "assistant"}) |->
                                     LET m == Texts(msgs, {"user", "assistant"})[i]
                                     IN  IF m.role = "user" THEN m ELSE [m EXCEPT !.role = "model"]]]
    [] OTHER -> [provider |-> p, system |-> <<>>, turns |-> msgs]

\* A failure to connect, send or get the head of the answer in time is "http",
\* a bad status "upstream", a body cut short, late or of another shape "parse".
Results == {"ok", "http", "upstream", "parse", "disabled"}

-----------------------------------------------------------------------------
(* Calls. *)

NoCall == [pc |-> "idle"]
NoHealth == [known |-> FALSE, enabled |-> {}]

Ready == call.pc \in {"idle", "answered"}

\* The profile is the caller's copy: what is patched later does not reach it.
ChatForTier(tier, msgs) ==
  /\ Ready
  /\ call' = [pc |-> "trying", kind |-> "chat", tier |-> tier, profile |-> data.profile,
              msgs |-> msgs, target |-> Resolve(tier, data.profile), tries |-> <<>>,
              wire |-> {}]
  /\ UNCHANGED <<dataVars, env, health>>

\* Embeddings go to ollama directly, in either mode, and are not retried.
Embed ==
  /\ Ready
  /\ call' = [pc |-> "trying", kind |-> "embed", tier |-> "L0", profile |-> Empty,
              msgs |-> <<>>, tries |-> <<>>, wire |-> {},
              target |-> [Target("L0", "ollama", DefaultModel("L0")) EXCEPT !.max_retries = 0]]
  /\ UNCHANGED <<dataVars, env, health>>

\* Mutants: one attempt too many; a provider without a key is asked for ever.
EndsLate(result) ==
  /\ call' = [call EXCEPT !.tries = Append(@, result), !.wire = {},
                !.pc = IF result = "ok" \/ Len(call.tries) > call.target.max_retries
                       THEN "answered" ELSE "trying"]
  /\ UNCHANGED <<dataVars, env, health>>

EndsUnlessDisabled(result) ==
  /\ call' = [call EXCEPT !.tries = IF result = "disabled" THEN @ ELSE Append(@, result),
                !.wire = {},
                !.pc = IF \/ result = "ok"
                          \/ result # "disabled" /\ Len(call.tries) = call.target.max_retries
                       THEN "answered" ELSE "trying"]
  /\ UNCHANGED <<dataVars, env, health>>

\* The first success ends the loop, as does the last failure, which is the
\* answer; there is no pause between two attempts.
Ends(result) ==
  /\ call' = [call EXCEPT !.tries = Append(@, result), !.wire = {},
                !.pc = IF result = "ok" \/ Len(call.tries) = call.target.max_retries
                       THEN "answered" ELSE "trying"]
  /\ UNCHANGED <<dataVars, env, health>>

Send ==
  /\ call.pc = "trying" /\ IsEnabled(call.target.provider) /\ call.target.provider # "mock"
  /\ call' = [call EXCEPT !.pc = "waiting", !.wire = {Body(call.target.provider, call.msgs)}]
  /\ UNCHANGED <<dataVars, env, health>>

MockAnswers ==
  /\ call.pc = "trying" /\ call.target.provider = "mock" /\ Ends("ok")

RefusedDisabled ==
  /\ call.pc = "trying" /\ ~ IsEnabled(call.target.provider) /\ Ends("disabled")

Receive(result) == call.pc = "waiting" /\ Ends(result)

CallStep ==
  \/ Send \/ MockAnswers \/ RefusedDisabled
  \/ \E result \in Results \ {"disabled"} : Receive(result)

\* Mutant: a provider is called enabled if its variable is set.
StatusesBySetting == {p \in Cloud : env.key[p] # Absent}

Statuses == {p \in Cloud : IsEnabled(p)}

\* /healthz also probes the database and ollama; what it finds is not kept here.
Healthz ==
  /\ health' = [known |-> TRUE, enabled |-> Statuses]
  /\ UNCHANGED <<dataVars, env, call>>

Patch == PatchAgent /\ UNCHANGED <<env, call, health>>

\* The process ends, calls with it, and starts in whatever environment.
Restart ==
  /\ LoadAgent /\ env' \in Envs
  /\ call' = NoCall /\ health' = NoHealth

Init == DataInit /\ env \in Envs /\ call = NoCall /\ health = NoHealth

Next ==
  \/ \E tier \in Tiers, msgs \in Requests : ChatForTier(tier, msgs)
  \/ Embed \/ CallStep \/ Healthz \/ Patch \/ Restart

\* Every attempt ends: each request carries the tier's timeout.
Spec == Init /\ [][Next]_vars /\ WF_vars(CallStep)

-----------------------------------------------------------------------------
(* What must hold. *)

Called == call.pc # "idle"

TypeOK ==
  /\ source \in {"fixture", "db"} /\ data \in Stored /\ env \in EnvType
  /\ health.known \in BOOLEAN /\ health.enabled \subseteq Cloud
  /\ call.pc \in {"idle", "trying", "waiting", "answered"}
  /\ Called => /\ call.kind \in {"chat", "embed"} /\ call.tier \in Tiers
               /\ call.profile \in Profiles
               /\ call.target.provider \in Providers
               /\ Len(call.tries) <= 3 /\ ToSet(call.tries) \subseteq Results

\* LLM_MODE=mock (lib.rs:35-37: "forces every chat call through the ... mock
\* provider"): no chat leaves the process, whatever profiles and keys say.
MockIsSealed == Mock /\ Called /\ call.kind = "chat" => call.wire = {}

\* L0 is "never overridable" (tier.rs:5-7): it only ever goes to ollama, also for
\* agents whose row was edited by hand.
L0StaysLocal ==
  Called /\ call.tier = "L0" => \A body \in call.wire : body.provider = "ollama"

\* A profile the API accepted means what it says: while the call is on, whatever is
\* patched meanwhile, it goes to the provider named before the first colon; validator
\* and parser agree. The model named after it is what the call is resolved to, and no
\* more: the request does not carry it (lib.rs:164).
CallsGoWhereTold ==
  /\ Called /\ call.kind = "chat" /\ ~ Mock
  /\ ValidProfile(call.profile) /\ call.tier \in DOMAIN call.profile
  =>
      /\ call.profile[call.tier] = <<call.target.provider, ":">> \o call.target.model
      /\ \A body \in call.wire : body.provider = call.target.provider

\* A call makes as many attempts as its tier allows, wherever it was sent, none after
\* a success, and keeps its caller no longer than the tier's timeout for each.
RetriesFollowPolicy ==
  Called /\ call.kind = "chat" =>
    /\ Len(call.tries) * call.target.timeout <= (MaxRetries(call.tier) + 1) * Timeout(call.tier)
    /\ \A i \in DOMAIN call.tries : call.tries[i] = "ok" => i = Len(call.tries)
    /\ call.pc = "answered" =>
         call.tries[Len(call.tries)] = "ok" \/ Len(call.tries) = MaxRetries(call.tier) + 1

\* What /healthz says of a cloud provider is what calls find: one shown enabled never
\* refuses, one shown disabled is never contacted.
HealthIsHonest ==
  Called /\ health.known /\ call.target.provider \in Cloud =>
    IF call.target.provider \in health.enabled
    THEN "disabled" \notin ToSet(call.tries)
    ELSE ToSet(call.tries) \subseteq {"disabled"} /\ call.wire = {}

\* Whichever provider a prompt goes to, every system text and every turn gets there,
\* in order and with its speaker.
NothingSaidIsLost ==
  Called => \A body \in call.wire :
    LET spoken == Texts(body.turns, {"user", "assistant", "model"})
    IN  /\ body.system \o Texts(body.turns, {"system"}) = Texts(call.msgs, {"system"})
        /\ [i \in DOMAIN spoken |-> [spoken[i] EXCEPT !.role = IF @ = "model" THEN "assistant" ELSE @]]
             = Texts(call.msgs, {"user", "assistant"})

\* Whatever providers do, a call is answered.
EveryCallEnds == call.pc \in {"trying", "waiting"} ~> call.pc \in {"idle", "answered"}
=============================================================================
