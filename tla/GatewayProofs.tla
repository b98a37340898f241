--------------------------- MODULE GatewayProofs ---------------------------
(***************************************************************************)
(* Theorems about AgentData and Gateway, for any profiles, appearances,    *)
(* prompts and environments, any patches and restarts between and during   *)
(* calls, and anything providers answer.                                   *)
(***************************************************************************)
EXTENDS Gateway, TLAPS, WellFoundedInduction

-----------------------------------------------------------------------------
(* The agent's data. *)

DataOK == source \in {"fixture", "db"} /\ data \in Stored

\* The empty object, to which an invalid profile is cleared, is valid itself.
LEMMA EmptyIsValid == ValidProfile(Empty)
BY DataAssumption DEF ValidProfile, Empty

\* A patch puts in what it carries and leaves the rest.
LEMMA PatchedData ==
  ASSUME NEW d \in Stored, NEW p \in {Absent, Null} \cup Profiles,
         NEW a \in {Absent, Null} \cup Appearances
  PROVE  /\ Patched(d, p, a) \in Stored
         /\ Patched(d, p, a).profile = IF p \in Profiles THEN p ELSE d.profile
         /\ Patched(d, p, a).appearance = IF a = Absent THEN d.appearance ELSE a
BY DataAssumption DEF Patched, Stored

\* The load keeps what is valid and clears what is not, whatever the seed had.
LEMMA LoadedData ==
  ASSUME NEW d \in Stored
  PROVE  /\ Loaded(d) \in Stored
         /\ Loaded(d).profile = IF ValidProfile(d.profile) THEN d.profile ELSE Empty
         /\ Loaded(d).appearance =
              IF d.appearance # Null /\ ValidAppearance(d.appearance) THEN d.appearance ELSE Null
<1>1. Seed \in Stored
  BY DataAssumption DEF Stored
<1>2. d.profile \in Profiles /\ Empty \in Profiles /\ d.appearance \in Appearances \cup {Null}
  BY DataAssumption DEF Stored
<1>3. Absent \notin Appearances \cup {Null}
  BY DataAssumption
<1> QED
  BY <1>1, <1>2, <1>3, PatchedData DEF Loaded

DataStep == PatchAgent \/ LoadAgent \/ UNCHANGED dataVars

\* Requests and loads, however they follow each other, let nothing in that the
\* API would refuse.
LEMMA StepServesValid ==
  ASSUME DataOK, OnlyValidServed, DataStep
  PROVE  DataOK' /\ OnlyValidServed'
<1>1. CASE PatchAgent
  <2>1. PICK p \in {Absent, Null} \cup {v \in Profiles : ValidProfile(v)},
             a \in {Absent, Null} \cup {v \in Appearances : ValidAppearance(v)} :
               data' = Patched(data, p, a)
    BY <1>1 DEF PatchAgent
  <2>2. /\ data' \in Stored
        /\ data'.profile = IF p \in Profiles THEN p ELSE data.profile
        /\ data'.appearance = IF a = Absent THEN data.appearance ELSE a
    <3>1. p \in {Absent, Null} \cup Profiles /\ a \in {Absent, Null} \cup Appearances
      OBVIOUS
    <3>2. data \in Stored
      BY DEF DataOK
    <3> HIDE DEF Stored
    <3> QED
      BY <2>1, <3>1, <3>2, PatchedData
  <2>3. p \in Profiles => ValidProfile(p)
    BY DataAssumption
  <2>4. a \notin {Absent, Null} => ValidAppearance(a)
    OBVIOUS
  <2>5. source' = source
    BY <1>1 DEF PatchAgent
  <2> QED
    BY <2>2, <2>3, <2>4, <2>5 DEF DataOK, OnlyValidServed
<1>2. CASE LoadAgent
  <2>1. source' = source
    BY <1>2 DEF LoadAgent
  <2>2. CASE source = "db"
    BY <1>2, <2>1, <2>2 DEF LoadAgent, DataOK, OnlyValidServed
  <2>3. CASE source # "db" /\ data' = Seed
    <3>1. Seed \in Stored
      BY DataAssumption DEF Stored
    <3> QED
      BY <2>1, <2>3, <3>1, FixtureAssumption DEF DataOK, OnlyValidServed
  <2>4. ASSUME NEW d \in Stored, data' = Loaded(d)
        PROVE  DataOK' /\ OnlyValidServed'
    BY <2>1, <2>4, LoadedData, EmptyIsValid DEF DataOK, OnlyValidServed
  <2> QED
    BY <1>2, <2>2, <2>3, <2>4 DEF LoadAgent
<1>3. CASE UNCHANGED dataVars
  BY <1>3 DEF dataVars, DataOK, OnlyValidServed
<1> QED
  BY <1>1, <1>2, <1>3 DEF DataStep

\* Every step of the gateway patches the data, loads it or leaves it alone.
LEMMA StepIsDataStep ==
  ASSUME [Next]_vars
  PROVE  DataStep
BY DEF Next, vars, ChatForTier, Embed, CallStep, Send, MockAnswers, RefusedDisabled, Receive, Ends,
       Healthz, Patch, Restart, DataStep

LEMMA InitServesValid == DataInit => DataOK /\ OnlyValidServed
BY DataAssumption, FixtureAssumption DEF DataInit, DataOK, OnlyValidServed, Stored

THEOREM DataInv == Spec => [](DataOK /\ OnlyValidServed)
<1>1. Init => DataOK /\ OnlyValidServed
  BY InitServesValid DEF Init
<1>2. DataOK /\ OnlyValidServed /\ [Next]_vars => DataOK' /\ OnlyValidServed'
  BY StepServesValid, StepIsDataStep
<1> QED
  BY <1>1, <1>2, PTL DEF Spec

\* Whoever edited the save file and whatever was patched, a fixture world serves
\* only profiles and appearances that the API would accept.
THEOREM ServedIsValid == Spec => []OnlyValidServed
BY DataInv, PTL

\* What a fixture world serves comes back unchanged from its own save.
THEOREM SavesRoundTrip == Spec => []SavedDataReturns
<1>1. DataOK /\ OnlyValidServed => SavedDataReturns
  <2> SUFFICES ASSUME DataOK, OnlyValidServed, source = "fixture" PROVE Loaded(data) = data
    BY DEF SavedDataReturns
  <2>1. Loaded(data) \in Stored /\ data \in Stored
    BY LoadedData DEF DataOK
  <2>2. Loaded(data).profile = data.profile /\ Loaded(data).appearance = data.appearance
    BY LoadedData DEF DataOK, OnlyValidServed
  <2> QED
    BY <2>1, <2>2 DEF Stored
<1> QED
  BY <1>1, DataInv, PTL

-----------------------------------------------------------------------------
(* Where a call goes. *)

Models ==
  {DefaultModel(tier) : tier \in Tiers} \cup {ModelPart(v[k]) : v \in Profiles, k \in Tiers}

Targets == [provider : Providers, model : Models, timeout : Nat, max_retries : Nat]

\* The policy of every tier is a number of seconds and of repetitions.
LEMMA PolicyType ==
  ASSUME NEW tier \in Tiers
  PROVE  /\ Timeout(tier) \in {15, 30, 60, 90} /\ MaxRetries(tier) \in {1, 2}
         /\ Timeout(tier) \in Nat /\ MaxRetries(tier) \in Nat
BY DEF Tiers, Timeout, MaxRetries

\* A target is what it was made of, under the policy of its tier.
LEMMA TargetType ==
  ASSUME NEW tier \in Tiers, NEW provider \in Providers, NEW model \in Models
  PROVE  /\ Target(tier, provider, model) \in Targets
         /\ Target(tier, provider, model).provider = provider
         /\ Target(tier, provider, model).model = model
         /\ Target(tier, provider, model).timeout = Timeout(tier)
         /\ Target(tier, provider, model).max_retries = MaxRetries(tier)
BY PolicyType DEF Target, Targets

\* An override names a known provider and swaps nothing but provider and model.
LEMMA OverrideType ==
  ASSUME NEW tier \in Tiers, NEW profile \in Profiles, NEW t \in Overrides(tier, profile)
  PROVE  /\ tier # "L0" /\ profile # NotObject /\ tier \in DOMAIN profile /\ profile[tier] # NotText
         /\ Colon(profile[tier]) # 0
         /\ \E p \in Providers : /\ ProviderPart(profile[tier]) = <<p>>
                                 /\ t = Target(tier, p, ModelPart(profile[tier]))
BY DEF Overrides, Overridable, ParseOverride

\* The default target of a tier is well typed, whatever the environment says;
\* that of L0 is local.
LEMMA DefaultType ==
  ASSUME NEW tier \in Tiers
  PROVE  \E p \in Providers : /\ Default(tier) = Target(tier, p, DefaultModel(tier))
                              /\ tier = "L0" => p = "ollama"
BY DEF Default, Providers, Cloud

\* What a call for a tier resolves to: one target, under the policy of the tier
\* whatever the profile says, the mock in mock mode, and nothing remote for L0.
LEMMA ResolveType ==
  ASSUME NEW tier \in Tiers, NEW profile \in Profiles
  PROVE  /\ Resolve(tier, profile) \in Targets
         /\ Resolve(tier, profile).timeout = Timeout(tier)
         /\ Resolve(tier, profile).max_retries = MaxRetries(tier)
         /\ Mock => Resolve(tier, profile).provider = "mock"
         /\ tier = "L0" => Resolve(tier, profile).provider \in {"ollama", "mock"}
<1>1. DefaultModel(tier) \in Models /\ ModelPart(profile[tier]) \in Models
  BY DEF Models
<1>2. \E p \in Providers : \E m \in Models :
        /\ Resolve(tier, profile) = Target(tier, p, m)
        /\ Mock => p = "mock"
        /\ tier = "L0" => p \in {"ollama", "mock"}
  <2>1. CASE Mock
    BY <1>1, <2>1 DEF Resolve, Providers
  <2>2. CASE ~ Mock /\ Overrides(tier, profile) # {}
    <3> DEFINE t == CHOOSE t \in Overrides(tier, profile) : TRUE
    <3>1. t \in Overrides(tier, profile) /\ Resolve(tier, profile) = t
      BY <2>2 DEF Resolve
    <3> HIDE DEF t
    <3> QED
      BY <1>1, <2>2, <3>1, OverrideType
  <2>3. CASE ~ Mock /\ Overrides(tier, profile) = {}
    BY <1>1, <2>3, DefaultType DEF Resolve
  <2> QED
    BY <2>1, <2>2, <2>3
<1> QED
  BY <1>2, TargetType

-----------------------------------------------------------------------------
(* A call, from its target to its answer. *)

EmbedTarget == [Target("L0", "ollama", DefaultModel("L0")) EXCEPT !.max_retries = 0]

Prompts == Requests \cup {<<>>}

Bodies == {Body(p, m) : p \in Providers, m \in Prompts}

Calls ==
  [pc : {"trying", "waiting", "answered"}, kind : {"chat", "embed"}, tier : Tiers,
   profile : Profiles, msgs : Prompts, target : Targets, tries : Seq(Results),
   wire : SUBSET Bodies]

\* Where the call goes was settled when it began.
Aimed(c) ==
  \/ c.kind = "chat" /\ c.target = Resolve(c.tier, c.profile)
  \/ c.kind = "embed" /\ c.tier = "L0" /\ c.target = EmbedTarget

\* While it waits, one request is out, to an enabled provider; otherwise none is.
OnTheWire(c) ==
  IF c.pc = "waiting"
  THEN /\ c.wire = {Body(c.target.provider, c.msgs)}
       /\ IsEnabled(c.target.provider) /\ c.target.provider # "mock"
  ELSE c.wire = {}

\* Every failed attempt leaves one fewer; what answers is the first success or the
\* last failure.
Counted(c) ==
  /\ Len(c.tries) <= c.target.max_retries + 1
  /\ \A i \in 1 .. Len(c.tries) : c.tries[i] = "ok" => i = Len(c.tries) /\ c.pc = "answered"
  /\ c.pc = "answered" => /\ Len(c.tries) > 0
                          /\ c.tries[Len(c.tries)] = "ok" \/ Len(c.tries) = c.target.max_retries + 1
  /\ c.pc # "answered" => Len(c.tries) <= c.target.max_retries

\* A provider is found enabled by all attempts or by none.
Judged(c) ==
  \A i \in 1 .. Len(c.tries) : c.tries[i] = "disabled" <=> ~ IsEnabled(c.target.provider)

CallOK(c) == c \in Calls /\ Aimed(c) /\ OnTheWire(c) /\ Counted(c) /\ Judged(c)

HealthOK ==
  /\ health \in [known : BOOLEAN, enabled : SUBSET Cloud]
  /\ health.known => health.enabled = Statuses

GInv == DataOK /\ env \in EnvType /\ HealthOK /\ (call = NoCall \/ CallOK(call))

\* An embedding is one attempt at the local ollama.
LEMMA EmbedTargetType ==
  /\ EmbedTarget \in Targets /\ EmbedTarget.provider = "ollama" /\ EmbedTarget.max_retries = 0
<1> DEFINE t == Target("L0", "ollama", DefaultModel("L0"))
<1>1. "L0" \in Tiers /\ "ollama" \in Providers /\ DefaultModel("L0") \in Models
  BY DEF Tiers, Providers, Models
<1>2. t \in Targets /\ t.provider = "ollama"
  BY <1>1, TargetType
<1> HIDE DEF t
<1>3. EmbedTarget = [t EXCEPT !.max_retries = 0]
  BY DEF EmbedTarget, t
<1> QED
  BY <1>2, <1>3 DEF Targets

\* A call begins with its target settled, nothing tried and nothing sent.
LEMMA BeginsOK ==
  ASSUME NEW c, NEW kind \in {"chat", "embed"}, NEW tier \in Tiers, NEW profile \in Profiles,
         NEW msgs \in Prompts, NEW target \in Targets,
         c = [pc |-> "trying", kind |-> kind, tier |-> tier, profile |-> profile, msgs |-> msgs,
              target |-> target, tries |-> <<>>, wire |-> {}],
         \/ kind = "chat" /\ target = Resolve(tier, profile)
         \/ kind = "embed" /\ tier = "L0" /\ target = EmbedTarget
  PROVE  CallOK(c)
<1>1. <<>> \in Seq(Results) /\ Len(<<>>) = 0 /\ target.max_retries \in Nat
  BY DEF Targets
<1> QED
  BY <1>1 DEF CallOK, Calls, Aimed, OnTheWire, Counted, Judged

\* An attempt that ends is one more try, and the last one or not the last.
LEMMA EndsOK ==
  ASSUME CallOK(call), call.pc # "answered", NEW result \in Results, Ends(result),
         result = "disabled" <=> ~ IsEnabled(call.target.provider)
  PROVE  CallOK(call')
<1> DEFINE n == Len(call.tries)
           pc2 == IF result = "ok" \/ n = call.target.max_retries THEN "answered" ELSE "trying"
<1>1. /\ call \in Calls /\ call.tries \in Seq(Results) /\ n \in Nat /\ call.target \in Targets
      /\ call.target.max_retries \in Nat
  BY DEF CallOK, Calls, Targets
<1>2. call' = [call EXCEPT !.tries = Append(call.tries, result), !.wire = {}, !.pc = pc2]
  BY DEF Ends
<1>3. /\ Append(call.tries, result) \in Seq(Results) /\ Len(Append(call.tries, result)) = n + 1
      /\ \A i \in 1 .. n : Append(call.tries, result)[i] = call.tries[i]
      /\ Append(call.tries, result)[n + 1] = result
  BY <1>1
<1>4. /\ call' \in Calls /\ call'.pc = pc2 /\ call'.wire = {}
      /\ call'.tries = Append(call.tries, result)
      /\ call'.kind = call.kind /\ call'.tier = call.tier /\ call'.profile = call.profile
      /\ call'.msgs = call.msgs /\ call'.target = call.target
  <2> DEFINE tries2 == Append(call.tries, result)
  <2>1. pc2 \in {"trying", "answered"} /\ tries2 \in Seq(Results)
    BY <1>3
  <2>2. call' = [call EXCEPT !.tries = tries2, !.wire = {}, !.pc = pc2]
    BY <1>2
  <2>3. call'.tries = tries2 <=> call'.tries = Append(call.tries, result)
    OBVIOUS
  <2> HIDE DEF pc2, tries2
  <2> QED
    BY <1>1, <2>1, <2>2, <2>3 DEF Calls
<1>5. Aimed(call') /\ OnTheWire(call')
  BY <1>4 DEF CallOK, Aimed, OnTheWire
<1>6. Counted(call')
  BY <1>1, <1>3, <1>4 DEF CallOK, Counted
<1>7. Judged(call')
  BY <1>1, <1>3, <1>4 DEF CallOK, Judged
<1> QED
  BY <1>4, <1>5, <1>6, <1>7 DEF CallOK

\* Every step of a call, and every request, patch and report between them, keeps it
\* in order.
LEMMA StepKeepsCall ==
  ASSUME GInv, [Next]_vars, ~ Restart
  PROVE  env' = env /\ (call' = NoCall \/ CallOK(call'))
<1>1. data.profile \in Profiles /\ Empty \in Profiles
  BY DataAssumption DEF GInv, DataOK, Stored
<1>2. ASSUME NEW tier \in Tiers, NEW msgs \in Requests, ChatForTier(tier, msgs)
      PROVE  env' = env /\ CallOK(call')
  <2> DEFINE target == Resolve(tier, data.profile)
  <2>1. target \in Targets
    BY <1>1, ResolveType
  <2>2. call' = [pc |-> "trying", kind |-> "chat", tier |-> tier, profile |-> data.profile,
                 msgs |-> msgs, target |-> target, tries |-> <<>>, wire |-> {}]
    BY <1>2 DEF ChatForTier
  <2>3. env' = env /\ msgs \in Prompts /\ target = Resolve(tier, data.profile)
    BY <1>2 DEF ChatForTier, Prompts
  <2> HIDE DEF target
  <2> QED
    BY <1>1, <2>1, <2>2, <2>3, BeginsOK
<1>3. CASE Embed
  <2>1. call' = [pc |-> "trying", kind |-> "embed", tier |-> "L0", profile |-> Empty,
                 msgs |-> <<>>, target |-> EmbedTarget, tries |-> <<>>, wire |-> {}]
    BY <1>3 DEF Embed, EmbedTarget
  <2>2. env' = env /\ <<>> \in Prompts /\ "L0" \in Tiers
    BY <1>3 DEF Embed, Prompts, Tiers
  <2> QED
    BY <1>1, <2>1, <2>2, BeginsOK, EmbedTargetType
<1>4. ASSUME call.pc # "idle" PROVE CallOK(call)
  BY <1>4 DEF GInv, NoCall
<1>5. CASE Send
  <2> DEFINE body == Body(call.target.provider, call.msgs)
  <2>1. /\ call.pc = "trying" /\ env' = env
        /\ IsEnabled(call.target.provider) /\ call.target.provider # "mock"
        /\ call' = [call EXCEPT !.pc = "waiting", !.wire = {body}]
    BY <1>5 DEF Send
  <2>2. CallOK(call) /\ call \in Calls
    BY <1>4, <2>1 DEF CallOK
  <2>3. {body} \in SUBSET Bodies
    BY <2>2 DEF Calls, Targets, Bodies
  <2>4. body = Body(call.target.provider, call.msgs)
    OBVIOUS
  <2> HIDE DEF body
  <2>5. /\ call' \in Calls /\ call'.pc = "waiting" /\ call'.wire = {body}
        /\ call'.kind = call.kind /\ call'.tier = call.tier /\ call'.profile = call.profile
        /\ call'.msgs = call.msgs /\ call'.target = call.target /\ call'.tries = call.tries
    BY <2>1, <2>2, <2>3 DEF Calls
  <2>6. Aimed(call') /\ OnTheWire(call') /\ Judged(call')
    BY <2>1, <2>2, <2>4, <2>5 DEF CallOK, Aimed, OnTheWire, Judged
  <2>7. Counted(call')
    BY <2>1, <2>2, <2>5 DEF CallOK, Counted
  <2> QED
    BY <2>1, <2>5, <2>6, <2>7 DEF CallOK
<1>6. CASE MockAnswers
  <2>1. call.pc = "trying" /\ call.target.provider = "mock" /\ Ends("ok") /\ env' = env
    BY <1>6 DEF MockAnswers, Ends
  <2>2. "ok" \in Results /\ IsEnabled("mock")
    BY DEF Results, IsEnabled
  <2> QED
    BY <1>4, <2>1, <2>2, EndsOK
<1>7. CASE RefusedDisabled
  <2>1. call.pc = "trying" /\ ~ IsEnabled(call.target.provider) /\ Ends("disabled") /\ env' = env
    BY <1>7 DEF RefusedDisabled, Ends
  <2>2. "disabled" \in Results
    BY DEF Results
  <2> QED
    BY <1>4, <2>1, <2>2, EndsOK
<1>8. ASSUME NEW result \in Results \ {"disabled"}, Receive(result)
      PROVE  env' = env /\ CallOK(call')
  <2>1. call.pc = "waiting" /\ Ends(result) /\ env' = env
    BY <1>8 DEF Receive, Ends
  <2>2. IsEnabled(call.target.provider)
    BY <1>4, <2>1 DEF CallOK, OnTheWire
  <2> QED
    BY <1>4, <2>1, <2>2, EndsOK
<1>9. CASE Healthz \/ Patch \/ UNCHANGED vars
  BY <1>9 DEF Healthz, Patch, vars, GInv
<1> QED
  BY <1>2, <1>3, <1>5, <1>6, <1>7, <1>8, <1>9 DEF Next, CallStep

\* Predicates of a call look at the environment besides; where that is the same
\* they say the same.
LEMMA CallOKStays ==
  ASSUME env' = env, CallOK(call')
  PROVE  CallOK(call)'
BY DEF CallOK, Aimed, OnTheWire, Counted, Judged, IsEnabled, Resolve, Default, Mock

LEMMA StepGInv ==
  ASSUME GInv, OnlyValidServed, [Next]_vars
  PROVE  GInv'
<1>1. DataOK'
  BY StepServesValid, StepIsDataStep DEF GInv
<1>2. CASE Restart
  <2>1. env' \in EnvType /\ call' = NoCall
    BY <1>2, EnvAssumption DEF Restart
  <2>2. health' \in [known : BOOLEAN, enabled : SUBSET Cloud] /\ ~ health'.known
    BY <1>2 DEF Restart, NoHealth
  <2> QED
    BY <1>1, <2>1, <2>2 DEF GInv, HealthOK
<1>3. CASE ~ Restart
  <2>1. env' = env /\ (call' = NoCall \/ CallOK(call'))
    BY <1>3, StepKeepsCall
  <2>2. health' \in {health, [known |-> TRUE, enabled |-> Statuses]}
    BY <1>3 DEF Next, vars, ChatForTier, Embed, CallStep, Send, MockAnswers, RefusedDisabled, Receive,
                Ends, Healthz, Patch
  <2>3. Statuses' = Statuses /\ Statuses \subseteq Cloud
    BY <2>1 DEF Statuses, IsEnabled
  <2>4. HealthOK'
    <3>1. CASE health' = health
      BY <2>3, <3>1 DEF GInv, HealthOK
    <3>2. CASE health' = [known |-> TRUE, enabled |-> Statuses]
      BY <2>3, <3>2 DEF HealthOK
    <3> QED
      BY <2>2, <3>1, <3>2
  <2>5. env' \in EnvType
    BY <2>1 DEF GInv
  <2> QED
    BY <1>1, <2>1, <2>4, <2>5, CallOKStays DEF GInv
<1> QED
  BY <1>2, <1>3

LEMMA InitGInv == Init => GInv
<1> SUFFICES ASSUME Init PROVE GInv
  OBVIOUS
<1>1. HealthOK
  BY DEF Init, NoHealth, HealthOK
<1> QED
  BY <1>1, EnvAssumption, InitServesValid DEF Init, GInv

\* The invariant of the gateway: targets settled when calls begin, attempts counted,
\* and one judgement of every provider for as long as the process runs.
THEOREM GInvHolds == Spec => []GInv
BY InitGInv, StepGInv, DataInv, PTL DEF Spec

-----------------------------------------------------------------------------
(* What follows from it. *)

\* What is called has a call in order.
LEMMA CalledIsOK ==
  ASSUME GInv, Called
  PROVE  CallOK(call) /\ call \in Calls
BY DEF GInv, Called, NoCall, CallOK

\* A request says to which provider it goes.
LEMMA BodyNames ==
  ASSUME NEW p, NEW msgs
  PROVE  Body(p, msgs).provider = p
<1>1. CASE p = "anthropic"
  BY <1>1 DEF Body
<1>2. CASE p = "gemini"
  BY <1>2 DEF Body
<1>3. CASE p \notin {"anthropic", "gemini"}
  BY <1>3 DEF Body
<1> QED
  BY <1>1, <1>2, <1>3

\* What is on the wire goes to the provider of the target, which is enabled, and
\* is on the wire while the call waits.
LEMMA WireFacts ==
  ASSUME GInv, Called, NEW body \in call.wire
  PROVE  /\ body.provider = call.target.provider /\ call.pc = "waiting"
         /\ IsEnabled(call.target.provider) /\ call.target.provider # "mock"
BY CalledIsOK, BodyNames DEF CallOK, OnTheWire

\* Who asked for what is known of every call, and no call makes more than three
\* attempts.
THEOREM TypeCorrect == Spec => []TypeOK
<1>1. GInv => TypeOK
  <2> SUFFICES ASSUME GInv PROVE TypeOK
    OBVIOUS
  <2>1. source \in {"fixture", "db"} /\ data \in Stored /\ env \in EnvType
        /\ health.known \in BOOLEAN /\ health.enabled \subseteq Cloud
    BY DEF GInv, DataOK, HealthOK
  <2>2. call.pc \in {"idle", "trying", "waiting", "answered"}
    BY CalledIsOK DEF Called, Calls
  <2>3. ASSUME Called
        PROVE  /\ call.kind \in {"chat", "embed"} /\ call.tier \in Tiers /\ call.profile \in Profiles
               /\ call.target.provider \in Providers
               /\ Len(call.tries) <= 3 /\ ToSet(call.tries) \subseteq Results
    <3>1. CallOK(call) /\ call \in Calls
      BY <2>3, CalledIsOK
    <3>2. /\ call.kind \in {"chat", "embed"} /\ call.tier \in Tiers /\ call.profile \in Profiles
          /\ call.target \in Targets /\ call.tries \in Seq(Results)
      BY <3>1 DEF Calls
    <3>3. call.target.max_retries \in {0, 1, 2} /\ call.target.provider \in Providers
      BY <3>1, <3>2, ResolveType, PolicyType, EmbedTargetType DEF CallOK, Aimed, Targets
    <3>4. Len(call.tries) <= call.target.max_retries + 1
      BY <3>1 DEF CallOK, Counted
    <3>5. Len(call.tries) <= 3
      BY <3>2, <3>3, <3>4
    <3>6. ToSet(call.tries) \subseteq Results
      BY <3>2 DEF ToSet
    <3> QED
      BY <3>2, <3>3, <3>5, <3>6
  <2> QED
    BY <2>1, <2>2, <2>3 DEF TypeOK
<1> QED
  BY <1>1, GInvHolds, PTL

\* In mock mode no chat ever leaves the process.
THEOREM MockNeverSends == Spec => []MockIsSealed
<1>1. GInv => MockIsSealed
  <2> SUFFICES ASSUME GInv, Mock, Called, call.kind = "chat", NEW body \in call.wire
               PROVE  FALSE
    BY DEF MockIsSealed
  <2>1. call.target = Resolve(call.tier, call.profile) /\ call.tier \in Tiers /\ call.profile \in Profiles
    BY CalledIsOK DEF CallOK, Aimed, Calls
  <2>2. call.target.provider = "mock"
    BY <2>1, ResolveType
  <2> QED
    BY <2>2, WireFacts
<1> QED
  BY <1>1, GInvHolds, PTL

\* No profile, environment or patch makes a call of tier L0 leave for anything but
\* the local ollama.
THEOREM L0NeverLeaves == Spec => []L0StaysLocal
<1>1. GInv => L0StaysLocal
  <2> SUFFICES ASSUME GInv, Called, call.tier = "L0", NEW body \in call.wire
               PROVE  body.provider = "ollama"
    BY DEF L0StaysLocal
  <2>1. call.profile \in Profiles /\ call.tier \in Tiers
    BY CalledIsOK DEF Calls
  <2>2. call.target.provider \in {"ollama", "mock"}
    BY <2>1, CalledIsOK, ResolveType, EmbedTargetType DEF CallOK, Aimed
  <2> QED
    BY <2>2, WireFacts
<1> QED
  BY <1>1, GInvHolds, PTL

\* Attempts and patience never exceed what the tier grants, and nothing is tried
\* again after a success.
THEOREM PolicyIsKept == Spec => []RetriesFollowPolicy
<1>1. GInv => RetriesFollowPolicy
  <2> SUFFICES ASSUME GInv, Called, call.kind = "chat"
               PROVE  /\ Len(call.tries) * call.target.timeout
                           <= (MaxRetries(call.tier) + 1) * Timeout(call.tier)
                      /\ \A i \in DOMAIN call.tries : call.tries[i] = "ok" => i = Len(call.tries)
                      /\ call.pc = "answered" =>
                           \/ call.tries[Len(call.tries)] = "ok"
                           \/ Len(call.tries) = MaxRetries(call.tier) + 1
    BY DEF RetriesFollowPolicy
  <2>1. /\ call.target = Resolve(call.tier, call.profile) /\ call.tier \in Tiers
        /\ call.profile \in Profiles /\ call.tries \in Seq(Results) /\ Counted(call)
    BY CalledIsOK DEF CallOK, Aimed, Calls
  <2>2. call.target.timeout = Timeout(call.tier) /\ call.target.max_retries = MaxRetries(call.tier)
    BY <2>1, ResolveType
  <2>3. Len(call.tries) \in Nat /\ Len(call.tries) <= MaxRetries(call.tier) + 1
    BY <2>1, <2>2 DEF Counted
  <2>4. Len(call.tries) * Timeout(call.tier) <= (MaxRetries(call.tier) + 1) * Timeout(call.tier)
    <3> DEFINE n == Len(call.tries)
               r == MaxRetries(call.tier)
               t == Timeout(call.tier)
    <3>1. n \in Nat /\ n <= r + 1 /\ r \in {1, 2} /\ t \in {15, 30, 60, 90}
      BY <2>1, <2>3, PolicyType
    <3> HIDE DEF n, r, t
    <3>2. n * t <= (r + 1) * t
      BY <3>1
    <3> QED
      BY <3>2 DEF n, r, t
  <2> QED
    BY <2>1, <2>2, <2>4 DEF Counted
<1> QED
  BY <1>1, GInvHolds, PTL

\* As long as the process runs calls find of a cloud provider what /healthz said.
THEOREM HealthReportHolds == Spec => []HealthIsHonest
<1>1. GInv => HealthIsHonest
  <2> SUFFICES ASSUME GInv, Called, health.known, call.target.provider \in Cloud
               PROVE  IF call.target.provider \in health.enabled
                      THEN "disabled" \notin ToSet(call.tries)
                      ELSE ToSet(call.tries) \subseteq {"disabled"} /\ call.wire = {}
    BY DEF HealthIsHonest
  <2>1. call.target.provider \in health.enabled <=> IsEnabled(call.target.provider)
    BY DEF GInv, HealthOK, Statuses
  <2>2. call.tries \in Seq(Results) /\ Judged(call)
    BY CalledIsOK DEF CallOK, Calls
  <2>3. \A x \in ToSet(call.tries) : x = "disabled" <=> ~ IsEnabled(call.target.provider)
    BY <2>2 DEF ToSet, Judged
  <2> QED
    BY <2>1, <2>3, WireFacts
<1> QED
  BY <1>1, GInvHolds, PTL

-----------------------------------------------------------------------------
(* The text of an override. *)

\* The first colon is a colon.
LEMMA ColonIsThere ==
  ASSUME NEW text \in Seq(STRING), Colon(text) # 0
  PROVE  Colon(text) \in 1 .. Len(text) /\ text[Colon(text)] = ":"
<1> DEFINE I == {i \in 1 .. Len(text) : text[i] = ":"}
<1>1. Colon(text) = IF I # {} THEN Min(I) ELSE 0
  BY DEF Colon, SelectInSeq
<1>2. I # {} /\ Colon(text) = Min(I)
  BY <1>1
<1>3. I \subseteq Nat
  OBVIOUS
<1> HIDE DEF I
<1>4. PICK x \in I : \A y \in I : ~ (<<y, x>> \in OpToRel(<, Nat))
  BY <1>2, <1>3, NatLessThanWellFounded, WFMin
<1>5. \A y \in I : x <= y
  <2> SUFFICES ASSUME NEW y \in I, y < x PROVE FALSE
    BY <1>3
  <2>1. <<y, x>> \in Nat \X Nat /\ <<y, x>>[1] = y /\ <<y, x>>[2] = x
    BY <1>3
  <2> QED
    BY <1>4, <2>1 DEF OpToRel
<1>6. Min(I) \in I
  BY <1>5 DEF Min
<1> QED
  BY <1>2, <1>6 DEF I

\* A text that names provider and model is the two with a colon between them.
LEMMA TextIsItsParts ==
  ASSUME NEW text \in Seq(STRING), NEW p, Colon(text) # 0, ProviderPart(text) = <<p>>
  PROVE  text = <<p, ":">> \o ModelPart(text)
<1> DEFINE c == Colon(text)
           n == Len(text)
<1>1. c \in 1 .. n /\ text[c] = ":" /\ n \in Nat
  BY ColonIsThere
<1>2. Len(SubSeq(text, 1, c - 1)) = c - 1
  BY <1>1
<1>3. SubSeq(text, 1, c - 1) = <<p>>
  BY DEF ProviderPart
<1>4. c = 2
  BY <1>1, <1>2, <1>3
<1>5. text[1] = p
  <2>1. SubSeq(text, 1, 1)[1] = text[1]
    BY <1>1, <1>4
  <2>2. c - 1 = 1
    BY <1>4
  <2>3. SubSeq(text, 1, 1) = <<p>>
    BY <1>3, <2>2
  <2>4. <<p>>[1] = p
    OBVIOUS
  <2> QED
    BY <2>1, <2>3, <2>4
<1>6. ModelPart(text) = SubSeq(text, 3, n)
  BY <1>4 DEF ModelPart
<1>7. \A i \in 1 .. n - 2 : ModelPart(text)[i] = text[i + 2]
  BY <1>1, <1>4, <1>6
<1>8. ModelPart(text) \in Seq(STRING) /\ Len(ModelPart(text)) = n - 2
  <2>1. n \in Nat /\ 2 <= n /\ n = Len(text)
    BY <1>1, <1>4
  <2> HIDE DEF c, n
  <2>2. SubSeq(text, 3, n) \in Seq(STRING)
    BY <2>1
  <2>3. Len(SubSeq(text, 3, n)) = n - 2
    BY <2>1
  <2> QED
    BY <1>6, <2>2, <2>3
<1> HIDE DEF c, n
<1> DEFINE whole == <<p, ":">> \o ModelPart(text)
<1>9. /\ whole = [i \in 1 .. n |-> IF i <= 2 THEN <<p, ":">>[i] ELSE ModelPart(text)[i - 2]]
  BY <1>1, <1>8
<1>10. text = [i \in 1 .. n |-> text[i]]
  BY DEF n
<1>11. \A i \in 1 .. n : text[i] = IF i <= 2 THEN <<p, ":">>[i] ELSE ModelPart(text)[i - 2]
  BY <1>1, <1>4, <1>5, <1>7
<1> QED
  BY <1>9, <1>10, <1>11

\* An accepted profile is never passed over: it resolves to exactly what its text
\* says.
LEMMA ValidResolves ==
  ASSUME NEW tier \in Tiers, NEW profile \in Profiles,
         ValidProfile(profile), tier \in DOMAIN profile, ~ Mock
  PROVE  profile[tier] = <<Resolve(tier, profile).provider, ":">> \o Resolve(tier, profile).model
<1> DEFINE text == profile[tier]
<1>1. /\ profile # NotObject /\ tier \in {"L1", "L2", "L3"} /\ text # NotText
      /\ Colon(text) # 0 /\ ModelPart(text) # <<>>
      /\ \E p \in KnownProviders : ProviderPart(text) = <<p>>
  BY DEF ValidProfile
<1>2. text \in Seq(STRING)
  BY <1>1, DataAssumption
<1>3. KnownProviders \subseteq Providers
  BY DEF KnownProviders, Providers, Cloud
<1>4. Overrides(tier, profile) # {}
  <2>1. PICK p \in Providers : ProviderPart(text) = <<p>>
    BY <1>1, <1>3
  <2>2. Target(tier, p, ModelPart(text)) \in ParseOverride(tier, text)
    BY <1>1, <2>1 DEF ParseOverride
  <2>3. Overrides(tier, profile) = ParseOverride(tier, text)
    BY <1>1 DEF Overrides, Overridable
  <2> QED
    BY <2>2, <2>3
<1>5. Resolve(tier, profile) \in Overrides(tier, profile)
  BY <1>4 DEF Resolve
<1>6. PICK p \in Providers : /\ ProviderPart(text) = <<p>>
                             /\ Resolve(tier, profile) = Target(tier, p, ModelPart(text))
  BY <1>5, OverrideType
<1>7. Resolve(tier, profile).provider = p /\ Resolve(tier, profile).model = ModelPart(text)
  BY <1>6 DEF Target
<1> QED
  BY <1>1, <1>2, <1>6, <1>7, TextIsItsParts

\* While a call is on, whatever is patched meanwhile, it goes to the provider its
\* caller's accepted profile names, and was resolved to the model it names, which is
\* not sent (lib.rs:164).
THEOREM CallsAreAimed == Spec => []CallsGoWhereTold
<1>1. GInv => CallsGoWhereTold
  <2> SUFFICES ASSUME GInv, Called, call.kind = "chat", ~ Mock,
                      ValidProfile(call.profile), call.tier \in DOMAIN call.profile
               PROVE  /\ call.profile[call.tier] = <<call.target.provider, ":">> \o call.target.model
                      /\ \A body \in call.wire : body.provider = call.target.provider
    BY DEF CallsGoWhereTold
  <2>1. /\ call.target = Resolve(call.tier, call.profile) /\ call.tier \in Tiers
        /\ call.profile \in Profiles
    BY CalledIsOK DEF CallOK, Aimed, Calls
  <2> QED
    BY <2>1, ValidResolves, WireFacts
<1> QED
  BY <1>1, GInvHolds, PTL

-----------------------------------------------------------------------------
(* Prompts on the wire. *)

\* The recursion of Texts.
IsTaken(f, msgs, roles) ==
  f = [n \in 0 .. Len(msgs) |->
         IF n = 0 THEN <<>>
         ELSE IF msgs[n].role \in roles THEN Append(f[n - 1], msgs[n]) ELSE f[n - 1]]

\* What is taken of the first n messages, n at most k.
TakenSteps(f, k, msgs, roles) ==
  /\ f[0] = <<>>
  /\ \A n \in 1 .. k :
       f[n] = IF msgs[n].role \in roles THEN Append(f[n - 1], msgs[n]) ELSE f[n - 1]

LEMMA Least ==
  ASSUME NEW S \in SUBSET Nat, S # {}
  PROVE  \E m \in S : \A i \in S : m <= i
<1>1. PICK m \in S : \A i \in S : ~ (<<i, m>> \in OpToRel(<, Nat))
  BY WFMin, NatLessThanWellFounded
<1>2. \A i \in S : ~ (i < m)
  BY <1>1 DEF OpToRel
<1> QED
  BY <1>2

\* What holds of zero and of every number up to k after the one before it, holds
\* up to k.
LEMMA UpTo ==
  ASSUME NEW k \in Nat, NEW G, 0 \in G, \A n \in 1 .. k : n - 1 \in G => n \in G
  PROVE  0 .. k \subseteq G
<1> DEFINE bad == {n \in 0 .. k : n \notin G}
<1> SUFFICES ASSUME bad # {} PROVE FALSE
  OBVIOUS
<1>1. bad \in SUBSET Nat
  OBVIOUS
<1>2. PICK n \in bad : \A i \in bad : n <= i
  BY <1>1, Least
<1>3. n # 0 /\ n \in Nat /\ n \in 0 .. k
  BY <1>2
<1>4. n \in 1 .. k /\ n - 1 \in 0 .. k /\ n - 1 \notin bad
  BY <1>2, <1>3
<1> QED
  BY <1>2, <1>4

LEMMA TakenExists ==
  ASSUME NEW S, NEW msgs \in Seq(S), NEW roles
  PROVE  \E f : IsTaken(f, msgs, roles)
<1> DEFINE Good(k) == \E f : DOMAIN f = 0 .. k /\ f = [n \in 0 .. k |-> f[n]]
                             /\ TakenSteps(f, k, msgs, roles)
           good == {k \in 0 .. Len(msgs) : Good(k)}
<1>0. Len(msgs) \in Nat
  OBVIOUS
<1>1. Good(0)
  <2> DEFINE f == [n \in 0 .. 0 |-> <<>>]
  <2>1. DOMAIN f = 0 .. 0 /\ f = [n \in 0 .. 0 |-> f[n]] /\ TakenSteps(f, 0, msgs, roles)
    BY DEF TakenSteps
  <2> QED
    BY <2>1
<1>2. ASSUME NEW k \in 1 .. Len(msgs), Good(k - 1) PROVE Good(k)
  <2>1. PICK f : DOMAIN f = 0 .. k - 1 /\ f = [n \in 0 .. k - 1 |-> f[n]]
                 /\ TakenSteps(f, k - 1, msgs, roles)
    BY <1>2
  <2> DEFINE last == IF msgs[k].role \in roles THEN Append(f[k - 1], msgs[k]) ELSE f[k - 1]
             h == [n \in 0 .. k |-> IF n = k THEN last ELSE f[n]]
  <2>2. k \in Nat /\ k # 0 /\ k - 1 \in 0 .. k /\ k - 1 # k
    BY <1>0
  <2> HIDE DEF last
  <2>3. DOMAIN h = 0 .. k /\ h[k] = last /\ \A n \in 0 .. k - 1 : h[n] = f[n]
    BY <2>2
  <2>4. h = [n \in 0 .. k |-> h[n]]
    OBVIOUS
  <2> HIDE DEF h
  <2>5. TakenSteps(h, k, msgs, roles)
    <3>1. h[0] = <<>>
      BY <2>1, <2>2, <2>3 DEF TakenSteps
    <3>2. ASSUME NEW n \in 1 .. k
          PROVE  h[n] = IF msgs[n].role \in roles THEN Append(h[n - 1], msgs[n]) ELSE h[n - 1]
      <4>1. CASE n = k
        BY <2>2, <2>3, <4>1 DEF last
      <4>2. CASE n # k
        <5>1. n \in 1 .. k - 1 /\ n \in 0 .. k - 1 /\ n - 1 \in 0 .. k - 1
          BY <2>2, <4>2
        <5> QED
          BY <2>1, <2>3, <5>1 DEF TakenSteps
      <4> QED
        BY <4>1, <4>2
    <3> QED
      BY <3>1, <3>2 DEF TakenSteps
  <2> QED
    BY <2>3, <2>4, <2>5
<1> HIDE DEF Good
<1>3. 0 .. Len(msgs) \subseteq good
  <2>1. 0 \in good /\ \A k \in 1 .. Len(msgs) : k - 1 \in good => k \in good
    BY <1>0, <1>1, <1>2
  <2> HIDE DEF good
  <2> QED
    BY <1>0, <2>1, UpTo
<1>4. Good(Len(msgs))
  BY <1>0, <1>3
<1>5. PICK f : f = [n \in 0 .. Len(msgs) |-> f[n]] /\ TakenSteps(f, Len(msgs), msgs, roles)
  BY <1>4 DEF Good
<1>6. IsTaken(f, msgs, roles)
  <2> DEFINE e == [n \in 0 .. Len(msgs) |->
                     IF n = 0 THEN <<>>
                     ELSE IF msgs[n].role \in roles THEN Append(f[n - 1], msgs[n]) ELSE f[n - 1]]
  <2>1. \A n \in 0 .. Len(msgs) : e[n] = f[n]
    BY <1>0, <1>5 DEF TakenSteps
  <2>2. e = [n \in 0 .. Len(msgs) |-> e[n]]
    OBVIOUS
  <2> HIDE DEF e
  <2>3. e = f
    BY <1>5, <2>1, <2>2
  <2> QED
    BY <2>3, Zenon DEF e, IsTaken
<1> QED
  BY <1>6

\* Texts is the last of the steps of its recursion.
LEMMA TextsSteps ==
  ASSUME NEW S, NEW msgs \in Seq(S), NEW roles
  PROVE  \E f : TakenSteps(f, Len(msgs), msgs, roles) /\ Texts(msgs, roles) = f[Len(msgs)]
<1> DEFINE f == CHOOSE h : IsTaken(h, msgs, roles)
           e == [n \in 0 .. Len(msgs) |->
                   IF n = 0 THEN <<>>
                   ELSE IF msgs[n].role \in roles THEN Append(f[n - 1], msgs[n]) ELSE f[n - 1]]
<1>1. Texts(msgs, roles) = f[Len(msgs)]
  BY DEF Texts, IsTaken
<1>2. IsTaken(f, msgs, roles)
  BY TakenExists
<1> HIDE DEF f
<1>3. f = e
  BY <1>2, Zenon DEF IsTaken
<1>4. Len(msgs) \in Nat
  OBVIOUS
<1>5. /\ e[0] = <<>>
      /\ \A n \in 1 .. Len(msgs) :
           e[n] = IF msgs[n].role \in roles THEN Append(f[n - 1], msgs[n]) ELSE f[n - 1]
  BY <1>4
<1> HIDE DEF e
<1>6. TakenSteps(f, Len(msgs), msgs, roles)
  BY <1>3, <1>5 DEF TakenSteps
<1> QED
  BY <1>1, <1>6

\* Only messages of the roles are taken, and only messages that were there.
LEMMA TextsType ==
  ASSUME NEW S, NEW msgs \in Seq(S), NEW roles
  PROVE  Texts(msgs, roles) \in Seq({m \in S : m.role \in roles})
<1> DEFINE T == {m \in S : m.role \in roles}
<1>1. PICK k \in Nat : k = Len(msgs) /\ \A n \in 1 .. k : msgs[n] \in S
  OBVIOUS
<1>2. PICK f : TakenSteps(f, k, msgs, roles) /\ Texts(msgs, roles) = f[k]
  BY <1>1, TextsSteps
<1> DEFINE Good(n) == f[n] \in Seq(T)
           good == {n \in 0 .. k : Good(n)}
<1>3. f[0] = <<>> /\ 0 \in 0 .. k
  BY <1>1, <1>2 DEF TakenSteps
<1>4. ASSUME NEW n \in 1 .. k, f[n - 1] \in Seq(T) PROVE f[n] \in Seq(T)
  <2>1. CASE msgs[n].role \in roles
    <3>1. msgs[n] \in T /\ f[n] = Append(f[n - 1], msgs[n])
      BY <1>1, <1>2, <2>1 DEF TakenSteps
    <3> HIDE DEF T
    <3> QED
      BY <1>4, <3>1
  <2>2. CASE msgs[n].role \notin roles
    BY <1>2, <1>4, <2>2 DEF TakenSteps
  <2> QED
    BY <2>1, <2>2
<1> HIDE DEF T
<1>5. Good(0)
  BY <1>3
<1>6. \A n \in 1 .. k : Good(n - 1) => Good(n)
  BY <1>4
<1>7. \A n \in 1 .. k : n \in 0 .. k
  BY <1>1
<1> HIDE DEF Good
<1>8. 0 \in good /\ \A n \in 1 .. k : n - 1 \in good => n \in good
  BY <1>3, <1>5, <1>6, <1>7
<1> HIDE DEF good
<1>9. 0 .. k \subseteq good
  BY <1>1, <1>8, UpTo
<1>10. k \in good
  BY <1>1, <1>9
<1> QED
  BY <1>2, <1>10 DEF good, Good, T

\* If every message has one of the roles, all are taken, as they are.
LEMMA AllTaken ==
  ASSUME NEW S, NEW msgs \in Seq(S), NEW roles,
         \A i \in 1 .. Len(msgs) : msgs[i].role \in roles
  PROVE  Texts(msgs, roles) = msgs
<1>1. PICK k \in Nat : k = Len(msgs) /\ \A n \in 1 .. k : msgs[n] \in S
  OBVIOUS
<1>2. PICK f : TakenSteps(f, k, msgs, roles) /\ Texts(msgs, roles) = f[k]
  BY <1>1, TextsSteps
<1> DEFINE Good(n) == f[n] \in Seq(S) /\ Len(f[n]) = n /\ \A j \in 1 .. n : f[n][j] = msgs[j]
           good == {n \in 0 .. k : Good(n)}
<1>3. Good(0) /\ 0 \in 0 .. k
  <2>1. f[0] = <<>>
    BY <1>2 DEF TakenSteps
  <2> QED
    BY <1>1, <2>1
<1>4. ASSUME NEW n \in 1 .. k, Good(n - 1) PROVE Good(n)
  <2>1. f[n] = Append(f[n - 1], msgs[n]) /\ msgs[n] \in S
    BY <1>1, <1>2 DEF TakenSteps
  <2>2. n - 1 + 1 = n /\ n \in Nat
    BY <1>1
  <2>3. f[n] \in Seq(S) /\ Len(f[n]) = n /\ f[n][n] = msgs[n]
    BY <1>4, <2>1, <2>2
  <2>4. \A j \in 1 .. n - 1 : f[n][j] = f[n - 1][j]
    BY <1>4, <2>1, <2>2
  <2>5. \A j \in 1 .. n : f[n][j] = msgs[j]
    BY <1>4, <2>2, <2>3, <2>4
  <2> QED
    BY <2>3, <2>5
<1> HIDE DEF Good
<1>5. 0 \in good /\ \A n \in 1 .. k : n - 1 \in good => n \in good
  BY <1>1, <1>3, <1>4
<1> HIDE DEF good
<1>6. 0 .. k \subseteq good
  BY <1>1, <1>5, UpTo
<1>7. k \in good
  BY <1>1, <1>6
<1>8. f[k] \in Seq(S) /\ Len(f[k]) = Len(msgs) /\ \A j \in 1 .. Len(msgs) : f[k][j] = msgs[j]
  BY <1>1, <1>7 DEF good, Good
<1> QED
  BY <1>2, <1>8

\* If no message has one of the roles, none is taken.
LEMMA NoneTaken ==
  ASSUME NEW S, NEW msgs \in Seq(S), NEW roles,
         \A i \in 1 .. Len(msgs) : msgs[i].role \notin roles
  PROVE  Texts(msgs, roles) = <<>>
<1>1. PICK k \in Nat : k = Len(msgs)
  OBVIOUS
<1>2. PICK f : TakenSteps(f, k, msgs, roles) /\ Texts(msgs, roles) = f[k]
  BY <1>1, TextsSteps
<1> DEFINE good == {n \in 0 .. k : f[n] = <<>>}
<1>3. f[0] = <<>> /\ 0 \in 0 .. k /\ \A n \in 1 .. k : f[n] = f[n - 1] /\ n \in 0 .. k
  BY <1>1, <1>2 DEF TakenSteps
<1>4. 0 \in good /\ \A n \in 1 .. k : n - 1 \in good => n \in good
  BY <1>3
<1> HIDE DEF good
<1>5. 0 .. k \subseteq good
  BY <1>1, <1>4, UpTo
<1>6. k \in good
  BY <1>1, <1>5
<1> QED
  BY <1>2, <1>6 DEF good

\* What is taken depends only on which of the messages have one of the roles.
LEMMA SameTaken ==
  ASSUME NEW S, NEW msgs \in Seq(S), NEW roles, NEW others,
         \A i \in 1 .. Len(msgs) : msgs[i].role \in roles <=> msgs[i].role \in others
  PROVE  Texts(msgs, roles) = Texts(msgs, others)
<1>1. PICK k \in Nat : k = Len(msgs)
  OBVIOUS
<1>2. PICK f : TakenSteps(f, k, msgs, roles) /\ Texts(msgs, roles) = f[k]
  BY <1>1, TextsSteps
<1>3. PICK h : TakenSteps(h, k, msgs, others) /\ Texts(msgs, others) = h[k]
  BY <1>1, TextsSteps
<1> DEFINE good == {n \in 0 .. k : f[n] = h[n]}
<1>4. f[0] = h[0] /\ 0 \in 0 .. k
  BY <1>1, <1>2, <1>3 DEF TakenSteps
<1>5. ASSUME NEW n \in 1 .. k, f[n - 1] = h[n - 1] PROVE f[n] = h[n] /\ n \in 0 .. k
  <2>0. n \in 0 .. k
    BY <1>1
  <2>1. CASE msgs[n].role \in roles
    <3>1. msgs[n].role \in others
      BY <1>1, <2>1
    <3>2. f[n] = Append(f[n - 1], msgs[n]) /\ h[n] = Append(h[n - 1], msgs[n])
      BY <1>2, <1>3, <2>1, <3>1 DEF TakenSteps
    <3> QED
      BY <1>5, <2>0, <3>2
  <2>2. CASE msgs[n].role \notin roles
    <3>1. msgs[n].role \notin others
      BY <1>1, <2>2
    <3>2. f[n] = f[n - 1] /\ h[n] = h[n - 1]
      BY <1>2, <1>3, <2>2, <3>1 DEF TakenSteps
    <3> QED
      BY <1>5, <2>0, <3>2
  <2> QED
    BY <2>1, <2>2
<1>6. 0 \in good /\ \A n \in 1 .. k : n - 1 \in good => n \in good
  BY <1>4, <1>5
<1> HIDE DEF good
<1>7. 0 .. k \subseteq good
  BY <1>1, <1>6, UpTo
<1>8. k \in good
  BY <1>1, <1>7
<1> QED
  BY <1>2, <1>3, <1>8 DEF good

\* What a provider said in the wire's words, in the words of the caller.
Heard(s) == [i \in DOMAIN s |-> [s[i] EXCEPT !.role = IF @ = "model" THEN "assistant" ELSE @]]

LEMMA HeardAsSaid ==
  ASSUME NEW s \in Seq(ChatMessage)
  PROVE  Heard(s) = s
<1>1. s = [i \in DOMAIN s |-> s[i]] /\ \A i \in DOMAIN s : s[i] \in ChatMessage
  OBVIOUS
<1>2. ASSUME NEW m \in ChatMessage
      PROVE  [m EXCEPT !.role = IF @ = "model" THEN "assistant" ELSE @] = m
  BY DEF ChatMessage
<1> QED
  BY <1>1, <1>2 DEF Heard

\* The turns of a conversation and what gemini is told of them.
Turn == {m \in ChatMessage : m.role \in {"user", "assistant"}}

ForGemini(s) == [i \in DOMAIN s |->
                   LET m == s[i] IN IF m.role = "user" THEN m ELSE [m EXCEPT !.role = "model"]]

GeminiMessage == [role : {"user", "model"}, text : STRING]

LEMMA GeminiHears ==
  ASSUME NEW s \in Seq(Turn)
  PROVE  ForGemini(s) \in Seq(GeminiMessage) /\ Heard(ForGemini(s)) = s
<1> DEFINE Tell(m) == IF m.role = "user" THEN m ELSE [m EXCEPT !.role = "model"]
           Back(m) == [m EXCEPT !.role = IF @ = "model" THEN "assistant" ELSE @]
           g == [i \in DOMAIN s |-> Tell(s[i])]
<1>1. ASSUME NEW m \in Turn PROVE Tell(m) \in GeminiMessage /\ Back(Tell(m)) = m
  BY DEF Turn, ChatMessage, GeminiMessage
<1>2. ForGemini(s) = g
  BY DEF ForGemini
<1> HIDE DEF Tell
<1>3. PICK k \in Nat : k = Len(s) /\ DOMAIN s = 1 .. k /\ s = [i \in 1 .. k |-> s[i]]
                      /\ \A i \in 1 .. k : s[i] \in Turn
  OBVIOUS
<1>4. DOMAIN g = 1 .. k /\ \A i \in 1 .. k : g[i] = Tell(s[i])
  BY <1>3
<1>5. g \in Seq(GeminiMessage)
  <2>1. \A i \in 1 .. k : Tell(s[i]) \in GeminiMessage
    BY <1>1, <1>3
  <2>2. g \in [1 .. k -> GeminiMessage]
    BY <1>3, <2>1
  <2> HIDE DEF g
  <2> QED
    BY <1>3, <2>2
<1> HIDE DEF g
<1>6. Heard(g) = [i \in 1 .. k |-> Back(g[i])]
  BY <1>4 DEF Heard
<1>7. \A i \in 1 .. k : Back(g[i]) = s[i]
  BY <1>1, <1>3, <1>4
<1> HIDE DEF Back
<1>8. Heard(g) = s
  BY <1>3, <1>6, <1>7
<1> QED
  BY <1>2, <1>5, <1>8

\* What the property asks of one body.
Faithful(body, msgs) ==
  /\ body.system \o Texts(body.turns, {"system"}) = Texts(msgs, {"system"})
  /\ Heard(Texts(body.turns, {"user", "assistant", "model"}))
       = Texts(msgs, {"user", "assistant"})

LEMMA BodyIsFaithful ==
  ASSUME NEW p \in Providers, NEW msgs \in Seq(ChatMessage)
  PROVE  Faithful(Body(p, msgs), msgs)
<1> DEFINE sys == Texts(msgs, {"system"})
           said == Texts(msgs, {"user", "assistant"})
<1>1. sys \in Seq(ChatMessage) /\ sys \o <<>> = sys /\ <<>> \o sys = sys
  <2>1. sys \in Seq({m \in ChatMessage : m.role \in {"system"}})
    BY TextsType
  <2> HIDE DEF sys
  <2> QED
    BY <2>1
<1>2. said \in Seq(Turn) /\ said \in Seq(ChatMessage)
  <2>1. said \in Seq(Turn)
    BY TextsType DEF Turn
  <2> HIDE DEF said
  <2>2. Turn \subseteq ChatMessage
    BY DEF Turn
  <2> QED
    BY <2>1, <2>2
<1>3. Heard(said) = said
  BY <1>2, HeardAsSaid
<1>4. CASE p = "anthropic"
  <2>1. Body(p, msgs) = [provider |-> p, system |-> sys, turns |-> said]
    BY <1>4 DEF Body
  <2> HIDE DEF sys, said
  <2>2. \A i \in 1 .. Len(said) : said[i].role \in {"user", "assistant"}
    BY <1>2 DEF Turn
  <2>3. \A i \in 1 .. Len(said) : /\ said[i].role \in {"user", "assistant", "model"}
                                  /\ said[i].role \notin {"system"}
    BY <2>2
  <2>4. Texts(said, {"user", "assistant", "model"}) = said /\ Texts(said, {"system"}) = <<>>
    BY <1>2, <2>3, AllTaken, NoneTaken
  <2> QED
    BY <1>1, <1>3, <2>1, <2>4 DEF Faithful, sys, said
<1>5. CASE p = "gemini"
  <2> DEFINE told == ForGemini(said)
  <2>1. Body(p, msgs) = [provider |-> p, system |-> sys, turns |-> told]
    BY <1>5 DEF Body, ForGemini
  <2>2. told \in Seq(GeminiMessage) /\ Heard(told) = said
    BY <1>2, GeminiHears
  <2> HIDE DEF sys, said, told
  <2>3. \A i \in 1 .. Len(told) : told[i].role \in {"user", "model"}
    <3>1. \A i \in 1 .. Len(told) : told[i] \in GeminiMessage
      BY <2>2
    <3>2. \A m \in GeminiMessage : m.role \in {"user", "model"}
      BY DEF GeminiMessage
    <3> QED
      BY <3>1, <3>2
  <2>4. \A i \in 1 .. Len(told) : /\ told[i].role \in {"user", "assistant", "model"}
                                  /\ told[i].role \notin {"system"}
    BY <2>3
  <2>5. Texts(told, {"user", "assistant", "model"}) = told /\ Texts(told, {"system"}) = <<>>
    BY <2>2, <2>4, AllTaken, NoneTaken
  <2> QED
    BY <1>1, <2>1, <2>2, <2>5 DEF Faithful, sys, said
<1>6. CASE p \notin {"anthropic", "gemini"}
  <2>1. Body(p, msgs) = [provider |-> p, system |-> <<>>, turns |-> msgs]
    BY <1>6 DEF Body
  <2>2. \A i \in 1 .. Len(msgs) : msgs[i].role \in {"system", "user", "assistant"}
    <3>1. \A i \in 1 .. Len(msgs) : msgs[i] \in ChatMessage
      OBVIOUS
    <3>2. \A m \in ChatMessage : m.role \in {"system", "user", "assistant"}
      BY DEF ChatMessage
    <3> QED
      BY <3>1, <3>2
  <2>3. \A i \in 1 .. Len(msgs) : msgs[i].role \in {"user", "assistant", "model"}
                                 <=> msgs[i].role \in {"user", "assistant"}
    BY <2>2
  <2>4. Texts(msgs, {"user", "assistant", "model"}) = said
    BY <2>3, SameTaken
  <2> HIDE DEF sys, said
  <2> QED
    BY <1>1, <1>3, <2>1, <2>4 DEF Faithful, sys, said
<1> QED
  BY <1>4, <1>5, <1>6

\* Whichever provider a prompt of any length goes to, every system text and every
\* turn gets there, in order and with its speaker.
THEOREM PromptsArriveWhole == Spec => []NothingSaidIsLost
<1>1. GInv => NothingSaidIsLost
  <2> SUFFICES ASSUME GInv, Called, NEW body \in call.wire
               PROVE  Faithful(body, call.msgs)
    BY Zenon DEF NothingSaidIsLost, Faithful, Heard
  <2>1. body = Body(call.target.provider, call.msgs) /\ call.msgs \in Prompts
        /\ call.target.provider \in Providers
    BY CalledIsOK DEF CallOK, OnTheWire, Calls, Targets
  <2>2. call.msgs \in Seq(ChatMessage)
    <3>1. <<>> \in Seq(ChatMessage)
      OBVIOUS
    <3> QED
      BY <2>1, <3>1, MessageAssumption DEF Prompts
  <2> QED
    BY <2>1, <2>2, BodyIsFaithful
<1> QED
  BY <1>1, GInvHolds, PTL
=============================================================================
