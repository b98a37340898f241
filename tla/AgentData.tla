----------------------------- MODULE AgentData -----------------------------
(***************************************************************************)
(* The data of an agent that users choose freely: its model assignment     *)
(* llm_profile and its looks, appearance.  Who checks them: PATCH          *)
(* /agents/:id and the load of the save file, with the validators of       *)
(* llm_profile.rs and appearance.rs.  The database loads rows unchecked.   *)
(*                                                                         *)
(* A JSON object is a function from its keys, a text the sequence of the   *)
(* pieces it reads as: "openai:gpt" is <<"openai", ":", "gpt">>.           *)
(***************************************************************************)
EXTENDS Integers, Sequences, SequencesExt

CONSTANTS
  NotObject, NotText, Null,  \* JSON that is no object, or no text; JSON null
  Absent,                    \* a field a request body leaves out
  Profiles, Appearances,     \* what requests, files and rows may carry
  Seed,                      \* the agent's data in the fixture
  Sources                    \* subset of {"fixture", "db"}: WORLD_SOURCE

Empty == <<>>   \* the object without keys

ASSUME DataAssumption ==
  /\ Empty \in Profiles \ {NotObject} /\ {Absent, Null} \cap Profiles = {}
  /\ Null \notin Appearances /\ Absent \notin Appearances \cup {Null}
  /\ \A v \in Profiles \ {NotObject} : \A k \in DOMAIN v : v[k] # NotText => v[k] \in Seq(STRING)
  /\ Seed \in [profile : Profiles, appearance : Appearances \cup {Null}]
  /\ Sources \subseteq {"fixture", "db"}

VARIABLES
  source,    \* the deployment, fixed
  data       \* the agent's data in the resident world

dataVars == <<source, data>>

-----------------------------------------------------------------------------
(* "provider:model", split at the first colon: models may contain others. *)

Colon(text) == SelectInSeq(text, LAMBDA piece : piece = ":")
ProviderPart(text) == SubSeq(text, 1, Colon(text) - 1)
ModelPart(text) == SubSeq(text, Colon(text) + 1, Len(text))

\* llm_profile.rs restates the providers of the gateway.
KnownProviders == {"anthropic", "openai", "gemini", "ollama", "mock"}

ValidProfile(v) ==
  /\ v # NotObject
  /\ \A k \in DOMAIN v :
       /\ k \in {"L1", "L2", "L3"} /\ v[k] # NotText /\ Colon(v[k]) # 0
       /\ \E p \in KnownProviders : ProviderPart(v[k]) = <<p>>
       /\ ModelPart(v[k]) # <<>>

KnownLayers == {"body", "eyes", "hairstyle", "outfit", "accessory"}

Blank(text) == \A i \in DOMAIN text : text[i] = " "

ValidAppearance(v) ==
  /\ v # NotObject
  /\ \A k \in DOMAIN v :
       /\ k \in KnownLayers
       /\ v[k] # Null => v[k] # NotText /\ ~ Blank(v[k])

\* The fixture is served as it is; the one the repository ships is valid.
ASSUME FixtureAssumption ==
  /\ ValidProfile(Seed.profile)
  /\ Seed.appearance # Null => ValidAppearance(Seed.appearance)

\* A null profile in a body reads as absent; a null appearance clears it.
Patched(d, profile, appearance) ==
  [profile    |-> IF profile \in {Absent, Null} THEN d.profile ELSE profile,
   appearance |-> IF appearance = Absent THEN d.appearance ELSE appearance]

PatchAgent ==
  /\ \E p \in {Absent, Null} \cup {v \in Profiles : ValidProfile(v)},
        a \in {Absent, Null} \cup {v \in Appearances : ValidAppearance(v)} :
       data' = Patched(data, p, a)
  /\ UNCHANGED source

\* Mutants: the load trusts the file; no appearance in the file changes none.
LoadedUnchecked(d) == Patched(Seed, d.profile, d.appearance)

LoadedOverSeed(d) ==
  Patched(Seed,
          IF ValidProfile(d.profile) THEN d.profile ELSE Empty,
          IF d.appearance # Null /\ ValidAppearance(d.appearance) THEN d.appearance ELSE Absent)

\* The save is replayed over the seed as a patch; what the API would have
\* refused is cleared, the rest kept.
Loaded(d) ==
  Patched(Seed,
          IF ValidProfile(d.profile) THEN d.profile ELSE Empty,
          IF d.appearance # Null /\ ValidAppearance(d.appearance) THEN d.appearance ELSE Null)

\* Between two lives of the process anyone may have edited the file or the row.
Stored == [profile : Profiles, appearance : Appearances \cup {Null}]

LoadAgent ==
  /\ data' \in (IF source = "db" THEN Stored ELSE {Seed} \cup {Loaded(d) : d \in Stored})
  /\ UNCHANGED source

DataInit == source \in Sources /\ data = Seed

\* What a fixture world serves the API would accept, whoever edited the file
\* (llm_profile.rs:9-11: a hand-edited file must not "resurrect" anything else).
OnlyValidServed ==
  source = "fixture" =>
    /\ ValidProfile(data.profile)
    /\ data.appearance # Null => ValidAppearance(data.appearance)

\* Saved and loaded again over the seed the data is the same: the next start
\* drops nothing the API accepted and puts back nothing the user cleared.
SavedDataReturns == source = "fixture" => Loaded(data) = data
=============================================================================
