--------------------------- MODULE ShippedPolicy ---------------------------
(***************************************************************************)
(* The data the runner ships with: the model registry of                   *)
(* model-registry.ts and the runner-routing-v4 policy of                   *)
(* model-policy.generated.ts, compiled into candidate stacks the way       *)
(* candidate-stacks.ts compiles them.  Evidence texts, families, versions, *)
(* dates and pricing (absent from every entry) are left out.               *)
(***************************************************************************)
EXTENDS ModelRegistry

Worker3 == {EXPLORE, IMPLEMENT, CHECK}
Available(id, provider, backend, model, labels) ==
  ModelDefinition(id, provider, backend, "available", Worker3, model, labels)
\* A superseded identity, kept for the benchmark snapshots that name it.
Disabled(id, provider, backend, model, labels) ==
  ModelDefinition(id, provider, backend, "disabled", {}, model, labels)
plannedScreenshotEntry(id, label) ==
  ModelDefinition(id, Null, Null, "planned", {}, Null, {label})
openCodeGoEntry(id, model, labels) ==
  Available(id, "OpenCode Go", "opencode", model, labels \cup {model})
openCodeGoGlm(id, model, labels) == [openCodeGoEntry(id, model, labels) EXCEPT !.glm = TRUE]

CursorModels ==
  <<Available("composer-2.5", "Cursor", "composer", "composer-2.5", {"composer 2.5"}),
    Available("cursor-auto", "Cursor", "composer", "auto", {"cursor auto", "auto"})>>
CodexModels ==
  <<Disabled("gpt-5.6-luna", "OpenAI (Codex)", "codex", "gpt-5.6-luna", {"gpt-5.6 luna"}),
    Available("gpt-6-luna", "OpenAI (Codex)", "codex", "gpt-6-luna", {"luna 6", "gpt-6 luna"}),
    Disabled("gpt-5.5", "OpenAI (Codex)", "codex", "gpt-5.5", {})>>
SolModels ==
  <<Disabled("gpt-5.6-sol", "OpenAI (Codex)", "codex", "gpt-5.6-sol", {"gpt-5.6 sol"}),
    Disabled("gpt-6-sol", "OpenAI (Codex)", "codex", "gpt-6-sol", {"sol 6", "gpt-6 sol"}),
    Available("gpt-6.1-sol", "OpenAI (Codex)", "codex", "gpt-6.1-sol", {"sol 6.1", "gpt-6.1 sol"})>>
OpusModels ==
  <<Disabled("opus-5", "Anthropic", "claude", "claude-opus-5", {"opus 5"}),
    ModelDefinition("opus-5.5", "Anthropic", "claude", "available", Worker3 \cup {TASTE},
                    "claude-opus-5-5", {"opus 5.5"}),
    Available("opus-4.8", "Anthropic", "claude", "claude-opus-4-8", {"opus 4.8"})>>
ClaudeModels ==
  <<ModelDefinition("sonnet-5", "Anthropic", "claude", "available", {}, Null, {"sonnet 5"}),
    Available("sonnet-5.5", "Anthropic", "claude", "claude-sonnet-5-5", {"sonnet 5.5"}),
    Disabled("fable-5", "Anthropic", "claude", "claude-fable-5", {"fable 5"}),
    Available("fable-5.1", "Anthropic", "claude", "claude-fable-5-1", {"fable 5.1"})>>
GrokProfiles ==
  <<[Disabled("cursor-grok-4.6-high", "Cursor", "composer", "cursor-grok-4.6-high",
              {"cursor grok 4.6 high", "grok-4.6", "grok 4.6"}) EXCEPT !.fixedEffort = "high"],
    [Available("cursor-grok-4.7-high", "Cursor", "composer", "grok-4.7-high",
               {"cursor grok 4.7 high", "grok-4.7", "grok 4.7"}) EXCEPT !.fixedEffort = "high"],
    plannedScreenshotEntry("haiku-4.5", "haiku 4.5"),
    plannedScreenshotEntry("qwen-3-235b", "qwen 3 235b")>>
CursorProfiles ==
  <<Available("cursor-fable-high", "Cursor", "composer", "claude-fable-5-thinking-high", {"cursor fable"}),
    Available("cursor-fable-medium", "Cursor", "composer", "claude-fable-5-thinking-medium",
              {"cursor fable medium"}),
    Available("cursor-sol-high", "Cursor", "composer", "gpt-5.6-sol-high", {"cursor sol high"})>>
OpenCodeModels ==
  <<[Available("minimax-m3", "MiniMax", "minimax", "MiniMax-M3", {"minimax m3"})
       EXCEPT !.supportedEfforts = <<"low", "high", "max">>],
    plannedScreenshotEntry("kimi-2.6", "kimi 2.6"),
    Available("kimi-k3", "OpenCode", "opencode", "moonshotai/kimi-k3",
              {"kimi k3", "moonshotai/kimi-k3"})>>
OpenCodeGoModels ==
  <<openCodeGoGlm("opencode-go-glm-5.3-flash", "opencode-go/glm-5.3-flash", {"glm 5.3 flash"}),
    openCodeGoGlm("opencode-go-glm-5.3", "opencode-go/glm-5.3", {"glm 5.3"}),
    openCodeGoEntry("opencode-go-deepseek-v4-pro", "opencode-go/deepseek-v4-pro", {}),
    openCodeGoEntry("opencode-go-deepseek-v4-flash", "opencode-go/deepseek-v4-flash", {}),
    openCodeGoEntry("opencode-go-kimi-k3", "opencode-go/kimi-k3", {}),
    openCodeGoEntry("opencode-go-qwen3.8-max", "opencode-go/qwen3.8-max", {"qwen 3.8 max"}),
    openCodeGoEntry("opencode-go-muse-spark-1.2-contributor",
                    "opencode-go/muse-spark-1.2-contributor", {"muse spark 1.2"}),
    openCodeGoGlm("opencode-go-glm-5.2", "opencode-go/glm-5.2", {"glm 5.2"}),
    openCodeGoEntry("opencode-go-kimi-k2.7-code", "opencode-go/kimi-k2.7-code", {"kimi k2.7 code"}),
    openCodeGoEntry("opencode-go-grok-4.6", "opencode-go/grok-4.6", {}),
    openCodeGoEntry("opencode-go-gpt-5.6-luna", "opencode-go/gpt-5.6-luna", {})>>
MoonshotModels ==
  <<[Available("kimi-k3-anthropic", "Moonshot", "kimi", "kimi-k3[1m]", {"kimi-k3[1m]", "kimi k3 anthropic"})
       EXCEPT !.supportedEfforts = <<"medium", "high", "max">>],
    plannedScreenshotEntry("5.4-nano", "5.4 nano"),
    plannedScreenshotEntry("5.4-mini", "5.4 mini"),
    plannedScreenshotEntry("deepseek-v4-flash", "deepseek v4 flash"),
    plannedScreenshotEntry("deepseek-v4-pro", "deepseek v4 pro")>>

MODEL_REGISTRY ==
  CursorModels \o CodexModels \o SolModels \o OpusModels \o ClaudeModels \o GrokProfiles
  \o CursorProfiles \o OpenCodeModels \o OpenCodeGoModels \o MoonshotModels

(* model-policy.generated.ts *)

Binding(base, id, backend, effort) ==
  [base |-> base, stableId |-> id, backend |-> backend, defaultEffort |-> effort]
NamedBindings ==
  {Binding(b, "fable-5.1", "claude", Null) : b \in {"fable", "fable-5.1"}}
  \cup {Binding(b, "gpt-6.1-sol", "codex", Null) : b \in {"sol", "gpt-6.1-sol"}}
  \cup {Binding(b, "gpt-6-luna", "codex", "max") : b \in {"luna", "gpt-6-luna"}}
  \cup {Binding(b, "opus-5.5", "claude", Null) : b \in {"opus", "opus-5.5"}}
  \cup {Binding(b, "cursor-grok-4.7-high", "composer", Null) : b \in {"grok", "grok-4.7"}}
  \cup {Binding(b, "minimax-m3", "minimax", Null) : b \in {"minimax", "minimax-m3"}}
  \cup {Binding(b, "composer-2.5", "composer", Null) : b \in {"composer", "composer-2.5"}}
  \cup {Binding("cursor-auto", "cursor-auto", "composer", Null),
        Binding("sonnet-5.5", "sonnet-5.5", "claude", Null),
        Binding("opus-4.8", "opus-4.8", "claude", Null)}
OpenCodeGoBindings ==
  {Binding(p[1], p[2], "opencode", Null) : p \in
    {<<"glm-5.3-flash", "opencode-go-glm-5.3-flash">>, <<"glm-5.3", "opencode-go-glm-5.3">>,
     <<"deepseek-v4-pro", "opencode-go-deepseek-v4-pro">>,
     <<"deepseek-v4-flash", "opencode-go-deepseek-v4-flash">>,
     <<"go-kimi-k3", "opencode-go-kimi-k3">>, <<"qwen-3.8-max", "opencode-go-qwen3.8-max">>,
     <<"muse-spark-1.2", "opencode-go-muse-spark-1.2-contributor">>,
     <<"glm-5.2", "opencode-go-glm-5.2">>, <<"kimi-k2.7-code", "opencode-go-kimi-k2.7-code">>,
     <<"go-grok-4.6", "opencode-go-grok-4.6">>, <<"go-luna", "opencode-go-gpt-5.6-luna">>}}
RouteBindings == NamedBindings \cup OpenCodeGoBindings

Glm == Rung("opencode-go-glm-5.3", "none")
Flash == Rung("opencode-go-glm-5.3-flash", "none")
Grok == Rung("cursor-grok-4.7-high", "high")
Fable == Rung("fable-5.1", "high")
Sol == Rung("gpt-6.1-sol", "high")
Luna == Rung("gpt-6-luna", "max")
Opus48 == Rung("opus-4.8", "low")
Opus55(effort) == Rung("opus-5.5", effort)
Sonnet(effort) == Rung("sonnet-5.5", effort)

EmergencyTail ==
  <<Rung("opencode-go-kimi-k3", "none"), Rung("minimax-m3", "high"), Rung("composer-2.5", "none")>>
PhaseChains ==
  [p \in WorkerPhases |->
     CASE p = "verify" -> <<Luna, Sonnet("low"), Rung("opencode-go-deepseek-v4-pro", "none"), Opus48, Grok>>
       [] p = "deploy" -> <<Sonnet("low"), Opus48, Grok>>
       [] OTHER -> <<Fable, Sol, Luna, Glm>>]
WorkloadChains ==
  [c \in WorkloadClasses |->
     CASE c = <<"hard", "heavy">> -> <<Fable, Sol, Grok, Glm>>
       [] c \in {<<"hard", "medium">>, <<"hard", "light">>, <<"medium", "heavy">>} -> <<Sol, Grok, Glm>>
       [] c = <<"medium", "medium">> -> <<Opus55("high"), Grok, Glm>>
       [] c = <<"medium", "light">> -> <<Flash, Grok, Opus48, Sonnet("high"), Opus55("high")>>
       [] c = <<"easy", "heavy">> -> <<Flash, Opus55("high"), Luna, Opus48, Opus55("low"), Grok>>
       [] c = <<"easy", "medium">> -> <<Flash, Luna, Opus48, Sonnet("low"), Grok>>
       [] c = <<"easy", "light">> -> <<Flash, Sonnet("low"), Grok>>]
ExcludedModels == {"haiku-4.5", "sonnet-5"}

(* candidate-stacks.ts: every chain with the tail, and the taste-review pin. *)

TASTE_REVIEW_PIN == Rung("opus-5.5", "none")
POLICY_PHASE_ROUTES ==
  [p \in WorkerPhases |-> CASE p = "verify" -> CHECK [] p = "deploy" -> IMPLEMENT [] OTHER -> EXPLORE]
CANDIDATE_STACKS ==
  {v4Stack(IMPLEMENT, "implement", c, WorkloadChains[c], EmergencyTail) : c \in WorkloadClasses}
  \cup {v4Stack(POLICY_PHASE_ROUTES[p], p, NoClass, PhaseChains[p], EmergencyTail) : p \in WorkerPhases}
  \cup {CandidateStack(TASTE, Null, NoClass, <<TASTE_REVIEW_PIN>>, FALSE)}

\* A public alias: one pinned rung at the binding's effort, the model's fixed
\* one, or none.
AliasStack(binding, suffix) ==
  LET fixed == registryIndex(MODEL_REGISTRY, binding.stableId).fixedEffort
      effort == CASE binding.defaultEffort # Null -> binding.defaultEffort
                  [] binding.defaultEffort = Null /\ fixed # Null -> fixed
                  [] OTHER -> "none"
  IN  CandidateStack(CAPABILITY_ROUTE_BY_SUFFIX[suffix], Null, NoClass,
                     <<Rung(binding.stableId, effort)>>, FALSE)
Aliases == {<<b.base, s>> : b \in RouteBindings, s \in Suffixes} \cup {TASTE_REVIEW_ALIAS}
PUBLIC_ALIAS_CANDIDATE_STACKS ==
  [a \in Aliases |->
     IF a = TASTE_REVIEW_ALIAS THEN CandidateStack(TASTE, Null, NoClass, <<TASTE_REVIEW_PIN>>, FALSE)
     ELSE AliasStack(CHOOSE b \in RouteBindings : b.base = a[1], a[2])]

pinnedModelForAlias(alias) == PUBLIC_ALIAS_CANDIDATE_STACKS[alias].rungs[1].stableId
candidateStackForRoute(route, alias, class, phase) ==
  IF alias \in Aliases /\ PUBLIC_ALIAS_CANDIDATE_STACKS[alias].route = route
  THEN {PUBLIC_ALIAS_CANDIDATE_STACKS[alias]}
  ELSE candidateStackFor(CANDIDATE_STACKS, route, phase, class)

\* What the runner asserts when it loads (assertRegistryMatchesPolicy).
registryPolicyDivergences ==
  {b \in RouteBindings :
     \/ ~ Known(MODEL_REGISTRY, b.stableId)
     \/ LET entry == registryIndex(MODEL_REGISTRY, b.stableId)
        IN  \/ entry.transportBackend # b.backend
            \/ entry.maturity # "available"
            \/ b.defaultEffort \notin {Null} \cup selectableEffortsFor(entry)}
  \cup {b \in RouteBindings :
          /\ b.stableId \in ExcludedModels
          /\ \E s \in CANDIDATE_STACKS : \E j \in DOMAIN s.rungs :
               s.automaticFallback /\ s.rungs[j].stableId = b.stableId}
==============================================================================
