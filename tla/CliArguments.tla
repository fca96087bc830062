---------------------------- MODULE CliArguments ----------------------------
(***************************************************************************)
(* What `arc-orchestrator run` accepts (parseArguments of cli.ts), and the *)
(* profiles it resolves (routes.ts).  The options are a record: Null or    *)
(* NoClass stands for an option left out, "nobody" for a word outside its  *)
(* vocabulary.  parseArguments gives a set: what the engine is asked to    *)
(* run, or nothing when the command line is refused.                       *)
(***************************************************************************)
EXTENDS ShippedPolicy, WorkloadProfile

NoAlias == NoClass
Identities == {"fable", "sol", "eco", "opus", "cursor-fable-high"}
ExecutableRoutes == {<<b.base, s>> : b \in RouteBindings, s \in Suffixes}
BindingOf(alias) == CHOOSE b \in RouteBindings : b.base = alias[1]
ModelOf(stableId) == registryIndex(MODEL_REGISTRY, stableId).providerModelId

(* Profiles: the model a worker runs and the sandbox it runs in. *)

Profile(model, sandbox) == [model |-> model, sandbox |-> sandbox]
\* Review is read-only on every transport; the rest may write.
sandboxFor(mode) == IF mode = "review" THEN "read-only" ELSE "workspace-write"
\* A slug asks an analyze worker for one artifact it may write.
workerArtifactCapability(mode, slug) == mode = "analyze" /\ slug # Null
containment(backend) ==
  CASE backend \in {"claude", "minimax", "kimi", "opencode"} -> "path-scoped"
    [] backend = "codex" -> "repo-root"
    [] OTHER -> "prompt-only"
applyWorkerArtifactProfile(profile, mode, slug) ==
  IF workerArtifactCapability(mode, slug) THEN [profile EXCEPT !.sandbox = "workspace-write"] ELSE profile

\* Ambient model variables rewrite what a backend runs by default.
backendDefaultModel(env, backend, mode) ==
  CASE env.ambient -> "ambient"
    [] ~ env.ambient /\ backend = "composer" -> "composer-2.5"
    [] ~ env.ambient /\ backend = "claude" -> "claude-opus-5-5"
    [] ~ env.ambient /\ backend = "minimax" -> "MiniMax-M3"
    [] ~ env.ambient /\ backend = "opencode" -> "moonshotai/kimi-k3"
    [] ~ env.ambient /\ backend = "kimi" -> "kimi-k3[1m]"
    [] OTHER -> IF mode = "analyze" THEN "gpt-6-luna" ELSE "gpt-6.1-sol"
grokModelFor(env) == IF env.ambient THEN "ambient" ELSE "grok-4.7-high"
\* Slip: the Grok tier takes Composer's own profile, sandbox and all.
grokProfileOfComposer(env, mode) == Profile(grokModelFor(env), "workspace-write")
grokProfileFor(env, mode) == Profile(grokModelFor(env), sandboxFor(mode))

\* An explicit route pins its model; Composer alone has no read-only default.
resolveProfile(env, backend, mode, route, slug) ==
  applyWorkerArtifactProfile(
    CASE route \in ExecutableRoutes ->
           Profile(ModelOf(BindingOf(route).stableId), sandboxFor(ModeOfAlias(route)))
      [] route \notin ExecutableRoutes /\ backend = "composer" ->
           Profile(backendDefaultModel(env, "composer", mode), "workspace-write")
      [] OTHER -> Profile(backendDefaultModel(env, backend, mode), sandboxFor(mode)),
    mode, slug)

(* The economy routes: one pinned alias for each mode, and its backup. *)

EcoRoute(base, mode) ==
  LET alias == <<base, CASE mode = "analyze" -> "explore" [] mode = "implement" -> "implement" [] OTHER -> "check">>
  IN  [route |-> alias, backend |-> BindingOf(alias).backend, stableId |-> BindingOf(alias).stableId,
       profile |-> Profile(ModelOf(BindingOf(alias).stableId), sandboxFor(mode))]
ECO_ROUTES == [m \in Modes |-> EcoRoute(IF m = "implement" THEN "composer" ELSE "opus", m)]
ecoBackupFor(mode) == EcoRoute("cursor-auto", mode)

(* What the options come to. *)

isEco(a) == a.orchestrator = "eco"
modeOf(a) ==
  IF a.mode # Null THEN a.mode ELSE IF a.route \in ExecutableRoutes THEN ModeOfAlias(a.route) ELSE Null
statedPhase(a) == normalizeTaskPhase(a.phase, modeOf(a))
effectiveRoute(a) == IF isEco(a) THEN ECO_ROUTES[modeOf(a)].route ELSE a.route
\* The parent analyses by itself; a bare automatic analyze run explores.
automaticAnalyzeIntent(a) ==
  /\ statedPhase(a) = "analyze" /\ effectiveRoute(a) = NoAlias
  /\ a.backend = Null /\ a.workerModel = Null /\ ~ isEco(a)
phaseOf(a) == IF automaticAnalyzeIntent(a) THEN "explore" ELSE statedPhase(a)
backendOf(a) ==
  CASE isEco(a) -> ECO_ROUTES[modeOf(a)].backend
    [] ~ isEco(a) /\ a.backend # Null -> a.backend
    [] OTHER -> IF a.route = NoAlias THEN "codex" ELSE BindingOf(a.route).backend
classOf(a) ==
  IF phaseOf(a) = "implement"
  THEN resolveWorkloadClass([phase |-> "implement", class |-> a.class, evidence |-> a.evidence])
  ELSE a.class
resolveRoutingIntent(a) ==
  CASE isEco(a) -> "economy"
    [] ~ isEco(a) /\ a.route # NoAlias -> "explicit"
    [] OTHER -> IF a.workerModel # Null \/ a.backend # Null THEN "direct" ELSE "automatic"
resolveFallback(a, env) == IF a.fallback = "claude" \/ env.fallback = "claude" THEN "claude" ELSE Null

(* What is refused. *)

ModeAndRouteOk(a) == a.route \in ExecutableRoutes \cup {NoAlias} /\ modeOf(a) \in Modes
PhaseOk(a) ==
  /\ statedPhase(a) # Null
  /\ IF statedPhase(a) = "deploy" THEN a.deployAuthorized = "true" ELSE a.deployAuthorized = Null
  /\ ~ (automaticAnalyzeIntent(a) /\ a.phase # Null)
SlugOk(a) == a.slug # Null => a.slug # "nobody" /\ statedPhase(a) # "deploy" /\ modeOf(a) = "analyze"
IdentityOk(a) ==
  /\ a.orchestrator \in Identities \cup {Null}
  /\ isEco(a) => /\ a.route \in {NoAlias, effectiveRoute(a)}
                 /\ a.backend \in {Null, backendOf(a)}
                 /\ a.workerModel = Null
BackendOk(a) ==
  /\ backendOf(a) \in Backends
  /\ a.route # NoAlias => BindingOf(a.route).backend = backendOf(a) /\ ModeOfAlias(a.route) = modeOf(a)
EffortOk(a) ==
  a.effort # Null =>
    a.effort \in effortsSupportedOnBackend(backendOf(a), MODEL_REGISTRY) /\ resolveRoutingIntent(a) # "automatic"
WorkerModelOk(a) == a.workerModel # "nobody" /\ (a.workerModel # Null => a.route = NoAlias)
\* Slip: a workload class is optional.
ClassValid(a) ==
  /\ a.class \in WorkloadClasses \cup {NoClass}
  /\ phaseOf(a) # "implement" => a.class = NoClass
ClassOk(a) ==
  /\ a.class \in WorkloadClasses \cup {NoClass}
  /\ phaseOf(a) # "implement" => a.class = NoClass
  /\ phaseOf(a) = "implement" =>
       classOf(a) # NoClass \/ effectiveRoute(a) # NoAlias \/ a.backend # Null
\* Composer can enforce a review only under a read-only profile.
ComposerReviewOk(a, env) ==
  backendOf(a) = "composer" /\ modeOf(a) = "review" =>
    resolveProfile(env, "composer", "review", effectiveRoute(a), a.slug).sandbox = "read-only"
resolveRoutingPolicyMarker(a) ==
  a.policy # Null => a.policy = "runner-routing-v4" /\ resolveRoutingIntent(a) = "automatic"

Accepted(a, env) ==
  /\ ModeAndRouteOk(a) /\ PhaseOk(a) /\ SlugOk(a) /\ IdentityOk(a)
  /\ BackendOk(a) /\ EffortOk(a) /\ WorkerModelOk(a) /\ ClassOk(a)
  /\ ComposerReviewOk(a, env) /\ resolveRoutingPolicyMarker(a)
  /\ {a.fallback, env.fallback} \subseteq {Null, "claude"}

parseArguments(a, env) ==
  IF Accepted(a, env)
  THEN {[backend |-> backendOf(a), mode |-> modeOf(a), phase |-> phaseOf(a), slug |-> a.slug,
         class |-> classOf(a), effort |-> a.effort, workerModel |-> a.workerModel,
         alias |-> effectiveRoute(a), eco |-> isEco(a), intent |-> resolveRoutingIntent(a),
         fallback |-> resolveFallback(a, env)]}
  ELSE {}
==============================================================================
