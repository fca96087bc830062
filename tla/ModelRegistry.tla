--------------------------- MODULE ModelRegistry ---------------------------
(***************************************************************************)
(* Registry entries, the candidate stacks over them, and the validator     *)
(* that decides whether the two may ship together (model-schema.ts,        *)
(* candidate-stacks.ts, validate-registry.ts).  A registry is a sequence   *)
(* of entries, since a later entry wins a shared label; an error is a      *)
(* <<code, subject>> pair and a validation is the set of its errors.       *)
(***************************************************************************)
EXTENDS RoutingVocabulary, Functions

NoBackend == {Null, "claude-code-parent"}
Elements(s) == {s[i] : i \in DOMAIN s}

(* model-schema.ts *)

\* What an adapter is called, by the backend it drives.
AdapterOf(backend) ==
  CASE backend = "codex" -> "codex-exec"
    [] backend \in {"claude", "kimi", "minimax"} -> "claude-cli"
    [] backend = "composer" -> "cursor-agent"
    [] OTHER -> backend

\* An entry that claims the given routes, with the sandboxes and the output
\* contracts they need.  labels: the names it answers to, in lower case;
\* evidence: the gated claims are verified; identity: model id, adapter,
\* version and account scope are known.
ModelDefinition(id, provider, backend, maturity, routes, model, labels) ==
  [stableId |-> id, servingProvider |-> provider, transportBackend |-> backend,
   adapterId |-> AdapterOf(backend), providerModelId |-> model, maturity |-> maturity,
   routeEligibility |-> routes,
   sandboxPermissionSupport |-> IF routes = {} THEN {} ELSE Sandboxes,
   outputContracts |-> {CAPABILITY_ROUTES[r].outputContract : r \in routes},
   priceBand |-> Null, roleRestriction |-> Null, labels |-> labels \cup {id},
   evidence |-> model # Null, identity |-> model # Null, glm |-> FALSE,
   fixedEffort |-> Null, supportedEfforts |-> <<Null>>]

rungId(rung) == <<rung.stableId, rung.effort>>
Rung(id, effort) == [stableId |-> id, effort |-> effort]

supportedEffortsFor(entry) ==
  IF entry.supportedEfforts # <<Null>> THEN Elements(entry.supportedEfforts)
  ELSE IF entry.transportBackend \in NoBackend THEN {}
  ELSE BACKEND_SUPPORTED_EFFORTS[entry.transportBackend]

selectableEffortsFor(entry) ==
  IF entry.fixedEffort # Null THEN {entry.fixedEffort}
  ELSE IF supportedEffortsFor(entry) = {} THEN {"none"}
  ELSE supportedEffortsFor(entry)

effortsSupportedOnBackend(backend, registry) ==
  UNION {supportedEffortsFor(e) : e \in {x \in Elements(registry) : x.transportBackend = backend}}

\* The entries under an id: the last one, as a Map built from the array keeps.
Known(registry, id) == \E i \in DOMAIN registry : registry[i].stableId = id
registryIndex(registry, id) ==
  registry[CHOOSE i \in DOMAIN registry :
             /\ registry[i].stableId = id
             /\ \A j \in DOMAIN registry : registry[j].stableId = id => j <= i]

(* candidate-stacks.ts *)

\* rungs is the traversal order; candidates its models, first mention first.
CandidateStack(route, phase, class, rungs, automatic) ==
  [route |-> route, phase |-> phase, workloadClass |-> class, rungs |-> rungs,
   automaticFallback |-> automatic]

\* Automatic chains carry the emergency tail of the policy.
v4Stack(route, phase, class, chain, tail) == CandidateStack(route, phase, class, chain \o tail, TRUE)

\* Without an alias: the stack of the route's phase, and for implement of the
\* workload class too.  There is no default class; no stack is the empty set.
candidateStackFor(stacks, route, phase, class) ==
  LET resolved == IF phase # Null THEN phase
                  ELSE CASE route = CHECK -> "verify" [] route = IMPLEMENT -> "implement" [] OTHER -> "explore"
  IN  {s \in stacks :
         /\ s.route = route
         /\ s.phase \in {resolved, Null}
         /\ resolved = "implement" => s.workloadClass = class}

(* validate-registry.ts *)

GlmOk(entry) ==
  /\ entry.servingProvider = "OpenCode Go"
  /\ entry.transportBackend = "opencode"
  /\ entry.adapterId = "opencode"

\* GLM weights are served by OpenCode Go only; a retired entry that no route
\* names may keep its history.
glmProviderBoundaryViolations(entry) ==
  /\ entry.glm
  /\ ~ (entry.maturity \in {"planned", "disabled"} /\ entry.routeEligibility = {})
  /\ entry.routeEligibility # {} \/ entry.maturity \in RunnableMaturities
  /\ ~ GlmOk(entry)

LabelErrors(registry) ==
  {<<"DUPLICATE_STABLE_ID", registry[i].stableId>> :
     i \in {j \in DOMAIN registry : \E k \in DOMAIN registry :
              k < j /\ registry[k].stableId = registry[j].stableId}}
  \cup {<<"AMBIGUOUS_ALIAS", registry[i].stableId>> :
          i \in {j \in DOMAIN registry : \E k \in DOMAIN registry :
                   /\ k < j /\ registry[k].stableId # registry[j].stableId
                   /\ registry[k].labels \cap registry[j].labels # {}}}

\* An override may narrow what the adapter can do, never widen it.
EffortErrors(entry) ==
  LET declared == entry.supportedEfforts
      adapter == IF entry.transportBackend \in NoBackend THEN {}
                 ELSE BACKEND_SUPPORTED_EFFORTS[entry.transportBackend]
  IN  IF declared = <<Null>> THEN {}
      ELSE {<<"UNKNOWN_EFFORT_LEVEL", e>> : e \in Elements(declared) \ Efforts}
           \cup {<<"EFFORT_UNSUPPORTED_BY_BACKEND", e>> : e \in (Elements(declared) \cap Efforts) \ adapter}
           \cup IF IsInjective(declared) THEN {} ELSE {<<"DUPLICATE_EFFORT_LEVEL", entry.stableId>>}

\* A route an entry claims needs that route's sandbox and output contract.
ClaimErrors(entry) ==
  {<<"UNKNOWN_ROUTE_VERSION", r>> : r \in entry.routeEligibility \ RouteIds}
  \cup {<<"UNKNOWN_SANDBOX_VALUE", s>> : s \in entry.sandboxPermissionSupport \ Sandboxes}
  \cup {<<"UNSUPPORTED_SANDBOX_CLAIM", entry.stableId>> :
          r \in {x \in entry.routeEligibility \cap RouteIds :
                   \/ CAPABILITY_ROUTES[x].sandbox \notin entry.sandboxPermissionSupport
                   \/ CAPABILITY_ROUTES[x].outputContract \notin entry.outputContracts}}

\* Gates on what may be route-eligible at all.
EligibilityErrors(entry) ==
  IF entry.routeEligibility = {} THEN {}
  ELSE IF entry.maturity \in RunnableMaturities
       THEN IF entry.evidence /\ entry.identity THEN {}
            ELSE {<<"RUNNABLE_MISSING_EVIDENCE", entry.stableId>>}
       ELSE {<<"PLANNED_ROUTE_ELIGIBLE", entry.stableId>>}
EntryErrors(entry) ==
  EffortErrors(entry) \cup ClaimErrors(entry) \cup EligibilityErrors(entry)
  \cup IF entry.roleRestriction = "parent-only" /\ entry.routeEligibility # {}
       THEN {<<"PARENT_ONLY_ROUTE_ELIGIBLE", entry.stableId>>} ELSE {}
  \cup IF glmProviderBoundaryViolations(entry)
       THEN {<<"GLM_PROVIDER_BOUNDARY", entry.stableId>>} ELSE {}

RungErrors(registry, stack, rung) ==
  IF rung.effort \notin Efforts THEN {<<"UNKNOWN_EFFORT_LEVEL", rung.stableId>>}
  ELSE IF ~ Known(registry, rung.stableId) THEN {<<"FALLBACK_CYCLE", rung.stableId>>}
  ELSE LET entry == registryIndex(registry, rung.stableId)
       IN  (IF rung.effort \in {"none", entry.fixedEffort} \cup supportedEffortsFor(entry)
            THEN {} ELSE {<<"EFFORT_UNSUPPORTED_BY_BACKEND", rung.stableId>>})
           \cup (IF stack.route \in entry.routeEligibility THEN {}
                 ELSE {<<"STACK_CANDIDATE_NOT_ELIGIBLE", rung.stableId>>})
           \cup (IF stack.automaticFallback /\ entry.roleRestriction # Null
                 THEN {<<"ROLE_RESTRICTED_AUTOMATIC_FALLBACK", rung.stableId>>} ELSE {})

StackErrors(registry, stack) ==
  (IF stack.route \in RouteIds THEN {} ELSE {<<"UNKNOWN_ROUTE_VERSION", stack.route>>})
  \cup (IF IsInjective(stack.rungs) THEN {} ELSE {<<"DUPLICATE_RUNG", stack.route>>})
  \cup UNION {RungErrors(registry, stack, r) : r \in Elements(stack.rungs)}

validateModelRegistry(registry, stacks) ==
  LabelErrors(registry)
  \cup (UNION {EntryErrors(e) : e \in Elements(registry)})
  \cup (UNION {StackErrors(registry, s) : s \in stacks})
==============================================================================
