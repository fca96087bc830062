------------------------- MODULE RoutingVocabulary -------------------------
(***************************************************************************)
(* The closed vocabularies and route contracts of packages/routing-core    *)
(* that every other routing module speaks: modes and phases, workload      *)
(* classes, efforts, backends, capability routes, and the classification   *)
(* of a worker's failure into what may advance a fallback chain.           *)
(***************************************************************************)
EXTENDS Sequences, FiniteSets, Naturals

Backends == {"codex", "claude", "composer", "minimax", "kimi", "opencode"}
Efforts == {"none", "low", "medium", "high", "xhigh", "max"}
Modes == {"analyze", "implement", "review"}
Sandboxes == {"read-only", "workspace-write"}
Null == "null"

\* Every phase a task can be in, with the worker mode that carries it out.
PHASE_MODE ==
  [p \in {"explore", "analyze", "research", "plan", "implement", "verify", "deploy"} |->
     CASE p = "verify" -> "review"
       [] p \in {"implement", "deploy"} -> "implement"
       [] OTHER -> "analyze"]
TaskPhases == DOMAIN PHASE_MODE
WorkerPhases == TaskPhases \ {"analyze", "implement"}

\* A stated phase must belong to the mode; an unstated one is the mode's own.
normalizeTaskPhase(phase, mode) ==
  IF phase = Null THEN IF mode = "review" THEN "verify" ELSE mode
  ELSE IF phase \in TaskPhases /\ PHASE_MODE[phase] = mode THEN phase ELSE Null

Difficulties == {"hard", "medium", "easy"}
Volumes == {"heavy", "medium", "light"}
\* A workload class is a pair; the code joins the two words with a hyphen.
WorkloadClasses == Difficulties \X Volumes
NoClass == <<Null, Null>>

RunnableMaturities == {"experimental", "available", "deprecated"}
Maturities == RunnableMaturities \cup {"planned", "disabled"}

(* Capability routes: the contract a dispatched worker must satisfy. *)

EXPLORE == "explore.read-only.v1"
IMPLEMENT == "implement.workspace-write.v1"
CHECK == "check.read-only.v1"
TASTE == "taste-review.read-only.v1"

RouteContract(mode, sandbox, output) ==
  [mode |-> mode, sandbox |-> sandbox, outputContract |-> output]
CAPABILITY_ROUTES ==
  [r \in {EXPLORE, IMPLEMENT, CHECK, TASTE} |->
     CASE r = EXPLORE -> RouteContract("analyze", "workspace-write", "exploration-result.v1")
       [] r = IMPLEMENT -> RouteContract("implement", "workspace-write", "implementation-result.v1")
       [] r = CHECK -> RouteContract("review", "read-only", "correctness-review-result.v1")
       [] r = TASTE -> RouteContract("review", "read-only", "taste-review-result.v1")]
RouteIds == DOMAIN CAPABILITY_ROUTES

Suffixes == {"explore", "implement", "check"}
CAPABILITY_ROUTE_BY_SUFFIX ==
  [s \in Suffixes |-> CASE s = "explore" -> EXPLORE [] s = "implement" -> IMPLEMENT [] s = "check" -> CHECK]
\* A public alias is a base name and a suffix; TASTE_REVIEW_ALIAS has neither.
TASTE_REVIEW_ALIAS == <<"opus-review", Null>>
ModeOfAlias(alias) == CAPABILITY_ROUTES[CAPABILITY_ROUTE_BY_SUFFIX[alias[2]]].mode

(* Efforts a backend's adapter can forward. *)
BACKEND_SUPPORTED_EFFORTS ==
  [b \in Backends |-> IF b \in {"composer", "opencode"} THEN {} ELSE Efforts]

(* Failure classification. *)

OutageReasons ==
  {"usage_limit", "auth", "missing_binary", "model_unavailable", "response_timeout", "process_failure"}
RetryableClasses ==
  {"rate_limit", "quota_exhausted", "provider_outage", "timeout", "missing_binary",
   "transient_network_or_adapter"}
TerminalClasses ==
  {"policy_denial", "sandbox_incompatible", "invalid_configuration", "deterministic_validation_error"}

Disposition(kind, class) == [kind |-> kind, class |-> class]
Unclassified == Disposition("terminal-unclassified", Null)
NoDisposition == Disposition(Null, Null)
CompletedLowQuality == Disposition("terminal-completed-low-quality", Null)
Dispositions ==
  {Disposition("retryable", c) : c \in RetryableClasses}
  \cup {Disposition("terminal", c) : c \in TerminalClasses}
  \cup {Unclassified, CompletedLowQuality}

dispositionFor(class) ==
  IF class \in RetryableClasses THEN Disposition("retryable", class)
  ELSE IF class \in TerminalClasses THEN Disposition("terminal", class)
  ELSE Unclassified

\* Authentication is configuration unless the caller vouches that it is passing.
normalizeBackendOutage(reason, demonstratedTransient) ==
  dispositionFor(
    CASE reason = "usage_limit" -> "quota_exhausted"
      [] reason = "missing_binary" -> "missing_binary"
      [] reason = "response_timeout" -> "timeout"
      [] reason \in {"model_unavailable", "process_failure"} -> "provider_outage"
      [] reason = "auth" /\ demonstratedTransient -> "transient_network_or_adapter"
      [] OTHER -> "invalid_configuration")

isRetryableDisposition(disposition) == disposition.kind = "retryable"
==============================================================================
