-------------------------- MODULE WorkloadProfile --------------------------
(***************************************************************************)
(* The Workload Profiler of workload-profile.ts: structured evidence about *)
(* a task, and the workload class it implies when nobody named one.        *)
(* Evidence is the flags raised and the counts given.                      *)
(***************************************************************************)
EXTENDS RoutingVocabulary

HardFlags == {"architectureChange", "schemaChange", "authBoundary", "securitySensitive",
              "concurrency", "distributedState", "crossLanguage"}
MediumFlags == {"apiBoundary", "crossPackage", "unfamiliarFramework", "unclearOwnership"}
MediumFrom == [f \in {"dependencyDepth", "failingTests", "estimatedFiles"} |->
                 CASE f = "dependencyDepth" -> 3 [] f = "failingTests" -> 5 [] OTHER -> 8]
\* field -> <<heavy from, medium from>>
VolumeFrom ==
  [f \in {"relevantFiles", "estimatedFiles", "estimatedLines", "packages",
          "independentWorkstreams", "toolCalls", "testSurface"} |->
     CASE f = "relevantFiles" -> <<25, 8>> [] f = "estimatedFiles" -> <<12, 4>>
       [] f = "estimatedLines" -> <<800, 200>> [] f = "toolCalls" -> <<40, 15>>
       [] f = "testSurface" -> <<20, 6>> [] OTHER -> <<3, 2>>]
Evidence(flags, counts) == [flags |-> flags, counts |-> counts]

\* Execution and session evidence alone say nothing about the task.
DescribesTask == {"relevantFiles", "packages", "languages", "dependencyDepth",
                  "estimatedFiles", "estimatedLines"}
hasSufficientEvidence(evidence) ==
  evidence.flags # {} \/ DOMAIN evidence.counts \cap DescribesTask # {}

failuresIn(evidence) ==
  IF "previousFailures" \in DOMAIN evidence.counts THEN evidence.counts["previousFailures"] ELSE 0
mediumSignals(evidence) ==
  Cardinality(evidence.flags \cap MediumFlags)
  + Cardinality({f \in DOMAIN evidence.counts \cap DOMAIN MediumFrom : evidence.counts[f] >= MediumFrom[f]})
  + IF failuresIn(evidence) = 1 THEN 1 ELSE 0
difficultyOf(evidence) ==
  IF evidence.flags \cap HardFlags # {} \/ failuresIn(evidence) >= 2 \/ mediumSignals(evidence) >= 2
  THEN "hard" ELSE IF mediumSignals(evidence) = 1 THEN "medium" ELSE "easy"
reachesTier(evidence, tier) ==
  \E f \in DOMAIN evidence.counts \cap DOMAIN VolumeFrom : evidence.counts[f] >= VolumeFrom[f][tier]
profileWorkload(evidence) ==
  <<difficultyOf(evidence),
    IF reachesTier(evidence, 1) THEN "heavy" ELSE IF reachesTier(evidence, 2) THEN "medium" ELSE "light">>

\* Explicit wins; a profile routes implement only, and only on enough evidence.
resolveWorkloadClass(c) ==
  IF c.class # NoClass THEN c.class
  ELSE IF c.phase = "implement" /\ \E e \in c.evidence : hasSufficientEvidence(e)
  THEN profileWorkload(CHOOSE e \in c.evidence : TRUE)
  ELSE NoClass
==============================================================================
