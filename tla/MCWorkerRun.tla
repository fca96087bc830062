----------------------------- MODULE MCWorkerRun -----------------------------
(***************************************************************************)
(* Instances of WorkerRun for TLC.  The command lines vary a few options   *)
(* at a time, everything else left out; those parseArguments refuses never *)
(* start.  A run sees one kind of outage; on the ladder that kind depends   *)
(* on the keys configured.                                                 *)
(***************************************************************************)
EXTENDS WorkerRun

Bare ==
  [route |-> NoAlias, mode |-> Null, phase |-> Null, deployAuthorized |-> Null, slug |-> Null,
   orchestrator |-> Null, backend |-> Null, effort |-> Null, workerModel |-> Null,
   class |-> NoClass, evidence |-> {}, policy |-> Null, fallback |-> Null]

\* Automatic runs: every phase, every class, evidence in place of one.
Automatic ==
  {[Bare EXCEPT !.mode = m, !.phase = p, !.class = c, !.deployAuthorized = d, !.policy = v] :
     m \in Modes, p \in TaskPhases \cup {Null}, c \in WorkloadClasses \cup {NoClass},
     d \in {Null, "true"}, v \in {Null, "runner-routing-v4"}}
  \cup {[Bare EXCEPT !.mode = "implement", !.evidence = {e}] :
          e \in {Evidence({}, [toolCalls |-> 50]), Evidence({"authBoundary"}, [relevantFiles |-> 25])}}
  \cup {[Bare EXCEPT !.mode = "analyze", !.slug = s] : s \in {"slug", "nobody"}}
\* Pins: every public alias, with an effort.
Pinned ==
  {[Bare EXCEPT !.route = r, !.effort = e] :
     r \in ExecutableRoutes \cup {TASTE_REVIEW_ALIAS}, e \in {Null, "none", "low"}}
  \cup {[Bare EXCEPT !.route = r, !.backend = b, !.workerModel = w, !.slug = "slug"] :
          r \in {<<"opus", "explore">>, <<"glm-5.2", "explore">>}, b \in {Null, "claude"}, w \in {Null, "m"}}
Economy ==
  {[Bare EXCEPT !.orchestrator = "eco", !.mode = m, !.route = r, !.backend = b, !.effort = e, !.slug = s] :
     m \in Modes, r \in {NoAlias, <<"opus", "explore">>, <<"sol", "check">>}, b \in {Null, "claude"},
     e \in {Null, "high"}, s \in {Null, "slug"}}
Direct ==
  {[Bare EXCEPT !.backend = b, !.mode = m, !.effort = e, !.fallback = f, !.slug = s] :
     b \in Backends \cup {Null, "nobody"}, m \in Modes, e \in {Null, "high"},
     f \in {Null, "claude"}, s \in {Null, "slug"}}
  \cup {[Bare EXCEPT !.mode = m, !.workerModel = "m", !.fallback = f, !.class = c] :
          m \in Modes, f \in {Null, "claude"}, c \in {NoClass, <<"easy", "light">>}}

Surroundings(keys, ambient, policy, outcomes) ==
  [minimax |-> "minimax" \in keys, kimi |-> "kimi" \in keys, ambient |-> ambient,
   fallback |-> Null, retryPolicy |-> policy, outcomes |-> outcomes]
OneOutage ==
  {Surroundings({}, TRUE, p[1], {"completed", "budget", "malformed", p[2]}) :
     p \in {<<"off", "process_failure">>, <<"off", "unfound">>, <<"active", "auth">>}}
OnLadder ==
  {Surroundings(k, FALSE, "shadow", {"completed", "budget", "malformed"} \cup
                                      IF "kimi" \in k THEN {"usage_limit"} ELSE {"missing_binary"}) :
     k \in SUBSET {"minimax", "kimi"}}

TheTrials ==
  [options : Automatic \cup Pinned, env : OneOutage] \cup [options : Economy \cup Direct, env : OnLadder]

TheRequests ==
  {requestOf(s, policy) :
     s \in CANDIDATE_STACKS \cup {PUBLIC_ALIAS_CANDIDATE_STACKS[a] : a \in Aliases}, policy \in Policies}
Shipped == {MODEL_REGISTRY}
TheAnswers ==
  {dispositionFor(c) : c \in RetryableClasses \cup TerminalClasses} \cup {Unclassified}
==============================================================================
