------------------------- MODULE MCRoutingEvaluation -------------------------
(***************************************************************************)
(* Instances of RoutingEvaluation for TLC: a small registry whose entries  *)
(* differ in what the walk and the selection look at, stacks that are      *)
(* sound, and stacks a validator would refuse.  Listed in id order.        *)
(***************************************************************************)
EXTENDS RoutingEvaluation, TLC

Worker3 == {EXPLORE, IMPLEMENT, CHECK}
Model(id, backend, efforts, band) ==
  [ModelDefinition(id, backend, backend, "available", Worker3, id, {})
     EXCEPT !.supportedEfforts = efforts, !.priceBand = band]

SoundRegistry ==
  <<Model("alpha", "codex", <<"high", "low">>, "low"),
    Model("beta", "claude", <<"high">>, "high"),
    Model("cheap", "composer", <<Null>>, "low"),
    ModelDefinition("disabled", "codex", "codex", "disabled", {}, "disabled", {}),
    ModelDefinition("explorer", "opencode", "opencode", "experimental", {EXPLORE}, "explorer", {}),
    Model("floating", Null, <<Null>>, "low"),
    [Model("guarded", "kimi", <<"high">>, "high") EXCEPT !.roleRestriction = "explicit-parent-authorization"]>>
\* An entry that claims a read-only route without the sandbox for it.
UnsoundRegistry ==
  SoundRegistry \o <<[Model("writer", "codex", <<"high">>, "low")
                        EXCEPT !.sandboxPermissionSupport = {"workspace-write"}]>>

Alpha == Rung("alpha", "high")
AlphaLow == Rung("alpha", "low")
Beta == Rung("beta", "high")
Cheap == Rung("cheap", "none")
ChainOf(c) ==
  CASE c = <<"hard", "heavy">> -> <<Alpha, Beta, Cheap>>
    [] c = <<"hard", "medium">> -> <<Beta, Alpha, Rung("beta", "none"), AlphaLow>>
    [] c = <<"hard", "light">> -> <<Alpha, Beta, Alpha>>
    [] c = <<"medium", "heavy">> -> <<Rung("disabled", "high"), Beta>>
    [] c = <<"medium", "medium">> -> <<Rung("explorer", "none"), Beta>>
    [] c = <<"medium", "light">> -> <<Beta, Rung("ghost", "none")>>
    [] c = <<"easy", "heavy">> -> <<Rung("floating", "none"), Alpha>>
    [] c = <<"easy", "medium">> -> <<Alpha, Rung("disabled", "high"), Cheap>>
    [] c = <<"easy", "light">> -> <<Cheap, Alpha>>
TheStacks ==
  {v4Stack(IMPLEMENT, "implement", c, ChainOf(c), <<>>) : c \in WorkloadClasses}
  \cup {v4Stack(EXPLORE, "explore", NoClass, <<Rung("explorer", "none"), Alpha>>, <<>>),
        v4Stack(CHECK, "verify", NoClass, <<Rung("writer", "high"), Beta>>, <<Cheap>>)}
TheAliases ==
  [a \in {<<"alpha", "implement">>, <<"beta", "check">>, <<"guarded", "implement">>} |->
     CASE a[1] = "alpha" -> CandidateStack(IMPLEMENT, Null, NoClass, <<Alpha>>, FALSE)
       [] a[1] = "beta" -> CandidateStack(CHECK, Null, NoClass, <<Beta>>, FALSE)
       [] OTHER -> CandidateStack(IMPLEMENT, Null, NoClass, <<Rung("guarded", "high")>>, FALSE)]

Asking(phase, alias, class, snapshot, observations, cost, policy) ==
  [phase |-> phase, alias |-> alias, class |-> class, evidence |-> {}, override |-> {},
   excludedRung |-> {}, excludedStableId |-> {}, observations |-> observations, quotas |-> {},
   cost |-> cost, snapshot |-> snapshot, dispatch |-> policy # Null,
   retryPolicy |-> policy, nowMs |-> 3]

Empty == {QuotaObservation("pool", {0}, {}, 2), QuotaObservation("pool", {2}, {}, 1)}
Down(backend) == {Observation(backend, "provider_outage", 2)}
\* A timeout after the outage: the backend is only degraded.
Recovering == {Observation("codex", "provider_outage", 1), Observation("codex", "timeout", 2)}

(* Contexts whose stack is then walked; in the last ones the lead's pool is empty. *)
Pooled == Snapshot(3, <<"alpha", "high">> :> Row({}, {1}, "pool"))
WalkedContexts ==
  {Asking("implement", NoClass, c, emptyCapabilitySnapshot, o, 2, p) :
     c \in WorkloadClasses, o \in {{}, Down("codex")}, p \in Policies}
  \cup {Asking(ph, NoClass, NoClass, emptyCapabilitySnapshot, {}, 2, p) :
          ph \in {"explore", "verify"}, p \in {"off", "active"}}
  \cup {Asking("implement", <<"alpha", "implement">>, NoClass, emptyCapabilitySnapshot, {}, 2, "shadow"),
        Asking("verify", <<"beta", "check">>, NoClass, emptyCapabilitySnapshot, {}, 2, "shadow")}
  \cup {[Asking("implement", NoClass, <<"hard", "heavy">>, Pooled, {}, 3, p) EXCEPT !.quotas = Empty] :
          p \in Policies}

(* Contexts that are only evaluated, under many snapshots. *)
At1(score) == {Measurement("agentic-edit", "cursorbench", score, 1, 9)}
Disputed == {Measurement("agentic-edit", "editorial", 4, 1, 9), Measurement("agentic-edit", "editorial", 7, 1, 9)}
Rows == {Row(ms, usd, Null) : ms \in {{}, At1(4), At1(7)}, usd \in {{}, {1}, {3}}}
Snapshots ==
  {Snapshot(3, (<<"alpha", "high">> :> a) @@ (<<"alpha", "low">> :> l) @@ (<<"beta", "high">> :> b)
               @@ (<<"cheap", "none">> :> c)) :
     a \in Rows, b \in Rows, c \in Rows, l \in {NoRow, Row(At1(4), {1}, Null)}}
OddSnapshots ==
  {Snapshot(w, (<<"alpha", "high">> :> Row(ms, {1}, "pool")) @@ (<<"beta", "high">> :> Row(At1(4), {3}, Null))) :
     w \in {1, 3}, ms \in {At1(7), Disputed, {Measurement("agentic-edit", "cursorbench", 7, 1, 2)}}}
RankedContexts ==
  {Asking("implement", NoClass, <<"hard", "heavy">>, s, o, 2, Null) :
     s \in Snapshots, o \in {{}, Down("codex"), Recovering}}
OddContexts ==
  LET plain(s, q) == [Asking("implement", NoClass, <<"hard", "medium">>, s, {}, 3, Null) EXCEPT !.quotas = q]
  IN  {plain(s, q) : s \in OddSnapshots, q \in {{}, Empty}}
      \cup {[plain(s, {}) EXCEPT !.override = {[stableId |-> i, efforts |-> {}]}] :
              s \in OddSnapshots, i \in {"alpha", "disabled", "nobody"}}
      \cup {[plain(Snapshot(3, <<"guarded", "high">> :> Row(At1(4), {1}, Null)), {})
                EXCEPT !.alias = <<"guarded", "implement">>, !.class = NoClass]}
      \cup {[plain(s, {}) EXCEPT !.excludedStableId = {"beta"}] : s \in OddSnapshots}
      \cup {[plain(s, {}) EXCEPT !.class = NoClass, !.evidence = {e}] :
              s \in OddSnapshots,
              e \in {Evidence({}, [toolCalls |-> 50]),
                     Evidence({"apiBoundary"}, [packages |-> 2, failingTests |-> 5]),
                     Evidence({"authBoundary"}, [relevantFiles |-> 25, previousFailures |-> 1])}}
      \cup {[plain(s, {}) EXCEPT !.phase = "analyze", !.class = NoClass] : s \in OddSnapshots}
      \cup {[plain(s, {}) EXCEPT !.phase = ph, !.alias = al, !.class = NoClass] :
              s \in OddSnapshots, ph \in {"implement", "verify"}, al \in DOMAIN TheAliases}

TheRequests ==
  {Request(s.route, s.rungs, IF s.automaticFallback THEN {} ELSE {1}, p) :
     s \in TheStacks \cup {TheAliases[a] : a \in DOMAIN TheAliases}, p \in Policies}
TheContexts == WalkedContexts \cup RankedContexts \cup OddContexts
BothRegistries == {SoundRegistry, UnsoundRegistry}
TheAnswers ==
  {dispositionFor("provider_outage"), dispositionFor("policy_denial"), Unclassified}
==============================================================================
