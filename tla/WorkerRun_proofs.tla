--------------------------- MODULE WorkerRun_proofs ---------------------------
(***************************************************************************)
(* What WorkerRun promises of every run, proved for every command line,    *)
(* environment and outcome of the workers.  The first half says what the   *)
(* shipped registry, the compiled policy and the command line come to; the *)
(* second half is the inductive invariant, one lemma for each step.        *)
(***************************************************************************)
EXTENDS WorkerRun, FallbackTraversal_proofs

(* Sequences by their elements. *)

LEMMA ConcatElements ==
  ASSUME NEW S, NEW s \in Seq(S), NEW t \in Seq(S)
  PROVE  s \o t \in Seq(S) /\ Elements(s \o t) = Elements(s) \cup Elements(t)
<1>1. /\ s \o t \in Seq(S) /\ Len(s \o t) = Len(s) + Len(t) /\ Len(s) \in Nat /\ Len(t) \in Nat
      /\ DOMAIN s = 1..Len(s) /\ DOMAIN t = 1..Len(t) /\ DOMAIN (s \o t) = 1..(Len(s) + Len(t))
  OBVIOUS
<1>2. \A i \in 1..(Len(s) + Len(t)) : (s \o t)[i] = IF i <= Len(s) THEN s[i] ELSE t[i - Len(s)]
  OBVIOUS
<1>3. \A i \in 1..Len(s) : i \in 1..(Len(s) + Len(t)) /\ (s \o t)[i] = s[i]
  BY <1>1, <1>2
<1>4. \A i \in 1..Len(t) : Len(s) + i \in 1..(Len(s) + Len(t)) /\ (s \o t)[Len(s) + i] = t[i]
  BY <1>1, <1>2
<1>5. \A i \in 1..(Len(s) + Len(t)) : i \in 1..Len(s) \/ i - Len(s) \in 1..Len(t)
  BY <1>1
<1>6. Elements(s \o t) \subseteq Elements(s) \cup Elements(t)
  BY <1>1, <1>2, <1>5 DEF Elements
<1>7. Elements(s) \cup Elements(t) \subseteq Elements(s \o t)
  BY <1>1, <1>3, <1>4 DEF Elements
<1> QED
  BY <1>1, <1>6, <1>7

LEMMA Two ==
  ASSUME NEW a, NEW b
  PROVE  LET s == <<a, b>> IN s \in Seq(Elements(s)) /\ DOMAIN s = 1..2
<1> DEFINE s == <<a, b>>
<1>1. s \in Seq({a, b}) /\ DOMAIN s = 1..2 /\ Elements(s) = {a, b}
  BY DEF Elements
<1> HIDE DEF s
<1>2. s \in Seq(Elements(s)) /\ DOMAIN s = 1..2
  BY <1>1
<1> QED
  BY <1>2 DEF s

LEMMA Three ==
  ASSUME NEW a, NEW b, NEW c
  PROVE  LET s == <<a, b, c>> IN s \in Seq(Elements(s)) /\ DOMAIN s = 1..3
<1> DEFINE s == <<a, b, c>>
<1>1. s \in Seq({a, b, c}) /\ DOMAIN s = 1..3 /\ Elements(s) = {a, b, c}
  BY DEF Elements
<1> HIDE DEF s
<1>2. s \in Seq(Elements(s)) /\ DOMAIN s = 1..3
  BY <1>1
<1> QED
  BY <1>2 DEF s

LEMMA Four ==
  ASSUME NEW a, NEW b, NEW c, NEW d
  PROVE  LET s == <<a, b, c, d>> IN s \in Seq(Elements(s)) /\ DOMAIN s = 1..4
<1> DEFINE s == <<a, b, c, d>>
<1>1. s \in Seq({a, b, c, d}) /\ DOMAIN s = 1..4 /\ Elements(s) = {a, b, c, d}
  BY DEF Elements
<1> HIDE DEF s
<1>2. s \in Seq(Elements(s)) /\ DOMAIN s = 1..4
  BY <1>1
<1> QED
  BY <1>2 DEF s

LEMMA Five ==
  ASSUME NEW a, NEW b, NEW c, NEW d, NEW e
  PROVE  LET s == <<a, b, c, d, e>> IN s \in Seq(Elements(s)) /\ DOMAIN s = 1..5
<1> DEFINE s == <<a, b, c, d, e>>
<1>1. s \in Seq({a, b, c, d, e}) /\ DOMAIN s = 1..5 /\ Elements(s) = {a, b, c, d, e}
  BY DEF Elements
<1> HIDE DEF s
<1>2. s \in Seq(Elements(s)) /\ DOMAIN s = 1..5
  BY <1>1
<1> QED
  BY <1>2 DEF s

LEMMA Eleven ==
  ASSUME NEW a, NEW b, NEW c, NEW d, NEW e, NEW f, NEW g, NEW h, NEW i, NEW j, NEW k
  PROVE  LET s == <<a, b, c, d, e, f, g, h, i, j, k>> IN s \in Seq(Elements(s)) /\ DOMAIN s = 1..11
<1> DEFINE s == <<a, b, c, d, e, f, g, h, i, j, k>>
<1>1. s \in Seq({a, b, c, d, e, f, g, h, i, j, k}) /\ DOMAIN s = 1..11 /\ Elements(s) = {a, b, c, d, e, f, g, h, i, j, k}
  BY DEF Elements
<1> HIDE DEF s
<1>2. s \in Seq(Elements(s)) /\ DOMAIN s = 1..11
  BY <1>1
<1> QED
  BY <1>2 DEF s

(* The shipped registry. *)

GoIds ==
  {"opencode-go-glm-5.3-flash", "opencode-go-glm-5.3", "opencode-go-deepseek-v4-pro",
   "opencode-go-deepseek-v4-flash", "opencode-go-kimi-k3", "opencode-go-qwen3.8-max",
   "opencode-go-muse-spark-1.2-contributor", "opencode-go-glm-5.2", "opencode-go-kimi-k2.7-code",
   "opencode-go-grok-4.6", "opencode-go-gpt-5.6-luna"}
ClaudeIds == {"opus-5.5", "opus-4.8", "sonnet-5.5", "fable-5.1"}
CodexIds == {"gpt-6-luna", "gpt-6.1-sol"}
CursorIds == {"composer-2.5", "cursor-auto", "cursor-grok-4.7-high"}
\* The models that routes and chains name, and what runs them.
RoutedIds == GoIds \cup ClaudeIds \cup CodexIds \cup CursorIds \cup {"minimax-m3"}
BackendOfId(id) ==
  IF id \in GoIds THEN "opencode" ELSE IF id \in ClaudeIds THEN "claude"
  ELSE IF id \in CodexIds THEN "codex" ELSE IF id \in CursorIds THEN "composer" ELSE "minimax"

\* What the entries of a backend take in efforts is the same for all of them.
EffortsOn(backend) ==
  CASE backend = "minimax" -> {"low", "high", "max"} [] backend = "kimi" -> {"medium", "high", "max"}
    [] backend \in {"composer", "opencode"} -> {} [] OTHER -> Efforts
FixedEffortOf(id) == IF id \in {"cursor-grok-4.6-high", "cursor-grok-4.7-high"} THEN "high" ELSE Null

EntryOK(e) ==
  /\ e.fixedEffort = FixedEffortOf(e.stableId)
  /\ e.transportBackend \in Backends => supportedEffortsFor(e) = EffortsOn(e.transportBackend)
  /\ e.stableId \in RoutedIds =>
       /\ e.transportBackend = BackendOfId(e.stableId) /\ e.maturity = "available"
       /\ e.sandboxPermissionSupport = Sandboxes
       /\ \A r \in Worker3 : CAPABILITY_ROUTES[r].outputContract \in e.outputContracts
  /\ e.stableId = "cursor-auto" => e.providerModelId = "auto"
  /\ e.stableId = "composer-2.5" => e.providerModelId = "composer-2.5"

LEMMA RoutedBackends ==
  ASSUME NEW id \in RoutedIds PROVE BackendOfId(id) \in Backends
BY DEF BackendOfId, Backends
Superseded ==
  {"gpt-5.6-luna", "gpt-5.5", "gpt-5.6-sol", "gpt-6-sol", "opus-5", "fable-5", "sonnet-5",
   "cursor-fable-high", "cursor-fable-medium", "cursor-sol-high", "kimi-k3",
   "haiku-4.5", "qwen-3-235b", "kimi-2.6", "5.4-nano", "5.4-mini", "deepseek-v4-flash", "deepseek-v4-pro"}
Live(e) ==
  /\ e.maturity = "available" /\ e.sandboxPermissionSupport = Sandboxes
  /\ \A r \in Worker3 : CAPABILITY_ROUTES[r].outputContract \in e.outputContracts

\* Entry e has the given id and backend, no efforts of its own, and is live if asked.
Plain(e, id, backend, live) ==
  /\ e.stableId = id /\ e.transportBackend = backend
  /\ e.fixedEffort = Null /\ e.supportedEfforts = <<Null>>
  /\ live => Live(e)
  /\ id = "cursor-auto" => e.providerModelId = "auto"
  /\ id = "composer-2.5" => e.providerModelId = "composer-2.5"

LEMMA PlainEfforts ==
  ASSUME NEW e, e.supportedEfforts = <<Null>>, e.transportBackend \in Backends \ {"minimax", "kimi"}
  PROVE  supportedEffortsFor(e) = EffortsOn(e.transportBackend)
<1>1. e.transportBackend \notin NoBackend
  BY DEF NoBackend, Backends, Null
<1>2. BACKEND_SUPPORTED_EFFORTS[e.transportBackend] = EffortsOn(e.transportBackend)
  BY DEF BACKEND_SUPPORTED_EFFORTS, EffortsOn
<1> QED
  BY <1>1, <1>2 DEF supportedEffortsFor

LEMMA SupersededIds ==
  ASSUME NEW id \in Superseded
  PROVE  id \notin RoutedIds /\ FixedEffortOf(id) = Null /\ id \notin {"cursor-auto", "composer-2.5"}
<1>1. id \notin GoIds /\ id \notin CursorIds /\ id # "minimax-m3"
  BY DEF Superseded, GoIds, CursorIds
<1>2. id \notin ClaudeIds /\ id \notin CodexIds
  BY DEF Superseded, ClaudeIds, CodexIds
<1>3. FixedEffortOf(id) = Null
  BY DEF Superseded, FixedEffortOf
<1> QED
  BY <1>1, <1>2, <1>3 DEF RoutedIds, Superseded

LEMMA SupersededEntry ==
  ASSUME NEW e, NEW id \in Superseded, NEW backend \in {"codex", "claude", "composer", "opencode", Null},
         Plain(e, id, backend, FALSE)
  PROVE  EntryOK(e)
<1>1. e.transportBackend \in Backends => e.transportBackend \in Backends \ {"minimax", "kimi"}
  BY DEF Null, Backends, Plain
<1>2. e.stableId \notin RoutedIds /\ FixedEffortOf(e.stableId) = Null /\ e.stableId \notin {"cursor-auto", "composer-2.5"}
  BY SupersededIds DEF Plain
<1> QED
  BY <1>1, <1>2, PlainEfforts DEF EntryOK, Plain

LEMMA LiveEntry ==
  ASSUME NEW e, NEW id \in RoutedIds \ {"minimax-m3", "cursor-grok-4.7-high"}, NEW backend,
         backend = BackendOfId(id), Plain(e, id, backend, TRUE)
  PROVE  EntryOK(e)
<1>1. FixedEffortOf(id) = Null
  BY DEF FixedEffortOf, RoutedIds, GoIds, ClaudeIds, CodexIds, CursorIds
<1>2. backend \in Backends \ {"minimax", "kimi"}
  BY DEF BackendOfId, RoutedIds, Backends
<1> QED
  BY <1>1, <1>2, PlainEfforts DEF EntryOK, Plain, Live

LEMMA LiveBackends ==
  /\ \A id \in ClaudeIds : id \in RoutedIds \ {"minimax-m3", "cursor-grok-4.7-high"} /\ "claude" = BackendOfId(id)
  /\ \A id \in CodexIds : id \in RoutedIds \ {"minimax-m3", "cursor-grok-4.7-high"} /\ "codex" = BackendOfId(id)
  /\ \A id \in GoIds : id \in RoutedIds \ {"minimax-m3", "cursor-grok-4.7-high"} /\ "opencode" = BackendOfId(id)
  /\ \A id \in {"composer-2.5", "cursor-auto"} :
       id \in RoutedIds \ {"minimax-m3", "cursor-grok-4.7-high"} /\ "composer" = BackendOfId(id)
<1>1. \A id \in ClaudeIds : "claude" = BackendOfId(id) /\ id \notin {"minimax-m3", "cursor-grok-4.7-high"}
  BY DEF BackendOfId, GoIds, ClaudeIds
<1>2. \A id \in CodexIds : "codex" = BackendOfId(id) /\ id \notin {"minimax-m3", "cursor-grok-4.7-high"}
  BY DEF BackendOfId, GoIds, ClaudeIds, CodexIds
<1>3. \A id \in {"composer-2.5", "cursor-auto"} :
        "composer" = BackendOfId(id) /\ id \notin {"minimax-m3", "cursor-grok-4.7-high"} /\ id \in CursorIds
  BY DEF BackendOfId, GoIds, ClaudeIds, CodexIds, CursorIds
<1>4. \A id \in GoIds : "opencode" = BackendOfId(id) /\ id \notin {"minimax-m3", "cursor-grok-4.7-high"}
  BY DEF BackendOfId, GoIds
<1> QED
  BY <1>1, <1>2, <1>3, <1>4 DEF RoutedIds

(* Lists of entries. *)

Ids(s) == {e.stableId : e \in Elements(s)}
ListOK(s) == s \in Seq(Elements(s)) /\ \A e \in Elements(s) : EntryOK(e)

LEMMA Joined ==
  ASSUME NEW s, NEW t, ListOK(s), ListOK(t)
  PROVE  ListOK(s \o t) /\ Ids(s \o t) = Ids(s) \cup Ids(t)
<1> DEFINE S == Elements(s) \cup Elements(t)
<1>1. s \in Seq(S) /\ t \in Seq(S)
  BY DEF ListOK
<1>2. s \o t \in Seq(S) /\ Elements(s \o t) = S
  <2> HIDE DEF S
  <2>1. s \o t \in Seq(S) /\ Elements(s \o t) = Elements(s) \cup Elements(t)
    BY <1>1, ConcatElements
  <2> QED
    BY <2>1 DEF S
<1> QED
  BY <1>2 DEF ListOK, Ids

\* Of a list of n entries, each by itself.
LEMMA Listed ==
  ASSUME NEW s, NEW n \in Nat, DOMAIN s = 1..n, s \in Seq(Elements(s)), \A k \in 1..n : EntryOK(s[k])
  PROVE  ListOK(s) /\ \A k \in 1..n : s[k].stableId \in Ids(s)
BY DEF ListOK, Ids, Elements

LEMMA CursorListed == ListOK(CursorModels) /\ {"composer-2.5", "cursor-auto"} \subseteq Ids(CursorModels)
<1> DEFINE s == CursorModels
<1>1. s = <<s[1], s[2]>>
  BY DEF CursorModels
<1>2. Plain(s[1], "composer-2.5", "composer", TRUE) /\ Plain(s[2], "cursor-auto", "composer", TRUE)
  BY DEF CursorModels, Available, ModelDefinition, Plain, Live, Worker3
<1> HIDE DEF s
<1>3. s \in Seq(Elements(s)) /\ DOMAIN s = 1..2
  BY <1>1, Two
<1>4. EntryOK(s[1]) /\ EntryOK(s[2])
  BY <1>2, LiveBackends, LiveEntry
<1>5. ListOK(s) /\ s[1].stableId \in Ids(s) /\ s[2].stableId \in Ids(s)
  BY <1>3, <1>4, Listed
<1> QED
  BY <1>2, <1>5 DEF s, Plain

LEMMA CodexListed == ListOK(CodexModels) /\ {"gpt-6-luna"} \subseteq Ids(CodexModels)
<1> DEFINE s == CodexModels
<1>1. s = <<s[1], s[2], s[3]>>
  BY DEF CodexModels
<1>2. /\ Plain(s[1], "gpt-5.6-luna", "codex", FALSE) /\ Plain(s[2], "gpt-6-luna", "codex", TRUE)
      /\ Plain(s[3], "gpt-5.5", "codex", FALSE)
  BY DEF CodexModels, Available, Disabled, ModelDefinition, Plain, Live, Worker3
<1> HIDE DEF s
<1>3. s \in Seq(Elements(s)) /\ DOMAIN s = 1..3
  BY <1>1, Three
<1>4. EntryOK(s[1]) /\ EntryOK(s[2]) /\ EntryOK(s[3])
  BY <1>2, LiveBackends, LiveEntry, SupersededEntry DEF Superseded, CodexIds
<1>5. ListOK(s) /\ s[2].stableId \in Ids(s)
  BY <1>3, <1>4, Listed
<1> QED
  BY <1>2, <1>5 DEF s, Plain

LEMMA SolListed == ListOK(SolModels) /\ {"gpt-6.1-sol"} \subseteq Ids(SolModels)
<1> DEFINE s == SolModels
<1>1. s = <<s[1], s[2], s[3]>>
  BY DEF SolModels
<1>2. /\ Plain(s[1], "gpt-5.6-sol", "codex", FALSE)
      /\ Plain(s[2], "gpt-6-sol", "codex", FALSE)
      /\ Plain(s[3], "gpt-6.1-sol", "codex", TRUE)
  BY DEF SolModels, Available, Disabled, ModelDefinition, Plain, Live, Worker3
<1> HIDE DEF s
<1>3. s \in Seq(Elements(s)) /\ DOMAIN s = 1..3
  BY <1>1, Three
<1>4. \A k \in 1..3 : EntryOK(s[k])
  <2>1. EntryOK(s[1]) /\ EntryOK(s[2]) /\ EntryOK(s[3])
    BY <1>2, LiveBackends, LiveEntry, SupersededEntry DEF Superseded, ClaudeIds, CodexIds, GoIds
  <2> QED
    BY <2>1
<1>5. ListOK(s) /\ \A k \in 1..3 : s[k].stableId \in Ids(s)
  BY <1>3, <1>4, Listed
<1> QED
  BY <1>2, <1>5 DEF s, Plain

LEMMA OpusListed == ListOK(OpusModels) /\ {"opus-5.5", "opus-4.8"} \subseteq Ids(OpusModels)
<1> DEFINE s == OpusModels
<1>1. s = <<s[1], s[2], s[3]>>
  BY DEF OpusModels
<1>2. /\ Plain(s[1], "opus-5", "claude", FALSE)
      /\ Plain(s[2], "opus-5.5", "claude", TRUE)
      /\ Plain(s[3], "opus-4.8", "claude", TRUE)
  BY DEF OpusModels, Available, Disabled, ModelDefinition, Plain, Live, Worker3
<1> HIDE DEF s
<1>3. s \in Seq(Elements(s)) /\ DOMAIN s = 1..3
  BY <1>1, Three
<1>4. \A k \in 1..3 : EntryOK(s[k])
  <2>1. EntryOK(s[1]) /\ EntryOK(s[2]) /\ EntryOK(s[3])
    BY <1>2, LiveBackends, LiveEntry, SupersededEntry DEF Superseded, ClaudeIds, CodexIds, GoIds
  <2> QED
    BY <2>1
<1>5. ListOK(s) /\ \A k \in 1..3 : s[k].stableId \in Ids(s)
  BY <1>3, <1>4, Listed
<1> QED
  BY <1>2, <1>5 DEF s, Plain

LEMMA ClaudeListed == ListOK(ClaudeModels) /\ {"sonnet-5.5", "fable-5.1"} \subseteq Ids(ClaudeModels)
<1> DEFINE s == ClaudeModels
<1>1. s = <<s[1], s[2], s[3], s[4]>>
  BY DEF ClaudeModels
<1>2. /\ Plain(s[1], "sonnet-5", "claude", FALSE)
      /\ Plain(s[2], "sonnet-5.5", "claude", TRUE)
      /\ Plain(s[3], "fable-5", "claude", FALSE)
      /\ Plain(s[4], "fable-5.1", "claude", TRUE)
  BY DEF ClaudeModels, Available, Disabled, ModelDefinition, Plain, Live, Worker3
<1> HIDE DEF s
<1>3. s \in Seq(Elements(s)) /\ DOMAIN s = 1..4
  BY <1>1, Four
<1>4. \A k \in 1..4 : EntryOK(s[k])
  <2>1. EntryOK(s[1]) /\ EntryOK(s[2]) /\ EntryOK(s[3]) /\ EntryOK(s[4])
    BY <1>2, LiveBackends, LiveEntry, SupersededEntry DEF Superseded, ClaudeIds, CodexIds, GoIds
  <2> QED
    BY <2>1
<1>5. ListOK(s) /\ \A k \in 1..4 : s[k].stableId \in Ids(s)
  BY <1>3, <1>4, Listed
<1> QED
  BY <1>2, <1>5 DEF s, Plain

LEMMA ProfilesListed == ListOK(CursorProfiles) /\ {} \subseteq Ids(CursorProfiles)
<1> DEFINE s == CursorProfiles
<1>1. s = <<s[1], s[2], s[3]>>
  BY DEF CursorProfiles
<1>2. /\ Plain(s[1], "cursor-fable-high", "composer", FALSE)
      /\ Plain(s[2], "cursor-fable-medium", "composer", FALSE)
      /\ Plain(s[3], "cursor-sol-high", "composer", FALSE)
  BY DEF CursorProfiles, Available, ModelDefinition, Plain, Live, Worker3
<1> HIDE DEF s
<1>3. s \in Seq(Elements(s)) /\ DOMAIN s = 1..3
  BY <1>1, Three
<1>4. \A k \in 1..3 : EntryOK(s[k])
  <2>1. EntryOK(s[1]) /\ EntryOK(s[2]) /\ EntryOK(s[3])
    BY <1>2, LiveBackends, LiveEntry, SupersededEntry DEF Superseded, ClaudeIds, CodexIds, GoIds
  <2> QED
    BY <2>1
<1>5. ListOK(s) /\ \A k \in 1..3 : s[k].stableId \in Ids(s)
  BY <1>3, <1>4, Listed
<1> QED
  BY <1>2, <1>5 DEF s, Plain

LEMMA GoPlain ==
  ASSUME NEW id \in GoIds, NEW model, NEW labels
  PROVE  /\ Plain(openCodeGoEntry(id, model, labels), id, "opencode", TRUE)
         /\ Plain(openCodeGoGlm(id, model, labels), id, "opencode", TRUE)
BY DEF openCodeGoGlm, openCodeGoEntry, Available, ModelDefinition, Plain, Live, Worker3, GoIds

LEMMA GoListed == ListOK(OpenCodeGoModels) /\ GoIds \subseteq Ids(OpenCodeGoModels)
<1> DEFINE s == OpenCodeGoModels
<1>1. s = <<s[1], s[2], s[3], s[4], s[5], s[6], s[7], s[8], s[9], s[10], s[11]>>
  BY DEF OpenCodeGoModels
<1>2. /\ Plain(s[1], "opencode-go-glm-5.3-flash", "opencode", TRUE)
      /\ Plain(s[2], "opencode-go-glm-5.3", "opencode", TRUE)
      /\ Plain(s[3], "opencode-go-deepseek-v4-pro", "opencode", TRUE)
      /\ Plain(s[4], "opencode-go-deepseek-v4-flash", "opencode", TRUE)
      /\ Plain(s[5], "opencode-go-kimi-k3", "opencode", TRUE)
      /\ Plain(s[6], "opencode-go-qwen3.8-max", "opencode", TRUE)
      /\ Plain(s[7], "opencode-go-muse-spark-1.2-contributor", "opencode", TRUE)
      /\ Plain(s[8], "opencode-go-glm-5.2", "opencode", TRUE)
      /\ Plain(s[9], "opencode-go-kimi-k2.7-code", "opencode", TRUE)
      /\ Plain(s[10], "opencode-go-grok-4.6", "opencode", TRUE)
      /\ Plain(s[11], "opencode-go-gpt-5.6-luna", "opencode", TRUE)
  BY GoPlain DEF OpenCodeGoModels, GoIds
<1> HIDE DEF s
<1>3. s \in Seq(Elements(s)) /\ DOMAIN s = 1..11
  BY <1>1, Eleven
<1>4. \A k \in 1..11 : EntryOK(s[k])
  <2>1. \A id \in GoIds : \A e : Plain(e, id, "opencode", TRUE) => EntryOK(e)
    BY LiveBackends, LiveEntry
  <2>2. /\ EntryOK(s[1])
        /\ EntryOK(s[2])
        /\ EntryOK(s[3])
        /\ EntryOK(s[4])
        /\ EntryOK(s[5])
        /\ EntryOK(s[6])
        /\ EntryOK(s[7])
        /\ EntryOK(s[8])
        /\ EntryOK(s[9])
        /\ EntryOK(s[10])
        /\ EntryOK(s[11])
    BY <1>2, <2>1 DEF GoIds
  <2> QED
    BY <2>2
<1>5. ListOK(s) /\ \A k \in 1..11 : s[k].stableId \in Ids(s)
  BY <1>3, <1>4, Listed
<1>6. /\ "opencode-go-glm-5.3-flash" \in Ids(s)
      /\ "opencode-go-glm-5.3" \in Ids(s)
      /\ "opencode-go-deepseek-v4-pro" \in Ids(s)
      /\ "opencode-go-deepseek-v4-flash" \in Ids(s)
      /\ "opencode-go-kimi-k3" \in Ids(s)
      /\ "opencode-go-qwen3.8-max" \in Ids(s)
      /\ "opencode-go-muse-spark-1.2-contributor" \in Ids(s)
      /\ "opencode-go-glm-5.2" \in Ids(s)
      /\ "opencode-go-kimi-k2.7-code" \in Ids(s)
      /\ "opencode-go-grok-4.6" \in Ids(s)
      /\ "opencode-go-gpt-5.6-luna" \in Ids(s)
  BY <1>2, <1>5 DEF Plain
<1> QED
  BY <1>5, <1>6 DEF s, GoIds

LEMMA FixedEntry ==
  ASSUME NEW e, e.stableId \in {"cursor-grok-4.6-high", "cursor-grok-4.7-high"}, e.transportBackend = "composer",
         e.fixedEffort = "high", e.supportedEfforts = <<Null>>, e.stableId = "cursor-grok-4.7-high" => Live(e)
  PROVE  EntryOK(e)
<1>1. FixedEffortOf(e.stableId) = "high" /\ e.stableId \notin {"cursor-auto", "composer-2.5"}
  BY DEF FixedEffortOf
<1>2. e.stableId \in RoutedIds => e.stableId = "cursor-grok-4.7-high"
  BY DEF RoutedIds, GoIds, ClaudeIds, CodexIds, CursorIds
<1>3. BackendOfId("cursor-grok-4.7-high") = "composer"
  BY DEF BackendOfId, GoIds, ClaudeIds, CodexIds, CursorIds
<1>4. supportedEffortsFor(e) = EffortsOn(e.transportBackend)
  BY PlainEfforts DEF Backends
<1> QED
  BY <1>1, <1>2, <1>3, <1>4 DEF EntryOK, Live

LEMMA OwnEffortsEntry ==
  ASSUME NEW e, NEW low, e.supportedEfforts = <<low, "high", "max">>, e.fixedEffort = Null, Live(e),
         \/ e.stableId = "minimax-m3" /\ e.transportBackend = "minimax" /\ low = "low"
         \/ e.stableId = "kimi-k3-anthropic" /\ e.transportBackend = "kimi" /\ low = "medium"
  PROVE  EntryOK(e)
<1>1. e.supportedEfforts # <<Null>> /\ Elements(e.supportedEfforts) = EffortsOn(e.transportBackend)
  <2>1. Elements(<<low, "high", "max">>) = {low, "high", "max"}
    BY DEF Elements
  <2> QED
    BY <2>1 DEF EffortsOn
<1>2. supportedEffortsFor(e) = EffortsOn(e.transportBackend)
  BY <1>1 DEF supportedEffortsFor
<1>3. FixedEffortOf(e.stableId) = Null /\ e.stableId \notin {"cursor-auto", "composer-2.5"}
  BY DEF FixedEffortOf
<1>4. e.stableId \in RoutedIds => BackendOfId(e.stableId) = e.transportBackend
  BY DEF BackendOfId, RoutedIds, GoIds, ClaudeIds, CodexIds, CursorIds
<1> QED
  BY <1>2, <1>3, <1>4 DEF EntryOK, Live

LEMMA GrokListed == ListOK(GrokProfiles) /\ {"cursor-grok-4.7-high"} \subseteq Ids(GrokProfiles)
<1> DEFINE s == GrokProfiles
<1>1. s = <<s[1], s[2], s[3], s[4]>>
  BY DEF GrokProfiles
<1>2. /\ s[1].stableId = "cursor-grok-4.6-high" /\ s[1].transportBackend = "composer"
      /\ s[1].fixedEffort = "high" /\ s[1].supportedEfforts = <<Null>>
  <2> DEFINE d == Disabled("cursor-grok-4.6-high", "Cursor", "composer", "cursor-grok-4.6-high",
                           {"cursor grok 4.6 high", "grok-4.6", "grok 4.6"})
  <2>1. s[1] = [d EXCEPT !.fixedEffort = "high"]
    BY DEF GrokProfiles
  <2>2. Plain(d, "cursor-grok-4.6-high", "composer", FALSE) /\ "fixedEffort" \in DOMAIN d
    BY DEF Disabled, ModelDefinition, Plain
  <2> HIDE DEF d, s
  <2> QED
    BY <2>1, <2>2 DEF Plain, Live
<1>3. /\ s[2].stableId = "cursor-grok-4.7-high" /\ s[2].transportBackend = "composer"
      /\ s[2].fixedEffort = "high" /\ s[2].supportedEfforts = <<Null>> /\ Live(s[2])
  <2> DEFINE d == Available("cursor-grok-4.7-high", "Cursor", "composer", "grok-4.7-high",
                            {"cursor grok 4.7 high", "grok-4.7", "grok 4.7"})
  <2>1. s[2] = [d EXCEPT !.fixedEffort = "high"]
    BY DEF GrokProfiles
  <2>2. Plain(d, "cursor-grok-4.7-high", "composer", TRUE) /\ "fixedEffort" \in DOMAIN d
    BY DEF Available, ModelDefinition, Plain, Live, Worker3
  <2> HIDE DEF d, s
  <2> QED
    BY <2>1, <2>2 DEF Plain, Live
<1>4. Plain(s[3], "haiku-4.5", Null, FALSE) /\ Plain(s[4], "qwen-3-235b", Null, FALSE)
  BY DEF GrokProfiles, plannedScreenshotEntry, ModelDefinition, Plain
<1> HIDE DEF s
<1>5. s \in Seq(Elements(s)) /\ DOMAIN s = 1..4
  BY <1>1, Four
<1>6. \A k \in 1..4 : EntryOK(s[k])
  <2>1. EntryOK(s[1]) /\ EntryOK(s[2])
    BY <1>2, <1>3, FixedEntry
  <2>2. EntryOK(s[3]) /\ EntryOK(s[4])
    BY <1>4, SupersededEntry DEF Superseded
  <2> QED
    BY <2>1, <2>2
<1>7. ListOK(s) /\ \A k \in 1..4 : s[k].stableId \in Ids(s)
  BY <1>5, <1>6, Listed
<1> QED
  BY <1>3, <1>7 DEF s

LEMMA OpenCodeListed == ListOK(OpenCodeModels) /\ {"minimax-m3"} \subseteq Ids(OpenCodeModels)
<1> DEFINE s == OpenCodeModels
<1>1. s = <<s[1], s[2], s[3]>>
  BY DEF OpenCodeModels
<1>2. /\ s[1].stableId = "minimax-m3" /\ s[1].transportBackend = "minimax" /\ s[1].fixedEffort = Null
      /\ s[1].supportedEfforts = <<"low", "high", "max">> /\ Live(s[1])
      /\ Plain(s[2], "kimi-2.6", Null, FALSE) /\ Plain(s[3], "kimi-k3", "opencode", FALSE)
  BY DEF OpenCodeModels, Available, plannedScreenshotEntry, ModelDefinition, Plain, Live, Worker3
<1> HIDE DEF s
<1>3. s \in Seq(Elements(s)) /\ DOMAIN s = 1..3
  BY <1>1, Three
<1>4. \A k \in 1..3 : EntryOK(s[k])
  <2>1. EntryOK(s[1])
    BY <1>2, OwnEffortsEntry
  <2>2. EntryOK(s[2]) /\ EntryOK(s[3])
    BY <1>2, SupersededEntry DEF Superseded
  <2> QED
    BY <2>1, <2>2
<1>5. ListOK(s) /\ \A k \in 1..3 : s[k].stableId \in Ids(s)
  BY <1>3, <1>4, Listed
<1> QED
  BY <1>2, <1>5 DEF s

LEMMA MoonshotListed == ListOK(MoonshotModels)
<1> DEFINE s == MoonshotModels
<1>1. s = <<s[1], s[2], s[3], s[4], s[5]>>
  BY DEF MoonshotModels
<1>2. /\ s[1].stableId = "kimi-k3-anthropic" /\ s[1].transportBackend = "kimi" /\ s[1].fixedEffort = Null
      /\ s[1].supportedEfforts = <<"medium", "high", "max">> /\ Live(s[1])
      /\ Plain(s[2], "5.4-nano", Null, FALSE) /\ Plain(s[3], "5.4-mini", Null, FALSE)
      /\ Plain(s[4], "deepseek-v4-flash", Null, FALSE) /\ Plain(s[5], "deepseek-v4-pro", Null, FALSE)
  BY DEF MoonshotModels, Available, plannedScreenshotEntry, ModelDefinition, Plain, Live, Worker3
<1> HIDE DEF s
<1>3. s \in Seq(Elements(s)) /\ DOMAIN s = 1..5
  BY <1>1, Five
<1>4. \A k \in 1..5 : EntryOK(s[k])
  <2>1. EntryOK(s[1])
    BY <1>2, OwnEffortsEntry
  <2>2. EntryOK(s[2]) /\ EntryOK(s[3]) /\ EntryOK(s[4]) /\ EntryOK(s[5])
    BY <1>2, SupersededEntry DEF Superseded
  <2> QED
    BY <2>1, <2>2
<1> QED
  BY <1>3, <1>4, Listed DEF s

\* The whole registry: every entry is as it should be, and every routed model has one.
LEMMA RegistryListed ==
  ListOK(MODEL_REGISTRY) /\ RoutedIds \subseteq Ids(MODEL_REGISTRY)
<1> DEFINE s2 == CursorModels \o CodexModels
           s3 == s2 \o SolModels
           s4 == s3 \o OpusModels
           s5 == s4 \o ClaudeModels
           s6 == s5 \o GrokProfiles
           s7 == s6 \o CursorProfiles
           s8 == s7 \o OpenCodeModels
           s9 == s8 \o OpenCodeGoModels
           s10 == s9 \o MoonshotModels
<1>1. ListOK(s2) /\ CursorIds \ {"cursor-grok-4.7-high"} \subseteq Ids(s2) /\ {"gpt-6-luna"} \subseteq Ids(s2)
  BY CursorListed, CodexListed, Joined DEF CursorIds
<1>2. ListOK(s3) /\ Ids(s2) \subseteq Ids(s3) /\ CodexIds \subseteq Ids(s3)
  <2> HIDE DEF s2
  <2> QED
    BY <1>1, SolListed, Joined DEF CodexIds
<1>3. ListOK(s4) /\ Ids(s3) \subseteq Ids(s4) /\ {"opus-5.5", "opus-4.8"} \subseteq Ids(s4)
  <2> HIDE DEF s3
  <2> QED
    BY <1>2, OpusListed, Joined
<1>4. ListOK(s5) /\ Ids(s4) \subseteq Ids(s5) /\ ClaudeIds \subseteq Ids(s5)
  <2> HIDE DEF s4
  <2> QED
    BY <1>3, ClaudeListed, Joined DEF ClaudeIds
<1>5. ListOK(s6) /\ Ids(s5) \subseteq Ids(s6) /\ {"cursor-grok-4.7-high"} \subseteq Ids(s6)
  <2> HIDE DEF s5
  <2> QED
    BY <1>4, GrokListed, Joined
<1>6. ListOK(s7) /\ Ids(s6) \subseteq Ids(s7)
  <2> HIDE DEF s6
  <2> QED
    BY <1>5, ProfilesListed, Joined
<1>7. ListOK(s8) /\ Ids(s7) \subseteq Ids(s8) /\ {"minimax-m3"} \subseteq Ids(s8)
  <2> HIDE DEF s7
  <2> QED
    BY <1>6, OpenCodeListed, Joined
<1>8. ListOK(s9) /\ Ids(s8) \subseteq Ids(s9) /\ GoIds \subseteq Ids(s9)
  <2> HIDE DEF s8
  <2> QED
    BY <1>7, GoListed, Joined
<1>9. ListOK(s10) /\ Ids(s9) \subseteq Ids(s10)
  <2> HIDE DEF s9
  <2> QED
    BY <1>8, MoonshotListed, Joined
<1>10. s10 = MODEL_REGISTRY
  BY DEF MODEL_REGISTRY
<1> HIDE DEF s2, s3, s4, s5, s6, s7, s8, s9, s10
<1> QED
  BY <1>1, <1>2, <1>3, <1>4, <1>5, <1>6, <1>7, <1>8, <1>9, <1>10 DEF RoutedIds, CursorIds

LEMMA RoutedIndex ==
  ASSUME NEW id \in RoutedIds
  PROVE  /\ Known(MODEL_REGISTRY, id)
         /\ registryIndex(MODEL_REGISTRY, id).stableId = id
         /\ EntryOK(registryIndex(MODEL_REGISTRY, id))
<1>1. /\ MODEL_REGISTRY \in Seq(Elements(MODEL_REGISTRY)) /\ id \in Ids(MODEL_REGISTRY)
      /\ \A e \in Elements(MODEL_REGISTRY) : EntryOK(e)
  BY RegistryListed DEF ListOK
<1>2. Known(MODEL_REGISTRY, id)
  BY <1>1 DEF Ids, Elements, Known
<1> QED
  BY <1>1, <1>2, KnownEntry

\* What the runner relies on of the entry of a routed model.
LEMMA RoutedModel ==
  ASSUME NEW id \in RoutedIds, NEW e, e = registryIndex(MODEL_REGISTRY, id)
  PROVE  /\ e.stableId = id /\ e.fixedEffort = FixedEffortOf(id) /\ e.maturity = "available"
         /\ e.transportBackend = BackendOfId(id) /\ e.transportBackend \in Backends
         /\ supportedEffortsFor(e) = EffortsOn(BackendOfId(id))
         /\ e.sandboxPermissionSupport = Sandboxes
         /\ \A r \in Worker3 : CAPABILITY_ROUTES[r].outputContract \in e.outputContracts
         /\ id = "cursor-auto" => e.providerModelId = "auto"
         /\ id = "composer-2.5" => e.providerModelId = "composer-2.5"
BY RoutedIndex, RoutedBackends DEF EntryOK

LEMMA BackendEfforts ==
  /\ \A b \in Backends : EffortsOn(b) \subseteq Efforts
  /\ \A b \in Backends : effortsSupportedOnBackend(b, MODEL_REGISTRY) \subseteq EffortsOn(b)
<1>1. \A b \in Backends : EffortsOn(b) \subseteq Efforts
  BY DEF Backends, EffortsOn, Efforts
<1>2. ASSUME NEW b \in Backends PROVE effortsSupportedOnBackend(b, MODEL_REGISTRY) \subseteq EffortsOn(b)
  BY RegistryListed DEF ListOK, effortsSupportedOnBackend, EntryOK
<1> QED
  BY <1>1, <1>2

(* Bindings and aliases. *)

LEMMA Bindings ==
  ASSUME NEW b \in RouteBindings
  PROVE  /\ b.stableId \in RoutedIds /\ b.backend = BackendOfId(b.stableId)
         /\ b.defaultEffort \in {Null} \cup EffortsOn(b.backend)
         /\ b.base # Null
<1>1. CASE b \in NamedBindings
  <2>1. \/ b.stableId \in ClaudeIds /\ b.backend = "claude" /\ b.defaultEffort = Null
        \/ b.stableId \in CodexIds /\ b.backend = "codex" /\ b.defaultEffort \in {Null, "max"}
        \/ b.stableId \in {"composer-2.5", "cursor-auto"} /\ b.backend = "composer" /\ b.defaultEffort = Null
        \/ b.stableId = "cursor-grok-4.7-high" /\ b.backend = "composer" /\ b.defaultEffort = Null
        \/ b.stableId = "minimax-m3" /\ b.backend = "minimax" /\ b.defaultEffort = Null
    BY <1>1 DEF NamedBindings, Binding, ClaudeIds, CodexIds
  <2>2. BackendOfId("cursor-grok-4.7-high") = "composer" /\ BackendOfId("minimax-m3") = "minimax"
        /\ "cursor-grok-4.7-high" \in RoutedIds /\ "minimax-m3" \in RoutedIds
    BY DEF BackendOfId, GoIds, ClaudeIds, CodexIds, CursorIds, RoutedIds
  <2>3. "max" \in EffortsOn("codex")
    BY DEF EffortsOn, Efforts
  <2>4. b.base # Null
    BY <1>1 DEF NamedBindings, Binding, Null
  <2> QED
    BY <2>1, <2>2, <2>3, <2>4, LiveBackends
<1>2. CASE b \in OpenCodeGoBindings
  <2>1. b.stableId \in GoIds /\ b.backend = "opencode" /\ b.defaultEffort = Null /\ b.base # Null
    BY <1>2 DEF OpenCodeGoBindings, Binding, GoIds, Null
  <2> QED
    BY <2>1, LiveBackends
<1> QED
  BY <1>1, <1>2 DEF RouteBindings

LEMMA AliasBinding ==
  ASSUME NEW alias \in ExecutableRoutes
  PROVE  /\ BindingOf(alias) \in RouteBindings /\ BindingOf(alias).base = alias[1]
         /\ alias[2] \in Suffixes /\ alias = <<alias[1], alias[2]>> /\ alias[1] # Null
<1>1. PICK b \in RouteBindings, s \in Suffixes : alias = <<b.base, s>>
  BY DEF ExecutableRoutes
<1>2. b.base = alias[1] /\ alias[2] = s
  BY <1>1
<1>3. BindingOf(alias) \in RouteBindings /\ BindingOf(alias).base = alias[1]
  BY <1>2 DEF BindingOf
<1> QED
  BY <1>1, <1>2, <1>3, Bindings

LEMMA SuffixRoutes ==
  /\ \A s \in Suffixes : CAPABILITY_ROUTE_BY_SUFFIX[s] \in Worker3
  /\ Worker3 \subseteq RouteIds
  /\ CAPABILITY_ROUTES[EXPLORE].mode = "analyze" /\ CAPABILITY_ROUTES[IMPLEMENT].mode = "implement"
  /\ CAPABILITY_ROUTES[CHECK].mode = "review" /\ CAPABILITY_ROUTES[CHECK].sandbox = "read-only"
  /\ \A r \in RouteIds : CAPABILITY_ROUTES[r].sandbox \in Sandboxes /\ CAPABILITY_ROUTES[r].mode \in Modes
  /\ CAPABILITY_ROUTE_BY_SUFFIX["explore"] = EXPLORE /\ CAPABILITY_ROUTE_BY_SUFFIX["implement"] = IMPLEMENT
  /\ CAPABILITY_ROUTE_BY_SUFFIX["check"] = CHECK
BY DEF Suffixes, CAPABILITY_ROUTE_BY_SUFFIX, Worker3, RouteIds, CAPABILITY_ROUTES, RouteContract,
       EXPLORE, IMPLEMENT, CHECK, TASTE, Sandboxes, Modes

(* Chains and stacks. *)

TailIds == {"opencode-go-kimi-k3", "minimax-m3", "composer-2.5"}
\* A rung of a routed model, at an effort that the model takes.
RungFits(r) ==
  /\ r.stableId \in RoutedIds /\ r.effort \in Efforts
  /\ r.effort \in {"none", FixedEffortOf(r.stableId)} \cup EffortsOn(BackendOfId(r.stableId))
RungHead(r) == RungFits(r) /\ r.stableId \notin TailIds
ChainOK(c) ==
  /\ c \in Seq(Elements(c)) /\ c # <<>> /\ \A i \in DOMAIN c : RungFits(c[i])
  /\ \A i, j \in DOMAIN c : c[i] = c[j] => i = j
HeadChain(c) ==
  /\ c \in Seq(Elements(c)) /\ c # <<>> /\ \A i \in DOMAIN c : RungHead(c[i])
  /\ \A i, j \in DOMAIN c : c[i] = c[j] => i = j

LEMMA Six ==
  ASSUME NEW a, NEW b, NEW c, NEW d, NEW e, NEW f
  PROVE  LET s == <<a, b, c, d, e, f>> IN s \in Seq(Elements(s)) /\ DOMAIN s = 1..6
<1> DEFINE s == <<a, b, c, d, e, f>>
<1>1. s \in Seq({a, b, c, d, e, f}) /\ DOMAIN s = 1..6 /\ Elements(s) = {a, b, c, d, e, f}
  BY DEF Elements
<1> HIDE DEF s
<1>2. s \in Seq(Elements(s)) /\ DOMAIN s = 1..6
  BY <1>1
<1> QED
  BY <1>2 DEF s

LEMMA Head3 ==
  ASSUME NEW a, NEW b, NEW c, RungHead(a), RungHead(b), RungHead(c),
         a # b, a # c, b # c
  PROVE  HeadChain(<<a, b, c>>)
<1> DEFINE s == <<a, b, c>>
<1>1. Len(s) = 3 /\ DOMAIN s = 1..3 /\ s[1] = a /\ s[2] = b /\ s[3] = c
  OBVIOUS
<1>2. s \in Seq(Elements(s))
  BY Three
<1> HIDE DEF s
<1>3. s # <<>> /\ \A i \in 1..3 : RungHead(s[i])
  BY <1>1
<1>4. \A i, j \in 1..3 : s[i] = s[j] => i = j
  BY <1>1
<1>5. HeadChain(s)
  BY <1>1, <1>2, <1>3, <1>4 DEF HeadChain
<1> QED
  BY <1>5 DEF s

LEMMA Head4 ==
  ASSUME NEW a, NEW b, NEW c, NEW d, RungHead(a), RungHead(b), RungHead(c), RungHead(d),
         a # b, a # c, a # d, b # c, b # d, c # d
  PROVE  HeadChain(<<a, b, c, d>>)
<1> DEFINE s == <<a, b, c, d>>
<1>1. Len(s) = 4 /\ DOMAIN s = 1..4 /\ s[1] = a /\ s[2] = b /\ s[3] = c /\ s[4] = d
  OBVIOUS
<1>2. s \in Seq(Elements(s))
  BY Four
<1> HIDE DEF s
<1>3. s # <<>> /\ \A i \in 1..4 : RungHead(s[i])
  BY <1>1
<1>4. \A i, j \in 1..4 : s[i] = s[j] => i = j
  BY <1>1
<1>5. HeadChain(s)
  BY <1>1, <1>2, <1>3, <1>4 DEF HeadChain
<1> QED
  BY <1>5 DEF s

LEMMA Head5 ==
  ASSUME NEW a, NEW b, NEW c, NEW d, NEW e, RungHead(a), RungHead(b), RungHead(c), RungHead(d), RungHead(e),
         a # b, a # c, a # d, a # e, b # c, b # d, b # e, c # d, c # e, d # e
  PROVE  HeadChain(<<a, b, c, d, e>>)
<1> DEFINE s == <<a, b, c, d, e>>
<1>1. Len(s) = 5 /\ DOMAIN s = 1..5 /\ s[1] = a /\ s[2] = b /\ s[3] = c /\ s[4] = d /\ s[5] = e
  OBVIOUS
<1>2. s \in Seq(Elements(s))
  BY Five
<1> HIDE DEF s
<1>3. s # <<>> /\ \A i \in 1..5 : RungHead(s[i])
  BY <1>1
<1>4. \A i, j \in 1..5 : s[i] = s[j] => i = j
  BY <1>1
<1>5. HeadChain(s)
  BY <1>1, <1>2, <1>3, <1>4 DEF HeadChain
<1> QED
  BY <1>5 DEF s

LEMMA Head6 ==
  ASSUME NEW a, NEW b, NEW c, NEW d, NEW e, NEW f,
         RungHead(a), RungHead(b), RungHead(c), RungHead(d), RungHead(e), RungHead(f),
         a # b, a # c, a # d, a # e, a # f, b # c, b # d, b # e, b # f, c # d, c # e, c # f, d # e, d # f, e # f
  PROVE  HeadChain(<<a, b, c, d, e, f>>)
<1> DEFINE s == <<a, b, c, d, e, f>>
<1>1. Len(s) = 6 /\ DOMAIN s = 1..6 /\ s[1] = a /\ s[2] = b /\ s[3] = c /\ s[4] = d /\ s[5] = e /\ s[6] = f
  OBVIOUS
<1>2. s \in Seq(Elements(s))
  BY Six
<1> HIDE DEF s
<1>3. s # <<>> /\ \A i \in 1..6 : RungHead(s[i])
  BY <1>1
<1>4. \A i, j \in 1..6 : s[i] = s[j] => i = j
  BY <1>1
<1>5. HeadChain(s)
  BY <1>1, <1>2, <1>3, <1>4 DEF HeadChain
<1> QED
  BY <1>5 DEF s

LEMMA RungsFit ==
  /\ RungHead(Glm) /\ RungHead(Flash) /\ RungHead(Grok) /\ RungHead(Fable) /\ RungHead(Sol) /\ RungHead(Luna)
  /\ RungHead(Opus48) /\ RungHead(Opus55("high")) /\ RungHead(Opus55("low"))
  /\ RungHead(Sonnet("low")) /\ RungHead(Sonnet("high"))
  /\ RungHead(Rung("opencode-go-deepseek-v4-pro", "none"))
  /\ RungFits(TASTE_REVIEW_PIN)
<1>1. /\ "low" \in Efforts /\ "high" \in Efforts /\ "max" \in Efforts /\ "none" \in Efforts
      /\ EffortsOn("claude") = Efforts /\ EffortsOn("codex") = Efforts
  BY DEF Efforts, EffortsOn
<1>2. FixedEffortOf("cursor-grok-4.7-high") = "high" /\ "cursor-grok-4.7-high" \in RoutedIds
  BY DEF FixedEffortOf, RoutedIds, CursorIds
<1>3. RungHead(Glm) /\ RungHead(Flash) /\ RungHead(Rung("opencode-go-deepseek-v4-pro", "none"))
  BY <1>1 DEF Glm, Flash, Rung, RungHead, RungFits, RoutedIds, GoIds, TailIds
<1>4. RungHead(Grok)
  BY <1>1, <1>2 DEF Grok, Rung, RungHead, RungFits, TailIds
<1>5. RungHead(Fable) /\ RungHead(Opus48)
  BY <1>1, LiveBackends DEF Fable, Opus48, Rung, RungHead, RungFits, ClaudeIds, TailIds
<1>6. RungHead(Opus55("high")) /\ RungHead(Opus55("low")) /\ RungHead(Sonnet("low")) /\ RungHead(Sonnet("high"))
  BY <1>1, LiveBackends DEF Opus55, Sonnet, Rung, RungHead, RungFits, ClaudeIds, TailIds
<1>7. RungHead(Sol) /\ RungHead(Luna)
  BY <1>1, LiveBackends DEF Sol, Luna, Rung, RungHead, RungFits, CodexIds, TailIds
<1>8. RungFits(TASTE_REVIEW_PIN)
  BY <1>1, LiveBackends DEF TASTE_REVIEW_PIN, Rung, RungFits, ClaudeIds
<1> QED
  BY <1>3, <1>4, <1>5, <1>6, <1>7, <1>8

LEMMA TailOK == ChainOK(EmergencyTail) /\ \A i \in DOMAIN EmergencyTail : EmergencyTail[i].stableId \in TailIds
<1> DEFINE s == EmergencyTail
<1>1. s = <<s[1], s[2], s[3]>> /\ s[1] = Rung("opencode-go-kimi-k3", "none")
      /\ s[2] = Rung("minimax-m3", "high") /\ s[3] = Rung("composer-2.5", "none")
  BY DEF EmergencyTail
<1>2. "high" \in EffortsOn("minimax") /\ BackendOfId("minimax-m3") = "minimax"
  BY DEF EffortsOn, BackendOfId, GoIds, ClaudeIds, CodexIds, CursorIds
<1> HIDE DEF s
<1>3. s \in Seq(Elements(s)) /\ DOMAIN s = 1..3
  BY <1>1, Three
<1>4. RungFits(s[1]) /\ RungFits(s[3])
  BY <1>1 DEF Rung, RungFits, RoutedIds, GoIds, CursorIds, Efforts
<1>5. RungFits(s[2])
  BY <1>1, <1>2 DEF Rung, RungFits, RoutedIds, Efforts
<1>6. s[1].stableId \in TailIds /\ s[2].stableId \in TailIds /\ s[3].stableId \in TailIds
  BY <1>1 DEF Rung, TailIds
<1>7. s[1] # s[2] /\ s[1] # s[3] /\ s[2] # s[3] /\ s # <<>>
  BY <1>1 DEF Rung
<1>8. \A i \in 1..3 : i = 1 \/ i = 2 \/ i = 3
  OBVIOUS
<1>9. ChainOK(s) /\ \A i \in DOMAIN s : s[i].stableId \in TailIds
  BY <1>3, <1>4, <1>5, <1>6, <1>7, <1>8 DEF ChainOK
<1> QED
  BY <1>9 DEF s

LEMMA WithTail == ASSUME NEW c, HeadChain(c) PROVE ChainOK(c \o EmergencyTail)
<1> DEFINE t == EmergencyTail
<1>1. /\ c \in Seq(Elements(c)) /\ c # <<>> /\ \A i \in DOMAIN c : RungFits(c[i]) /\ c[i].stableId \notin TailIds
      /\ \A i, j \in DOMAIN c : c[i] = c[j] => i = j
  BY DEF HeadChain, RungHead
<1>2. /\ t \in Seq(Elements(t)) /\ t # <<>> /\ \A i \in DOMAIN t : RungFits(t[i]) /\ t[i].stableId \in TailIds
      /\ \A i, j \in DOMAIN t : t[i] = t[j] => i = j
  BY TailOK DEF ChainOK
<1> HIDE DEF t
<1>3. c \o t \in Seq(Elements(c \o t))
  <2> DEFINE S == Elements(c) \cup Elements(t)
  <2>1. c \in Seq(S) /\ t \in Seq(S)
    BY <1>1, <1>2
  <2>2. c \o t \in Seq(S) /\ Elements(c \o t) = S
    <3> HIDE DEF S
    <3>1. c \o t \in Seq(S) /\ Elements(c \o t) = Elements(c) \cup Elements(t)
      BY <2>1, ConcatElements
    <3> QED
      BY <3>1 DEF S
  <2> QED
    BY <2>2
<1>4. /\ Len(c) \in Nat /\ Len(t) \in Nat /\ DOMAIN c = 1..Len(c) /\ DOMAIN t = 1..Len(t)
      /\ DOMAIN (c \o t) = 1..(Len(c) + Len(t))
      /\ \A i \in 1..(Len(c) + Len(t)) : (c \o t)[i] = IF i <= Len(c) THEN c[i] ELSE t[i - Len(c)]
  BY <1>1, <1>2
<1>5. c \o t # <<>>
  BY <1>1, <1>2
<1>6. \A i \in 1..(Len(c) + Len(t)) : IF i <= Len(c) THEN i \in DOMAIN c ELSE i - Len(c) \in DOMAIN t
  BY <1>4
<1>7. \A i \in DOMAIN (c \o t) : RungFits((c \o t)[i])
  BY <1>1, <1>2, <1>4, <1>6
<1>8. ASSUME NEW i \in DOMAIN (c \o t), NEW j \in DOMAIN (c \o t), (c \o t)[i] = (c \o t)[j] PROVE i = j
  <2>1. CASE i <= Len(c) /\ j <= Len(c)
    BY <1>1, <1>4, <1>6, <1>8, <2>1
  <2>2. CASE ~ (i <= Len(c)) /\ ~ (j <= Len(c))
    <3>1. i - Len(c) = j - Len(c)
      BY <1>2, <1>4, <1>6, <1>8, <2>2
    <3> QED
      BY <1>4, <3>1
  <2>3. CASE i <= Len(c) /\ ~ (j <= Len(c))
    BY <1>1, <1>2, <1>4, <1>6, <1>8, <2>3
  <2>4. CASE ~ (i <= Len(c)) /\ j <= Len(c)
    BY <1>1, <1>2, <1>4, <1>6, <1>8, <2>4
  <2> QED
    BY <2>1, <2>2, <2>3, <2>4
<1>9. ChainOK(c \o t)
  BY <1>3, <1>5, <1>7, <1>8 DEF ChainOK
<1> QED
  BY <1>9 DEF t

LEMMA PhaseHeads == \A p \in WorkerPhases : HeadChain(PhaseChains[p])
<1>1. HeadChain(<<Luna, Sonnet("low"), Rung("opencode-go-deepseek-v4-pro", "none"), Opus48, Grok>>)
  BY RungsFit, Head5 DEF Luna, Sonnet, Opus48, Grok, Rung
<1>2. HeadChain(<<Sonnet("low"), Opus48, Grok>>)
  BY RungsFit, Head3 DEF Sonnet, Opus48, Grok, Rung
<1>3. HeadChain(<<Fable, Sol, Luna, Glm>>)
  BY RungsFit, Head4 DEF Fable, Sol, Luna, Glm, Rung
<1> QED
  BY <1>1, <1>2, <1>3 DEF PhaseChains

LEMMA WorkloadHeads == \A c \in WorkloadClasses : HeadChain(WorkloadChains[c])
<1>1. HeadChain(<<Fable, Sol, Grok, Glm>>)
  BY RungsFit, Head4 DEF Fable, Sol, Grok, Glm, Rung
<1>2. HeadChain(<<Sol, Grok, Glm>>)
  BY RungsFit, Head3 DEF Sol, Grok, Glm, Rung
<1>3. HeadChain(<<Opus55("high"), Grok, Glm>>)
  BY RungsFit, Head3 DEF Opus55, Grok, Glm, Rung
<1>4. HeadChain(<<Flash, Grok, Opus48, Sonnet("high"), Opus55("high")>>)
  BY RungsFit, Head5 DEF Flash, Grok, Opus48, Sonnet, Opus55, Rung
<1>5. HeadChain(<<Flash, Opus55("high"), Luna, Opus48, Opus55("low"), Grok>>)
  BY RungsFit, Head6 DEF Flash, Opus55, Luna, Opus48, Grok, Rung
<1>6. HeadChain(<<Flash, Luna, Opus48, Sonnet("low"), Grok>>)
  BY RungsFit, Head5 DEF Flash, Luna, Opus48, Sonnet, Grok, Rung
<1>7. HeadChain(<<Flash, Sonnet("low"), Grok>>)
  BY RungsFit, Head3 DEF Flash, Sonnet, Grok, Rung
<1> SUFFICES ASSUME NEW c \in WorkloadClasses PROVE HeadChain(WorkloadChains[c])
  OBVIOUS
<1>8. WorkloadChains[c] \in
        {<<Fable, Sol, Grok, Glm>>, <<Sol, Grok, Glm>>, <<Opus55("high"), Grok, Glm>>,
         <<Flash, Grok, Opus48, Sonnet("high"), Opus55("high")>>,
         <<Flash, Opus55("high"), Luna, Opus48, Opus55("low"), Grok>>,
         <<Flash, Luna, Opus48, Sonnet("low"), Grok>>, <<Flash, Sonnet("low"), Grok>>}
  BY DEF WorkloadChains, WorkloadClasses, Difficulties, Volumes
<1> QED
  BY <1>1, <1>2, <1>3, <1>4, <1>5, <1>6, <1>7, <1>8

LEMMA StacksFit == \A s \in CANDIDATE_STACKS : ChainOK(s.rungs)
<1>1. \A c \in WorkloadClasses : ChainOK(v4Stack(IMPLEMENT, "implement", c, WorkloadChains[c], EmergencyTail).rungs)
  BY WorkloadHeads, WithTail DEF v4Stack, CandidateStack
<1>2. \A p \in WorkerPhases : ChainOK(v4Stack(POLICY_PHASE_ROUTES[p], p, NoClass, PhaseChains[p], EmergencyTail).rungs)
  BY PhaseHeads, WithTail DEF v4Stack, CandidateStack
<1>3. ChainOK(CandidateStack(TASTE, Null, NoClass, <<TASTE_REVIEW_PIN>>, FALSE).rungs)
  <2> DEFINE t == <<TASTE_REVIEW_PIN>>
  <2>1. t \in Seq({TASTE_REVIEW_PIN}) /\ DOMAIN t = {1} /\ t[1] = TASTE_REVIEW_PIN /\ Elements(t) = {TASTE_REVIEW_PIN}
        /\ t # <<>>
    BY DEF Elements
  <2> HIDE DEF t
  <2>2. ChainOK(t)
    BY <2>1, RungsFit DEF ChainOK
  <2>3. CandidateStack(TASTE, Null, NoClass, <<TASTE_REVIEW_PIN>>, FALSE).rungs = t
    BY DEF CandidateStack, t
  <2> QED
    BY <2>2, <2>3
<1> QED
  BY <1>1, <1>2, <1>3 DEF CANDIDATE_STACKS

\* What a pinned alias comes to.
LEMMA AliasFits ==
  ASSUME NEW alias \in ExecutableRoutes, NEW s, s = PUBLIC_ALIAS_CANDIDATE_STACKS[alias]
  PROVE  /\ alias \in Aliases
         /\ s.route = CAPABILITY_ROUTE_BY_SUFFIX[alias[2]] /\ ~ s.automaticFallback
         /\ ChainOK(s.rungs) /\ DOMAIN s.rungs = {1}
         /\ s.rungs[1].stableId = BindingOf(alias).stableId
<1> DEFINE b == BindingOf(alias)
           entry == registryIndex(MODEL_REGISTRY, b.stableId)
           effort == CASE b.defaultEffort # Null -> b.defaultEffort
                       [] b.defaultEffort = Null /\ entry.fixedEffort # Null -> entry.fixedEffort
                       [] OTHER -> "none"
           rung == Rung(b.stableId, effort)
           t == <<rung>>
<1>1. /\ b \in RouteBindings /\ alias[2] \in Suffixes /\ alias[2] # Null
  BY AliasBinding DEF Suffixes, Null
<1>2. alias \in Aliases /\ alias # TASTE_REVIEW_ALIAS
  BY <1>1, AliasBinding DEF Aliases, ExecutableRoutes, TASTE_REVIEW_ALIAS
<1>3. s = AliasStack(b, alias[2])
  BY <1>2 DEF PUBLIC_ALIAS_CANDIDATE_STACKS, BindingOf
<1>4. s = CandidateStack(CAPABILITY_ROUTE_BY_SUFFIX[alias[2]], Null, NoClass, t, FALSE)
  BY <1>3 DEF AliasStack
<1>5. s.route = CAPABILITY_ROUTE_BY_SUFFIX[alias[2]] /\ s.automaticFallback = FALSE /\ s.rungs = t
  <2> HIDE DEF t, b
  <2> QED
    BY <1>4 DEF CandidateStack
<1>6. RungFits(rung) /\ rung.stableId = b.stableId
  <2>1. /\ b.stableId \in RoutedIds /\ b.backend = BackendOfId(b.stableId)
        /\ b.defaultEffort \in {Null} \cup EffortsOn(b.backend)
    BY <1>1, Bindings
  <2>2. entry.fixedEffort = FixedEffortOf(b.stableId) /\ BackendOfId(b.stableId) \in Backends
    BY <2>1, RoutedModel
  <2>3. FixedEffortOf(b.stableId) \in {Null, "high"} /\ "high" \in Efforts /\ "none" \in Efforts
    BY DEF FixedEffortOf, Efforts
  <2>4. EffortsOn(BackendOfId(b.stableId)) \subseteq Efforts
    BY <2>2, BackendEfforts
  <2> HIDE DEF b, entry
  <2>5. /\ effort \in Efforts
        /\ effort \in {"none", FixedEffortOf(b.stableId)} \cup EffortsOn(BackendOfId(b.stableId))
    BY <2>1, <2>2, <2>3, <2>4
  <2> HIDE DEF effort
  <2> QED
    BY <2>1, <2>5 DEF RungFits, Rung
<1>7. ChainOK(t) /\ DOMAIN t = {1} /\ t[1] = rung
  <2> HIDE DEF rung
  <2>1. t \in Seq({rung}) /\ DOMAIN t = {1} /\ t[1] = rung /\ Elements(t) = {rung} /\ t # <<>>
    BY DEF Elements
  <2> HIDE DEF t
  <2> QED
    BY <2>1, <1>6 DEF ChainOK
<1> HIDE DEF t, rung, effort, entry
<1> QED
  BY <1>2, <1>5, <1>6, <1>7

(* The command line. *)

\* A stack that a run may walk.
Fits(p, s) ==
  /\ s.route \in Worker3 /\ CAPABILITY_ROUTES[s.route].mode = p.mode /\ ChainOK(s.rungs)
  /\ s \in CANDIDATE_STACKS \cup {PUBLIC_ALIAS_CANDIDATE_STACKS[a] : a \in Aliases}
  /\ p.intent = "explicit" => DOMAIN s.rungs = {1} /\ BackendOfId(s.rungs[1].stableId) = p.backend
ArgsOK(p) ==
  /\ p.backend \in Backends /\ p.mode \in Modes /\ p.effort \in Efforts \cup {Null}
  /\ p.intent \in {"economy", "explicit", "direct", "automatic"}
  /\ p.eco <=> p.intent = "economy"
  /\ p.effort # Null => p.effort \in EffortsOn(p.backend) /\ p.intent # "automatic"
  /\ p.intent = "economy" => ~ ecoConflict(p)
  /\ p.intent = "direct" /\ p.backend = "composer" => p.mode # "review"
  /\ p.intent \in {"explicit", "automatic"} => stackOf(p) # {} /\ \A s \in stackOf(p) : Fits(p, s)

LEMMA PinnedStack ==
  ASSUME NEW p, p.intent = "explicit", p.alias \in ExecutableRoutes, ModeOfAlias(p.alias) = p.mode,
         BindingOf(p.alias).backend = p.backend
  PROVE  stackOf(p) # {} /\ \A s \in stackOf(p) : Fits(p, s)
<1> DEFINE s == PUBLIC_ALIAS_CANDIDATE_STACKS[p.alias]
           route == CAPABILITY_ROUTE_BY_SUFFIX[p.alias[2]]
<1>1. /\ p.alias \in Aliases /\ s.route = route /\ ChainOK(s.rungs) /\ DOMAIN s.rungs = {1}
      /\ s.rungs[1].stableId = BindingOf(p.alias).stableId
  BY AliasFits
<1>2. route \in Worker3 /\ CAPABILITY_ROUTES[route].mode = p.mode
  BY AliasBinding, SuffixRoutes DEF ModeOfAlias
<1>3. BindingOf(p.alias).backend = BackendOfId(BindingOf(p.alias).stableId)
  BY AliasBinding, Bindings
<1>4. stackOf(p) = {s}
  BY <1>1 DEF stackOf, candidateStackForRoute
<1>5. Fits(p, s)
  <2> HIDE DEF route
  <2>1. s \in CANDIDATE_STACKS \cup {PUBLIC_ALIAS_CANDIDATE_STACKS[a] : a \in Aliases}
    BY <1>1
  <2> HIDE DEF s
  <2> QED
    BY <1>1, <1>2, <1>3, <2>1 DEF Fits
<1> HIDE DEF s, route
<1> QED
  BY <1>4, <1>5

\* An automatic run has a phase of its mode, and a class where it implements.
LEMMA PolicyStack ==
  ASSUME NEW p, p.intent = "automatic", p.alias = NoAlias,
         p.phase \in TaskPhases \ {"analyze"}, PHASE_MODE[p.phase] = p.mode,
         p.phase = "implement" => p.class \in WorkloadClasses
  PROVE  stackOf(p) # {} /\ \A s \in stackOf(p) : Fits(p, s)
<1> DEFINE route == CASE p.mode = "analyze" -> EXPLORE [] p.mode = "implement" -> IMPLEMENT [] OTHER -> CHECK
<1>1. NoAlias \notin Aliases
  BY Bindings DEF NoAlias, NoClass, Aliases, Suffixes, TASTE_REVIEW_ALIAS, Null
<1>2. p.phase # Null
  BY DEF TaskPhases, PHASE_MODE, Null
<1>3. stackOf(p) = {s \in CANDIDATE_STACKS :
                      /\ s.route = route /\ s.phase \in {p.phase, Null}
                      /\ p.phase = "implement" => s.workloadClass = p.class}
  BY <1>1, <1>2 DEF stackOf, candidateStackForRoute, candidateStackFor
<1>4. p.mode \in Modes /\ route \in Worker3 /\ CAPABILITY_ROUTES[route].mode = p.mode
  <2>1. p.mode \in Modes
    BY DEF TaskPhases, PHASE_MODE, Modes
  <2> QED
    BY <2>1, SuffixRoutes DEF Modes, Worker3
<1>5. stackOf(p) # {}
  <2>1. CASE p.phase = "implement"
    <3> DEFINE s == v4Stack(IMPLEMENT, "implement", p.class, WorkloadChains[p.class], EmergencyTail)
    <3>1. s \in CANDIDATE_STACKS
      BY <2>1 DEF CANDIDATE_STACKS
    <3>2. s.route = IMPLEMENT /\ s.phase = "implement" /\ s.workloadClass = p.class
      BY DEF v4Stack, CandidateStack
    <3>3. route = IMPLEMENT
      BY <2>1 DEF PHASE_MODE
    <3> HIDE DEF s, route
    <3> QED
      BY <1>3, <2>1, <3>1, <3>2, <3>3
  <2>2. CASE p.phase # "implement"
    <3> DEFINE s == v4Stack(POLICY_PHASE_ROUTES[p.phase], p.phase, NoClass, PhaseChains[p.phase], EmergencyTail)
    <3>1. p.phase \in WorkerPhases
      BY <2>2 DEF WorkerPhases
    <3>2. s \in CANDIDATE_STACKS
      BY <3>1 DEF CANDIDATE_STACKS
    <3>3. s.route = POLICY_PHASE_ROUTES[p.phase] /\ s.phase = p.phase
      BY DEF v4Stack, CandidateStack
    <3>4. POLICY_PHASE_ROUTES[p.phase] = route
      BY <2>2, <3>1 DEF POLICY_PHASE_ROUTES, PHASE_MODE, TaskPhases
    <3> HIDE DEF s, route
    <3> QED
      BY <1>3, <2>2, <3>2, <3>3, <3>4
  <2> QED
    BY <2>1, <2>2
<1>6. ASSUME NEW s \in stackOf(p) PROVE Fits(p, s)
  <2>1. s \in CANDIDATE_STACKS /\ s.route = route
    BY <1>3
  <2> HIDE DEF route
  <2> QED
    BY <1>4, <2>1, StacksFit DEF Fits
<1> QED
  BY <1>5, <1>6

LEMMA NoAliasRoute == NoAlias \notin ExecutableRoutes
BY AliasBinding DEF NoAlias, NoClass

LEMMA ComposerDefault ==
  ASSUME NEW e, NEW slug
  PROVE  resolveProfile(e, "composer", "review", NoAlias, slug).sandbox = "workspace-write"
<1> DEFINE d == Profile(backendDefaultModel(e, "composer", "review"), "workspace-write")
<1>1. resolveProfile(e, "composer", "review", NoAlias, slug) = applyWorkerArtifactProfile(d, "review", slug)
  BY NoAliasRoute DEF resolveProfile
<1>2. applyWorkerArtifactProfile(d, "review", slug) = d
  BY DEF applyWorkerArtifactProfile, workerArtifactCapability
<1> QED
  BY <1>1, <1>2 DEF Profile

LEMMA ParsedArguments ==
  ASSUME NEW a, NEW e, NEW p \in parseArguments(a, e)
  PROVE  ArgsOK(p)
<1>1. /\ Accepted(a, e)
      /\ p.backend = backendOf(a) /\ p.mode = modeOf(a) /\ p.phase = phaseOf(a) /\ p.class = classOf(a)
      /\ p.effort = a.effort /\ p.alias = effectiveRoute(a) /\ p.eco = isEco(a)
      /\ p.intent = resolveRoutingIntent(a)
  BY DEF parseArguments
<1>2. /\ a.route \in ExecutableRoutes \cup {NoAlias} /\ modeOf(a) \in Modes /\ backendOf(a) \in Backends
      /\ a.route # NoAlias => BindingOf(a.route).backend = backendOf(a) /\ ModeOfAlias(a.route) = modeOf(a)
  BY <1>1 DEF Accepted, ModeAndRouteOk, BackendOk
<1>3. /\ p.intent \in {"economy", "explicit", "direct", "automatic"}
      /\ p.eco <=> p.intent = "economy"
      /\ p.intent = "explicit" => ~ isEco(a) /\ a.route # NoAlias
      /\ p.intent \in {"direct", "automatic"} => ~ isEco(a) /\ a.route = NoAlias
      /\ p.intent = "automatic" => a.workerModel = Null /\ a.backend = Null
  BY <1>1 DEF resolveRoutingIntent, isEco
<1>4. /\ p.effort # Null => p.effort \in EffortsOn(p.backend) /\ p.intent # "automatic"
      /\ p.effort \in Efforts \cup {Null}
  BY <1>1, <1>2, BackendEfforts DEF Accepted, EffortOk
<1>5. ASSUME p.intent = "economy" PROVE ~ ecoConflict(p)
  BY <1>1, <1>3, <1>5 DEF ecoConflict, backendOf, effectiveRoute
<1>6. ASSUME p.intent = "direct", p.backend = "composer" PROVE p.mode # "review"
  <2>1. effectiveRoute(a) = NoAlias
    BY <1>3, <1>6 DEF effectiveRoute
  <2>2. p.mode = "review" => resolveProfile(e, "composer", "review", NoAlias, a.slug).sandbox = "read-only"
    BY <1>1, <1>6, <2>1 DEF Accepted, ComposerReviewOk
  <2> QED
    BY <2>2, ComposerDefault
<1>7. ASSUME p.intent = "explicit" PROVE stackOf(p) # {} /\ \A s \in stackOf(p) : Fits(p, s)
  <2>1. p.alias = a.route /\ p.alias \in ExecutableRoutes
    BY <1>1, <1>2, <1>3, <1>7 DEF effectiveRoute
  <2> QED
    BY <1>1, <1>2, <1>3, <1>7, <2>1, PinnedStack
<1>8. ASSUME p.intent = "automatic" PROVE stackOf(p) # {} /\ \A s \in stackOf(p) : Fits(p, s)
  <2>1. p.alias = NoAlias
    BY <1>1, <1>3, <1>8 DEF effectiveRoute
  <2>2. statedPhase(a) \in TaskPhases /\ PHASE_MODE[statedPhase(a)] = modeOf(a)
    <3>1. statedPhase(a) # Null
      BY <1>1 DEF Accepted, PhaseOk
    <3>2. /\ {"analyze", "implement", "verify"} \subseteq TaskPhases
          /\ PHASE_MODE["analyze"] = "analyze" /\ PHASE_MODE["implement"] = "implement" /\ PHASE_MODE["verify"] = "review"
      BY DEF TaskPhases, PHASE_MODE
    <3> QED
      BY <1>2, <3>1, <3>2 DEF statedPhase, normalizeTaskPhase, Modes
  <2>3. automaticAnalyzeIntent(a) <=> statedPhase(a) = "analyze"
    BY <1>1, <1>3, <1>8, <2>1 DEF automaticAnalyzeIntent
  <2>4. p.phase \in TaskPhases \ {"analyze"} /\ PHASE_MODE[p.phase] = p.mode
    <3>1. CASE statedPhase(a) = "analyze"
      <4>1. p.phase = "explore"
        BY <1>1, <2>3, <3>1 DEF phaseOf
      <4>2. "explore" \in TaskPhases /\ PHASE_MODE["explore"] = "analyze" /\ PHASE_MODE["analyze"] = "analyze"
        BY DEF TaskPhases, PHASE_MODE
      <4> QED
        BY <1>1, <2>2, <3>1, <4>1, <4>2
    <3>2. CASE statedPhase(a) # "analyze"
      BY <1>1, <2>2, <2>3, <3>2 DEF phaseOf
    <3> QED
      BY <3>1, <3>2
  <2>5. ASSUME p.phase = "implement" PROVE p.class \in WorkloadClasses
    <3>1. classOf(a) # NoClass
      BY <1>1, <1>3, <1>8, <2>1, <2>5 DEF Accepted, ClassOk
    <3>2. a.class \in WorkloadClasses \cup {NoClass}
      BY <1>1 DEF Accepted, ClassOk
    <3>3. \A x : profileWorkload(x) \in WorkloadClasses
      BY DEF profileWorkload, difficultyOf, WorkloadClasses, Difficulties, Volumes
    <3>4. classOf(a) \in WorkloadClasses \cup {NoClass}
      BY <3>2, <3>3 DEF classOf, resolveWorkloadClass
    <3> QED
      BY <1>1, <3>1, <3>4
  <2> QED
    BY <1>8, <2>1, <2>4, <2>5, PolicyStack
<1> QED
  BY <1>1, <1>2, <1>3, <1>4, <1>5, <1>6, <1>7, <1>8 DEF ArgsOK

(* The inductive invariant. *)

\* A worker is at work, or what it left is being recorded.
AtWork == {"running", "record", "emit", "settle"}
Walking == step = "walk" /\ status \in {"walking", "attempting"}

\* The arguments of the run are what the command line lets through.
Parsed == \E p \in input : input = {p} /\ ArgsOK(p)

StepOK ==
  /\ registry = MODEL_REGISTRY
  /\ env \in {t.env : t \in Trials}
  /\ step \in {"idle", "launch", "walk", "done"} \cup AtWork
  /\ step = "idle" => input = {} /\ tries = <<>> /\ attempts = <<>> /\ charged = <<>>
  /\ step # "idle" => Parsed
  /\ step = "launch" => Run.intent \in {"economy", "direct"}
  /\ step = "walk" => Run.intent \in {"explicit", "automatic"}
  /\ step \in AtWork => tries # <<>>
  /\ result \in {"none", "success", "failure", "rejected"}
  /\ result = "none" <=> step # "done"

\* Attempt k, by itself.
TryFields ==
  {"backend", "mode", "rung", "stableId", "model", "grants", "passed", "forwarded", "traced", "fallbackOf",
   "outcome", "outage", "hint"}
TryTyped(k) ==
  /\ DOMAIN tries[k] = TryFields
  /\ tries[k].backend \in Backends /\ tries[k].mode \in Modes
  /\ tries[k].outcome \in {"running", "completed"} \cup Failures
  /\ tries[k].outage \in OutageReasons \cup {Null}
  /\ tries[k].hint \in Backends \cup {Null}
  /\ tries[k].traced \in Efforts \cup {Null}
  /\ tries[k].fallbackOf = k - 1
Judged(k) ==
  /\ tries[k].outage # Null => tries[k].outage = tries[k].outcome
  /\ tries[k].hint = IF tries[k].outage = Null \/ Run.intent # "direct" THEN Null ELSE hintAfter(tries[k].backend)

\* Attempt k failed in a way its path goes on from.
GoesOn(k) ==
  IF Run.intent = "direct" THEN tries[k].outage # Null
  ELSE isRetryableDisposition(canonicalFailureDisposition(tries[k]))

\* Attempts j and k are of different rungs, or of different models or backends.
Apart(j, k) ==
  IF Run.intent \in {"explicit", "automatic"} THEN tries[j].rung # tries[k].rung
  ELSE <<tries[j].backend, tries[j].model>> # <<tries[k].backend, tries[k].model>>

TriesOK ==
  /\ tries \in Seq(Elements(tries))
  /\ \A k \in 1..Len(tries) : TryTyped(k) /\ Judged(k)
  /\ \A k \in 1..Len(tries) : k < Len(tries) => GoesOn(k)
  /\ \A j, k \in 1..Len(tries) : j < k => Apart(j, k)

\* The ladder, in its order.
Height(backend) ==
  CASE backend = "codex" -> 1 [] backend = "claude" -> 2 [] backend = "composer" -> 3
    [] backend = "minimax" -> 4 [] backend = "kimi" -> 5 [] OTHER -> 0
DirectOK ==
  (input # {} /\ Run.intent = "direct") =>
    /\ Len(tries) > 0 => tries[1].backend = Run.backend
    /\ \A j, k \in 1..Len(tries) : j < k =>
         /\ Height(tries[j].backend) < Height(tries[k].backend)
         /\ k = j + 1 => tries[j].hint = tries[k].backend
    /\ step = "launch" /\ Len(tries) > 0 => nextTier # {}
EconomyOK ==
  (input # {} /\ Run.intent = "economy") =>
    /\ Len(tries) <= (IF step = "launch" THEN 1 ELSE 2)
    /\ \A k \in 1..Len(tries) :
         tries[k].backend = ecoTier(k - 1).backend /\ tries[k].stableId = ecoTier(k - 1).stableId
    /\ step = "launch" /\ Len(tries) > 0 => GoesOn(Len(tries))

\* On a stack the attempts are of rungs behind the cursor, but for the one at work.
StackOK ==
  (input # {} /\ Run.intent \in {"explicit", "automatic"}) =>
    /\ \E s \in stackOf(Run) : request = requestFor(s)
    /\ cursor \in Nat \ {0}
    /\ step \in AtWork => status = "attempting" /\ tries[Len(tries)].rung = {cursor}
    /\ status = "attempting" => cursor \in DOMAIN request.rungs
    /\ \A k \in 1..Len(tries) : \E i \in 1..cursor :
         /\ tries[k].rung = {i} /\ i \in DOMAIN request.rungs
         /\ (Walking \/ (step \in AtWork /\ k < Len(tries))) => i < cursor
    /\ step = "walk" /\ tries = <<>> =>
         /\ status \in {"walking", "attempting"} /\ cursor = 1
         /\ status = "walking" => attempts = <<>> /\ charged = <<>>
    /\ Walking /\ tries # <<>> => GoesOn(Len(tries))

\* What attempt k was given.
Given(k) ==
  /\ tries[k].mode = "review" => tries[k].grants = "nothing"
  /\ (tries[k].mode = "analyze" /\ Run.slug # Null /\ containment(tries[k].backend) = "path-scoped")
       => tries[k].grants = "artifact"
  /\ Run.intent # "direct" => tries[k].model = ModelOf(tries[k].stableId)
  /\ Run.intent \in {"explicit", "automatic"} =>
       tries[k].passed \in {Null} \cup supportedEffortsFor(registryIndex(MODEL_REGISTRY, tries[k].stableId))
GivenOK == \A k \in 1..Len(tries) : Given(k)

RunInv == StepOK /\ TriesOK /\ DirectOK /\ EconomyOK /\ StackOK /\ GivenOK /\ AcceptedNeverRejected
(* Sequences that grow, or whose last element is replaced. *)

LEMMA Grown ==
  ASSUME NEW s, s \in Seq(Elements(s)), NEW x
  PROVE  LET t == Append(s, x) IN
         /\ t \in Seq(Elements(t)) /\ Len(s) \in Nat /\ Len(t) = Len(s) + 1
         /\ \A k \in 1..Len(s) : t[k] = s[k]
         /\ t[Len(t)] = x
<1> DEFINE t == Append(s, x)
           S == Elements(s) \cup {x}
<1>1. s \in Seq(S) /\ x \in S
  OBVIOUS
<1>2. t \in Seq(S) /\ Len(s) \in Nat /\ Len(t) = Len(s) + 1 /\ \A k \in 1..Len(s) : t[k] = s[k]
  <2> HIDE DEF S
  <2> QED
    BY <1>1
<1>3. t[Len(t)] = x
  <2> HIDE DEF S
  <2> QED
    BY <1>1
<1>4. t \in [1..Len(t) -> Elements(t)]
  <2> HIDE DEF t, S
  <2>1. DOMAIN t = 1..Len(t) /\ t = [i \in 1..Len(t) |-> t[i]]
    BY <1>2
  <2> QED
    BY <2>1 DEF Elements
<1>5. t \in Seq(Elements(t))
  <2> HIDE DEF t
  <2> QED
    BY <1>2, <1>4
<1> HIDE DEF t, S
<1> QED
  BY <1>2, <1>3, <1>5 DEF t

LEMMA Amended ==
  ASSUME NEW s, s \in Seq(Elements(s)), NEW t, DOMAIN t = 1..Len(s), t = [i \in 1..Len(s) |-> t[i]]
  PROVE  t \in Seq(Elements(t)) /\ Len(t) = Len(s)
<1> DEFINE n == Len(s)
           E == Elements(t)
<1>1. n \in Nat
  OBVIOUS
<1>2. t \in [1..n -> E]
  BY DEF Elements
<1> HIDE DEF n, E
<1>3. t \in Seq(E) /\ Len(t) = n
  BY <1>1, <1>2
<1> QED
  BY <1>3 DEF n, E

\* The run under way is the one whose arguments were let through.
LEMMA RunArgs ==
  ASSUME Parsed PROVE input = {Run} /\ ArgsOK(Run)
BY DEF Parsed, Run

LEMMA Started ==
  ASSUME RunInv, step # "idle"
  PROVE  input = {Run} /\ ArgsOK(Run)
BY RunArgs DEF RunInv, StepOK

LEMMA EnvOK ==
  ASSUME RunInv
  PROVE  /\ env \in {t.env : t \in Trials} /\ env.minimax \in BOOLEAN /\ env.kimi \in BOOLEAN
         /\ env.retryPolicy \in Policies /\ env.outcomes \subseteq {"completed"} \cup Failures
<1>1. env \in {t.env : t \in Trials}
  BY DEF RunInv, StepOK
<1> QED
  BY <1>1, RunAssumption

(* A new attempt, and one that came out. *)

\* What may be launched next: an attempt of another rung or model than those before,
\* after one that the path goes on from, with what its contract allows.
Launchable(backend, rung, stableId, profile, passed, traced) ==
  /\ backend \in Backends /\ traced \subseteq Efforts /\ (traced = {} => passed \in Efforts \cup {Null})
  /\ Run.mode = "review" => profile.sandbox = "read-only"
  /\ tries # <<>> => GoesOn(Len(tries))
  /\ \A j \in 1..Len(tries) :
       IF Run.intent \in {"explicit", "automatic"} THEN tries[j].rung # rung
       ELSE <<tries[j].backend, tries[j].model>> # <<backend, profile.model>>
  /\ Run.intent # "direct" => profile.model = ModelOf(stableId)
  /\ Run.intent \in {"explicit", "automatic"} =>
       passed \in {Null} \cup supportedEffortsFor(registryIndex(MODEL_REGISTRY, stableId))
Launched(backend, rung, stableId) ==
  /\ step' = "running" /\ Len(tries) \in Nat /\ Len(tries') = Len(tries) + 1
  /\ \A k \in 1..Len(tries) : tries'[k] = tries[k]
  /\ tries'[Len(tries')].backend = backend /\ tries'[Len(tries')].rung = rung
  /\ tries'[Len(tries')].stableId = stableId

LEMMA TryGrants ==
  ASSUME NEW backend, NEW mode, NEW profile, NEW slug,
         mode = "review" => profile.sandbox = "read-only"
  PROVE  LET g == grantsOf(backend, mode, slug, applyWorkerArtifactProfile(profile, mode, slug).sandbox) IN
         /\ mode = "review" => g = "nothing"
         /\ (mode = "analyze" /\ slug # Null /\ containment(backend) = "path-scoped") => g = "artifact"
BY DEF grantsOf, applyWorkerArtifactProfile, workerArtifactCapability

LEMMA Launches ==
  ASSUME RunInv, step # "idle", NEW backend, NEW rung, NEW stableId, NEW profile, NEW passed, NEW traced,
         Launchable(backend, rung, stableId, profile, passed, traced),
         launch(NewTry(backend, Run.mode, rung, stableId, profile, passed, traced)), UNCHANGED <<env, input>>
  PROVE  TriesOK' /\ GivenOK' /\ Launched(backend, rung, stableId)
<1> DEFINE t == NewTry(backend, Run.mode, rung, stableId, profile, passed, traced)
<1>0. PICK n : n = Len(tries)
  OBVIOUS
<1>1. tries \in Seq(Elements(tries)) /\ ArgsOK(Run) /\ Run' = Run
  BY Started DEF RunInv, TriesOK, Run
<1>2. tries' = Append(tries, t) /\ step' = "running"
  BY DEF launch
<1>3. /\ tries' \in Seq(Elements(tries')) /\ n \in Nat /\ Len(tries') = n + 1
      /\ \A k \in 1..n : tries'[k] = tries[k]
      /\ tries'[n + 1] = t
  <2> HIDE DEF t
  <2> QED
    BY <1>0, <1>1, <1>2, Grown
<1>4. /\ t.backend = backend /\ t.mode = Run.mode /\ t.rung = rung /\ t.stableId = stableId
      /\ t.model = profile.model /\ t.passed = passed /\ t.fallbackOf = n /\ t.outcome = "running"
      /\ t.outage = Null /\ t.hint = Null
      /\ t.grants = grantsOf(backend, Run.mode, Run.slug, applyWorkerArtifactProfile(profile, Run.mode, Run.slug).sandbox)
  BY <1>0 DEF NewTry
<1>5. t.traced \in Efforts \cup {Null} /\ DOMAIN t = TryFields
  <2>1. t.traced = IF traced = {} THEN resolveCodexEffort(backend, Run.mode, passed) ELSE CHOOSE e \in traced : TRUE
    BY DEF NewTry
  <2>2. resolveCodexEffort(backend, Run.mode, passed) \in {passed, "high"}
    BY DEF resolveCodexEffort
  <2>3. DOMAIN t = TryFields
    BY DEF NewTry, TryFields
  <2> QED
    BY <2>1, <2>2, <2>3 DEF Launchable, Efforts
<1> HIDE DEF t
<1>6. \A k \in 1..n : TryTyped(k)' /\ Judged(k)' /\ Given(k)'
  <2> SUFFICES ASSUME NEW k \in 1..n PROVE TryTyped(k)' /\ Judged(k)' /\ Given(k)'
    OBVIOUS
  <2>1. TryTyped(k) /\ Judged(k) /\ Given(k) /\ tries'[k] = tries[k]
    BY <1>0, <1>3 DEF RunInv, TriesOK, GivenOK
  <2> QED
    BY <1>1, <2>1 DEF TryTyped, Judged, Given, hintAfter
<1>7. TryTyped(n + 1)'
  BY <1>1, <1>3, <1>4, <1>5 DEF TryTyped, ArgsOK, Launchable
<1>8. Judged(n + 1)'
  BY <1>1, <1>3, <1>4 DEF Judged
<1>9. Given(n + 1)'
  <2>1. /\ t.mode = "review" => t.grants = "nothing"
        /\ (t.mode = "analyze" /\ Run.slug # Null /\ containment(t.backend) = "path-scoped") => t.grants = "artifact"
    BY <1>4, TryGrants DEF Launchable
  <2> QED
    BY <1>1, <1>3, <1>4, <2>1 DEF Given, Launchable
<1>10. \A k \in 1..n : GoesOn(k)'
  <2> SUFFICES ASSUME NEW k \in 1..n PROVE GoesOn(k)'
    OBVIOUS
  <2>1. GoesOn(k) /\ tries'[k] = tries[k]
    BY <1>0, <1>3 DEF RunInv, TriesOK, Launchable
  <2> QED
    BY <1>1, <2>1 DEF GoesOn, canonicalFailureDisposition
<1>11. \A j, k \in 1..(n + 1) : j < k => Apart(j, k)'
  <2> SUFFICES ASSUME NEW j \in 1..(n + 1), NEW k \in 1..(n + 1), j < k PROVE Apart(j, k)'
    OBVIOUS
  <2>1. j \in 1..n /\ tries'[j] = tries[j]
    BY <1>3
  <2>2. CASE k = n + 1
    BY <1>0, <1>1, <1>3, <1>4, <2>1, <2>2 DEF Apart, Launchable
  <2>3. CASE k # n + 1
    <3>1. k \in 1..n /\ tries'[k] = tries[k] /\ Apart(j, k)
      BY <1>0, <1>3, <2>1, <2>3 DEF RunInv, TriesOK
    <3> QED
      BY <1>1, <2>1, <3>1 DEF Apart
  <2> QED
    BY <2>2, <2>3
<1>12. 1..Len(tries') = 1..n \cup {n + 1} /\ \A k \in 1..Len(tries') : k < Len(tries') => k \in 1..n
  BY <1>3
<1>13. TriesOK'
  BY <1>3, <1>6, <1>7, <1>8, <1>10, <1>11, <1>12 DEF TriesOK
<1>14. GivenOK'
  BY <1>6, <1>9, <1>12 DEF GivenOK
<1> QED
  BY <1>0, <1>2, <1>3, <1>4, <1>13, <1>14 DEF Launched

LEMMA Returns ==
  ASSUME RunInv, NEW outcome \in env.outcomes, WorkerReturns(outcome)
  PROVE  /\ TriesOK' /\ GivenOK' /\ Len(tries) \in Nat \ {0} /\ Len(tries') = Len(tries)
         /\ \A k \in 1..Len(tries) :
              /\ tries'[k].backend = tries[k].backend /\ tries'[k].rung = tries[k].rung
              /\ tries'[k].stableId = tries[k].stableId
              /\ k < Len(tries) => tries'[k] = tries[k]
<1> DEFINE outage == classifiedOutage(Last, outcome)
           e == [Last EXCEPT !.outcome = outcome, !.outage = outage, !.hint = recordBackendOutage(outage)]
<1>0. PICK n : n = Len(tries)
  OBVIOUS
<1>1. /\ tries \in Seq(Elements(tries)) /\ tries # <<>> /\ Run' = Run /\ UNCHANGED <<env, input>>
      /\ tries' = [tries EXCEPT ![n] = e]
  BY <1>0 DEF RunInv, TriesOK, StepOK, AtWork, WorkerReturns, Run
<1> HIDE DEF e
<1>2. /\ tries' \in Seq(Elements(tries')) /\ n \in Nat \ {0} /\ Len(tries') = n
      /\ \A k \in 1..n : k # n => tries'[k] = tries[k]
      /\ tries'[n] = e
  <2>1. n \in Nat \ {0} /\ DOMAIN tries = 1..n
    BY <1>0, <1>1
  <2>2. /\ DOMAIN tries' = 1..n /\ tries'[n] = e
        /\ \A k \in 1..n : k # n => tries'[k] = tries[k]
    BY <1>1, <2>1
  <2>3. tries' = [i \in 1..n |-> tries'[i]]
    BY <1>1, <2>1
  <2> QED
    BY <1>0, <1>1, <2>1, <2>2, <2>3, Amended
<1>3. TryTyped(n) /\ Judged(n) /\ Given(n) /\ Last = tries[n]
  BY <1>0, <1>2 DEF RunInv, TriesOK, GivenOK, Last
<1>4. outcome \in {"completed"} \cup Failures /\ outage \in OutageReasons \cup {Null} /\ (outage # Null => outage = outcome)
  BY EnvOK DEF classifiedOutage
<1>5. /\ e.backend = tries[n].backend /\ e.mode = tries[n].mode /\ e.rung = tries[n].rung
      /\ e.stableId = tries[n].stableId /\ e.model = tries[n].model /\ e.grants = tries[n].grants
      /\ e.passed = tries[n].passed /\ e.traced = tries[n].traced /\ e.fallbackOf = tries[n].fallbackOf
      /\ e.outcome = outcome /\ e.outage = outage /\ e.hint = recordBackendOutage(outage)
  <2>1. DOMAIN Last = TryFields
    BY <1>3 DEF TryTyped
  <2> HIDE DEF outage
  <2> QED
    BY <1>3, <2>1 DEF e, TryFields
<1> HIDE DEF e
<1>6. DOMAIN e = TryFields
  BY <1>3 DEF e, TryTyped
<1>7. TryTyped(n)'
  <2>1. recordBackendOutage(outage) \in Backends \cup {Null}
    BY <1>3 DEF recordBackendOutage, hintAfter, Backends
  <2> HIDE DEF outage
  <2> QED
    BY <1>2, <1>3, <1>4, <1>5, <1>6, <2>1 DEF TryTyped
<1>8. Judged(n)'
  <2> HIDE DEF outage
  <2>1. e.hint = IF outage = Null \/ Run.intent # "direct" THEN Null ELSE hintAfter(tries[n].backend)
    BY <1>3, <1>5 DEF recordBackendOutage
  <2> QED
    BY <1>1, <1>2, <1>4, <1>5, <2>1 DEF Judged, hintAfter
<1>9. Given(n)'
  BY <1>1, <1>2, <1>3, <1>5 DEF Given
<1>10. \A k \in 1..n : k # n => TryTyped(k)' /\ Judged(k)' /\ Given(k)' /\ GoesOn(k)'
  <2> SUFFICES ASSUME NEW k \in 1..n, k # n PROVE TryTyped(k)' /\ Judged(k)' /\ Given(k)' /\ GoesOn(k)'
    OBVIOUS
  <2>1. TryTyped(k) /\ Judged(k) /\ Given(k) /\ tries'[k] = tries[k] /\ GoesOn(k)
    BY <1>0, <1>2 DEF RunInv, TriesOK, GivenOK
  <2> QED
    BY <1>1, <2>1 DEF TryTyped, Judged, Given, hintAfter, GoesOn, canonicalFailureDisposition
<1>11. \A k \in 1..n : /\ tries'[k].backend = tries[k].backend /\ tries'[k].rung = tries[k].rung
                       /\ tries'[k].stableId = tries[k].stableId /\ tries'[k].model = tries[k].model
  BY <1>2, <1>5
<1>12. \A j, k \in 1..n : j < k => Apart(j, k)'
  <2> SUFFICES ASSUME NEW j \in 1..n, NEW k \in 1..n, j < k PROVE Apart(j, k)'
    OBVIOUS
  <2>1. Apart(j, k)
    BY <1>0 DEF RunInv, TriesOK
  <2> QED
    BY <1>1, <1>11, <2>1 DEF Apart
<1>13. TriesOK'
  BY <1>2, <1>7, <1>8, <1>10, <1>12 DEF TriesOK
<1>14. GivenOK'
  BY <1>2, <1>9, <1>10 DEF GivenOK
<1> QED
  BY <1>0, <1>2, <1>11, <1>13, <1>14

(* What steps leave alone. *)

LEMMA TriesKept ==
  ASSUME RunInv, UNCHANGED <<env, input, tries>> PROVE TriesOK' /\ GivenOK'
<1>0. PICK n : n = Len(tries)
  OBVIOUS
<1>1. Run' = Run /\ TriesOK /\ GivenOK /\ n = Len(tries') /\ tries' = tries
  BY <1>0 DEF Run, RunInv
<1>2. \A k \in 1..n : TryTyped(k)' /\ Judged(k)' /\ Given(k)' /\ (k < n => GoesOn(k)')
  <2> SUFFICES ASSUME NEW k \in 1..n PROVE TryTyped(k)' /\ Judged(k)' /\ Given(k)' /\ (k < n => GoesOn(k)')
    OBVIOUS
  <2>1. TryTyped(k) /\ Judged(k) /\ Given(k) /\ (k < n => GoesOn(k)) /\ tries'[k] = tries[k]
    BY <1>0, <1>1 DEF TriesOK, GivenOK
  <2> QED
    BY <1>1, <2>1 DEF TryTyped, Judged, Given, hintAfter, GoesOn, canonicalFailureDisposition
<1>3. \A j, k \in 1..n : j < k => Apart(j, k)'
  <2> SUFFICES ASSUME NEW j \in 1..n, NEW k \in 1..n, j < k PROVE Apart(j, k)'
    OBVIOUS
  <2>1. Apart(j, k)
    BY <1>0, <1>1 DEF TriesOK
  <2> QED
    BY <1>1, <2>1 DEF Apart
<1>4. tries' \in Seq(Elements(tries'))
  BY <1>1 DEF TriesOK
<1> QED
  BY <1>1, <1>2, <1>3, <1>4 DEF TriesOK, GivenOK

\* Started, with no attempt yet.
Fresh(p) ==
  /\ step = "idle" /\ input' = {p} /\ ArgsOK(p) /\ UNCHANGED <<registry, env, tries, result>>
  /\ step' \in {"launch", "walk"}

LEMMA FreshRun ==
  ASSUME RunInv, NEW p, Fresh(p),
         step' = "launch" <=> p.intent \in {"economy", "direct"}
  PROVE  /\ Run' = p /\ StepOK' /\ TriesOK' /\ DirectOK' /\ EconomyOK' /\ GivenOK'
         /\ AcceptedNeverRejected' /\ tries' = <<>> /\ attempts = <<>> /\ charged = <<>>
<1>1. /\ tries = <<>> /\ attempts = <<>> /\ charged = <<>> /\ result = "none"
      /\ registry = MODEL_REGISTRY /\ env \in {t.env : t \in Trials}
      /\ tries' = <<>> /\ result' = "none" /\ env' = env /\ registry' = registry
  BY DEF RunInv, StepOK, Fresh
<1>2. Run' = p /\ Parsed'
  BY DEF Fresh, Run, Parsed
<1>3. p.intent \in {"economy", "explicit", "direct", "automatic"}
  BY DEF Fresh, ArgsOK
<1>4. StepOK'
  BY <1>1, <1>2, <1>3 DEF Fresh, StepOK, AtWork
<1>6. TriesOK' /\ GivenOK'
  BY <1>1 DEF TriesOK, GivenOK, Elements
<1>7. DirectOK' /\ EconomyOK'
  BY <1>1 DEF DirectOK, EconomyOK
<1>8. AcceptedNeverRejected'
  BY <1>1 DEF AcceptedNeverRejected
<1> QED
  BY <1>1, <1>2, <1>4, <1>6, <1>7, <1>8

LEMMA InitRunInv == RunInit => RunInv
<1> SUFFICES ASSUME RunInit PROVE RunInv
  OBVIOUS
<1>1. /\ registry = MODEL_REGISTRY /\ tries = <<>> /\ input = {} /\ step = "idle" /\ result = "none"
      /\ attempts = <<>> /\ charged = <<>> /\ env \in {t.env : t \in Trials}
  BY RunAssumption DEF RunInit, Init
<1>2. StepOK
  BY <1>1 DEF StepOK, AtWork
<1>4. TriesOK /\ GivenOK
  BY <1>1 DEF TriesOK, GivenOK, Elements
<1>5. DirectOK /\ EconomyOK /\ StackOK /\ AcceptedNeverRejected
  BY <1>1 DEF DirectOK, EconomyOK, StackOK, AcceptedNeverRejected
<1> QED
  BY <1>2, <1>4, <1>5 DEF RunInv

\* A stack the runner may walk is asked for in a way the traversal knows, and begins.
LEMMA FitRequest ==
  ASSUME RunInv, NEW p, NEW s, Fits(p, s)
  PROVE  /\ requestFor(s) \in Requests /\ requestFor(s).rungs = s.rungs /\ requestFor(s).route = s.route
         /\ requestFor(s).maxAttempts \in {{}, {1}} /\ ~ duplicateRung(s.rungs)
<1>1. requestFor(s) \in Requests
  BY EnvOK, RunAssumption DEF Fits, requestFor
<1>2. ~ duplicateRung(s.rungs)
  BY DEF Fits, ChainOK, duplicateRung, IsInjective
<1>3. requestFor(s).rungs = s.rungs /\ requestFor(s).route = s.route /\ requestFor(s).maxAttempts \in {{}, {1}}
  BY DEF requestFor, requestOf, Request
<1> QED
  BY <1>1, <1>2, <1>3

\* How the run of arguments p starts, when nothing refuses it.
Onward(p) ==
  /\ (p.intent = "economy" /\ ~ ecoConflict(p)) => step' = "launch" /\ UNCHANGED <<walkVars, tries, result>>
  /\ p.intent = "direct" => step' = "launch" /\ UNCHANGED <<walkVars, tries, result>>
  /\ (p.intent \in {"explicit", "automatic"} /\ stackOf(p) # {}) =>
       /\ \E s \in stackOf(p) : Begin(requestFor(s))
       /\ step' = "walk"
       /\ UNCHANGED <<tries, result>>

LEMMA StartsRun ==
  ASSUME RunInv, NEW a, Start(a)
  PROVE  RunInv' /\ (UNCHANGED walkVars \/ \E q \in Requests : Begin(q))
<1>1. PICK p \in parseArguments(a, env) : step = "idle" /\ input' = {p} /\ env' = env /\ Onward(p)
  BY DEF Start, Onward
<1>2. ArgsOK(p)
  BY ParsedArguments
<1>3. CASE p.intent \in {"economy", "direct"}
  <2>1. step' = "launch" /\ UNCHANGED <<walkVars, tries, result>>
    BY <1>1, <1>2, <1>3 DEF ArgsOK, Onward
  <2>2. Fresh(p)
    BY <1>1, <1>2, <2>1 DEF Fresh, walkVars
  <2>3. /\ Run' = p /\ StepOK' /\ TriesOK' /\ DirectOK' /\ EconomyOK' /\ GivenOK'
        /\ AcceptedNeverRejected'
    BY <1>3, <2>1, <2>2, FreshRun
  <2>4. StackOK'
    BY <1>3, <2>3 DEF StackOK
  <2> QED
    BY <2>1, <2>3, <2>4 DEF RunInv
<1>4. CASE p.intent \in {"explicit", "automatic"}
  <2>1. PICK s \in stackOf(p) : Begin(requestFor(s))
    BY <1>1, <1>2, <1>4 DEF ArgsOK, Onward
  <2>2. step' = "walk" /\ UNCHANGED <<tries, result>>
    BY <1>1, <1>2, <1>4 DEF ArgsOK, Onward
  <2>3. Fits(p, s)
    BY <1>2, <1>4 DEF ArgsOK
  <2>4. /\ request' = requestFor(s) /\ cursor' = 1 /\ status' = "walking"
        /\ UNCHANGED <<registry, attempts, charged>>
    BY <2>1, <2>3, FitRequest DEF Begin
  <2>5. Fresh(p)
    BY <1>1, <1>2, <2>2, <2>4 DEF Fresh
  <2>6. /\ Run' = p /\ StepOK' /\ TriesOK' /\ DirectOK' /\ EconomyOK' /\ GivenOK'
        /\ AcceptedNeverRejected' /\ tries' = <<>> /\ attempts = <<>> /\ charged = <<>>
    BY <1>4, <2>2, <2>5, FreshRun
  <2>7. StackOK'
    <3>1. \E z \in stackOf(Run') : request' = requestOf(z, env'.retryPolicy)
      BY <1>1, <2>4, <2>6 DEF requestFor
    <3> QED
      BY <2>2, <2>4, <2>6, <3>1 DEF StackOK, requestFor, AtWork, Walking
  <2> QED
    BY <2>1, <2>3, <2>6, <2>7, FitRequest DEF RunInv
<1> QED
  BY <1>2, <1>3, <1>4 DEF ArgsOK

\* While a worker is at work and is recorded nothing moves but its own outcome.
LEMMA WorksOn ==
  ASSUME RunInv, step \in AtWork, step' \in AtWork, UNCHANGED <<walkVars, env, input, result>>,
         Len(tries) \in Nat \ {0}, Len(tries') = Len(tries),
         \A k \in 1..Len(tries) :
           /\ tries'[k].backend = tries[k].backend /\ tries'[k].rung = tries[k].rung
           /\ tries'[k].stableId = tries[k].stableId
           /\ k < Len(tries) => tries'[k] = tries[k]
  PROVE  StepOK' /\ DirectOK' /\ EconomyOK' /\ StackOK' /\ AcceptedNeverRejected'
<1>0. PICK n : n = Len(tries)
  OBVIOUS
<1>1. /\ Run' = Run /\ n \in Nat \ {0} /\ Len(tries') = n /\ n = Len(tries)
      /\ \A k \in 1..n : /\ tries'[k].backend = tries[k].backend /\ tries'[k].rung = tries[k].rung
                         /\ tries'[k].stableId = tries[k].stableId
      /\ \A k \in 1..n : k < n => tries'[k] = tries[k]
      /\ StepOK /\ DirectOK /\ EconomyOK /\ StackOK /\ AcceptedNeverRejected
      /\ step \in AtWork /\ step' \in AtWork /\ UNCHANGED <<walkVars, env, input, result>>
      /\ step \notin {"idle", "launch", "walk", "done"} /\ step' \notin {"idle", "launch", "walk", "done"}
  BY <1>0 DEF Run, RunInv, AtWork
<1>2. StepOK'
  <2>1. tries' # <<>> /\ Parsed'
    BY <1>1 DEF StepOK, Parsed
  <2> QED
    BY <1>1, <2>1 DEF StepOK, walkVars
<1>3. DirectOK'
  BY <1>1 DEF DirectOK
<1>4. EconomyOK'
  BY <1>1 DEF EconomyOK, ecoTier
<1>5. StackOK'
  <2>1. ASSUME input # {}, Run.intent \in {"explicit", "automatic"}
        PROVE  /\ \E s \in stackOf(Run) : request = requestOf(s, env.retryPolicy)
               /\ cursor \in Nat \ {0} /\ status = "attempting" /\ tries[n].rung = {cursor}
               /\ cursor \in DOMAIN request.rungs
               /\ \A k \in 1..n : \E i \in 1..cursor :
                    tries[k].rung = {i} /\ i \in DOMAIN request.rungs /\ (k < n => i < cursor)
    BY <1>1, <2>1 DEF StackOK, requestFor
  <2>2. ~ Walking'
    BY <1>1 DEF Walking
  <2>3. SUFFICES ASSUME input # {}, Run.intent \in {"explicit", "automatic"}
                 PROVE  /\ \E s \in stackOf(Run) : request' = requestOf(s, env'.retryPolicy)
                        /\ cursor' \in Nat \ {0} /\ status' = "attempting" /\ tries'[n].rung = {cursor'}
                        /\ cursor' \in DOMAIN request'.rungs
                        /\ \A k \in 1..n : \E i \in 1..cursor' :
                             tries'[k].rung = {i} /\ i \in DOMAIN request'.rungs /\ (k < n => i < cursor')
    BY <1>1, <2>2 DEF StackOK, requestFor
  <2>4. request' = request /\ cursor' = cursor /\ status' = status /\ env' = env
    BY <1>1 DEF walkVars
  <2>5. input # {} /\ Run.intent \in {"explicit", "automatic"}
    BY <2>3
  <2>6. \E s \in stackOf(Run) : request' = requestOf(s, env'.retryPolicy)
    BY <2>1, <2>4, <2>5
  <2>7. tries'[n].rung = {cursor'} /\ cursor' \in DOMAIN request'.rungs /\ cursor' \in Nat \ {0} /\ status' = "attempting"
    BY <1>1, <2>1, <2>4, <2>5
  <2>8. ASSUME NEW k \in 1..n
        PROVE  \E i \in 1..cursor' : tries'[k].rung = {i} /\ i \in DOMAIN request'.rungs /\ (k < n => i < cursor')
    <3>1. PICK i \in 1..cursor : tries[k].rung = {i} /\ i \in DOMAIN request.rungs /\ (k < n => i < cursor)
      BY <2>1, <2>5
    <3> QED
      BY <1>1, <2>4, <3>1
  <2> QED
    BY <2>6, <2>7, <2>8
<1>6. AcceptedNeverRejected'
  BY <1>1 DEF AcceptedNeverRejected
<1> QED
  BY <1>2, <1>3, <1>4, <1>5, <1>6

LEMMA WorkerStep ==
  ASSUME RunInv, NEW outcome \in env.outcomes, WorkerReturns(outcome)
  PROVE  RunInv' /\ UNCHANGED walkVars
<1>1. /\ step = "running" /\ step' = "record"
      /\ UNCHANGED walkVars /\ UNCHANGED env /\ UNCHANGED input /\ UNCHANGED result
  BY DEF WorkerReturns
<1>2. TriesOK' /\ GivenOK' /\ Len(tries) \in Nat \ {0} /\ Len(tries') = Len(tries)
  BY Returns
<1>3. StepOK' /\ DirectOK' /\ EconomyOK' /\ StackOK' /\ AcceptedNeverRejected'
  BY <1>1, Returns, WorksOn DEF AtWork
<1> QED
  BY <1>1, <1>2, <1>3 DEF RunInv

\* The steps that record an attempt.
Recording == RecordEconomy \/ RecordDirect \/ RecordCandidate
Emitting == EmitEconomy \/ EmitDirect \/ EmitCandidate

LEMMA RecordStep ==
  ASSUME RunInv, Recording \/ Emitting
  PROVE  RunInv' /\ UNCHANGED walkVars
<1>1. /\ step \in {"record", "emit"} /\ step' \in {"emit", "settle"}
      /\ UNCHANGED walkVars /\ UNCHANGED env /\ UNCHANGED input /\ UNCHANGED tries /\ UNCHANGED result
  BY DEF Recording, Emitting, RecordEconomy, RecordDirect, RecordCandidate, onTrace,
         EmitEconomy, EmitDirect, EmitCandidate, emitV2
<1>2. TriesOK' /\ GivenOK'
  BY <1>1, TriesKept
<1>3. Len(tries) \in Nat \ {0} /\ step \in AtWork /\ step' \in AtWork
  BY <1>1 DEF RunInv, StepOK, TriesOK, AtWork
<1>4. StepOK' /\ DirectOK' /\ EconomyOK' /\ StackOK' /\ AcceptedNeverRejected'
  BY <1>1, <1>3, WorksOn
<1> QED
  BY <1>1, <1>2, <1>4 DEF RunInv

\* A launch, on whichever path.
LEMMA LaunchStep ==
  ASSUME RunInv, step \in {"launch", "walk"}, NEW backend, NEW rung, NEW stableId, NEW profile, NEW passed, NEW traced,
         Launchable(backend, rung, stableId, profile, passed, traced),
         launch(NewTry(backend, Run.mode, rung, stableId, profile, passed, traced)),
         UNCHANGED <<env, input, result, registry>>
  PROVE  /\ Run' = Run /\ StepOK' /\ TriesOK' /\ GivenOK' /\ AcceptedNeverRejected'
         /\ Launched(backend, rung, stableId)
<1>1. TriesOK' /\ GivenOK' /\ Launched(backend, rung, stableId)
  BY Launches
<1>2. Run' = Run
  BY DEF Run
<1>3. StepOK'
  <2>1. Parsed' /\ result = "none"
    BY DEF RunInv, StepOK, Parsed, AtWork
  <2>2. step' = "running" /\ tries' # <<>>
    BY <1>1 DEF Launched
  <2> QED
    BY <2>1, <2>2 DEF RunInv, StepOK, AtWork
<1>5. AcceptedNeverRejected'
  BY DEF RunInv, AcceptedNeverRejected
<1> QED
  BY <1>1, <1>2, <1>3, <1>5

\* An attempt is settled: the run ends, or it goes on to launch or to walk.
LEMMA SettleStep ==
  ASSUME RunInv, step \in {"settle", "walk"},
         \/ step' = "done" /\ result' \in {"success", "failure"}
         \/ step' = "launch" /\ result' = result /\ Run.intent \in {"economy", "direct"}
         \/ step' = "walk" /\ result' = result /\ Run.intent \in {"explicit", "automatic"},
         UNCHANGED <<env, input, tries, registry>>
  PROVE  /\ Run' = Run /\ StepOK' /\ TriesOK' /\ GivenOK' /\ AcceptedNeverRejected'
<1>1. Run' = Run /\ TriesOK' /\ GivenOK'
  BY TriesKept DEF Run
<1>2. StepOK'
  BY <1>1 DEF RunInv, StepOK, Parsed, AtWork
<1>4. AcceptedNeverRejected'
  BY DEF RunInv, AcceptedNeverRejected
<1> QED
  BY <1>1, <1>2, <1>4

(* The economy pair. *)

LEMMA EcoAlias ==
  ASSUME NEW mode \in Modes, NEW base \in {"composer", "opus", "cursor-auto"}
  PROVE  LET r == EcoRoute(base, mode) IN
         /\ r.stableId = IF base = "opus" THEN "opus-5.5" ELSE IF base = "composer" THEN "composer-2.5" ELSE "cursor-auto"
         /\ r.backend = IF base = "opus" THEN "claude" ELSE "composer"
         /\ r.profile.model = ModelOf(r.stableId) /\ (mode = "review" => r.profile.sandbox = "read-only")
<1> DEFINE suffix == CASE mode = "analyze" -> "explore" [] mode = "implement" -> "implement" [] OTHER -> "check"
           alias == <<base, suffix>>
           b == BindingOf(alias)
           id == IF base = "opus" THEN "opus-5.5" ELSE IF base = "composer" THEN "composer-2.5" ELSE "cursor-auto"
           backend == IF base = "opus" THEN "claude" ELSE "composer"
<1>1. alias[1] = base
  OBVIOUS
<1>2. \E x \in RouteBindings : x.base = base
  <2>1. /\ Binding("composer", "composer-2.5", "composer", Null) \in NamedBindings
        /\ Binding("opus", "opus-5.5", "claude", Null) \in NamedBindings
        /\ Binding("cursor-auto", "cursor-auto", "composer", Null) \in NamedBindings
    BY DEF NamedBindings
  <2>2. /\ Binding("composer", "composer-2.5", "composer", Null).base = "composer"
        /\ Binding("opus", "opus-5.5", "claude", Null).base = "opus"
        /\ Binding("cursor-auto", "cursor-auto", "composer", Null).base = "cursor-auto"
    BY DEF Binding
  <2> QED
    BY <2>1, <2>2 DEF RouteBindings
<1>3. \A x \in RouteBindings : x.base = base => x.stableId = id /\ x.backend = backend
  BY DEF RouteBindings, NamedBindings, OpenCodeGoBindings, Binding
<1>4. b.stableId = id /\ b.backend = backend
  <2> HIDE DEF alias, id, backend
  <2>1. b \in RouteBindings /\ b.base = base
    BY <1>1, <1>2 DEF BindingOf
  <2> QED
    BY <1>3, <2>1
<1>5. EcoRoute(base, mode) = [route |-> alias, backend |-> b.backend, stableId |-> b.stableId,
                              profile |-> Profile(ModelOf(b.stableId), sandboxFor(mode))]
  BY DEF EcoRoute
<1> HIDE DEF b
<1> QED
  BY <1>4, <1>5 DEF Profile, sandboxFor

LEMMA EcoPair ==
  ASSUME NEW mode \in Modes
  PROVE  /\ \A t \in {ECO_ROUTES[mode], ecoBackupFor(mode)} :
              /\ t.backend \in Backends /\ t.profile.model = ModelOf(t.stableId)
              /\ mode = "review" => t.profile.sandbox = "read-only"
         /\ <<ECO_ROUTES[mode].backend, ModelOf(ECO_ROUTES[mode].stableId)>>
              # <<ecoBackupFor(mode).backend, ModelOf(ecoBackupFor(mode).stableId)>>
<1> DEFINE base == IF mode = "implement" THEN "composer" ELSE "opus"
<1>1. ECO_ROUTES[mode] = EcoRoute(base, mode) /\ ecoBackupFor(mode) = EcoRoute("cursor-auto", mode)
  BY DEF ECO_ROUTES, ecoBackupFor
<1>2. ModelOf("composer-2.5") # ModelOf("cursor-auto")
  <2>1. "composer-2.5" \in RoutedIds /\ "cursor-auto" \in RoutedIds
    BY DEF RoutedIds, CursorIds
  <2>2. ModelOf("composer-2.5") = "composer-2.5" /\ ModelOf("cursor-auto") = "auto"
    BY <2>1, RoutedModel DEF ModelOf
  <2> QED
    BY <2>2
<1>3. base \in {"composer", "opus", "cursor-auto"} /\ "cursor-auto" \in {"composer", "opus", "cursor-auto"}
  OBVIOUS
<1>4. PICK r : r = EcoRoute(base, mode)
  OBVIOUS
<1>5. PICK q : q = EcoRoute("cursor-auto", mode)
  OBVIOUS
<1> HIDE DEF base
<1>6. /\ r.stableId = IF base = "opus" THEN "opus-5.5" ELSE IF base = "composer" THEN "composer-2.5" ELSE "cursor-auto"
      /\ r.backend = IF base = "opus" THEN "claude" ELSE "composer"
      /\ r.profile.model = ModelOf(r.stableId) /\ (mode = "review" => r.profile.sandbox = "read-only")
  BY <1>3, <1>4, EcoAlias
<1>7. /\ q.stableId = "cursor-auto" /\ q.backend = "composer"
      /\ q.profile.model = ModelOf(q.stableId) /\ (mode = "review" => q.profile.sandbox = "read-only")
  BY <1>3, <1>5, EcoAlias
<1>8. base \in {"composer", "opus"}
  BY DEF base
<1>9. <<r.backend, ModelOf(r.stableId)>> # <<q.backend, ModelOf(q.stableId)>>
  BY <1>2, <1>6, <1>7, <1>8
<1>10. {r.backend, q.backend} \subseteq Backends
  BY <1>6, <1>7 DEF Backends
<1> QED
  BY <1>1, <1>4, <1>5, <1>6, <1>7, <1>9, <1>10

LEMMA EconomyLaunch ==
  ASSUME RunInv, LaunchEconomy
  PROVE  RunInv' /\ UNCHANGED walkVars
<1> DEFINE tier == ecoTier(Len(tries))
<1>1. /\ step = "launch" /\ Run.intent = "economy"
      /\ launch(NewTry(tier.backend, Run.mode, {}, tier.stableId, tier.profile, Run.effort, {}))
      /\ UNCHANGED walkVars /\ UNCHANGED <<env, input, result, registry>>
  BY DEF LaunchEconomy, walkVars
<1>2. /\ input = {Run} /\ ArgsOK(Run) /\ Len(tries) <= 1 /\ tries \in Seq(Elements(tries))
      /\ \A k \in 1..Len(tries) :
           tries[k].backend = ecoTier(k - 1).backend /\ tries[k].stableId = ecoTier(k - 1).stableId
      /\ Len(tries) > 0 => GoesOn(Len(tries))
  <2>1. input = {Run} /\ ArgsOK(Run)
    BY <1>1, Started
  <2> QED
    BY <1>1, <2>1 DEF RunInv, EconomyOK, TriesOK
<1>3. PICK n : n = Len(tries)
  OBVIOUS
<1>4. n \in {0, 1} /\ (n = 0 <=> tries = <<>>)
  BY <1>2, <1>3
<1>5. Run.mode \in Modes /\ Run.effort \in Efforts \cup {Null}
  BY <1>2 DEF ArgsOK
<1>6. tier \in {ECO_ROUTES[Run.mode], ecoBackupFor(Run.mode)}
  BY DEF ecoTier
<1>7. Launchable(tier.backend, {}, tier.stableId, tier.profile, Run.effort, {})
  <2>1. /\ tier.backend \in Backends /\ tier.profile.model = ModelOf(tier.stableId)
        /\ Run.mode = "review" => tier.profile.sandbox = "read-only"
    BY <1>5, <1>6, EcoPair
  <2>2. ASSUME NEW j \in 1..n PROVE <<tries[j].backend, tries[j].model>> # <<tier.backend, tier.profile.model>>
    <3>1. j = 1 /\ n = 1
      BY <1>4
    <3>2. /\ tries[1].backend = ECO_ROUTES[Run.mode].backend /\ tries[1].stableId = ECO_ROUTES[Run.mode].stableId
          /\ tier = ecoBackupFor(Run.mode)
      BY <1>2, <1>3, <3>1 DEF ecoTier
    <3>3. tries[1].model = ModelOf(tries[1].stableId)
      BY <1>1, <1>3, <3>1 DEF RunInv, GivenOK, Given
    <3> HIDE DEF tier
    <3> QED
      BY <1>5, <2>1, <3>1, <3>2, <3>3, EcoPair
  <2> HIDE DEF tier
  <2> QED
    BY <1>1, <1>2, <1>3, <1>4, <1>5, <2>1, <2>2 DEF Launchable
<1>8. /\ Run' = Run /\ StepOK' /\ TriesOK' /\ GivenOK' /\ AcceptedNeverRejected'
      /\ Launched(tier.backend, {}, tier.stableId)
  <2> HIDE DEF tier
  <2> QED
    BY <1>1, <1>7, LaunchStep
<1>9. DirectOK' /\ StackOK'
  BY <1>1, <1>8 DEF DirectOK, StackOK
<1>10. EconomyOK'
  <2>1. /\ step' = "running" /\ Len(tries') = n + 1 /\ \A k \in 1..n : tries'[k] = tries[k]
        /\ tries'[n + 1].backend = ecoTier(n).backend /\ tries'[n + 1].stableId = ecoTier(n).stableId
    BY <1>3, <1>8 DEF Launched
  <2>2. ASSUME NEW k \in 1..(n + 1)
        PROVE  tries'[k].backend = ecoTier(k - 1)'.backend /\ tries'[k].stableId = ecoTier(k - 1)'.stableId
    <3>1. ecoTier(k - 1)' = ecoTier(k - 1)
      BY <1>8 DEF ecoTier
    <3>2. CASE k = n + 1
      <4>1. k - 1 = n
        BY <1>4, <3>2
      <4> QED
        BY <2>1, <3>1, <3>2, <4>1
    <3>3. CASE k \in 1..n
      BY <1>2, <1>3, <2>1, <3>1, <3>3
    <3> QED
      BY <1>4, <3>2, <3>3
  <2> QED
    BY <1>4, <2>1, <2>2 DEF EconomyOK
<1> QED
  BY <1>1, <1>8, <1>9, <1>10 DEF RunInv

LEMMA EconomySettle ==
  ASSUME RunInv, SettleEconomy
  PROVE  RunInv' /\ UNCHANGED walkVars
<1>1. /\ step = "settle" /\ Run.intent = "economy"
      /\ \/ step' = "done" /\ result' \in {"success", "failure"}
         \/ canBackup /\ step' = "launch" /\ result' = result
      /\ UNCHANGED walkVars /\ UNCHANGED <<env, input, tries, registry>>
  BY DEF SettleEconomy, finish, walkVars
<1>2. Run' = Run /\ StepOK' /\ TriesOK' /\ GivenOK' /\ AcceptedNeverRejected'
  BY <1>1, SettleStep
<1>3. DirectOK' /\ StackOK'
  BY <1>1, <1>2 DEF DirectOK, StackOK
<1>4. EconomyOK'
  <2>1. PICK n : n = Len(tries)
    OBVIOUS
  <2>2. /\ n <= 2 /\ n \in Nat
        /\ \A k \in 1..n : tries[k].backend = ecoTier(k - 1).backend /\ tries[k].stableId = ecoTier(k - 1).stableId
    <3>1. input # {}
      BY <1>1, Started
    <3> QED
      BY <1>1, <2>1, <3>1 DEF RunInv, EconomyOK, TriesOK
  <2>3. step' = "launch" => n = 1 /\ GoesOn(n)
    BY <1>1, <2>1 DEF canBackup, GoesOn, Last
  <2>4. GoesOn(n)' <=> GoesOn(n)
    BY <1>1, <1>2 DEF GoesOn, canonicalFailureDisposition
  <2>5. \A k : ecoTier(k)' = ecoTier(k)
    BY <1>2 DEF ecoTier
  <2>6. n = Len(tries') /\ tries' = tries
    BY <1>1, <2>1
  <2>7. n <= (IF step' = "launch" THEN 1 ELSE 2)
    BY <2>2, <2>3
  <2>8. \A k \in 1..n : tries'[k].backend = ecoTier(k - 1)'.backend /\ tries'[k].stableId = ecoTier(k - 1)'.stableId
    BY <2>2, <2>5, <2>6
  <2>9. step' = "launch" => GoesOn(n)'
    BY <2>3, <2>4
  <2> QED
    BY <2>6, <2>7, <2>8, <2>9 DEF EconomyOK
<1> QED
  BY <1>1, <1>2, <1>3, <1>4 DEF RunInv

(* The direct path. *)

\* Each tier of the ladder is higher than the one it follows, and is what the failure
\* of that one recommends.
LEMMA Ladder ==
  ASSUME NEW backend, ladderAfter(backend) # Null
  PROVE  Height(backend) < Height(ladderAfter(backend)) /\ hintAfter(backend) = ladderAfter(backend)
<1>1. CASE backend = "codex"
  BY <1>1 DEF ladderAfter, hintAfter, Height
<1>2. CASE backend = "claude"
  BY <1>2 DEF ladderAfter, hintAfter, Height
<1>3. CASE backend = "composer"
  BY <1>3 DEF ladderAfter, hintAfter, Height, Null
<1>4. CASE backend = "minimax"
  BY <1>4 DEF ladderAfter, hintAfter, Height, Null
<1>5. CASE backend \notin {"codex", "claude", "composer", "minimax"}
  BY <1>5 DEF ladderAfter
<1> QED
  BY <1>1, <1>2, <1>3, <1>4, <1>5

LEMMA Heights == \A backend : Height(backend) \in 0..5
BY DEF Height

LEMMA DirectSandbox ==
  ASSUME NEW backend, Run.mode = "review", backend = "composer" => tries # <<>>
  PROVE  directProfile(backend).sandbox = "read-only"
<1>1. ASSUME NEW slug, backend # "composer"
      PROVE  resolveProfile(env, backend, "review", NoAlias, slug).sandbox = "read-only"
  <2> DEFINE d == Profile(backendDefaultModel(env, backend, "review"), "read-only")
  <2>1. resolveProfile(env, backend, "review", NoAlias, slug) = applyWorkerArtifactProfile(d, "review", slug)
    BY <1>1, NoAliasRoute DEF resolveProfile, sandboxFor
  <2>2. applyWorkerArtifactProfile(d, "review", slug) = d
    BY DEF applyWorkerArtifactProfile, workerArtifactCapability
  <2> QED
    BY <2>1, <2>2 DEF Profile
<1>2. CASE tries = <<>> /\ Run.workerModel # Null
  <2>1. directProfile(backend) = Profile(Run.workerModel, resolveProfile(env, backend, Run.mode, NoAlias, Null).sandbox)
    BY <1>2 DEF directProfile
  <2> QED
    BY <1>1, <1>2, <2>1 DEF Profile
<1>3. CASE tries # <<>> /\ backend = "composer"
  <2>1. directProfile(backend) = grokProfileFor(env, Run.mode)
    BY <1>3 DEF directProfile
  <2> QED
    BY <2>1 DEF grokProfileFor, Profile, sandboxFor
<1>4. CASE ~ (tries = <<>> /\ Run.workerModel # Null) /\ ~ (tries # <<>> /\ backend = "composer")
  <2>1. directProfile(backend) = resolveProfile(env, backend, Run.mode, NoAlias, Run.slug)
    BY <1>4 DEF directProfile
  <2>2. backend # "composer"
    BY <1>4
  <2> QED
    BY <1>1, <2>1, <2>2
<1> QED
  BY <1>2, <1>3, <1>4

LEMMA DirectLaunch ==
  ASSUME RunInv, LaunchDirect
  PROVE  RunInv' /\ UNCHANGED walkVars
<1>1. PICK backend \in IF tries = <<>> THEN {Run.backend} ELSE nextTier \cap Backends :
        launch(NewTry(backend, Run.mode, {}, Null, directProfile(backend), Run.effort, {}))
  BY DEF LaunchDirect
<1>2. /\ step = "launch" /\ Run.intent = "direct"
      /\ UNCHANGED walkVars /\ UNCHANGED <<env, input, result, registry>>
  BY DEF LaunchDirect, walkVars
<1>3. PICK n : n = Len(tries)
  OBVIOUS
<1>4. /\ input = {Run} /\ ArgsOK(Run) /\ tries \in Seq(Elements(tries)) /\ n \in Nat /\ (n = 0 <=> tries = <<>>)
      /\ n > 0 => tries[1].backend = Run.backend
      /\ \A j, k \in 1..n : j < k =>
           /\ Height(tries[j].backend) < Height(tries[k].backend)
           /\ k = j + 1 => tries[j].hint = tries[k].backend
  <2>1. input = {Run} /\ ArgsOK(Run)
    BY <1>2, Started
  <2> QED
    BY <1>2, <1>3, <2>1 DEF RunInv, DirectOK, TriesOK
<1>5. ASSUME n > 0
      PROVE  /\ GoesOn(n) /\ Height(tries[n].backend) < Height(backend) /\ tries[n].hint = backend
  <2>1. backend = ladderAfter(tries[n].backend) /\ backend # Null /\ tries[n].outage # Null
    BY <1>1, <1>3, <1>4, <1>5 DEF nextTier, mayFallBack, Last
  <2>2. tries[n].hint = hintAfter(tries[n].backend)
    BY <1>2, <1>3, <1>4, <1>5, <2>1 DEF RunInv, TriesOK, Judged
  <2> QED
    BY <1>2, <2>1, <2>2, Ladder DEF GoesOn
<1>6. ASSUME NEW j \in 1..n PROVE Height(tries[j].backend) < Height(backend)
  <2>1. j < n => Height(tries[j].backend) < Height(tries[n].backend)
    BY <1>4
  <2>2. Height(tries[j].backend) \in 0..5 /\ Height(tries[n].backend) \in 0..5 /\ Height(backend) \in 0..5
    BY Heights
  <2> QED
    BY <1>4, <1>5, <2>1, <2>2
<1>7. /\ backend \in Backends /\ Run.effort \in Efforts \cup {Null}
      /\ (Run.mode = "review" => directProfile(backend).sandbox = "read-only")
  <2>1. backend \in Backends /\ (tries = <<>> => backend = Run.backend)
    BY <1>1, <1>4 DEF ArgsOK
  <2> QED
    BY <1>2, <1>4, <2>1, DirectSandbox DEF ArgsOK
<1>8. Launchable(backend, {}, Null, directProfile(backend), Run.effort, {})
  <2>1. \A j \in 1..n : tries[j].backend # backend
    <3>1. SUFFICES ASSUME NEW j \in 1..n, tries[j].backend = backend PROVE FALSE
      OBVIOUS
    <3>2. Height(backend) < Height(backend) /\ Height(backend) \in 0..5
      BY <1>6, <3>1, Heights
    <3> QED
      BY <3>2
  <2>2. tries # <<>> => GoesOn(n)
    BY <1>4, <1>5
  <2> QED
    BY <1>2, <1>3, <1>7, <2>1, <2>2 DEF Launchable
<1>9. /\ Run' = Run /\ StepOK' /\ TriesOK' /\ GivenOK' /\ AcceptedNeverRejected'
      /\ Launched(backend, {}, Null)
  BY <1>1, <1>2, <1>8, LaunchStep
<1>10. EconomyOK' /\ StackOK'
  BY <1>2, <1>9 DEF EconomyOK, StackOK
<1>11. DirectOK'
  <2>1. /\ step' = "running" /\ Len(tries') = n + 1 /\ \A k \in 1..n : tries'[k] = tries[k]
        /\ tries'[n + 1].backend = backend
    BY <1>3, <1>9 DEF Launched
  <2>2. tries'[1].backend = Run'.backend
    <3>1. CASE n = 0
      <4>1. backend = Run.backend /\ n + 1 = 1
        BY <1>1, <1>4, <3>1
      <4> QED
        BY <1>9, <2>1, <4>1
    <3>2. CASE n > 0
      BY <1>4, <1>9, <2>1, <3>2
    <3> QED
      BY <1>4, <3>1, <3>2
  <2>3. ASSUME NEW j \in 1..(n + 1), NEW k \in 1..(n + 1), j < k
        PROVE  /\ Height(tries'[j].backend) < Height(tries'[k].backend)
               /\ k = j + 1 => tries'[j].hint = tries'[k].backend
    <3>1. j \in 1..n /\ tries'[j] = tries[j]
      BY <1>4, <2>1, <2>3
    <3>2. CASE k = n + 1
      <4>1. tries'[k].backend = backend /\ (k = j + 1 => j = n /\ n > 0)
        BY <1>4, <2>1, <3>1, <3>2
      <4> QED
        BY <1>5, <1>6, <3>1, <4>1
    <3>3. CASE k # n + 1
      <4>1. k \in 1..n /\ tries'[k] = tries[k]
        BY <1>4, <2>1, <3>3
      <4> QED
        BY <1>4, <2>3, <3>1, <4>1
    <3> QED
      BY <3>2, <3>3
  <2>4. SUFFICES /\ Len(tries') > 0 => tries'[1].backend = Run'.backend
                 /\ \A j, k \in 1..Len(tries') : j < k =>
                      /\ Height(tries'[j].backend) < Height(tries'[k].backend)
                      /\ k = j + 1 => tries'[j].hint = tries'[k].backend
    BY <2>1 DEF DirectOK, Height
  <2> QED
    BY <2>1, <2>2, <2>3
<1> QED
  BY <1>2, <1>9, <1>10, <1>11 DEF RunInv

LEMMA DirectSettle ==
  ASSUME RunInv, SettleDirect
  PROVE  RunInv' /\ UNCHANGED walkVars
<1>1. /\ step = "settle" /\ Run.intent = "direct"
      /\ \/ step' = "done" /\ result' \in {"success", "failure"}
         \/ nextTier # {} /\ step' = "launch" /\ result' = result
      /\ UNCHANGED walkVars /\ UNCHANGED <<env, input, tries, registry>>
  BY DEF SettleDirect, finish, walkVars
<1>2. Run' = Run /\ StepOK' /\ TriesOK' /\ GivenOK' /\ AcceptedNeverRejected'
  BY <1>1, SettleStep
<1>3. EconomyOK' /\ StackOK'
  BY <1>1, <1>2 DEF EconomyOK, StackOK
<1>4. DirectOK'
  <2>1. nextTier' = nextTier
    BY <1>1, <1>2 DEF nextTier, mayFallBack, ladderAfter, Last
  <2>2. input # {}
    BY <1>1, Started
  <2>3. tries' = tries
    BY <1>1
  <2> QED
    BY <1>1, <1>2, <2>1, <2>2, <2>3 DEF RunInv, DirectOK, Height
<1> QED
  BY <1>1, <1>2, <1>3, <1>4 DEF RunInv

(* The candidate stack. *)

\* The traversal of a run has its contract, and every rung of it may run.
LEMMA StackRequest ==
  ASSUME RunInv, step # "idle", Run.intent \in {"explicit", "automatic"}
  PROVE  /\ Contract.mode = Run.mode /\ (Run.mode = "review" => Contract.sandbox = "read-only")
         /\ request.rungs \in Seq(Elements(request.rungs)) /\ request.rungs # <<>>
         /\ request.maxAttempts \in {{}, {1}}
         /\ \A i \in DOMAIN request.rungs : RungFits(rungOf(i)) /\ Runnable(i)
         /\ Run.intent = "explicit" =>
              DOMAIN request.rungs = {1} /\ BackendOfId(rungOf(1).stableId) = Run.backend
<1>1. input = {Run} /\ ArgsOK(Run)
  BY Started
<1>2. PICK s \in stackOf(Run) : request = requestFor(s)
  BY <1>1 DEF RunInv, StackOK
<1>3. Fits(Run, s)
  BY <1>1 DEF ArgsOK
<1>4. request.rungs = s.rungs /\ request.route = s.route /\ request.maxAttempts \in {{}, {1}}
  BY <1>2, <1>3, FitRequest
<1>5. request.route \in Worker3 /\ Contract.mode = Run.mode /\ ChainOK(request.rungs)
  BY <1>3, <1>4 DEF Fits, Contract
<1>6. Run.mode = "review" => Contract.sandbox = "read-only"
  <2>1. request.route \in {EXPLORE, IMPLEMENT, CHECK}
    BY <1>5 DEF Worker3
  <2> QED
    BY <1>5, <2>1, SuffixRoutes DEF Contract
<1>7. ASSUME NEW i \in DOMAIN request.rungs PROVE RungFits(rungOf(i)) /\ Runnable(i)
  <2>1. RungFits(rungOf(i)) /\ rungOf(i).stableId \in RoutedIds
    BY <1>5 DEF ChainOK, rungOf, RungFits
  <2>2. registry = MODEL_REGISTRY
    BY DEF RunInv, StepOK
  <2>3. /\ entryOf(i).maturity = "available" /\ entryOf(i).sandboxPermissionSupport = Sandboxes
        /\ Contract.outputContract \in entryOf(i).outputContracts /\ Known(registry, rungOf(i).stableId)
    BY <1>5, <2>1, <2>2, RoutedModel, RoutedIndex DEF entryOf, Contract
  <2> QED
    BY <2>1, <2>3 DEF Runnable, NonRunnable, Incompatible, isSandboxCompatible, Sandboxes
<1>8. Run.intent = "explicit" =>
        DOMAIN request.rungs = {1} /\ BackendOfId(rungOf(1).stableId) = Run.backend
  BY <1>3, <1>4 DEF Fits, rungOf
<1> QED
  BY <1>4, <1>5, <1>6, <1>7, <1>8 DEF ChainOK

\* The effort of a rung, or of the run that pins it, is one its model supports.
LEMMA RungEffort ==
  ASSUME RunInv, step # "idle", Run.intent \in {"explicit", "automatic"}, NEW i \in DOMAIN request.rungs,
         NEW entry, entry = entryOf(i), NEW selected, selected = selectedEffort(entry, rungOf(i))
  PROVE  /\ entry.stableId = rungOf(i).stableId /\ entry.transportBackend \in Backends
         /\ selected \in Efforts
         /\ passedEffort(entry, selected)
              \in {Null} \cup supportedEffortsFor(registryIndex(MODEL_REGISTRY, entry.stableId))
<1>1. ArgsOK(Run)
  BY Started
<1>2. /\ RungFits(rungOf(i))
      /\ Run.intent = "explicit" => i = 1 /\ BackendOfId(rungOf(1).stableId) = Run.backend
  BY StackRequest
<1>3. PICK id : id = rungOf(i).stableId
  OBVIOUS
<1>4. id \in RoutedIds /\ entry = registryIndex(MODEL_REGISTRY, id)
  BY <1>2, <1>3 DEF RungFits, RunInv, StepOK, entryOf
<1>5. /\ entry.stableId = id /\ entry.fixedEffort = FixedEffortOf(id) /\ entry.transportBackend \in Backends
      /\ supportedEffortsFor(entry) = EffortsOn(BackendOfId(id))
  BY <1>4, RoutedModel
<1>6. Run.effort # Null => Run.effort \in Efforts /\ Run.effort \in EffortsOn(BackendOfId(id))
  BY <1>1, <1>2, <1>3 DEF ArgsOK
<1>7. /\ rungOf(i).effort \in Efforts
      /\ rungOf(i).effort \in {"none", FixedEffortOf(id)} \cup EffortsOn(BackendOfId(id))
  BY <1>2, <1>3 DEF RungFits
<1>8. selected \in {rungOf(i).effort} \cup ({Run.effort} \ {Null})
  BY DEF selectedEffort
<1>9. passedEffort(entry, selected) \in {Null} \cup EffortsOn(BackendOfId(id))
  <2>1. SUFFICES ASSUME entry.fixedEffort # selected, selected # "none" \/ Run.effort = "none"
                 PROVE  selected \in EffortsOn(BackendOfId(id))
    BY DEF passedEffort
  <2>2. Run.effort = "none" => "none" \in EffortsOn(BackendOfId(id))
    BY <1>6 DEF Null
  <2> QED
    BY <1>5, <1>6, <1>7, <1>8, <2>1, <2>2
<1> QED
  BY <1>3, <1>4, <1>5, <1>6, <1>7, <1>8, <1>9

LEMMA CandidateLaunch ==
  ASSUME RunInv, LaunchCandidate
  PROVE  RunInv' /\ UNCHANGED walkVars
<1> DEFINE entry == entryOf(cursor)
           selected == selectedEffort(entry, rungOf(cursor))
           passed == passedEffort(entry, selected)
           profile == profileForCanonicalCandidate(entry)
<1>1. /\ step = "walk" /\ status = "attempting" /\ Walking /\ Run.intent \in {"explicit", "automatic"}
      /\ UNCHANGED <<env, input, result>>
  BY DEF LaunchCandidate, RunInv, StepOK, Walking
<1>2. PICK n : n = Len(tries)
  OBVIOUS
<1>3. /\ cursor \in Nat \ {0} /\ cursor \in DOMAIN request.rungs
      /\ \E s \in stackOf(Run) : request = requestFor(s)
      /\ \A k \in 1..n : \E i \in 1..cursor : tries[k].rung = {i} /\ i \in DOMAIN request.rungs /\ i < cursor
      /\ tries # <<>> => GoesOn(n)
  <2>1. input # {}
    BY <1>1, Started
  <2> QED
    BY <1>1, <1>2, <2>1 DEF RunInv, StackOK
<1>4. /\ entry.stableId = rungOf(cursor).stableId /\ entry.transportBackend \in Backends /\ selected \in Efforts
      /\ passed \in {Null} \cup supportedEffortsFor(registryIndex(MODEL_REGISTRY, entry.stableId))
  <2> HIDE DEF entry, selected
  <2>1. entry = entryOf(cursor) /\ selected = selectedEffort(entry, rungOf(cursor))
    BY DEF entry, selected
  <2> QED
    BY <1>1, <1>3, <2>1, RungEffort
<1>5. entry.transportBackend \notin NoBackend
  BY <1>4 DEF NoBackend, Backends, Null
<1>6. Contract.mode = Run.mode /\ (Run.mode = "review" => Contract.sandbox = "read-only")
  BY <1>1, StackRequest
<1>7. /\ launch(NewTry(entry.transportBackend, Run.mode, {cursor}, entry.stableId, profile, passed, {selected}))
      /\ UNCHANGED walkVars
  BY <1>5, <1>6 DEF LaunchCandidate
<1>8. profile.model = ModelOf(entry.stableId) /\ (Run.mode = "review" => profile.sandbox = "read-only")
  <2>1. entry = registryIndex(MODEL_REGISTRY, rungOf(cursor).stableId)
    BY DEF entryOf, RunInv, StepOK
  <2> HIDE DEF entry
  <2> QED
    BY <1>4, <1>6, <2>1 DEF profileForCanonicalCandidate, Profile, ModelOf
<1> HIDE DEF entry, selected, passed, profile
<1>9. Launchable(entry.transportBackend, {cursor}, entry.stableId, profile, passed, {selected})
  <2>1. ASSUME NEW j \in 1..n PROVE tries[j].rung # {cursor}
    BY <1>3
  <2> QED
    BY <1>1, <1>2, <1>3, <1>4, <1>8, <2>1 DEF Launchable
<1>10. /\ Run' = Run /\ StepOK' /\ TriesOK' /\ GivenOK' /\ AcceptedNeverRejected'
       /\ Launched(entry.transportBackend, {cursor}, entry.stableId)
  BY <1>1, <1>7, <1>9, LaunchStep DEF walkVars
<1>11. DirectOK' /\ EconomyOK'
  BY <1>1, <1>10 DEF DirectOK, EconomyOK
<1>12. StackOK'
  <2>1. /\ step' = "running" /\ n \in Nat /\ Len(tries') = n + 1 /\ \A k \in 1..n : tries'[k] = tries[k]
        /\ tries'[n + 1].rung = {cursor}
    BY <1>2, <1>10 DEF Launched
  <2>2. request' = request /\ cursor' = cursor /\ status' = "attempting" /\ env' = env
    BY <1>1, <1>7 DEF walkVars
  <2>3. \E s \in stackOf(Run') : request' = requestOf(s, env'.retryPolicy)
    BY <1>3, <1>10, <2>2 DEF requestFor
  <2>4. ASSUME NEW k \in 1..(n + 1)
        PROVE  \E i \in 1..cursor : tries'[k].rung = {i} /\ i \in DOMAIN request.rungs /\ (k < n + 1 => i < cursor)
    <3>1. CASE k = n + 1
      BY <1>3, <2>1, <3>1
    <3>2. CASE k # n + 1
      <4>1. k \in 1..n
        BY <2>1, <3>2
      <4>2. PICK i \in 1..cursor : tries[k].rung = {i} /\ i \in DOMAIN request.rungs /\ i < cursor
        BY <1>3, <4>1
      <4> QED
        BY <2>1, <4>1, <4>2
    <3> QED
      BY <3>1, <3>2
  <2>5. step' \in AtWork /\ step' # "walk" /\ ~ Walking'
    BY <2>1 DEF AtWork, Walking
  <2>6. \A k \in 1..Len(tries') : \E i \in 1..cursor' :
          tries'[k].rung = {i} /\ i \in DOMAIN request'.rungs /\ (k < Len(tries') => i < cursor')
    BY <2>1, <2>2, <2>4
  <2>7. tries'[Len(tries')].rung = {cursor'} /\ cursor' \in Nat \ {0} /\ cursor' \in DOMAIN request'.rungs
    BY <1>3, <2>1, <2>2
  <2> QED
    BY <2>2, <2>3, <2>5, <2>6, <2>7 DEF StackOK, requestFor
<1> QED
  BY <1>7, <1>10, <1>11, <1>12 DEF RunInv

\* Wherever the walk is between two attempts, those before are of rungs behind it.
LEMMA WalksOn ==
  ASSUME RunInv, step \in {"settle", "walk"}, step' \in {"walk", "done"}, Run' = Run,
         Run.intent \in {"explicit", "automatic"}, UNCHANGED <<env, input, tries, request>>,
         cursor' \in {cursor, cursor + 1},
         status' = "attempting" => cursor' \in DOMAIN request.rungs,
         Walking' => Walking \/ (cursor' = cursor + 1 /\ GoesOn(Len(tries))),
         step' = "walk" /\ tries = <<>> => status' = "attempting" /\ cursor' = 1
  PROVE  StackOK'
<1>1. PICK n : n = Len(tries)
  OBVIOUS
<1>2. /\ n = Len(tries') /\ tries' = tries /\ request' = request /\ step' \notin AtWork
  BY <1>1 DEF AtWork
<1>3. /\ \E s \in stackOf(Run) : request = requestFor(s)
      /\ cursor \in Nat \ {0}
      /\ \A k \in 1..n : \E i \in 1..cursor :
           tries[k].rung = {i} /\ i \in DOMAIN request.rungs /\ (Walking => i < cursor)
      /\ Walking /\ tries # <<>> => GoesOn(n)
  <2>1. input # {}
    BY Started
  <2> QED
    BY <1>1, <2>1 DEF RunInv, StackOK
<1>4. \E s \in stackOf(Run') : request' = requestOf(s, env'.retryPolicy)
  BY <1>2, <1>3 DEF requestFor
<1>5. cursor' \in Nat \ {0}
  BY <1>3
<1>6. ASSUME NEW k \in 1..n
      PROVE  \E i \in 1..cursor' : tries'[k].rung = {i} /\ i \in DOMAIN request'.rungs /\ (Walking' => i < cursor')
  <2>1. PICK i \in 1..cursor : tries[k].rung = {i} /\ i \in DOMAIN request.rungs /\ (Walking => i < cursor)
    BY <1>3
  <2>2. i \in 1..cursor' /\ (Walking' => i < cursor')
    BY <1>3, <2>1
  <2> QED
    BY <1>2, <2>1, <2>2
<1>7. GoesOn(n)' <=> GoesOn(n)
  BY <1>2 DEF GoesOn, canonicalFailureDisposition
<1>8. Walking' /\ tries' # <<>> => GoesOn(n)'
  BY <1>1, <1>2, <1>3, <1>7
<1> QED
  BY <1>2, <1>4, <1>5, <1>6, <1>8 DEF StackOK, requestFor

LEMMA Answered == \A try : canonicalFailureDisposition(try) \in Answers
<1>1. \A c \in RetryableClasses \cup TerminalClasses : dispositionFor(c) \in Answers
  BY RunAssumption
<1>2. Unclassified \in Answers
  BY RunAssumption
<1>3. \A reason : normalizeBackendOutage(reason, TRUE) \in Answers
  BY <1>1 DEF normalizeBackendOutage, RetryableClasses, TerminalClasses
<1>4. "missing_binary" \in RetryableClasses /\ "deterministic_validation_error" \in TerminalClasses
  BY DEF RetryableClasses, TerminalClasses
<1> QED
  BY <1>1, <1>2, <1>3, <1>4 DEF canonicalFailureDisposition

LEMMA CandidateSettle ==
  ASSUME RunInv, SettleCandidate
  PROVE  RunInv' /\ Answer
<1> DEFINE d == canonicalFailureDisposition(Last)
<1>1. /\ step = "settle" /\ step' = "walk" /\ Run.intent \in {"explicit", "automatic"}
      /\ IF Succeeded THEN AttemptSucceeds ELSE AttemptFails(d)
      /\ UNCHANGED <<env, input, tries, result>>
  BY DEF SettleCandidate, OnStack
<1>2. Answer
  <2> HIDE DEF d
  <2>1. d \in Answers
    BY Answered DEF d
  <2> QED
    BY <1>1, <2>1 DEF Answer
<1>3. UNCHANGED <<registry, request>> /\ cursor' \in {cursor, cursor + 1}
  BY <1>1 DEF AttemptSucceeds, AttemptFails
<1>4. /\ Run' = Run /\ StepOK' /\ TriesOK' /\ GivenOK' /\ AcceptedNeverRejected'
  BY <1>1, <1>3, SettleStep
<1>5. DirectOK' /\ EconomyOK'
  BY <1>1, <1>4 DEF DirectOK, EconomyOK
<1>6. StackOK'
  <2>1. tries # <<>>
    BY <1>1 DEF RunInv, StepOK, AtWork
  <2>2. CASE Succeeded
    <3>1. status' = "selected"
      BY <1>1, <2>2 DEF AttemptSucceeds, Finish
    <3>2. ~ Walking' /\ status' # "attempting"
      BY <3>1 DEF Walking
    <3> QED
      BY <1>1, <1>3, <1>4, <2>1, <3>2, WalksOn
  <2>3. CASE ~ Succeeded
    <3> HIDE DEF d
    <3>1. \/ advances(d) /\ status' = "walking" /\ cursor' = cursor + 1
          \/ status' = "terminal"
      BY <1>1, <2>3 DEF AttemptFails, Finish
    <3>2. advances(d) => GoesOn(Len(tries))
      BY <1>1 DEF d, advances, GoesOn, Last
    <3>3. status' # "attempting" /\ (Walking' => cursor' = cursor + 1 /\ GoesOn(Len(tries)))
      BY <3>1, <3>2 DEF Walking
    <3> QED
      BY <1>1, <1>3, <1>4, <2>1, <3>3, WalksOn
  <2> QED
    BY <2>2, <2>3
<1> QED
  BY <1>2, <1>4, <1>5, <1>6 DEF RunInv

\* Of a fresh traversal the first rung is attempted: nothing is spent yet, and it may run.
LEMMA FirstAttempted ==
  ASSUME RunInv, step = "walk", Run.intent \in {"explicit", "automatic"}, tries = <<>>, Steps
  PROVE  StartAttempt
<1>1. /\ request.rungs \in Seq(Elements(request.rungs)) /\ request.rungs # <<>>
      /\ request.maxAttempts \in {{}, {1}}
      /\ \A i \in DOMAIN request.rungs : Runnable(i)
  BY StackRequest
<1>2. status \in {"walking", "attempting"} /\ cursor = 1 /\ (status = "walking" => attempts = <<>> /\ charged = <<>>)
  <2>1. input # {}
    BY Started
  <2> QED
    BY <2>1 DEF RunInv, StackOK
<1>3. status = "walking"
  BY DEF Steps, SkipNonRunnable, RefuseIncompatible, StopAtMaxAttempts, BlockedByRetryBudget, StartAttempt, Exhaust, At
<1>4. 1 \in DOMAIN request.rungs /\ Len(request.rungs) \in Nat \ {0}
  BY <1>1
<1>5. ~ Spent
  <2>1. Len(attempts) = 0
    BY <1>2, <1>3
  <2> QED
    BY <1>1, <2>1 DEF Spent
<1>6. ~ Blocked
  <2>1. InWindow = {}
    BY <1>2, <1>3 DEF InWindow
  <2>2. Cardinality({}) = 0
    BY FS_EmptySet
  <2> QED
    BY <2>1, <2>2, RunAssumption, TraversalAssumption DEF Blocked, ChargeAllowed
<1>7. ~ NonRunnable(cursor) /\ ~ Incompatible(cursor)
  BY <1>1, <1>2, <1>4 DEF Runnable
<1>8. ~ Exhaust
  <2>1. Exhaust => cursor > Len(request.rungs)
    BY DEF Exhaust
  <2> QED
    BY <1>2, <1>4, <2>1
<1> QED
  BY <1>5, <1>6, <1>7, <1>8 DEF Steps, SkipNonRunnable, RefuseIncompatible, StopAtMaxAttempts, BlockedByRetryBudget

\* No rung is passed over; the walk attempts the one it is at, or ends there.
LEMMA WalkStep ==
  ASSUME RunInv, Walk
  PROVE  RunInv' /\ Steps
<1>1. /\ step = "walk" /\ Steps /\ step' = "walk" /\ Run.intent \in {"explicit", "automatic"} /\ Run' = Run
      /\ UNCHANGED <<env, input, tries, result>>
  BY DEF Walk, runVars, RunInv, StepOK, Run
<1>2. \A i \in DOMAIN request.rungs : Runnable(i)
  BY <1>1, StackRequest
<1>3. ~ SkipNonRunnable
  BY <1>2 DEF SkipNonRunnable, At, Runnable
<1>4. /\ UNCHANGED <<registry, request, cursor>> /\ status = "walking"
      /\ \/ status' = "attempting" /\ cursor \in DOMAIN request.rungs
         \/ status' \in FinalStatuses
  BY <1>1, <1>3 DEF Steps, RefuseIncompatible, StopAtMaxAttempts, BlockedByRetryBudget, StartAttempt, Exhaust,
                    At, Finish, FinalStatuses
<1>5. /\ StepOK' /\ TriesOK' /\ GivenOK' /\ AcceptedNeverRejected'
  BY <1>1, <1>4, SettleStep
<1>6. DirectOK' /\ EconomyOK'
  BY <1>1 DEF DirectOK, EconomyOK
<1>7. StackOK'
  <2>1. Walking
    BY <1>1, <1>4 DEF Walking
  <2>2. tries = <<>> => status' = "attempting" /\ cursor' = 1
    <3> SUFFICES ASSUME tries = <<>> PROVE status' = "attempting" /\ cursor' = 1
      OBVIOUS
    <3>1. StartAttempt
      BY <1>1, FirstAttempted
    <3>2. cursor = 1
      <4>1. input # {}
        BY <1>1, Started
      <4> QED
        BY <1>1, <4>1 DEF RunInv, StackOK
    <3> QED
      BY <3>1, <3>2 DEF StartAttempt
  <2> QED
    BY <1>1, <1>4, <2>1, <2>2, WalksOn DEF FinalStatuses
<1> QED
  BY <1>1, <1>5, <1>6, <1>7 DEF RunInv

LEMMA CanonicalStep ==
  ASSUME RunInv, CanonicalEnd
  PROVE  RunInv' /\ UNCHANGED walkVars
<1>1. /\ step = "walk" /\ status \in FinalStatuses /\ Run.intent \in {"explicit", "automatic"}
      /\ UNCHANGED walkVars /\ UNCHANGED <<env, input, tries, registry, request, cursor, status>>
  BY DEF CanonicalEnd, walkVars, RunInv, StepOK
<1>2. tries # <<>>
  <2>1. input # {}
    BY <1>1, Started
  <2> QED
    BY <1>1, <2>1 DEF RunInv, StackOK, FinalStatuses
<1>3. step' = "done" /\ result' \in {"success", "failure"} 
  BY <1>1, <1>2 DEF CanonicalEnd, finish
<1>4. /\ Run' = Run /\ StepOK' /\ TriesOK' /\ GivenOK' /\ AcceptedNeverRejected'
  BY <1>1, <1>3, SettleStep
<1>5. DirectOK' /\ EconomyOK'
  BY <1>1, <1>4 DEF DirectOK, EconomyOK
<1>6. StackOK'
  <2>1. ~ Walking' /\ status' # "attempting"
    BY <1>1, <1>3 DEF Walking, FinalStatuses
  <2> QED
    BY <1>1, <1>2, <1>3, <1>4, <2>1, WalksOn
<1> QED
  BY <1>1, <1>4, <1>5, <1>6 DEF RunInv

(* Every step. *)

LEMMA RunStutter ==
  ASSUME RunInv, UNCHANGED allVars
  PROVE  RunInv'
<1>1. /\ UNCHANGED <<env, input, step, tries, result>>
      /\ UNCHANGED <<registry, request, cursor, attempts, charged, status>>
      /\ Run' = Run
  BY DEF allVars, walkVars, runVars, Run
<1>2. TriesOK' /\ GivenOK'
  BY <1>1, TriesKept
<1>3. StepOK' /\ AcceptedNeverRejected'
  BY <1>1 DEF RunInv, StepOK, Parsed, AcceptedNeverRejected
<1>4. DirectOK'
  <2>1. nextTier' = nextTier
    BY <1>1 DEF nextTier, mayFallBack, ladderAfter, Last
  <2> QED
    BY <1>1, <2>1 DEF RunInv, DirectOK, Height
<1>5. EconomyOK' /\ StackOK'
  <2>1. \A k : (GoesOn(k)' <=> GoesOn(k)) /\ ecoTier(k)' = ecoTier(k)
    BY <1>1 DEF GoesOn, canonicalFailureDisposition, ecoTier
  <2>2. (Walking' <=> Walking) /\ (\A s : requestFor(s)' = requestFor(s))
    BY <1>1 DEF Walking, requestFor
  <2>3. PICK n : n = Len(tries)
    OBVIOUS
  <2>4. n = Len(tries') /\ (GoesOn(Len(tries))' <=> GoesOn(n)) /\ (GoesOn(Len(tries)) <=> GoesOn(n))
    BY <1>1, <2>1, <2>3
  <2>5. EconomyOK'
    BY <1>1, <2>1, <2>4 DEF RunInv, EconomyOK
  <2>6. StackOK'
    BY <1>1, <2>2, <2>4 DEF RunInv, StackOK, AtWork
  <2> QED
    BY <2>5, <2>6
<1> QED
  BY <1>2, <1>3, <1>4, <1>5 DEF RunInv

\* A step of a run keeps the invariant, and is a step of its traversal or none.
LEMMA RunStep ==
  ASSUME RunInv, [RunNext]_allVars
  PROVE  RunInv' /\ [Next]_walkVars
<1>1. ASSUME NEW t \in Trials, Start(t.options) PROVE RunInv' /\ [Next]_walkVars
  BY <1>1, StartsRun DEF Next
<1>2. ASSUME NEW o \in env.outcomes, WorkerReturns(o) PROVE RunInv' /\ [Next]_walkVars
  BY <1>2, WorkerStep
<1>3. CASE Recording \/ Emitting
  BY <1>3, RecordStep
<1>4. CASE LaunchEconomy
  BY <1>4, EconomyLaunch
<1>5. CASE SettleEconomy
  BY <1>5, EconomySettle
<1>6. CASE LaunchDirect
  BY <1>6, DirectLaunch
<1>7. CASE SettleDirect
  BY <1>7, DirectSettle
<1>8. CASE Walk
  BY <1>8, WalkStep DEF Next
<1>9. CASE LaunchCandidate
  BY <1>9, CandidateLaunch
<1>10. CASE SettleCandidate
  BY <1>10, CandidateSettle DEF Next
<1>11. CASE CanonicalEnd
  BY <1>11, CanonicalStep
<1>12. CASE UNCHANGED allVars
  <2>1. UNCHANGED walkVars
    BY <1>12 DEF allVars
  <2> QED
    BY <1>12, <2>1, RunStutter
<1> QED
  BY <1>1, <1>2, <1>3, <1>4, <1>5, <1>6, <1>7, <1>8, <1>9, <1>10, <1>11, <1>12
  DEF RunNext, Worker, OwnSteps, Recording, Emitting

(* What the traces tell. *)

\* The records an attempt at work is still owed, and the attempts emitV2 has told of.
Unrecorded == IF step \in {"running", "record"} THEN 2 ELSE IF step = "emit" THEN 1 ELSE 0
Emitted == IF step \in {"running", "record", "emit"} THEN Len(tries) - 1 ELSE Len(tries)

\* What the emitter has added up after n attempts.
Account(n) == IF n = 0 THEN Nothing ELSE [call |-> n, cost |-> Reservation, reconciled |-> TRUE]

\* Another attempt comes after attempt k, off the stacks.
Follows(k) ==
  IF Run.intent = "economy" THEN k = 1 /\ isRetryableDisposition(canonicalFailureDisposition(tries[k]))
  ELSE /\ Run.fallback = "claude" /\ Run.backend = "codex"
       /\ tries[k].outage # Null /\ ladderAfter(tries[k].backend) # Null

\* What the v2 record of attempt k tells, from the attempts alone.
SpokenByEconomy(k) ==
  IF tries[k].outcome = "completed" THEN Untold
  ELSE Told(IF k = 1 THEN Null ELSE ecoTier(0).stableId,
            IF Follows(k) THEN ecoTier(1).stableId ELSE Null, ~ Follows(k))
SpokenByDirect(k) ==
  IF tries[k].outcome = "completed"
  THEN IF k = 1 THEN Untold ELSE Told(tries[k - 1].backend, tries[k].backend, FALSE)
  ELSE IF Follows(k) THEN Told(tries[k].backend, ladderAfter(tries[k].backend), FALSE)
       ELSE Told(Null, Null, TRUE)
HardStop(try) ==
  try.outcome # "completed" /\ canonicalFailureDisposition(try).kind \in {"terminal", "terminal-unclassified"}
SpokenByStack(k) ==
  IF k = 1 THEN Told(Null, Null, HardStop(tries[k]))
  ELSE Told(tries[k - 1].stableId, tries[k].stableId, HardStop(tries[k]))
SpokenOf(k) ==
  IF Run.intent = "economy" THEN SpokenByEconomy(k)
  ELSE IF Run.intent = "direct" THEN SpokenByDirect(k) ELSE SpokenByStack(k)

\* Record i of a run: those of attempt k are 2 * k - 1 and 2 * k.
Entry(i) ==
  IF i % 2 = 1 THEN TraceRecord((i + 1) \div 2)
  ELSE V2Record(i \div 2, Account(i \div 2), SpokenOf(i \div 2))
LogOK ==
  /\ log \in Seq(Elements(log))
  /\ Len(log) = 2 * Len(tries) - Unrecorded
  /\ \A i \in 1..Len(log) : log[i] = Entry(i)

\* What a path keeps in mind is the attempt told of last.
CarriedOK ==
  /\ Emitted = 0 => carried = {}
  /\ Emitted > 0 =>
       /\ Run.intent \in {"explicit", "automatic"} => carried = {Told(tries[Emitted].stableId, Null, FALSE)}
       /\ (Run.intent = "direct" /\ Follows(Emitted)) =>
            carried = {Told(tries[Emitted].backend, ladderAfter(tries[Emitted].backend), FALSE)}

\* Off the stacks the attempts follow each other down the ladder or the pair, to its end.
PathOK ==
  (Len(tries) > 0 /\ Run.intent \in {"economy", "direct"}) =>
    /\ \A k \in 1..Len(tries) : k < Len(tries) => Follows(k)
    /\ Run.intent = "direct" =>
         \A k \in 1..Len(tries) : k < Len(tries) => tries[k + 1].backend = ladderAfter(tries[k].backend)
    /\ step = "launch" => Follows(Len(tries))
    /\ step = "done" => tries[Len(tries)].outcome = "completed" \/ ~ Follows(Len(tries))

TraceInv == LogOK /\ consumed = Account(Emitted) /\ CarriedOK /\ PathOK

LEMMA FollowsKept ==
  ASSUME Run' = Run, env' = env, NEW k, tries'[k] = tries[k]
  PROVE  /\ Follows(k)' <=> Follows(k)
         /\ ladderAfter(tries[k].backend)' = ladderAfter(tries[k].backend)
BY DEF Follows, canonicalFailureDisposition, ladderAfter

LEMMA SpokenKept ==
  ASSUME Run' = Run, env' = env, NEW k, tries'[k] = tries[k], k # 1 => tries'[k - 1] = tries[k - 1]
  PROVE  SpokenOf(k)' = SpokenOf(k)
<1>1. /\ Follows(k)' <=> Follows(k)
      /\ ladderAfter(tries[k].backend)' = ladderAfter(tries[k].backend)
  BY FollowsKept
<1>2. \A i : ecoTier(i)' = ecoTier(i)
  BY DEF ecoTier
<1>3. HardStop(tries[k])' <=> HardStop(tries[k])
  BY DEF HardStop, canonicalFailureDisposition
<1>4. SpokenByEconomy(k)' = SpokenByEconomy(k)
  BY <1>1, <1>2 DEF SpokenByEconomy
<1>5. SpokenByDirect(k)' = SpokenByDirect(k)
  BY <1>1 DEF SpokenByDirect
<1>6. SpokenByStack(k)' = SpokenByStack(k)
  BY <1>3 DEF SpokenByStack
<1> QED
  BY <1>4, <1>5, <1>6 DEF SpokenOf

\* The record of attempt n is entry 2 * n - 1, its v2 record entry 2 * n.
LEMMA Halves ==
  ASSUME NEW n \in Nat \ {0}
  PROVE  /\ (2 * n - 1) % 2 = 1 /\ ((2 * n - 1) + 1) \div 2 = n
         /\ (2 * n) % 2 = 0 /\ (2 * n) \div 2 = n
OBVIOUS

LEMMA Counts ==
  ASSUME RunInv, LogOK
  PROVE  /\ Len(tries) \in Nat /\ Emitted \in 0..Len(tries) /\ Unrecorded \in 0..2
         /\ (step \in AtWork => Len(tries) > 0)
         /\ \A i \in 1..Len(log) : i % 2 # 1 => i \div 2 \in 1..Emitted
         /\ Len(log) \in Nat
<1>0. PICK n : n = Len(tries)
  OBVIOUS
<1>1. n \in Nat /\ (step \in AtWork => n > 0) /\ Len(log) \in Nat
  BY <1>0 DEF RunInv, TriesOK, StepOK, LogOK
<1>2. Emitted \in 0..n /\ Unrecorded \in 0..2
  BY <1>0, <1>1 DEF Emitted, Unrecorded, AtWork
<1>3. Len(log) <= 2 * Emitted + 1
  <2>1. Len(log) = 2 * n - Unrecorded
    BY <1>0 DEF LogOK
  <2>2. \/ Unrecorded = 2 /\ Emitted = n - 1
        \/ Unrecorded = 1 /\ Emitted = n - 1
        \/ Unrecorded = 0 /\ Emitted = n
    BY <1>0 DEF Emitted, Unrecorded
  <2> QED
    BY <1>1, <2>1, <2>2
<1>4. \A i \in 1..Len(log) : i % 2 # 1 => i \div 2 \in 1..Emitted
  <2> DEFINE m == Len(log)
             q == Emitted
  <2>1. m \in Nat /\ q \in Nat /\ m <= 2 * q + 1
    BY <1>1, <1>2, <1>3
  <2> HIDE DEF m, q
  <2>2. \A i \in 1..m : i % 2 # 1 => i \div 2 \in 1..q
    BY <2>1
  <2> QED
    BY <2>2 DEF m, q
<1> QED
  BY <1>0, <1>1, <1>2, <1>4

\* What is written stays true when the attempts told of stay as they are.
LEMMA EntriesKept ==
  ASSUME RunInv, LogOK, Run' = Run, env' = env, \A k \in 1..Emitted : tries'[k] = tries[k]
  PROVE  \A i \in 1..Len(log) : log[i] = Entry(i)'
<1> SUFFICES ASSUME NEW i \in 1..Len(log) PROVE log[i] = Entry(i)'
  OBVIOUS
<1>1. log[i] = Entry(i)
  BY DEF LogOK
<1>2. CASE i % 2 = 1
  BY <1>1, <1>2 DEF Entry
<1>3. CASE i % 2 # 1
  <2>1. PICK k : k = i \div 2
    OBVIOUS
  <2>2. k \in 1..Emitted /\ Emitted \in Nat
    BY <1>3, <2>1, Counts
  <2>3. tries'[k] = tries[k] /\ (k # 1 => tries'[k - 1] = tries[k - 1])
    BY <2>2
  <2>4. SpokenOf(k)' = SpokenOf(k)
    BY <2>3, SpokenKept
  <2> QED
    BY <1>1, <1>3, <2>1, <2>4 DEF Entry
<1> QED
  BY <1>2, <1>3

LEMMA CarriedKept ==
  ASSUME RunInv, LogOK, CarriedOK, Run' = Run, env' = env, Emitted' = Emitted, carried' = carried,
         \A k \in 1..Emitted : tries'[k] = tries[k]
  PROVE  CarriedOK'
<1>1. Emitted \in Nat
  BY Counts
<1>2. CASE Emitted = 0
  BY <1>1, <1>2 DEF CarriedOK
<1>3. CASE Emitted > 0
  <2>1. PICK m : m = Emitted
    OBVIOUS
  <2>2. m \in 1..m /\ m > 0 /\ m # 0 /\ tries'[m] = tries[m]
    BY <1>1, <1>3, <2>1
  <2>3. /\ Follows(m)' <=> Follows(m)
        /\ ladderAfter(tries[m].backend)' = ladderAfter(tries[m].backend)
    BY <2>2, FollowsKept
  <2> QED
    BY <2>1, <2>2, <2>3 DEF CarriedOK
<1> QED
  BY <1>1, <1>2, <1>3

LEMMA PathKept ==
  ASSUME RunInv, LogOK, PathOK, Run' = Run, env' = env, Len(tries') = Len(tries),
         \A k \in 1..Len(tries) : tries'[k].backend = tries[k].backend /\ (k < Len(tries) => tries'[k] = tries[k]),
         step' \notin {"launch", "done"}
  PROVE  PathOK'
<1>0. PICK n : n = Len(tries)
  OBVIOUS
<1>1. n \in Nat /\ n = Len(tries') /\ \A k \in 1..n : k < n => tries'[k] = tries[k]
  BY <1>0, Counts
<1>2. \A k \in 1..n : tries'[k].backend = tries[k].backend
  BY <1>0
<1>3. SUFFICES ASSUME n > 0, Run.intent \in {"economy", "direct"}
               PROVE  /\ \A k \in 1..n : k < n => Follows(k)'
                      /\ Run.intent = "direct" =>
                           \A k \in 1..n : k < n => tries'[k + 1].backend = ladderAfter(tries[k].backend)'
  BY <1>1 DEF PathOK
<1>4. \A k \in 1..n : k < n => /\ Follows(k)' <=> Follows(k)
                               /\ ladderAfter(tries[k].backend)' = ladderAfter(tries[k].backend)
  BY <1>1, FollowsKept
<1>5. \A k \in 1..n : k < n => k + 1 \in 1..n
  BY <1>1
<1>6. /\ \A k \in 1..n : k < n => Follows(k)
      /\ Run.intent = "direct" => \A k \in 1..n : k < n => tries[k + 1].backend = ladderAfter(tries[k].backend)
  BY <1>0, <1>3 DEF PathOK
<1> QED
  BY <1>2, <1>4, <1>5, <1>6

\* A run with no attempt has told nothing.
LEMMA NothingTold ==
  /\ (tries = <<>> /\ log = <<>> /\ consumed = Nothing /\ carried = {} /\ step \notin AtWork) => TraceInv
  /\ (tries' = <<>> /\ log' = <<>> /\ consumed' = Nothing /\ carried' = {} /\ step' \notin AtWork) => TraceInv'
<1>1. Len(<<>>) = 0 /\ <<>> \in Seq(Elements(<<>>)) /\ 1..0 = {} /\ 2 * 0 - 0 = 0 /\ ~ (0 > 0)
  BY DEF Elements
<1>2. /\ step \notin AtWork => Unrecorded = 0 /\ Emitted = Len(tries)
      /\ step' \notin AtWork => Unrecorded' = 0 /\ Emitted' = Len(tries')
  BY DEF AtWork, Unrecorded, Emitted
<1>3. (tries = <<>> /\ log = <<>> /\ consumed = Nothing /\ carried = {} /\ step \notin AtWork) => TraceInv
  BY <1>1, <1>2 DEF TraceInv, LogOK, CarriedOK, PathOK, Account
<1>4. (tries' = <<>> /\ log' = <<>> /\ consumed' = Nothing /\ carried' = {} /\ step' \notin AtWork) => TraceInv'
  BY <1>1, <1>2 DEF TraceInv, LogOK, CarriedOK, PathOK, Account
<1> QED
  BY <1>3, <1>4

LEMMA IdleUntold ==
  ASSUME RunInv, TraceInv, tries = <<>>
  PROVE  log = <<>> /\ consumed = Nothing /\ carried = {}
<1>1. step \notin AtWork /\ Len(tries) = 0
  BY DEF RunInv, StepOK
<1>2. Unrecorded = 0 /\ Emitted = 0
  BY <1>1 DEF Unrecorded, Emitted, AtWork
<1>3. log \in Seq(Elements(log)) /\ Len(log) = 0
  BY <1>1, <1>2 DEF TraceInv, LogOK
<1> QED
  BY <1>2, <1>3 DEF TraceInv, CarriedOK, Account

LEMMA StartTells ==
  ASSUME RunInv, RunInv', TraceInv, NEW a, Start(a)
  PROVE  TraceInv'
<1>1. PICK p \in parseArguments(a, env) : step = "idle" /\ Onward(p)
  BY DEF Start, Onward
<1>2. tries = <<>> /\ log = <<>> /\ consumed = Nothing /\ carried = {}
  BY <1>1, IdleUntold DEF RunInv, StepOK
<1>3. ~ Reject
  BY DEF Reject, finish, RunInv, AcceptedNeverRejected
<1>4. step' \in {"launch", "walk"} /\ UNCHANGED <<tries, emitterVars>>
  BY <1>3 DEF Start
<1>5. tries' = <<>> /\ log' = <<>> /\ consumed' = Nothing /\ carried' = {} /\ step' \notin AtWork
  BY <1>2, <1>4 DEF emitterVars, AtWork
<1> QED
  BY <1>5, NothingTold

LEMMA WorkerTells ==
  ASSUME RunInv, TraceInv, NEW outcome \in env.outcomes, WorkerReturns(outcome)
  PROVE  TraceInv'
<1>0. PICK n : n = Len(tries)
  OBVIOUS
<1>1. /\ step = "running" /\ step' = "record" /\ Run' = Run /\ env' = env
      /\ log' = log /\ consumed' = consumed /\ carried' = carried
  BY DEF WorkerReturns, emitterVars, Run
<1>2. /\ n \in Nat \ {0} /\ Len(tries') = n
      /\ \A k \in 1..n : tries'[k].backend = tries[k].backend /\ (k < n => tries'[k] = tries[k])
  BY <1>0, Returns
<1>3. Emitted = n - 1 /\ Emitted' = Emitted /\ Unrecorded' = Unrecorded
  BY <1>0, <1>1, <1>2 DEF Emitted, Unrecorded
<1>4. \A k \in 1..Emitted : tries'[k] = tries[k]
  BY <1>2, <1>3
<1>5. LogOK'
  <2>1. \A i \in 1..Len(log) : log[i] = Entry(i)'
    BY <1>1, <1>4, EntriesKept DEF TraceInv
  <2> QED
    BY <1>0, <1>1, <1>2, <1>3, <2>1 DEF TraceInv, LogOK
<1>6. CarriedOK'
  BY <1>1, <1>3, <1>4, CarriedKept DEF TraceInv
<1>7. PathOK'
  BY <1>0, <1>1, <1>2, PathKept DEF TraceInv
<1> QED
  BY <1>1, <1>3, <1>5, <1>6, <1>7 DEF TraceInv, Account

\* A record is appended, in its place.
LEMMA LogGrows ==
  ASSUME RunInv, LogOK, UNCHANGED <<env, input, tries>>, NEW x, log' = Append(log, x), NEW m, m = Len(log),
         x = Entry(m + 1)', Unrecorded' = Unrecorded - 1
  PROVE  LogOK'
<1>1. m = Len(log)
  OBVIOUS
<1>2. /\ log' \in Seq(Elements(log')) /\ m \in Nat /\ Len(log') = m + 1
      /\ \A k \in 1..m : log'[k] = log[k]
      /\ log'[m + 1] = x
  <2>1. log \in Seq(Elements(log)) /\ log' = Append(log, x)
    BY DEF LogOK
  <2> QED
    BY ONLY <1>1, <2>1, Grown
<1>3. \A i \in 1..m : log[i] = Entry(i)'
  <2>1. Run' = Run /\ env' = env /\ \A k \in 1..Emitted : tries'[k] = tries[k]
    BY DEF Run
  <2> QED
    BY <1>1, <2>1, EntriesKept
<1>4. ASSUME NEW i \in 1..(m + 1) PROVE log'[i] = Entry(i)'
  <2>1. CASE i = m + 1
    BY <1>1, <1>2, <2>1
  <2>2. CASE i # m + 1
    <3>1. i \in 1..m
      BY <1>2, <2>2
    <3> QED
      BY <1>2, <1>3, <3>1
  <2> QED
    BY <2>1, <2>2
<1>5. Len(log') = 2 * Len(tries') - Unrecorded'
  <2>1. Len(tries) \in Nat /\ Unrecorded \in 0..2 /\ m = 2 * Len(tries) - Unrecorded /\ tries' = tries
    BY <1>1, Counts DEF LogOK
  <2> QED
    BY <1>2, <2>1
<1> QED
  BY <1>2, <1>4, <1>5 DEF LogOK

LEMMA RecordTells ==
  ASSUME RunInv, TraceInv, Recording
  PROVE  TraceInv'
<1>0. PICK n, m : n = Len(tries) /\ m = Len(log)
  OBVIOUS
<1>1. /\ step = "record" /\ step' = "emit" /\ log' = Append(log, TraceRecord(n))
      /\ UNCHANGED <<env, input, tries>> /\ consumed' = consumed /\ carried' = carried
  BY <1>0 DEF Recording, RecordEconomy, RecordDirect, RecordCandidate, onTrace
<1>2. n \in Nat \ {0} /\ Run' = Run
  BY <1>0, <1>1, Counts DEF TraceInv, AtWork, Run
<1>3. Emitted' = Emitted /\ Unrecorded = 2 /\ Unrecorded' = Unrecorded - 1
  BY <1>1 DEF Emitted, Unrecorded
<1>4. TraceRecord(n) = Entry(m + 1)'
  <2>1. m + 1 = 2 * n - 1
    BY <1>0, <1>2, <1>3 DEF TraceInv, LogOK
  <2>2. (2 * n - 1) % 2 = 1 /\ ((2 * n - 1) + 1) \div 2 = n
    BY <1>2, Halves
  <2> QED
    BY <2>1, <2>2 DEF Entry
<1>5. LogOK'
  BY <1>0, <1>1, <1>3, <1>4, LogGrows DEF TraceInv
<1>6. CarriedOK'
  BY <1>1, <1>2, <1>3, CarriedKept DEF TraceInv
<1>7. PathOK'
  BY <1>1, <1>2, PathKept DEF TraceInv
<1> QED
  BY <1>1, <1>3, <1>5, <1>6, <1>7 DEF TraceInv, Account

\* Whether a run goes on is decided twice, when the attempt is told of and when it is settled.
LEMMA Onwards ==
  ASSUME RunInv, NEW n, n = Len(tries)
  PROVE  /\ Run.intent = "economy" => (Follows(n) <=> canBackup)
         /\ Run.intent = "direct" => (Follows(n) <=> nextTier # {})
         /\ nextTier \subseteq {ladderAfter(Last.backend)}
<1>1. Last = tries[n]
  BY DEF Last
<1>2. Run.intent = "economy" => (Follows(n) <=> canBackup)
  BY <1>1 DEF Follows, canBackup
<1>3. Run.intent = "direct" => (Follows(n) <=> nextTier # {})
  BY <1>1 DEF Follows, nextTier, mayFallBack
<1>4. nextTier \subseteq {ladderAfter(Last.backend)}
  BY DEF nextTier
<1> QED
  BY <1>2, <1>3, <1>4

\* What each path tells of its latest attempt, and what it keeps in mind.
Speaks(n) ==
  \E told : told = SpokenOf(n) /\ emitV2(told)
Keeps(n) ==
  /\ Run.intent \in {"explicit", "automatic"} => carried' = {Told(tries[n].stableId, Null, FALSE)}
  /\ (Run.intent = "direct" /\ Follows(n) /\ tries[n].outcome # "completed") =>
       carried' = {Told(tries[n].backend, ladderAfter(tries[n].backend), FALSE)}

LEMMA EconomySpeaks ==
  ASSUME RunInv, EmitEconomy, NEW n, n = Len(tries)
  PROVE  Speaks(n) /\ Keeps(n)
<1>1. Run.intent = "economy" /\ Last = tries[n]
  BY DEF EmitEconomy, Last
<1>2. Follows(n) <=> canBackup
  BY <1>1, Onwards
<1>3. (IF Succeeded THEN Untold
       ELSE Told(IF n = 1 THEN Null ELSE ecoTier(0).stableId,
                 IF canBackup THEN ecoTier(1).stableId ELSE Null, ~ canBackup)) = SpokenOf(n)
  BY <1>1, <1>2 DEF SpokenOf, SpokenByEconomy, Succeeded
<1>4. Speaks(n)
  BY <1>3 DEF Speaks, EmitEconomy
<1> QED
  BY <1>1, <1>4 DEF Keeps

LEMMA DirectSpeaks ==
  ASSUME RunInv, TraceInv, EmitDirect, NEW n, n = Len(tries)
  PROVE  Speaks(n) /\ Keeps(n)
<1>1. step = "emit" /\ Run.intent = "direct" /\ Last = tries[n]
  BY DEF EmitDirect, Last
<1>2. n \in Nat \ {0} /\ Emitted = n - 1
  BY <1>1, Counts DEF TraceInv, AtWork, Emitted
<1>3. Follows(n) <=> nextTier # {}
  BY <1>1, Onwards
<1>4. SpokenOf(n) = SpokenByDirect(n)
  BY <1>1 DEF SpokenOf
<1>5. CASE Succeeded
  <2>1. tries[n].outcome = "completed"
    BY <1>1, <1>5 DEF Succeeded
  <2>2. PICK told \in IF carried = {} THEN {Untold} ELSE carried : emitV2(told)
    BY <1>5 DEF EmitDirect
  <2>3. CASE n = 1
    <3>1. carried = {}
      BY <1>2, <2>3 DEF TraceInv, CarriedOK
    <3> QED
      <4>1. told = Untold
        BY <2>2, <3>1
      <4>2. SpokenOf(n) = Untold
        BY <1>4, <2>1, <2>3 DEF SpokenByDirect
      <4> QED
        BY <1>1, <2>1, <2>2, <4>1, <4>2 DEF Speaks, Keeps
  <2>4. CASE n # 1
    <3>1. PICK m : m = n - 1
      OBVIOUS
    <3>2. m \in 1..n /\ m < n /\ m + 1 = n /\ m > 0 /\ n > 0
      BY <1>2, <2>4, <3>1
    <3>3. Follows(m) /\ tries[m + 1].backend = ladderAfter(tries[m].backend)
      BY <1>1, <3>2 DEF TraceInv, PathOK
    <3>4. carried = {Told(tries[m].backend, tries[n].backend, FALSE)}
      BY <1>1, <1>2, <3>1, <3>2, <3>3 DEF TraceInv, CarriedOK
    <3> QED
      <4>1. told = Told(tries[m].backend, tries[n].backend, FALSE)
        BY <2>2, <3>4
      <4>2. SpokenOf(n) = Told(tries[m].backend, tries[n].backend, FALSE)
        BY <1>4, <2>1, <2>4, <3>1 DEF SpokenByDirect
      <4> QED
        BY <1>1, <2>1, <2>2, <4>1, <4>2 DEF Speaks, Keeps
  <2> QED
    BY <2>3, <2>4
<1>6. CASE ~ Succeeded /\ nextTier # {}
  BY <1>1, <1>3, <1>4, <1>6 DEF EmitDirect, Speaks, Keeps, SpokenByDirect, Succeeded
<1>7. CASE ~ Succeeded /\ ~ (nextTier # {})
  BY <1>1, <1>3, <1>4, <1>7 DEF EmitDirect, Speaks, Keeps, SpokenByDirect, Succeeded
<1> QED
  BY <1>5, <1>6, <1>7

LEMMA CandidateSpeaks ==
  ASSUME RunInv, TraceInv, EmitCandidate, NEW n, n = Len(tries)
  PROVE  Speaks(n) /\ Keeps(n)
<1> DEFINE hard == ~ Succeeded /\ canonicalFailureDisposition(Last).kind \in {"terminal", "terminal-unclassified"}
<1>1. step = "emit" /\ Run.intent \in {"explicit", "automatic"} /\ Last = tries[n]
      /\ carried' = {Told(tries[n].stableId, Null, FALSE)}
  BY DEF EmitCandidate, OnStack, Last
<1>2. n \in Nat \ {0} /\ Emitted = n - 1
  BY <1>1, Counts DEF TraceInv, AtWork, Emitted
<1>3. SpokenOf(n) = SpokenByStack(n) /\ (hard <=> HardStop(tries[n])) /\ hard \in BOOLEAN /\ HardStop(tries[n]) \in BOOLEAN
  BY <1>1 DEF SpokenOf, HardStop, Succeeded
<1>4. PICK told \in IF carried = {} THEN {Told(Null, Null, hard)}
                    ELSE {Told(prior.from, tries[n].stableId, hard) : prior \in carried} : emitV2(told)
  BY <1>1 DEF EmitCandidate
<1> HIDE DEF hard
<1>5. told = SpokenByStack(n)
  <2>1. CASE n = 1
    <3>1. carried = {}
      BY <1>2, <2>1 DEF TraceInv, CarriedOK
    <3> QED
      BY <1>3, <1>4, <2>1, <3>1 DEF SpokenByStack
  <2>2. CASE n # 1
    <3>1. carried = {Told(tries[n - 1].stableId, Null, FALSE)}
      <4>1. n - 1 > 0
        BY <1>2, <2>2
      <4> QED
        BY <1>1, <1>2, <4>1 DEF TraceInv, CarriedOK
    <3>2. told = Told(tries[n - 1].stableId, tries[n].stableId, hard)
      BY <1>4, <3>1 DEF Told
    <3> QED
      BY <1>3, <2>2, <3>2 DEF SpokenByStack
  <2> QED
    BY <2>1, <2>2
<1> QED
  BY <1>1, <1>3, <1>4, <1>5 DEF Speaks, Keeps

LEMMA EmitTells ==
  ASSUME RunInv, TraceInv, Emitting
  PROVE  TraceInv'
<1>0. PICK n, m : n = Len(tries) /\ m = Len(log)
  OBVIOUS
<1>1. Speaks(n) /\ Keeps(n)
  BY <1>0, EconomySpeaks, DirectSpeaks, CandidateSpeaks DEF Emitting
<1>2. /\ step = "emit" /\ step' = "settle" /\ UNCHANGED <<env, input, tries>> /\ Run' = Run
      /\ consumed' = accounted(consumed)
      /\ log' = Append(log, V2Record(n, accounted(consumed), SpokenOf(n)))
  BY <1>0, <1>1 DEF Emitting, EmitEconomy, EmitDirect, EmitCandidate, Speaks, emitV2, Run
<1>3. n \in Nat \ {0}
  BY <1>0, <1>2, Counts DEF TraceInv, AtWork
<1>4. Emitted = n - 1 /\ Emitted' = n /\ Unrecorded = 1 /\ Unrecorded' = Unrecorded - 1
  BY <1>0, <1>2 DEF Emitted, Unrecorded
<1>5. accounted(consumed) = Account(n)
  <2>1. consumed = Account(n - 1)
    BY <1>4 DEF TraceInv
  <2>2. CASE n = 1
    BY <2>1, <2>2 DEF accounted, Account, Nothing
  <2>3. CASE n # 1
    <3>1. n - 1 # 0 /\ (n - 1) + 1 = n /\ n # 0
      BY <1>3, <2>3
    <3>2. consumed = [call |-> n - 1, cost |-> Reservation, reconciled |-> TRUE]
      BY <2>1, <3>1 DEF Account
    <3>3. consumed.call = n - 1 /\ consumed.cost = Reservation /\ consumed.reconciled
      BY <3>2
    <3>4. accounted(consumed) = [call |-> n, cost |-> Reservation, reconciled |-> TRUE]
      BY <3>1, <3>3 DEF accounted
    <3> QED
      BY <3>1, <3>4 DEF Account
  <2> QED
    BY <2>2, <2>3
<1>6. \A k \in 1..n : SpokenOf(k)' = SpokenOf(k) /\ (Follows(k)' <=> Follows(k))
                      /\ ladderAfter(tries[k].backend)' = ladderAfter(tries[k].backend)
  BY <1>2, SpokenKept, FollowsKept
<1>7. V2Record(n, accounted(consumed), SpokenOf(n)) = Entry(m + 1)'
  <2>1. m + 1 = 2 * n
    BY <1>0, <1>3, <1>4 DEF TraceInv, LogOK
  <2>2. (2 * n) % 2 # 1 /\ (2 * n) \div 2 = n /\ n \in 1..n
    BY <1>3, Halves
  <2>3. SpokenOf(n)' = SpokenOf(n)
    BY <1>6, <2>2
  <2> QED
    BY <1>5, <2>1, <2>2, <2>3 DEF Entry
<1>8. LogOK'
  BY <1>0, <1>2, <1>4, <1>7, LogGrows DEF TraceInv
<1>9. CarriedOK'
  <2>1. tries' = tries /\ n \in 1..n /\ n # 0
    BY <1>2, <1>3
  <2>2. (Run.intent = "direct" /\ Follows(n)) => tries[n].outcome # "completed"
    <3>1. Judged(n) /\ TryTyped(n)
      BY <1>0, <2>1 DEF RunInv, TriesOK
    <3>2. Run.intent = "direct" /\ Follows(n) => tries[n].outage # Null
      BY DEF Follows
    <3> QED
      BY <3>1, <3>2 DEF Judged, TryTyped, OutageReasons
  <2> QED
    BY <1>1, <1>2, <1>4, <1>6, <2>1, <2>2 DEF CarriedOK, Keeps
<1>10. PathOK'
  BY <1>2, PathKept DEF TraceInv
<1> QED
  BY <1>2, <1>4, <1>5, <1>8, <1>9, <1>10 DEF TraceInv

\* An attempt is launched: what was told stays, and the one before it is followed.
LEMMA LaunchTells ==
  ASSUME RunInv, TraceInv, step \in {"launch", "walk"}, step' = "running", UNCHANGED <<env, input, emitterVars>>,
         NEW try, tries' = Append(tries, try),
         (Run.intent = "direct" /\ tries # <<>>) => try.backend = ladderAfter(tries[Len(tries)].backend),
         Run.intent \in {"economy", "direct"} => step = "launch"
  PROVE  TraceInv'
<1>0. PICK n : n = Len(tries)
  OBVIOUS
<1>1. n \in Nat /\ Len(tries') = n + 1 /\ (\A k \in 1..n : tries'[k] = tries[k]) /\ tries'[n + 1] = try
  <2>1. tries \in Seq(Elements(tries))
    BY DEF RunInv, TriesOK
  <2> QED
    BY <1>0, <2>1, Grown
<1>2. Emitted = n /\ Emitted' = n /\ Unrecorded = 0 /\ Unrecorded' = 2
  BY <1>0, <1>1 DEF Emitted, Unrecorded
<1>3. log' = log /\ consumed' = consumed /\ carried' = carried /\ Run' = Run /\ env' = env
  BY DEF emitterVars, Run
<1>4. LogOK'
  <2>1. \A i \in 1..Len(log) : log[i] = Entry(i)'
    BY <1>1, <1>2, <1>3, EntriesKept DEF TraceInv
  <2>2. Len(log) = 2 * (n + 1) - 2
    BY <1>0, <1>1, <1>2 DEF TraceInv, LogOK
  <2> QED
    BY <1>1, <1>2, <1>3, <2>1, <2>2 DEF TraceInv, LogOK
<1>5. CarriedOK'
  BY <1>1, <1>2, <1>3, CarriedKept DEF TraceInv
<1>6. PathOK'
  <2>1. \A k \in 1..n : /\ Follows(k)' <=> Follows(k)
                        /\ ladderAfter(tries[k].backend)' = ladderAfter(tries[k].backend)
    BY <1>1, <1>3, FollowsKept
  <2>2. SUFFICES ASSUME n > 0, Run.intent \in {"economy", "direct"}
                 PROVE  \A k \in 1..n : /\ Follows(k)'
                                        /\ Run.intent = "direct" =>
                                             tries'[k + 1].backend = ladderAfter(tries[k].backend)'
    BY <1>1, <1>3 DEF PathOK
  <2>3. ASSUME NEW k \in 1..n
        PROVE  Follows(k) /\ (Run.intent = "direct" => tries'[k + 1].backend = ladderAfter(tries[k].backend))
    <3>1. CASE k = n
      <4>1. Follows(n)
        BY <1>0, <2>2 DEF TraceInv, PathOK
      <4>2. tries # <<>>
        BY <1>0, <2>2
      <4> QED
        BY <1>0, <1>1, <3>1, <4>1, <4>2
    <3>2. CASE k # n
      <4>1. k < n /\ k + 1 \in 1..n
        BY <1>1, <3>2
      <4>2. Follows(k) /\ (Run.intent = "direct" => tries[k + 1].backend = ladderAfter(tries[k].backend))
        BY <1>0, <2>2, <4>1 DEF TraceInv, PathOK
      <4> QED
        BY <1>1, <4>1, <4>2
    <3> QED
      BY <3>1, <3>2
  <2> QED
    BY <2>1, <2>3
<1> QED
  BY <1>2, <1>3, <1>4, <1>5, <1>6 DEF TraceInv

\* An attempt is settled, or the walk goes on or ends: nothing is told.
LEMMA SettleTells ==
  ASSUME RunInv, TraceInv, step \in {"settle", "walk"}, step' \in {"launch", "walk", "done"},
         UNCHANGED <<env, input, tries, emitterVars>>,
         Run.intent \in {"economy", "direct"} =>
           /\ step' = "launch" => Follows(Len(tries))
           /\ step' = "done" => tries[Len(tries)].outcome = "completed" \/ ~ Follows(Len(tries))
  PROVE  TraceInv'
<1>0. PICK n : n = Len(tries)
  OBVIOUS
<1>1. /\ n \in Nat /\ log' = log /\ consumed' = consumed /\ carried' = carried /\ Run' = Run /\ env' = env
      /\ tries' = tries
  BY <1>0, Counts DEF TraceInv, emitterVars, Run
<1>2. Emitted = n /\ Emitted' = n /\ Unrecorded = 0 /\ Unrecorded' = 0
  BY <1>0, <1>1 DEF Emitted, Unrecorded
<1>3. LogOK'
  <2>1. \A i \in 1..Len(log) : log[i] = Entry(i)'
    BY <1>1, EntriesKept DEF TraceInv
  <2> QED
    BY <1>1, <1>2, <2>1 DEF TraceInv, LogOK
<1>4. CarriedOK'
  BY <1>1, <1>2, CarriedKept DEF TraceInv
<1>5. PathOK'
  <2>1. \A k \in 1..n : /\ Follows(k)' <=> Follows(k)
                        /\ ladderAfter(tries[k].backend)' = ladderAfter(tries[k].backend)
    BY <1>1, FollowsKept
  <2>2. SUFFICES ASSUME n > 0, Run.intent \in {"economy", "direct"}
                 PROVE  /\ \A k \in 1..n : k < n => Follows(k)'
                        /\ Run.intent = "direct" =>
                             \A k \in 1..n : k < n => tries[k + 1].backend = ladderAfter(tries[k].backend)'
                        /\ step' = "launch" => Follows(n)'
                        /\ step' = "done" => tries[n].outcome = "completed" \/ ~ Follows(n)'
    BY <1>0, <1>1 DEF PathOK
  <2>3. n \in 1..n
    BY <1>1, <2>2
  <2>4. /\ \A k \in 1..n : k < n => Follows(k)
        /\ Run.intent = "direct" => \A k \in 1..n : k < n => tries[k + 1].backend = ladderAfter(tries[k].backend)
    BY <1>0, <2>2 DEF TraceInv, PathOK
  <2> QED
    BY <1>0, <2>1, <2>2, <2>3, <2>4
<1> QED
  BY <1>1, <1>2, <1>3, <1>4, <1>5 DEF TraceInv

LEMMA LaunchesTell ==
  ASSUME RunInv, TraceInv, LaunchEconomy \/ LaunchDirect \/ LaunchCandidate
  PROVE  TraceInv'
<1>1. CASE LaunchEconomy
  <2>1. /\ step = "launch" /\ Run.intent = "economy" /\ UNCHANGED <<env, input, emitterVars>>
        /\ \E try : launch(try)
    BY <1>1 DEF LaunchEconomy
  <2> QED
    BY <2>1, LaunchTells DEF launch
<1>2. CASE LaunchDirect
  <2>1. step = "launch" /\ Run.intent = "direct" /\ UNCHANGED <<env, input, emitterVars>>
    BY <1>2 DEF LaunchDirect
  <2>2. PICK backend \in IF tries = <<>> THEN {Run.backend} ELSE nextTier \cap Backends :
          launch(NewTry(backend, Run.mode, {}, Null, directProfile(backend), Run.effort, {}))
    BY <1>2 DEF LaunchDirect
  <2>3. PICK try : try = NewTry(backend, Run.mode, {}, Null, directProfile(backend), Run.effort, {})
    OBVIOUS
  <2>4. try.backend = backend
    BY <2>3 DEF NewTry
  <2>5. tries # <<>> => backend = ladderAfter(tries[Len(tries)].backend)
    BY <2>2, Onwards DEF Last
  <2>6. step' = "running" /\ tries' = Append(tries, try)
    BY <2>2, <2>3 DEF launch
  <2> QED
    BY <2>1, <2>4, <2>5, <2>6, LaunchTells
<1>3. CASE LaunchCandidate
  <2>1. step = "walk" /\ Run.intent \in {"explicit", "automatic"} /\ UNCHANGED <<env, input, emitterVars>>
    BY <1>3 DEF LaunchCandidate, RunInv, StepOK
  <2>2. CASE UNCHANGED <<tries, step>>
    BY <2>1, <2>2, SettleTells
  <2>3. CASE \E try : launch(try)
    BY <2>1, <2>3, LaunchTells DEF launch
  <2> QED
    BY <1>3, <2>2, <2>3 DEF LaunchCandidate
<1> QED
  BY <1>1, <1>2, <1>3

LEMMA SettlesTell ==
  ASSUME RunInv, RunInv', TraceInv, SettleEconomy \/ SettleDirect \/ SettleCandidate \/ Walk \/ CanonicalEnd
  PROVE  TraceInv'
<1>0. PICK n : n = Len(tries)
  OBVIOUS
<1>1. Last = tries[n]
  BY <1>0 DEF Last
<1>2. CASE SettleEconomy
  <2>1. step = "settle" /\ Run.intent = "economy" /\ UNCHANGED <<env, input, tries, emitterVars>>
    BY <1>2 DEF SettleEconomy
  <2>2. Follows(n) <=> canBackup
    BY <1>0, <2>1, Onwards
  <2>3. \/ step' = "done" /\ (tries[n].outcome = "completed" \/ ~ canBackup)
        \/ step' = "launch" /\ canBackup
    BY <1>1, <1>2 DEF SettleEconomy, Succeeded, finish
  <2> QED
    BY <1>0, <2>1, <2>2, <2>3, SettleTells
<1>3. CASE SettleDirect
  <2>1. step = "settle" /\ Run.intent = "direct" /\ UNCHANGED <<env, input, tries, emitterVars>>
    BY <1>3 DEF SettleDirect
  <2>2. Follows(n) <=> nextTier # {}
    BY <1>0, <2>1, Onwards
  <2>3. \/ step' = "done" /\ (tries[n].outcome = "completed" \/ ~ (nextTier # {}))
        \/ step' = "launch" /\ nextTier # {}
    BY <1>1, <1>3 DEF SettleDirect, Succeeded, finish
  <2> QED
    BY <1>0, <2>1, <2>2, <2>3, SettleTells
<1>4. CASE SettleCandidate
  <2>1. step = "settle" /\ step' = "walk" /\ Run.intent \in {"explicit", "automatic"}
        /\ UNCHANGED <<env, input, tries, emitterVars>>
    BY <1>4 DEF SettleCandidate, OnStack
  <2> QED
    BY <2>1, SettleTells
<1>5. CASE Walk
  <2>1. step = "walk" /\ step' = "walk" /\ Run.intent \in {"explicit", "automatic"}
        /\ UNCHANGED <<env, input, tries, emitterVars>>
    BY <1>5 DEF Walk, runVars, emitterVars, RunInv, StepOK
  <2> QED
    BY <2>1, SettleTells
<1>6. CASE CanonicalEnd
  <2>1. ~ Reject
    BY DEF Reject, finish, RunInv, AcceptedNeverRejected
  <2>2. step = "walk" /\ step' = "done" /\ Run.intent \in {"explicit", "automatic"}
        /\ UNCHANGED <<env, input, tries, emitterVars>>
    BY <1>6, <2>1 DEF CanonicalEnd, finish, RunInv, StepOK
  <2> QED
    BY <2>2, SettleTells
<1> QED
  BY <1>2, <1>3, <1>4, <1>5, <1>6

LEMMA TraceStutter ==
  ASSUME RunInv, TraceInv, UNCHANGED allVars
  PROVE  TraceInv'
<1>0. PICK n : n = Len(tries)
  OBVIOUS
<1>1. /\ n \in Nat /\ log' = log /\ consumed' = consumed /\ carried' = carried /\ Run' = Run /\ env' = env
      /\ tries' = tries /\ step' = step
  BY <1>0, Counts DEF TraceInv, allVars, runVars, Run
<1>2. Emitted' = Emitted /\ Unrecorded' = Unrecorded
  BY <1>1 DEF Emitted, Unrecorded
<1>3. LogOK'
  <2>1. \A i \in 1..Len(log) : log[i] = Entry(i)'
    BY <1>1, EntriesKept DEF TraceInv
  <2> QED
    BY <1>1, <1>2, <2>1 DEF TraceInv, LogOK
<1>4. CarriedOK'
  BY <1>1, <1>2, CarriedKept DEF TraceInv
<1>5. PathOK'
  <2>1. \A k \in 1..n : /\ Follows(k)' <=> Follows(k)
                        /\ ladderAfter(tries[k].backend)' = ladderAfter(tries[k].backend)
    BY <1>1, FollowsKept
  <2>2. n > 0 => n \in 1..n
    BY <1>1
  <2> QED
    BY <1>0, <1>1, <2>1, <2>2 DEF TraceInv, PathOK
<1> QED
  BY <1>1, <1>2, <1>3, <1>4, <1>5 DEF TraceInv, Account

LEMMA TraceStep ==
  ASSUME RunInv, RunInv', TraceInv, [RunNext]_allVars
  PROVE  TraceInv'
<1>1. ASSUME NEW t \in Trials, Start(t.options) PROVE TraceInv'
  BY <1>1, StartTells
<1>2. ASSUME NEW o \in env.outcomes, WorkerReturns(o) PROVE TraceInv'
  BY <1>2, WorkerTells
<1>3. CASE Recording
  BY <1>3, RecordTells
<1>4. CASE Emitting
  BY <1>4, EmitTells
<1>5. CASE LaunchEconomy \/ LaunchDirect \/ LaunchCandidate
  BY <1>5, LaunchesTell
<1>6. CASE SettleEconomy \/ SettleDirect \/ SettleCandidate \/ Walk \/ CanonicalEnd
  BY <1>6, SettlesTell
<1>7. CASE UNCHANGED allVars
  BY <1>7, TraceStutter
<1> QED
  BY <1>1, <1>2, <1>3, <1>4, <1>5, <1>6, <1>7 DEF RunNext, Worker, OwnSteps, Recording, Emitting

(* What is told is so. *)

\* Each path tells of an attempt what became of it.
TellsRightly(told, k) ==
  LET failed == tries[k].outcome # "completed"
  IN  /\ told.final => k = Len(tries)
      /\ (~ OnStack /\ failed /\ k < Len(tries)) => told.to = Name(k + 1)
      /\ (~ OnStack /\ failed /\ k = Len(tries) /\ result # "none") => told.final /\ told.to = Null
      /\ (k > 1 /\ IF Run.intent = "economy" THEN failed ELSE OnStack \/ ~ failed) => told.from = Name(k - 1)
      /\ (k > 1 /\ (OnStack \/ (Run.intent = "direct" /\ ~ failed))) => told.to = Name(k)

LEMMA ToldFields ==
  ASSUME NEW from, NEW to, NEW final
  PROVE  Told(from, to, final).from = from /\ Told(from, to, final).to = to /\ Told(from, to, final).final = final
BY DEF Told

LEMMA EconomyTruth ==
  ASSUME RunInv, TraceInv, NEW n, n = Len(tries), NEW k \in 1..n, input # {}, Run.intent = "economy"
  PROVE  TellsRightly(SpokenOf(k), k)
<1>1. n \in Nat /\ n <= 2 /\ \A i \in 1..n : tries[i].stableId = ecoTier(i - 1).stableId
  <2>1. n \in Nat
    BY Counts DEF TraceInv
  <2> QED
    BY <2>1 DEF RunInv, EconomyOK
<1>2. /\ k < n => Follows(k)
      /\ (result # "none" /\ k = n) => tries[n].outcome = "completed" \/ ~ Follows(n)
  BY <1>1 DEF TraceInv, PathOK, RunInv, StepOK
<1>3. SpokenOf(k) = SpokenByEconomy(k) /\ ~ OnStack /\ \A i : Name(i) = tries[i].stableId
  BY DEF SpokenOf, OnStack, Name
<1>4. CASE tries[k].outcome = "completed"
  <2>1. SpokenOf(k) = Told(Null, Null, FALSE)
    BY <1>3, <1>4 DEF SpokenByEconomy, Untold
  <2>8. SpokenOf(k).from = Null /\ SpokenOf(k).to = Null /\ SpokenOf(k).final = FALSE
    BY <2>1 DEF Told
  <2> QED
    BY <1>3, <1>4, <2>8 DEF TellsRightly
<1>5. CASE tries[k].outcome # "completed"
  <2> DEFINE told == SpokenOf(k)
  <2>1. /\ told.from = IF k = 1 THEN Null ELSE ecoTier(0).stableId
        /\ told.to = IF Follows(k) THEN ecoTier(1).stableId ELSE Null
        /\ told.final = ~ Follows(k)
    BY <1>3, <1>5, ToldFields DEF SpokenByEconomy
  <2> HIDE DEF told
  <2>2. Follows(k) => k = 1
    BY DEF Follows
  <2>3. k < n => k = 1 /\ told.to = tries[k + 1].stableId /\ ~ told.final
    <3> SUFFICES ASSUME k < n PROVE k = 1 /\ told.to = tries[k + 1].stableId /\ ~ told.final
      OBVIOUS
    <3>1. Follows(k) /\ k = 1 /\ 2 \in 1..n /\ 2 - 1 = 1 /\ k + 1 = 2
      BY <1>1, <1>2, <2>2
    <3>2. tries[2].stableId = ecoTier(1).stableId
      BY <1>1, <3>1
    <3> QED
      BY <2>1, <3>1, <3>2
  <2>4. k > 1 => told.from = tries[k - 1].stableId
    <3> SUFFICES ASSUME k > 1 PROVE told.from = tries[k - 1].stableId
      OBVIOUS
    <3>1. k # 1 /\ k - 1 = 1 /\ 1 \in 1..n /\ 1 - 1 = 0
      BY <1>1
    <3>2. tries[1].stableId = ecoTier(0).stableId
      BY <1>1, <3>1
    <3> QED
      BY <2>1, <3>1, <3>2
  <2>5. (k = n /\ result # "none") => told.final /\ told.to = Null
    BY <1>2, <1>5, <2>1
  <2>6. told.final => k = n
    BY <1>1, <2>3
  <2>7. TellsRightly(told, k)
    BY <1>3, <1>5, <2>3, <2>4, <2>5, <2>6 DEF TellsRightly
  <2> QED
    BY <2>7 DEF told
<1> QED
  BY <1>4, <1>5

LEMMA DirectTruth ==
  ASSUME RunInv, TraceInv, NEW n, n = Len(tries), NEW k \in 1..n, Run.intent = "direct"
  PROVE  TellsRightly(SpokenOf(k), k)
<1>1. n \in Nat
  BY Counts DEF TraceInv
<1>2. /\ k < n => Follows(k) /\ tries[k + 1].backend = ladderAfter(tries[k].backend)
      /\ (result # "none" /\ k = n) => tries[n].outcome = "completed" \/ ~ Follows(n)
  BY <1>1 DEF TraceInv, PathOK, RunInv, StepOK
<1>3. SpokenOf(k) = SpokenByDirect(k) /\ ~ OnStack /\ Run.intent # "economy" /\ \A i : Name(i) = tries[i].backend
  BY DEF SpokenOf, OnStack, Name
<1>4. CASE tries[k].outcome = "completed"
  <2>1. CASE k = 1
    <3>1. SpokenOf(k) = Told(Null, Null, FALSE)
      BY <1>3, <1>4, <2>1 DEF SpokenByDirect, Untold
    <3>8. SpokenOf(k).from = Null /\ SpokenOf(k).to = Null /\ SpokenOf(k).final = FALSE
      BY <3>1 DEF Told
    <3> QED
      BY <1>3, <1>4, <2>1, <3>8 DEF TellsRightly
  <2>2. CASE k # 1
    <3>1. SpokenOf(k) = Told(tries[k - 1].backend, tries[k].backend, FALSE)
      BY <1>3, <1>4, <2>2 DEF SpokenByDirect
    <3>8. SpokenOf(k).from = tries[k - 1].backend /\ SpokenOf(k).to = tries[k].backend /\ SpokenOf(k).final = FALSE
      BY <3>1 DEF Told
    <3> QED
      BY <1>3, <1>4, <3>8 DEF TellsRightly
  <2> QED
    BY <2>1, <2>2
<1>5. CASE tries[k].outcome # "completed" /\ Follows(k)
  <2>1. SpokenOf(k) = Told(tries[k].backend, ladderAfter(tries[k].backend), FALSE)
    BY <1>3, <1>5 DEF SpokenByDirect
  <2>8. SpokenOf(k).from = tries[k].backend /\ SpokenOf(k).to = ladderAfter(tries[k].backend) /\ SpokenOf(k).final = FALSE
    BY <2>1 DEF Told
  <2> QED
    BY <1>1, <1>2, <1>3, <1>5, <2>8 DEF TellsRightly
<1>6. CASE tries[k].outcome # "completed" /\ ~ Follows(k)
  <2>1. SpokenOf(k) = Told(Null, Null, TRUE)
    BY <1>3, <1>6 DEF SpokenByDirect
  <2>2. k = n
    BY <1>1, <1>2, <1>6
  <2>8. SpokenOf(k).from = Null /\ SpokenOf(k).to = Null /\ SpokenOf(k).final = TRUE
    BY <2>1 DEF Told
  <2> QED
    BY <1>2, <1>3, <1>6, <2>2, <2>8 DEF TellsRightly
<1> QED
  BY <1>4, <1>5, <1>6

LEMMA StackTruth ==
  ASSUME RunInv, TraceInv, NEW n, n = Len(tries), NEW k \in 1..n, OnStack
  PROVE  TellsRightly(SpokenOf(k), k)
<1>1. n \in Nat /\ Run.intent \in {"explicit", "automatic"}
  BY Counts DEF TraceInv, OnStack
<1>2. k < n => ~ HardStop(tries[k])
  <2> SUFFICES ASSUME k < n PROVE ~ HardStop(tries[k])
    OBVIOUS
  <2>1. GoesOn(k)
    BY DEF RunInv, TriesOK
  <2> QED
    BY <1>1, <2>1 DEF GoesOn, HardStop, isRetryableDisposition
<1>3. SpokenOf(k) = SpokenByStack(k) /\ \A i : Name(i) = tries[i].stableId
  BY <1>1 DEF SpokenOf, Name
<1>4. CASE k = 1
  <2>1. SpokenOf(k) = Told(Null, Null, HardStop(tries[k]))
    BY <1>3, <1>4 DEF SpokenByStack
  <2> QED
    BY <1>1, <1>2, <1>4, <2>1, ToldFields DEF TellsRightly
<1>5. CASE k # 1
  <2>1. SpokenOf(k) = Told(tries[k - 1].stableId, tries[k].stableId, HardStop(tries[k]))
    BY <1>3, <1>5 DEF SpokenByStack
  <2> QED
    BY <1>1, <1>2, <1>3, <2>1, ToldFields DEF TellsRightly
<1> QED
  BY <1>4, <1>5

(* The theorems. *)

LEMMA RunInvariance == RunSpec => [](RunInv /\ TraceInv)
<1>1. RunInit => RunInv
  BY InitRunInv
<1>2. RunInit => TraceInv
  BY NothingTold DEF RunInit, AtWork
<1>3. RunInv /\ [RunNext]_allVars => RunInv'
  BY RunStep
<1>4. RunInv /\ RunInv' /\ TraceInv /\ [RunNext]_allVars => TraceInv'
  BY TraceStep
<1> QED
  BY <1>1, <1>2, <1>3, <1>4, PTL DEF RunSpec

\* Whatever the command line, the keys, the policy and the outcomes of the workers
\* (executeRun): each attempt of a run names the one before it, follows from its failure
\* to where that failure pointed, and never comes back to a rung or a model that failed;
\* a worker stopped at its duration budget ends the run.
THEOREM RunInvariantHolds == RunSpec => []RunInvariant
<1>1. RunInv /\ TraceInv => RunInvariant
  <2> SUFFICES ASSUME RunInv, TraceInv PROVE RunInvariant
    OBVIOUS
  <2>0. PICK n : n = Len(tries)
    OBVIOUS
  <2>1. n \in Nat /\ DOMAIN tries = 1..n /\ (n > 0 => step # "idle")
    BY <2>0 DEF RunInv, TriesOK, StepOK
  <2>2. \A k \in 1..n : TryTyped(k) /\ Judged(k) /\ (k < n => GoesOn(k))
    BY <2>0 DEF RunInv, TriesOK
  <2>3. \A j, k \in 1..n : j < k => Apart(j, k)
    BY <2>0 DEF RunInv, TriesOK
  <2>4. RunTypeOK
    <3>1. (\A i \in DOMAIN log : log[i].kind \in {"v1", "v2"}) /\ consumed.call \in Nat
      <4>1. /\ Emitted \in Nat /\ consumed = Account(Emitted) /\ log \in Seq(Elements(log))
            /\ \A i \in 1..Len(log) : log[i] = Entry(i)
        BY Counts DEF TraceInv, LogOK
      <4>2. consumed.call \in Nat
        BY <4>1 DEF Account, Nothing
      <4>3. DOMAIN log = 1..Len(log)
        BY <4>1
      <4>4. \A i : Entry(i).kind \in {"v1", "v2"}
        BY DEF Entry, TraceRecord, V2Record
      <4> QED
        BY <4>1, <4>2, <4>3, <4>4
    <3>2. step \in {"idle", "launch", "running", "record", "emit", "settle", "walk", "done"}
          /\ result \in {"none", "success", "failure", "rejected"}
      BY DEF RunInv, StepOK, AtWork
    <3> QED
      BY <2>1, <2>2, <3>1, <3>2 DEF RunTypeOK, TryTyped
  <2>5. AttemptsLinked
    <3>1. SUFFICES ASSUME NEW k \in 1..n
                   PROVE  tries[k].fallbackOf = k - 1 /\ (k > 1 => GoesOn(k - 1))
      BY <2>1 DEF AttemptsLinked, GoesOn
    <3>2. k > 1 => k - 1 \in 1..n /\ k - 1 < n
      BY <2>1
    <3> QED
      BY <2>2, <3>2 DEF TryTyped
  <2>6. NothingTriedTwice
    <3>1. n > 0 => input # {}
      BY <2>1, Started
    <3> QED
      BY <2>1, <2>3, <3>1 DEF NothingTriedTwice, Apart, OnStack
  <2>7. BudgetStopEndsRun
    <3>1. SUFFICES ASSUME NEW k \in 1..n, tries[k].outcome = "budget", k < n PROVE FALSE
      BY <2>0, <2>1 DEF BudgetStopEndsRun
    <3>2. tries[k].outage = Null /\ GoesOn(k)
      <4>1. tries[k].outage \in OutageReasons \cup {Null} /\ (tries[k].outage # Null => tries[k].outage = "budget")
        BY <2>2, <3>1 DEF TryTyped, Judged
      <4> QED
        BY <2>2, <3>1, <4>1 DEF OutageReasons
    <3>3. canonicalFailureDisposition(tries[k]) = Unclassified
      BY <3>1, <3>2 DEF canonicalFailureDisposition
    <3> QED
      BY <3>2, <3>3 DEF GoesOn, isRetryableDisposition, Unclassified, Disposition
  <2>8. HintIsNextTier
    <3>1. ASSUME NEW k \in 1..n PROVE tries[k].hint # Null => Run.intent = "direct"
      BY <2>2 DEF Judged
    <3>2. ASSUME NEW k \in 1..n, Run.intent = "direct", k < n PROVE tries[k].hint = tries[k + 1].backend
      <4>1. k + 1 \in 1..n /\ k < k + 1 /\ input # {}
        BY <2>1, <3>2, Started
      <4> QED
        BY <2>0, <3>2, <4>1 DEF RunInv, DirectOK
    <3> QED
      BY <2>0, <2>1, <3>1, <3>2 DEF HintIsNextTier
  <2> QED
    BY <2>4, <2>5, <2>6, <2>7, <2>8 DEF RunInvariant
<1> QED
  BY <1>1, RunInvariance, PTL

\* What parseArguments lets through is never refused by the engine: the economy route it
\* resolves is not in conflict with itself, and the stack it asks for is there.
THEOREM AcceptedNeverRejectedHolds == RunSpec => []AcceptedNeverRejected
<1>1. RunInv => AcceptedNeverRejected
  BY DEF RunInv
<1> QED
  BY <1>1, RunInvariance, PTL

\* Whichever transport a worker ends up on it gets no more than its contract allows: a
\* review may write nothing and an artifact is scoped where the transport can scope it.
\* Down every chain the policy ships and for every pinned alias, a stack or an economy
\* pair runs registered models, a pin is attempted once, and on a stack an effort is one
\* its model supports (runAttempt, engine.ts).
THEOREM DispatchedAsContractedHolds == RunSpec => []DispatchedAsContracted
<1>1. RunInv => DispatchedAsContracted
  <2> SUFFICES ASSUME RunInv PROVE DispatchedAsContracted
    OBVIOUS
  <2>0. PICK n : n = Len(tries)
    OBVIOUS
  <2>1. n \in Nat /\ DOMAIN tries = 1..n /\ (n > 0 => step # "idle") /\ \A k \in 1..n : Given(k)
    BY <2>0 DEF RunInv, TriesOK, StepOK, GivenOK
  <2>2. GrantsWithinContract
    BY <2>1 DEF GrantsWithinContract, Given
  <2>3. ASSUME Run.intent = "explicit", n > 1 PROVE FALSE
    <3>1. input # {} /\ DOMAIN request.rungs = {1}
      <4>1. step # "idle"
        BY <2>1, <2>3
      <4> QED
        BY <2>3, <4>1, Started, StackRequest
    <3>2. 1 \in 1..n /\ 2 \in 1..n
      BY <2>1, <2>3
    <3>3. \A k \in 1..n : \E i \in DOMAIN request.rungs : tries[k].rung = {i}
      BY <2>0, <2>3, <3>1 DEF RunInv, StackOK
    <3>4. tries[1].rung = {1} /\ tries[2].rung = {1}
      BY <3>1, <3>2, <3>3
    <3>5. Apart(1, 2)
      BY <2>0, <3>2 DEF RunInv, TriesOK
    <3> QED
      BY <2>3, <3>4, <3>5 DEF Apart
  <2>4. PinnedModelsHold
    BY <2>0, <2>1, <2>3 DEF PinnedModelsHold, Given
  <2>5. EffortSupported
    BY <2>1 DEF EffortSupported, OnStack, Given
  <2> QED
    BY <2>2, <2>4, <2>5 DEF DispatchedAsContracted
<1> QED
  BY <1>1, RunInvariance, PTL

\* At every moment a run may be cut off its traces tell it in order and as it went: each
\* attempt has one record and then one v2 record, both before the next begins; the v2
\* record counts the calls so far and one charge for the run, and the fallback it tells
\* of is the one the run takes, on the pair, on the stack and on the ladder (executeRun
\* and createRoutingTraceV2Emitter, engine.ts).
THEOREM TracesTellRunHolds == RunSpec => []TracesTellRun
<1>1. RunInv /\ TraceInv => TracesTellRun
  <2> SUFFICES ASSUME RunInv, TraceInv PROVE TracesTellRun
    OBVIOUS
  <2>1. PICK n, m : n = Len(tries) /\ m = Len(log)
    OBVIOUS
  <2>2. /\ n \in Nat /\ m \in Nat /\ m = 2 * n - Unrecorded /\ Unrecorded \in 0..2
        /\ DOMAIN log = 1..m /\ DOMAIN tries = 1..n
        /\ \A i \in 1..m : log[i] = Entry(i)
    BY <2>1, Counts DEF TraceInv, LogOK, RunInv, TriesOK
  <2>3. ASSUME NEW i \in 1..m
        PROVE  log[i].kind = (IF i % 2 = 1 THEN "v1" ELSE "v2") /\ log[i].try = (i + 1) \div 2
    <3>1. CASE i % 2 = 1
      BY <2>2, <3>1 DEF Entry, TraceRecord
    <3>2. CASE i % 2 # 1
      <4>1. i \div 2 = (i + 1) \div 2
        BY <2>2, <3>2
      <4> QED
        BY <2>2, <3>2, <4>1 DEF Entry, V2Record
    <3> QED
      BY <3>1, <3>2
  <2>4. m >= 2 * (n - 1) /\ m <= 2 * n /\ (result # "none" => m = 2 * n)
    <3>1. result # "none" => Unrecorded = 0
      BY DEF RunInv, StepOK, Unrecorded
    <3> QED
      BY <2>2, <3>1
  <2>5. ASSUME NEW k \in 1..n, 2 * k <= m PROVE TellsAttempt(log[2 * k], k)
    <3>1. k \in Nat \ {0} /\ 2 * k \in 1..m /\ k # 0
      BY <2>2, <2>5
    <3>2. log[2 * k] = V2Record(k, Account(k), SpokenOf(k))
      BY <2>2, <3>1, Halves DEF Entry
    <3>3. /\ log[2 * k].spent.call = k /\ log[2 * k].spent.cost = Reservation
          /\ log[2 * k].told = SpokenOf(k)
      <4>1. Account(k) = [call |-> k, cost |-> Reservation, reconciled |-> TRUE]
        BY <3>1 DEF Account
      <4> QED
        BY <3>2, <4>1 DEF V2Record
    <3>4. input # {} /\ Run.intent \in {"economy", "direct", "explicit", "automatic"}
      <4>1. step # "idle"
        BY <2>1, <2>2 DEF RunInv, StepOK
      <4> QED
        BY <4>1, Started DEF ArgsOK
    <3>5. TellsRightly(SpokenOf(k), k)
      BY <2>1, <3>4, EconomyTruth, DirectTruth, StackTruth DEF OnStack
    <3> QED
      BY <3>3, <3>5 DEF TellsAttempt, TellsRightly
  <2> QED
    BY <2>1, <2>2, <2>3, <2>4, <2>5 DEF TracesTellRun
<1> QED
  BY <1>1, RunInvariance, PTL

\* A run walks its stack as the traversal is specified (runFallbackTraversal): what holds
\* of every traversal, its retry budget and its order among it, holds of a run.
THEOREM RunWalks == RunSpec => Spec /\ []WalkInvariant /\ ImplementsOrderedWalk
<1>1. RunInit => Init
  BY DEF RunInit
<1>2. RunInv /\ [RunNext]_allVars => [Next]_walkVars
  BY RunStep
<1>3. RunSpec => Spec
  BY <1>1, <1>2, RunInvariance, PTL DEF RunSpec, Spec
<1> QED
  BY <1>3, WalkInvariantHolds, ImplementsOrderedWalkHolds, PTL
===============================================================================
