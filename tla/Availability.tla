---------------------------- MODULE Availability -----------------------------
(***************************************************************************)
(* What is known of backends and quota pools at one moment, assembled from *)
(* observations of failed attempts (availability.ts of routing-core).      *)
(* A remainder is a set: empty when the provider does not expose it.       *)
(***************************************************************************)
EXTENDS RoutingVocabulary, Integers

\* The part of a pool that is left, in steps of a half.
Whole == 2
Observation(backend, class, at) == [backend |-> backend, class |-> class, at |-> at]
QuotaObservation(pool, left, resetsAt, at) ==
  [pool |-> pool, left |-> left, resetsAt |-> resetsAt, at |-> at]

\* A terminal class describes the request and says nothing of the backend.
backendStateFor(class) ==
  CASE class \in {"rate_limit", "quota_exhausted", "provider_outage", "missing_binary"} -> "unavailable"
    [] class \in {"timeout", "transient_network_or_adapter"} -> "degraded"
    [] OTHER -> Null

recordAvailabilityObservation(observations, observation) ==
  IF backendStateFor(observation.class) = Null THEN observations ELSE observations \cup {observation}

Fresh(observation, nowMs, windowMs) == observation.at > nowMs - windowMs

\* The newest observation speaks; of two as new, the more severe.
moreAuthoritative(a, b) ==
  IF a.at # b.at THEN a.at > b.at
  ELSE backendStateFor(a.class) = "unavailable" /\ backendStateFor(b.class) = "degraded"
preferQuota(a, b) ==
  IF a.at # b.at THEN a.at > b.at
  ELSE IF a.left = {} THEN FALSE
  ELSE IF b.left = {} THEN TRUE
  ELSE \E x \in a.left, y \in b.left : x < y

Authority(seen) == CHOOSE o \in seen : \A p \in seen : ~ moreAuthoritative(p, o)
QuotaAuthority(seen) == CHOOSE o \in seen : \A p \in seen : ~ preferQuota(p, o)

\* backends: "unknown" where nothing fresh was seen; quota: what is left of each
\* pool.  A remainder that is stale or was reset since says nothing.
buildAvailabilityView(observations, quotas, nowMs, windowMs) ==
  [backends |->
     [b \in Backends |->
        LET usable == {o \in observations :
                         o.backend = b /\ Fresh(o, nowMs, windowMs) /\ backendStateFor(o.class) # Null}
        IN  IF usable = {} THEN "unknown" ELSE backendStateFor(Authority(usable).class)],
   quota |->
     [p \in {o.pool : o \in quotas} |->
        LET usable == {o \in quotas :
                         /\ o.pool = p /\ Fresh(o, nowMs, windowMs)
                         /\ \A r \in o.resetsAt : nowMs < r}
        IN  IF usable = {} THEN {} ELSE QuotaAuthority(usable).left]]

leftIn(view, pool) == IF pool \in DOMAIN view.quota THEN view.quota[pool] ELSE {}
\* Ordering input only: an unobservable remainder is no reason to sort last.
quotaPreference(view, pool) ==
  IF leftIn(view, pool) = {} THEN Whole ELSE CHOOSE n \in leftIn(view, pool) : TRUE
==============================================================================
