------------------------- MODULE CapabilitySelection -------------------------
(***************************************************************************)
(* select() of selection.ts: the rungs of a registry ordered by what a     *)
(* capability snapshot measured of them, within a floor, a ceiling, a      *)
(* budget and an availability view; and the floor a stack implies          *)
(* (capability-floor.ts).  What may be unknown is a set of at most one     *)
(* value: {} is "not measured", "not priced", "no ceiling".                *)
(***************************************************************************)
EXTENDS ModelRegistry, Availability

MAX_CAPABILITY_BAND == 4
Axes == {"swe", "agentic-edit", "taste", "long-context"}
BENCHMARK_AXIS_AUTHORITY == [s \in {"deepswe", "cursorbench"} |->
                               IF s = "deepswe" THEN "swe" ELSE "agentic-edit"]
Benchmarks == DOMAIN BENCHMARK_AXIS_AUTHORITY
axisForCapabilityRoute(route) ==
  CASE route = TASTE -> "taste" [] route = IMPLEMENT -> "agentic-edit" [] OTHER -> "swe"

(* capability-snapshot.ts.  Scores, margins and widths are in tenths. *)

PerfectScore == 10
Measurement(axis, source, score, margin, expiresAt) ==
  [axis |-> axis, source |-> source, score |-> score, margin |-> margin, expiresAt |-> expiresAt]
\* rows: rung id -> its measurements, cost prior and quota pool
Snapshot(bandWidth, rows) == [bandWidth |-> bandWidth, rows |-> rows]
Row(measurements, usd, pool) == [measurements |-> measurements, usd |-> usd, pool |-> pool]
NoRow == Row({}, {}, Null)
emptyCapabilitySnapshot == Snapshot(3, [r \in {} |-> NoRow])
rowFor(snapshot, rung) == IF rung \in DOMAIN snapshot.rows THEN snapshot.rows[rung] ELSE NoRow

\* A benchmark speaks for its own axis before an editor does; two rows at the
\* same precedence are a conflict, and nothing is known.
measurementForSnapshotEntry(row, axis) ==
  LET onAxis == {m \in row.measurements : m.axis = axis}
      authoritative == {m \in onAxis : m.source \in Benchmarks /\ BENCHMARK_AXIS_AUTHORITY[m.source] = axis}
      tier == IF authoritative # {} THEN authoritative ELSE onAxis
  IN  IF Cardinality(tier) = 1 THEN tier ELSE {}

bandFor(score, bandWidth) == score \div bandWidth
clampBand(band) == IF band > MAX_CAPABILITY_BAND THEN MAX_CAPABILITY_BAND ELSE band
bandForSnapshotEntry(row, axis, bandWidth) ==
  {clampBand(bandFor(m.score, bandWidth)) : m \in measurementForSnapshotEntry(row, axis)}

anyMeasurementExpired(snapshot, nowMs) ==
  \E r \in DOMAIN snapshot.rows : \E m \in snapshot.rows[r].measurements : m.expiresAt < nowMs

\* The semantic rules of validateCapabilitySnapshot.
MeasurementErrors(m, nowMs) ==
  (IF m.expiresAt < nowMs THEN {"MEASUREMENT_EXPIRED"} ELSE {})
  \cup (IF m.score > PerfectScore THEN {"MALFORMED"} ELSE {})
  \cup (IF m.source \in Benchmarks /\ BENCHMARK_AXIS_AUTHORITY[m.source] # m.axis
        THEN {"BENCHMARK_AXIS_MISMATCH"} ELSE {})
validateCapabilitySnapshot(snapshot, registry, nowMs) ==
  LET all == UNION {snapshot.rows[r].measurements : r \in DOMAIN snapshot.rows}
  IN  UNION {MeasurementErrors(m, nowMs) : m \in all}
      \cup UNION {IF ~ Known(registry, r[1]) THEN {"UNKNOWN_STABLE_ID"}
                  ELSE IF r[2] \notin selectableEffortsFor(registryIndex(registry, r[1]))
                  THEN {"EFFORT_UNSUPPORTED"} ELSE {} : r \in DOMAIN snapshot.rows}
      \cup (IF \E m \in all : snapshot.bandWidth < 2 * m.margin
            THEN {"BAND_WIDTH_BELOW_NOISE_FLOOR"} ELSE {})
      \cup (IF bandFor(PerfectScore, snapshot.bandWidth) > MAX_CAPABILITY_BAND
            THEN {"BAND_WIDTH_EXCEEDS_BAND_RANGE"} ELSE {})

(* capability-floor.ts *)

rungsFor(entry) == {<<entry.stableId, e>> : e \in selectableEffortsFor(entry)}

\* The bands of the lead's measured rungs: any of them may be what runs.
bandedRungsFor(stableId, axis, snapshot, registry) ==
  UNION {bandForSnapshotEntry(rowFor(snapshot, r), axis, snapshot.bandWidth) :
           r \in IF Known(registry, stableId) THEN rungsFor(registryIndex(registry, stableId)) ELSE {}}
LowestOf(bands) == CHOOSE b \in bands : \A c \in bands : b <= c
HighestOf(bands) == CHOOSE b \in bands : \A c \in bands : b >= c

Floor(capability, minimum, ceiling) ==
  [capabilityFloor |-> capability, minimumFloor |-> minimum, bandCeiling |-> ceiling]
\* The lowest measured band of the lead, which an automatic stack may go below
\* and a pin may not; a pin may not go above the highest either.
deriveFloor(stack, axis, snapshot, registry) ==
  LET bands == bandedRungsFor(stack.rungs[1].stableId, axis, snapshot, registry)
      lowest == IF bands = {} THEN 0 ELSE LowestOf(bands)
  IN  Floor(lowest, IF stack.automaticFallback THEN 0 ELSE lowest,
            IF stack.automaticFallback \/ bands = {} THEN {} ELSE {HighestOf(bands)})

(* selection.ts *)

dispatchBackendFor(entry) == IF entry.transportBackend \in NoBackend THEN Null ELSE entry.transportBackend

\* incumbent: the backend that leads the authored stack, {} when none does.
deriveLeadPolicy(stack, registry) ==
  {dispatchBackendFor(registryIndex(registry, stack.rungs[1].stableId))} \ {Null}

\* override: {} or one [stableId, efforts], efforts empty when any will do.
SelectionRequest(route, floor, override, excludedRung, excludedStableId, incumbent) ==
  [route |-> route, axis |-> axisForCapabilityRoute(route), floor |-> floor, override |-> override,
   excludedRung |-> excludedRung, excludedStableId |-> excludedStableId, incumbent |-> incumbent]

\* key: rung ids in their order.  The model lists a registry in id order.
Efforts6 == <<"high", "low", "max", "medium", "none", "xhigh">>
Candidates(registry, snapshot, axis) ==
  {[rung |-> <<registry[k[1]].stableId, Efforts6[k[2]]>>, key |-> 6 * k[1] + k[2],
    entry |-> registry[k[1]], backend |-> dispatchBackendFor(registry[k[1]]),
    row |-> rowFor(snapshot, <<registry[k[1]].stableId, Efforts6[k[2]]>>),
    band |-> bandForSnapshotEntry(rowFor(snapshot, <<registry[k[1]].stableId, Efforts6[k[2]]>>),
                                  axis, snapshot.bandWidth)] :
     k \in {j \in (DOMAIN registry) \X (1..6) : Efforts6[j[2]] \in selectableEffortsFor(registry[j[1]])}}

\* Step 2: registry facts and availability only, no score.
rejectionOf(c, request, view) ==
  LET contract == CAPABILITY_ROUTES[request.route]
  IN  CASE c.rung \in request.excludedRung \/ c.rung[1] \in request.excludedStableId -> "excluded-rung"
        [] c.entry.maturity \notin RunnableMaturities -> "maturity-not-runnable"
        [] c.entry.roleRestriction # Null -> "role-restricted"
        [] request.route \notin c.entry.routeEligibility -> "route-ineligible"
        [] contract.sandbox \notin c.entry.sandboxPermissionSupport -> "sandbox-unsupported"
        [] contract.outputContract \notin c.entry.outputContracts -> "output-contract-unsupported"
        [] c.backend = Null -> "backend-unavailable"
        [] c.backend # Null /\ view.backends[c.backend] = "unavailable" -> "backend-unavailable"
        [] c.row.pool # Null /\ leftIn(view, c.row.pool) = {0} -> "quota-pool-exhausted"
        [] OTHER -> "eligible"

\* Bands first, then cost, then what is left of the pool, then the rung id; an
\* unmeasured rung sorts behind every measured one, an unpriced one likewise.
Precedes(a, b, view) ==
  IF a.band # b.band
  THEN IF a.band = {} \/ b.band = {} THEN b.band = {} ELSE \E x \in a.band, y \in b.band : x > y
  ELSE IF a.row.usd # b.row.usd
  THEN IF a.row.usd = {} \/ b.row.usd = {} THEN b.row.usd = {}
       ELSE \E x \in a.row.usd, y \in b.row.usd : x < y
  ELSE LET qa == quotaPreference(view, a.row.pool)
           qb == quotaPreference(view, b.row.pool)
       IN  IF qa # qb THEN qa > qb ELSE a.key < b.key
InOrder(candidates, view) ==
  [i \in 1..Cardinality(candidates) |->
     CHOOSE c \in candidates : Cardinality({d \in candidates : Precedes(d, c, view)}) = i - 1]

\* Steps 4 and 6 at one floor.  An unmeasured rung has no band to compare, and an
\* unpriced one no cost.
aboveCeiling(c, request) == \E b \in c.band, top \in request.floor.bandCeiling : b > top
belowFloor(c, floor) == \E b \in c.band : b < floor
withinBounds(eligible, request, floor) ==
  {c \in eligible : ~ aboveCeiling(c, request) /\ ~ belowFloor(c, floor)}
dominates(a, b) ==
  /\ a.rung # b.rung
  /\ \E x \in a.band, y \in b.band, p \in a.row.usd, q \in b.row.usd :
       x >= y /\ p <= q /\ (x > y \/ p < q)
dominatedIn(bounded) == {b \in bounded : \E a \in bounded : dominates(a, b)}
affordableIn(candidates, cost) == {c \in candidates : \A p \in c.row.usd : p <= cost}
evaluateAtFloor(eligible, request, floor, cost) ==
  LET bounded == withinBounds(eligible, request, floor)
  IN  [pruned |-> dominatedIn(bounded),
       constrained |-> (bounded \ dominatedIn(bounded)) \ affordableIn(bounded, cost),
       affordable |-> affordableIn(bounded \ dominatedIn(bounded), cost),
       reinstatable |-> affordableIn(dominatedIn(bounded), cost)]
\* Nothing was shown to reach a floor when every survivor is unmeasured.
satisfiesFloor(candidates, floor) ==
  IF floor = 0 THEN candidates # {} ELSE \E c \in candidates : c.band # {}
\* Lowered one band at a time, as far as the request lets it.
\* Slip: the floor is lowered once before it is looked at.
settledFloorLowered(eligible, request, cost) ==
  LET works == {f \in request.floor.minimumFloor..request.floor.capabilityFloor :
                  satisfiesFloor(evaluateAtFloor(eligible, request, f, cost).affordable, f)}
      lowered == works \ {request.floor.capabilityFloor}
  IN  IF lowered = {} THEN request.floor.minimumFloor ELSE HighestOf(lowered)
settledFloor(eligible, request, cost) ==
  LET works == {f \in request.floor.minimumFloor..request.floor.capabilityFloor :
                  satisfiesFloor(evaluateAtFloor(eligible, request, f, cost).affordable, f)}
  IN  IF works = {} THEN request.floor.minimumFloor ELSE HighestOf(works)

\* Step 7: only a strictly higher band may take the lead from the backend that
\* leads today.  What dominance pruned may come back to lead, nothing else may.
\* Slip: only what survived the pruning can lead.
bestSurvivorOnIncumbent(found, incumbent, view) ==
  LET onIncumbent == {c \in found.affordable : c.backend \in incumbent}
  IN  IF onIncumbent = {} THEN {} ELSE {InOrder(onIncumbent, view)[1]}
bestOnIncumbent(found, incumbent, view) ==
  LET onIncumbent == {c \in found.affordable \cup found.reinstatable : c.backend \in incumbent}
  IN  IF onIncumbent = {} THEN {} ELSE {InOrder(onIncumbent, view)[1]}
improvesBand(lead, best) == \E x \in lead.band, y \in best.band : x > y
enforceLeadCoherence(found, incumbent, view) ==
  LET ordered == InOrder(found.affordable, view)
      best == bestOnIncumbent(found, incumbent, view)
  IN  IF incumbent \subseteq {ordered[1].backend} \/ best = {} THEN ordered
      ELSE LET b == CHOOSE c \in best : TRUE
           IN  IF improvesBand(ordered[1], b) THEN ordered
               ELSE <<b>> \o InOrder({c \in found.affordable : c.rung # b.rung}, view)

NoFindings == [pruned |-> {}, constrained |-> {}, affordable |-> {}, reinstatable |-> {}]
Decision(outcome, reason, stack, floor, overridden, found) ==
  [outcome |-> outcome, reason |-> reason, stack |-> stack, effectiveFloor |-> floor,
   overrideApplied |-> overridden, found |-> found]
Refused(reason, floor, overridden) == Decision("refused", reason, <<>>, floor, overridden, NoFindings)

eligibleIn(request, registry, snapshot, view) ==
  {c \in Candidates(registry, snapshot, request.axis) : rejectionOf(c, request, view) = "eligible"}
overrideMatches(request, eligible) ==
  {c \in eligible : \E o \in request.override :
     c.rung[1] = o.stableId /\ (o.efforts = {} \/ c.rung[2] \in o.efforts)}

selectRanked(request, eligible, cost, view) ==
  LET floor == settledFloor(eligible, request, cost)
      found == evaluateAtFloor(eligible, request, floor, cost)
  IN  IF ~ satisfiesFloor(found.affordable, floor)
      THEN Refused(IF found.constrained # {} THEN "floor-unreachable-in-budget" ELSE "no-eligible-rung",
                   floor, FALSE)
      ELSE Decision("selected", Null, enforceLeadCoherence(found, request.incumbent, view), floor, FALSE, found)

\* An override bypasses order, bands, price and budget, never eligibility.
select(request, registry, snapshot, cost, view, nowMs) ==
  LET asked == request.floor.capabilityFloor
      eligible == eligibleIn(request, registry, snapshot, view)
      wanted == overrideMatches(request, eligible)
  IN  IF anyMeasurementExpired(snapshot, nowMs) THEN Refused("snapshot-expired", asked, FALSE)
      ELSE IF eligible = {} THEN Refused("no-eligible-rung", asked, FALSE)
      ELSE IF request.override # {}
           THEN IF wanted = {} THEN Refused("override-ineligible", asked, TRUE)
                ELSE Decision("selected", Null, InOrder(wanted, view), asked, TRUE, NoFindings)
      ELSE IF cost <= 0 THEN Refused("budget-exhausted", asked, FALSE)
      ELSE selectRanked(request, eligible, cost, view)
==============================================================================
