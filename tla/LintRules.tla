------------------------------ MODULE LintRules ------------------------------
(***************************************************************************)
(* What packlint makes of one manifest: the backend lint, the tiers as     *)
(* conformance.go scores them, and the findings of all four passes with    *)
(* their severities.  Pure operators over a manifest.                      *)
(*                                                                         *)
(* A manifest has as many fields as the rules look at.  Strings that are   *)
(* only compared are strings; a version is the sequence of the numbers     *)
(* between its dots and <<>> when the field is empty; a duration is the    *)
(* sequence of its amounts with their units; a recording rule is the set   *)
(* of the SLO IDs that occur in its name or its expression.  malformed     *)
(* stands for everything but the criticality that the schema refuses, and  *)
(* dangling for a reference that lint.Refs cannot resolve (PackManifest    *)
(* has that pass in full).                                                 *)
(***************************************************************************)
EXTENDS Naturals, Sequences, FiniteSets

CONSTANT knownProducts   \* the registry of products the MCP server can address

Tiers == {"tier-1", "tier-2", "tier-3"}

Version == Seq(Nat)

VersionSpec == [declared: Version, min: Version, max: Version, gating: STRING]

\* A reference is empty, external ("ref:...") or the ID of a backend.
Reference == [kind: {"empty", "external", "id"}, id: STRING]

Backend == [id: STRING, product: STRING, version: VersionSpec]

\* A signal block, or a mesh or collection component.
Component == [backend: Reference, product: STRING, version: VersionSpec]

\* ref holds the backend_ref of a storage block, if it has one.
StorageBlock == [product: STRING, version: VersionSpec, ref: SUBSET Reference]

SLI == [id: STRING, type: STRING]

\* binds: the IDs that the panels are bound to, without their prefixes.
Dashboard == [id: STRING, binds: SUBSET STRING]

Route == [severity: STRING, channels: SUBSET STRING]

Duration == Seq([n: Nat, unit: STRING])

SyntheticCheck == [interval: Duration, otel: BOOLEAN]

ChaosExperiment == [schedule: STRING, environment: STRING, hypothesis: BOOLEAN]

Pack ==
    [malformed: BOOLEAN, dangling: BOOLEAN,
     criticality: STRING,
     slis: SUBSET SLI, slos: Seq(STRING),
     receivers: SUBSET STRING, processors: SUBSET STRING,
     metrics: STRING, logs: STRING, traces: STRING,
     required: SUBSET STRING, semconv: Version, languages: SUBSET STRING,
     logCorrelation: BOOLEAN,
     records: SUBSET SUBSET STRING,
     views: SUBSET {"plain", "rollup"},
     dashboards: Seq(Dashboard),
     alerts: Seq(Seq(Nat)),           \* the factors of the windows of each
     forecasts: SUBSET STRING,
     routes: SUBSET Route,
     guardrails: Seq(Nat),            \* max_invocations_per_hour of each remediation
     p50: BOOLEAN, p95: BOOLEAN,
     gate: {"none", "warn", "block_release_if"},
     chaos: SUBSET ChaosExperiment, probes: SUBSET SyntheticCheck,
     backends: Seq(Backend), overlays: SUBSET Reference,
     components: SUBSET Component, storage: SUBSET StorageBlock]

Finding(severity, pass, code) == [severity |-> severity, pass |-> pass, code |-> code]

-----------------------------------------------------------------------------
(* lint.Schema and lint.Refs, as far as they decide the verdict. *)

Schema(m) ==
    IF m.malformed \/ m.criticality \notin Tiers
    THEN {Finding("error", "schema", "violation")} ELSE {}

Refs(m) ==
    IF m.dangling THEN {Finding("error", "refs", "unresolved")} ELSE {}

-----------------------------------------------------------------------------
(* lint.Backends *)

Component3(v, i) == IF i \in DOMAIN v THEN v[i] ELSE 0

\* Defective variant: a component decides whatever the ones before it say.
versionLTAnywhere(a, b) == \E i \in 1..3 : Component3(a, i) < Component3(b, i)

\* The first three components decide, missing ones are zero.
versionLT(a, b) ==
    \E i \in 1..3 :
        /\ Component3(a, i) < Component3(b, i)
        /\ \A j \in 1..(i - 1) : Component3(a, j) = Component3(b, j)

Broken(v) ==
    (IF v.min # <<>> /\ versionLT(v.declared, v.min) THEN {"below_min"} ELSE {})
    \cup
    (IF v.max # <<>> /\ versionLT(v.max, v.declared) THEN {"above_max"} ELSE {})

\* An absent gating mode warns.
evalVersion(v) ==
    {Finding(IF v.gating = "enforce" THEN "error" ELSE "warn", "versions", b) :
        b \in IF v.declared = <<>> \/ v.gating = "off" THEN {} ELSE Broken(v)}

checkProduct(product) ==
    IF product \in knownProducts \cup {""}
    THEN {} ELSE {Finding("warn", "registry", "unknown_product")}

resolveBackendRef(ref, ids) ==
    CASE ref.kind = "empty"    -> {Finding("error", "backends", "empty_ref")}
      [] ref.kind = "external" -> {Finding("info", "backends", "external")}
      [] ref.kind = "id"       ->
            IF ref.id \in ids THEN {} ELSE {Finding("error", "backends", "unresolved_ref")}

backendIDs(m) == {m.backends[i].id : i \in DOMAIN m.backends}

DuplicateIDs(m) ==
    {m.backends[i].id : i \in {j \in DOMAIN m.backends :
        \E k \in 1..(j - 1) : m.backends[k].id = m.backends[j].id}}

\* A storage block has no maximum version.
versionSpecs(m) ==
    {m.backends[i].version : i \in DOMAIN m.backends}
    \cup {c.version : c \in m.components}
    \cup {[s.version EXCEPT !.max = <<>>] : s \in m.storage}

products(m) ==
    {m.backends[i].product : i \in DOMAIN m.backends}
    \cup {c.product : c \in m.components} \cup {s.product : s \in m.storage}

\* An environment and a storage block may not leave a reference empty.
backendRefs(m) ==
    m.overlays
    \cup {r \in {c.backend : c \in m.components} : r.kind # "empty"}
    \cup (UNION {s.ref : s \in m.storage})

Backends(m) ==
    {Finding("error", "backends", "duplicate_id") : id \in DuplicateIDs(m)}
    \cup (UNION {evalVersion(v) : v \in versionSpecs(m)})
    \cup (UNION {checkProduct(p) : p \in products(m)})
    \cup (UNION {resolveBackendRef(r, backendIDs(m)) : r \in backendRefs(m)})

-----------------------------------------------------------------------------
(* lint.Conformance: the clauses of each tier *)

Check(id, pass) == [id |-> id, pass |-> pass]

\* The first dashboard of that ID, if there is one.
findDashboard(m, id) ==
    {m.dashboards[i] : i \in {j \in DOMAIN m.dashboards :
        /\ m.dashboards[j].id = id
        /\ \A k \in 1..(j - 1) : m.dashboards[k].id # id}}

sloIDs(m) == {m.slos[i] : i \in DOMAIN m.slos}

scoreTier3(m) ==
    {Check("3.1",  m.slis # {} /\ m.slos # <<>>),
     Check("3.2",  m.receivers \cap {"otlp", "prometheus"} # {}),
     Check("3.2b", "service.name" \in m.required),
     Check("3.3",  TRUE),
     Check("3.4",  sloIDs(m) \subseteq UNION m.records),
     Check("3.5",  \E d \in findDashboard(m, "service-overview") :
                       \A s \in m.slis : s.id \in d.binds),
     Check("3.6",  Len(m.alerts) >= Len(m.slos)),
     Check("3.7",  \E r \in m.routes : /\ r.severity \in {"SEV1", "SEV2", "SEV3"}
                                       /\ "msteams" \in r.channels),
     Check("3.8",  TRUE),
     Check("3.9",  m.p50),
     Check("3.10", m.probes # {})}

\* MAJOR.MINOR.PATCH, or it does not compare.
semverGTE(a, b) == Len(a) = 3 /\ Len(b) = 3 /\ ~versionLT(a, b)

MultiWindow(factors) ==
    /\ Len(factors) >= 2
    /\ Cardinality({factors[i] : i \in DOMAIN factors}) >= 2

OnSEV1(m, channels) ==
    \E r \in m.routes : r.severity = "SEV1" /\ channels \subseteq r.channels

scoreTier2(m) ==
    {Check("2.1",  \E s \in m.slis : s.type \in {"threshold", "distribution"}),
     Check("2.2",  m.metrics = "prometheusremotewrite"),
     Check("2.2b", semverGTE(m.semconv, <<1, 26, 0>>) /\ m.languages # {}),
     Check("2.3",  m.views # {}),
     Check("2.4",  findDashboard(m, "slo-burn") # {}),
     Check("2.5",  /\ m.alerts # <<>>
                   /\ \A i \in DOMAIN m.alerts : MultiWindow(m.alerts[i])),
     Check("2.6",  OnSEV1(m, {"voice"})),
     Check("2.7",  m.gate # "none"),
     Check("2.8",  \E e \in m.chaos : /\ e.schedule \in {"monthly", "weekly", "daily"}
                                      /\ e.hypothesis)}

\* "1m", or up to 60 seconds in one amount; whatever ends in a smaller unit.
isDurationLEMinute(d) ==
    /\ d # <<>>
    /\ \/ d = <<[n |-> 1, unit |-> "m"]>>
       \/ Len(d) = 1 /\ d[1].unit = "s" /\ d[1].n <= 60
       \/ d[Len(d)].unit \in {"ms", "us", "ns"}

scoreTier1(m) ==
    {Check("1.1",  Cardinality({s.type : s \in m.slis}) >= 3),
     Check("1.2",  /\ m.logs = "elasticsearch" /\ m.traces = "elasticsearch"
                   /\ "tail_sampling" \in m.processors),
     Check("1.2b", /\ m.semconv = <<1, 27, 0>> /\ m.logCorrelation
                   /\ Cardinality(m.required) >= 5),
     Check("1.2c", \E s \in m.probes : s.otel),
     Check("1.3",  "rollup" \in m.views),
     Check("1.4",  /\ findDashboard(m, "deployment") # {}
                   /\ findDashboard(m, "customer-impact") # {}),
     Check("1.5",  m.forecasts # {}),
     Check("1.6",  \E third \in {"whatsapp", "email", "webhook"} :
                       OnSEV1(m, {"msteams", "voice", third})),
     Check("1.7",  /\ m.guardrails # <<>>
                   /\ \A i \in DOMAIN m.guardrails : m.guardrails[i] >= 1),
     Check("1.8",  m.gate = "block_release_if" /\ m.p95),
     Check("1.9",  \E e \in m.chaos : e.schedule = "weekly" /\ e.environment = "prod"),
     Check("1.10", \E s \in m.probes : isDurationLEMinute(s.interval))}

-----------------------------------------------------------------------------
(* lint.Conformance: target, findings and the tier reached *)

allPass(checks) == \A c \in checks : c.pass

\* Defective variant: tier-1 is reached whatever its tier-2 clauses say.
reachedTierSkips(tier3, tier2, tier1) ==
    CASE ~allPass(tier3) -> "none"
      [] allPass(tier3) /\ tier1 # {} /\ allPass(tier1) -> "tier-1"
      [] allPass(tier3) /\ tier1 = {} -> IF allPass(tier2) THEN "tier-2" ELSE "tier-3"
      [] allPass(tier3) /\ tier1 # {} /\ ~allPass(tier1) -> "tier-3"

reachedTier(tier3, tier2, tier1) ==
    LET t3 == allPass(tier3)
        t2 == tier2 # {} /\ allPass(tier2)
        t1 == tier1 # {} /\ allPass(tier1)
    IN  CASE t3 /\ t2 /\ t1  -> "tier-1"
          [] t3 /\ t2 /\ ~t1 -> "tier-2"
          [] t3 /\ ~t2       -> "tier-3"
          [] ~t3             -> "none"

\* Defective variant: the strictest tier has the highest rank.
tierRankReversed(t) ==
    CASE t = "tier-1" -> 3 [] t = "tier-2" -> 2 [] t \notin {"tier-1", "tier-2"} -> 1

tierRank(t) ==
    CASE t = "tier-1" -> 1 [] t = "tier-2" -> 2 [] t \notin {"tier-1", "tier-2"} -> 3

\* A failure at a tier above the target would be informational.
emitFindings(checks, tier, target) ==
    {Finding(IF tierRank(tier) < tierRank(target) THEN "info" ELSE "error", tier, c.id) :
        c \in {d \in checks : ~d.pass}}

TierTarget(m) == IF m.criticality = "" THEN "tier-3" ELSE m.criticality

Tier3(m) == scoreTier3(m)

Tier2(m) == IF TierTarget(m) \in {"tier-2", "tier-1"} THEN scoreTier2(m) ELSE {}

Tier1(m) == IF TierTarget(m) = "tier-1" THEN scoreTier1(m) ELSE {}

TierReached(m) == reachedTier(Tier3(m), Tier2(m), Tier1(m))

Conformance(m) ==
    emitFindings(Tier3(m), "tier-3", TierTarget(m))
    \cup emitFindings(Tier2(m), "tier-2", TierTarget(m))
    \cup emitFindings(Tier1(m), "tier-1", TierTarget(m))

Findings(m) == Schema(m) \cup Refs(m) \cup Backends(m) \cup Conformance(m)

HasErrors(findings) == \E f \in findings : f.severity = "error"
=============================================================================
