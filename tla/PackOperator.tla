---------------------------- MODULE PackOperator ----------------------------
(***************************************************************************)
(* The pure core: operator.Reconcile with the planner, the renderers and   *)
(* the Azure request builder it calls.  Given the spec of a Pack it either *)
(* fails, blocks the pack, or yields the objects to apply (Kubernetes      *)
(* targets) or a pipeline request (azure), and the hash of the plan.       *)
(*                                                                         *)
(* A spec is a record                                                      *)
(*   target      "ske", "bare-k8s" or "azure", as the CRD's enum allows    *)
(*   namespace   spec.namespace, "" when the Pack does not set it          *)
(*   pipeline    whether azurePipeline.pipeline is there and not empty     *)
(*   manifest    parses      the JSON fits the Go types of pack.Pack       *)
(*               refsOK      lint.Refs reports no error finding            *)
(*               name        metadata.name, "" when it is missing          *)
(*               dashboards  the IDs of spec.dashboards, in order          *)
(*               body        a value for all else the plan is built from   *)
(***************************************************************************)
EXTENDS Naturals, Sequences, FiniteSets

CONSTANTS
    Specs,          \* the specs users may write
    PackNamespace   \* metadata.namespace of the Pack

Targets == {"ske", "bare-k8s", "azure"}

\* A pack that could not be parsed has no meaningful references or name.
ParseFails(s) == ~s.manifest.parses

\* The reference check runs before planning: a pack with both a dangling
\* reference and a missing name is blocked, not failed.
RefsBlock(s) == s.manifest.parses /\ ~s.manifest.refsOK

PlanFails(s) ==
    \/ s.manifest.name = ""
    \/ s.target = "azure" /\ ~s.pipeline

Verdict(s) ==
    CASE ParseFails(s) -> "error"
      [] RefsBlock(s)  -> "blocked"
      [] ~ParseFails(s) /\ ~RefsBlock(s) /\ PlanFails(s)  -> "error"
      [] ~ParseFails(s) /\ ~RefsBlock(s) /\ ~PlanFails(s) -> "ok"

Verdicts == {"ok", "blocked", "error"}

\* The namespace the in-cluster objects land in.
TargetNamespace(s) == IF s.namespace = "" THEN PackNamespace ELSE s.namespace

Object(s, kind, id) ==
    [kind |-> kind, namespace |-> TargetNamespace(s), id |-> id]

Prometheus(s) == Object(s, "PrometheusRule", <<s.manifest.name>>)

Grafana(s) ==
    [i \in 1..Len(s.manifest.dashboards) |->
        Object(s, "GrafanaDashboard",
               <<s.manifest.name, s.manifest.dashboards[i]>>)]

OTel(s) ==
    Object(s, "OpenTelemetryCollector", <<s.manifest.name, "gateway">>)

\* What a pass applies, in the order it applies it.
Rendered(s) == <<Prometheus(s)>> \o Grafana(s) \o <<OTel(s)>>

RenderedObjects(s) == {Rendered(s)[i] : i \in 1..Len(Rendered(s))}

\* A list with its order forgotten.
Sorted(list) ==
    [x \in {list[i] : i \in 1..Len(list)} |->
        Cardinality({i \in 1..Len(list) : list[i] = x})]

\* The digest of the plan.  It sorts the dashboards, so their order does not
\* count, but for azure the plan carries the raw manifest, where it does.  The
\* namespace is not part of the plan.
PlanHash(s) ==
    <<s.manifest.name, s.manifest.body, s.target,
      Sorted(s.manifest.dashboards),
      IF s.target = "azure" THEN s.manifest.dashboards ELSE <<>> >>

NoHash  == <<>>
PlanHashes == {PlanHash(s) : s \in Specs}

toolFromKind(kind) ==
    CASE kind = "PrometheusRule"         -> "prometheus"
      [] kind = "GrafanaDashboard"       -> "grafana"
      [] kind = "OpenTelemetryCollector" -> "otel"

Kinds == {"PrometheusRule", "GrafanaDashboard", "OpenTelemetryCollector"}

OnKubernetes(s) == s.target \in {"ske", "bare-k8s"}
=============================================================================
