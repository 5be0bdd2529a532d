---------------------------- MODULE PackManifest ----------------------------
(***************************************************************************)
(* From the manifest to what Prometheus gets: the reference lint, the      *)
(* planner, the hash and the rendered rules, while a user edits the        *)
(* manifest of a Pack with a Kubernetes target.                            *)
(*                                                                         *)
(* A manifest has                                                          *)
(*   slis        the set of SLI IDs                                        *)
(*   slos        the set of SLOs [id, sli]                                 *)
(*   alerts      the burn-rate alerts [slo, windows], in order             *)
(*   rules       the recording rules [name, expr], in order                *)
(*   attributes  the required resource attributes, in order                *)
(*   receivers   the receivers of the collector [name, config], in order   *)
(*   processors  its processors, likewise; "" when one has no name         *)
(*   forecasts   the references of policy.forecasts                        *)
(*   panels      the references of the dashboards' panel bindings          *)
(*   triggers    the remediation triggers [prefixed, name]                 *)
(*   expected    the alert names that chaos experiments expect             *)
(* A window is [short, long, factor] with durations that are sequences of  *)
(* characters; a character is its letter or digit and its form.  A         *)
(* reference is [kind, id], an alert name [slo, short, long] with the      *)
(* reference and the durations as they are spelled: "slos.x_burn_5m_1h" is *)
(* not "x_burn_5m_1h", nor is "x_burn_5m_1H".                              *)
(***************************************************************************)
EXTENDS Naturals, Sequences, FiniteSets

CONSTANT Manifests   \* the manifests a user may write

\* The kind of a reference tells how it is spelled: "slis" for "slis.x", "slos",
\* "other" for another prefix, "bare" for "x", "external" for "ref:...", "empty".
RefKinds == {"slis", "slos", "other", "bare", "external", "empty"}
Refs == [kind: RefKinds, id: STRING]
Bare(id) == [kind |-> "bare", id |-> id]

\* "plain": a small letter or a digit; "other": neither a letter nor a digit.
Characters == [sym: STRING, form: {"plain", "upper", "other"}]

BurnWindows == [short: Seq(Characters), long: Seq(Characters), factor: Nat]
BurnRateAlerts == [slo: Refs, windows: Seq(BurnWindows)]
RecordingRules == [name: STRING, expr: Nat]
Stages == [name: STRING, config: Nat]

\* The fields that the lint and the planner read, as pack.Load leaves them.
ASSUME ManifestsAssumption ==
    \A m \in Manifests :
        /\ m.rules \in Seq(RecordingRules)
        /\ m.alerts \in Seq(BurnRateAlerts)
        /\ m.attributes \in Seq(STRING)
        /\ m.receivers \in Seq(Stages)
        /\ m.processors \in Seq(Stages)

Elements(list) == {list[i] : i \in DOMAIN list}

-----------------------------------------------------------------------------
(* lint.Refs *)

\* Letters and digits are kept, in lower case.
sanitize(duration) ==
    LET kept == SelectSeq(duration, LAMBDA c : c.form # "other")
    IN  [i \in DOMAIN kept |-> [kept[i] EXCEPT !.form = "plain"]]

stripRef(ref) ==
    IF ref.kind \in {"slis", "slos", "other"} THEN Bare(ref.id) ELSE ref

burnAlertName(ref, w) ==
    [slo |-> stripRef(ref), short |-> sanitize(w.short), long |-> sanitize(w.long)]

\* Defective variant: an SLO is looked up among the SLIs too.
ResolvesAmongAll(m, ref, kind) ==
    \/ ref.kind \in {"bare", "slis"} /\ ref.id \in m.slis
    \/ ref.kind \in {"bare", "slos"} /\ ref.id \in {o.id : o \in m.slos}

Resolves(m, ref, kind) ==
    \/ /\ kind \in {"sli", "sli_or_slo"}
       /\ ref.kind \in {"bare", "slis"}
       /\ ref.id \in m.slis
    \/ /\ kind \in {"slo", "sli_or_slo"}
       /\ ref.kind \in {"bare", "slos"}
       /\ ref.id \in {o.id : o \in m.slos}

\* The severity of what checkRef reports, "none" if it reports nothing.
checkRef(m, ref, kind) ==
    CASE ref.kind = "empty"    -> "error"
      [] ref.kind = "external" -> "info"
      [] ref.kind \notin {"empty", "external"} ->
            IF Resolves(m, ref, kind) THEN "none" ELSE "error"

\* Every reference of the manifest, with the kind it has to resolve to.
References(m) ==
    {<<o.sli, "sli">> : o \in m.slos}
    \cup {<<a.slo, "slo">> : a \in Elements(m.alerts)}
    \cup {<<f, "slo">> : f \in m.forecasts}
    \cup {<<b, "sli_or_slo">> : b \in m.panels}

alertIDs(m) ==
    UNION {{burnAlertName(a.slo, w) : w \in Elements(a.windows)} :
              a \in Elements(m.alerts)}

BadTriggers(m) == {t \in m.triggers : ~t.prefixed}

\* Defective variant: the experiments' names are not looked up.
UnknownTriggers(m) == {t.name : t \in m.triggers \ BadTriggers(m)} \ alertIDs(m)

\* What is warned of: names the linter does not find among the alerts.
UnknownAlerts(m) ==
    ({t.name : t \in m.triggers \ BadTriggers(m)} \cup m.expected) \ alertIDs(m)

HasErrors(m) ==
    \/ \E r \in References(m) : checkRef(m, r[1], r[2]) = "error"
    \/ BadTriggers(m) # {}

-----------------------------------------------------------------------------
(* plan.Build and the renderer of rules *)

\* Where the windows are: the j-th one of the i-th alert is at <<i, j>>.
Places(m) == UNION {{i} \X DOMAIN m.alerts[i].windows : i \in DOMAIN m.alerts}

\* The outer loop goes over the alerts, the inner one over their windows.
NotAfter(q, r) == q[1] < r[1] \/ (q[1] = r[1] /\ q[2] <= r[2])
Visited(m, r) == {q \in Places(m) : NotAfter(q, r)}

AlertRule(a, w) ==
    [name   |-> [slo |-> a.slo, short |-> w.short, long |-> w.long],
     slo    |-> a.slo,
     factor |-> w.factor]

RuleAt(m, q) == AlertRule(m.alerts[q[1]], m.alerts[q[1]].windows[q[2]])

AlertRules(m) ==
    [k \in 1..Cardinality(Places(m)) |->
        RuleAt(m, CHOOSE q \in Places(m) : Cardinality(Visited(m, q)) = k)]

Plan(m) ==
    [rules |-> m.rules, alerts |-> AlertRules(m), attributes |-> m.attributes,
     receivers |-> m.receivers, processors |-> m.processors]

Named(list, n) == {i \in DOMAIN list : list[i].name = n}

\* A map filled from a list: of the elements of a name the last one stays, one
\* without a name is skipped.
LastByName(list) ==
    [n \in {x.name : x \in Elements(list)} \ {""} |->
        list[CHOOSE i \in Named(list, n) : \A j \in Named(list, n) : j <= i]]

\* A list sorted by name, where equal names keep their order (sort.Slice sorts
\* up to twelve elements by insertion): what is left of it is, for each name,
\* the elements of that name, the k-th being where k have been counted.
SortedByName(list) ==
    [n \in {x.name : x \in Elements(list)} |->
        [k \in 1..Cardinality(Named(list, n)) |->
            list[CHOOSE i \in Named(list, n) :
                    Cardinality(Named(list, n) \cap 1..i) = k]]]

Occurrences(list, x) == {i \in DOMAIN list : list[i] = x}

\* A list of strings sorted: how often each occurs.
Sorted(list) == [x \in Elements(list) |-> Cardinality(Occurrences(list, x))]

\* Defective variant: the attributes are hashed as they come.
hashPlanUnsorted(pl) ==
    <<SortedByName(pl.rules), SortedByName(pl.alerts), pl.attributes,
      pl.receivers, pl.processors>>

\* Defective variant: of the collector only the attributes are hashed.
hashPlanAttributesOnly(pl) ==
    <<SortedByName(pl.rules), SortedByName(pl.alerts), Sorted(pl.attributes)>>

\* Receivers and processors are hashed in their order.
hashPlan(pl) ==
    <<SortedByName(pl.rules), SortedByName(pl.alerts), Sorted(pl.attributes),
      pl.receivers, pl.processors>>

\* The group of rules and the collector's attributes, in the planned order, and
\* its receivers and processors, which are maps.
Rendered(m) ==
    [group      |-> Plan(m).rules \o Plan(m).alerts,
     attributes |-> Plan(m).attributes,
     receivers  |-> LastByName(Plan(m).receivers),
     processors |-> LastByName(Plan(m).processors)]

-----------------------------------------------------------------------------
VARIABLES
    manifest,   \* the manifest of the Pack
    applied     \* made of it last: the manifest, the content and its label

vars == <<manifest, applied>>

NoContent ==
    [group |-> <<>>, attributes |-> <<>>, receivers |-> <<>>, processors |-> <<>>]

Nothing == [from |-> {}, content |-> NoContent, hash |-> <<>>]

\* What is in the cluster once m has been reconciled.
Made(m) == [from |-> {m}, content |-> Rendered(m), hash |-> hashPlan(Plan(m))]

Init ==
    /\ manifest \in Manifests
    /\ applied = Nothing

Edit ==
    /\ manifest' \in Manifests \ {manifest}
    /\ UNCHANGED applied

\* Blocked: what was applied before stays.
ReconcileBlocked ==
    /\ HasErrors(manifest)
    /\ UNCHANGED vars

Reconcile ==
    /\ ~HasErrors(manifest)
    /\ applied' = Made(manifest)
    /\ UNCHANGED manifest

Next == Edit \/ ReconcileBlocked \/ Reconcile

Spec == Init /\ [][Next]_vars

-----------------------------------------------------------------------------
(***************************************************************************)
(* Properties.                                                             *)
(***************************************************************************)

Alerts == {r \in Elements(applied.content.group) : "slo" \in DOMAIN r}

\* Of an object that refs ID x: x is a bare word or follows the prefix.
Means(ref, prefix, id) == ref.kind \in {"bare", prefix} /\ ref.id = id

\* Whatever edits were blocked since, each alert in the cluster is on an SLO
\* whose SLI is declared, unless one of the two is imported (lint.Refs before
\* plan.Build in operator.Reconcile).
AlertsAreGrounded ==
    \A r \in Alerts : \A m \in applied.from :
        \/ r.slo.kind = "external"
        \/ \E o \in m.slos :
            /\ Means(r.slo, "slos", o.id)
            /\ \/ o.sli.kind = "external"
               \/ \E i \in m.slis : Means(o.sli, "slis", i)

NamesDiffer(list) == \A i, j \in DOMAIN list : list[i].name = list[j].name => i = j

RulesDiffer(m) == NamesDiffer(Plan(m).rules) /\ NamesDiffer(Plan(m).alerts)

SameInSomeOrder(x, y) ==
    /\ Sorted(x.group) = Sorted(y.group)
    /\ Sorted(x.attributes) = Sorted(y.attributes)
    /\ x.receivers = y.receivers
    /\ x.processors = y.processors

\* The lists that are hashed as they come are the same.
SameStages(m, n) == m.receivers = n.receivers /\ m.processors = n.processors

\* What is in the cluster under the hash of the current manifest is what that
\* renders, in some order: drift never hides behind an old label ("so adapters
\* can detect drift", plan.go:259), whatever rules share a name.
DriftIsSeen ==
    applied.from # {} /\ applied.hash = hashPlan(Plan(manifest))
        => SameInSomeOrder(applied.content, Rendered(manifest))

\* Nor is there a new label where rules, alerts or attributes have only changed
\* places, as long as no two of them share a name (hashPlan sorts what it hashes).
\* Receivers and processors are not sorted: theirs have to stay in place.
OrderIsNoDrift ==
    \A m \in applied.from :
        /\ RulesDiffer(m) /\ RulesDiffer(manifest)
        /\ SameStages(m, manifest)
        /\ SameInSomeOrder(applied.content, Rendered(manifest))
        => applied.hash = hashPlan(Plan(manifest))

\* The names a remediation or an experiment waits for.
Awaited(m) == {t.name : t \in m.triggers} \cup m.expected

\* The name of an alert in the cluster as the linter would spell it.
Respelled(r) ==
    burnAlertName(r.name.slo, [short |-> r.name.short, long |-> r.name.long])

\* The linter warns of a name exactly if no alert in the cluster goes by it in the
\* linter's spelling: it knows the alerts of every window of every reference,
\* however they are spelled, and overlooks no place a name is awaited at.
WarnedIffMissing ==
    \A m \in applied.from : \A n \in Awaited(m) :
        n \in UnknownAlerts(m) <=> \A r \in Alerts : Respelled(r) # n

\* refs.go:141-142, the linter's name "mirrors the convention emitted by the policy
\* renderer. Kept stable so triggers in spec.remediation can match": a name the
\* linter accepts is that of an alert in the cluster.  The planner neither strips
\* "slos." nor sanitizes durations.  Violated; the README says how.
SilenceMeansAlert ==
    \A m \in applied.from : \A n \in Awaited(m) \ UnknownAlerts(m) :
        \E r \in Alerts : r.name = n
=============================================================================
