------------------------------ MODULE MCPackLint ------------------------------
(***************************************************************************)
(* Manifests for PackLint: one that reaches tier-1, and that one with a    *)
(* single thing changed, each at every criticality.                        *)
(***************************************************************************)
EXTENDS PackLint

Known == {"prometheus", "jaeger"}

Unversioned == [declared |-> <<>>, min |-> <<>>, max |-> <<>>, gating |-> ""]

Ref(kind, id) == [kind |-> kind, id |-> id]
NoRef == Ref("empty", "")

Metrics == [id |-> "m", product |-> "prometheus", version |-> Unversioned]
Traces  == [id |-> "t", product |-> "jaeger", version |-> Unversioned]

Amount(n, unit) == [n |-> n, unit |-> unit]
Probe(interval) == [interval |-> interval, otel |-> TRUE]

Experiment(schedule, environment) ==
    [schedule |-> schedule, environment |-> environment, hypothesis |-> TRUE]

Gold ==
    [malformed |-> FALSE, dangling |-> FALSE, criticality |-> "tier-1",
     slis |-> {[id |-> "ok", type |-> "ratio"], [id |-> "fast", type |-> "threshold"],
               [id |-> "new", type |-> "custom"]},
     slos |-> <<"o", "p">>,
     receivers |-> {"otlp"}, processors |-> {"tail_sampling"},
     metrics |-> "prometheusremotewrite",
     logs |-> "elasticsearch", traces |-> "elasticsearch",
     required |-> {"service.name", "a", "b", "c", "d"},
     semconv |-> <<1, 27, 0>>, languages |-> {"go"}, logCorrelation |-> TRUE,
     records |-> {{"o"}, {"p"}}, views |-> {"rollup"},
     dashboards |-> <<[id |-> "service-overview", binds |-> {"ok", "fast", "new"}],
                      [id |-> "slo-burn", binds |-> {}],
                      [id |-> "deployment", binds |-> {}],
                      [id |-> "customer-impact", binds |-> {}]>>,
     alerts |-> <<<<14, 6>>, <<14, 6>>>>, forecasts |-> {"o"},
     routes |-> {[severity |-> "SEV1", channels |-> {"msteams", "voice", "email"}]},
     guardrails |-> <<3>>, p50 |-> TRUE, p95 |-> TRUE, gate |-> "block_release_if",
     chaos |-> {Experiment("weekly", "prod")},
     probes |-> {Probe(<<Amount(30, "s")>>)},
     backends |-> <<Metrics, Traces>>, overlays |-> {Ref("id", "m")},
     components |-> {}, storage |-> {}]

\* Gold with another version policy of its metrics backend.
Gated(declared, min, max, gating) ==
    [Gold EXCEPT !.backends[1].version =
        [declared |-> declared, min |-> min, max |-> max, gating |-> gating]]

Gatings ==
    {Gated(declared, min, max, gating) :
        declared \in {<<2, 53>>, <<2, 9>>, <<3, 1>>}, min \in {<<>>, <<2, 53, 0>>},
        max \in {<<>>, <<2, 10>>}, gating \in {"", "off", "warn", "enforce"}}

\* What the elements of a pack break or mend on their own.
Documents ==
    {[Gold EXCEPT !.malformed = TRUE], [Gold EXCEPT !.dangling = TRUE],
     [Gold EXCEPT !.slis = {}], [Gold EXCEPT !.slis = {[id |-> "ok", type |-> "ratio"]}],
     [Gold EXCEPT !.slos = <<>>], [Gold EXCEPT !.slos = <<"o", "p", "p">>],
     [Gold EXCEPT !.receivers = {"jaeger"}], [Gold EXCEPT !.processors = {}],
     [Gold EXCEPT !.metrics = "otlp"], [Gold EXCEPT !.logs = "loki"],
     [Gold EXCEPT !.required = {"a"}], [Gold EXCEPT !.required = {"service.name"}],
     [Gold EXCEPT !.semconv = <<1, 26, 0>>], [Gold EXCEPT !.semconv = <<1, 9, 0>>],
     [Gold EXCEPT !.languages = {}], [Gold EXCEPT !.logCorrelation = FALSE],
     [Gold EXCEPT !.records = {{"o"}}], [Gold EXCEPT !.views = {}],
     [Gold EXCEPT !.views = {"plain"}], [Gold EXCEPT !.dashboards = Tail(@)],
     [Gold EXCEPT !.dashboards = SubSeq(@, 1, 3)],
     [Gold EXCEPT !.dashboards = <<[@[1] EXCEPT !.binds = {}]>> \o @],
     [Gold EXCEPT !.dashboards = SubSeq(@, 1, 1) \o SubSeq(@, 3, 4)],
     [Gold EXCEPT !.alerts = <<>>], [Gold EXCEPT !.alerts = <<<<14, 6>>, <<14>>>>],
     [Gold EXCEPT !.alerts = <<<<14, 14>>, <<14, 6>>>>],
     [Gold EXCEPT !.forecasts = {}],
     [Gold EXCEPT !.routes = {[severity |-> "SEV4", channels |-> {"msteams"}]}],
     [Gold EXCEPT !.routes = {[severity |-> "SEV1", channels |-> {"msteams", "voice"}],
                              [severity |-> "SEV2", channels |-> {"email"}]}],
     [Gold EXCEPT !.guardrails = <<>>], [Gold EXCEPT !.guardrails = <<3, 0>>],
     [Gold EXCEPT !.p50 = FALSE], [Gold EXCEPT !.p95 = FALSE],
     [Gold EXCEPT !.gate = "none"], [Gold EXCEPT !.gate = "warn"],
     [Gold EXCEPT !.chaos = {}], [Gold EXCEPT !.chaos = {Experiment("monthly", "staging")}],
     [Gold EXCEPT !.probes = {}],
     [Gold EXCEPT !.probes = {Probe(<<Amount(5, "m")>>)}],
     [Gold EXCEPT !.probes = {Probe(<<Amount(1, "m"), Amount(30, "s")>>)}],
     [Gold EXCEPT !.probes = {[Probe(<<Amount(1, "m")>>) EXCEPT !.otel = FALSE]}]}

Catalogs ==
    {[Gold EXCEPT !.backends = <<Metrics, Metrics>>],
     [Gold EXCEPT !.backends[2].product = "jager"],
     [Gold EXCEPT !.overlays = {NoRef}], [Gold EXCEPT !.overlays = {Ref("id", "x")}],
     [Gold EXCEPT !.overlays = {Ref("external", "x")}],
     [Gold EXCEPT !.components =
         {[backend |-> NoRef, product |-> "", version |-> Unversioned],
          [backend |-> Ref("id", "x"), product |-> "jaeger", version |-> Unversioned]}],
     [Gold EXCEPT !.storage =
         {[product |-> "prometheus", ref |-> {Ref("id", "m")},
           version |-> [declared |-> <<2, 1>>, min |-> <<>>, max |-> <<2>>,
                        gating |-> "enforce"]]}]}

\* Each document at each criticality, and Gold at those the schema refuses.
Written ==
    {[m EXCEPT !.criticality = c] : m \in Documents \cup {Gold}, c \in Tiers}
    \cup Catalogs \cup Gatings
    \cup {[Gold EXCEPT !.criticality = c] : c \in {"", "gold"}}
=============================================================================
