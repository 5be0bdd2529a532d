------------------------ MODULE PackControllerProofs ------------------------
(***************************************************************************)
(* The invariant of PackInvariant is inductive, for every set of specs and *)
(* every bound; the safety properties of PackController follow from it.    *)
(***************************************************************************)
EXTENDS PackInvariant, TLAPS

-----------------------------------------------------------------------------
(***************************************************************************)
(* The helpers of conditions.go: the conditions they set, and all they     *)
(* leave alone.                                                            *)
(***************************************************************************)

\* y differs from x in its conditions at most.
OnlyConditionsDiffer(x, y) ==
    /\ y.phase = x.phase
    /\ y.obs = x.obs
    /\ y.hash = x.hash
    /\ y.tools = x.tools
    /\ y.lastError = x.lastError
    /\ y.run = x.run

\* setCondition sets one condition, stamped with the generation, and nothing
\* else of the status (conditions.go:55-63).
LEMMA SetCondition ==
    ASSUME NEW H, NEW st \in Statuses(H), NEW gen \in Nat, NEW now \in Instants,
           NEW type \in ConditionTypes, NEW v \in {"True", "False"},
           NEW reason \in Reasons
    PROVE  LET r == setCondition(st, gen, now, type, v, reason) IN
           /\ r \in Statuses(H)
           /\ OnlyConditionsDiffer(st, r)
           /\ \A c \in ConditionTypes : c # type => r.conditions[c] = st.conditions[c]
           /\ r.conditions[type].status = v
           /\ r.conditions[type].gen = gen
<1> DEFINE r   == setCondition(st, gen, now, type, v, reason)
           old == st.conditions[type]
           new == [status |-> v, reason |-> reason, gen |-> gen,
                   since  |-> IF type = "Progressing" /\ old.status # v
                              THEN now ELSE old.since]
<1>1. old \in Conditions
  BY DEF Statuses
<1>2. new \in Conditions
  BY <1>1 DEF Conditions, ConditionStatuses
<1>3. r = [st EXCEPT !.conditions = [st.conditions EXCEPT ![type] = new]]
  BY DEF setCondition, Statuses
<1>4. [st.conditions EXCEPT ![type] = new] \in [ConditionTypes -> Conditions]
  BY <1>2 DEF Statuses
<1> HIDE DEF new
<1>5. /\ r \in Statuses(H)
      /\ r.conditions = [st.conditions EXCEPT ![type] = new]
      /\ OnlyConditionsDiffer(st, r)
  BY <1>3, <1>4 DEF Statuses, OnlyConditionsDiffer
<1>6. st.conditions \in [ConditionTypes -> Conditions]
  BY DEF Statuses
<1>7. new.status = v /\ new.gen = gen
  BY DEF new
<1> QED
  BY <1>5, <1>6, <1>7

\* markProgressing and markValidated keep a status a status, and leave Ready
\* and every other field alone.
LEMMA Announcements ==
    ASSUME NEW H, NEW st \in Statuses(H), NEW gen \in Nat, NEW now \in Instants
    PROVE  /\ markProgressing(st, gen, now) \in Statuses(H)
           /\ OnlyConditionsDiffer(st, markProgressing(st, gen, now))
           /\ markValidated(st, gen, now) \in Statuses(H)
           /\ OnlyConditionsDiffer(st, markValidated(st, gen, now))
<1>1. {"Progressing", "Validated"} \subseteq ConditionTypes
      /\ {"Reconciling", "Validated"} \subseteq Reasons
  BY DEF ConditionTypes, Reasons
<1> QED
  BY <1>1, SetCondition DEF markProgressing, markValidated

\* markReady leaves Ready True for the generation.
LEMMA MarkReady ==
    ASSUME NEW H, NEW st \in Statuses(H), NEW gen \in Nat, NEW now \in Instants
    PROVE  LET r == markReady(st, gen, now) IN
           /\ r \in Statuses(H)
           /\ OnlyConditionsDiffer(st, r)
           /\ r.conditions["Ready"].status = "True"
           /\ r.conditions["Ready"].gen = gen
<1> DEFINE a == setCondition(st, gen, now, "Ready", "True", "Ready")
           b == setCondition(a, gen, now, "Progressing", "False", "Ready")
           c == setCondition(b, gen, now, "Degraded", "False", "Ready")
<1>0. {"Ready", "Progressing", "Degraded"} \subseteq ConditionTypes
      /\ "Ready" # "Progressing" /\ "Ready" # "Degraded"
      /\ "Ready" \in Reasons
  BY DEF ConditionTypes, Reasons
<1>1. /\ a \in Statuses(H) /\ OnlyConditionsDiffer(st, a)
      /\ a.conditions["Ready"].status = "True"
      /\ a.conditions["Ready"].gen = gen
  BY <1>0, SetCondition
<1> HIDE DEF a
<1>2. /\ b \in Statuses(H) /\ OnlyConditionsDiffer(a, b)
      /\ \A x \in ConditionTypes : x # "Progressing" => b.conditions[x] = a.conditions[x]
  BY <1>0, <1>1, SetCondition
<1> HIDE DEF b
<1>3. /\ c \in Statuses(H) /\ OnlyConditionsDiffer(b, c)
      /\ \A x \in ConditionTypes : x # "Degraded" => c.conditions[x] = b.conditions[x]
  BY <1>0, <1>2, SetCondition
<1> HIDE DEF c
<1>4. markReady(st, gen, now) = c
  BY DEF markReady, a, b, c
<1>5. c.conditions["Ready"] = a.conditions["Ready"]
  BY <1>0, <1>2, <1>3
<1> QED
  BY <1>1, <1>2, <1>3, <1>4, <1>5 DEF OnlyConditionsDiffer

\* markDegraded and markBlocked leave Ready False.
LEMMA MarkDegraded ==
    ASSUME NEW H, NEW st \in Statuses(H), NEW gen \in Nat, NEW now \in Instants,
           NEW reason \in Reasons
    PROVE  LET r == markDegraded(st, gen, now, reason) IN
           /\ r \in Statuses(H)
           /\ OnlyConditionsDiffer(st, r)
           /\ r.conditions["Ready"].status = "False"
<1> DEFINE a == setCondition(st, gen, now, "Ready", "False", reason)
           b == setCondition(a, gen, now, "Degraded", "True", reason)
<1>0. {"Ready", "Degraded"} \subseteq ConditionTypes /\ "Ready" # "Degraded"
  BY DEF ConditionTypes
<1>1. /\ a \in Statuses(H) /\ OnlyConditionsDiffer(st, a)
      /\ a.conditions["Ready"].status = "False"
  BY <1>0, SetCondition
<1> HIDE DEF a
<1>2. /\ b \in Statuses(H) /\ OnlyConditionsDiffer(a, b)
      /\ b.conditions["Ready"] = a.conditions["Ready"]
  BY <1>0, <1>1, SetCondition
<1> HIDE DEF b
<1>3. markDegraded(st, gen, now, reason) = b
  BY DEF markDegraded, a, b
<1> QED
  BY <1>1, <1>2, <1>3 DEF OnlyConditionsDiffer

LEMMA MarkBlocked ==
    ASSUME NEW H, NEW st \in Statuses(H), NEW gen \in Nat, NEW now \in Instants
    PROVE  LET r == markBlocked(st, gen, now) IN
           /\ r \in Statuses(H)
           /\ OnlyConditionsDiffer(st, r)
           /\ r.conditions["Ready"].status = "False"
<1> DEFINE a == setCondition(st, gen, now, "Validated", "False", "ValidationFailed")
           b == setCondition(a, gen, now, "Ready", "False", "Blocked")
           c == setCondition(b, gen, now, "Progressing", "False", "Blocked")
<1>0. {"Ready", "Progressing", "Validated"} \subseteq ConditionTypes
      /\ "Ready" # "Progressing"
      /\ {"ValidationFailed", "Blocked"} \subseteq Reasons
  BY DEF ConditionTypes, Reasons
<1>1. a \in Statuses(H) /\ OnlyConditionsDiffer(st, a)
  BY <1>0, SetCondition
<1> HIDE DEF a
<1>2. /\ b \in Statuses(H) /\ OnlyConditionsDiffer(a, b)
      /\ b.conditions["Ready"].status = "False"
  BY <1>0, <1>1, SetCondition
<1> HIDE DEF b
<1>3. /\ c \in Statuses(H) /\ OnlyConditionsDiffer(b, c)
      /\ c.conditions["Ready"] = b.conditions["Ready"]
  BY <1>0, <1>2, SetCondition
<1> HIDE DEF c
<1>4. markBlocked(st, gen, now) = c
  BY DEF markBlocked, a, b, c
<1> QED
  BY <1>1, <1>2, <1>3, <1>4 DEF OnlyConditionsDiffer

-----------------------------------------------------------------------------
(***************************************************************************)
(* The core.                                                               *)
(***************************************************************************)

\* What a pass renders are objects of the three kinds, in a finite sequence.
LEMMA RenderedType ==
    ASSUME NEW s \in Specs
    PROVE  /\ Rendered(s) \in Seq(RenderedObjects(s))
           /\ RenderedObjects(s) \subseteq Objects
           /\ \A o \in RenderedObjects(s) : o.kind \in Kinds
<1> DEFINE U == {Prometheus(s), OTel(s)}
                  \cup {Grafana(s)[i] : i \in 1..Len(s.manifest.dashboards)}
<1>1. s.manifest.dashboards \in Seq(STRING)
  BY SpecsAssumption
<1>2. Grafana(s) \in Seq(U)
  BY <1>1 DEF Grafana
<1>3. Rendered(s) \in Seq(U)
  BY <1>2 DEF Rendered
<1>4. \A o \in U : o.kind \in Kinds
  <2>1. Prometheus(s).kind \in Kinds /\ OTel(s).kind \in Kinds
    BY DEF Prometheus, OTel, Object, Kinds
  <2>2. ASSUME NEW i \in 1..Len(s.manifest.dashboards)
        PROVE  Grafana(s)[i].kind \in Kinds
    BY DEF Grafana, Object, Kinds
  <2> HIDE DEF Prometheus, OTel, Grafana
  <2> QED
    BY <2>1, <2>2
<1> HIDE DEF U
<1>5. Rendered(s) \in Seq(RenderedObjects(s))
  BY <1>3 DEF RenderedObjects
<1>6. RenderedObjects(s) \subseteq U
  BY <1>3 DEF RenderedObjects
<1> QED
  BY <1>4, <1>5, <1>6 DEF Objects

\* Which objects a spec renders: one rule, one collector, and a dashboard per ID.
LEMMA RenderedIs ==
    ASSUME NEW s \in Specs
    PROVE  RenderedObjects(s) =
               {Prometheus(s), OTel(s)}
               \cup {Object(s, "GrafanaDashboard", <<s.manifest.name, d>>) :
                        d \in {s.manifest.dashboards[i] : i \in 1..Len(s.manifest.dashboards)}}
<1> DEFINE n == Len(s.manifest.dashboards)
           dashboard(d) == Object(s, "GrafanaDashboard", <<s.manifest.name, d>>)
           ids == {s.manifest.dashboards[i] : i \in 1..n}
<1>1. s.manifest.dashboards \in Seq(STRING) /\ n \in Nat
  BY SpecsAssumption
<1>2. Grafana(s) = [i \in 1..n |-> dashboard(s.manifest.dashboards[i])]
  BY DEF Grafana
<1> HIDE DEF dashboard
<1>3. Grafana(s) \in Seq({dashboard(d) : d \in ids}) /\ Len(Grafana(s)) = n
  BY <1>1, <1>2
<1>4. /\ Len(Rendered(s)) = n + 2
      /\ Rendered(s)[1] = Prometheus(s)
      /\ Rendered(s)[n + 2] = OTel(s)
      /\ \A i \in 1..n : Rendered(s)[i + 1] = Grafana(s)[i]
  BY <1>1, <1>3 DEF Rendered
<1>5. \A i \in 1..n : Grafana(s)[i] = dashboard(s.manifest.dashboards[i])
  BY <1>2
<1>6. ASSUME NEW i \in 1..Len(Rendered(s))
      PROVE  Rendered(s)[i] \in {Prometheus(s), OTel(s)} \cup {dashboard(d) : d \in ids}
  <2>1. i = 1 \/ i = n + 2 \/ (i - 1 \in 1..n /\ i = (i - 1) + 1)
    BY <1>1, <1>4
  <2>2. CASE i - 1 \in 1..n /\ i = (i - 1) + 1
    <3>1. PICK j \in 1..n : i = j + 1
      BY <2>2
    <3> QED
      BY <1>4, <1>5, <3>1
  <2> QED
    BY <1>4, <2>1, <2>2
<1>7. ASSUME NEW o \in {Prometheus(s), OTel(s)} \cup {dashboard(d) : d \in ids}
      PROVE  \E i \in 1..Len(Rendered(s)) : Rendered(s)[i] = o
  <2>1. CASE o \in {Prometheus(s), OTel(s)}
    <3>1. 1 \in 1..Len(Rendered(s)) /\ n + 2 \in 1..Len(Rendered(s))
      BY <1>1, <1>4
    <3> QED
      BY <1>4, <2>1, <3>1
  <2>2. CASE o \in {dashboard(d) : d \in ids}
    <3>1. PICK j \in 1..n : o = dashboard(s.manifest.dashboards[j])
      BY <2>2
    <3>2. j + 1 \in 1..Len(Rendered(s))
      BY <1>1, <1>4
    <3> QED
      BY <1>4, <1>5, <3>1, <3>2
  <2> QED
    BY <2>1, <2>2
<1> QED
  BY <1>6, <1>7 DEF RenderedObjects, dashboard

\* What the hash forgets (the order of the dashboards) and leaves out (the
\* namespace) adds and removes no object: two specs for Kubernetes with one hash
\* render the same ones into the same namespace (hashPlan, plan.go:259-304).
THEOREM HashesTellObjects ==
    ASSUME NEW s \in Specs, NEW t \in Specs,
           OnKubernetes(s), PlanHash(s) = PlanHash(t),
           TargetNamespace(s) = TargetNamespace(t)
    PROVE  OnKubernetes(t) /\ RenderedObjects(s) = RenderedObjects(t)
<1> DEFINE ids(x) == {x.manifest.dashboards[i] : i \in 1..Len(x.manifest.dashboards)}
<1>1. /\ s.manifest.name = t.manifest.name /\ s.target = t.target
      /\ Sorted(s.manifest.dashboards) = Sorted(t.manifest.dashboards)
  <2> HIDE DEF ids
  <2> QED
    BY DEF PlanHash
<1>2. \A x : DOMAIN Sorted(x.manifest.dashboards) = ids(x)
  BY DEF Sorted
<1>3. ids(s) = ids(t)
  BY <1>1, <1>2
<1>4. /\ Prometheus(s) = Prometheus(t) /\ OTel(s) = OTel(t)
      /\ \A d : Object(s, "GrafanaDashboard", <<s.manifest.name, d>>)
                = Object(t, "GrafanaDashboard", <<t.manifest.name, d>>)
  BY <1>1 DEF Prometheus, OTel, Object
<1> HIDE DEF ids
<1>5. {Object(s, "GrafanaDashboard", <<s.manifest.name, d>>) : d \in ids(s)}
      = {Object(t, "GrafanaDashboard", <<t.manifest.name, d>>) : d \in ids(t)}
  BY <1>3, <1>4
<1> QED
  BY <1>1, <1>4, <1>5, RenderedIs DEF ids, OnKubernetes

LEMMA HashType == \A s \in Specs : PlanHash(s) \in Hashes
  BY DEF Hashes, PlanHashes

\* A spec has exactly one verdict.
LEMMA VerdictType == \A s \in Specs : Verdict(s) \in Verdicts
  BY DEF Verdict, Verdicts

LEMMA TargetType ==
    \A s \in Specs : OnKubernetes(s) <=> s.target # "azure"
  BY SpecsAssumption DEF OnKubernetes, Targets

LEMMA NoStatusType == NoStatus \in Statuses(Hashes) /\ NoCopy \in Copies
<1>1. [c \in ConditionTypes |-> NoCondition] \in [ConditionTypes -> Conditions]
  BY DEF NoCondition, Conditions, ConditionStatuses, Reasons, Instants
<1>2. NoTools \in ToolReports
  BY DEF NoTools, ToolReports, Instants
<1>3. NoHash \in Hashes
  BY DEF Hashes
<1>4. NoStatus \in Statuses(Hashes)
  BY <1>1, <1>2, <1>3 DEF NoStatus, EmptyStatus, Statuses, Phases, LastErrors, NoRun
<1> QED
  BY <1>4 DEF NoCopy, Copies

-----------------------------------------------------------------------------
(***************************************************************************)
(* The edits of a status.                                                  *)
(***************************************************************************)

LEMMA Fail ==
    ASSUME NEW st \in Statuses(Hashes), NEW gen \in Nat, NEW now \in Instants,
           NEW reason \in Reasons, NEW error \in LastErrors
    PROVE  LET r == fail(st, gen, now, reason, error) IN
           /\ r \in Statuses(Hashes)
           /\ r.obs = gen
           /\ r.run = st.run
           /\ r.phase = "Degraded"
           /\ r.conditions["Ready"].status = "False"
<1> DEFINE a == [st EXCEPT !.phase = "Degraded", !.lastError = error, !.obs = gen]
<1>1. a \in Statuses(Hashes) /\ a.phase = "Degraded" /\ a.obs = gen /\ a.run = st.run
  BY DEF Statuses, Phases
<1>2. fail(st, gen, now, reason, error) = markDegraded(a, gen, now, reason)
  BY DEF fail
<1> HIDE DEF a
<1> QED
  BY <1>1, <1>2, MarkDegraded DEF OnlyConditionsDiffer

LEMMA Block ==
    ASSUME NEW st \in Statuses(Hashes), NEW gen \in Nat, NEW now \in Instants
    PROVE  LET r == block(st, gen, now) IN
           /\ r \in Statuses(Hashes)
           /\ r.obs = gen
           /\ r.run = st.run
           /\ r.phase = "Blocked"
           /\ r.conditions["Ready"].status = "False"
<1> DEFINE a == markBlocked(st, gen, now)
<1>1. a \in Statuses(Hashes) /\ a.run = st.run
      /\ a.conditions["Ready"].status = "False"
  BY MarkBlocked DEF OnlyConditionsDiffer
<1>2. block(st, gen, now) =
          [a EXCEPT !.phase = "Blocked", !.lastError = "blocked", !.obs = gen]
  BY DEF block
<1> HIDE DEF a
<1> QED
  BY <1>1, <1>2 DEF Statuses, Phases, LastErrors

LEMMA Succeed ==
    ASSUME NEW st \in Statuses(Hashes), NEW gen \in Nat, NEW now \in Instants,
           NEW s \in Specs
    PROVE  LET r == succeed(st, gen, now, s) IN
           /\ r \in Statuses(Hashes)
           /\ r.obs = gen
           /\ r.run = st.run
           /\ r.phase = st.phase
           /\ r.conditions["Ready"].status = "True"
           /\ r.conditions["Ready"].gen = gen
<1> DEFINE a == markReady(st, gen, now)
<1>1. a \in Statuses(Hashes) /\ a.run = st.run /\ a.phase = st.phase
      /\ a.conditions["Ready"].status = "True"
      /\ a.conditions["Ready"].gen = gen
  BY MarkReady DEF OnlyConditionsDiffer
<1>2. succeed(st, gen, now, s) =
          [a EXCEPT !.lastError = "", !.hash = PlanHash(s), !.obs = gen]
  BY DEF succeed
<1> HIDE DEF a
<1> QED
  BY <1>1, <1>2, HashType DEF Statuses, LastErrors

\* The status with which a valid spec goes on to its adapters.
LEMMA ValidatedType ==
    ASSUME NEW st \in Statuses(Hashes), NEW gen \in Nat, NEW now \in Instants
    PROVE  LET r == Validated(st, gen, now) IN
           /\ r \in Statuses(Hashes)
           /\ r.obs = st.obs
           /\ r.run = st.run
           /\ r.phase = "Applying"
<1> DEFINE a == markValidated(st, gen, now)
<1>1. a \in Statuses(Hashes) /\ a.run = st.run /\ a.obs = st.obs
  BY Announcements DEF OnlyConditionsDiffer
<1>2. Validated(st, gen, now) = [a EXCEPT !.phase = "Applying"]
  BY DEF Validated
<1> HIDE DEF a
<1> QED
  BY <1>1, <1>2 DEF Statuses, Phases

LEMMA AnnouncedType ==
    ASSUME NEW st \in Statuses(Hashes), NEW gen \in Nat, NEW now \in Instants
    PROVE  LET r == [markProgressing(st, gen, now) EXCEPT !.phase = "Planning"] IN
           /\ r \in Statuses(Hashes)
           /\ r.run = st.run
<1> DEFINE a == markProgressing(st, gen, now)
<1>1. a \in Statuses(Hashes) /\ a.run = st.run
  BY Announcements DEF OnlyConditionsDiffer
<1> HIDE DEF a
<1> QED
  BY <1>1 DEF Statuses, Phases, a

-----------------------------------------------------------------------------
(***************************************************************************)
(* What each step that edits the worker's copy makes of it.                *)
(***************************************************************************)

\* A pass works on the generation it has read.
LEMMA ReadType ==
    ASSUME TypeOK, VersionsOrdered
    PROVE  /\ cache.gen # 0 => specs[cache.gen] \in Specs
           /\ InPass => specs[p.gen] \in Specs
  BY DEF TypeOK, VersionsOrdered, Copies, generation

LEMMA InvalidStep ==
    ASSUME TypeOK, ReconcileInvalid
    PROVE  /\ p' \in Copies
           /\ p'.gen = cache.gen
           /\ p'.status.obs = cache.gen
           /\ p'.status.run = cache.status.run
           /\ p'.status.phase = "Degraded"
           /\ p'.status.conditions["Ready"].status = "False"
<1>1. PICK now \in Instants :
        LET announced == [markProgressing(cache.status, cache.gen, now)
                              EXCEPT !.phase = "Planning"]
        IN  p' = [gen |-> cache.gen,
                  status |-> fail(announced, cache.gen, now, "ValidationFailed", "core")]
  BY DEF ReconcileInvalid, Begin
<1> DEFINE a == [markProgressing(cache.status, cache.gen, now)
                     EXCEPT !.phase = "Planning"]
<1>2. cache.gen \in Nat /\ cache.status \in Statuses(Hashes)
  BY DEF TypeOK, Copies
<1>3. a \in Statuses(Hashes) /\ a.run = cache.status.run
  BY <1>2, AnnouncedType
<1>4. p' = [gen |-> cache.gen,
            status |-> fail(a, cache.gen, now, "ValidationFailed", "core")]
  BY <1>1
<1> HIDE DEF a
<1>5. "ValidationFailed" \in Reasons /\ "core" \in LastErrors
  BY DEF Reasons, LastErrors
<1> QED
  BY <1>2, <1>3, <1>4, <1>5, Fail DEF Copies

LEMMA BlockedStep ==
    ASSUME TypeOK, ReconcileBlocked
    PROVE  /\ p' \in Copies
           /\ p'.gen = cache.gen
           /\ p'.status.run = cache.status.run
           /\ p'.status.obs = cache.gen
           /\ p'.status.phase = "Blocked"
           /\ p'.status.conditions["Ready"].status = "False"
<1> DEFINE a(now) == [markProgressing(cache.status, cache.gen, now)
                          EXCEPT !.phase = "Planning"]
<1>1. PICK now \in Instants :
        p' = [gen |-> cache.gen, status |-> block(a(now), cache.gen, now)]
  BY DEF ReconcileBlocked, Begin
<1>2. cache.gen \in Nat /\ cache.status \in Statuses(Hashes)
  BY DEF TypeOK, Copies
<1>3. a(now) \in Statuses(Hashes) /\ a(now).run = cache.status.run
  BY <1>2, AnnouncedType
<1> HIDE DEF a
<1> QED
  BY <1>1, <1>2, <1>3, Block DEF Copies

LEMMA KubernetesStep ==
    ASSUME TypeOK, ReconcileKubernetes
    PROVE  /\ p' \in Copies
           /\ p'.gen = cache.gen
           /\ p'.status.run = cache.status.run
           /\ p'.status.phase = "Applying"
<1> DEFINE a(now) == [markProgressing(cache.status, cache.gen, now)
                          EXCEPT !.phase = "Planning"]
<1>1. PICK now \in Instants :
        p' = [gen |-> cache.gen, status |-> Validated(a(now), cache.gen, now)]
  BY DEF ReconcileKubernetes, Begin
<1>2. cache.gen \in Nat /\ cache.status \in Statuses(Hashes)
  BY DEF TypeOK, Copies
<1>3. a(now) \in Statuses(Hashes) /\ a(now).run = cache.status.run
  BY <1>2, AnnouncedType
<1> HIDE DEF a
<1> QED
  BY <1>1, <1>2, <1>3, ValidatedType DEF Copies

LEMMA AzureStep ==
    ASSUME TypeOK, ReconcileAzure
    PROVE  /\ p' \in Copies
           /\ p'.gen = cache.gen
           /\ p'.status.run = cache.status.run
           /\ p'.status.phase = "Applying"
<1> DEFINE a(now) == [markProgressing(cache.status, cache.gen, now)
                          EXCEPT !.phase = "Planning"]
<1>1. PICK now \in Instants :
        p' = [gen |-> cache.gen, status |-> Validated(a(now), cache.gen, now)]
  BY DEF ReconcileAzure, Begin
<1>2. cache.gen \in Nat /\ cache.status \in Statuses(Hashes)
  BY DEF TypeOK, Copies
<1>3. a(now) \in Statuses(Hashes) /\ a(now).run = cache.status.run
  BY <1>2, AnnouncedType
<1> HIDE DEF a
<1> QED
  BY <1>1, <1>2, <1>3, ValidatedType DEF Copies

LEMMA FinishStep ==
    ASSUME TypeOK, VersionsOrdered, FinishApply
    PROVE  /\ p' \in Copies
           /\ p'.gen = p.gen
           /\ p'.status.obs = p.gen
           /\ p'.status.run = p.status.run
           /\ p'.status.phase \in {"Ready", "Degraded"}
           /\ \/ p'.status.conditions["Ready"].status = "False"
              \/ failed = {} /\ p'.status.conditions["Ready"].gen = p.gen
<1> DEFINE st(now) == [p.status EXCEPT !.tools = toolStatus(now)]
           good(now) == succeed(st(now), p.gen, now, specs[p.gen])
<1>1. PICK now \in Instants :
        p' = [p EXCEPT !.status =
                  IF failed # {}
                  THEN fail(st(now), p.gen, now, "ApplyFailed", "apply")
                  ELSE [good(now) EXCEPT !.phase = "Ready"]]
  BY DEF FinishApply
<1>2. p.gen \in Nat /\ p.status \in Statuses(Hashes) /\ specs[p.gen] \in Specs
      /\ p = [gen |-> p.gen, status |-> p.status]
  BY ReadType DEF TypeOK, Copies, FinishApply, InPass
<1>3. toolStatus(now) \in ToolReports
  <2>1. \A k \in Kinds : toolFromKind(k) \in Tools
    BY DEF Kinds, toolFromKind, Tools
  <2>2. \A k \in applied \cup failed : k \in Kinds
    BY DEF TypeOK
  <2>3. \A k \in applied \cup failed :
            [tool  |-> toolFromKind(k),
             phase |-> IF k \in failed THEN "Degraded" ELSE "Ready"]
                \in [tool: Tools, phase: {"Ready", "Degraded", "Applying"}]
    BY <2>1, <2>2
  <2> QED
    BY <2>3 DEF toolStatus, ToolReports
<1>4. st(now) \in Statuses(Hashes) /\ st(now).run = p.status.run
  BY <1>2, <1>3 DEF Statuses
<1> HIDE DEF st
<1>5. CASE failed # {}
  <2>1. p' = [p EXCEPT !.status = fail(st(now), p.gen, now, "ApplyFailed", "apply")]
    BY <1>1, <1>5
  <2>2. "ApplyFailed" \in Reasons /\ "apply" \in LastErrors
    BY DEF Reasons, LastErrors
  <2> QED
    BY <1>2, <1>4, <2>1, <2>2, Fail DEF Copies
<1>6. CASE failed = {}
  <2> DEFINE r == [good(now) EXCEPT !.phase = "Ready"]
  <2>1. p' = [p EXCEPT !.status = r]
    BY <1>1, <1>6
  <2>2. /\ good(now) \in Statuses(Hashes)
        /\ good(now).obs = p.gen
        /\ good(now).run = p.status.run
        /\ good(now).conditions["Ready"].gen = p.gen
    BY <1>2, <1>4, Succeed
  <2> HIDE DEF good
  <2>3. /\ r \in Statuses(Hashes)
        /\ r.obs = p.gen
        /\ r.run = p.status.run
        /\ r.phase = "Ready"
        /\ r.conditions["Ready"].gen = p.gen
    BY <2>2 DEF Statuses, Phases
  <2> HIDE DEF r
  <2> QED
    BY <1>2, <1>6, <2>1, <2>3 DEF Copies
<1> QED
  BY <1>5, <1>6

LEMMA TriggeredStep ==
    ASSUME TypeOK, VersionsOrdered, PassFitsSpec, TriggerAccepted
    PROVE  /\ p' \in Copies
           /\ p'.gen = p.gen
           /\ p'.status.obs = p.gen
           /\ p'.status.run = runs + 1
           /\ p'.status.phase = "Applying"
           /\ p'.status.conditions["Ready"].gen = p.gen
<1> DEFINE tools == [entries |-> {[tool |-> "azure-pipeline", phase |-> "Applying"]},
                     order   |-> 0]
           st == [p.status EXCEPT !.run = runs', !.tools = tools]
<1>1. PICK now \in Instants :
        p' = [p EXCEPT !.status = succeed(st, p.gen, now, specs[p.gen])]
  BY DEF TriggerAccepted
<1>2. p.gen \in Nat /\ p.status \in Statuses(Hashes) /\ specs[p.gen] \in Specs
      /\ p = [gen |-> p.gen, status |-> p.status]
      /\ p.status.phase = "Applying"
  BY ReadType DEF TypeOK, Copies, TriggerAccepted, InPass, PassFitsSpec
<1>3. tools \in ToolReports
  BY DEF ToolReports, Tools, Instants
<1>4. runs' = runs + 1 /\ runs' \in Nat
  BY DEF TriggerAccepted, RunStarts, TypeOK
<1> HIDE DEF tools
<1>5. /\ st \in Statuses(Hashes)
      /\ st.run = runs + 1
      /\ st.phase = "Applying"
  BY <1>2, <1>3, <1>4 DEF Statuses
<1> HIDE DEF st
<1> QED
  BY <1>1, <1>2, <1>5, Succeed DEF Copies

LEMMA TriggerFailsStep ==
    ASSUME TypeOK, VersionsOrdered, pc = "triggering", TriggerFails
    PROVE  /\ p' \in Copies
           /\ p'.gen = p.gen
           /\ p'.status.obs = p.gen
           /\ p'.status.run = p.status.run
           /\ p'.status.phase = "Degraded"
           /\ p'.status.conditions["Ready"].status = "False"
<1>1. PICK now \in Instants, error \in PipelineErrors :
        p' = [p EXCEPT !.status = fail(p.status, p.gen, now, "PipelineFailed", error)]
  BY DEF TriggerFails
<1>2. p.gen \in Nat /\ p.status \in Statuses(Hashes)
      /\ p = [gen |-> p.gen, status |-> p.status]
  BY DEF TypeOK, Copies
<1>3. "PipelineFailed" \in Reasons /\ error \in LastErrors
  BY DEF Reasons, LastErrors
<1> QED
  BY <1>1, <1>2, <1>3, Fail DEF Copies

-----------------------------------------------------------------------------
(***************************************************************************)
(* Type correctness.                                                       *)
(***************************************************************************)

LEMMA EmptyType == <<>> \in Seq(Objects) /\ {} \in SUBSET Kinds
  OBVIOUS

LEMMA InitInvariant == Init => IInv
<1> SUFFICES ASSUME Init PROVE IInv
  OBVIOUS
<1>1. /\ specs \in Seq(Specs) /\ Len(specs) = 1
      /\ status = NoStatus /\ cache = NoCopy /\ p = NoCopy
      /\ pc = "down" /\ ~fresh /\ ~current /\ runs = 0
  BY DEF Init
<1>2. /\ NoStatus.obs = 0 /\ NoStatus.run = 0
      /\ NoStatus.conditions["Ready"].status = "Absent"
      /\ NoCopy.gen = 0 /\ NoCopy.status = NoStatus
  BY DEF NoStatus, EmptyStatus, NoCopy, NoRun, ConditionTypes, NoCondition
<1>3. TypeOK
  <2>1. specs # <<>>
    BY <1>1
  <2>2. NoHash \in Hashes /\ [o \in Objects |-> NoHash] \in [Objects -> Hashes]
    BY DEF Hashes
  <2>3. /\ todo \in Seq(Objects)
        /\ applied \in SUBSET Kinds
        /\ failed \in SUBSET Kinds
    BY EmptyType DEF Init
  <2>4. live \in [Objects -> Hashes] /\ pipeline \in Hashes
    BY <2>2 DEF Init
  <2>5. /\ exists \in BOOLEAN /\ fresh \in BOOLEAN /\ current \in BOOLEAN
        /\ queued \in BOOLEAN /\ timer \in BOOLEAN
        /\ runs \in Nat /\ faults \in Nat
    BY DEF Init
  <2>6. posts \in Seq(PlanHashes)
    BY DEF Init
  <2> QED
    BY <1>1, <2>1, <2>3, <2>4, <2>5, <2>6, NoStatusType DEF TypeOK
<1> QED
  BY <1>1, <1>2, <1>3 DEF IInv, VersionsOrdered, VersionsCompared, RunsOrdered,
       PassFitsSpec, AppliedSoFar, WritesTruth, ReportsTruth, NeverAsleep,
       InPass, generation

LEMMA StoredType == TypeOK => Stored \in Copies
<1>1. TypeOK => generation \in Nat
  BY DEF TypeOK, generation
<1> QED
  BY <1>1, NoStatusType DEF TypeOK, Stored, Copies

\* What becomes of the worker's variables when a pass is over.
LEMMA DoneType ==
    Done => /\ p' \in Copies /\ current' \in BOOLEAN
            /\ todo' \in Seq(Objects)
            /\ applied' \in SUBSET Kinds /\ failed' \in SUBSET Kinds
  BY NoStatusType, EmptyType DEF Done

LEMMA TypeStep ==
    ASSUME IInv, [Next]_vars
    PROVE  TypeOK'
<1> USE DEF IInv, store, informer, queue, pass, azure
<1>t. Fault => faults' \in Nat
  BY DEF Fault, TypeOK
<1>1. ASSUME NEW s \in Specs, Edit(s) PROVE TypeOK'
  <2>1. specs' \in Seq(Specs) /\ specs' # <<>>
    <3>1. specs \in Seq(Specs)
      BY DEF TypeOK
    <3>2. Append(specs, s) \in Seq(Specs) /\ Len(Append(specs, s)) = Len(specs) + 1
      BY <3>1
    <3> QED
      BY <1>1, <3>1, <3>2 DEF Edit
  <2> QED
    BY <1>1, <2>1 DEF Edit, OutOfDate, TypeOK
<1>2. CASE Touch
  BY <1>2, <1>t DEF Touch, OutOfDate, TypeOK
<1>3. CASE Delete
  BY <1>3, NoStatusType DEF Delete, OutOfDate, TypeOK
<1>4. ASSUME NEW o \in Objects, Drift(o) PROVE TypeOK'
  BY <1>4, <1>t DEF Drift, TypeOK, Hashes
<1>5. ASSUME NEW o \in Objects, Collect(o) PROVE TypeOK'
  BY <1>5 DEF Collect, TypeOK, Hashes
<1>6. CASE Start
  BY <1>6, StoredType DEF Start, TypeOK
<1>7. CASE Crash
  BY <1>7, <1>t, NoStatusType, EmptyType DEF Crash, TypeOK
<1>8. CASE Deliver
  BY <1>8, StoredType DEF Deliver, TypeOK
<1>9. CASE TimerFires
  BY <1>9 DEF TimerFires, TypeOK
<1>10. CASE ReconcileAbsent
  BY <1>10 DEF ReconcileAbsent, TypeOK
<1>11. CASE ReconcileGetFails
  BY <1>11, <1>t DEF ReconcileGetFails, TypeOK
<1>12. CASE ReconcileInvalid
  BY <1>12, InvalidStep DEF ReconcileInvalid, Begin, TypeOK
<1>13. CASE ReconcileBlocked
  BY <1>13, BlockedStep DEF ReconcileBlocked, Begin, TypeOK
<1>14. CASE ReconcileKubernetes
  <2>1. specs[cache.gen] \in Specs
    BY <1>14, ReadType DEF ReconcileKubernetes, Begin
  <2>2. Rendered(specs[cache.gen]) \in Seq(Objects)
    BY <2>1, RenderedType
  <2> QED
    BY <1>14, <2>2, KubernetesStep DEF ReconcileKubernetes, Begin, TypeOK
<1>15. CASE ReconcileAzure
  BY <1>15, AzureStep DEF ReconcileAzure, Begin, TypeOK
<1>a. ASSUME pc = "applying", todo # <<>>
      PROVE  /\ Head(todo) \in Objects /\ Head(todo).kind \in Kinds
             /\ Tail(todo) \in Seq(Objects)
             /\ PlanHash(specs[p.gen]) \in Hashes
  <2>1. todo \in Seq(Objects) /\ todo # <<>>
    BY <1>a DEF TypeOK
  <2>2. Head(todo) \in Objects /\ Tail(todo) \in Seq(Objects)
    BY <2>1
  <2>3. \A o \in Objects : o.kind \in Kinds
    BY RenderedType DEF Objects
  <2>4. specs[p.gen] \in Specs
    BY <1>a, ReadType DEF InPass
  <2> QED
    BY <2>2, <2>3, <2>4, HashType
<1>16. CASE ApplyAccepted
  BY <1>16, <1>a DEF ApplyAccepted, TypeOK
<1>17. CASE ApplyRefused
  BY <1>17, <1>a, <1>t DEF ApplyRefused, TypeOK
<1>18. CASE ApplyReplyLost
  BY <1>18, <1>a, <1>t DEF ApplyReplyLost, TypeOK
<1>19. CASE FinishApply
  BY <1>19, FinishStep DEF FinishApply, TypeOK
<1>b. ASSUME pc = "triggering", RunStarts
      PROVE  /\ runs' \in Nat /\ pipeline' \in Hashes
             /\ posts' \in Seq(PlanHashes)
  <2>1. specs[p.gen] \in Specs
    BY <1>b, ReadType DEF InPass
  <2>2. PlanHash(specs[p.gen]) \in PlanHashes /\ PlanHash(specs[p.gen]) \in Hashes
    BY <2>1 DEF PlanHashes, Hashes
  <2>3. posts \in Seq(PlanHashes) /\ runs \in Nat
    BY DEF TypeOK
  <2>4. posts' \in Seq(PlanHashes)
    BY <1>b, <2>2, <2>3 DEF RunStarts
  <2> QED
    BY <1>b, <2>2, <2>3, <2>4 DEF RunStarts
<1>20. CASE TriggerAccepted
  BY <1>20, <1>b, TriggeredStep DEF TriggerAccepted, TypeOK
<1>21. CASE TriggerRefused
  BY <1>21, <1>t, TriggerFailsStep DEF TriggerRefused, TriggerFails, TypeOK
<1>22. CASE TriggerReplyLost
  BY <1>22, <1>b, <1>t, TriggerFailsStep DEF TriggerReplyLost, TriggerFails, TypeOK
<1>c. ASSUME UpdateLands
      PROVE  status' \in Statuses(Hashes) /\ fresh' \in BOOLEAN
  BY <1>c DEF UpdateLands, TypeOK, Copies
<1>23. CASE UpdateAccepted
  BY <1>23, <1>c, DoneType DEF UpdateAccepted, UpdateLands, Done, TypeOK
<1>24. CASE UpdateReplyLost
  BY <1>24, <1>c, <1>t, DoneType DEF UpdateReplyLost, UpdateLands, Done, TypeOK
<1>25. CASE UpdateConflicts
  BY <1>25, DoneType DEF UpdateConflicts, Done, TypeOK
<1>26. CASE UpdateFails
  BY <1>26, <1>t, DoneType DEF UpdateFails, Done, TypeOK
<1>27. CASE UNCHANGED vars
  BY <1>27 DEF vars, TypeOK
<1> QED
  BY <1>1, <1>2, <1>3, <1>4, <1>5, <1>6, <1>7, <1>8, <1>9, <1>10, <1>11, <1>12,
     <1>13, <1>14, <1>15, <1>16, <1>17, <1>18, <1>19, <1>20, <1>21, <1>22, <1>23,
     <1>24, <1>25, <1>26, <1>27 DEF Next, Environment, Runtime, Reconcile

-----------------------------------------------------------------------------
(***************************************************************************)
(* Versions: of the store, the cache and the worker's copy.                *)
(***************************************************************************)

LEMMA EmptyCopy ==
    /\ NoStatus.obs = 0 /\ NoStatus.run = 0 /\ NoStatus.phase = ""
    /\ NoStatus.conditions["Ready"].status = "Absent"
    /\ NoCopy.gen = 0 /\ NoCopy.status = NoStatus
  BY DEF NoStatus, EmptyStatus, NoCopy, NoRun, ConditionTypes, NoCondition

LEMMA Numbers ==
    TypeOK => /\ generation \in Nat /\ generation # 0
              /\ cache.gen \in Nat /\ p.gen \in Nat
              /\ status.obs \in Nat /\ status.run \in Nat
              /\ cache.status.run \in Nat /\ p.status.run \in Nat
              /\ runs \in Nat
  BY DEF TypeOK, Copies, Statuses, generation

\* What the cache holds after it has been synced.
LEMMA StoredIs ==
    /\ exists => Stored.gen = generation /\ Stored.status = status
    /\ ~exists => Stored.gen = 0 /\ Stored.status = NoStatus
  BY EmptyCopy DEF Stored

\* An edit adds a generation and leaves the earlier ones as they were.
LEMMA EditKeepsHistory ==
    ASSUME TypeOK, NEW s \in Specs, Edit(s)
    PROVE  /\ generation' = generation + 1
           /\ \A g \in 1..generation : specs'[g] = specs[g]
<1>1. specs \in Seq(Specs) /\ specs' = Append(specs, s)
  BY DEF TypeOK, Edit
<1> QED
  BY <1>1 DEF generation

\* A pass that has begun works on the generation the cache holds.
LEMMA PassBegins ==
    ASSUME TypeOK, ReconcileInvalid \/ ReconcileBlocked
                       \/ ReconcileKubernetes \/ ReconcileAzure
    PROVE  /\ pc = "idle" /\ cache.gen # 0 /\ p'.gen = cache.gen
           /\ p'.status.run = cache.status.run
           /\ InPass' /\ current' = fresh /\ ~queued'
           /\ UNCHANGED <<store, informer, timer, live, azure>>
  BY InvalidStep, BlockedStep, KubernetesStep, AzureStep
     DEF ReconcileInvalid, ReconcileBlocked, ReconcileKubernetes,
         ReconcileAzure, Begin, InPass

\* A pass goes on with the copy it has.
LEMMA PassGoesOn ==
    ASSUME TypeOK, VersionsOrdered, PassFitsSpec,
           \/ ApplyAccepted \/ ApplyRefused \/ ApplyReplyLost \/ FinishApply
           \/ TriggerAccepted \/ TriggerRefused \/ TriggerReplyLost
    PROVE  /\ InPass /\ InPass' /\ p'.gen = p.gen
           /\ UNCHANGED <<store, informer, queue, current>>
<1>1. CASE ApplyAccepted \/ ApplyRefused \/ ApplyReplyLost
  BY <1>1 DEF ApplyAccepted, ApplyRefused, ApplyReplyLost, InPass
<1>2. CASE FinishApply
  BY <1>2, FinishStep DEF FinishApply, InPass
<1>3. CASE TriggerAccepted
  BY <1>3, TriggeredStep DEF TriggerAccepted, InPass
<1>4. CASE TriggerRefused \/ TriggerReplyLost
  BY <1>4, TriggerFailsStep DEF TriggerRefused, TriggerReplyLost, TriggerFails, InPass
<1> QED
  BY <1>1, <1>2, <1>3, <1>4

\* A pass ends, and only an update that lands changes anything in the store.
LEMMA PassEnds ==
    ASSUME UpdateAccepted \/ UpdateReplyLost \/ UpdateConflicts \/ UpdateFails
    PROVE  /\ pc = "writing" /\ pc' = "idle" /\ p' = NoCopy /\ ~current'
           /\ UNCHANGED <<specs, exists, cache, queued, live, azure>>
           /\ UpdateLands \/ UNCHANGED <<status, fresh>>
           /\ timer' \/ (UpdateAccepted /\ p.status.phase = "Blocked")
  BY DEF UpdateAccepted, UpdateReplyLost, UpdateConflicts, UpdateFails,
         UpdateLands, Done, store, informer, azure

LEMMA VersionsOrderedStep ==
    ASSUME IInv, [Next]_vars
    PROVE  VersionsOrdered'
<1> USE DEF store, informer, queue, pass, azure
<1>0. /\ TypeOK /\ VersionsOrdered /\ VersionsCompared /\ PassFitsSpec /\ WritesTruth
      /\ generation \in Nat /\ cache.gen \in Nat /\ p.gen \in Nat /\ status.obs \in Nat
  BY Numbers DEF IInv
<1>1. ASSUME NEW s \in Specs, Edit(s) PROVE VersionsOrdered'
  <2>1. UNCHANGED <<exists, status, cache, pc, p>>
    BY <1>1 DEF Edit, OutOfDate
  <2>2. generation' = generation + 1 /\ exists
    BY <1>0, <1>1, EditKeepsHistory DEF Edit
  <2>3. InPass' = InPass
    BY <2>1 DEF InPass
  <2> QED
    BY <1>0, <2>1, <2>2, <2>3 DEF VersionsOrdered
<1>2. CASE Delete
  <2>1. UNCHANGED <<specs, cache, pc, p>> /\ status' = NoStatus /\ ~exists'
    BY <1>2 DEF Delete, OutOfDate
  <2>2. generation' = generation /\ status'.obs = 0
    BY <2>1, EmptyCopy DEF generation
  <2>3. InPass' = InPass
    BY <2>1 DEF InPass
  <2> QED
    BY <1>0, <2>1, <2>2, <2>3 DEF VersionsOrdered
<1>3. CASE Start \/ Deliver
  <2>1. UNCHANGED <<specs, exists, status, p>> /\ cache' = Stored
    BY <1>3 DEF Start, Deliver
  <2>2. generation' = generation /\ (InPass' => InPass)
    BY <1>3, <2>1 DEF generation, Start, Deliver, InPass
  <2>3. \/ exists /\ cache'.gen = generation
        \/ cache'.gen = 0
    BY <2>1, StoredIs
  <2> QED
    BY <1>0, <2>1, <2>2, <2>3 DEF VersionsOrdered
<1>4. CASE Crash
  <2>1. pc' = "down" /\ cache' = NoCopy /\ p' = NoCopy /\ UNCHANGED <<specs, exists, status>>
    BY <1>4 DEF Crash
  <2>2. cache'.gen = 0 /\ p'.gen = 0
    BY <2>1, EmptyCopy
  <2>3. generation' = generation /\ status'.obs = status.obs
    BY <2>1 DEF generation
  <2>4. ~InPass'
    BY <2>1 DEF InPass
  <2> QED
    BY <1>0, <2>1, <2>2, <2>3, <2>4 DEF VersionsOrdered
<1>5. CASE \/ Touch \/ TimerFires \/ ReconcileAbsent \/ ReconcileGetFails
           \/ \E o \in Objects : Drift(o) \/ Collect(o)
  BY <1>0, <1>5 DEF Touch, OutOfDate, TimerFires, ReconcileAbsent,
     ReconcileGetFails, Drift, Collect, VersionsOrdered, InPass, generation
<1>6. CASE ReconcileInvalid \/ ReconcileBlocked \/ ReconcileKubernetes \/ ReconcileAzure
  BY <1>0, <1>6, PassBegins DEF VersionsOrdered, generation
<1>7. CASE \/ ApplyAccepted \/ ApplyRefused \/ ApplyReplyLost \/ FinishApply
           \/ TriggerAccepted \/ TriggerRefused \/ TriggerReplyLost
  BY <1>0, <1>7, PassGoesOn DEF VersionsOrdered, generation
<1>8. CASE UpdateAccepted \/ UpdateReplyLost \/ UpdateConflicts \/ UpdateFails
  <2>1. UNCHANGED <<specs, exists, cache>> /\ pc' = "idle" /\ p' = NoCopy /\ InPass
    BY <1>8, PassEnds DEF InPass
  <2>2. generation' = generation /\ p'.gen = 0 /\ ~InPass'
    BY <2>1, EmptyCopy DEF generation, InPass
  <2>3. CASE UpdateLands
    <3>1. exists /\ status'.obs = p.gen
      BY <1>0, <2>3 DEF UpdateLands, VersionsCompared, WritesTruth
    <3> QED
      BY <1>0, <2>1, <2>2, <3>1 DEF VersionsOrdered
  <2>4. CASE UNCHANGED <<status, fresh>>
    BY <1>0, <2>1, <2>2, <2>4 DEF VersionsOrdered
  <2> QED
    BY <1>8, <2>3, <2>4, PassEnds
<1>9. CASE UNCHANGED vars
  BY <1>0, <1>9 DEF vars, VersionsOrdered, InPass, generation
<1> QED
  BY <1>1, <1>2, <1>3, <1>4, <1>5, <1>6, <1>7, <1>8, <1>9
     DEF Next, Environment, Runtime, Reconcile

\* The two comparisons of versions keep their meaning: a write by someone else
\* resets both flags, and a pass inherits the cache's.
LEMMA VersionsComparedStep ==
    ASSUME IInv, [Next]_vars
    PROVE  VersionsCompared'
<1> USE DEF store, informer, queue, pass, azure
<1>0. TypeOK /\ VersionsOrdered /\ VersionsCompared /\ PassFitsSpec
  BY DEF IInv
<1>s. (UNCHANGED <<specs, exists, status>>) => Stored' = Stored /\ generation' = generation
  BY DEF Stored, generation
<1>1. CASE Touch \/ Delete \/ Crash \/ \E s \in Specs : Edit(s)
  <2>1. fresh' = FALSE /\ current' = FALSE
    BY <1>1 DEF Touch, Delete, Edit, OutOfDate, Crash
  <2> QED
    BY <2>1 DEF VersionsCompared
<1>2. CASE Start \/ Deliver
  <2>1. /\ UNCHANGED <<specs, exists, status, p, current>> /\ cache' = Stored
        /\ pc = "down" \/ pc' = pc
    BY <1>2 DEF Start, Deliver
  <2>2. ~current \/ InPass' = InPass
    BY <1>0, <2>1 DEF VersionsCompared, InPass
  <2> QED
    BY <1>0, <1>s, <2>1, <2>2 DEF VersionsCompared
<1>3. CASE \/ TimerFires \/ ReconcileAbsent \/ ReconcileGetFails
           \/ \E o \in Objects : Drift(o) \/ Collect(o)
  <2>1. UNCHANGED <<specs, exists, status, p, current, cache, fresh, pc>>
    BY <1>3 DEF TimerFires, ReconcileAbsent, ReconcileGetFails, Drift, Collect
  <2>2. InPass' = InPass
    BY <2>1 DEF InPass
  <2> QED
    BY <1>0, <1>s, <2>1, <2>2 DEF VersionsCompared
<1>4. CASE ReconcileInvalid \/ ReconcileBlocked \/ ReconcileKubernetes \/ ReconcileAzure
  <2>1. /\ UNCHANGED <<specs, exists, status, cache, fresh>>
        /\ current' = fresh /\ InPass' /\ p'.gen = cache.gen /\ cache.gen # 0
    BY <1>0, <1>4, PassBegins
  <2>2. fresh => exists /\ cache.gen = generation
    BY <1>0, <2>1, StoredIs DEF VersionsCompared
  <2> QED
    BY <1>0, <1>s, <2>1, <2>2 DEF VersionsCompared
<1>5. CASE \/ ApplyAccepted \/ ApplyRefused \/ ApplyReplyLost \/ FinishApply
           \/ TriggerAccepted \/ TriggerRefused \/ TriggerReplyLost
  <2>1. /\ UNCHANGED <<specs, exists, status, cache, fresh, current>>
        /\ InPass' /\ p'.gen = p.gen
    BY <1>0, <1>5, PassGoesOn DEF ApplyAccepted, ApplyRefused, ApplyReplyLost,
       FinishApply, TriggerAccepted, TriggerRefused, TriggerReplyLost, TriggerFails
  <2> QED
    BY <1>0, <1>s, <2>1 DEF VersionsCompared
<1>6. CASE UpdateAccepted \/ UpdateReplyLost \/ UpdateConflicts \/ UpdateFails
  <2>1. UNCHANGED <<specs, exists, cache>> /\ ~current'
    BY <1>6, PassEnds
  <2>2. fresh' => fresh /\ status' = status
    BY <1>6, PassEnds DEF UpdateLands
  <2> QED
    BY <1>0, <1>s, <2>1, <2>2 DEF VersionsCompared
<1>7. CASE UNCHANGED vars
  <2>1. UNCHANGED <<specs, exists, status, p, current, cache, fresh, pc>>
    BY <1>7 DEF vars
  <2>2. InPass' = InPass
    BY <2>1 DEF InPass
  <2> QED
    BY <1>0, <1>s, <2>1, <2>2 DEF VersionsCompared
<1> QED
  BY <1>1, <1>2, <1>3, <1>4, <1>5, <1>6, <1>7
     DEF Next, Environment, Runtime, Reconcile

\* No copy knows of a run the pipeline has not accepted, and one that may still
\* be written knows every run recorded before.
LEMMA RunsOrderedStep ==
    ASSUME IInv, [Next]_vars
    PROVE  RunsOrdered'
<1> USE DEF store, informer, queue, pass, azure
<1>0. /\ TypeOK /\ VersionsOrdered /\ VersionsCompared /\ PassFitsSpec /\ RunsOrdered
      /\ status.run \in Nat /\ cache.status.run \in Nat
      /\ p.status.run \in Nat /\ runs \in Nat
  BY Numbers DEF IInv
<1>1. CASE Delete
  <2>1. UNCHANGED <<cache, p, runs>> /\ status' = NoStatus /\ ~current'
    BY <1>1 DEF Delete, OutOfDate
  <2>2. status'.run = 0
    BY <2>1, EmptyCopy
  <2> QED
    BY <1>0, <2>1, <2>2 DEF RunsOrdered
<1>2. CASE Start \/ Deliver
  <2>1. UNCHANGED <<status, p, runs, current>> /\ cache' = Stored
    BY <1>2 DEF Start, Deliver
  <2>2. cache'.status.run = status.run \/ cache'.status.run = 0
    BY <2>1, StoredIs, EmptyCopy
  <2> QED
    BY <1>0, <2>1, <2>2 DEF RunsOrdered
<1>3. CASE Crash
  <2>1. UNCHANGED <<status, runs>> /\ cache' = NoCopy /\ p' = NoCopy /\ ~current'
    BY <1>3 DEF Crash
  <2>2. cache'.status.run = 0 /\ p'.status.run = 0
    BY <2>1, EmptyCopy
  <2> QED
    BY <1>0, <2>1, <2>2 DEF RunsOrdered
<1>4. CASE ReconcileInvalid \/ ReconcileBlocked \/ ReconcileKubernetes \/ ReconcileAzure
  <2>1. /\ UNCHANGED <<status, cache, runs>> /\ current' = fresh
        /\ p'.status.run = cache.status.run /\ cache.gen # 0
    BY <1>0, <1>4, PassBegins
  <2>2. fresh => cache.status = status
    BY <1>0, <2>1, StoredIs DEF VersionsCompared
  <2> QED
    BY <1>0, <2>1, <2>2 DEF RunsOrdered
<1>5. CASE TriggerAccepted
  <2>1. UNCHANGED <<status, cache, current>> /\ runs' = runs + 1 /\ p'.status.run = runs + 1
    BY <1>0, <1>5, TriggeredStep DEF TriggerAccepted, RunStarts
  <2> QED
    BY <1>0, <2>1 DEF RunsOrdered
<1>6. CASE TriggerRefused \/ TriggerReplyLost
  <2>1. /\ UNCHANGED <<status, cache, current>> /\ p'.status.run = p.status.run
        /\ runs' = runs \/ runs' = runs + 1
    BY <1>0, <1>6, TriggerFailsStep
       DEF TriggerRefused, TriggerReplyLost, TriggerFails, RunStarts
  <2> QED
    BY <1>0, <2>1 DEF RunsOrdered
<1>7. CASE FinishApply
  <2>1. UNCHANGED <<status, cache, current, runs>> /\ p'.status.run = p.status.run
    BY <1>0, <1>7, FinishStep DEF FinishApply
  <2> QED
    BY <1>0, <2>1 DEF RunsOrdered
<1>8. CASE UpdateAccepted \/ UpdateReplyLost \/ UpdateConflicts \/ UpdateFails
  <2>1. UNCHANGED <<cache, runs>> /\ p' = NoCopy /\ ~current'
    BY <1>8, PassEnds
  <2>2. status' = status \/ status' = p.status
    BY <1>8, PassEnds DEF UpdateLands
  <2>3. p'.status.run = 0
    BY <2>1, EmptyCopy
  <2> QED
    BY <1>0, <2>1, <2>2, <2>3 DEF RunsOrdered
<1>9. CASE \/ Touch \/ TimerFires \/ ReconcileAbsent \/ ReconcileGetFails
           \/ ApplyAccepted \/ ApplyRefused \/ ApplyReplyLost
           \/ (\E o \in Objects : Drift(o) \/ Collect(o))
           \/ (\E s \in Specs : Edit(s)) \/ UNCHANGED vars
  <2>1. UNCHANGED <<status, cache, p, runs>> /\ (current' => current)
    BY <1>9 DEF Touch, OutOfDate, TimerFires, ReconcileAbsent, ReconcileGetFails,
       ApplyAccepted, ApplyRefused, ApplyReplyLost, Drift, Collect, Edit, vars
  <2> QED
    BY <1>0, <2>1 DEF RunsOrdered
<1> QED
  BY <1>1, <1>2, <1>3, <1>4, <1>5, <1>6, <1>7, <1>8, <1>9
     DEF Next, Environment, Runtime, Reconcile

-----------------------------------------------------------------------------
(***************************************************************************)
(* The phase a pass is in.                                                 *)
(***************************************************************************)

\* History only grows.
LEMMA HistoryKept ==
    ASSUME TypeOK, [Next]_vars
    PROVE  /\ generation \in Nat /\ generation' \in Nat /\ generation <= generation'
           /\ \A g \in 1..generation : specs'[g] = specs[g]
<1> USE DEF store, informer, queue, pass, azure
<1>0. generation \in Nat
  BY Numbers
<1>1. CASE \E s \in Specs : Edit(s)
  BY <1>0, <1>1, EditKeepsHistory
<1>2. CASE ~\E s \in Specs : Edit(s)
  <2>1. specs' = specs
    BY <1>2 DEF Next, Environment, Runtime, Reconcile, vars, Touch, Delete, Drift,
       Crash, Start, Deliver, TimerFires, ReconcileAbsent, ReconcileGetFails,
       ReconcileInvalid, ReconcileBlocked, ReconcileKubernetes, ReconcileAzure,
       ApplyAccepted, ApplyRefused, ApplyReplyLost, FinishApply, TriggerAccepted,
       TriggerRefused, TriggerReplyLost, TriggerFails, UpdateLands, UpdateAccepted,
       UpdateReplyLost, UpdateConflicts, UpdateFails, Collect
  <2> QED
    BY <1>0, <2>1 DEF generation
<1> QED
  BY <1>1, <1>2

\* A step that is not the worker's leaves the pass as it is, or ends it.
LEMMA PassKept ==
    ASSUME \/ Touch \/ Delete \/ Crash \/ Start \/ Deliver \/ TimerFires
           \/ ReconcileAbsent \/ ReconcileGetFails
           \/ (\E s \in Specs : Edit(s))
           \/ (\E o \in Objects : Drift(o) \/ Collect(o))
           \/ UNCHANGED vars
    PROVE  \/ UNCHANGED <<pc, p, todo, applied, failed>>
           \/ pc' \in {"down", "idle"}
  BY DEF Touch, Delete, Crash, Start, Deliver, TimerFires, ReconcileAbsent,
         ReconcileGetFails, Edit, OutOfDate, Drift, Collect, vars, pass

LEMMA PassFitsSpecStep ==
    ASSUME IInv, [Next]_vars
    PROVE  PassFitsSpec'
<1> USE DEF store, informer, queue, pass, azure
<1>0. TypeOK /\ VersionsOrdered /\ PassFitsSpec
  BY DEF IInv
<1>1. CASE \/ Touch \/ Delete \/ Crash \/ Start \/ Deliver \/ TimerFires
           \/ ReconcileAbsent \/ ReconcileGetFails
           \/ (\E s \in Specs : Edit(s))
           \/ (\E o \in Objects : Drift(o) \/ Collect(o))
           \/ UNCHANGED vars
  <2>1. CASE pc' \in {"down", "idle"}
    BY <2>1 DEF PassFitsSpec
  <2>2. CASE UNCHANGED <<pc, p>>
    <3>1. InPass => specs'[p'.gen] = specs[p.gen]
      BY <1>0, <2>2, HistoryKept, Numbers DEF VersionsOrdered
    <3> QED
      BY <1>0, <2>2, <3>1 DEF PassFitsSpec, InPass
  <2> QED
    BY <1>1, <2>1, <2>2, PassKept
<1>2. CASE ReconcileInvalid
  <2>1. /\ specs'[p'.gen] = specs[cache.gen] /\ pc' = "writing"
        /\ Verdict(specs[cache.gen]) = "error" /\ p'.status.phase = "Degraded"
    BY <1>0, <1>2, InvalidStep DEF ReconcileInvalid, Begin
  <2> QED
    BY <2>1 DEF PassFitsSpec
<1>3. CASE ReconcileBlocked
  <2>1. /\ specs'[p'.gen] = specs[cache.gen] /\ pc' = "writing"
        /\ Verdict(specs[cache.gen]) = "blocked" /\ p'.status.phase = "Blocked"
    BY <1>0, <1>3, BlockedStep DEF ReconcileBlocked, Begin
  <2> QED
    BY <2>1 DEF PassFitsSpec
<1>4. CASE ReconcileKubernetes
  <2>1. /\ specs'[p'.gen] = specs[cache.gen] /\ pc' = "applying"
        /\ Verdict(specs[cache.gen]) = "ok" /\ OnKubernetes(specs[cache.gen])
    BY <1>0, <1>4, KubernetesStep DEF ReconcileKubernetes, Begin
  <2> QED
    BY <2>1 DEF PassFitsSpec
<1>5. CASE ReconcileAzure
  <2>1. /\ specs'[p'.gen] = specs[cache.gen] /\ pc' = "triggering"
        /\ Verdict(specs[cache.gen]) = "ok" /\ specs[cache.gen].target = "azure"
        /\ p'.status.phase = "Applying"
    BY <1>0, <1>5, AzureStep DEF ReconcileAzure, Begin
  <2> QED
    BY <2>1 DEF PassFitsSpec
<1>6. CASE ApplyAccepted \/ ApplyRefused \/ ApplyReplyLost
  BY <1>0, <1>6 DEF ApplyAccepted, ApplyRefused, ApplyReplyLost, PassFitsSpec
<1>7. CASE FinishApply
  <2>1. /\ specs'[p'.gen] = specs[p.gen] /\ pc' = "writing"
        /\ Verdict(specs[p.gen]) = "ok" /\ p'.status.phase \in {"Ready", "Degraded"}
    BY <1>0, <1>7, FinishStep DEF FinishApply, PassFitsSpec
  <2> QED
    BY <2>1 DEF PassFitsSpec
<1>8. CASE TriggerAccepted
  <2>1. /\ specs'[p'.gen] = specs[p.gen] /\ pc' = "writing"
        /\ Verdict(specs[p.gen]) = "ok" /\ p'.status.phase = "Applying"
    BY <1>0, <1>8, TriggeredStep DEF TriggerAccepted, PassFitsSpec
  <2> QED
    BY <2>1 DEF PassFitsSpec
<1>9. CASE TriggerRefused \/ TriggerReplyLost
  <2>1. pc = "triggering" /\ TriggerFails
    BY <1>9 DEF TriggerRefused, TriggerReplyLost
  <2>2. /\ specs'[p'.gen] = specs[p.gen] /\ pc' = "writing"
        /\ Verdict(specs[p.gen]) = "ok" /\ p'.status.phase = "Degraded"
    BY <1>0, <2>1, TriggerFailsStep DEF TriggerFails, PassFitsSpec
  <2> QED
    BY <2>2 DEF PassFitsSpec
<1>10. CASE UpdateAccepted \/ UpdateReplyLost \/ UpdateConflicts \/ UpdateFails
  BY <1>10, PassEnds DEF PassFitsSpec
<1> QED
  BY <1>1, <1>2, <1>3, <1>4, <1>5, <1>6, <1>7, <1>8, <1>9, <1>10
     DEF Next, Environment, Runtime, Reconcile

-----------------------------------------------------------------------------
(***************************************************************************)
(* What has been applied stays applied, from that generation or a later one.*)
(***************************************************************************)

\* What a pass applies is made of its own generation.
LEMMA MadeNow ==
    ASSUME TypeOK, VersionsOrdered, InPass, NEW g \in Nat, g <= p.gen
    PROVE  MadeSince(PlanHash(specs[p.gen]), g)
  BY Numbers DEF VersionsOrdered, MadeSince

\* A step changes an object's content to that of the pass, to drift, or, when
\* its owner is gone for it, to nothing.
LEMMA LiveSteps ==
    ASSUME TypeOK, [Next]_vars, exists', NEW o \in Objects, Lasting(o)
    PROVE  \/ live'[o] \in {live[o], Drifted}
           \/ InPass /\ live'[o] = PlanHash(specs[p.gen])
<1> USE DEF store, informer, queue, pass, azure
<1>0. live \in [Objects -> Hashes]
  BY DEF TypeOK
<1>1. CASE \E x \in Objects : Collect(x)
  <2>1. PICK x \in Objects : Collect(x)
    BY <1>1
  <2>2. exists /\ x # o
    BY <2>1 DEF Collect, OwnerGone, Lasting
  <2> QED
    BY <1>0, <2>1, <2>2 DEF Collect
<1>2. CASE \E x \in Objects : Drift(x)
  BY <1>0, <1>2 DEF Drift
<1>3. CASE ApplyAccepted \/ ApplyReplyLost
  <2>1. pc = "applying"
        /\ live' = [live EXCEPT ![Head(todo)] = PlanHash(specs[p.gen])]
    BY <1>3 DEF ApplyAccepted, ApplyReplyLost
  <2> QED
    BY <1>0, <2>1 DEF InPass
<1>4. CASE live' = live
  BY <1>4
<1> QED
  BY <1>1, <1>2, <1>3, <1>4 DEF Next, Environment, Runtime, Reconcile, vars,
     Touch, Delete, Edit, OutOfDate, Crash, Start, Deliver, TimerFires,
     ReconcileAbsent, ReconcileGetFails, ReconcileInvalid, ReconcileBlocked,
     ReconcileKubernetes, ReconcileAzure, ApplyRefused, FinishApply,
     TriggerAccepted, TriggerRefused, TriggerReplyLost, TriggerFails, UpdateLands,
     UpdateAccepted, UpdateReplyLost, UpdateConflicts, UpdateFails

LEMMA PipelineSteps ==
    ASSUME [Next]_vars
    PROVE  \/ pipeline' = pipeline
           \/ InPass /\ pipeline' = PlanHash(specs[p.gen])
<1> USE DEF store, informer, queue, pass, azure
<1>1. CASE TriggerAccepted \/ TriggerReplyLost
  BY <1>1 DEF TriggerAccepted, TriggerReplyLost, RunStarts, InPass
<1> QED
  BY <1>1 DEF Next, Environment, Runtime, Reconcile, vars, Collect, Drift,
     Touch, Delete, Edit, OutOfDate, Crash, Start, Deliver, TimerFires,
     ReconcileAbsent, ReconcileGetFails, ReconcileInvalid, ReconcileBlocked,
     ReconcileKubernetes, ReconcileAzure, ApplyAccepted, ApplyReplyLost,
     ApplyRefused, FinishApply, TriggerRefused, TriggerFails, UpdateLands,
     UpdateAccepted, UpdateReplyLost, UpdateConflicts, UpdateFails

LEMMA AppliedSinceKept ==
    ASSUME TypeOK, VersionsOrdered, [Next]_vars, exists',
           NEW o \in Objects, Lasting(o),
           NEW g \in 1..generation, InPass => g <= p.gen, AppliedSince(o, g)
    PROVE  AppliedSince(o, g)'
<1>1. g \in Nat
  BY Numbers
<1>2. CASE live'[o] = Drifted
  BY <1>2 DEF AppliedSince
<1>3. CASE live'[o] # Drifted
  <2>1. MadeSince(live'[o], g)
    BY <1>1, <1>3, LiveSteps, MadeNow DEF AppliedSince
  <2> DEFINE x == live'[o]
  <2>2. MadeSince(x, g)
    BY <2>1
  <2> HIDE DEF x
  <2>3. \E k \in g..generation' : x = PlanHash(specs'[k])
    BY <2>2, HistoryKept DEF MadeSince
  <2> QED
    BY <2>3 DEF x, AppliedSince, MadeSince
<1> QED
  BY <1>2, <1>3

LEMMA AppliedKept ==
    ASSUME TypeOK, VersionsOrdered, [Next]_vars, exists',
           NEW g \in 1..generation, InPass => g <= p.gen, Applied(g)
    PROVE  Applied(g)'
<1>1. g \in Nat /\ specs'[g] = specs[g] /\ specs[g] \in Specs
  BY HistoryKept, Numbers DEF TypeOK, generation
<1>2. CASE OnKubernetes(specs[g])
  <2>1. RenderedObjects(specs[g]) \subseteq Objects
    BY <1>1, RenderedType
  <2>2. ASSUME NEW o \in RenderedObjects(specs[g]), Lasting(o)
        PROVE  AppliedSince(o, g)'
    BY <1>2, <2>1, <2>2, AppliedSinceKept DEF Applied
  <2> QED
    BY <1>1, <1>2, <2>2 DEF Applied, Lasting
<1>3. CASE ~OnKubernetes(specs[g])
  <2>1. MadeSince(pipeline', g)
    BY <1>1, <1>3, PipelineSteps, MadeNow DEF Applied
  <2> DEFINE x == pipeline'
  <2>2. MadeSince(x, g)
    BY <2>1
  <2> HIDE DEF x
  <2>3. \E k \in g..generation' : x = PlanHash(specs'[k])
    BY <2>2, HistoryKept DEF MadeSince
  <2> QED
    BY <1>1, <1>3, <2>3 DEF x, Applied, MadeSince
<1> QED
  BY <1>2, <1>3

\* Who recreates a Pack?  Nobody.
LEMMA NeverRecreated ==
    ASSUME [Next]_vars, exists'
    PROVE  exists
  BY DEF Next, Environment, Runtime, Reconcile, vars, store, Collect, Drift,
     Touch, Delete, Edit, OutOfDate, Crash, Start, Deliver, TimerFires,
     ReconcileAbsent, ReconcileGetFails, ReconcileInvalid, ReconcileBlocked,
     ReconcileKubernetes, ReconcileAzure, ApplyAccepted, ApplyReplyLost,
     ApplyRefused, FinishApply, TriggerAccepted, TriggerRefused, TriggerReplyLost,
     TriggerFails, UpdateLands, UpdateAccepted, UpdateReplyLost, UpdateConflicts,
     UpdateFails

LEMMA AppliedSoFarStep ==
    ASSUME IInv, [Next]_vars
    PROVE  AppliedSoFar'
<1> USE DEF store, informer, queue, pass, azure
<1>0. TypeOK /\ VersionsOrdered /\ AppliedSoFar
  BY DEF IInv
<1> SUFFICES ASSUME pc' = "applying", exists', NEW o \in RenderedObjects(specs'[p'.gen])
             PROVE  \/ \E i \in 1..Len(todo') : todo'[i] = o
                    \/ o.kind \in failed'
                    \/ Lasting(o) => AppliedSince(o, p.gen)'
  BY DEF AppliedSoFar, Lasting
<1>e. exists
  BY NeverRecreated
<1>a. ASSUME pc = "applying", p' = p
      PROVE  /\ o \in RenderedObjects(specs[p.gen]) /\ o \in Objects
             /\ p.gen \in 1..generation /\ InPass
  <2>1. InPass /\ p.gen \in 1..generation
    BY <1>0, <1>a, Numbers DEF InPass, VersionsOrdered
  <2>2. specs'[p.gen] = specs[p.gen] /\ specs[p.gen] \in Specs
    BY <1>0, <2>1, HistoryKept, ReadType
  <2> QED
    BY <1>a, <2>1, <2>2, RenderedType
<1>b. ASSUME pc = "applying", p' = p, Lasting(o) => AppliedSince(o, p.gen)
      PROVE  Lasting(o) => AppliedSince(o, p.gen)'
  <2> SUFFICES ASSUME Lasting(o) PROVE AppliedSince(o, p.gen)'
    OBVIOUS
  <2>1. PICK g \in 1..generation : g = p.gen
    BY <1>a, <1>b
  <2>2. AppliedSince(o, g)'
    BY <1>0, <1>a, <1>b, <2>1, AppliedSinceKept
  <2>3. live'[o] = Drifted \/ \E k \in g..generation' : live'[o] = PlanHash(specs'[k])
    BY <2>2 DEF AppliedSince, MadeSince
  <2>4. p'.gen = g
    BY <1>b, <2>1
  <2> QED
    BY <2>3, <2>4 DEF AppliedSince, MadeSince
<1>1. CASE \/ Touch \/ Delete \/ Crash \/ Start \/ Deliver \/ TimerFires
           \/ ReconcileAbsent \/ ReconcileGetFails
           \/ (\E s \in Specs : Edit(s))
           \/ (\E x \in Objects : Drift(x) \/ Collect(x))
           \/ UNCHANGED vars
  <2>1. UNCHANGED <<pc, p, todo, applied, failed>>
    BY <1>1, PassKept
  <2> QED
    BY <1>0, <1>a, <1>b, <1>e, <2>1 DEF AppliedSoFar
<1>2. CASE ReconcileKubernetes
  <2>1. /\ specs'[p'.gen] = specs[cache.gen] /\ todo' = Rendered(specs[cache.gen])
    BY <1>0, <1>2, KubernetesStep DEF ReconcileKubernetes, Begin
  <2> QED
    BY <2>1 DEF RenderedObjects
<1>3. CASE ApplyAccepted \/ ApplyReplyLost \/ ApplyRefused
  <2>1. /\ pc = "applying" /\ p' = p /\ todo # <<>> /\ todo' = Tail(todo)
        /\ failed \subseteq failed'
        /\ \/ live' = [live EXCEPT ![Head(todo)] = PlanHash(specs[p.gen])]
           \/ Head(todo).kind \in failed'
    BY <1>3 DEF ApplyAccepted, ApplyReplyLost, ApplyRefused
  <2>2. CASE \E i \in 1..Len(todo) : todo[i] = o
    <3>0. todo \in Seq(Objects)
      BY <1>0 DEF TypeOK
    <3>1. PICK i \in 1..Len(todo) : todo[i] = o
      BY <2>2
    <3>2. CASE i # 1
      <4>1. i - 1 \in 1..Len(Tail(todo)) /\ Tail(todo)[i - 1] = o
        BY <2>1, <3>0, <3>1, <3>2
      <4> QED
        BY <2>1, <4>1
    <3>3. CASE i = 1 /\ o.kind \notin failed'
      <4>1. Head(todo) = o
        BY <3>0, <3>1, <3>3
      <4>2. live'[o] = PlanHash(specs[p.gen])
        BY <1>0, <1>a, <2>1, <3>3, <4>1 DEF TypeOK
      <4>3. specs'[p'.gen] = specs[p.gen]
            /\ p'.gen \in p'.gen..generation'
        BY <1>0, <1>a, <2>1, HistoryKept
      <4>4. AppliedSince(o, p.gen)'
        BY <4>2, <4>3 DEF AppliedSince, MadeSince
      <4> QED
        BY <4>4
    <3> QED
      BY <3>2, <3>3
  <2>3. CASE ~\E i \in 1..Len(todo) : todo[i] = o
    BY <1>0, <1>a, <1>b, <1>e, <2>1, <2>3 DEF AppliedSoFar
  <2> QED
    BY <2>2, <2>3
<1>4. CASE \/ ReconcileInvalid \/ ReconcileBlocked \/ ReconcileAzure \/ FinishApply
           \/ TriggerAccepted \/ TriggerRefused \/ TriggerReplyLost
           \/ UpdateAccepted \/ UpdateReplyLost \/ UpdateConflicts \/ UpdateFails
  BY <1>4 DEF ReconcileInvalid, ReconcileBlocked, ReconcileAzure, FinishApply,
     TriggerAccepted, TriggerRefused, TriggerReplyLost, TriggerFails, UpdateLands,
     UpdateAccepted, UpdateReplyLost, UpdateConflicts, UpdateFails, Done
<1> QED
  BY <1>1, <1>2, <1>3, <1>4 DEF Next, Environment, Runtime, Reconcile

-----------------------------------------------------------------------------
(***************************************************************************)
(* What is reported is true.                                               *)
(***************************************************************************)

LEMMA WritesTruthStep ==
    ASSUME IInv, [Next]_vars
    PROVE  WritesTruth'
<1> USE DEF store, informer, queue, pass, azure
<1>0. TypeOK /\ VersionsOrdered /\ PassFitsSpec /\ AppliedSoFar /\ WritesTruth
  BY DEF IInv
<1>a. ASSUME InPass, p'.gen = p.gen, exists', Applied(p.gen)
      PROVE  Applied(p.gen)'
  <2>1. PICK g \in 1..generation : g = p.gen
    BY <1>0, <1>a, Numbers DEF VersionsOrdered
  <2>2. g \in Nat /\ g <= p.gen /\ Applied(g)
    BY <1>a, <2>1
  <2>3. Applied(g)'
    BY <1>0, <1>a, <2>1, <2>2, AppliedKept
  <2>4. p'.gen = g
    BY <1>a, <2>1
  <2> QED
    BY <2>3, <2>4 DEF Applied, AppliedSince, MadeSince
<1>1. CASE \/ Touch \/ Delete \/ Crash \/ Start \/ Deliver \/ TimerFires
           \/ ReconcileAbsent \/ ReconcileGetFails
           \/ (\E s \in Specs : Edit(s))
           \/ (\E o \in Objects : Drift(o) \/ Collect(o))
           \/ UNCHANGED vars
  <2>1. CASE pc' \in {"down", "idle"}
    BY <2>1 DEF WritesTruth
  <2>2. CASE UNCHANGED <<pc, p>>
    BY <1>0, <1>a, <2>2, NeverRecreated DEF WritesTruth, InPass
  <2> QED
    BY <1>1, <2>1, <2>2, PassKept
<1>2. CASE ReconcileInvalid \/ ReconcileBlocked
  <2>1. p'.status.obs = p'.gen /\ p'.status.conditions["Ready"].status = "False"
    BY <1>0, <1>2, InvalidStep, BlockedStep
  <2> QED
    BY <2>1 DEF WritesTruth
<1>3. CASE FinishApply
  <2>1. /\ p'.status.obs = p.gen /\ p'.gen = p.gen /\ InPass /\ pc = "applying"
        /\ todo = <<>>
        /\ \/ p'.status.conditions["Ready"].status = "False"
           \/ failed = {} /\ p'.status.conditions["Ready"].gen = p.gen
    BY <1>0, <1>3, FinishStep DEF FinishApply, InPass
  <2>2. ASSUME failed = {}, exists' PROVE Applied(p.gen)'
    <3>1. Applied(p.gen)
      BY <1>0, <2>1, <2>2, NeverRecreated DEF AppliedSoFar, PassFitsSpec, Applied
    <3> QED
      BY <1>a, <2>1, <2>2, <3>1
  <2> QED
    BY <2>1, <2>2 DEF WritesTruth
<1>4. CASE TriggerAccepted
  <2>1. /\ p'.status.obs = p.gen /\ p'.gen = p.gen /\ InPass /\ pc = "triggering"
        /\ p'.status.conditions["Ready"].gen = p.gen
        /\ pipeline' = PlanHash(specs[p.gen]) /\ specs' = specs
    BY <1>0, <1>4, TriggeredStep DEF TriggerAccepted, RunStarts, InPass
  <2>2. ~OnKubernetes(specs[p.gen])
    BY <1>0, <2>1, ReadType, TargetType DEF PassFitsSpec
  <2>3. p.gen \in p.gen..generation' /\ p.gen \in Nat
    BY <1>0, <2>1, HistoryKept, Numbers DEF VersionsOrdered
  <2>4. Applied(p.gen)'
    BY <2>1, <2>2, <2>3 DEF Applied, MadeSince
  <2> QED
    BY <2>1, <2>4 DEF WritesTruth
<1>5. CASE TriggerRefused \/ TriggerReplyLost
  <2>1. pc = "triggering" /\ TriggerFails
    BY <1>5 DEF TriggerRefused, TriggerReplyLost
  <2>2. p'.status.obs = p'.gen /\ p'.status.conditions["Ready"].status = "False"
    BY <1>0, <2>1, TriggerFailsStep
  <2> QED
    BY <2>2 DEF WritesTruth
<1>6. CASE \/ ReconcileKubernetes \/ ReconcileAzure
           \/ ApplyAccepted \/ ApplyRefused \/ ApplyReplyLost
           \/ UpdateAccepted \/ UpdateReplyLost \/ UpdateConflicts \/ UpdateFails
  <2>1. pc' # "writing"
    BY <1>6, PassEnds DEF ReconcileKubernetes, ReconcileAzure, ApplyAccepted,
       ApplyRefused, ApplyReplyLost
  <2> QED
    BY <2>1 DEF WritesTruth
<1> QED
  BY <1>1, <1>2, <1>3, <1>4, <1>5, <1>6 DEF Next, Environment, Runtime, Reconcile

\* Only an update that lands or a deletion changes the stored status.
LEMMA StatusSteps ==
    ASSUME [Next]_vars
    PROVE  \/ status' = status
           \/ UpdateLands
           \/ ~exists' /\ exists
  BY DEF Next, Environment, Runtime, Reconcile, vars, store, Collect, Drift,
     Touch, Delete, Edit, OutOfDate, Crash, Start, Deliver, TimerFires,
     ReconcileAbsent, ReconcileGetFails, ReconcileInvalid, ReconcileBlocked,
     ReconcileKubernetes, ReconcileAzure, ApplyAccepted, ApplyReplyLost,
     ApplyRefused, FinishApply, TriggerAccepted, TriggerRefused, TriggerReplyLost,
     TriggerFails, UpdateAccepted, UpdateReplyLost, UpdateConflicts, UpdateFails

LEMMA ReportsTruthStep ==
    ASSUME IInv, [Next]_vars
    PROVE  ReportsTruth'
<1>0. /\ TypeOK /\ VersionsOrdered /\ VersionsCompared /\ WritesTruth /\ ReportsTruth
      /\ generation \in Nat /\ p.gen \in Nat /\ status.obs \in Nat
  BY Numbers DEF IInv
<1> SUFFICES ASSUME status'.conditions["Ready"].status = "True"
             PROVE  /\ status'.conditions["Ready"].gen \in 1..status'.obs
                    /\ Applied(status.conditions["Ready"].gen)'
  BY DEF ReportsTruth
<1>1. exists'
  BY VersionsOrderedStep, EmptyCopy DEF VersionsOrdered
<1>2. exists
  BY <1>1, NeverRecreated
<1>3. \E g \in 1..generation : /\ status'.conditions["Ready"].gen = g
                               /\ g <= status'.obs
                               /\ InPass => g <= p.gen
                               /\ Applied(g)
  <2>1. CASE status' = status
    <3>1. status.conditions["Ready"].gen \in 1..status.obs
          /\ Applied(status.conditions["Ready"].gen)
      BY <1>0, <2>1 DEF ReportsTruth
    <3>2. status.obs <= generation /\ (InPass => status.obs <= p.gen)
      BY <1>0 DEF VersionsOrdered
    <3> QED
      BY <1>0, <2>1, <3>1, <3>2
  <2>2. CASE UpdateLands
    <3>1. pc = "writing" /\ status' = p.status
      BY <2>2 DEF UpdateLands
    <3>2. /\ p.status.obs = p.gen /\ p.status.conditions["Ready"].gen = p.gen
          /\ Applied(p.gen)
      BY <1>0, <1>2, <3>1 DEF WritesTruth
    <3>3. p.gen \in 1..generation
      BY <1>0, <3>1 DEF VersionsOrdered, InPass
    <3> QED
      BY <1>0, <3>1, <3>2, <3>3
  <2> QED
    BY <1>1, <2>1, <2>2, StatusSteps
<1>4. PICK g \in 1..generation : /\ status'.conditions["Ready"].gen = g
                                 /\ g <= status'.obs
                                 /\ InPass => g <= p.gen
                                 /\ Applied(g)
  BY <1>3
<1>5. Applied(g)'
  BY <1>0, <1>1, <1>4, AppliedKept
<1>6. status'.obs \in Nat
  BY TypeStep DEF TypeOK, Statuses
<1>7. status'.conditions["Ready"].gen \in 1..status'.obs
  BY <1>0, <1>4, <1>6
<1> QED
  BY <1>4, <1>5, <1>7 DEF Applied, AppliedSince, MadeSince

-----------------------------------------------------------------------------
(***************************************************************************)
(* The worker never sleeps too long.                                       *)
(***************************************************************************)

LEMMA NeverAsleepStep ==
    ASSUME IInv, [Next]_vars
    PROVE  NeverAsleep'
<1> USE DEF store, informer, queue, pass, azure
<1>0. TypeOK /\ VersionsOrdered /\ VersionsCompared /\ WritesTruth /\ NeverAsleep
      /\ generation # 0
  BY Numbers DEF IInv
<1>1. CASE Touch \/ Delete \/ Crash \/ \E s \in Specs : Edit(s)
  <2>1. fresh' = FALSE
    BY <1>1 DEF Touch, Delete, Edit, OutOfDate, Crash
  <2> QED
    BY <2>1 DEF NeverAsleep
<1>2. CASE Start \/ Deliver \/ TimerFires \/ ReconcileGetFails
  <2>1. queued' \/ timer' \/ ~exists'
    BY <1>2 DEF Start, Deliver, TimerFires, ReconcileGetFails
  <2> QED
    BY <2>1 DEF NeverAsleep
<1>3. CASE ReconcileAbsent
  <2>1. UNCHANGED <<exists, fresh>> /\ cache.gen = 0
    BY <1>3 DEF ReconcileAbsent
  <2>2. fresh => ~exists
    BY <1>0, <2>1, StoredIs DEF VersionsCompared
  <2> QED
    BY <2>1, <2>2 DEF NeverAsleep
<1>4. CASE \/ ReconcileInvalid \/ ReconcileBlocked \/ ReconcileKubernetes
           \/ ReconcileAzure \/ ApplyAccepted \/ ApplyRefused \/ ApplyReplyLost
           \/ FinishApply \/ TriggerAccepted \/ TriggerRefused \/ TriggerReplyLost
  <2>1. pc' # "idle"
    BY <1>4 DEF ReconcileInvalid, ReconcileBlocked, ReconcileKubernetes,
       ReconcileAzure, ApplyAccepted, ApplyRefused, ApplyReplyLost, FinishApply,
       TriggerAccepted, TriggerRefused, TriggerReplyLost, TriggerFails
  <2> QED
    BY <2>1 DEF NeverAsleep
<1>5. CASE UpdateAccepted \/ UpdateReplyLost \/ UpdateConflicts \/ UpdateFails
  <2>1. CASE timer'
    BY <2>1 DEF NeverAsleep
  <2>2. CASE UpdateAccepted /\ p.status.phase = "Blocked"
    <3>1. pc = "writing" /\ current /\ status' = p.status /\ UNCHANGED specs
      BY <2>2 DEF UpdateAccepted, UpdateLands
    <3>2. p.gen = generation /\ p.status.obs = p.gen
      BY <1>0, <3>1 DEF VersionsCompared, WritesTruth
    <3>3. status'.phase = "Blocked" /\ status'.obs = generation'
      BY <2>2, <3>1, <3>2 DEF generation
    <3> QED
      BY <3>3 DEF NeverAsleep
  <2> QED
    BY <1>5, <2>1, <2>2, PassEnds
<1>6. CASE (\E o \in Objects : Drift(o) \/ Collect(o)) \/ UNCHANGED vars
  <2>1. UNCHANGED <<specs, exists, status, pc, queued, timer, fresh>>
    BY <1>6 DEF Drift, Collect, vars
  <2> QED
    BY <1>0, <2>1 DEF NeverAsleep, generation
<1> QED
  BY <1>1, <1>2, <1>3, <1>4, <1>5, <1>6 DEF Next, Environment, Runtime, Reconcile

-----------------------------------------------------------------------------
(***************************************************************************)
(* The theorems.                                                           *)
(***************************************************************************)

\* Only an edit, a deletion and an update that lands change the store.
LEMMA StoreSteps ==
    ASSUME [Next]_vars
    PROVE  \/ \E s \in Specs : Edit(s)
           \/ Delete
           \/ UpdateLands
           \/ UNCHANGED <<specs, exists, status>>
  BY DEF Next, Environment, Runtime, Reconcile, vars, store, Collect, Drift,
     Touch, OutOfDate, Crash, Start, Deliver, TimerFires,
     ReconcileAbsent, ReconcileGetFails, ReconcileInvalid, ReconcileBlocked,
     ReconcileKubernetes, ReconcileAzure, ApplyAccepted, ApplyReplyLost,
     ApplyRefused, FinishApply, TriggerAccepted, TriggerRefused, TriggerReplyLost,
     TriggerFails, UpdateAccepted, UpdateReplyLost, UpdateConflicts, UpdateFails

\* The core of the promise is the core of the reconciler.
LEMMA SameVerdict == \A s : Promise!Verdict(s) = Verdict(s)
  BY DEF Verdict, ParseFails, RefsBlock, PlanFails, Promise!Verdict,
         Promise!ParseFails, Promise!RefsBlock, Promise!PlanFails

LEMMA IInvStep == IInv /\ [Next]_vars => IInv'
<1> SUFFICES ASSUME IInv, [Next]_vars
             PROVE  IInv'
  OBVIOUS
<1>1. TypeOK'
  BY TypeStep
<1>2. VersionsOrdered' /\ VersionsCompared' /\ RunsOrdered'
  BY VersionsOrderedStep, VersionsComparedStep, RunsOrderedStep
<1>3. PassFitsSpec' /\ AppliedSoFar' /\ WritesTruth' /\ ReportsTruth'
  BY PassFitsSpecStep, AppliedSoFarStep, WritesTruthStep, ReportsTruthStep
<1>4. NeverAsleep'
  BY NeverAsleepStep
<1> QED
  BY <1>1, <1>2, <1>3, <1>4 DEF IInv

\* Why the rest holds: versions stay in order through stale copies, crashes and
\* edits, the phase of a pass fits the spec it works on, and what a pass is about
\* to say of the objects is what it has done (Reconcile, pack_controller.go:86-171).
THEOREM Invariance == Spec => []IInv
<1>1. Init => IInv
  BY InitInvariant
<1>2. IInv /\ [Next]_vars => IInv'
  BY IInvStep
<1> QED
  BY <1>1, <1>2, PTL DEF Spec

\* Every variable keeps the shape the code gives it, whatever the specs and
\* the bounds: in particular no pass works on a generation that never was
\* (Reconcile, pack_controller.go:86-171).
THEOREM TypeCorrect == Spec => []TypeOK
<1>1. IInv => TypeOK
  BY DEF IInv
<1> QED
  BY <1>1, Invariance, PTL

\* A Pack whose Ready condition is True has had everything applied that the
\* spec it is stamped with renders, or its pipeline runs on that spec or a later
\* one, in spite of stale copies, lost replies, conflicts, crashes and edits in
\* the middle of a pass (markReady, pack_controller.go:162-166).
THEOREM ReadyIsTruthful == Spec => []ReadyMeansApplied
<1>1. IInv => ReadyMeansApplied
  BY DEF IInv, ReportsTruth, ReadyMeansApplied, Applied
<1> QED
  BY <1>1, Invariance, PTL

\* The worker rests with nothing to wake it only on a deleted Pack, or on one
\* that is blocked on its latest spec (the Results of Reconcile and the queue).
THEOREM WorkIsNeverLost == Spec => []NeverAsleep
<1>1. IInv => NeverAsleep
  BY DEF IInv
<1> QED
  BY <1>1, Invariance, PTL

\* The status never goes back to an older generation, nor to an older pipeline
\* run: the conditional update of the status subresource keeps every pass that
\* was overtaken from writing (pack_controller.go:118, 167, 260).
THEOREM StatusMovesForward == Spec => StatusNeverRegresses
<1> DEFINE Forward == exists' => status'.obs >= status.obs /\ status'.run >= status.run
<1>1. IInv /\ [Next]_vars => [Forward]_status
  <2> SUFFICES ASSUME IInv, [Next]_vars, status' # status, exists'
               PROVE  status'.obs >= status.obs /\ status'.run >= status.run
    OBVIOUS
  <2>0. /\ VersionsOrdered /\ VersionsCompared /\ RunsOrdered /\ WritesTruth
        /\ status.obs \in Nat /\ status.run \in Nat
        /\ p.gen \in Nat /\ p.status.run \in Nat
    BY Numbers DEF IInv
  <2>1. UpdateLands
    BY StatusSteps
  <2>2. pc = "writing" /\ current /\ status' = p.status
    BY <2>1 DEF UpdateLands
  <2>3. status'.obs = p.gen /\ status.obs <= p.gen
    BY <2>0, <2>2 DEF WritesTruth, VersionsOrdered, InPass
  <2>4. status.run <= status'.run
    BY <2>0, <2>2 DEF RunsOrdered
  <2>5. status'.obs >= status.obs
    BY <2>0, <2>3
  <2>6. status'.run >= status.run
    BY <2>0, <2>2, <2>4
  <2> QED
    BY <2>5, <2>6
<1> QED
  BY <1>1, Invariance, PTL DEF Spec, StatusNeverRegresses

\* The reconciler implements PackPromise: each status it publishes is a verdict
\* that the spec current at that very instant can have, although the pass that
\* publishes it has worked on a copy (the resourceVersion of r.Status().Update).
THEOREM KeepsThePromise == Spec => PromiseSafe
<1>1. Init => Promise!Init
  BY EmptyCopy DEF Init, Promise!Init, Promise!NoReport
<1>2. IInv /\ [Next]_vars => [Promise!Next]_(Promise!vars)
  <2> SUFFICES ASSUME IInv, [Next]_vars
               PROVE  Promise!Next \/ UNCHANGED Promise!vars
    OBVIOUS
  <2>r. ASSUME NEW outcome \in Promise!Outcomes, exists,
               UNCHANGED <<specs, exists>>,
               Promise!MayBe(specs[generation], outcome),
               status'.obs = generation,
               \/ status'.phase = "Ready" /\ outcome = "ready"
               \/ status'.phase = "Applying" /\ outcome = "ready"
               \/ status'.phase = "Degraded" /\ outcome = "degraded"
               \/ status'.phase = "Blocked" /\ outcome = "blocked"
        PROVE  Promise!Report
    BY <2>r DEF generation, Promise!Report
  <2>1. CASE \E s \in Specs : Edit(s)
    BY <2>1 DEF Edit, Spec0, generation, Promise!Next, Promise!Edit
  <2>2. CASE Delete
    BY <2>2, EmptyCopy DEF Delete, store, Promise!Next, Promise!Delete, Promise!NoReport
  <2>3. CASE UpdateLands
    <3>0. /\ pc = "writing" /\ current /\ status' = p.status
          /\ UNCHANGED <<specs, exists>>
      BY <2>3 DEF UpdateLands
    <3>1. exists /\ p.gen = generation /\ p.status.obs = generation
      BY <3>0 DEF IInv, VersionsCompared, WritesTruth
    <3>2. Verdict(specs[generation]) \in Verdicts
      BY <3>0, <3>1, ReadType, VerdictType DEF IInv, InPass
    <3>3. CASE Verdict(specs[generation]) = "ok"
      <4>1. status'.phase \in {"Ready", "Applying", "Degraded"}
        BY <3>0, <3>1, <3>3 DEF IInv, PassFitsSpec
      <4>2. CASE status'.phase \in {"Ready", "Applying"}
        <5>1. Promise!MayBe(specs[generation], "ready")
          BY <3>3, SameVerdict DEF Promise!MayBe
        <5> QED
          BY <2>r, <3>0, <3>1, <4>2, <5>1 DEF Promise!Next, Promise!Outcomes
      <4>3. CASE status'.phase = "Degraded"
        <5>1. Promise!MayBe(specs[generation], "degraded")
          BY <3>3, SameVerdict DEF Promise!MayBe
        <5> QED
          BY <2>r, <3>0, <3>1, <4>3, <5>1 DEF Promise!Next, Promise!Outcomes
      <4> QED
        BY <4>1, <4>2, <4>3
    <3>4. CASE Verdict(specs[generation]) = "blocked"
      <4>1. status'.phase = "Blocked"
        BY <3>0, <3>1, <3>4 DEF IInv, PassFitsSpec
      <4>2. Promise!MayBe(specs[generation], "blocked")
        BY <3>4, SameVerdict DEF Promise!MayBe
      <4> QED
        BY <2>r, <3>0, <3>1, <4>1, <4>2 DEF Promise!Next, Promise!Outcomes
    <3>5. CASE Verdict(specs[generation]) = "error"
      <4>1. status'.phase = "Degraded"
        BY <3>0, <3>1, <3>5 DEF IInv, PassFitsSpec
      <4>2. Promise!MayBe(specs[generation], "degraded")
        BY <3>5, SameVerdict DEF Promise!MayBe
      <4> QED
        BY <2>r, <3>0, <3>1, <4>1, <4>2 DEF Promise!Next, Promise!Outcomes
    <3> QED
      BY <3>2, <3>3, <3>4, <3>5 DEF Verdicts
  <2>4. CASE UNCHANGED <<specs, exists, status>>
    BY <2>4 DEF Promise!vars
  <2> QED
    BY <2>1, <2>2, <2>3, <2>4, StoreSteps
<1> QED
  BY <1>1, <1>2, Invariance, PTL DEF Spec, PromiseSafe, Promise!Spec
=============================================================================
