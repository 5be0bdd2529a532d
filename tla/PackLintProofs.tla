---------------------------- MODULE PackLintProofs ----------------------------
(***************************************************************************)
(* packlint's exit code tells the truth and the tier reached agrees with   *)
(* the findings, for every set of manifests and every command line.        *)
(***************************************************************************)
EXTENDS PackLint, TLAPS

-----------------------------------------------------------------------------
(***************************************************************************)
(* The errors of each pass.                                                *)
(***************************************************************************)

LEMMA ErrorsOfUnion ==
    ASSUME NEW A, NEW B
    PROVE  HasErrors(A \cup B) <=> HasErrors(A) \/ HasErrors(B)
  BY DEF HasErrors

LEMMA SchemaErrors ==
    ASSUME NEW m
    PROVE  HasErrors(Schema(m)) <=> m.malformed \/ m.criticality \notin Tiers
  BY DEF HasErrors, Schema, Finding

LEMMA RefsErrors ==
    ASSUME NEW m
    PROVE  HasErrors(Refs(m)) <=> m.dangling
  BY DEF HasErrors, Refs, Finding

\* A version is an error when it is enforced and out of its bounds.
LEMMA VersionErrors ==
    ASSUME NEW v
    PROVE  HasErrors(evalVersion(v)) <=>
             /\ v.gating = "enforce" /\ v.declared # <<>>
             /\ Broken(v) # {}
<1> DEFINE Kept == IF v.declared = <<>> \/ v.gating = "off" THEN {} ELSE Broken(v)
<1>1. evalVersion(v) =
        {Finding(IF v.gating = "enforce" THEN "error" ELSE "warn", "versions", b) :
            b \in Kept}
  BY DEF evalVersion
<1>2. \A b : Finding(IF v.gating = "enforce" THEN "error" ELSE "warn", "versions", b).severity
             = IF v.gating = "enforce" THEN "error" ELSE "warn"
  BY DEF Finding
<1>3. HasErrors(evalVersion(v)) <=>
        \E b \in Kept : v.gating = "enforce"
  BY <1>1, <1>2 DEF HasErrors
<1>4. CASE v.gating = "enforce"
  BY <1>3, <1>4
<1>5. CASE v.gating # "enforce"
  BY <1>3, <1>5
<1> QED
  BY <1>4, <1>5

LEMMA BrokenVersion ==
    ASSUME NEW v
    PROVE  Broken(v) = {} <=>
             /\ v.min # <<>> => ~versionLT(v.declared, v.min)
             /\ v.max # <<>> => ~versionLT(v.max, v.declared)
  BY DEF Broken

LEMMA ProductErrors ==
    ASSUME NEW p
    PROVE  ~HasErrors(checkProduct(p))
<1>1. Finding("warn", "registry", "unknown_product").severity # "error"
  BY DEF Finding
<1>2. checkProduct(p) \subseteq {Finding("warn", "registry", "unknown_product")}
  BY DEF checkProduct
<1> QED
  BY <1>1, <1>2 DEF HasErrors

LEMMA RefErrors ==
    ASSUME NEW r \in Reference, NEW ids
    PROVE  HasErrors(resolveBackendRef(r, ids)) <=>
             ~(r.kind = "external" \/ (r.kind = "id" /\ r.id \in ids))
<1>1. r.kind \in {"empty", "external", "id"}
  BY DEF Reference
<1>2. CASE r.kind = "empty"
  BY <1>2 DEF resolveBackendRef, HasErrors, Finding
<1>3. CASE r.kind = "external"
  BY <1>3 DEF resolveBackendRef, HasErrors, Finding
<1>4. CASE r.kind = "id"
  BY <1>4 DEF resolveBackendRef, HasErrors, Finding
<1> QED
  BY <1>1, <1>2, <1>3, <1>4

\* An ID occurs twice exactly when some backend repeats an earlier one.
LEMMA DuplicateErrors ==
    ASSUME NEW m \in Pack
    PROVE  HasErrors({Finding("error", "backends", "duplicate_id") : id \in DuplicateIDs(m)})
           <=> \E i, j \in DOMAIN m.backends :
                   m.backends[i].id = m.backends[j].id /\ i # j
<1>1. HasErrors({Finding("error", "backends", "duplicate_id") : id \in DuplicateIDs(m)})
      <=> DuplicateIDs(m) # {}
  <2>1. Finding("error", "backends", "duplicate_id").severity = "error"
    BY DEF Finding
  <2> QED
    BY <2>1 DEF HasErrors
<1>2. m.backends \in Seq(Backend)
  BY DEF Pack
<1>3. DOMAIN m.backends = 1..Len(m.backends) /\ Len(m.backends) \in Nat
  BY <1>2
<1>4. DuplicateIDs(m) # {} <=>
        \E i \in DOMAIN m.backends : \E k \in 1..(i - 1) :
            m.backends[k].id = m.backends[i].id
  BY DEF DuplicateIDs
<1>5. ASSUME NEW i \in DOMAIN m.backends, NEW k \in 1..(i - 1)
      PROVE  k \in DOMAIN m.backends /\ k # i
  BY <1>3, <1>5
<1>6. ASSUME NEW i \in DOMAIN m.backends, NEW j \in DOMAIN m.backends, i # j
      PROVE  i \in 1..(j - 1) \/ j \in 1..(i - 1)
  BY <1>3, <1>6
<1> QED
  BY <1>1, <1>4, <1>5, <1>6

LEMMA RefsTyped ==
    ASSUME NEW m \in Pack
    PROVE  backendRefs(m) \subseteq Reference
<1>1. /\ m.overlays \subseteq Reference
      /\ m.components \subseteq Component
      /\ m.storage \subseteq StorageBlock
  BY DEF Pack
<1>2. \A c \in m.components : c.backend \in Reference
  BY <1>1 DEF Component
<1>3. \A s \in m.storage : s.ref \subseteq Reference
  BY <1>1 DEF StorageBlock
<1> QED
  BY <1>1, <1>2, <1>3 DEF backendRefs

\* The backend lint has an error exactly when the catalogue is not sound.
LEMMA BackendErrors ==
    ASSUME NEW m \in Pack
    PROVE  HasErrors(Backends(m)) <=> ~Sound(m)
<1> DEFINE Duplicates ==
             {Finding("error", "backends", "duplicate_id") : id \in DuplicateIDs(m)}
           Versions == UNION {evalVersion(v) : v \in versionSpecs(m)}
           Products == UNION {checkProduct(p) : p \in products(m)}
           References ==
             UNION {resolveBackendRef(r, backendIDs(m)) : r \in backendRefs(m)}
<1>1. HasErrors(Backends(m)) <=>
        HasErrors(Duplicates) \/ HasErrors(Versions) \/ HasErrors(Products)
        \/ HasErrors(References)
  BY DEF Backends, HasErrors
<1>2. ~HasErrors(Products)
  BY ProductErrors DEF HasErrors
<1>3. HasErrors(Versions) <=>
        \E v \in versionSpecs(m) : HasErrors(evalVersion(v))
  BY DEF HasErrors
<1>4. HasErrors(Versions) <=>
        \E v \in Enforced(m) :
            ~ /\ v.min # <<>> => ~versionLT(v.declared, v.min)
              /\ v.max # <<>> => ~versionLT(v.max, v.declared)
  BY <1>3, VersionErrors, BrokenVersion DEF Enforced
<1>5. backendRefs(m) \subseteq Reference
  BY RefsTyped
<1>6. HasErrors(References) <=>
        \E r \in backendRefs(m) : HasErrors(resolveBackendRef(r, backendIDs(m)))
  BY DEF HasErrors
<1>7. HasErrors(References) <=>
        \E r \in backendRefs(m) :
            ~(r.kind = "external" \/ (r.kind = "id" /\ r.id \in backendIDs(m)))
  BY <1>5, <1>6, RefErrors
<1>8. HasErrors(Duplicates) <=>
        \E i, j \in DOMAIN m.backends :
            m.backends[i].id = m.backends[j].id /\ i # j
  BY DuplicateErrors
<1> HIDE DEF Duplicates, Versions, Products, References
<1> QED
  BY <1>1, <1>2, <1>4, <1>7, <1>8 DEF Sound

-----------------------------------------------------------------------------
(***************************************************************************)
(* The tiers.                                                              *)
(***************************************************************************)

\* At or below the target, what fails is an error.
LEMMA TierErrors ==
    ASSUME NEW checks, NEW tier, NEW target, ~(tierRank(tier) < tierRank(target))
    PROVE  HasErrors(emitFindings(checks, tier, target)) <=> ~allPass(checks)
<1>1. \A c : Finding(IF tierRank(tier) < tierRank(target) THEN "info" ELSE "error",
                     tier, c.id).severity = "error"
  BY DEF Finding
<1> QED
  BY <1>1 DEF emitFindings, HasErrors, allPass

\* Every tier of the target and below has clauses; those above have none.
LEMMA TiersScored ==
    ASSUME NEW m, TierTarget(m) \in Tiers
    PROVE  /\ Tier3(m) = scoreTier3(m)
           /\ Tier2(m) = IF TierTarget(m) = "tier-3" THEN {} ELSE scoreTier2(m)
           /\ Tier1(m) = IF TierTarget(m) = "tier-1" THEN scoreTier1(m) ELSE {}
           /\ scoreTier2(m) # {} /\ scoreTier1(m) # {}
<1>1. scoreTier2(m) # {}
  BY DEF scoreTier2
<1>2. scoreTier1(m) # {}
  BY DEF scoreTier1
<1>3. TierTarget(m) \in {"tier-2", "tier-1"} <=> TierTarget(m) # "tier-3"
  BY DEF Tiers
<1> QED
  BY <1>1, <1>2, <1>3 DEF Tier3, Tier2, Tier1

LEMMA Ranks ==
    /\ tierRank("tier-1") = 1 /\ tierRank("tier-2") = 2 /\ tierRank("tier-3") = 3
  BY DEF tierRank

\* The conformance pass has an error exactly when a clause of the target or of
\* a tier below it fails.
LEMMA TargetErrors ==
    ASSUME NEW m, TierTarget(m) \in Tiers
    PROVE  HasErrors(Conformance(m)) <=> ~PassesClauses(m, TierTarget(m))
<1> DEFINE target == TierTarget(m)
<1> USE TiersScored, Ranks
<1>1. HasErrors(Conformance(m)) <=>
        \/ HasErrors(emitFindings(Tier3(m), "tier-3", target))
        \/ HasErrors(emitFindings(Tier2(m), "tier-2", target))
        \/ HasErrors(emitFindings(Tier1(m), "tier-1", target))
  BY DEF Conformance, HasErrors
<1>2. \A tier, t : HasErrors(emitFindings({}, tier, t)) = FALSE
  BY DEF HasErrors, emitFindings
<1>3. \A t \in Tiers : Clauses(t, m) =
        IF t = "tier-1" THEN scoreTier1(m)
        ELSE IF t = "tier-2" THEN scoreTier2(m) ELSE scoreTier3(m)
  BY DEF Clauses, Tiers
<1>4. CASE target = "tier-1"
  <2>1. HasErrors(Conformance(m)) <=>
          ~allPass(scoreTier3(m)) \/ ~allPass(scoreTier2(m)) \/ ~allPass(scoreTier1(m))
    BY <1>1, <1>4, TierErrors
  <2>2. Demanded(target) = Tiers
    BY <1>4 DEF Demanded, Tiers
  <2> QED
    BY <2>1, <2>2, <1>3 DEF PassesClauses, allPass, Tiers
<1>5. CASE target = "tier-2"
  <2>1. HasErrors(Conformance(m)) <=>
          ~allPass(scoreTier3(m)) \/ ~allPass(scoreTier2(m))
    BY <1>1, <1>2, <1>5, TierErrors
  <2>2. Demanded(target) = {"tier-2", "tier-3"}
    BY <1>5 DEF Demanded
  <2> QED
    BY <2>1, <2>2, <1>3 DEF PassesClauses, allPass, Tiers
<1>6. CASE target = "tier-3"
  <2>1. HasErrors(Conformance(m)) <=> ~allPass(scoreTier3(m))
    BY <1>1, <1>2, <1>6, TierErrors
  <2>2. Demanded(target) = {"tier-3"}
    BY <1>6 DEF Demanded
  <2> QED
    BY <2>1, <2>2, <1>3 DEF PassesClauses, allPass, Tiers
<1> QED
  BY <1>4, <1>5, <1>6 DEF Tiers

\* A finding of the conformance pass is told by its pass.
LEMMA TierFindings ==
    ASSUME NEW m \in Pack
    PROVE  (\E f \in Findings(m) : f.pass \in Tiers /\ f.severity = "error")
           <=> HasErrors(Conformance(m))
<1>1. \A severity, code :
        /\ Finding(severity, "schema", code).pass \notin Tiers
        /\ Finding(severity, "refs", code).pass \notin Tiers
        /\ Finding(severity, "backends", code).pass \notin Tiers
        /\ Finding(severity, "versions", code).pass \notin Tiers
        /\ Finding(severity, "registry", code).pass \notin Tiers
  BY DEF Finding, Tiers
<1>2. \A f \in Schema(m) \cup Refs(m) : f.pass \notin Tiers
  BY <1>1 DEF Schema, Refs
<1>3. \A f \in Backends(m) : f.pass \notin Tiers
  <2>1. \A v : \A f \in evalVersion(v) : f.pass \notin Tiers
    BY <1>1 DEF evalVersion
  <2>2. \A p : \A f \in checkProduct(p) : f.pass \notin Tiers
    BY <1>1 DEF checkProduct
  <2>3. \A ids : \A r \in backendRefs(m) :
            \A f \in resolveBackendRef(r, ids) : f.pass \notin Tiers
    BY <1>1, RefsTyped DEF resolveBackendRef, Reference
  <2> QED
    BY <1>1, <2>1, <2>2, <2>3 DEF Backends
<1>4. \A f \in Conformance(m) : f.pass \in Tiers
  <2>1. \A checks, tier, target :
          \A f \in emitFindings(checks, tier, target) : f.pass = tier
    BY DEF emitFindings, Finding
  <2> QED
    BY <2>1 DEF Conformance, Tiers
<1> QED
  BY <1>2, <1>3, <1>4 DEF Findings, HasErrors

\* The tier reached, when the target is a tier.
LEMMA Reached ==
    ASSUME NEW m, TierTarget(m) \in Tiers
    PROVE  /\ TierReached(m) = TierTarget(m) <=> PassesClauses(m, TierTarget(m))
           /\ TierReached(m) \in Demanded(TierTarget(m)) \cup {"none"}
<1> DEFINE target == TierTarget(m)
           p3 == allPass(scoreTier3(m))
           p2 == allPass(scoreTier2(m))
           p1 == allPass(scoreTier1(m))
<1>1. \A t \in Tiers : Clauses(t, m) =
        IF t = "tier-1" THEN scoreTier1(m)
        ELSE IF t = "tier-2" THEN scoreTier2(m) ELSE scoreTier3(m)
  BY DEF Clauses, Tiers
<1>2. CASE target = "tier-1"
  <2>1. PassesClauses(m, target) <=> p3 /\ p2 /\ p1
    BY <1>1, <1>2 DEF PassesClauses, Demanded, allPass, Tiers
  <2>2. TierReached(m) = reachedTier(scoreTier3(m), scoreTier2(m), scoreTier1(m))
    BY <1>2, TiersScored DEF TierReached
  <2>3. /\ p3 /\ p2 /\ p1 => TierReached(m) = "tier-1"
        /\ p3 /\ p2 /\ ~p1 => TierReached(m) = "tier-2"
        /\ p3 /\ ~p2 => TierReached(m) = "tier-3"
        /\ ~p3 => TierReached(m) = "none"
    BY <2>2, TiersScored DEF reachedTier
  <2>4. Demanded(target) = Tiers
    BY <1>2 DEF Demanded, Tiers
  <2> HIDE DEF p1, p2, p3
  <2> QED
    BY <1>2, <2>1, <2>3, <2>4 DEF Tiers
<1>3. CASE target = "tier-2"
  <2>1. PassesClauses(m, target) <=> p3 /\ p2
    BY <1>1, <1>3 DEF PassesClauses, Demanded, allPass, Tiers
  <2>2. TierReached(m) = reachedTier(scoreTier3(m), scoreTier2(m), {})
    BY <1>3, TiersScored DEF TierReached
  <2>3. /\ p3 /\ p2 => TierReached(m) = "tier-2"
        /\ p3 /\ ~p2 => TierReached(m) = "tier-3"
        /\ ~p3 => TierReached(m) = "none"
    BY <2>2, TiersScored DEF reachedTier
  <2>4. Demanded(target) = {"tier-2", "tier-3"}
    BY <1>3 DEF Demanded
  <2> HIDE DEF p1, p2, p3
  <2> QED
    BY <1>3, <2>1, <2>3, <2>4
<1>4. CASE target = "tier-3"
  <2>1. PassesClauses(m, target) <=> p3
    BY <1>1, <1>4 DEF PassesClauses, Demanded, allPass, Tiers
  <2>2. TierReached(m) = reachedTier(scoreTier3(m), {}, {})
    BY <1>4, TiersScored DEF TierReached
  <2>3. /\ p3 => TierReached(m) = "tier-3"
        /\ ~p3 => TierReached(m) = "none"
    BY <2>2 DEF reachedTier
  <2>4. Demanded(target) = {"tier-3"}
    BY <1>4 DEF Demanded
  <2> HIDE DEF p1, p2, p3
  <2> QED
    BY <1>4, <2>1, <2>3, <2>4
<1> QED
  BY <1>2, <1>3, <1>4 DEF Tiers

\* Nothing but the target depends on the criticality.
LEMMA CriticalityAside ==
    ASSUME NEW m \in Pack, NEW t \in Tiers
    PROVE  LET n == [m EXCEPT !.criticality = t]
           IN  /\ TierTarget(n) = t
               /\ allPass(scoreTier3(n)) <=> allPass(scoreTier3(m))
               /\ allPass(scoreTier2(n)) <=> allPass(scoreTier2(m))
               /\ allPass(scoreTier1(n)) <=> allPass(scoreTier1(m))
<1> DEFINE n == [m EXCEPT !.criticality = t]
<1>1. n.criticality = t /\ t # ""
  BY DEF Pack, Tiers
<1>2. /\ n.slis = m.slis /\ n.slos = m.slos /\ n.receivers = m.receivers
      /\ n.processors = m.processors /\ n.metrics = m.metrics /\ n.logs = m.logs
      /\ n.traces = m.traces /\ n.required = m.required /\ n.semconv = m.semconv
      /\ n.languages = m.languages /\ n.logCorrelation = m.logCorrelation
      /\ n.records = m.records /\ n.views = m.views /\ n.dashboards = m.dashboards
      /\ n.alerts = m.alerts /\ n.forecasts = m.forecasts /\ n.routes = m.routes
      /\ n.guardrails = m.guardrails /\ n.p50 = m.p50 /\ n.p95 = m.p95
      /\ n.gate = m.gate /\ n.chaos = m.chaos /\ n.probes = m.probes
  BY DEF Pack
<1> HIDE DEF n
<1>3. /\ \A id : findDashboard(n, id) = findDashboard(m, id)
      /\ sloIDs(n) = sloIDs(m)
      /\ \A channels : OnSEV1(n, channels) = OnSEV1(m, channels)
  BY <1>2 DEF findDashboard, sloIDs, OnSEV1
<1>4. allPass(scoreTier3(n)) <=> allPass(scoreTier3(m))
  BY <1>2, <1>3 DEF scoreTier3, allPass, Check
<1>5. allPass(scoreTier2(n)) <=> allPass(scoreTier2(m))
  BY <1>2, <1>3 DEF scoreTier2, allPass, Check
<1>6. allPass(scoreTier1(n)) <=> allPass(scoreTier1(m))
  BY <1>2, <1>3 DEF scoreTier1, allPass, Check
<1>7. TierTarget(n) = t
  BY <1>1 DEF TierTarget
<1> QED
  BY <1>4, <1>5, <1>6, <1>7 DEF n

-----------------------------------------------------------------------------
(***************************************************************************)
(* The command line.                                                       *)
(***************************************************************************)

\* A manifest is acceptable exactly when no pass has an error.
LEMMA AcceptableMeansNoErrors ==
    ASSUME NEW m \in Pack
    PROVE  Acceptable(m) <=> ~HasErrors(Findings(m))
<1>1. HasErrors(Findings(m)) <=>
        \/ m.malformed \/ m.criticality \notin Tiers \/ m.dangling
        \/ ~Sound(m) \/ HasErrors(Conformance(m))
  BY ErrorsOfUnion, SchemaErrors, RefsErrors, BackendErrors DEF Findings
<1>2. m.criticality \in Tiers => TierTarget(m) = m.criticality
  BY DEF TierTarget, Tiers
<1>3. m.criticality \in Tiers =>
        (HasErrors(Conformance(m)) <=> ~PassesClauses(m, m.criticality))
  BY <1>2, TargetErrors
<1> QED
  BY <1>1, <1>3 DEF Acceptable

LEMMA LintedGrows ==
    ASSUME NEW s \in Seq(Results), NEW r \in Results
    PROVE  {Append(s, r)[i] : i \in DOMAIN Append(s, r)} =
             {s[i] : i \in DOMAIN s} \cup {r}
<1>1. /\ Len(Append(s, r)) = Len(s) + 1 /\ Len(s) \in Nat
      /\ DOMAIN Append(s, r) = 1..(Len(s) + 1) /\ DOMAIN s = 1..Len(s)
      /\ \A i \in 1..Len(s) : Append(s, r)[i] = s[i]
      /\ Append(s, r)[Len(s) + 1] = r
  OBVIOUS
<1>2. 1..(Len(s) + 1) = (1..Len(s)) \cup {Len(s) + 1}
  BY <1>1
<1> QED
  BY <1>1, <1>2

\* The flag says whether there was an error; there is no exit code before the
\* exit, and then the flag has become it.
Tally ==
    /\ anyErr <=> unread \/ \E r \in Linted : HasErrors(r.findings)
    /\ pc # "exited" => exit = -1
    /\ exit \in {0, 1} => (exit = 1 <=> anyErr)

LEMMA TypeInit == Init => TypeOK
<1>1. <<>> \in Seq(Results)
  OBVIOUS
<1> QED
  BY <1>1, LintAssumption DEF Init, TypeOK

LEMMA TypeStep == TypeOK /\ [Next]_vars => TypeOK'
<1> SUFFICES ASSUME TypeOK, [Next]_vars PROVE TypeOK'
  OBVIOUS
<1> USE DEF TypeOK
<1>1. CASE Usage
  BY <1>1 DEF Usage, Exit
<1>2. CASE LoadFails
  BY <1>2, LintAssumption DEF LoadFails
<1>3. CASE SchemaFails
  BY <1>3 DEF SchemaFails, Exit
<1>4. ASSUME NEW m \in Manifests, Lint(m) PROVE TypeOK'
  <2>1. Result(m) \in Results
    BY DEF Results
  <2>2. results' \in Seq(Results)
    BY <1>4, <2>1 DEF Lint
  <2>3. HasErrors(Findings(m)) \in BOOLEAN
    BY DEF HasErrors
  <2> QED
    BY <1>4, <2>2, <2>3, LintAssumption DEF Lint
<1>5. CASE Emit
  BY <1>5 DEF Emit, Exit
<1>6. CASE UNCHANGED vars
  BY <1>6 DEF vars
<1> QED
  BY <1>1, <1>2, <1>3, <1>4, <1>5, <1>6 DEF Next

\* Every variable keeps its type, whatever the manifests (packlint's main).
THEOREM LintTypeCorrect == Spec => []TypeOK
<1> QED
  BY TypeInit, TypeStep, PTL DEF Spec

LEMMA TallyStep == TypeOK /\ Tally /\ [Next]_vars => Tally'
<1> SUFFICES ASSUME TypeOK, Tally, [Next]_vars PROVE Tally'
  OBVIOUS
<1>1. CASE Usage
  BY <1>1 DEF Usage, Exit, Tally, Linted
<1>2. CASE LoadFails
  BY <1>2 DEF LoadFails, Tally, Linted, TypeOK
<1>3. CASE SchemaFails
  BY <1>3 DEF SchemaFails, Exit, Tally, Linted
<1>4. ASSUME NEW m \in Manifests, Lint(m) PROVE Tally'
  <2>1. Result(m) \in Results /\ Result(m).findings = Findings(m)
    BY DEF Results, Result
  <2>2. Linted' = Linted \cup {Result(m)}
    BY <1>4, <2>1, LintedGrows DEF Lint, Linted, TypeOK
  <2>3. anyErr' <=> anyErr \/ HasErrors(Findings(m))
    BY <1>4 DEF Lint
  <2>4. (\E r \in Linted' : HasErrors(r.findings)) <=>
          (\E r \in Linted : HasErrors(r.findings)) \/ HasErrors(Findings(m))
    BY <2>1, <2>2
  <2>5. anyErr' <=> unread' \/ \E r \in Linted' : HasErrors(r.findings)
    BY <1>4, <2>3, <2>4 DEF Lint, Tally
  <2>6. pc = "linting" /\ pc' = pc /\ exit' = exit
    BY <1>4 DEF Lint
  <2> QED
    BY <2>5, <2>6 DEF Tally
<1>5. CASE Emit
  <2>1. /\ pc' = "exited"
        /\ exit' = IF ~format THEN 2 ELSE IF anyErr THEN 1 ELSE 0
        /\ anyErr' = anyErr /\ unread' = unread /\ results' = results
    BY <1>5 DEF Emit, Exit
  <2> QED
    BY <2>1 DEF Tally, Linted
<1>6. CASE UNCHANGED vars
  BY <1>6 DEF vars, Tally, Linted
<1> QED
  BY <1>1, <1>2, <1>3, <1>4, <1>5, <1>6 DEF Next

\* Each result in the list is that of a manifest, as it was read.
LEMMA LintedAreResults ==
    ASSUME TypeOK, NEW r \in Linted
    PROVE  \E m \in Pack : r = Result(m)
<1>1. results \in Seq(Results)
  BY DEF TypeOK
<1>2. r \in Results
  BY <1>1 DEF Linted
<1> QED
  BY <1>2, LintAssumption DEF Results

LEMMA TallyTellsTheTruth == TypeOK /\ Tally => ExitTellsTheTruth
<1> SUFFICES ASSUME TypeOK, Tally, exit \in {0, 1}
             PROVE  exit = 0 <=> ~unread /\ \A r \in Linted : Acceptable(r.read)
  BY DEF ExitTellsTheTruth
<1>1. \A r \in Linted : Acceptable(r.read) <=> ~HasErrors(r.findings)
  <2> SUFFICES ASSUME NEW r \in Linted
               PROVE  Acceptable(r.read) <=> ~HasErrors(r.findings)
    OBVIOUS
  <2>1. PICK m \in Pack : r = Result(m)
    BY LintedAreResults
  <2>2. r.read = m /\ r.findings = Findings(m)
    BY <2>1 DEF Result
  <2> QED
    BY <2>2, AcceptableMeansNoErrors
<1> QED
  BY <1>1 DEF Tally

\* The exit code is 0 exactly when every file has been read and is acceptable
\* (main.go:8-12), for every set of manifests and every command line.
THEOREM ExitIsTruthful == Spec => []ExitTellsTheTruth
<1>1. Init => Tally
  BY DEF Init, Tally, Linted
<1> QED
  BY <1>1, TypeInit, TypeStep, TallyStep, TallyTellsTheTruth, PTL DEF Spec

LEMMA ResultsMatch == TypeOK => ReachMatchesFindings
<1> SUFFICES ASSUME TypeOK, NEW r \in Linted, r.tierTarget \in Tiers
             PROVE  /\ r.tierReached = r.tierTarget
                       <=> ~\E f \in r.findings : f.pass \in Tiers /\ f.severity = "error"
                    /\ r.tierReached \in Demanded(r.tierTarget) \cup {"none"}
  BY DEF ReachMatchesFindings
<1>1. PICK m \in Pack : r = Result(m)
  BY LintedAreResults
<1>2. /\ r.findings = Findings(m)
      /\ r.tierTarget = TierTarget(m) /\ r.tierReached = TierReached(m)
  BY <1>1 DEF Result
<1> QED
  BY <1>2, TierFindings, TargetErrors, Reached

\* A pack of a known criticality reaches its target exactly when no clause is
\* an error (reachedTier and emitFindings agree), whatever the manifest.
THEOREM ReachIsConsistent == Spec => []ReachMatchesFindings
<1> QED
  BY TypeInit, TypeStep, ResultsMatch, PTL DEF Spec

LEMMA LowerTiersPass == TypeOK => TiersAreCumulative
<1> SUFFICES ASSUME TypeOK, NEW r \in Linted, r.tierReached = r.tierTarget,
                    r.tierTarget \in Tiers, NEW t \in Demanded(r.tierTarget)
             PROVE  TierReached([r.read EXCEPT !.criticality = t]) = t
  BY DEF TiersAreCumulative
<1>1. PICK m \in Pack : r = Result(m)
  BY LintedAreResults
<1>2. /\ r.read = m
      /\ r.tierTarget = TierTarget(m) /\ r.tierReached = TierReached(m)
  BY <1>1 DEF Result
<1> DEFINE n == [m EXCEPT !.criticality = t]
<1>3. PassesClauses(m, TierTarget(m))
  BY <1>2, Reached
<1>4. t \in Tiers /\ Demanded(t) \subseteq Demanded(TierTarget(m))
  BY <1>2 DEF Demanded, Tiers
<1>5. /\ TierTarget(n) = t
      /\ allPass(scoreTier3(n)) <=> allPass(scoreTier3(m))
      /\ allPass(scoreTier2(n)) <=> allPass(scoreTier2(m))
      /\ allPass(scoreTier1(n)) <=> allPass(scoreTier1(m))
  BY <1>4, CriticalityAside
<1> HIDE DEF n
<1>6. \A u \in Tiers : allPass(Clauses(u, n)) <=> allPass(Clauses(u, m))
  BY <1>5 DEF Clauses, Tiers
<1>7. \A x, u : PassesClauses(x, u) <=> \A v \in Demanded(u) : allPass(Clauses(v, x))
  BY DEF PassesClauses, allPass
<1>8. Demanded(t) \subseteq Tiers
  BY <1>4 DEF Demanded, Tiers
<1>9. PassesClauses(n, t)
  BY <1>3, <1>4, <1>6, <1>7, <1>8
<1> QED
  BY <1>2, <1>4, <1>5, <1>9, Reached DEF n

\* Tiers are cumulative (conformance.go:14-16): what reaches its tier reaches
\* each lower one when nothing but the criticality changes.
THEOREM TiersNest == Spec => []TiersAreCumulative
<1> QED
  BY TypeInit, TypeStep, LowerTiersPass, PTL DEF Spec

-----------------------------------------------------------------------------
(***************************************************************************)
(* Versions.                                                               *)
(***************************************************************************)

\* One more digit: the leading part decides, or else the last digit.
LEMMA LeadingDecides ==
    ASSUME NEW base \in Nat, NEW x \in Nat, NEW y \in Nat, NEW c \in Nat, NEW d \in Nat,
           c < base, d < base
    PROVE  /\ base * x + c \in Nat
           /\ base * x + c < base * y + d <=> x < y \/ (x = y /\ c < d)
<1>1. \A u, v \in Nat : u < v => base * u + base <= base * v
  <2> SUFFICES ASSUME NEW u \in Nat, NEW v \in Nat, u < v
               PROVE  base * u + base <= base * v
    OBVIOUS
  <2>1. PICK k \in Nat : v = u + 1 + k
    <3>1. v - u - 1 \in Nat /\ v = u + 1 + (v - u - 1)
      OBVIOUS
    <3> QED
      BY <3>1
  <2>2. base * v = base * u + base + base * k
    BY <2>1
  <2>3. base * k \in Nat /\ base * u \in Nat
    OBVIOUS
  <2> QED
    BY <2>2, <2>3
<1>2. base * x \in Nat /\ base * y \in Nat
  OBVIOUS
<1>3. CASE x < y
  <2>1. base * x + base <= base * y
    BY <1>1, <1>3
  <2> QED
    BY <1>2, <1>3, <2>1
<1>4. CASE y < x
  <2>1. base * y + base <= base * x
    BY <1>1, <1>4
  <2> QED
    BY <1>2, <1>4, <2>1
<1>5. CASE x = y
  BY <1>2, <1>5
<1> QED
  BY <1>3, <1>4, <1>5

\* versionLT compares the numbers the versions stand for.
LEMMA VersionsAreNumbers ==
    ASSUME NEW a \in Version, NEW b \in Version, NEW base \in Nat,
           \A i \in 1..3 : Component3(a, i) < base /\ Component3(b, i) < base
    PROVE  versionLT(a, b) <=> Weight(a, base) < Weight(b, base)
<1>1. \A v \in Version : \A i \in 1..3 : Component3(v, i) \in Nat
  BY DEF Version, Component3
<1> DEFINE a1 == Component3(a, 1)
           a2 == Component3(a, 2)
           a3 == Component3(a, 3)
           b1 == Component3(b, 1)
           b2 == Component3(b, 2)
           b3 == Component3(b, 3)
<1>2. /\ a1 \in Nat /\ a2 \in Nat /\ a3 \in Nat /\ b1 \in Nat /\ b2 \in Nat /\ b3 \in Nat
      /\ a2 < base /\ a3 < base /\ b2 < base /\ b3 < base
  BY <1>1
<1>3. versionLT(a, b) <=>
        \/ a1 < b1
        \/ a1 = b1 /\ a2 < b2
        \/ a1 = b1 /\ a2 = b2 /\ a3 < b3
  <2>1. \A i : i \in 1..3 <=> i = 1 \/ i = 2 \/ i = 3
    OBVIOUS
  <2>2. 1..(1 - 1) = {} /\ 1..(2 - 1) = {1} /\ 1..(3 - 1) = {1, 2}
    OBVIOUS
  <2> QED
    BY <2>1, <2>2 DEF versionLT
<1>4. /\ Weight(a, base) = base * (base * a1 + a2) + a3
      /\ Weight(b, base) = base * (base * b1 + b2) + b3
  BY DEF Weight
<1> HIDE DEF a1, a2, a3, b1, b2, b3
<1>5. /\ base * a1 + a2 \in Nat /\ base * b1 + b2 \in Nat
      /\ base * a1 + a2 < base * b1 + b2 <=> a1 < b1 \/ (a1 = b1 /\ a2 < b2)
      /\ base * b1 + b2 < base * a1 + a2 <=> b1 < a1 \/ (b1 = a1 /\ b2 < a2)
  BY <1>2, LeadingDecides
<1>6. base * a1 + a2 = base * b1 + b2 <=> a1 = b1 /\ a2 = b2
  BY <1>2, <1>5
<1> DEFINE x == base * a1 + a2
           y == base * b1 + b2
<1>7. x \in Nat /\ y \in Nat
  BY <1>5
<1>8. base * x + a3 < base * y + b3 <=> x < y \/ (x = y /\ a3 < b3)
  BY <1>2, <1>7, LeadingDecides
<1>9. /\ x < y <=> a1 < b1 \/ (a1 = b1 /\ a2 < b2)
      /\ x = y <=> a1 = b1 /\ a2 = b2
  BY <1>5, <1>6
<1>10. Weight(a, base) = base * x + a3 /\ Weight(b, base) = base * y + b3
  BY <1>4
<1> HIDE DEF x, y
<1> QED
  BY <1>3, <1>8, <1>9, <1>10

LEMMA VersionSpecsTyped ==
    ASSUME NEW m \in Pack
    PROVE  versionSpecs(m) \subseteq VersionSpec
<1>1. /\ m.backends \in Seq(Backend)
      /\ m.components \subseteq Component
      /\ m.storage \subseteq StorageBlock
  BY DEF Pack
<1>2. \A i \in DOMAIN m.backends : m.backends[i].version \in VersionSpec
  <2>1. \A i \in DOMAIN m.backends : m.backends[i] \in Backend
    BY <1>1
  <2> QED
    BY <2>1 DEF Backend
<1>3. \A c \in m.components : c.version \in VersionSpec
  BY <1>1 DEF Component
<1>4. \A s \in m.storage : [s.version EXCEPT !.max = <<>>] \in VersionSpec
  <2>1. <<>> \in Version
    BY DEF Version
  <2>2. \A s \in m.storage : s.version \in VersionSpec
    BY <1>1 DEF StorageBlock
  <2> QED
    BY <2>1, <2>2 DEF VersionSpec
<1> QED
  BY <1>2, <1>3, <1>4 DEF versionSpecs

\* A version breaks its policy exactly when its number is out of bounds.
LEMMA BrokenMeansOutOfBounds ==
    ASSUME NEW v \in VersionSpec
    PROVE  Broken(v) # {} <=> OutOfBounds(v)
<1> DEFINE base == Base(v)
<1>1. v.declared \in Version /\ v.min \in Version /\ v.max \in Version
  BY DEF VersionSpec
<1>2. \A w \in Version : \A i \in 1..3 : Component3(w, i) \in Nat
  BY DEF Version, Component3
<1>3. \A w \in Version : /\ DigitSum(w) \in Nat
                          /\ \A i \in 1..3 : Component3(w, i) <= DigitSum(w)
  <2> SUFFICES ASSUME NEW w \in Version
               PROVE  /\ DigitSum(w) \in Nat
                      /\ \A i \in 1..3 : Component3(w, i) <= DigitSum(w)
    OBVIOUS
  <2>1. Component3(w, 1) \in Nat /\ Component3(w, 2) \in Nat /\ Component3(w, 3) \in Nat
    BY <1>2
  <2>2. \A i \in 1..3 : i = 1 \/ i = 2 \/ i = 3
    OBVIOUS
  <2> QED
    BY <2>1, <2>2 DEF DigitSum
<1>4. base \in Nat /\ \A w \in {v.declared, v.min, v.max} :
                          \A i \in 1..3 : Component3(w, i) < base
  <2>1. DigitSum(v.declared) \in Nat /\ DigitSum(v.min) \in Nat /\ DigitSum(v.max) \in Nat
    BY <1>1, <1>3
  <2>2. base \in Nat /\ \A w \in {v.declared, v.min, v.max} : DigitSum(w) < base
    BY <2>1 DEF Base
  <2>3. \A w \in {v.declared, v.min, v.max} :
           DigitSum(w) \in Nat /\ \A i \in 1..3 :
               Component3(w, i) \in Nat /\ Component3(w, i) <= DigitSum(w)
    BY <1>1, <1>2, <1>3
  <2> HIDE DEF base
  <2> QED
    BY <2>2, <2>3
<1> HIDE DEF base
<1>5. versionLT(v.declared, v.min) <=> Weight(v.declared, base) < Weight(v.min, base)
  BY <1>1, <1>4, VersionsAreNumbers
<1>6. versionLT(v.max, v.declared) <=> Weight(v.max, base) < Weight(v.declared, base)
  BY <1>1, <1>4, VersionsAreNumbers
<1>7. OutOfBounds(v) <=>
        \/ v.min # <<>> /\ Weight(v.declared, base) < Weight(v.min, base)
        \/ v.max # <<>> /\ Weight(v.declared, base) > Weight(v.max, base)
  BY DEF OutOfBounds, base
<1>8. Weight(v.declared, base) > Weight(v.max, base)
        <=> Weight(v.max, base) < Weight(v.declared, base)
  <2>1. \A w \in Version : Weight(w, base) \in Int
    BY <1>2, <1>4 DEF Weight
  <2> QED
    BY <1>1, <2>1
<1> QED
  BY <1>5, <1>6, <1>7, <1>8, BrokenVersion

\* Findings about versions are those of evalVersion.
LEMMA VersionFindings ==
    ASSUME NEW m \in Pack
    PROVE  (\E f \in Findings(m) : f.pass = "versions" /\ f.severity = "error")
           <=> \E v \in versionSpecs(m) : HasErrors(evalVersion(v))
<1>1. \A severity, code :
        /\ Finding(severity, "schema", code).pass # "versions"
        /\ Finding(severity, "refs", code).pass # "versions"
        /\ Finding(severity, "backends", code).pass # "versions"
        /\ Finding(severity, "registry", code).pass # "versions"
        /\ Finding(severity, "versions", code).pass = "versions"
  BY DEF Finding
<1>2. \A f \in Schema(m) \cup Refs(m) : f.pass # "versions"
  BY <1>1 DEF Schema, Refs
<1>3. \A f \in Conformance(m) : f.pass # "versions"
  <2>1. \A checks, tier, target :
          \A f \in emitFindings(checks, tier, target) : f.pass = tier
    BY DEF emitFindings, Finding
  <2>2. \A f \in Conformance(m) : f.pass \in {"tier-1", "tier-2", "tier-3"}
    BY <2>1 DEF Conformance
  <2> QED
    BY <2>2
<1>4. \A p : \A f \in checkProduct(p) : f.pass # "versions"
  BY <1>1 DEF checkProduct
<1>5. \A ids : \A r \in backendRefs(m) :
        \A f \in resolveBackendRef(r, ids) : f.pass # "versions"
  BY <1>1, RefsTyped DEF resolveBackendRef, Reference
<1>6. \A v : \A f \in evalVersion(v) : f.pass = "versions"
  BY <1>1 DEF evalVersion
<1>7. \A f : f \in Findings(m) /\ f.pass = "versions"
              <=> \E v \in versionSpecs(m) : f \in evalVersion(v)
  <2>1. ASSUME NEW f \in Findings(m), f.pass = "versions"
        PROVE  \E v \in versionSpecs(m) : f \in evalVersion(v)
    <3>1. f \in Backends(m)
      BY <1>2, <1>3, <2>1 DEF Findings
    <3>2. f \notin {Finding("error", "backends", "duplicate_id") : id \in DuplicateIDs(m)}
      BY <1>1, <2>1
    <3>3. f \notin UNION {checkProduct(p) : p \in products(m)}
      BY <1>4, <2>1
    <3>4. f \notin UNION {resolveBackendRef(r, backendIDs(m)) : r \in backendRefs(m)}
      BY <1>5, <2>1
    <3> QED
      BY <3>1, <3>2, <3>3, <3>4 DEF Backends
  <2>2. ASSUME NEW v \in versionSpecs(m), NEW f \in evalVersion(v)
        PROVE  f \in Findings(m)
    BY DEF Findings, Backends
  <2> QED
    BY <1>6, <2>1, <2>2
<1> QED
  BY <1>7 DEF HasErrors

LEMMA ResultsAreGated == TypeOK => GatingDecides
<1> SUFFICES ASSUME TypeOK, NEW r \in Linted
             PROVE  (\E f \in r.findings : f.pass = "versions" /\ f.severity = "error")
                    <=> (\E v \in Enforced(r.read) : OutOfBounds(v))
  BY DEF GatingDecides
<1>1. PICK m \in Pack : r = Result(m)
  BY LintedAreResults
<1>2. r.read = m /\ r.findings = Findings(m)
  BY <1>1 DEF Result
<1>3. \A v \in versionSpecs(m) : HasErrors(evalVersion(v)) <=>
        v.gating = "enforce" /\ v.declared # <<>> /\ OutOfBounds(v)
  BY VersionErrors, VersionSpecsTyped, BrokenMeansOutOfBounds
<1>4. (\E f \in Findings(m) : f.pass = "versions" /\ f.severity = "error")
        <=> \E v \in versionSpecs(m) : HasErrors(evalVersion(v))
  BY VersionFindings
<1> QED
  BY <1>2, <1>3, <1>4 DEF Enforced

\* A version is an error exactly when it is enforced and, as a number, outside
\* its bounds (evalVersion, versionLT), however large its components are.
THEOREM GatingIsNumeric == Spec => []GatingDecides
<1> QED
  BY TypeInit, TypeStep, ResultsAreGated, PTL DEF Spec
=============================================================================
