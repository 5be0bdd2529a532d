------------------------ MODULE PackConditionsProofs ------------------------
(***************************************************************************)
(* What a status says at one time is consistent: its conditions, its phase *)
(* and its tools are about the generation it observes.                     *)
(***************************************************************************)
EXTENDS PackHistoryProofs

-----------------------------------------------------------------------------
(***************************************************************************)
(* The conditions that each edit of a status sets, and those it leaves.    *)
(***************************************************************************)

Says(st, c, v, gen) ==
    st.conditions[c].status = v /\ st.conditions[c].gen = gen

Leaves(st, r, C) ==
    \A c \in ConditionTypes \ C : r.conditions[c] = st.conditions[c]

LEMMA Names ==
    /\ ConditionTypes = {"Validated", "Progressing", "Ready", "Degraded"}
    /\ {"Reconciling", "Validated", "ValidationFailed", "ApplyFailed",
        "PipelineFailed", "Ready", "Blocked"} \subseteq Reasons
    /\ {"", "blocked", "core", "apply"} \subseteq LastErrors
    /\ PipelineErrors \subseteq LastErrors
    /\ "apply" \notin PipelineErrors
  BY DEF ConditionTypes, Reasons, LastErrors, PipelineErrors

LEMMA SetSays ==
    ASSUME NEW st \in Statuses(Hashes), NEW gen \in Nat, NEW now \in Instants,
           NEW type \in ConditionTypes, NEW v \in {"True", "False"},
           NEW reason \in Reasons
    PROVE  LET r == setCondition(st, gen, now, type, v, reason) IN
           /\ r \in Statuses(Hashes)
           /\ Says(r, type, v, gen)
           /\ Leaves(st, r, {type})
<1>1. LET r == setCondition(st, gen, now, type, v, reason) IN
      /\ r \in Statuses(Hashes)
      /\ \A c \in ConditionTypes : c # type => r.conditions[c] = st.conditions[c]
      /\ r.conditions[type].status = v
      /\ r.conditions[type].gen = gen
  BY SetCondition
<1> QED
  BY <1>1 DEF Says, Leaves

LEMMA ReadyConditions ==
    ASSUME NEW st \in Statuses(Hashes), NEW gen \in Nat, NEW now \in Instants
    PROVE  LET r == markReady(st, gen, now) IN
           /\ Says(r, "Ready", "True", gen)
           /\ Says(r, "Progressing", "False", gen)
           /\ Says(r, "Degraded", "False", gen)
           /\ Leaves(st, r, {"Ready", "Progressing", "Degraded"})
<1> DEFINE a == setCondition(st, gen, now, "Ready", "True", "Ready")
           b == setCondition(a, gen, now, "Progressing", "False", "Ready")
           c == setCondition(b, gen, now, "Degraded", "False", "Ready")
<1>1. /\ a \in Statuses(Hashes) /\ Says(a, "Ready", "True", gen)
      /\ Leaves(st, a, {"Ready"})
  BY Names, SetSays
<1> HIDE DEF a
<1>2. /\ b \in Statuses(Hashes) /\ Says(b, "Progressing", "False", gen)
      /\ Leaves(a, b, {"Progressing"})
  BY <1>1, Names, SetSays
<1> HIDE DEF b
<1>3. Says(c, "Degraded", "False", gen) /\ Leaves(b, c, {"Degraded"})
  BY <1>2, Names, SetSays
<1> HIDE DEF c
<1>4. markReady(st, gen, now) = c
  BY DEF markReady, a, b, c
<1> QED
  BY <1>1, <1>2, <1>3, <1>4, Names DEF Says, Leaves

LEMMA DegradedConditions ==
    ASSUME NEW st \in Statuses(Hashes), NEW gen \in Nat, NEW now \in Instants,
           NEW reason \in Reasons
    PROVE  LET r == markDegraded(st, gen, now, reason) IN
           /\ Says(r, "Ready", "False", gen)
           /\ Says(r, "Degraded", "True", gen)
           /\ Leaves(st, r, {"Ready", "Degraded"})
<1> DEFINE a == setCondition(st, gen, now, "Ready", "False", reason)
           b == setCondition(a, gen, now, "Degraded", "True", reason)
<1>1. /\ a \in Statuses(Hashes) /\ Says(a, "Ready", "False", gen)
      /\ Leaves(st, a, {"Ready"})
  BY Names, SetSays
<1> HIDE DEF a
<1>2. Says(b, "Degraded", "True", gen) /\ Leaves(a, b, {"Degraded"})
  BY <1>1, Names, SetSays
<1> HIDE DEF b
<1>3. markDegraded(st, gen, now, reason) = b
  BY DEF markDegraded, a, b
<1> QED
  BY <1>1, <1>2, <1>3, Names DEF Says, Leaves

LEMMA BlockedConditions ==
    ASSUME NEW st \in Statuses(Hashes), NEW gen \in Nat, NEW now \in Instants
    PROVE  LET r == markBlocked(st, gen, now) IN
           /\ Says(r, "Validated", "False", gen)
           /\ Says(r, "Ready", "False", gen)
           /\ Says(r, "Progressing", "False", gen)
           /\ Leaves(st, r, {"Validated", "Ready", "Progressing"})
<1> DEFINE a == setCondition(st, gen, now, "Validated", "False", "ValidationFailed")
           b == setCondition(a, gen, now, "Ready", "False", "Blocked")
           c == setCondition(b, gen, now, "Progressing", "False", "Blocked")
<1>1. /\ a \in Statuses(Hashes) /\ Says(a, "Validated", "False", gen)
      /\ Leaves(st, a, {"Validated"})
  BY Names, SetSays
<1> HIDE DEF a
<1>2. /\ b \in Statuses(Hashes) /\ Says(b, "Ready", "False", gen)
      /\ Leaves(a, b, {"Ready"})
  BY <1>1, Names, SetSays
<1> HIDE DEF b
<1>3. Says(c, "Progressing", "False", gen) /\ Leaves(b, c, {"Progressing"})
  BY <1>2, Names, SetSays
<1> HIDE DEF c
<1>4. markBlocked(st, gen, now) = c
  BY DEF markBlocked, a, b, c
<1> QED
  BY <1>1, <1>2, <1>3, <1>4, Names DEF Says, Leaves

\* fail, block and succeed (pack_controller.go:114-121, 162-164, 255-261).
LEMMA FailSays ==
    ASSUME NEW st \in Statuses(Hashes), NEW gen \in Nat, NEW now \in Instants,
           NEW reason \in Reasons, NEW error \in LastErrors
    PROVE  LET r == fail(st, gen, now, reason, error) IN
           /\ r.phase = "Degraded" /\ r.obs = gen /\ r.lastError = error
           /\ Says(r, "Ready", "False", gen)
           /\ Says(r, "Degraded", "True", gen)
           /\ Leaves(st, r, {"Ready", "Degraded"})
<1> DEFINE a == [st EXCEPT !.phase = "Degraded", !.lastError = error, !.obs = gen]
<1>1. /\ a \in Statuses(Hashes) /\ a.phase = "Degraded" /\ a.obs = gen
      /\ a.lastError = error /\ a.conditions = st.conditions
  BY DEF Statuses, Phases
<1>2. fail(st, gen, now, reason, error) = markDegraded(a, gen, now, reason)
  BY DEF fail
<1> HIDE DEF a
<1>3. OnlyConditionsDiffer(a, markDegraded(a, gen, now, reason))
  BY <1>1, MarkDegraded
<1>4. LET r == markDegraded(a, gen, now, reason) IN
      /\ Says(r, "Ready", "False", gen)
      /\ Says(r, "Degraded", "True", gen)
      /\ Leaves(a, r, {"Ready", "Degraded"})
  BY <1>1, DegradedConditions
<1> QED
  BY <1>1, <1>2, <1>3, <1>4 DEF OnlyConditionsDiffer, Leaves

LEMMA BlockSays ==
    ASSUME NEW st \in Statuses(Hashes), NEW gen \in Nat, NEW now \in Instants
    PROVE  LET r == block(st, gen, now) IN
           /\ r.phase = "Blocked" /\ r.obs = gen /\ r.lastError = "blocked"
           /\ Says(r, "Validated", "False", gen)
           /\ Says(r, "Ready", "False", gen)
           /\ Says(r, "Progressing", "False", gen)
           /\ Leaves(st, r, {"Validated", "Ready", "Progressing"})
<1> DEFINE a == markBlocked(st, gen, now)
<1>1. /\ a \in Statuses(Hashes)
      /\ Says(a, "Validated", "False", gen)
      /\ Says(a, "Ready", "False", gen)
      /\ Says(a, "Progressing", "False", gen)
      /\ Leaves(st, a, {"Validated", "Ready", "Progressing"})
  BY MarkBlocked, BlockedConditions
<1>2. block(st, gen, now) =
          [a EXCEPT !.phase = "Blocked", !.lastError = "blocked", !.obs = gen]
  BY DEF block
<1> HIDE DEF a
<1>3. LET r == block(st, gen, now) IN
      /\ r.phase = "Blocked" /\ r.obs = gen /\ r.lastError = "blocked"
      /\ r.conditions = a.conditions
  BY <1>1, <1>2 DEF Statuses
<1> QED
  BY <1>1, <1>3 DEF Says, Leaves

LEMMA SucceedSays ==
    ASSUME NEW st \in Statuses(Hashes), NEW gen \in Nat, NEW now \in Instants,
           NEW s \in Specs
    PROVE  LET r == succeed(st, gen, now, s) IN
           /\ r.phase = st.phase /\ r.obs = gen /\ r.lastError = ""
           /\ Says(r, "Ready", "True", gen)
           /\ Says(r, "Progressing", "False", gen)
           /\ Says(r, "Degraded", "False", gen)
           /\ Leaves(st, r, {"Ready", "Progressing", "Degraded"})
<1> DEFINE a == markReady(st, gen, now)
<1>1. /\ a \in Statuses(Hashes) /\ a.phase = st.phase
      /\ Says(a, "Ready", "True", gen)
      /\ Says(a, "Progressing", "False", gen)
      /\ Says(a, "Degraded", "False", gen)
      /\ Leaves(st, a, {"Ready", "Progressing", "Degraded"})
  BY MarkReady, ReadyConditions DEF OnlyConditionsDiffer
<1>2. succeed(st, gen, now, s) =
          [a EXCEPT !.lastError = "", !.hash = PlanHash(s), !.obs = gen]
  BY DEF succeed
<1> HIDE DEF a
<1>3. LET r == succeed(st, gen, now, s) IN
      /\ r.phase = a.phase /\ r.obs = gen /\ r.lastError = ""
      /\ r.conditions = a.conditions
  BY <1>1, <1>2 DEF Statuses
<1> QED
  BY <1>1, <1>3 DEF Says, Leaves

\* The announcements: Progressing at first, Validated before the adapters.
LEMMA AnnouncementsSay ==
    ASSUME NEW st \in Statuses(Hashes), NEW gen \in Nat, NEW now \in Instants
    PROVE  LET a == [markProgressing(st, gen, now) EXCEPT !.phase = "Planning"]
               v == Validated(st, gen, now)
           IN  /\ a \in Statuses(Hashes) /\ Says(a, "Progressing", "True", gen)
               /\ Leaves(st, a, {"Progressing"})
               /\ Says(v, "Validated", "True", gen)
               /\ Leaves(st, v, {"Validated"})
<1> DEFINE b == markProgressing(st, gen, now)
           c == markValidated(st, gen, now)
<1>1. /\ b \in Statuses(Hashes) /\ Says(b, "Progressing", "True", gen)
      /\ Leaves(st, b, {"Progressing"})
  BY Names, SetSays DEF markProgressing
<1>2. /\ c \in Statuses(Hashes) /\ Says(c, "Validated", "True", gen)
      /\ Leaves(st, c, {"Validated"})
  BY Names, SetSays DEF markValidated
<1>3. Validated(st, gen, now) = [c EXCEPT !.phase = "Applying"]
  BY DEF Validated
<1> HIDE DEF b, c
<1>4. /\ [b EXCEPT !.phase = "Planning"] \in Statuses(Hashes)
      /\ [b EXCEPT !.phase = "Planning"].conditions = b.conditions
      /\ [c EXCEPT !.phase = "Applying"].conditions = c.conditions
  BY <1>1, <1>2 DEF Statuses, Phases
<1> QED
  BY <1>1, <1>2, <1>3, <1>4 DEF Says, Leaves, b

-----------------------------------------------------------------------------
(***************************************************************************)
(* What a pass makes of the conditions it has read.                        *)
(***************************************************************************)

\* r is st with conditions stamped anew; d: whether Degraded may be set.
Restamped(st, r, gen, d) ==
    /\ \A c \in ConditionTypes :
           r.conditions[c] = st.conditions[c] \/ r.conditions[c].gen = gen
    /\ \/ r.conditions["Degraded"] = st.conditions["Degraded"]
       \/ r.conditions["Degraded"].gen = gen
          /\ (d \/ r.conditions["Degraded"].status = "False")

\* An old Degraded condition is not about generation gen.
NotDegradedAt(st, gen) ==
    ~(st.conditions["Degraded"].gen = gen /\ st.conditions["Degraded"].status = "True")

NotLater(st, gen) == \A c \in ConditionTypes : st.conditions[c].gen <= gen

LEMMA RestampedNotLater ==
    ASSUME NEW x, NEW y, NEW gen \in Nat, NEW d, Restamped(x, y, gen, d), NotLater(x, gen)
    PROVE  NotLater(y, gen)
  BY DEF Restamped, NotLater

LEMMA FailStory ==
    ASSUME NEW st \in Statuses(Hashes), NEW gen \in Nat, NEW now \in Instants,
           NEW reason \in Reasons, NEW error \in LastErrors
    PROVE  LET r == fail(st, gen, now, reason, error) IN
           /\ Restamped(st, r, gen, TRUE)
           /\ NotLater(st, gen) => Agree(r)
           /\ r.phase = "Degraded" /\ r.lastError = error
<1> DEFINE r == fail(st, gen, now, reason, error)
<1>1. /\ r.phase = "Degraded" /\ r.obs = gen /\ r.lastError = error
      /\ Says(r, "Ready", "False", gen)
      /\ Says(r, "Degraded", "True", gen)
      /\ Leaves(st, r, {"Ready", "Degraded"})
  BY FailSays
<1> HIDE DEF r
<1>2. Restamped(st, r, gen, TRUE)
  BY <1>1, Names DEF Restamped, Says, Leaves
<1>3. ASSUME NotLater(st, gen) PROVE Agree(r)
  <2>1. \A c \in ConditionTypes : r.conditions[c].gen <= r.obs
    BY <1>1, <1>2, <1>3 DEF NotLater, Restamped
  <2>2. Fresh(r, "Degraded", "True") /\ ~Fresh(r, "Ready", "True")
    BY <1>1 DEF Fresh, Says
  <2> QED
    BY <1>1, <2>1, <2>2 DEF Agree
<1> QED
  BY <1>1, <1>2, <1>3 DEF r

LEMMA BlockStory ==
    ASSUME NEW st \in Statuses(Hashes), NEW gen \in Nat, NEW now \in Instants
    PROVE  LET r == block(st, gen, now) IN
           /\ Restamped(st, r, gen, FALSE)
           /\ NotLater(st, gen) /\ NotDegradedAt(st, gen) => Agree(r)
           /\ r.phase = "Blocked" /\ r.lastError = "blocked"
<1> DEFINE r == block(st, gen, now)
<1>1. /\ r.phase = "Blocked" /\ r.obs = gen /\ r.lastError = "blocked"
      /\ Says(r, "Validated", "False", gen)
      /\ Says(r, "Ready", "False", gen)
      /\ Says(r, "Progressing", "False", gen)
      /\ Leaves(st, r, {"Validated", "Ready", "Progressing"})
  BY BlockSays
<1> HIDE DEF r
<1>2. Restamped(st, r, gen, FALSE) /\ r.conditions["Degraded"] = st.conditions["Degraded"]
  BY <1>1, Names DEF Restamped, Says, Leaves
<1>3. ASSUME NotLater(st, gen), NotDegradedAt(st, gen) PROVE Agree(r)
  <2>1. \A c \in ConditionTypes : r.conditions[c].gen <= r.obs
    BY <1>1, <1>2, <1>3 DEF NotLater, Restamped
  <2>2. /\ Fresh(r, "Validated", "False") /\ ~Fresh(r, "Ready", "True")
        /\ ~Fresh(r, "Degraded", "True")
    BY <1>1, <1>2, <1>3 DEF Fresh, Says, NotDegradedAt
  <2> QED
    BY <1>1, <2>1, <2>2 DEF Agree
<1> QED
  BY <1>1, <1>2, <1>3 DEF r

LEMMA SucceedStory ==
    ASSUME NEW st \in Statuses(Hashes), NEW gen \in Nat, NEW now \in Instants,
           NEW s \in Specs, NEW phase \in {"Ready", "Applying"}
    PROVE  LET r == [succeed(st, gen, now, s) EXCEPT !.phase = phase] IN
           /\ Restamped(st, r, gen, FALSE)
           /\ NotLater(st, gen) /\ Says(st, "Validated", "True", gen) => Agree(r)
           /\ r.phase = phase /\ r.lastError = ""
<1> DEFINE q == succeed(st, gen, now, s)
           r == [q EXCEPT !.phase = phase]
<1>1. /\ q \in Statuses(Hashes) /\ q.obs = gen /\ q.lastError = ""
      /\ Says(q, "Ready", "True", gen)
      /\ Says(q, "Progressing", "False", gen)
      /\ Says(q, "Degraded", "False", gen)
      /\ Leaves(st, q, {"Ready", "Progressing", "Degraded"})
  <2>1. q \in Statuses(Hashes)
    BY Succeed
  <2>2. /\ q.obs = gen /\ q.lastError = ""
        /\ Says(q, "Ready", "True", gen)
        /\ Says(q, "Progressing", "False", gen)
        /\ Says(q, "Degraded", "False", gen)
        /\ Leaves(st, q, {"Ready", "Progressing", "Degraded"})
    BY SucceedSays
  <2> QED
    BY <2>1, <2>2
<1> HIDE DEF q
<1>2. /\ r.phase = phase /\ r.obs = gen /\ r.lastError = ""
      /\ r.conditions = q.conditions
  BY <1>1 DEF Statuses
<1> HIDE DEF r
<1>3. Restamped(st, r, gen, FALSE)
  BY <1>1, <1>2, Names DEF Restamped, Says, Leaves
<1>4. r.conditions["Validated"] = st.conditions["Validated"]
  BY <1>1, <1>2, Names DEF Leaves
<1>5. ASSUME NotLater(st, gen), Says(st, "Validated", "True", gen) PROVE Agree(r)
  <2>1. \A c \in ConditionTypes : r.conditions[c].gen <= r.obs
    <3>1. NotLater(r, gen)
      BY <1>3, <1>5, RestampedNotLater
    <3> QED
      BY <1>2, <3>1 DEF NotLater
  <2>2. /\ Fresh(r, "Validated", "True") /\ Fresh(r, "Progressing", "False")
        /\ Fresh(r, "Degraded", "False") /\ ~Fresh(r, "Degraded", "True")
        /\ ~Fresh(r, "Ready", "False")
    BY <1>1, <1>2, <1>4, <1>5 DEF Fresh, Says
  <2> QED
    BY <1>2, <2>1, <2>2 DEF Agree
<1> QED
  BY <1>2, <1>3, <1>5 DEF r, q

\* The announcement, which every pass begins with, and the validation.
LEMMA AnnouncedStory ==
    ASSUME NEW st \in Statuses(Hashes), NEW gen \in Nat, NEW now \in Instants
    PROVE  LET a == [markProgressing(st, gen, now) EXCEPT !.phase = "Planning"]
               v == Validated(a, gen, now)
           IN  /\ a \in Statuses(Hashes)
               /\ a.conditions["Degraded"] = st.conditions["Degraded"]
               /\ Restamped(st, a, gen, FALSE)
               /\ Restamped(st, v, gen, FALSE)
               /\ Says(v, "Validated", "True", gen)
<1> DEFINE a == [markProgressing(st, gen, now) EXCEPT !.phase = "Planning"]
           v == Validated(a, gen, now)
<1>1. /\ a \in Statuses(Hashes) /\ Says(a, "Progressing", "True", gen)
      /\ Leaves(st, a, {"Progressing"})
  BY AnnouncementsSay
<1> HIDE DEF a
<1>2. Says(v, "Validated", "True", gen) /\ Leaves(a, v, {"Validated"})
  BY <1>1, AnnouncementsSay
<1> HIDE DEF v
<1>3. /\ a.conditions["Degraded"] = st.conditions["Degraded"]
      /\ Restamped(st, a, gen, FALSE)
  BY <1>1, Names DEF Restamped, Says, Leaves
<1>4. Restamped(st, v, gen, FALSE)
  BY <1>2, <1>3, Names DEF Restamped, Says, Leaves
<1> QED
  BY <1>1, <1>2, <1>3, <1>4 DEF v, a

\* Restamping twice is restamping.
LEMMA RestampedTwice ==
    ASSUME NEW x, NEW y, NEW z, NEW gen, NEW d \in BOOLEAN,
           Restamped(x, y, gen, FALSE), Restamped(y, z, gen, d)
    PROVE  Restamped(x, z, gen, d)
  BY DEF Restamped

-----------------------------------------------------------------------------
(***************************************************************************)
(* The steps that edit the worker's copy.                                  *)
(***************************************************************************)

LEMMA BeginStory ==
    ASSUME TypeOK
    PROVE  /\ ReconcileInvalid =>
                  /\ Restamped(cache.status, p'.status, cache.gen, TRUE)
                  /\ NotLater(cache.status, cache.gen) => Agree(p'.status)
                  /\ p'.status.phase = "Degraded" /\ p'.status.lastError = "core"
           /\ ReconcileBlocked =>
                  /\ Restamped(cache.status, p'.status, cache.gen, FALSE)
                  /\ NotLater(cache.status, cache.gen)
                         /\ NotDegradedAt(cache.status, cache.gen) => Agree(p'.status)
                  /\ p'.status.phase = "Blocked" /\ p'.status.lastError = "blocked"
           /\ ReconcileKubernetes \/ ReconcileAzure =>
                  /\ Restamped(cache.status, p'.status, cache.gen, FALSE)
                  /\ Says(p'.status, "Validated", "True", cache.gen)
<1> DEFINE a(now) == [markProgressing(cache.status, cache.gen, now)
                          EXCEPT !.phase = "Planning"]
<1>1. cache.gen \in Nat /\ cache.status \in Statuses(Hashes)
  BY DEF TypeOK, Copies
<1>2. \A now \in Instants :
          /\ a(now) \in Statuses(Hashes)
          /\ a(now).conditions["Degraded"] = cache.status.conditions["Degraded"]
          /\ Restamped(cache.status, a(now), cache.gen, FALSE)
          /\ Restamped(cache.status, Validated(a(now), cache.gen, now), cache.gen, FALSE)
          /\ Says(Validated(a(now), cache.gen, now), "Validated", "True", cache.gen)
  BY <1>1, AnnouncedStory
<1>v. /\ ReconcileInvalid => Verdict(specs[cache.gen]) = "error"
      /\ ReconcileBlocked => Verdict(specs[cache.gen]) = "blocked"
      /\ ReconcileKubernetes \/ ReconcileAzure => Verdict(specs[cache.gen]) = "ok"
  BY DEF ReconcileInvalid, ReconcileBlocked, ReconcileKubernetes, ReconcileAzure, Begin
<1>3. CASE ReconcileInvalid
  <2>1. PICK now \in Instants :
            p' = [gen |-> cache.gen,
                  status |-> fail(a(now), cache.gen, now, "ValidationFailed", "core")]
    BY <1>3 DEF ReconcileInvalid, Begin
  <2> HIDE DEF a
  <2> DEFINE r == fail(a(now), cache.gen, now, "ValidationFailed", "core")
  <2>2. /\ Restamped(a(now), r, cache.gen, TRUE)
        /\ NotLater(a(now), cache.gen) => Agree(r)
        /\ r.phase = "Degraded" /\ r.lastError = "core"
    <3>1. "ValidationFailed" \in Reasons /\ "core" \in LastErrors
      BY DEF Reasons, LastErrors
    <3>2. /\ Restamped(a(now), r, cache.gen, TRUE)
          /\ NotLater(a(now), cache.gen) => Agree(r)
      BY <1>1, <1>2, <3>1, FailStory
    <3>3. r.phase = "Degraded" /\ r.lastError = "core"
      <4>1. a(now) \in Statuses(Hashes) /\ cache.gen \in Nat
        BY <1>1, <1>2
      <4> QED
        BY <3>1, <4>1, FailSays
    <3> QED
      BY <3>2, <3>3
  <2>3. p'.status = r
    BY <2>1
  <2> HIDE DEF r
  <2>4. Restamped(cache.status, r, cache.gen, TRUE)
    BY <1>2, <2>2, RestampedTwice
  <2>5. NotLater(cache.status, cache.gen) => NotLater(a(now), cache.gen)
    BY <1>1, <1>2, RestampedNotLater
  <2> QED
    BY <1>3, <1>v, <2>2, <2>3, <2>4, <2>5
<1>4. CASE ReconcileBlocked
  <2>1. PICK now \in Instants :
            p' = [gen |-> cache.gen, status |-> block(a(now), cache.gen, now)]
    BY <1>4 DEF ReconcileBlocked, Begin
  <2> HIDE DEF a
  <2> DEFINE r == block(a(now), cache.gen, now)
  <2>2. /\ Restamped(a(now), r, cache.gen, FALSE)
        /\ NotLater(a(now), cache.gen) /\ NotDegradedAt(a(now), cache.gen) => Agree(r)
        /\ r.phase = "Blocked" /\ r.lastError = "blocked"
    BY <1>1, <1>2, BlockStory
  <2>3. p'.status = r
    BY <2>1
  <2> HIDE DEF r
  <2>4. Restamped(cache.status, r, cache.gen, FALSE)
    BY <1>2, <2>2, RestampedTwice
  <2>5. NotLater(cache.status, cache.gen) => NotLater(a(now), cache.gen)
    BY <1>1, <1>2, RestampedNotLater
  <2>6. NotDegradedAt(cache.status, cache.gen) => NotDegradedAt(a(now), cache.gen)
    BY <1>2 DEF NotDegradedAt
  <2> QED
    BY <1>4, <1>v, <2>2, <2>3, <2>4, <2>5, <2>6
<1>5. CASE ReconcileKubernetes \/ ReconcileAzure
  <2>1. PICK now \in Instants :
            p' = [gen |-> cache.gen, status |-> Validated(a(now), cache.gen, now)]
    BY <1>5 DEF ReconcileKubernetes, ReconcileAzure, Begin
  <2> HIDE DEF a
  <2>2. p'.status = Validated(a(now), cache.gen, now)
    BY <2>1
  <2>3. Restamped(cache.status, p'.status, cache.gen, FALSE)
        /\ Says(p'.status, "Validated", "True", cache.gen)
    BY <1>2, <2>2
  <2> QED
    BY <1>5, <1>v, <2>3
<1> QED
  BY <1>3, <1>4, <1>5

LEMMA FinishStory ==
    ASSUME TypeOK, VersionsOrdered, FinishApply,
           NotLater(p.status, p.gen), Says(p.status, "Validated", "True", p.gen)
    PROVE  Restamped(p.status, p'.status, p.gen, TRUE) /\ Agree(p'.status)
<1> DEFINE st(now) == [p.status EXCEPT !.tools = toolStatus(now)]
           good(now) == [succeed(st(now), p.gen, now, specs[p.gen]) EXCEPT !.phase = "Ready"]
           bad(now) == fail(st(now), p.gen, now, "ApplyFailed", "apply")
<1>1. PICK now \in Instants :
        p' = [p EXCEPT !.status = IF failed # {} THEN bad(now) ELSE good(now)]
  BY DEF FinishApply
<1>2. p.gen \in Nat /\ p.status \in Statuses(Hashes) /\ specs[p.gen] \in Specs
      /\ p = [gen |-> p.gen, status |-> p.status]
  BY ReadType DEF TypeOK, Copies, FinishApply, InPass
<1>3. toolStatus(now) \in ToolReports
  <2>1. \A k \in Kinds : toolFromKind(k) \in Tools
    BY DEF Kinds, toolFromKind, Tools
  <2>2. \A k \in applied \cup failed : k \in Kinds
    BY DEF TypeOK
  <2>3. \A k \in applied \cup failed :
            [tool  |-> toolFromKind(k),
             phase |-> IF k \in failed THEN "Degraded" ELSE "Ready"]
                \in [tool: Tools, phase: {"Ready", "Degraded", "Applying"}]
    BY <2>1, <2>2
  <2> QED
    BY <2>3 DEF toolStatus, ToolReports
<1>4. st(now) \in Statuses(Hashes) /\ st(now).conditions = p.status.conditions
  BY <1>2, <1>3 DEF Statuses
<1> HIDE DEF st
<1>5. NotLater(st(now), p.gen) /\ Says(st(now), "Validated", "True", p.gen)
  BY <1>4 DEF NotLater, Says
<1>6. Restamped(st(now), bad(now), p.gen, TRUE) /\ Agree(bad(now))
  <2>1. "ApplyFailed" \in Reasons /\ "apply" \in LastErrors
    BY DEF Reasons, LastErrors
  <2> QED
    BY <1>2, <1>4, <1>5, <2>1, FailStory
<1>7. Restamped(st(now), good(now), p.gen, FALSE) /\ Agree(good(now))
  BY <1>2, <1>4, <1>5, SucceedStory
<1> HIDE DEF bad, good
<1>8. p'.status \in {bad(now), good(now)}
  BY <1>1, <1>2
<1> QED
  BY <1>4, <1>6, <1>7, <1>8 DEF Restamped

LEMMA TriggerStory ==
    ASSUME TypeOK, VersionsOrdered, PassFitsSpec, TriggerAccepted,
           NotLater(p.status, p.gen), Says(p.status, "Validated", "True", p.gen)
    PROVE  /\ Restamped(p.status, p'.status, p.gen, FALSE) /\ Agree(p'.status)
           /\ p'.status.phase = "Applying" /\ p'.status.lastError = ""
<1> DEFINE tools == [entries |-> {[tool |-> "azure-pipeline", phase |-> "Applying"]},
                     order |-> 0]
           st == [p.status EXCEPT !.run = runs', !.tools = tools]
           q(now) == succeed(st, p.gen, now, specs[p.gen])
           r(now) == [q(now) EXCEPT !.phase = "Applying"]
<1>1. PICK now \in Instants : p' = [p EXCEPT !.status = q(now)]
  BY DEF TriggerAccepted
<1>2. p.gen \in Nat /\ p.status \in Statuses(Hashes) /\ specs[p.gen] \in Specs
      /\ p = [gen |-> p.gen, status |-> p.status]
  BY ReadType DEF TypeOK, Copies, TriggerAccepted, InPass
<1>3. tools \in ToolReports /\ runs' \in Nat
  BY DEF ToolReports, Tools, Instants, TriggerAccepted, RunStarts, TypeOK
<1>4. p.status.phase = "Applying"
  BY DEF PassFitsSpec, TriggerAccepted
<1> HIDE DEF tools
<1>5. /\ st \in Statuses(Hashes) /\ st.conditions = p.status.conditions
      /\ st.phase = "Applying"
  BY <1>2, <1>3, <1>4 DEF Statuses
<1> HIDE DEF st
<1>6. NotLater(st, p.gen) /\ Says(st, "Validated", "True", p.gen)
  BY <1>5 DEF NotLater, Says
<1>7. q(now) \in Statuses(Hashes) /\ q(now).phase = "Applying"
  BY <1>2, <1>5, Succeed
<1>8. /\ Restamped(st, r(now), p.gen, FALSE) /\ Agree(r(now))
      /\ r(now).phase = "Applying" /\ r(now).lastError = ""
  <2>1. Restamped(st, r(now), p.gen, FALSE) /\ Agree(r(now))
    BY <1>2, <1>5, <1>6, SucceedStory
  <2>2. r(now).phase = "Applying" /\ r(now).lastError = ""
    <3>1. q(now).lastError = ""
      <4>1. st \in Statuses(Hashes) /\ p.gen \in Nat /\ specs[p.gen] \in Specs
        BY <1>2, <1>5
      <4> QED
        BY <4>1, SucceedSays
    <3> HIDE DEF q
    <3> QED
      BY <1>7, <3>1 DEF Statuses
  <2> QED
    BY <2>1, <2>2
<1> HIDE DEF q
<1>9. r(now) = q(now)
  BY <1>7 DEF Statuses
<1> HIDE DEF r
<1>10. p'.status = q(now)
  BY <1>1, <1>2
<1> QED
  BY <1>5, <1>8, <1>9, <1>10 DEF Restamped

LEMMA TriggerFailsStory ==
    ASSUME TypeOK, TriggerFails, NotLater(p.status, p.gen)
    PROVE  /\ Restamped(p.status, p'.status, p.gen, TRUE) /\ Agree(p'.status)
           /\ p'.status.phase = "Degraded" /\ p'.status.lastError # "apply"
<1>1. PICK now \in Instants, error \in PipelineErrors :
        p' = [p EXCEPT !.status = fail(p.status, p.gen, now, "PipelineFailed", error)]
  BY DEF TriggerFails
<1>2. p.gen \in Nat /\ p.status \in Statuses(Hashes)
      /\ p = [gen |-> p.gen, status |-> p.status]
  BY DEF TypeOK, Copies
<1>3. "PipelineFailed" \in Reasons /\ error \in LastErrors /\ error # "apply"
  BY DEF Reasons, LastErrors, PipelineErrors
<1> DEFINE r == fail(p.status, p.gen, now, "PipelineFailed", error)
<1>4. /\ Restamped(p.status, r, p.gen, TRUE) /\ Agree(r)
      /\ r.phase = "Degraded" /\ r.lastError = error
  <2>1. Restamped(p.status, r, p.gen, TRUE) /\ Agree(r)
    BY <1>2, <1>3, FailStory
  <2>2. r.phase = "Degraded" /\ r.lastError = error
    BY <1>2, <1>3, FailSays
  <2> QED
    BY <2>1, <2>2
<1>5. p'.status = r
  BY <1>1, <1>2
<1> QED
  BY <1>3, <1>4, <1>5

-----------------------------------------------------------------------------
(***************************************************************************)
(* Conditions are stamped in order, and Degraded never by a blocked pass.  *)
(***************************************************************************)

\* StampedBy of a status as it is now and of the specs after a step.
StampedLater(st, g) ==
    /\ NotLater(st, g)
    /\ st.conditions["Degraded"].status = "True" =>
           /\ st.conditions["Degraded"].gen # 0
           /\ Verdict(specs'[st.conditions["Degraded"].gen]) # "blocked"

LEMMA StampKept ==
    ASSUME TypeOK, [Next]_vars, NEW st \in Statuses(Hashes),
           NEW g \in 0..generation, StampedBy(st, g)
    PROVE  StampedLater(st, g)
<1>1. NotLater(st, g)
  BY DEF StampedBy, NotLater
<1> DEFINE k == st.conditions["Degraded"].gen
<1>2. ASSUME st.conditions["Degraded"].status = "True"
      PROVE  k # 0 /\ Verdict(specs'[k]) # "blocked"
  <2>1. k # 0 /\ Verdict(specs[k]) # "blocked" /\ k <= g
    BY <1>2, Names DEF StampedBy
  <2>2. k \in Nat
    BY Names DEF Statuses, Conditions
  <2>3. generation \in Nat
    BY Numbers
  <2> HIDE DEF k
  <2>4. k \in 1..generation
    BY <2>1, <2>2, <2>3
  <2>5. specs'[k] = specs[k]
    BY <2>4, HistoryKept
  <2> QED
    BY <2>1, <2>5
<1> QED
  BY <1>1, <1>2 DEF StampedLater

\* A pass stamps what it has read with a generation that is no earlier.
LEMMA StampCarried ==
    ASSUME NEW x \in Statuses(Hashes), NEW y, NEW g \in Nat, NEW h \in Nat \ {0},
           NEW d \in BOOLEAN, g <= h, StampedLater(x, g), Restamped(x, y, h, d),
           d => Verdict(specs'[h]) # "blocked"
    PROVE  StampedLater(y, h)
<1>1. NotLater(x, h)
  <2>1. \A c \in ConditionTypes : x.conditions[c].gen \in Nat
    BY DEF Statuses, Conditions
  <2> QED
    BY <2>1 DEF StampedLater, NotLater
<1>2. NotLater(y, h)
  BY <1>1, RestampedNotLater
<1>3. ASSUME y.conditions["Degraded"].status = "True"
      PROVE  /\ y.conditions["Degraded"].gen # 0
             /\ Verdict(specs'[y.conditions["Degraded"].gen]) # "blocked"
  <2>1. CASE y.conditions["Degraded"] = x.conditions["Degraded"]
    BY <1>3, <2>1 DEF StampedLater
  <2>2. CASE y.conditions["Degraded"].gen = h /\ d
    BY <2>2
  <2> QED
    BY <1>3, <2>1, <2>2 DEF Restamped
<1> QED
  BY <1>2, <1>3 DEF StampedLater

LEMMA EmptyStamps ==
    /\ \A c \in ConditionTypes : NoStatus.conditions[c].gen = 0
    /\ \A c \in ConditionTypes : NoStatus.conditions[c].status = "Absent"
    /\ NoStatus.obs = 0 /\ NoStatus.phase = "" /\ NoStatus.lastError = ""
<1>1. \A c \in ConditionTypes : NoStatus.conditions[c] = NoCondition
  BY DEF NoStatus, EmptyStatus
<1>2. NoCondition.gen = 0 /\ NoCondition.status = "Absent"
  BY DEF NoCondition
<1>3. NoStatus.obs = 0 /\ NoStatus.phase = "" /\ NoStatus.lastError = ""
  BY DEF NoStatus, EmptyStatus
<1> QED
  BY <1>1, <1>2, <1>3

LEMMA EmptyStamped == StampedLater(NoStatus, 0) /\ StampedBy(NoStatus, 0) /\ Agree(NoStatus)
<1>1. ASSUME NEW c \in ConditionTypes PROVE NoStatus.conditions[c].gen <= 0
  <2>1. NoStatus.conditions[c].gen = 0
    BY EmptyStamps
  <2> QED
    BY <2>1
<1>2. \A c \in ConditionTypes : NoStatus.conditions[c].status # "True"
  BY EmptyStamps
<1>3. "Degraded" \in ConditionTypes /\ "Ready" \in ConditionTypes
  BY Names
<1>4. StampedLater(NoStatus, 0) /\ StampedBy(NoStatus, 0)
  <2>1. NoStatus.conditions["Degraded"].status # "True"
    BY <1>2, <1>3
  <2>2. NotLater(NoStatus, 0)
    BY <1>1 DEF NotLater
  <2>3. StampedLater(NoStatus, 0)
    BY <2>1, <2>2 DEF StampedLater
  <2>4. StampedBy(NoStatus, 0)
    BY <1>1, <2>1 DEF StampedBy
  <2> QED
    BY <2>3, <2>4
<1>5. ~Fresh(NoStatus, "Ready", "True") /\ ~Fresh(NoStatus, "Degraded", "True")
  BY <1>2, <1>3 DEF Fresh
<1>6. \A c \in ConditionTypes : NoStatus.conditions[c].gen <= NoStatus.obs
  BY <1>1, EmptyStamps
<1>7. NoStatus.obs = 0
  BY EmptyStamps
<1>8. Agree(NoStatus)
  BY <1>5, <1>6, <1>7 DEF Agree
<1> QED
  BY <1>4, <1>8

LEMMA StampsStep ==
    ASSUME IInv, History, Testimony, [Next]_vars
    PROVE  Stamps'
<1>0. /\ TypeOK /\ VersionsOrdered /\ VersionsCompared /\ PassFitsSpec /\ WritesTruth
      /\ CopiesOrdered /\ Stamps /\ Stories
      /\ generation \in Nat /\ cache.gen \in Nat /\ p.gen \in Nat
      /\ status.obs \in Nat /\ cache.status.obs \in Nat
      /\ status \in Statuses(Hashes) /\ cache.status \in Statuses(Hashes)
      /\ p.status \in Statuses(Hashes)
  BY Numbers DEF IInv, History, Testimony, TypeOK, Copies, Statuses
<1>a. StampedLater(status, status.obs)
  <2>1. status.obs \in 0..generation /\ StampedBy(status, status.obs)
    BY <1>0 DEF VersionsOrdered, Stamps
  <2> QED
    BY <1>0, <2>1, StampKept
<1>b. StampedLater(cache.status, cache.status.obs)
  <2>1. cache.status.obs \in 0..generation /\ StampedBy(cache.status, cache.status.obs)
    BY <1>0 DEF VersionsOrdered, CopiesOrdered, Stamps
  <2> QED
    BY <1>0, <2>1, StampKept
<1>c. InPass => StampedLater(p.status, p.gen)
  <2>1. p.gen \in 0..generation /\ (InPass => StampedBy(p.status, p.gen))
    BY <1>0 DEF VersionsOrdered, Stamps
  <2> QED
    BY <1>0, <2>1, StampKept
<1>1. StampedLater(status', status'.obs)
  <2>1. CASE status' = status
    BY <1>a, <2>1
  <2>2. CASE UpdateLands
    <3>1. status' = p.status /\ status'.obs = p.gen /\ InPass
      BY <1>0, <2>2 DEF UpdateLands, WritesTruth, InPass
    <3> QED
      BY <1>c, <3>1
  <2>3. CASE Delete
    BY <2>3, EmptyStamped, EmptyStamps DEF Delete
  <2>4. (\E s \in Specs : Edit(s)) => status' = status
    BY DEF Edit
  <2> QED
    BY <2>1, <2>2, <2>3, <2>4, StoreSteps
<1>2. StampedLater(cache'.status, cache'.status.obs)
  <2>1. CASE cache' = cache
    BY <1>b, <2>1
  <2>2. CASE cache' = Stored
    BY <1>a, <2>2, StoredIs, EmptyStamped, EmptyStamps
  <2>3. CASE cache' = NoCopy
    BY <2>3, EmptyCopy, EmptyStamped, EmptyStamps
  <2> QED
    BY <2>1, <2>2, <2>3, CacheSteps
<1>3. InPass' => StampedLater(p'.status, p'.gen)
  <2>1. CASE ReconcileInvalid \/ ReconcileBlocked \/ ReconcileKubernetes \/ ReconcileAzure
    <3>1. p'.gen = cache.gen /\ cache.gen # 0 /\ specs' = specs
      BY <1>0, <2>1, PassBegins DEF store
    <3>2. PICK d \in BOOLEAN : /\ Restamped(cache.status, p'.status, cache.gen, d)
                               /\ d => Verdict(specs'[cache.gen]) # "blocked"
      <4>1. CASE ReconcileInvalid
        <5>1. Verdict(specs[cache.gen]) = "error"
          BY <4>1 DEF ReconcileInvalid, Begin
        <5> QED
          BY <1>0, <3>1, <4>1, <5>1, BeginStory
      <4>2. CASE ReconcileBlocked \/ ReconcileKubernetes \/ ReconcileAzure
        BY <1>0, <4>2, BeginStory
      <4> QED
        BY <2>1, <4>1, <4>2
    <3>3. cache.status.obs <= cache.gen
      BY <1>0 DEF CopiesOrdered
    <3>4. StampedLater(p'.status, cache.gen)
      BY <1>0, <1>b, <3>1, <3>2, <3>3, StampCarried
    <3> QED
      BY <3>1, <3>4
  <2>2. CASE FinishApply \/ TriggerAccepted \/ TriggerRefused \/ TriggerReplyLost
    <3>1. p'.gen = p.gen /\ p.gen # 0 /\ InPass /\ specs' = specs
      BY <1>0, <2>2, PassGoesOn DEF store, VersionsOrdered
    <3>2. Verdict(specs'[p.gen]) = "ok"
      BY <1>0, <2>2, <3>1 DEF PassFitsSpec, FinishApply, TriggerAccepted,
         TriggerRefused, TriggerReplyLost
    <3>3. NotLater(p.status, p.gen)
      BY <1>c, <3>1 DEF StampedLater
    <3>4. Says(p.status, "Validated", "True", p.gen)
      BY <1>0, <2>2 DEF Stories, Says, FinishApply, TriggerAccepted,
         TriggerRefused, TriggerReplyLost
    <3>5. PICK d \in BOOLEAN : Restamped(p.status, p'.status, p.gen, d)
      <4>1. CASE FinishApply
        BY <1>0, <3>3, <3>4, <4>1, FinishStory
      <4>2. CASE TriggerAccepted
        BY <1>0, <3>3, <3>4, <4>2, TriggerStory
      <4>3. CASE TriggerRefused \/ TriggerReplyLost
        <5>1. TriggerFails
          BY <4>3 DEF TriggerRefused, TriggerReplyLost
        <5> QED
          BY <1>0, <3>3, <5>1, TriggerFailsStory
      <4> QED
        BY <2>2, <4>1, <4>2, <4>3
    <3>6. StampedLater(p'.status, p.gen)
      BY <1>0, <1>c, <3>1, <3>2, <3>5, StampCarried
    <3> QED
      BY <3>1, <3>6
  <2>3. CASE \/ ApplyAccepted \/ ApplyRefused \/ ApplyReplyLost
    <3>1. p' = p /\ InPass
      BY <2>3 DEF ApplyAccepted, ApplyRefused, ApplyReplyLost, InPass
    <3> QED
      BY <1>c, <3>1
  <2>4. CASE UpdateAccepted \/ UpdateReplyLost \/ UpdateConflicts \/ UpdateFails
    BY <2>4, PassEnds DEF InPass
  <2>5. CASE \/ Touch \/ Delete \/ Crash \/ Start \/ Deliver \/ TimerFires
             \/ ReconcileAbsent \/ ReconcileGetFails
             \/ (\E s \in Specs : Edit(s))
             \/ (\E o \in Objects : Drift(o) \/ Collect(o))
             \/ UNCHANGED vars
    <3>1. CASE UNCHANGED <<pc, p>>
      BY <1>c, <3>1 DEF InPass
    <3>2. CASE pc' \in {"down", "idle"}
      BY <3>2 DEF InPass
    <3> QED
      BY <2>5, <3>1, <3>2, PassKept
  <2> QED
    BY <2>1, <2>2, <2>3, <2>4, <2>5 DEF Next, Environment, Runtime, Reconcile
<1> QED
  BY <1>1, <1>2, <1>3 DEF Stamps, StampedBy, StampedLater, NotLater

-----------------------------------------------------------------------------
(***************************************************************************)
(* What is written agrees with itself, and with the tools it lists.        *)
(***************************************************************************)

LEMMA StoriesStep ==
    ASSUME IInv, History, Testimony, [Next]_vars
    PROVE  Stories'
<1>0. /\ TypeOK /\ VersionsOrdered /\ PassFitsSpec
      /\ CopiesOrdered /\ Stamps /\ Stories
      /\ cache.gen \in Nat /\ cache.status.obs \in Nat
      /\ cache.status \in Statuses(Hashes)
  BY Numbers DEF IInv, History, Testimony, TypeOK, Copies, Statuses
<1> DEFINE Ready(st, gen, c) ==
        /\ c \in {"applying", "triggering"} => Says(st, "Validated", "True", gen)
        /\ c = "writing" => Agree(st)
<1>1. Agree(status')
  <2>1. CASE UpdateLands
    BY <1>0, <2>1 DEF UpdateLands, Stories
  <2>2. CASE Delete
    BY <2>2, EmptyStamped DEF Delete
  <2>3. (\E s \in Specs : Edit(s)) => status' = status
    BY DEF Edit
  <2> QED
    BY <1>0, <2>1, <2>2, <2>3, StoreSteps DEF Stories
<1>2. Ready(p'.status, p'.gen, pc')
  <2>0. Ready(p.status, p.gen, pc)
    BY <1>0 DEF Stories, Says
  <2>1. CASE ReconcileInvalid \/ ReconcileBlocked \/ ReconcileKubernetes \/ ReconcileAzure
    <3>1. p'.gen = cache.gen
      BY <1>0, <2>1, PassBegins
    <3>2. NotLater(cache.status, cache.gen)
      <4>1. \A c \in ConditionTypes : cache.status.conditions[c].gen \in Nat
        BY <1>0 DEF Statuses, Conditions
      <4> QED
        BY <1>0, <4>1 DEF Stamps, StampedBy, CopiesOrdered, NotLater
    <3>3. CASE ReconcileInvalid
      <4>1. Agree(p'.status)
        BY <1>0, <3>2, <3>3, BeginStory
      <4> QED
        BY <3>3, <4>1 DEF ReconcileInvalid
    <3>4. CASE ReconcileBlocked
      <4>1. Verdict(specs[cache.gen]) = "blocked"
        BY <3>4 DEF ReconcileBlocked, Begin
      <4>2. NotDegradedAt(cache.status, cache.gen)
        BY <1>0, <4>1 DEF Stamps, StampedBy, NotDegradedAt
      <4>3. Agree(p'.status)
        BY <1>0, <3>2, <3>4, <4>2, BeginStory
      <4> QED
        BY <3>4, <4>3 DEF ReconcileBlocked
    <3>5. CASE ReconcileKubernetes \/ ReconcileAzure
      <4>1. Says(p'.status, "Validated", "True", cache.gen)
        BY <1>0, <3>5, BeginStory
      <4>2. pc' # "writing"
        BY <3>5 DEF ReconcileKubernetes, ReconcileAzure
      <4> QED
        BY <3>1, <4>1, <4>2
    <3> QED
      BY <2>1, <3>3, <3>4, <3>5
  <2>2. CASE FinishApply \/ TriggerAccepted \/ TriggerRefused \/ TriggerReplyLost
    <3>1. InPass
      BY <1>0, <2>2, PassGoesOn
    <3>2. NotLater(p.status, p.gen)
      BY <1>0, <3>1 DEF Stamps, StampedBy, NotLater
    <3>3. Says(p.status, "Validated", "True", p.gen)
      BY <2>0, <2>2 DEF FinishApply, TriggerAccepted, TriggerRefused, TriggerReplyLost
    <3>4. Agree(p'.status)
      <4>1. CASE FinishApply
        BY <1>0, <3>2, <3>3, <4>1, FinishStory
      <4>2. CASE TriggerAccepted
        BY <1>0, <3>2, <3>3, <4>2, TriggerStory
      <4>3. CASE TriggerRefused \/ TriggerReplyLost
        <5>1. TriggerFails
          BY <4>3 DEF TriggerRefused, TriggerReplyLost
        <5> QED
          BY <1>0, <3>2, <5>1, TriggerFailsStory
      <4> QED
        BY <2>2, <4>1, <4>2, <4>3
    <3>5. pc' = "writing"
      BY <2>2 DEF FinishApply, TriggerAccepted, TriggerRefused, TriggerReplyLost,
         TriggerFails
    <3> QED
      BY <3>4, <3>5
  <2>3. CASE ApplyAccepted \/ ApplyRefused \/ ApplyReplyLost
    <3>1. UNCHANGED <<pc, p>>
      BY <2>3 DEF ApplyAccepted, ApplyRefused, ApplyReplyLost
    <3> HIDE DEF Ready
    <3> QED
      BY <2>0, <3>1
  <2>4. CASE UpdateAccepted \/ UpdateReplyLost \/ UpdateConflicts \/ UpdateFails
    BY <2>4, PassEnds
  <2>5. CASE \/ Touch \/ Delete \/ Crash \/ Start \/ Deliver \/ TimerFires
             \/ ReconcileAbsent \/ ReconcileGetFails
             \/ (\E s \in Specs : Edit(s))
             \/ (\E o \in Objects : Drift(o) \/ Collect(o))
             \/ UNCHANGED vars
    <3>1. CASE UNCHANGED <<pc, p>>
      <4> HIDE DEF Ready
      <4> QED
        BY <2>0, <3>1
    <3>2. CASE pc' \in {"down", "idle"}
      BY <3>2
    <3> QED
      BY <2>5, <3>1, <3>2, PassKept
  <2> QED
    BY <2>1, <2>2, <2>3, <2>4, <2>5 DEF Next, Environment, Runtime, Reconcile
<1> QED
  BY <1>1, <1>2 DEF Stories, Agree, Fresh, Says

\* ReportsOn of a status as it is now and of the specs and objects after a step.
SaysLater(st, g) ==
    st.phase = "Ready" \/ st.lastError = "apply" =>
        \E k \in Nat \ {0} : k = g /\ ReportLater(st.tools.entries, k)

LEMMA SayingKept ==
    ASSUME TypeOK, VersionsOrdered, [Next]_vars, exists', NEW st,
           NEW g \in 0..generation, InPass => g <= p.gen, ReportsOn(st, g)
    PROVE  SaysLater(st, g)
<1> SUFFICES ASSUME st.phase = "Ready" \/ st.lastError = "apply"
             PROVE  \E k \in Nat \ {0} : k = g /\ ReportLater(st.tools.entries, k)
  BY DEF SaysLater
<1>1. g # 0 /\ ReportOf(st.tools.entries, g)
  BY DEF ReportsOn
<1>2. g \in 1..generation
  BY <1>1, Numbers
<1>3. ReportOf(st.tools.entries, g)'
  BY <1>1, <1>2, ReportKept
<1>4. ReportLater(st.tools.entries, g)
  BY <1>3 DEF ReportOf, ReportLater, Lasting
<1> QED
  BY <1>2, <1>4

LEMMA ReportsStep ==
    ASSUME IInv, History, Testimony, [Next]_vars
    PROVE  Reports'
<1>0. /\ TypeOK /\ VersionsOrdered /\ VersionsCompared /\ PassFitsSpec /\ WritesTruth
      /\ KindsSoFar /\ CopiesOrdered /\ Stamps /\ Stories
      /\ generation \in Nat /\ p.gen \in Nat /\ status.obs \in Nat
  BY Numbers DEF IInv, History, Testimony
<1> SUFFICES ASSUME exists' PROVE Reports'
  BY DEF Reports
<1>e. exists /\ Reports
  BY NeverRecreated DEF Testimony
<1>a. SaysLater(status, status.obs)
  <2>1. status.obs \in 0..generation /\ (InPass => status.obs <= p.gen)
    BY <1>0 DEF VersionsOrdered
  <2> QED
    BY <1>0, <1>e, <2>1, SayingKept DEF Reports
<1>b. pc = "writing" => SaysLater(p.status, p.gen)
  <2>1. p.gen \in 0..generation /\ p.gen <= p.gen
    BY <1>0 DEF VersionsOrdered
  <2> QED
    BY <1>0, <1>e, <2>1, SayingKept DEF Reports
<1>1. SaysLater(status', status'.obs)
  <2>1. CASE status' = status
    BY <1>a, <2>1
  <2>2. CASE UpdateLands
    <3>1. status' = p.status /\ status'.obs = p.gen /\ pc = "writing"
      BY <1>0, <2>2 DEF UpdateLands, WritesTruth
    <3> QED
      BY <1>b, <3>1
  <2> QED
    BY <2>1, <2>2, StatusSteps
<1>2. pc' = "writing" => SaysLater(p'.status, p'.gen)
  <2>1. CASE ReconcileInvalid \/ ReconcileBlocked
    BY <1>0, <2>1, BeginStory DEF SaysLater
  <2>2. CASE FinishApply
    <3>0. /\ p'.gen = p.gen /\ InPass /\ p.gen \in 1..generation
      BY <1>0, <2>2, PassGoesOn DEF VersionsOrdered
    <3>1. PICK g \in 1..generation : g = p.gen
      BY <3>0
    <3>2. ReportLater(Entries, g)
      BY <1>0, <1>e, <2>2, <3>1, FinishedReport
    <3>3. p'.status.tools.entries = Entries
      BY <1>0, <2>2, FinishParts
    <3> HIDE DEF Entries
    <3> QED
      BY <1>0, <3>0, <3>1, <3>2, <3>3 DEF SaysLater
  <2>3. CASE TriggerAccepted \/ TriggerRefused \/ TriggerReplyLost
    <3>1. InPass
      BY <1>0, <2>3, PassGoesOn
    <3>2. NotLater(p.status, p.gen)
      BY <1>0, <3>1 DEF Stamps, StampedBy, NotLater
    <3>3. Says(p.status, "Validated", "True", p.gen)
      BY <1>0, <2>3 DEF Stories, Says, TriggerAccepted, TriggerRefused, TriggerReplyLost
    <3>4. p'.status.phase # "Ready" /\ p'.status.lastError # "apply"
      <4>1. CASE TriggerAccepted
        <5>1. p'.status.phase = "Applying" /\ p'.status.lastError = ""
          BY <1>0, <3>2, <3>3, <4>1, TriggerStory
        <5> QED
          BY <5>1
      <4>2. CASE TriggerRefused \/ TriggerReplyLost
        <5>1. TriggerFails
          BY <4>2 DEF TriggerRefused, TriggerReplyLost
        <5>2. p'.status.phase = "Degraded" /\ p'.status.lastError # "apply"
          BY <1>0, <3>2, <5>1, TriggerFailsStory
        <5> QED
          BY <5>2
      <4> QED
        BY <2>3, <4>1, <4>2
    <3> QED
      BY <3>4 DEF SaysLater
  <2>4. CASE ReconcileKubernetes \/ ReconcileAzure
    BY <2>4 DEF ReconcileKubernetes, ReconcileAzure
  <2>5. CASE ApplyAccepted \/ ApplyRefused \/ ApplyReplyLost
    BY <2>5 DEF ApplyAccepted, ApplyRefused, ApplyReplyLost
  <2>6. CASE UpdateAccepted \/ UpdateReplyLost \/ UpdateConflicts \/ UpdateFails
    BY <2>6, PassEnds
  <2>7. CASE \/ Touch \/ Delete \/ Crash \/ Start \/ Deliver \/ TimerFires
             \/ ReconcileAbsent \/ ReconcileGetFails
             \/ (\E s \in Specs : Edit(s))
             \/ (\E o \in Objects : Drift(o) \/ Collect(o))
             \/ UNCHANGED vars
    <3>1. CASE UNCHANGED <<pc, p>>
      BY <1>b, <3>1
    <3>2. CASE pc' \in {"down", "idle"}
      BY <3>2
    <3> QED
      BY <2>7, <3>1, <3>2, PassKept
  <2> QED
    BY <2>1, <2>2, <2>3, <2>4, <2>5, <2>6, <2>7
       DEF Next, Environment, Runtime, Reconcile
<1> QED
  BY <1>1, <1>2 DEF Reports, ReportsOn, SaysLater, ReportLater, ReportOf

-----------------------------------------------------------------------------
(***************************************************************************)
(* The theorems.                                                           *)
(***************************************************************************)

LEMMA InitTestimony == Init => Testimony
<1> SUFFICES ASSUME Init PROVE Testimony
  OBVIOUS
<1>1. status = NoStatus /\ cache.status = NoStatus /\ pc = "down"
  BY EmptyCopy DEF Init
<1>2. status.obs = 0 /\ cache.status.obs = 0 /\ ~InPass
      /\ status.phase = "" /\ status.lastError = ""
  BY <1>1, EmptyStamps DEF InPass
<1>3. Stamps
  BY <1>1, <1>2, EmptyStamped DEF Stamps
<1>4. Stories
  BY <1>1, EmptyStamped DEF Stories
<1>5. Reports
  BY <1>1, <1>2 DEF Reports, ReportsOn
<1> QED
  BY <1>3, <1>4, <1>5 DEF Testimony

LEMMA TestimonyInvariance == Spec => []Testimony
<1>1. IInv /\ History /\ Testimony /\ [Next]_vars => Testimony'
  BY StampsStep, StoriesStep, ReportsStep DEF Testimony
<1> QED
  BY <1>1, InitTestimony, Invariance, HistoryInvariance, PTL DEF Spec

\* The conditions stamped with the observed generation never contradict each
\* other or the phase, although no helper resets them all: what keeps a Degraded
\* condition from being read beside a later Blocked one is that a generation is
\* either blocked or not (conditions.go:65-95, pack_controller.go:108-121).
THEOREM ConditionsAreConsistent == Spec => []ConditionsAgree
<1>1. Testimony => ConditionsAgree
  BY DEF Testimony, Stories, ConditionsAgree
<1> QED
  BY <1>1, TestimonyInvariance, PTL

\* A tool that a Ready or half-applied status calls Ready has had every object
\* of the observed generation applied, and none undone since, also when other
\* tools failed in the same pass (applyObjects, pack_controller.go:178-204).
THEOREM ToolReportsAreTruthful == Spec => []ToolReportsAreTrue
<1>1. IInv /\ Testimony => ToolReportsAreTrue
  <2> SUFFICES ASSUME IInv, Testimony, status.phase = "Ready" \/ status.lastError = "apply"
               PROVE  \A o \in RenderedObjects(specs[status.obs]) :
                          /\ Lasting(o)
                          /\ [tool |-> toolFromKind(o.kind), phase |-> "Ready"]
                                 \in status.tools.entries
                          => AppliedSince(o, status.obs)
    BY DEF ToolReportsAreTrue
  <2>1. CASE exists
    BY <2>1 DEF Testimony, Reports, ReportsOn, ReportOf
  <2>2. CASE ~exists
    <3>1. status = NoStatus
      BY <2>2 DEF IInv, VersionsOrdered
    <3>2. status.phase = "" /\ status.lastError = ""
      BY <3>1, EmptyStamps
    <3> QED
      BY <3>2
  <2> QED
    BY <2>1, <2>2
<1> QED
  BY <1>1, Invariance, TestimonyInvariance, PTL
=============================================================================
