------------------------- MODULE PackHistoryProofs --------------------------
(***************************************************************************)
(* The hash, the tools and the pipeline run in the status outlive the pass *)
(* that has set them: through failed and blocked passes, edits, stale      *)
(* copies and crashes they stay true of some generation no later than the  *)
(* observed one.                                                           *)
(***************************************************************************)
EXTENDS PackControllerProofs

-----------------------------------------------------------------------------
(***************************************************************************)
(* What the edits of a status leave alone.                                 *)
(***************************************************************************)

SameParts(x, y) == y.hash = x.hash /\ y.tools = x.tools

\* fail and block keep the hash and the tools they find (pack_controller.go:114-121,
\* 255-261); so do the announcements.
LEMMA PartsKept ==
    ASSUME NEW st \in Statuses(Hashes), NEW gen \in Nat, NEW now \in Instants
    PROVE  /\ \A reason \in Reasons, error \in LastErrors :
                  SameParts(st, fail(st, gen, now, reason, error))
           /\ SameParts(st, block(st, gen, now))
           /\ SameParts(st, Validated(st, gen, now))
           /\ SameParts(st, [markProgressing(st, gen, now) EXCEPT !.phase = "Planning"])
<1>1. ASSUME NEW reason \in Reasons, NEW error \in LastErrors
      PROVE  SameParts(st, fail(st, gen, now, reason, error))
  <2> DEFINE a == [st EXCEPT !.phase = "Degraded", !.lastError = error, !.obs = gen]
  <2>1. a \in Statuses(Hashes) /\ SameParts(st, a)
    BY DEF Statuses, Phases, SameParts
  <2>2. fail(st, gen, now, reason, error) = markDegraded(a, gen, now, reason)
    BY DEF fail
  <2> HIDE DEF a
  <2> QED
    BY <2>1, <2>2, MarkDegraded DEF OnlyConditionsDiffer, SameParts
<1>2. SameParts(st, block(st, gen, now))
  <2> DEFINE a == markBlocked(st, gen, now)
  <2>1. a \in Statuses(Hashes) /\ SameParts(st, a)
    BY MarkBlocked DEF OnlyConditionsDiffer, SameParts
  <2>2. block(st, gen, now) =
            [a EXCEPT !.phase = "Blocked", !.lastError = "blocked", !.obs = gen]
    BY DEF block
  <2> HIDE DEF a
  <2> QED
    BY <2>1, <2>2 DEF Statuses, SameParts
<1>3. SameParts(st, Validated(st, gen, now))
  <2> DEFINE a == markValidated(st, gen, now)
  <2>1. a \in Statuses(Hashes) /\ SameParts(st, a)
    BY Announcements DEF OnlyConditionsDiffer, SameParts
  <2>2. Validated(st, gen, now) = [a EXCEPT !.phase = "Applying"]
    BY DEF Validated
  <2> HIDE DEF a
  <2> QED
    BY <2>1, <2>2 DEF Statuses, SameParts
<1>4. SameParts(st, [markProgressing(st, gen, now) EXCEPT !.phase = "Planning"])
  <2> DEFINE a == markProgressing(st, gen, now)
  <2>1. a \in Statuses(Hashes) /\ SameParts(st, a)
    BY Announcements DEF OnlyConditionsDiffer, SameParts
  <2> HIDE DEF a
  <2>2. SameParts(st, [a EXCEPT !.phase = "Planning"])
    BY <2>1 DEF Statuses, SameParts
  <2> QED
    BY <2>2 DEF a
<1> QED
  BY <1>1, <1>2, <1>3, <1>4

\* succeed sets the hash and keeps the tools it is given (pack_controller.go:162-164).
LEMMA SucceedParts ==
    ASSUME NEW st \in Statuses(Hashes), NEW gen \in Nat, NEW now \in Instants,
           NEW s \in Specs
    PROVE  LET r == succeed(st, gen, now, s) IN
           /\ r.hash = PlanHash(s)
           /\ r.tools = st.tools
<1> DEFINE a == markReady(st, gen, now)
<1>1. a \in Statuses(Hashes) /\ a.tools = st.tools
  BY MarkReady DEF OnlyConditionsDiffer
<1>2. succeed(st, gen, now, s) =
          [a EXCEPT !.lastError = "", !.hash = PlanHash(s), !.obs = gen]
  BY DEF succeed
<1> HIDE DEF a
<1> QED
  BY <1>1, <1>2 DEF Statuses

\* A pass begins with the parts of the status it has read.
LEMMA BeginParts ==
    ASSUME TypeOK, ReconcileInvalid \/ ReconcileBlocked
                       \/ ReconcileKubernetes \/ ReconcileAzure
    PROVE  SameParts(cache.status, p'.status)
<1> DEFINE a(now) == [markProgressing(cache.status, cache.gen, now)
                          EXCEPT !.phase = "Planning"]
<1>1. cache.gen \in Nat /\ cache.status \in Statuses(Hashes)
  BY DEF TypeOK, Copies
<1>2. \A now \in Instants : a(now) \in Statuses(Hashes) /\ SameParts(cache.status, a(now))
  BY <1>1, AnnouncedType, PartsKept
<1>3. "ValidationFailed" \in Reasons /\ "core" \in LastErrors
  BY DEF Reasons, LastErrors
<1>4. CASE ReconcileInvalid
  <2>1. PICK now \in Instants :
            p' = [gen |-> cache.gen,
                  status |-> fail(a(now), cache.gen, now, "ValidationFailed", "core")]
    BY <1>4 DEF ReconcileInvalid, Begin
  <2> HIDE DEF a
  <2>2. SameParts(a(now), fail(a(now), cache.gen, now, "ValidationFailed", "core"))
    BY <1>1, <1>2, <1>3, PartsKept
  <2> QED
    BY <1>2, <2>1, <2>2 DEF SameParts
<1>5. CASE ReconcileBlocked
  <2>1. PICK now \in Instants :
            p' = [gen |-> cache.gen, status |-> block(a(now), cache.gen, now)]
    BY <1>5 DEF ReconcileBlocked, Begin
  <2> HIDE DEF a
  <2>2. SameParts(a(now), block(a(now), cache.gen, now))
    BY <1>1, <1>2, PartsKept
  <2> QED
    BY <1>2, <2>1, <2>2 DEF SameParts
<1>6. CASE ReconcileKubernetes \/ ReconcileAzure
  <2>1. PICK now \in Instants :
            p' = [gen |-> cache.gen, status |-> Validated(a(now), cache.gen, now)]
    BY <1>6 DEF ReconcileKubernetes, ReconcileAzure, Begin
  <2> HIDE DEF a
  <2>2. SameParts(a(now), Validated(a(now), cache.gen, now))
    BY <1>1, <1>2, PartsKept
  <2> QED
    BY <1>2, <2>1, <2>2 DEF SameParts
<1> QED
  BY <1>4, <1>5, <1>6

\* The entries a pass over Kubernetes reports.
Entries ==
    {[tool  |-> toolFromKind(k),
      phase |-> IF k \in failed THEN "Degraded" ELSE "Ready"] : k \in applied \cup failed}

LEMMA FinishParts ==
    ASSUME TypeOK, VersionsOrdered, FinishApply
    PROVE  /\ p'.status.tools.entries = Entries
           /\ \/ p'.status.hash = p.status.hash
              \/ failed = {} /\ p'.status.hash = PlanHash(specs[p.gen])
<1> DEFINE st(now) == [p.status EXCEPT !.tools = toolStatus(now)]
           good(now) == succeed(st(now), p.gen, now, specs[p.gen])
<1>1. PICK now \in Instants :
        p' = [p EXCEPT !.status =
                  IF failed # {}
                  THEN fail(st(now), p.gen, now, "ApplyFailed", "apply")
                  ELSE [good(now) EXCEPT !.phase = "Ready"]]
  BY DEF FinishApply
<1>2. p.gen \in Nat /\ p.status \in Statuses(Hashes) /\ specs[p.gen] \in Specs
      /\ p = [gen |-> p.gen, status |-> p.status]
  BY ReadType DEF TypeOK, Copies, FinishApply, InPass
<1>3. toolStatus(now) \in ToolReports /\ toolStatus(now).entries = Entries
  <2>1. \A k \in Kinds : toolFromKind(k) \in Tools
    BY DEF Kinds, toolFromKind, Tools
  <2>2. \A k \in applied \cup failed : k \in Kinds
    BY DEF TypeOK
  <2>3. \A k \in applied \cup failed :
            [tool  |-> toolFromKind(k),
             phase |-> IF k \in failed THEN "Degraded" ELSE "Ready"]
                \in [tool: Tools, phase: {"Ready", "Degraded", "Applying"}]
    BY <2>1, <2>2
  <2> QED
    BY <2>3 DEF toolStatus, ToolReports, Entries
<1> HIDE DEF Entries
<1>4. /\ st(now) \in Statuses(Hashes)
      /\ st(now).hash = p.status.hash
      /\ st(now).tools.entries = Entries
  BY <1>2, <1>3 DEF Statuses
<1> HIDE DEF st
<1>5. CASE failed # {}
  <2> DEFINE r == fail(st(now), p.gen, now, "ApplyFailed", "apply")
  <2>1. p' = [p EXCEPT !.status = r]
    BY <1>1, <1>5
  <2>2. "ApplyFailed" \in Reasons /\ "apply" \in LastErrors
    BY DEF Reasons, LastErrors
  <2>3. r.hash = p.status.hash /\ r.tools.entries = Entries
    BY <1>2, <1>4, <2>2, PartsKept DEF SameParts
  <2> HIDE DEF r
  <2> QED
    BY <1>2, <2>1, <2>3
<1>6. CASE failed = {}
  <2> DEFINE r == [good(now) EXCEPT !.phase = "Ready"]
  <2>1. p' = [p EXCEPT !.status = r]
    BY <1>1, <1>6
  <2>2. /\ good(now) \in Statuses(Hashes)
        /\ good(now).hash = PlanHash(specs[p.gen])
        /\ good(now).tools.entries = Entries
    BY <1>2, <1>4, Succeed, SucceedParts
  <2> HIDE DEF good
  <2>3. r.hash = PlanHash(specs[p.gen]) /\ r.tools.entries = Entries
    BY <2>2 DEF Statuses
  <2> HIDE DEF r
  <2> QED
    BY <1>2, <1>6, <2>1, <2>3
<1> QED
  BY <1>5, <1>6

LEMMA TriggerParts ==
    ASSUME TypeOK, VersionsOrdered, PassFitsSpec, TriggerAccepted
    PROVE  /\ p'.status.tools.entries = {[tool |-> "azure-pipeline", phase |-> "Applying"]}
           /\ p'.status.hash = PlanHash(specs[p.gen])
<1> DEFINE entries == {[tool |-> "azure-pipeline", phase |-> "Applying"]}
           tools == [entries |-> entries, order |-> 0]
           st == [p.status EXCEPT !.run = runs', !.tools = tools]
<1>1. PICK now \in Instants :
        p' = [p EXCEPT !.status = succeed(st, p.gen, now, specs[p.gen])]
  BY DEF TriggerAccepted
<1>2. p.gen \in Nat /\ p.status \in Statuses(Hashes) /\ specs[p.gen] \in Specs
      /\ p = [gen |-> p.gen, status |-> p.status]
  BY ReadType DEF TypeOK, Copies, TriggerAccepted, InPass
<1>3. tools \in ToolReports /\ tools.entries = entries
  BY DEF ToolReports, Tools, Instants
<1>4. runs' \in Nat
  BY DEF TriggerAccepted, RunStarts, TypeOK
<1> HIDE DEF tools
<1>5. st \in Statuses(Hashes) /\ st.tools.entries = entries
  BY <1>2, <1>3, <1>4 DEF Statuses
<1> HIDE DEF st
<1> QED
  BY <1>1, <1>2, <1>5, SucceedParts

LEMMA TriggerFailsParts ==
    ASSUME TypeOK, TriggerFails
    PROVE  SameParts(p.status, p'.status)
<1>1. PICK now \in Instants, error \in PipelineErrors :
        p' = [p EXCEPT !.status = fail(p.status, p.gen, now, "PipelineFailed", error)]
  BY DEF TriggerFails
<1>2. p.gen \in Nat /\ p.status \in Statuses(Hashes)
      /\ p = [gen |-> p.gen, status |-> p.status]
  BY DEF TypeOK, Copies
<1>3. "PipelineFailed" \in Reasons /\ error \in LastErrors
  BY DEF Reasons, LastErrors
<1> DEFINE r == fail(p.status, p.gen, now, "PipelineFailed", error)
<1>4. SameParts(p.status, r)
  BY <1>2, <1>3, PartsKept
<1> HIDE DEF r
<1> QED
  BY <1>1, <1>2, <1>4 DEF r

-----------------------------------------------------------------------------
(***************************************************************************)
(* What a status says of the objects stays true as long as the Pack exists.*)
(***************************************************************************)

LEMMA EmptyParts == NoStatus.hash = NoHash /\ NoStatus.tools.entries = {}
  BY DEF NoStatus, EmptyStatus, NoTools

\* The store's status and the cache only change in these ways.
LEMMA StatusChanges ==
    ASSUME [Next]_vars
    PROVE  status' = status \/ UpdateLands \/ Delete
  BY DEF Next, Environment, Runtime, Reconcile, vars, store, Collect, Drift,
     Touch, Edit, OutOfDate, Crash, Start, Deliver, TimerFires,
     ReconcileAbsent, ReconcileGetFails, ReconcileInvalid, ReconcileBlocked,
     ReconcileKubernetes, ReconcileAzure, ApplyAccepted, ApplyReplyLost,
     ApplyRefused, FinishApply, TriggerAccepted, TriggerRefused, TriggerReplyLost,
     TriggerFails, UpdateAccepted, UpdateReplyLost, UpdateConflicts, UpdateFails

LEMMA CacheSteps ==
    ASSUME [Next]_vars
    PROVE  cache' = cache \/ cache' = Stored \/ cache' = NoCopy
<1>1. CASE UNCHANGED vars
  BY <1>1 DEF vars, informer
<1>2. CASE Environment
  BY <1>2 DEF Environment, Edit, Touch, Delete, Drift, Crash, OutOfDate, informer
<1>3. CASE Runtime
  BY <1>3 DEF Runtime, Start, Deliver, TimerFires, informer
<1>4. CASE Reconcile
  BY <1>4 DEF Reconcile, informer, ReconcileAbsent, ReconcileGetFails,
     ReconcileInvalid, ReconcileBlocked, ReconcileKubernetes, ReconcileAzure,
     ApplyAccepted, ApplyReplyLost, ApplyRefused, FinishApply, TriggerAccepted,
     TriggerRefused, TriggerReplyLost, TriggerFails, UpdateLands, UpdateAccepted,
     UpdateReplyLost, UpdateConflicts, UpdateFails
<1>5. CASE \E o \in Objects : Collect(o)
  BY <1>5 DEF Collect, informer
<1> QED
  BY <1>1, <1>2, <1>3, <1>4, <1>5 DEF Next

LEMMA ReportKept ==
    ASSUME TypeOK, VersionsOrdered, [Next]_vars, exists', NEW entries,
           NEW g \in 1..generation, InPass => g <= p.gen, ReportOf(entries, g)
    PROVE  ReportOf(entries, g)'
<1>1. g \in Nat /\ specs'[g] = specs[g] /\ specs[g] \in Specs
  BY HistoryKept, Numbers DEF TypeOK, generation
<1>2. RenderedObjects(specs[g]) \subseteq Objects
  BY <1>1, RenderedType
<1>3. ASSUME NEW o \in RenderedObjects(specs[g]), Lasting(o),
             [tool |-> toolFromKind(o.kind), phase |-> "Ready"] \in entries
      PROVE  AppliedSince(o, g)'
  BY <1>2, <1>3, AppliedSinceKept DEF ReportOf
<1> QED
  BY <1>1, <1>3 DEF ReportOf, ToolsOf, Lasting

LEMMA OriginKept ==
    ASSUME TypeOK, VersionsOrdered, [Next]_vars, exists', NEW st,
           NEW g \in 0..generation, InPass => g <= p.gen,
           HashFrom(st, g), ToolsFrom(st, g)
    PROVE  HashFrom(st, g)' /\ ToolsFrom(st, g)'
<1>0. generation \in Nat /\ p.gen \in Nat
  BY Numbers
<1>1. ASSUME st.hash # NoHash PROVE HashFrom(st, g)'
  <2>1. PICK k \in 1..g : /\ Verdict(specs[k]) = "ok"
                          /\ st.hash = PlanHash(specs[k])
                          /\ Applied(k)
    BY <1>1 DEF HashFrom
  <2>2. k \in 1..generation /\ (InPass => k <= p.gen)
    BY <1>0
  <2>3. specs'[k] = specs[k] /\ Applied(k)'
    BY <2>1, <2>2, HistoryKept, AppliedKept
  <2> QED
    BY <2>1, <2>3 DEF HashFrom, Applied, AppliedSince, MadeSince
<1>2. ASSUME st.tools.entries # {} PROVE ToolsFrom(st, g)'
  <2>1. PICK k \in 1..g : ReportOf(st.tools.entries, k)
    BY <1>2 DEF ToolsFrom
  <2>2. k \in 1..generation /\ (InPass => k <= p.gen)
    BY <1>0
  <2>3. ReportOf(st.tools.entries, k)'
    BY <2>1, <2>2, ReportKept
  <2> QED
    BY <2>3 DEF ToolsFrom, ReportOf, ToolsOf, AppliedSince, MadeSince
<1> QED
  BY <1>1, <1>2 DEF HashFrom, ToolsFrom

\* The same of a status as it is now and of the specs and objects after a step.
ReportLater(entries, g) ==
    /\ Verdict(specs'[g]) = "ok"
    /\ {e.tool : e \in entries} = ToolsOf(g)'
    /\ \A e, f \in entries : e.tool = f.tool => e = f
    /\ \A o \in RenderedObjects(specs'[g]) :
           /\ Lasting(o)
           /\ [tool |-> toolFromKind(o.kind), phase |-> "Ready"] \in entries
           => AppliedSince(o, g)'

Later(st, g) ==
    /\ st.hash # NoHash =>
           \E k \in 1..g : /\ Verdict(specs'[k]) = "ok"
                           /\ st.hash = PlanHash(specs'[k])
                           /\ Applied(k)'
    /\ st.tools.entries # {} => \E k \in 1..g : ReportLater(st.tools.entries, k)

LEMMA Carried ==
    ASSUME TypeOK, VersionsOrdered, [Next]_vars, exists',
           NEW st, NEW g \in 0..generation, InPass => g <= p.gen,
           HashFrom(st, g), ToolsFrom(st, g)
    PROVE  Later(st, g)
<1>1. HashFrom(st, g)' /\ ToolsFrom(st, g)'
  BY OriginKept
<1> QED
  BY <1>1 DEF HashFrom, ToolsFrom, Later, ReportOf, ReportLater, Lasting

\* What was true of a status on the way is true of it where it arrives.
LEMMA Arrived ==
    ASSUME NEW x, NEW g \in Nat, Later(x, g)
    PROVE  \A y, h : SameParts(x, y) /\ h \in Nat /\ g <= h => Later(y, h)
<1> SUFFICES ASSUME NEW y, NEW h \in Nat, SameParts(x, y), g <= h
             PROVE  Later(y, h)
  OBVIOUS
<1>1. 1..g \subseteq 1..h
  OBVIOUS
<1> QED
  BY <1>1 DEF Later, SameParts

LEMMA KindsSoFarStep ==
    ASSUME IInv, KindsSoFar, [Next]_vars
    PROVE  KindsSoFar'
<1> USE DEF store, informer, queue, pass, azure
<1>0. TypeOK /\ VersionsOrdered /\ PassFitsSpec
  BY DEF IInv
<1>1. CASE Start \/ Crash
  BY <1>1 DEF Start, Crash, KindsSoFar, InPass
<1>2. CASE ReconcileInvalid \/ ReconcileBlocked \/ ReconcileAzure
  BY <1>2 DEF ReconcileInvalid, ReconcileBlocked, ReconcileAzure, KindsSoFar, InPass
<1>3. CASE ReconcileKubernetes
  <2>1. /\ todo' = Rendered(specs[cache.gen]) /\ applied' = {} /\ failed' = {}
        /\ specs' = specs /\ p'.gen = cache.gen /\ InPass' /\ pc' = "applying"
    BY <1>0, <1>3, PassBegins DEF ReconcileKubernetes, Begin, KindsSoFar, InPass
  <2>2. KindsOf(p.gen)' = {todo'[i].kind : i \in 1..Len(todo')}
    BY <2>1 DEF KindsOf, RenderedObjects
  <2> QED
    BY <2>1, <2>2 DEF KindsSoFar
<1>4. CASE ApplyAccepted \/ ApplyRefused \/ ApplyReplyLost
  <2>1. /\ pc = "applying" /\ UNCHANGED <<pc, p, specs>>
        /\ todo # <<>> /\ todo' = Tail(todo)
        /\ applied' \cup failed' = (applied \cup failed) \cup {Head(todo).kind}
    BY <1>4 DEF ApplyAccepted, ApplyRefused, ApplyReplyLost
  <2>2. {todo[i].kind : i \in 1..Len(todo)} =
            {Head(todo).kind} \cup {todo'[i].kind : i \in 1..Len(todo')}
    <3>0. todo \in Seq(Objects)
      BY <1>0 DEF TypeOK
    <3>1. ASSUME NEW i \in 1..Len(todo), i # 1
          PROVE  i - 1 \in 1..Len(todo') /\ todo'[i - 1] = todo[i]
      BY <2>1, <3>0, <3>1
    <3>2. ASSUME NEW i \in 1..Len(todo')
          PROVE  i + 1 \in 1..Len(todo) /\ todo[i + 1] = todo'[i]
      BY <2>1, <3>0, <3>2
    <3>3. 1 \in 1..Len(todo) /\ Head(todo) = todo[1]
      BY <2>1, <3>0
    <3>4. ASSUME NEW i \in 1..Len(todo)
          PROVE  \/ todo[i].kind = Head(todo).kind
                 \/ \E j \in 1..Len(todo') : todo[i].kind = todo'[j].kind
      BY <3>1, <3>3
    <3>5. ASSUME NEW j \in 1..Len(todo')
          PROVE  \E i \in 1..Len(todo) : todo'[j].kind = todo[i].kind
      BY <3>2
    <3>6. \E i \in 1..Len(todo) : Head(todo).kind = todo[i].kind
      BY <3>3
    <3> DEFINE I == 1..Len(todo)
               J == 1..Len(todo')
               f(i) == todo[i].kind
               g(j) == todo'[j].kind
               x == Head(todo).kind
    <3>7. /\ \A i \in I : f(i) = x \/ \E j \in J : f(i) = g(j)
          /\ \A j \in J : \E i \in I : g(j) = f(i)
          /\ \E i \in I : x = f(i)
      BY <3>4, <3>5, <3>6
    <3> HIDE DEF I, J, f, g, x
    <3>8. {f(i) : i \in I} = {x} \cup {g(j) : j \in J}
      BY <3>7
    <3> QED
      BY <3>8 DEF I, J, f, g, x
  <2>3. KindsOf(p.gen)' = KindsOf(p.gen)
    BY <2>1 DEF KindsOf
  <2> QED
    BY <2>1, <2>2, <2>3 DEF KindsSoFar, InPass
<1>5. CASE FinishApply \/ TriggerAccepted \/ TriggerRefused \/ TriggerReplyLost
  BY <1>5 DEF FinishApply, TriggerAccepted, TriggerRefused, TriggerReplyLost,
     TriggerFails, KindsSoFar, InPass
<1>6. CASE UpdateAccepted \/ UpdateReplyLost \/ UpdateConflicts \/ UpdateFails
  BY <1>6 DEF UpdateAccepted, UpdateReplyLost, UpdateConflicts, UpdateFails,
     UpdateLands, Done, KindsSoFar, InPass
<1>7. CASE \/ Touch \/ Delete \/ Deliver \/ TimerFires \/ ReconcileAbsent
           \/ ReconcileGetFails \/ (\E s \in Specs : Edit(s))
           \/ (\E o \in Objects : Drift(o) \/ Collect(o))
           \/ UNCHANGED vars
  <2>1. UNCHANGED <<pc, p, todo, applied, failed>>
    BY <1>7 DEF Touch, Delete, Deliver, TimerFires, ReconcileAbsent,
       ReconcileGetFails, Edit, OutOfDate, Drift, Collect, vars
  <2>2. pc = "applying" => KindsOf(p.gen)' = KindsOf(p.gen)
    <3> SUFFICES ASSUME pc = "applying" PROVE KindsOf(p.gen)' = KindsOf(p.gen)
      OBVIOUS
    <3>1. p.gen \in 1..generation
      BY <1>0, Numbers DEF VersionsOrdered, InPass
    <3>2. specs'[p.gen] = specs[p.gen]
      BY <1>0, <3>1, HistoryKept
    <3> QED
      BY <2>1, <3>2 DEF KindsOf
  <2> QED
    BY <2>1, <2>2 DEF KindsSoFar, InPass
<1> QED
  BY <1>1, <1>2, <1>3, <1>4, <1>5, <1>6, <1>7 DEF Next, Environment, Runtime, Reconcile

LEMMA CopiesOrderedStep ==
    ASSUME IInv, CopiesOrdered, [Next]_vars
    PROVE  CopiesOrdered'
<1> USE DEF store, informer, queue, pass, azure
<1>0. /\ TypeOK /\ VersionsOrdered /\ VersionsCompared /\ PassFitsSpec
      /\ cache.status.obs \in Nat /\ cache.gen \in Nat /\ p.gen \in Nat
      /\ status.obs \in Nat /\ generation \in Nat
  BY Numbers DEF IInv, TypeOK, Copies, Statuses
<1>1. CASE Start \/ Deliver
  <2>1. cache' = Stored /\ UNCHANGED <<exists, status, specs, p>> /\ (InPass' => InPass)
    BY <1>1 DEF Start, Deliver, InPass
  <2>2. CASE exists
    <3>1. cache'.gen = generation /\ cache'.status = status
      BY <2>1, <2>2, StoredIs
    <3> QED
      BY <1>0, <2>1, <3>1 DEF CopiesOrdered, VersionsOrdered
  <2>3. CASE ~exists
    <3>1. cache'.gen = 0 /\ cache'.status.obs = 0
      BY <2>1, <2>3, StoredIs, EmptyCopy
    <3> QED
      BY <1>0, <2>1, <3>1 DEF CopiesOrdered
  <2> QED
    BY <2>2, <2>3
<1>2. CASE Crash
  <2>1. cache' = NoCopy /\ ~InPass'
    BY <1>2 DEF Crash, InPass
  <2>2. cache'.gen = 0 /\ cache'.status.obs = 0
    BY <2>1, EmptyCopy
  <2>3. cache'.status.obs <= cache'.gen
    BY <2>2
  <2> QED
    BY <2>1, <2>3 DEF CopiesOrdered
<1>3. CASE ReconcileInvalid \/ ReconcileBlocked \/ ReconcileKubernetes \/ ReconcileAzure
  <2>1. cache' = cache /\ p'.gen = cache.gen
    BY <1>0, <1>3, PassBegins
  <2> QED
    BY <2>1 DEF CopiesOrdered
<1>4. CASE \/ ApplyAccepted \/ ApplyRefused \/ ApplyReplyLost \/ FinishApply
           \/ TriggerAccepted \/ TriggerRefused \/ TriggerReplyLost
  <2>1. cache' = cache /\ p'.gen = p.gen /\ InPass
    BY <1>0, <1>4, PassGoesOn
  <2> QED
    BY <2>1 DEF CopiesOrdered
<1>5. CASE UpdateAccepted \/ UpdateReplyLost \/ UpdateConflicts \/ UpdateFails
  <2>1. cache' = cache /\ ~InPass'
    BY <1>5, PassEnds DEF InPass
  <2> QED
    BY <2>1 DEF CopiesOrdered
<1>6. CASE \/ Touch \/ Delete \/ TimerFires \/ ReconcileAbsent \/ ReconcileGetFails
           \/ (\E s \in Specs : Edit(s))
           \/ (\E o \in Objects : Drift(o) \/ Collect(o))
           \/ UNCHANGED vars
  <2>1. UNCHANGED <<cache, pc, p>>
    BY <1>6 DEF Touch, Delete, TimerFires, ReconcileAbsent, ReconcileGetFails,
       Edit, OutOfDate, Drift, Collect, vars
  <2> QED
    BY <2>1 DEF CopiesOrdered, InPass
<1> QED
  BY <1>1, <1>2, <1>3, <1>4, <1>5, <1>6 DEF Next, Environment, Runtime, Reconcile

\* A pass over Kubernetes that is through reports on every tool of its
\* generation, and calls Ready only those whose objects it has all applied.
LEMMA FinishedReport ==
    ASSUME IInv, KindsSoFar, FinishApply, exists, [Next]_vars, exists',
           NEW g \in 1..generation, g = p.gen
    PROVE  ReportLater(Entries, g)
<1>0. /\ TypeOK /\ VersionsOrdered /\ PassFitsSpec /\ AppliedSoFar
      /\ pc = "applying" /\ todo = <<>> /\ InPass
      /\ p.gen \in 1..generation
  BY Numbers DEF IInv, FinishApply, InPass, VersionsOrdered
<1>1. specs'[p.gen] = specs[p.gen] /\ specs[p.gen] \in Specs
  BY <1>0, HistoryKept, ReadType
<1>2. Verdict(specs[p.gen]) = "ok" /\ OnKubernetes(specs[p.gen])
  BY <1>0 DEF PassFitsSpec
<1>3. KindsOf(p.gen) = applied \cup failed
  BY <1>0 DEF KindsSoFar
<1>4. applied \cup failed \subseteq Kinds
  BY <1>0 DEF TypeOK
<1>5. {e.tool : e \in Entries} = {toolFromKind(o.kind) : o \in RenderedObjects(specs[p.gen])}
  <2>1. {e.tool : e \in Entries} = {toolFromKind(k) : k \in applied \cup failed}
    <3> DEFINE K == applied \cup failed
               entry(k) == [tool  |-> toolFromKind(k),
                            phase |-> IF k \in failed THEN "Degraded" ELSE "Ready"]
    <3>1. \A k \in K : entry(k).tool = toolFromKind(k)
      OBVIOUS
    <3>2. Entries = {entry(k) : k \in K}
      BY DEF Entries
    <3> HIDE DEF K, entry
    <3>3. {e.tool : e \in Entries} = {entry(k).tool : k \in K}
      BY <3>2
    <3> QED
      BY <3>1, <3>3 DEF K
  <2> QED
    BY <1>3, <2>1 DEF KindsOf
<1>6. \A j, k \in Kinds : toolFromKind(j) = toolFromKind(k) => j = k
  BY DEF Kinds, toolFromKind
<1>7. \A e, f \in Entries : e.tool = f.tool => e = f
  BY <1>4, <1>6 DEF Entries
<1>8. ASSUME NEW o \in RenderedObjects(specs[p.gen]), Lasting(o),
             [tool |-> toolFromKind(o.kind), phase |-> "Ready"] \in Entries
      PROVE  AppliedSince(o, p.gen)
  <2>1. PICK k \in applied \cup failed :
            /\ toolFromKind(o.kind) = toolFromKind(k)
            /\ k \notin failed
    BY <1>8 DEF Entries
  <2>2. o.kind \in Kinds
    BY <1>1, RenderedType
  <2>3. o.kind = k
    BY <1>4, <1>6, <2>1, <2>2
  <2>4. Lasting(o) => AppliedSince(o, p.gen)
    BY <1>0, <2>1, <2>3 DEF AppliedSoFar
  <2> QED
    BY <1>8, <2>4
<1>9. /\ specs' = specs
      /\ generation' = generation
      /\ live' = live
  BY DEF FinishApply, store, generation
<1>10. ReportOf(Entries, g)
  BY <1>2, <1>5, <1>7, <1>8 DEF ReportOf, ToolsOf
<1> HIDE DEF Entries
<1> QED
  BY <1>9, <1>10 DEF ReportOf, ReportLater, ToolsOf, AppliedSince, MadeSince

\* When no apply has failed, all of the generation has been applied.
LEMMA FinishedHash ==
    ASSUME IInv, FinishApply, exists, [Next]_vars, exists', failed = {},
           NEW g \in 1..generation, g = p.gen
    PROVE  /\ specs'[g] = specs[g]
           /\ Verdict(specs'[g]) = "ok"
           /\ Applied(g)'
<1>0. /\ TypeOK /\ VersionsOrdered /\ PassFitsSpec /\ AppliedSoFar
      /\ pc = "applying" /\ todo = <<>> /\ g \in Nat
  BY Numbers DEF IInv, FinishApply
<1>1. specs'[g] = specs[g]
  BY <1>0, HistoryKept
<1>2. Applied(g)
  BY <1>0 DEF AppliedSoFar, PassFitsSpec, Applied
<1>3. Applied(g)'
  BY <1>0, <1>2, AppliedKept
<1> QED
  BY <1>0, <1>1, <1>3 DEF PassFitsSpec

\* The pipeline is the one tool of a pass over azure.
LEMMA TriggeredReport ==
    ASSUME IInv, TriggerAccepted, exists, [Next]_vars, exists',
           NEW g \in 1..generation, g = p.gen
    PROVE  /\ specs'[g] = specs[g]
           /\ Verdict(specs'[g]) = "ok"
           /\ Applied(g)'
           /\ ReportLater({[tool |-> "azure-pipeline", phase |-> "Applying"]}, g)
<1> DEFINE entries == {[tool |-> "azure-pipeline", phase |-> "Applying"]}
<1>0. /\ TypeOK /\ VersionsOrdered /\ PassFitsSpec
      /\ pc = "triggering" /\ InPass /\ g \in Nat
  BY Numbers DEF IInv, TriggerAccepted, InPass
<1>1. specs'[g] = specs[g] /\ specs[g] \in Specs /\ generation' = generation
  BY <1>0, HistoryKept, ReadType DEF TriggerAccepted, store, generation
<1>2. Verdict(specs[g]) = "ok" /\ ~OnKubernetes(specs[g])
  BY <1>0, <1>1, TargetType DEF PassFitsSpec
<1>3. pipeline' = PlanHash(specs'[g])
  BY <1>1 DEF TriggerAccepted, RunStarts
<1>4. Applied(g)'
  BY <1>0, <1>1, <1>2, <1>3 DEF Applied, MadeSince
<1>5. ToolsOf(g)' = {"azure-pipeline"}
  BY <1>1, <1>2 DEF ToolsOf
<1>6. {e.tool : e \in entries} = {"azure-pipeline"}
  OBVIOUS
<1>7. \A e, f \in entries : e = f
  OBVIOUS
<1>8. \A x : [tool |-> x, phase |-> "Ready"] \notin entries
  OBVIOUS
<1> HIDE DEF entries
<1>9. ReportLater(entries, g)
  BY <1>1, <1>2, <1>5, <1>6, <1>7, <1>8 DEF ReportLater
<1> QED
  BY <1>1, <1>2, <1>4, <1>9 DEF entries

\* Every part of every copy of the status comes from some generation.
LEMMA OriginsStep ==
    ASSUME IInv, History, [Next]_vars
    PROVE  Origins'
<1>0. /\ TypeOK /\ VersionsOrdered /\ VersionsCompared /\ PassFitsSpec /\ WritesTruth
      /\ KindsSoFar /\ CopiesOrdered
      /\ generation \in Nat /\ cache.gen \in Nat /\ p.gen \in Nat
      /\ status.obs \in Nat /\ cache.status.obs \in Nat
  BY Numbers DEF IInv, History, TypeOK, Copies, Statuses
<1> SUFFICES ASSUME exists' PROVE Origins'
  BY DEF Origins
<1>e. exists /\ Origins
  BY NeverRecreated DEF History
<1>a. Later(status, status.obs)
  <2>1. status.obs \in 0..generation /\ (InPass => status.obs <= p.gen)
    BY <1>0 DEF VersionsOrdered
  <2> QED
    BY <1>0, <1>e, <2>1, Carried DEF Origins
<1>b. Later(cache.status, cache.status.obs)
  <2>1. /\ cache.status.obs \in 0..generation
        /\ InPass => cache.status.obs <= p.gen
    BY <1>0 DEF VersionsOrdered, CopiesOrdered
  <2> QED
    BY <1>0, <1>e, <2>1, Carried DEF Origins
<1>c. InPass => Later(p.status, p.gen)
  <2>1. p.gen \in 0..generation /\ p.gen <= p.gen
    BY <1>0 DEF VersionsOrdered
  <2> QED
    BY <1>0, <1>e, <2>1, Carried DEF Origins
<1>1. Later(status', status'.obs)
  <2>1. CASE status' = status
    BY <1>a, <2>1
  <2>2. CASE UpdateLands
    <3>1. status' = p.status /\ status'.obs = p.gen /\ InPass
      BY <1>0, <2>2 DEF UpdateLands, WritesTruth, InPass
    <3> QED
      BY <1>c, <3>1
  <2> QED
    BY <2>1, <2>2, StatusSteps
<1>2. Later(cache'.status, cache'.status.obs)
  <2>1. CASE cache' = cache
    BY <1>b, <2>1
  <2>2. CASE cache' = Stored
    BY <1>a, <1>e, <2>2, StoredIs
  <2>3. CASE cache' = NoCopy
    <3>1. cache'.status.hash = NoHash /\ cache'.status.tools.entries = {}
      BY <2>3 DEF NoCopy, NoStatus, EmptyStatus, NoTools
    <3> QED
      BY <3>1 DEF Later
  <2> QED
    BY <2>1, <2>2, <2>3, CacheSteps
<1>3. InPass' => Later(p'.status, p'.gen)
  <2>1. CASE ReconcileInvalid \/ ReconcileBlocked \/ ReconcileKubernetes \/ ReconcileAzure
    <3>1. SameParts(cache.status, p'.status) /\ p'.gen = cache.gen
      BY <1>0, <2>1, BeginParts, PassBegins
    <3>2. cache.status.obs <= p'.gen /\ p'.gen \in Nat
      BY <1>0, <3>1 DEF CopiesOrdered
    <3> QED
      BY <1>0, <1>b, <3>1, <3>2, Arrived
  <2>2. CASE FinishApply
    <3>0. /\ p'.gen = p.gen /\ InPass /\ p.gen \in 1..generation
      BY <1>0, <2>2, PassGoesOn DEF VersionsOrdered
    <3>1. PICK g \in 1..generation : g = p.gen
      BY <3>0
    <3>2. ReportLater(Entries, g)
      BY <1>0, <1>e, <2>2, <3>1, FinishedReport
    <3>3. p'.status.tools.entries = Entries
      BY <1>0, <2>2, FinishParts
    <3> HIDE DEF Entries
    <3>4. g \in 1..p'.gen
      BY <1>0, <3>0, <3>1
    <3>5. CASE p'.status.hash = p.status.hash
      BY <1>c, <3>0, <3>2, <3>3, <3>4, <3>5 DEF Later
    <3>6. CASE failed = {} /\ p'.status.hash = PlanHash(specs[p.gen])
      <4>1. /\ specs'[g] = specs[g]
            /\ Verdict(specs'[g]) = "ok"
            /\ Applied(g)'
        BY <1>e, <2>2, <3>1, <3>6, FinishedHash
      <4> QED
        BY <3>1, <3>2, <3>3, <3>4, <3>6, <4>1 DEF Later
    <3> QED
      BY <1>0, <2>2, <3>5, <3>6, FinishParts
  <2>3. CASE TriggerAccepted
    <3>0. /\ p'.gen = p.gen /\ InPass /\ p.gen \in 1..generation
      BY <1>0, <2>3, PassGoesOn DEF VersionsOrdered
    <3>1. PICK g \in 1..generation : g = p.gen
      BY <3>0
    <3>2. /\ specs'[g] = specs[g]
          /\ Verdict(specs'[g]) = "ok"
          /\ Applied(g)'
          /\ ReportLater({[tool |-> "azure-pipeline", phase |-> "Applying"]}, g)
      BY <1>e, <2>3, <3>1, TriggeredReport
    <3>3. /\ p'.status.tools.entries = {[tool |-> "azure-pipeline", phase |-> "Applying"]}
          /\ p'.status.hash = PlanHash(specs[p.gen])
      BY <1>0, <2>3, TriggerParts
    <3>4. g \in 1..p'.gen
      BY <1>0, <3>0, <3>1
    <3> QED
      BY <3>1, <3>2, <3>3, <3>4 DEF Later
  <2>4. CASE TriggerRefused \/ TriggerReplyLost
    <3>1. SameParts(p.status, p'.status) /\ p'.gen = p.gen /\ InPass
      BY <1>0, <2>4, TriggerFailsParts, PassGoesOn DEF TriggerRefused, TriggerReplyLost
    <3> QED
      BY <1>c, <3>1 DEF Later, SameParts
  <2>5. CASE \/ ApplyAccepted \/ ApplyRefused \/ ApplyReplyLost
    <3>1. p' = p /\ InPass
      BY <2>5 DEF ApplyAccepted, ApplyRefused, ApplyReplyLost, InPass
    <3> QED
      BY <1>c, <3>1
  <2>6. CASE UpdateAccepted \/ UpdateReplyLost \/ UpdateConflicts \/ UpdateFails
    BY <2>6, PassEnds DEF InPass
  <2>7. CASE \/ Touch \/ Delete \/ Crash \/ Start \/ Deliver \/ TimerFires
             \/ ReconcileAbsent \/ ReconcileGetFails
             \/ (\E s \in Specs : Edit(s))
             \/ (\E o \in Objects : Drift(o) \/ Collect(o))
             \/ UNCHANGED vars
    <3>1. CASE UNCHANGED <<pc, p>>
      BY <1>c, <3>1 DEF InPass
    <3>2. CASE pc' \in {"down", "idle"}
      BY <3>2 DEF InPass
    <3> QED
      BY <2>7, <3>1, <3>2, PassKept
  <2> QED
    BY <2>1, <2>2, <2>3, <2>4, <2>5, <2>6, <2>7
       DEF Next, Environment, Runtime, Reconcile
<1>4. HashFrom(status, status.obs)' /\ ToolsFrom(status, status.obs)'
  BY <1>1 DEF Later, HashFrom, ToolsFrom, ReportLater, ReportOf
<1>5. HashFrom(cache.status, cache.status.obs)' /\ ToolsFrom(cache.status, cache.status.obs)'
  BY <1>2 DEF Later, HashFrom, ToolsFrom, ReportLater, ReportOf
<1>6. InPass' => HashFrom(p.status, p.gen)' /\ ToolsFrom(p.status, p.gen)'
  BY <1>3 DEF Later, HashFrom, ToolsFrom, ReportLater, ReportOf
<1> QED
  BY <1>4, <1>5, <1>6 DEF Origins

-----------------------------------------------------------------------------
(***************************************************************************)
(* The run a status names is one the pipeline has had.                     *)
(***************************************************************************)

\* What has been posted stays posted.
LEMMA PostsKept ==
    ASSUME TypeOK, Len(posts) = runs, [Next]_vars
    PROVE  /\ Len(posts') = runs'
           /\ \A i \in 1..runs : posts'[i] = posts[i]
<1>1. posts \in Seq(PlanHashes) /\ runs \in Nat
  BY DEF TypeOK
<1>2. CASE RunStarts
  <2>1. posts' = Append(posts, PlanHash(specs[p.gen])) /\ runs' = runs + 1
    BY <1>2 DEF RunStarts
  <2> QED
    BY <1>1, <2>1
<1>3. CASE ~RunStarts
  <2>1. posts' = posts /\ runs' = runs
    BY <1>3 DEF Next, Environment, Runtime, Reconcile, vars, azure, Collect, Drift,
       Touch, Delete, Edit, OutOfDate, Crash, Start, Deliver, TimerFires,
       ReconcileAbsent, ReconcileGetFails, ReconcileInvalid, ReconcileBlocked,
       ReconcileKubernetes, ReconcileAzure, ApplyAccepted, ApplyReplyLost,
       ApplyRefused, FinishApply, TriggerAccepted, TriggerRefused, TriggerReplyLost,
       UpdateLands, UpdateAccepted, UpdateReplyLost, UpdateConflicts, UpdateFails
  <2> QED
    BY <2>1
<1> QED
  BY <1>2, <1>3

\* RunFrom of a status as it is now, with the specs and posts after a step.
RunLater(st, g) ==
    /\ st.run # 0 =>
           \E k \in 1..g :
               /\ Verdict(specs'[k]) = "ok"
               /\ ~OnKubernetes(specs'[k])
               /\ posts'[st.run] = PlanHash(specs'[k])
    /\ OnPipeline(st) => st.run # 0 /\ posts'[st.run] = st.hash

LEMMA RunCarried ==
    ASSUME TypeOK, Len(posts) = runs, [Next]_vars,
           NEW st, st.run \in 0..runs, NEW g \in 0..generation, RunFrom(st, g)
    PROVE  RunLater(st, g)
<1>1. runs \in Nat /\ generation \in Nat
  BY Numbers
<1>2. \A k \in 1..g : specs'[k] = specs[k]
  BY <1>1, HistoryKept
<1>3. st.run # 0 => posts'[st.run] = posts[st.run]
  BY <1>1, PostsKept
<1> QED
  BY <1>2, <1>3 DEF RunFrom, RunLater

LEMMA RunArrived ==
    ASSUME NEW x, NEW g \in Nat, RunLater(x, g)
    PROVE  \A y, h : SameParts(x, y) /\ y.run = x.run /\ h \in Nat /\ g <= h
                         => RunLater(y, h)
<1> SUFFICES ASSUME NEW y, NEW h \in Nat, SameParts(x, y), y.run = x.run, g <= h
             PROVE  RunLater(y, h)
  OBVIOUS
<1>1. 1..g \subseteq 1..h
  OBVIOUS
<1>2. OnPipeline(y) <=> OnPipeline(x)
  BY DEF SameParts, OnPipeline
<1> QED
  BY <1>1, <1>2 DEF RunLater, SameParts

\* A pass over Kubernetes keeps the run and leaves the pipeline out of the tools.
LEMMA FinishedRun ==
    ASSUME TypeOK, VersionsOrdered, FinishApply, RunLater(p.status, p.gen)
    PROVE  RunLater(p'.status, p'.gen)
<1>1. p'.gen = p.gen /\ p'.status.run = p.status.run
  BY FinishStep
<1>2. \A e \in Entries : e.tool # "azure-pipeline"
  <2>1. applied \cup failed \subseteq Kinds
    BY DEF TypeOK
  <2>2. \A k \in Kinds : toolFromKind(k) # "azure-pipeline"
    BY DEF Kinds, toolFromKind
  <2> QED
    BY <2>1, <2>2 DEF Entries
<1>3. p'.status.tools.entries = Entries
  BY FinishParts
<1>4. ~OnPipeline(p'.status)
  BY <1>2, <1>3 DEF OnPipeline
<1> QED
  BY <1>1, <1>4 DEF RunLater

\* An accepted trigger records the run it has started, and the plan it has posted.
LEMMA TriggeredRun ==
    ASSUME TypeOK, VersionsOrdered, PassFitsSpec, TriggerAccepted, Len(posts) = runs,
           NEW g \in 1..generation, g = p.gen
    PROVE  RunLater(p'.status, g)
<1>1. pc = "triggering" /\ InPass /\ specs' = specs
  BY DEF TriggerAccepted, InPass, store
<1>2. /\ Verdict(specs[g]) = "ok" /\ ~OnKubernetes(specs[g])
  BY <1>1, ReadType, TargetType DEF PassFitsSpec
<1>3. p'.status.run = runs + 1
  BY TriggeredStep
<1>4. /\ p'.status.hash = PlanHash(specs[g])
  BY TriggerParts
<1>5. posts'[runs + 1] = PlanHash(specs[g])
  <2>1. posts \in Seq(PlanHashes) /\ posts' = Append(posts, PlanHash(specs[g]))
    BY DEF TypeOK, TriggerAccepted, RunStarts
  <2> QED
    BY <2>1
<1>6. runs + 1 # 0
  BY Numbers
<1>7. g \in 1..g
  BY Numbers
<1> QED
  BY <1>1, <1>2, <1>3, <1>4, <1>5, <1>6, <1>7 DEF RunLater

LEMMA RunsRecordedStep ==
    ASSUME IInv, History, RunsRecorded, [Next]_vars
    PROVE  RunsRecorded'
<1>0. /\ TypeOK /\ VersionsOrdered /\ VersionsCompared /\ PassFitsSpec /\ WritesTruth
      /\ CopiesOrdered /\ RunsOrdered /\ Len(posts) = runs
      /\ generation \in Nat /\ cache.gen \in Nat /\ p.gen \in Nat /\ runs \in Nat
      /\ status.obs \in Nat /\ cache.status.obs \in Nat
      /\ status.run \in 0..runs /\ cache.status.run \in 0..runs
      /\ p.status.run \in 0..runs
  BY Numbers DEF IInv, History, RunsRecorded, RunsOrdered, TypeOK, Copies, Statuses
<1>a. RunLater(status, status.obs)
  BY <1>0, RunCarried DEF VersionsOrdered, RunsRecorded
<1>b. RunLater(cache.status, cache.status.obs)
  <2>1. cache.status.obs \in 0..generation
    BY <1>0 DEF VersionsOrdered, CopiesOrdered
  <2> QED
    BY <1>0, <2>1, RunCarried DEF RunsRecorded
<1>c. InPass => RunLater(p.status, p.gen)
  BY <1>0, RunCarried DEF VersionsOrdered, RunsRecorded
<1>d. RunLater(NoStatus, 0)
  BY EmptyCopy, EmptyParts DEF RunLater, OnPipeline
<1>1. RunLater(status', status'.obs)
  <2>1. CASE status' = status
    BY <1>a, <2>1
  <2>2. CASE UpdateLands
    <3>1. status' = p.status /\ status'.obs = p.gen /\ InPass
      BY <1>0, <2>2 DEF UpdateLands, WritesTruth, InPass
    <3> QED
      BY <1>c, <3>1
  <2>3. CASE Delete
    <3>1. status' = NoStatus /\ status'.obs = 0
      BY <2>3, EmptyCopy DEF Delete
    <3> QED
      BY <1>d, <3>1
  <2> QED
    BY <2>1, <2>2, <2>3, StatusChanges
<1>2. RunLater(cache'.status, cache'.status.obs)
  <2>1. CASE cache' = cache
    BY <1>b, <2>1
  <2>2. CASE cache' = Stored
    <3>1. \/ cache'.status = status
          \/ cache'.status = NoStatus /\ cache'.status.obs = 0
      BY <2>2, StoredIs, EmptyCopy
    <3> QED
      BY <1>a, <1>d, <3>1
  <2>3. CASE cache' = NoCopy
    <3>1. cache'.status = NoStatus /\ cache'.status.obs = 0
      BY <2>3, EmptyCopy
    <3> QED
      BY <1>d, <3>1
  <2> QED
    BY <2>1, <2>2, <2>3, CacheSteps
<1>3. InPass' => RunLater(p'.status, p'.gen)
  <2>1. CASE ReconcileInvalid \/ ReconcileBlocked \/ ReconcileKubernetes \/ ReconcileAzure
    <3>1. /\ SameParts(cache.status, p'.status) /\ p'.gen = cache.gen
          /\ p'.status.run = cache.status.run
      BY <1>0, <2>1, BeginParts, PassBegins
    <3>2. cache.status.obs <= p'.gen /\ p'.gen \in Nat
      BY <1>0, <3>1 DEF CopiesOrdered
    <3> QED
      BY <1>0, <1>b, <3>1, <3>2, RunArrived
  <2>2. CASE FinishApply
    <3>1. InPass
      BY <1>0, <2>2, PassGoesOn
    <3> QED
      BY <1>0, <1>c, <2>2, <3>1, FinishedRun
  <2>3. CASE TriggerAccepted
    <3>1. p'.gen = p.gen /\ InPass
      BY <1>0, <2>3, PassGoesOn
    <3>2. p.gen \in 1..generation
      BY <1>0, <3>1 DEF VersionsOrdered
    <3>3. PICK g \in 1..generation : g = p.gen
      BY <3>2
    <3>4. RunLater(p'.status, g)
      BY <1>0, <2>3, <3>3, TriggeredRun
    <3> QED
      BY <3>1, <3>3, <3>4
  <2>4. CASE TriggerRefused \/ TriggerReplyLost
    <3>1. p'.gen = p.gen /\ InPass
      BY <1>0, <2>4, PassGoesOn
    <3>2. SameParts(p.status, p'.status) /\ p'.status.run = p.status.run
      BY <1>0, <2>4, TriggerFailsParts, TriggerFailsStep
         DEF TriggerRefused, TriggerReplyLost
    <3> QED
      BY <1>0, <1>c, <3>1, <3>2, RunArrived
  <2>5. CASE \/ ApplyAccepted \/ ApplyRefused \/ ApplyReplyLost
    <3>1. p' = p /\ InPass
      BY <2>5 DEF ApplyAccepted, ApplyRefused, ApplyReplyLost, InPass
    <3> QED
      BY <1>c, <3>1
  <2>6. CASE UpdateAccepted \/ UpdateReplyLost \/ UpdateConflicts \/ UpdateFails
    BY <2>6, PassEnds DEF InPass
  <2>7. CASE \/ Touch \/ Delete \/ Crash \/ Start \/ Deliver \/ TimerFires
             \/ ReconcileAbsent \/ ReconcileGetFails
             \/ (\E s \in Specs : Edit(s))
             \/ (\E o \in Objects : Drift(o) \/ Collect(o))
             \/ UNCHANGED vars
    <3>1. CASE UNCHANGED <<pc, p>>
      BY <1>c, <3>1 DEF InPass
    <3>2. CASE pc' \in {"down", "idle"}
      BY <3>2 DEF InPass
    <3> QED
      BY <2>7, <3>1, <3>2, PassKept
  <2> QED
    BY <2>1, <2>2, <2>3, <2>4, <2>5, <2>6, <2>7
       DEF Next, Environment, Runtime, Reconcile
<1>4. Len(posts)' = runs'
  BY <1>0, PostsKept
<1>5. RunFrom(status, status.obs)'
  BY <1>1 DEF RunLater, RunFrom, OnPipeline
<1>6. RunFrom(cache.status, cache.status.obs)'
  BY <1>2 DEF RunLater, RunFrom, OnPipeline
<1>7. InPass' => RunFrom(p.status, p.gen)'
  BY <1>3 DEF RunLater, RunFrom, OnPipeline
<1> QED
  BY <1>4, <1>5, <1>6, <1>7 DEF RunsRecorded

-----------------------------------------------------------------------------
(***************************************************************************)
(* Passes keep the content of the cluster in order.                        *)
(***************************************************************************)

\* A generation that the pass and the cache have reached stays reached: a new
\* pass takes the cached one, and the cache is only ever filled with the latest.
LEMMA ReachedKept ==
    ASSUME IInv, [Next]_vars, NEW g \in 1..generation,
           InPass => g <= p.gen, cache.gen # 0 => g <= cache.gen
    PROVE  /\ InPass' => g <= p'.gen
           /\ cache'.gen # 0 => g <= cache'.gen
<1> USE DEF store, informer, queue, pass, azure
<1>0. /\ TypeOK /\ VersionsOrdered /\ PassFitsSpec /\ generation \in Nat
  BY Numbers DEF IInv
<1>1. CASE Start \/ Deliver
  <2>1. cache' = Stored /\ p' = p /\ (InPass' => InPass)
    BY <1>1 DEF Start, Deliver, InPass
  <2>2. cache'.gen \in {0, generation}
    BY <2>1, StoredIs
  <2> QED
    BY <1>0, <2>1, <2>2
<1>2. CASE Crash
  <2>1. cache'.gen = 0 /\ ~InPass'
    BY <1>2, EmptyCopy DEF Crash, InPass
  <2> QED
    BY <2>1
<1>3. CASE ReconcileInvalid \/ ReconcileBlocked \/ ReconcileKubernetes \/ ReconcileAzure
  <2>1. cache' = cache /\ p'.gen = cache.gen /\ cache.gen # 0
    BY <1>0, <1>3, PassBegins
  <2> QED
    BY <2>1
<1>4. CASE \/ ApplyAccepted \/ ApplyRefused \/ ApplyReplyLost \/ FinishApply
           \/ TriggerAccepted \/ TriggerRefused \/ TriggerReplyLost
  <2>1. cache' = cache /\ p'.gen = p.gen /\ InPass
    BY <1>0, <1>4, PassGoesOn
  <2> QED
    BY <2>1
<1>5. CASE UpdateAccepted \/ UpdateReplyLost \/ UpdateConflicts \/ UpdateFails
  <2>1. cache' = cache /\ ~InPass'
    BY <1>5, PassEnds DEF InPass
  <2> QED
    BY <2>1
<1>6. CASE \/ Touch \/ Delete \/ TimerFires \/ ReconcileAbsent \/ ReconcileGetFails
           \/ (\E s \in Specs : Edit(s))
           \/ (\E o \in Objects : Drift(o) \/ Collect(o))
           \/ UNCHANGED vars
  <2>1. UNCHANGED <<cache, pc, p>>
    BY <1>6 DEF Touch, Delete, TimerFires, ReconcileAbsent, ReconcileGetFails,
       Edit, OutOfDate, Drift, Collect, vars
  <2> QED
    BY <2>1 DEF InPass
<1> QED
  BY <1>1, <1>2, <1>3, <1>4, <1>5, <1>6 DEF Next, Environment, Runtime, Reconcile

\* So content that has been passed stays passed.
LEMMA PassedKept ==
    ASSUME IInv, [Next]_vars, NEW x, Passed(x)
    PROVE  x \notin {NoHash, Drifted} =>
               \E g \in 1..generation' :
                   /\ x = PlanHash(specs'[g])
                   /\ InPass' => g <= p'.gen
                   /\ cache'.gen # 0 => g <= cache'.gen
<1> SUFFICES ASSUME x \notin {NoHash, Drifted}
             PROVE  \E g \in 1..generation' :
                        /\ x = PlanHash(specs'[g])
                        /\ InPass' => g <= p'.gen
                        /\ cache'.gen # 0 => g <= cache'.gen
  OBVIOUS
<1>1. PICK g \in 1..generation :
        x = PlanHash(specs[g]) /\ (InPass => g <= p.gen) /\ (cache.gen # 0 => g <= cache.gen)
  BY DEF Passed
<1>2. g \in 1..generation' /\ specs'[g] = specs[g]
  BY HistoryKept DEF IInv
<1>3. (InPass' => g <= p'.gen) /\ (cache'.gen # 0 => g <= cache'.gen)
  BY <1>1, ReachedKept
<1> QED
  BY <1>1, <1>2, <1>3

\* What a pass makes is of a generation it and the cache have reached.
LEMMA MadeIsPassed ==
    ASSUME IInv, InPass PROVE Passed(PlanHash(specs[p.gen]))
  BY Numbers DEF IInv, VersionsOrdered, Passed

LEMMA AllLiveSteps ==
    ASSUME TypeOK, [Next]_vars, NEW o \in Objects
    PROVE  \/ live'[o] \in {live[o], NoHash, Drifted}
           \/ InPass /\ live'[o] = PlanHash(specs[p.gen])
<1> USE DEF store, informer, queue, pass, azure
<1>0. live \in [Objects -> Hashes]
  BY DEF TypeOK
<1>1. CASE \E x \in Objects : Collect(x) \/ Drift(x)
  BY <1>0, <1>1 DEF Collect, Drift
<1>2. CASE ApplyAccepted \/ ApplyReplyLost
  <2>1. pc = "applying"
        /\ live' = [live EXCEPT ![Head(todo)] = PlanHash(specs[p.gen])]
    BY <1>2 DEF ApplyAccepted, ApplyReplyLost
  <2> QED
    BY <1>0, <2>1 DEF InPass
<1>3. CASE live' = live
  BY <1>3
<1> QED
  BY <1>1, <1>2, <1>3 DEF Next, Environment, Runtime, Reconcile, vars,
     Touch, Delete, Edit, OutOfDate, Crash, Start, Deliver, TimerFires,
     ReconcileAbsent, ReconcileGetFails, ReconcileInvalid, ReconcileBlocked,
     ReconcileKubernetes, ReconcileAzure, ApplyRefused, FinishApply,
     TriggerAccepted, TriggerRefused, TriggerReplyLost, TriggerFails, UpdateLands,
     UpdateAccepted, UpdateReplyLost, UpdateConflicts, UpdateFails

LEMMA ContentOrderedStep ==
    ASSUME IInv, ContentOrdered, [Next]_vars
    PROVE  ContentOrdered'
<1> DEFINE PassedBy(x) == x \notin {NoHash, Drifted} =>
               \E g \in 1..generation' :
                   /\ x = PlanHash(specs'[g])
                   /\ InPass' => g <= p'.gen
                   /\ cache'.gen # 0 => g <= cache'.gen
<1>1. ASSUME NEW x, Passed(x) PROVE PassedBy(x)
  BY <1>1, PassedKept
<1>2. InPass => PassedBy(PlanHash(specs[p.gen]))
  BY <1>1, MadeIsPassed
<1>3. ASSUME NEW o \in Objects PROVE PassedBy(live'[o])
  <2> DEFINE y == live'[o]
  <2>1. \/ y \in {NoHash, Drifted}
        \/ y = live[o]
        \/ InPass /\ y = PlanHash(specs[p.gen])
    BY AllLiveSteps DEF IInv
  <2>2. PassedBy(live[o])
    BY <1>1 DEF ContentOrdered
  <2> HIDE DEF y
  <2>3. PassedBy(y)
    BY <1>2, <2>1, <2>2
  <2> QED
    BY <2>3 DEF y
<1>4. PassedBy(pipeline')
  <2> DEFINE y == pipeline'
  <2>1. y = pipeline \/ (InPass /\ y = PlanHash(specs[p.gen]))
    BY PipelineSteps
  <2>2. PassedBy(pipeline)
    BY <1>1 DEF ContentOrdered
  <2> HIDE DEF y
  <2>3. PassedBy(y)
    BY <1>2, <2>1, <2>2
  <2> QED
    BY <2>3 DEF y
<1>5. Objects' = Objects
  BY DEF Objects
<1> QED
  BY <1>3, <1>4, <1>5 DEF ContentOrdered, Passed

\* A pass has reached what the status reports on and what it finds in the cluster.
LEMMA PassSupersedes ==
    ASSUME IInv, InPass, NEW x, Passed(x)
    PROVE  Supersedes(PlanHash(specs[p.gen]), x)
<1>0. /\ TypeOK /\ VersionsOrdered
      /\ status.obs \in Nat /\ p.gen \in Nat /\ status.obs <= p.gen
  BY Numbers DEF IInv, VersionsOrdered
<1>1. MadeSince(PlanHash(specs[p.gen]), status.obs)
  BY <1>0, MadeNow
<1>2. ASSUME x \notin {NoHash, Drifted}
      PROVE  \E g \in 1..generation :
                 x = PlanHash(specs[g]) /\ MadeSince(PlanHash(specs[p.gen]), g)
  <2>1. PICK g \in 1..generation : x = PlanHash(specs[g]) /\ g <= p.gen
    BY <1>2 DEF Passed
  <2>2. MadeSince(PlanHash(specs[p.gen]), g)
    BY <1>0, <2>1, MadeNow, Numbers
  <2> QED
    BY <2>1, <2>2
<1> QED
  BY <1>1, <1>2 DEF Supersedes

-----------------------------------------------------------------------------
(***************************************************************************)
(* The theorems.                                                           *)
(***************************************************************************)

LEMMA InitHistory == Init => History
<1> SUFFICES ASSUME Init PROVE History
  OBVIOUS
<1>1. /\ status.hash = NoHash /\ status.tools.entries = {}
      /\ cache.status.hash = NoHash /\ cache.status.tools.entries = {}
      /\ cache.status.obs = 0 /\ cache.gen = 0
      /\ ~InPass /\ applied = {} /\ failed = {} /\ pc # "applying"
  BY EmptyCopy DEF Init, InPass, NoCopy, NoStatus, EmptyStatus, NoTools
<1> QED
  BY <1>1 DEF History, KindsSoFar, CopiesOrdered, Origins, HashFrom, ToolsFrom

LEMMA InitRuns == Init => RunsRecorded
<1> SUFFICES ASSUME Init PROVE RunsRecorded
  OBVIOUS
<1>1. /\ status = NoStatus /\ cache.status = NoStatus /\ ~InPass
      /\ posts = <<>> /\ runs = 0
  BY EmptyCopy DEF Init, InPass
<1>2. \A g : RunFrom(NoStatus, g)
  BY EmptyCopy, EmptyParts DEF RunFrom, OnPipeline
<1> QED
  BY <1>1, <1>2 DEF RunsRecorded

LEMMA HistoryInvariance == Spec => []History
<1>1. IInv /\ History /\ [Next]_vars => History'
  BY KindsSoFarStep, CopiesOrderedStep, OriginsStep DEF History
<1> QED
  BY <1>1, InitHistory, Invariance, PTL DEF Spec

\* The effective hash is that of a plan that has been applied as a whole, of the
\* observed generation or an earlier one, and that nothing has undone since
\* (pack_controller.go:163; failed and blocked passes do not touch it).
THEOREM HashIsTruthful == Spec => []HashWasApplied
<1>1. IInv /\ History => HashWasApplied
  <2> SUFFICES ASSUME IInv, History, status.hash # NoHash PROVE HashWasApplied
    BY DEF HashWasApplied
  <2>1. exists
    BY EmptyParts DEF IInv, VersionsOrdered
  <2> QED
    BY <2>1 DEF History, Origins, HashFrom, HashWasApplied
<1> QED
  BY <1>1, Invariance, HistoryInvariance, PTL

\* status.tools is the report of one pass on one generation, with one entry for
\* each of its tools, Ready only where all objects of the tool were applied and
\* none has been undone since (pack_controller.go:128-129, 152, 206-225).
THEOREM ToolsAreOfOnePass == Spec => []ToolsOfOnePass
<1>1. IInv /\ History => ToolsOfOnePass
  <2> SUFFICES ASSUME IInv, History, status.tools.entries # {} PROVE ToolsOfOnePass
    BY DEF ToolsOfOnePass
  <2>1. exists
    BY EmptyParts DEF IInv, VersionsOrdered
  <2> QED
    BY <2>1 DEF History, Origins, ToolsFrom, ToolsOfOnePass
<1> QED
  BY <1>1, Invariance, HistoryInvariance, PTL

\* The run a status names is one the pipeline has had, of an azure spec no later
\* than the observed one, and, while the pipeline is the tool reported on, of the
\* plan whose hash is recorded, through lost replies, conflicts, crashes, failed
\* and blocked passes (pack_controller.go:136-163).
THEOREM RunIsTruthful == Spec => []RunOfOnePass
<1>1. Spec => []RunsRecorded
  <2>1. IInv /\ History /\ RunsRecorded /\ [Next]_vars => RunsRecorded'
    BY RunsRecordedStep
  <2> QED
    BY <2>1, InitRuns, Invariance, HistoryInvariance, PTL DEF Spec
<1>2. IInv /\ RunsRecorded => RunOfOnePass
  <2> SUFFICES ASSUME IInv, RunsRecorded PROVE RunOfOnePass
    OBVIOUS
  <2>1. status.run \in 0..runs
    BY Numbers DEF IInv, RunsOrdered
  <2> QED
    BY <2>1 DEF RunsRecorded, RunOfOnePass
<1> QED
  BY <1>1, <1>2, Invariance, PTL

LEMMA ContentInvariance == Spec => []ContentOrdered
<1>1. Init => ContentOrdered
  BY DEF Init, ContentOrdered, Passed
<1>2. IInv /\ ContentOrdered /\ [Next]_vars => ContentOrdered'
  BY ContentOrderedStep
<1> QED
  BY <1>1, <1>2, Invariance, PTL DEF Spec

\* Nothing a pass applies or posts undoes a later spec, though it may be at work
\* on a copy that users, the cache and a restart have long left behind: applies
\* are unconditional (pack_controller.go:45-52), but there is one worker, and it
\* reads no copy older than one it has worked on.
THEOREM ContentMovesForward == Spec => ContentNeverGoesBack
<1> DEFINE Forward ==
        /\ \A o \in Objects :
              live'[o] \in {live[o], NoHash, Drifted} \/ Supersedes(live'[o], live[o])
        /\ pipeline' # pipeline => Supersedes(pipeline', pipeline)
<1>1. IInv /\ ContentOrdered /\ [Next]_vars => [Forward]_<<live, pipeline>>
  <2> SUFFICES ASSUME IInv, ContentOrdered, [Next]_vars PROVE Forward
    OBVIOUS
  <2>1. ASSUME NEW o \in Objects, live'[o] \notin {live[o], NoHash, Drifted}
        PROVE  Supersedes(live'[o], live[o])
    <3>1. InPass /\ live'[o] = PlanHash(specs[p.gen])
      BY <2>1, AllLiveSteps DEF IInv
    <3>2. Passed(live[o])
      BY DEF ContentOrdered
    <3>3. Supersedes(PlanHash(specs[p.gen]), live[o])
      BY <3>1, <3>2, PassSupersedes
    <3> DEFINE y == live'[o]
    <3>4. y = PlanHash(specs[p.gen])
      BY <3>1
    <3> HIDE DEF y
    <3>5. Supersedes(y, live[o])
      BY <3>3, <3>4
    <3> QED
      BY <3>5 DEF y
  <2>2. ASSUME pipeline' # pipeline PROVE Supersedes(pipeline', pipeline)
    <3>1. InPass /\ pipeline' = PlanHash(specs[p.gen])
      BY <2>2, PipelineSteps
    <3>2. Supersedes(PlanHash(specs[p.gen]), pipeline)
      BY <3>1, PassSupersedes DEF ContentOrdered
    <3> QED
      BY <3>1, <3>2
  <2> QED
    BY <2>1, <2>2
<1> QED
  BY <1>1, Invariance, ContentInvariance, PTL DEF Spec, ContentNeverGoesBack
=============================================================================
