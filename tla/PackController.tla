--------------------------- MODULE PackController ---------------------------
(***************************************************************************)
(* PackReconciler at work on one Pack: the API server that stores the Pack *)
(* and the rendered objects, the informer cache and the workqueue of       *)
(* controller-runtime, the one worker that runs Reconcile, the Azure       *)
(* pipeline, and the users around them.                                    *)
(*                                                                         *)
(* A pass of Reconcile is not atomic: every call it makes to the API       *)
(* server or to the pipeline is a step, between any two of which users may *)
(* edit or delete the Pack, the cache may be told of it, and the operator  *)
(* may die.  Each call may be refused, or carried out and its reply lost.  *)
(***************************************************************************)
EXTENDS PackStatus, PackOperator

CONSTANTS
    Rejected,        \* objects the API server never accepts: their tool operator
                     \* is not installed, or what it admits leaves them out
    MaxGenerations,  \* bound: how many specs the Pack may have in its life
    MaxRuns,         \* bound: how many runs the pipeline's quota allows
    MaxFaults        \* bound: how many faults, drifts and metadata edits

ASSUME BoundsAssumption ==
    /\ MaxGenerations \in Nat \ {0}
    /\ MaxRuns \in Nat
    /\ MaxFaults \in Nat

ASSUME RejectedAssumption ==
    Rejected \subseteq [kind: Kinds, namespace: STRING, id: Seq(STRING)]

ASSUME SpecsAssumption ==
    Specs \subseteq
        [target: Targets, namespace: STRING, pipeline: BOOLEAN,
         manifest: [parses: BOOLEAN, refsOK: BOOLEAN, name: STRING,
                    dashboards: Seq(STRING), body: Nat]]

VARIABLES
    \* The Pack in the API server.
    specs,     \* every spec it has had; its generation is the length
    exists,    \* FALSE once it is deleted
    status,    \* its status subresource
    \* The informer and the workqueue.
    cache,     \* the copy Get reads; generation 0 when it holds no Pack
    fresh,     \* the cache has seen the latest resourceVersion
    queued,    \* the Pack is in the queue, or dirty while a worker has it
    timer,     \* an AddAfter or AddRateLimited entry is pending
    \* The pass the worker is in.
    pc,        \* "down", "idle", "applying", "triggering" or "writing"
    p,         \* the local Pack variable: generation and edited status
    current,   \* the copy still has the stored resourceVersion
    todo,      \* rendered objects the loop of applyObjects has left
    applied,   \* the keys of its map counts
    failed,    \* the keys of its map errs
    \* The outside world.
    live,      \* which plan each object was last applied from
    pipeline,  \* which plan the latest run of the pipeline got
    runs,      \* how many runs the pipeline has accepted
    posts,     \* history: which plan each of them got
    faults     \* how many faults have happened

store == <<specs, exists, status>>
informer == <<cache, fresh>>
queue == <<queued, timer>>
pass == <<p, current, todo, applied, failed>>
azure == <<pipeline, runs, posts>>
vars == <<store, informer, queue, pc, pass, live, azure, faults>>

-----------------------------------------------------------------------------
generation == Len(specs)
Spec0 == specs[generation]    \* the spec users want now

Objects == UNION {RenderedObjects(s) : s \in Specs}

\* An object someone else has changed or removed since it was applied.
Drifted == <<"drifted">>

NoStatus == EmptyStatus(NoHash)
NoCopy   == [gen |-> 0, status |-> NoStatus]
Stored   == IF exists THEN [gen |-> generation, status |-> status] ELSE NoCopy

Fault == faults < MaxFaults /\ faults' = faults + 1

\* The pass is over: the worker forgets its copy.
Done ==
    /\ pc' = "idle"
    /\ p' = NoCopy
    /\ current' = FALSE
    /\ todo' = <<>>
    /\ applied' = {}
    /\ failed' = {}

Init ==
    /\ \E s \in Specs : specs = <<s>>
    /\ exists = TRUE
    /\ status = NoStatus
    /\ cache = NoCopy
    /\ fresh = FALSE
    /\ queued = FALSE
    /\ timer = FALSE
    /\ pc = "down"
    /\ p = NoCopy
    /\ current = FALSE
    /\ todo = <<>>
    /\ applied = {}
    /\ failed = {}
    /\ live = [o \in Objects |-> NoHash]
    /\ pipeline = NoHash
    /\ runs = 0
    /\ posts = <<>>
    /\ faults = 0

-----------------------------------------------------------------------------
(***************************************************************************)
(* Users and other actors.                                                 *)
(***************************************************************************)

\* A write of the Pack by someone else: the cache and the copy of a pass in
\* progress now have an old resourceVersion.
OutOfDate ==
    /\ fresh' = FALSE
    /\ current' = FALSE
    /\ UNCHANGED <<cache, queue, pc, p, todo, applied, failed, live, azure>>

Edit(s) ==
    /\ exists
    /\ generation < MaxGenerations
    /\ s # Spec0
    /\ specs' = Append(specs, s)
    /\ OutOfDate
    /\ UNCHANGED <<exists, status, faults>>

\* A label or an annotation: a new resourceVersion, the same generation.
Touch ==
    /\ exists
    /\ Fault
    /\ OutOfDate
    /\ UNCHANGED store

Delete ==
    /\ exists
    /\ exists' = FALSE
    /\ status' = NoStatus
    /\ OutOfDate
    /\ UNCHANGED <<specs, faults>>

\* An out-of-band edit or removal of a rendered object.
Drift(o) ==
    /\ live[o] \notin {NoHash, Drifted}
    /\ Fault
    /\ live' = [live EXCEPT ![o] = Drifted]
    /\ UNCHANGED <<store, informer, queue, pc, pass, azure>>

\* Defective variant: objects are applied without an owner reference.
OwnerGoneUnset(o) == FALSE

\* Every rendered object has an owner reference to the Pack.  It names no
\* namespace: it is resolved in the object's own.
OwnerGone(o) == ~exists \/ o.namespace # PackNamespace

\* The garbage collector of the cluster.
Collect(o) ==
    /\ live[o] # NoHash
    /\ OwnerGone(o)
    /\ live' = [live EXCEPT ![o] = NoHash]
    /\ UNCHANGED <<store, informer, queue, pc, pass, azure, faults>>

-----------------------------------------------------------------------------
(***************************************************************************)
(* The manager, the informer and the workqueue.                            *)
(***************************************************************************)

\* Defective variant: workers start on a cache that may still be behind.
StartBehind ==
    /\ pc = "down"
    /\ pc' = "idle"
    /\ \E g \in 1..generation : cache' = IF exists THEN [Stored EXCEPT !.gen = g] ELSE NoCopy
    /\ fresh' = (cache' = Stored)
    /\ queued' = exists
    /\ UNCHANGED <<store, timer, pass, live, azure, faults>>

\* The cache is synced before workers start, and every Pack in it is queued.
Start ==
    /\ pc = "down"
    /\ pc' = "idle"
    /\ cache' = Stored
    /\ fresh' = TRUE
    /\ queued' = exists
    /\ UNCHANGED <<store, timer, pass, live, azure, faults>>

Crash ==
    /\ pc # "down"
    /\ Fault
    /\ pc' = "down"
    /\ cache' = NoCopy
    /\ fresh' = FALSE
    /\ queued' = FALSE
    /\ timer' = FALSE
    /\ p' = NoCopy
    /\ current' = FALSE
    /\ todo' = <<>>
    /\ applied' = {}
    /\ failed' = {}
    /\ UNCHANGED <<store, live, azure>>

\* A watch event: For(&Pack{}) has no predicate, so whatever changed (spec,
\* metadata, status, deletion) enqueues the Pack.
Deliver ==
    /\ pc # "down"
    /\ ~fresh
    /\ cache' = Stored
    /\ fresh' = TRUE
    /\ queued' = TRUE
    /\ UNCHANGED <<store, timer, pc, pass, live, azure, faults>>

TimerFires ==
    /\ pc # "down"
    /\ timer
    /\ timer' = FALSE
    /\ queued' = TRUE
    /\ UNCHANGED <<store, informer, pc, pass, live, azure, faults>>

-----------------------------------------------------------------------------
(***************************************************************************)
(* The edits of the status at the two ends of a pass.                      *)
(***************************************************************************)

\* Defective variant: the error and the reason are swapped.
failSwapped(st, gen, now, reason, error) ==
    markDegraded([st EXCEPT !.phase = "Degraded",
                            !.lastError = reason,
                            !.obs = gen], gen, now, error)

\* Defective variant: a failed pass records the hash it was working on.
failRecordsHash(st, gen, now, reason, error) ==
    markDegraded([st EXCEPT !.phase = "Degraded",
                            !.lastError = error,
                            !.hash = PlanHash(specs[gen]),
                            !.obs = gen], gen, now, reason)

\* fail: the hash, the tools and the pipeline run are left as they are.
fail(st, gen, now, reason, error) ==
    markDegraded([st EXCEPT !.phase = "Degraded",
                            !.lastError = error,
                            !.obs = gen], gen, now, reason)

\* Defective variant: the observed generation is not set.
blockUnobserved(st, gen, now) ==
    [markBlocked(st, gen, now) EXCEPT !.phase = "Blocked",
                                      !.lastError = "blocked"]

block(st, gen, now) ==
    [markBlocked(st, gen, now) EXCEPT !.phase = "Blocked",
                                      !.lastError = "blocked",
                                      !.obs = gen]

succeed(st, gen, now, s) ==
    [markReady(st, gen, now) EXCEPT !.lastError = "",
                                    !.hash = PlanHash(s),
                                    !.obs = gen]

-----------------------------------------------------------------------------
(***************************************************************************)
(* A pass of Reconcile.                                                    *)
(***************************************************************************)

\* Take the Pack off the queue and read it: the copy is marked Progressing,
\* the announcement stays local.
Begin(verdict, st(_, _, _)) ==
    /\ pc = "idle"
    /\ queued
    /\ cache.gen # 0
    /\ Verdict(specs[cache.gen]) = verdict
    /\ queued' = FALSE
    /\ current' = fresh
    /\ \E now \in Instants :
        LET announced == [markProgressing(cache.status, cache.gen, now)
                              EXCEPT !.phase = "Planning"]
        IN  p' = [gen |-> cache.gen, status |-> st(announced, cache.gen, now)]

\* Get answers NotFound: nothing to do, nothing to wait for.
ReconcileAbsent ==
    /\ pc = "idle"
    /\ queued
    /\ cache.gen = 0
    /\ queued' = FALSE
    /\ UNCHANGED <<store, informer, timer, pc, pass, live, azure, faults>>

\* Defective variant: every error of Get is taken for NotFound.
GetErrorSwallowed ==
    /\ pc = "idle"
    /\ queued
    /\ Fault
    /\ queued' = FALSE
    /\ UNCHANGED <<store, informer, timer, pc, pass, live, azure>>

\* Any other error of Get is returned, and the queue backs off.
ReconcileGetFails ==
    /\ pc = "idle"
    /\ queued
    /\ Fault
    /\ queued' = FALSE
    /\ timer' = TRUE
    /\ UNCHANGED <<store, informer, pc, pass, live, azure>>

ReconcileInvalid ==
    /\ Begin("error",
             LAMBDA st, gen, now : fail(st, gen, now, "ValidationFailed", "core"))
    /\ pc' = "writing"
    /\ UNCHANGED <<store, informer, timer, todo, applied, failed, live, azure, faults>>

ReconcileBlocked ==
    /\ Begin("blocked", block)
    /\ pc' = "writing"
    /\ UNCHANGED <<store, informer, timer, todo, applied, failed, live, azure, faults>>

Validated(st, gen, now) ==
    [markValidated(st, gen, now) EXCEPT !.phase = "Applying"]

ReconcileKubernetes ==
    /\ Begin("ok", Validated)
    /\ OnKubernetes(specs[cache.gen])
    /\ pc' = "applying"
    /\ todo' = Rendered(specs[cache.gen])
    /\ UNCHANGED <<store, informer, timer, applied, failed, live, azure, faults>>

ReconcileAzure ==
    /\ Begin("ok", Validated)
    /\ specs[cache.gen].target = "azure"
    /\ pc' = "triggering"
    /\ UNCHANGED <<store, informer, timer, todo, applied, failed, live, azure, faults>>

\* One server-side apply.  Force-owned fields make it win over any drift.
ApplyAccepted ==
    /\ pc = "applying"
    /\ todo # <<>>
    /\ Head(todo) \notin Rejected
    /\ live' = [live EXCEPT ![Head(todo)] = PlanHash(specs[p.gen])]
    /\ applied' = applied \cup {Head(todo).kind}
    /\ todo' = Tail(todo)
    /\ UNCHANGED <<store, informer, queue, pc, p, current, failed, azure, faults>>

\* Defective variant: the error of an apply is logged and forgotten.
ApplyErrorForgotten ==
    /\ pc = "applying"
    /\ todo # <<>>
    /\ \/ Head(todo) \in Rejected /\ UNCHANGED faults
       \/ Fault
    /\ todo' = Tail(todo)
    /\ UNCHANGED <<store, informer, queue, pc, p, current, applied, failed, live, azure>>

\* Defective variant: the loop breaks at the first error.
ApplyStopsAtError ==
    /\ pc = "applying"
    /\ todo # <<>>
    /\ \/ Head(todo) \in Rejected /\ UNCHANGED faults
       \/ Fault
    /\ failed' = failed \cup {Head(todo).kind}
    /\ todo' = <<>>
    /\ UNCHANGED <<store, informer, queue, pc, p, current, applied, live, azure>>

ApplyRefused ==
    /\ pc = "applying"
    /\ todo # <<>>
    /\ \/ Head(todo) \in Rejected /\ UNCHANGED faults
       \/ Fault
    /\ failed' = failed \cup {Head(todo).kind}
    /\ todo' = Tail(todo)
    /\ UNCHANGED <<store, informer, queue, pc, p, current, applied, live, azure>>

\* The object is applied, but the reply is an error (a timeout).
ApplyReplyLost ==
    /\ pc = "applying"
    /\ todo # <<>>
    /\ Head(todo) \notin Rejected
    /\ Fault
    /\ live' = [live EXCEPT ![Head(todo)] = PlanHash(specs[p.gen])]
    /\ failed' = failed \cup {Head(todo).kind}
    /\ todo' = Tail(todo)
    /\ UNCHANGED <<store, informer, queue, pc, p, current, applied, azure>>

\* Defective variant: one applied object makes the tool Ready.
toolStatusAnyApplied(now) ==
    [entries |-> {[tool  |-> toolFromKind(k),
                   phase |-> IF k \in applied THEN "Ready" ELSE "Degraded"] :
                      k \in applied \cup failed},
     order   |-> now]

\* One entry per kind tried, Degraded when any object of the kind failed.
toolStatus(now) ==
    [entries |-> {[tool  |-> toolFromKind(k),
                   phase |-> IF k \in failed THEN "Degraded" ELSE "Ready"] :
                      k \in applied \cup failed},
     order   |-> now]

FinishApply ==
    /\ pc = "applying"
    /\ todo = <<>>
    /\ pc' = "writing"
    /\ \E now \in Instants :
        LET st == [p.status EXCEPT !.tools = toolStatus(now)]
        IN  p' = [p EXCEPT !.status =
                IF failed # {}
                THEN fail(st, p.gen, now, "ApplyFailed", "apply")
                ELSE [succeed(st, p.gen, now, specs[p.gen]) EXCEPT !.phase = "Ready"]]
    /\ UNCHANGED <<store, informer, queue, current, todo, applied, failed, live, azure, faults>>

\* The pipeline takes the request and starts a run on it.
RunStarts ==
    /\ runs < MaxRuns
    /\ runs' = runs + 1
    /\ pipeline' = PlanHash(specs[p.gen])
    /\ posts' = Append(posts, PlanHash(specs[p.gen]))

\* Defective variant: the tool is appended to those the status has.
TriggerAppendsTool ==
    /\ pc = "triggering"
    /\ RunStarts
    /\ pc' = "writing"
    /\ \E now \in Instants :
        LET tool == [tool |-> "azure-pipeline", phase |-> "Applying"]
            st == [p.status EXCEPT !.run = runs', !.tools.entries = @ \cup {tool}]
        IN  p' = [p EXCEPT !.status = succeed(st, p.gen, now, specs[p.gen])]
    /\ UNCHANGED <<store, informer, queue, current, todo, applied, failed, live, faults>>

\* Defective variant: a run that is recorded is not replaced by a later one.
TriggerKeepsRun ==
    /\ pc = "triggering"
    /\ RunStarts
    /\ pc' = "writing"
    /\ \E now \in Instants :
        LET tools == [entries |-> {[tool |-> "azure-pipeline", phase |-> "Applying"]},
                      order   |-> 0]
            st == [p.status EXCEPT !.run = IF @ = 0 THEN runs' ELSE @, !.tools = tools]
        IN  p' = [p EXCEPT !.status = succeed(st, p.gen, now, specs[p.gen])]
    /\ UNCHANGED <<store, informer, queue, current, todo, applied, failed, live, faults>>

TriggerAccepted ==
    /\ pc = "triggering"
    /\ RunStarts
    /\ pc' = "writing"
    /\ \E now \in Instants :
        LET tools == [entries |-> {[tool |-> "azure-pipeline", phase |-> "Applying"]},
                      order   |-> 0]
            st == [p.status EXCEPT !.run = runs', !.tools = tools]
        IN  p' = [p EXCEPT !.status = succeed(st, p.gen, now, specs[p.gen])]
    /\ UNCHANGED <<store, informer, queue, current, todo, applied, failed, live, faults>>

\* Defective variant: the status code of the response is not looked at.
TriggerStatusIgnored ==
    /\ pc' = "writing"
    /\ \E now \in Instants :
        p' = [p EXCEPT !.status = succeed(p.status, p.gen, now, specs[p.gen])]
    /\ UNCHANGED <<store, informer, queue, current, todo, applied, failed, live>>

TriggerFails ==
    /\ pc' = "writing"
    /\ \E now \in Instants, error \in PipelineErrors :
        p' = [p EXCEPT !.status = fail(p.status, p.gen, now, "PipelineFailed", error)]
    /\ UNCHANGED <<store, informer, queue, current, todo, applied, failed, live>>

TriggerRefused ==
    /\ pc = "triggering"
    /\ \/ runs = MaxRuns /\ UNCHANGED faults
       \/ Fault
    /\ TriggerFails
    /\ UNCHANGED azure

\* The POST times out after the pipeline has started a run.
TriggerReplyLost ==
    /\ pc = "triggering"
    /\ Fault
    /\ RunStarts
    /\ TriggerFails

\* Defective variant: the update is a patch that carries no resourceVersion.
UpdateUnconditional ==
    /\ pc = "writing"
    /\ exists
    /\ status' = p.status
    /\ fresh' = (fresh /\ p.status = status)
    /\ UNCHANGED <<specs, exists, cache, queued, live, azure>>
    /\ Done

\* The status update is conditional on the copy's resourceVersion.  One that
\* changes nothing is not a write: there is no event for it.
UpdateLands ==
    /\ pc = "writing"
    /\ current
    /\ status' = p.status
    /\ fresh' = (fresh /\ p.status = status)
    /\ UNCHANGED <<specs, exists, cache, queued, live, azure>>
    /\ Done

\* A blocked pack returns an empty Result; a failed or a successful pass asks
\* to be called again, in a minute or in ten.
UpdateAccepted ==
    /\ UpdateLands
    /\ timer' = (timer \/ p.status.phase # "Blocked")
    /\ UNCHANGED faults

\* In the next three the error of the update is returned: the queue backs off.
UpdateReplyLost ==
    /\ UpdateLands
    /\ timer' = TRUE
    /\ Fault

UpdateConflicts ==
    /\ pc = "writing"
    /\ ~current
    /\ timer' = TRUE
    /\ Done
    /\ UNCHANGED <<store, informer, queued, live, azure, faults>>

\* Defective variant: the error of the update is not returned.
UpdateErrorSwallowed ==
    /\ pc = "writing"
    /\ Fault
    /\ Done
    /\ UNCHANGED <<store, informer, queue, live, azure>>

UpdateFails ==
    /\ pc = "writing"
    /\ Fault
    /\ timer' = TRUE
    /\ Done
    /\ UNCHANGED <<store, informer, queued, live, azure>>

-----------------------------------------------------------------------------
Environment ==
    \/ \E s \in Specs : Edit(s)
    \/ Touch
    \/ Delete
    \/ \E o \in Objects : Drift(o)
    \/ Crash

Runtime == Start \/ Deliver \/ TimerFires

Reconcile ==
    \/ ReconcileAbsent
    \/ ReconcileGetFails
    \/ ReconcileInvalid
    \/ ReconcileBlocked
    \/ ReconcileKubernetes
    \/ ReconcileAzure
    \/ ApplyAccepted
    \/ ApplyRefused
    \/ ApplyReplyLost
    \/ FinishApply
    \/ TriggerAccepted
    \/ TriggerRefused
    \/ TriggerReplyLost
    \/ UpdateAccepted
    \/ UpdateReplyLost
    \/ UpdateConflicts
    \/ UpdateFails

Next ==
    \/ Environment
    \/ Runtime
    \/ Reconcile
    \/ \E o \in Objects : Collect(o)

Spec == Init /\ [][Next]_vars

\* The informer, the timers and the worker keep going, and so does the garbage
\* collector.  Users and faults owe nothing.
Fairness ==
    /\ WF_vars(Start)
    /\ WF_vars(Deliver)
    /\ WF_vars(TimerFires)
    /\ WF_vars(Reconcile)
    /\ \A o \in Objects : WF_vars(Collect(o))

FairSpec == Spec /\ Fairness

-----------------------------------------------------------------------------
(***************************************************************************)
(* Properties.                                                             *)
(***************************************************************************)

Hashes == PlanHashes \cup {NoHash, Drifted}

Copies == [gen: Nat, status: Statuses(Hashes)]

\* Every variable has the shape the code gives it.
TypeOK ==
    /\ specs \in Seq(Specs) /\ specs # <<>>
    /\ exists \in BOOLEAN
    /\ status \in Statuses(Hashes)
    /\ cache \in Copies
    /\ fresh \in BOOLEAN
    /\ queued \in BOOLEAN
    /\ timer \in BOOLEAN
    /\ pc \in {"down", "idle", "applying", "triggering", "writing"}
    /\ p \in Copies
    /\ current \in BOOLEAN
    /\ todo \in Seq(Objects)
    /\ applied \in SUBSET Kinds
    /\ failed \in SUBSET Kinds
    /\ live \in [Objects -> Hashes]
    /\ pipeline \in Hashes
    /\ runs \in Nat
    /\ posts \in Seq(PlanHashes)
    /\ faults \in Nat

\* The content x was made from generation g of the spec or a later one.
MadeSince(x, g) == \E k \in g..generation : x = PlanHash(specs[k])

\* The cluster lets an object live only in the namespace of its owner.
Lasting(o) == o.namespace = PackNamespace

AppliedSince(o, g) == live[o] = Drifted \/ MadeSince(live[o], g)

\* A Pack whose Ready condition is True has had everything its spec of that
\* generation renders applied, and nothing of it has since gone back to an
\* older spec; on azure, the latest run of the pipeline is on that spec or on
\* a later one.  It takes a stale copy, a lost reply or a pass that was
\* overtaken by an edit to break it (markReady in Reconcile).
ReadyMeansApplied ==
    LET ready == status.conditions["Ready"]
        s     == specs[ready.gen]
    IN  ready.status = "True" =>
            IF OnKubernetes(s)
            THEN \A o \in RenderedObjects(s) :
                     Lasting(o) => AppliedSince(o, ready.gen)
            ELSE MadeSince(pipeline, ready.gen)

\* When status.tools says that a tool is Ready, every object of that tool that
\* the observed generation renders has been applied, also when other tools
\* failed in the same pass (the two maps of applyObjects).
ToolReportsAreTrue ==
    status.phase = "Ready" \/ status.lastError = "apply" =>
        \A o \in RenderedObjects(specs[status.obs]) :
            /\ Lasting(o)
            /\ [tool |-> toolFromKind(o.kind), phase |-> "Ready"]
                   \in status.tools.entries
            => AppliedSince(o, status.obs)

\* Everything generation g renders has been applied, or triggered, since g.
Applied(g) ==
    IF OnKubernetes(specs[g])
    THEN \A o \in RenderedObjects(specs[g]) : Lasting(o) => AppliedSince(o, g)
    ELSE MadeSince(pipeline, g)

\* The effective hash, which failed and blocked passes leave as it was, is that
\* of a plan that has been applied as a whole (pack_controller.go:163): never
\* of one that was left half way, nor of one that has been undone since.
HashWasApplied ==
    status.hash # NoHash =>
        \E g \in 1..status.obs :
            /\ Verdict(specs[g]) = "ok"
            /\ status.hash = PlanHash(specs[g])
            /\ Applied(g)

\* The tools generation g is handed to.
ToolsOf(g) ==
    IF OnKubernetes(specs[g])
    THEN {toolFromKind(o.kind) : o \in RenderedObjects(specs[g])}
    ELSE {"azure-pipeline"}

\* The entries are a report on the tools of generation g, one for each of them,
\* and nothing of a tool they call Ready has been undone since.
ReportOf(entries, g) ==
    /\ Verdict(specs[g]) = "ok"
    /\ {e.tool : e \in entries} = ToolsOf(g)
    /\ \A e, f \in entries : e.tool = f.tool => e = f
    /\ \A o \in RenderedObjects(specs[g]) :
           /\ Lasting(o)
           /\ [tool |-> toolFromKind(o.kind), phase |-> "Ready"] \in entries
           => AppliedSince(o, g)

\* status.tools is the report of one pass (types.go:116), however many passes
\* lie between that have left it alone.
ToolsOfOnePass ==
    LET entries == status.tools.entries IN
    entries # {} => \E g \in 1..status.obs : ReportOf(entries, g)

\* The pipeline is among the tools st reports on.
OnPipeline(st) == \E e \in st.tools.entries : e.tool = "azure-pipeline"

\* The run st names was posted for a generation up to g, and, as long as it is
\* the run st reports on, for the plan of st's hash.
RunFrom(st, g) ==
    /\ st.run # 0 =>
           \E k \in 1..g :
               /\ Verdict(specs[k]) = "ok"
               /\ ~OnKubernetes(specs[k])
               /\ posts[st.run] = PlanHash(specs[k])
    /\ OnPipeline(st) => st.run # 0 /\ posts[st.run] = st.hash

\* The run is started by one call and recorded by another, and failed and blocked
\* passes leave it next to a newer observed generation: whatever was lost or
\* repeated in between, the recorded run is one the pipeline has had, of a spec
\* no later than the observed one, and as long as the pipeline is the tool
\* reported on, of the very plan whose hash is recorded (pack_controller.go:136-163).
RunOfOnePass ==
    /\ status.run \in 0..runs
    /\ RunFrom(status, status.obs)

\* The condition c of st is v for the generation st reports on.
Fresh(st, c, v) ==
    /\ st.conditions[c].gen = st.obs
    /\ st.conditions[c].status = v

\* The conditions of st stamped with its observed generation tell one story, and
\* the phase is a summary of it.
Agree(st) ==
    /\ \A c \in ConditionTypes : st.conditions[c].gen <= st.obs
    /\ Fresh(st, "Ready", "True") =>
           /\ Fresh(st, "Validated", "True")
           /\ Fresh(st, "Progressing", "False")
           /\ Fresh(st, "Degraded", "False")
           /\ st.phase \in {"Ready", "Applying"}
           /\ st.lastError = ""
    /\ Fresh(st, "Degraded", "True") => st.phase = "Degraded"
    /\ st.obs # 0 /\ Fresh(st, "Ready", "False") =>
           \/ st.phase = "Degraded" /\ Fresh(st, "Degraded", "True")
           \/ st.phase = "Blocked" /\ Fresh(st, "Validated", "False")

\* However blocked, failed and successful passes follow each other, no reader
\* finds two conditions of the observed generation that contradict each other:
\* none of the helpers of conditions.go resets all of them (conditions.go:65-95).
ConditionsAgree == Agree(status)

\* The worker sleeps with no event, queue entry or timer to wake it only when
\* the Pack is gone, or is blocked on the very spec it has now.  Whatever fails
\* on the way, a Pack that needs another pass gets one.
NeverAsleep ==
    pc = "idle" /\ ~queued /\ ~timer /\ fresh =>
        ~exists \/ (status.phase = "Blocked" /\ status.obs = generation)

\* The status never reports on an older spec than it has, and never forgets a
\* pipeline run it has recorded for an older one: a pass that started from a
\* stale copy must not get to write.
StatusNeverRegresses ==
    [][exists' => status'.obs >= status.obs /\ status'.run >= status.run]_status

\* The content y may take the place of x: not if the status already reports on a
\* later spec than any y was made from, nor if x was made from later ones only.
Supersedes(y, x) ==
    /\ status.obs # 0 => MadeSince(y, status.obs)
    /\ x \notin {NoHash, Drifted} =>
           \E g \in 1..generation : x = PlanHash(specs[g]) /\ MadeSince(y, g)

\* However old the copy a pass works on, what it puts into the cluster or posts
\* to the pipeline never undoes a later spec: objects are applied unconditionally
\* and by force (SSAApplier.Apply), only passes keep them in order.
ContentNeverGoesBack ==
    [][/\ \A o \in Objects :
              live'[o] \in {live[o], NoHash, Drifted} \/ Supersedes(live'[o], live[o])
       /\ pipeline' # pipeline => Supersedes(pipeline', pipeline)]_<<live, pipeline>>

\* If users stop editing, the status ends up reporting on the spec they left.
StatusCatchesUp == <>[](exists => status.obs = generation)

\* If they left a valid spec for Kubernetes, what it renders is applied for
\* good, whatever was edited or removed behind the operator's back, except what
\* the API server rejects; such an object holds nothing else up.
Converges ==
    <>[](exists /\ Verdict(Spec0) = "ok" /\ OnKubernetes(Spec0) =>
            /\ \A o \in RenderedObjects(Spec0) :
                   Lasting(o) /\ o \notin Rejected =>
                       live[o] = PlanHash(Spec0)
            /\ \/ status.phase = "Ready"
               \/ \E o \in RenderedObjects(Spec0) : o \in Rejected)

\* Nothing a Pack had rendered outlives it, even when a pass was half way
\* through when it was deleted.
DeletedPackCollected == <>[](~exists => \A o \in Objects : live[o] = NoHash)

\* What a reader of the status sees.
Promise ==
    INSTANCE PackPromise WITH
        report <- [gen |-> status.obs,
                   outcome |-> CASE status.phase = ""         -> "none"
                                 [] status.phase = "Ready"    -> "ready"
                                 [] status.phase = "Applying" -> "ready"
                                 [] status.phase = "Degraded" -> "degraded"
                                 [] status.phase = "Blocked"  -> "blocked"
                                 [] status.phase = "Planning" -> "planning"]

\* Every published report is a verdict on the spec current at that instant.
PromiseSafe == Promise!Spec

\* And one is published for a spec that stays.
PromiseKept == Promise!FairSpec
=============================================================================
