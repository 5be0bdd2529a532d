# A verification project for the Observability Pack operator

The repository holds a Kubernetes operator that turns a *Pack* (a custom
resource that wraps an observability manifest) into objects of three tool
operators (Prometheus rules, Grafana dashboards, an OpenTelemetry collector) or,
on azure, into a run of a pipeline; and a linter for the manifests. This
directory holds TLA+ specifications of it, TLC configurations that check them,
and proofs that TLAPS checks.

## 1. The system

### Components

| Component | Source | State it keeps | Operations |
|---|---|---|---|
| Pack reconciler | `internal/operator/controller/pack_controller.go` | none between passes; within one the local `Pack` copy, the maps `counts` and `errs` | `Reconcile`, `applyObjects`, `triggerAzure`, `fail`, `ownerRef`, `SetupWithManager` |
| Conditions | `internal/operator/controller/conditions.go` | `status.conditions` | `setCondition`, `markReady`, `markDegraded`, `markBlocked`, `markProgressing`, `markValidated` |
| Pack API types | `api/v1alpha1/types.go` | the stored Pack: spec, generation, status | read, edit, conditional status update |
| Operator core | `internal/operator/operator.go` | none (pure) | `Reconcile`: parse, lint references, plan, render |
| Planner | `internal/operator/plan/plan.go` | none (pure) | `Build`, `hashPlan` |
| Renderers | `internal/operator/render/render.go` | none (pure) | `Prometheus`, `Grafana`, `OTel` |
| Azure request | `internal/operator/azure/azure.go` | none (pure) | `BuildRequest`, `Marshal` |
| HTTP pipeline trigger | `internal/operator/httptrigger/httptrigger.go` | none; reads a Secret | `Trigger`, `resolveCredentials` |
| Operator main | `cmd/operator/main.go` | the manager: cache, queue, lease | start, stop |
| Linter | `internal/lint/*.go` | a list of findings | `Refs`, `Conformance`, `Backends`, `Schema` |
| Pack document | `internal/pack/pack.go` | none | types and `Load` |
| CLIs | `cmd/packlint`, `cmd/packopctl` | none | lint or dry-run one file, exit code |

### How they interact

Users write Packs to the API server. The informer of controller-runtime keeps a
cache of them and queues a Pack at each event; one worker (the default
`MaxConcurrentReconciles`) takes it off the queue and calls `Reconcile`, which
reads the copy in the *cache*, runs the core, applies the rendered objects one
call at a time (server-side apply, fields forced) or posts the request to the
pipeline, and writes the status with an update conditional on the copy's
`resourceVersion`. The result asks for another pass after ten minutes (success),
one minute (failure) or never (blocked); an error makes the queue back off. The
status write is itself an event. Rendered objects are not watched; their owner
reference makes the garbage collector remove them after the Pack.

### What is hard

- *Stale reads*: the cache trails the store, and the spec may be edited or the
  Pack deleted between any two calls of a pass.
- *Partial failure*: any call may be refused, or be carried out and its reply
  lost; several objects are applied by several calls.
- *Crashes*: between any two calls; the queue, the timers and the local copy are
  lost, the objects and the pipeline run are not.
- *Lost wake-ups*: a blocked Pack sleeps until an event; a failed pass relies on
  a timer or on the error it returns.
- *Status accumulation*: conditions, tools, hash and run outlive the pass that
  set them and must not contradict the ones that later passes set.
- *Self-triggering*: the operator's own status write is an event.
- *Sharing*: object names come from the manifest, not from the Pack.
- *Failover*: a leader that has lost its lease works on beside the new one, whose
  own cache may trail; only the status update is conditional.
- *Rotation*: the credentials of the pipeline change while a request is made.
- *Several verdicts in one*: `packlint` folds four passes over several files into
  one exit code.

### What makes each component correct

- Reconciler: what it reports is true and about the current spec; it never
  forgets unfinished work; it converges; it never goes back.
- Conditions: those of the observed generation agree with each other and with
  the phase.
- Core, planner, renderers: equal hashes mean equal objects; distinct Packs own
  distinct objects; a manifest that lints clean renders what it refers to.
- HTTP trigger: a run is reported only for an accepted request, with the
  credentials of the Pack that asked.
- Linter: a clean verdict means that references resolve and tiers are reached; the
  exit code is the verdict on every file.
- Processes together: to a reader of the status they are one reconciler.

## 2. The plan and where it stands

1. **Core**: `PackStatus`, `PackOperator`, `PackPromise`, `PackController`, their
   instances, the inductive invariant and its proofs. Done; `PackHistoryProofs` adds
   what the parts of a status that outlive a pass are worth (hash, tools and run) and
   that passes keep the cluster's content in order, `PackConditionsProofs` that a
   status does not contradict itself.
2. **`PackTenancy`**: several Packs in one namespace sharing objects by name,
   force-ownership, deletion, recreation and garbage collection. Done, with proofs.
3. **`PackManifest`**: the reference lint, the planner and the hash over concrete
   small manifests. Done, with proofs of all its properties.
4. **`PackLint`**: backends, versions, the tiers, and `packlint` over a list of
   files. Done, with proofs.
5. **`HttpTrigger`**: credentials, rotation and answers of a pipeline call. Done,
   with proofs of its safety and of its refinement of `TriggerPromise`.
6. **`PackFailover`**: several processes and one lease. Done, with proofs of its
   safety and of its refinement of `PackPromise`.
7. Left: that `PackController` with its steps hidden implements one `Pass` of
   `PackTenancy`.

## 3. The modules

| Module | Models |
|---|---|
| `PackStatus` | the status subresource and `conditions.go`; a helper maps a status to the next one |
| `PackOperator` | the pure core: `Verdict`, `Rendered`, `PlanHash` of a spec |
| `PackPromise` | abstract: each report is a verdict on the spec current when it is published |
| `PackController` | API server, informer, queue, the pass, pipeline, garbage collector, users, faults |
| `PackInvariant` | the inductive invariants, in named parts |
| `PackControllerProofs`, `PackHistoryProofs`, `PackConditionsProofs` | lemmas and theorems |
| `PackFailover`, `PackFailoverProofs` | several processes, each with its cache, queue and pass; the lease; late leaders |
| `PackTenancy`, `PackTenancyProofs` | several Packs, each pass one step: object names, owners, UIDs, the collector |
| `PackManifest`, `PackManifestProofs` | `lint.Refs`, the planner's rules, `hashPlan`, the rendered group, edits of a manifest |
| `LintRules` | the rules of `lint.Schema`, `lint.Backends` and `lint.Conformance` on one manifest (pure) |
| `PackLint`, `PackLintProofs` | `packlint` over the files of its command line |
| `TriggerPromise` | abstract: a call begins one run at most, names none it has not begun, and ends |
| `HttpTrigger`, `HttpTriggerProofs` | `httptrigger`: the secret through the cache, the request, the answer |
| `PackClaims` | what comments and documents say of the reconciler and the code does not do |
| `MC...` | the sets of specs, manifests and names of the runs |

Definitions whose comment begins with "Defective variant" are not the code's:
each is the code with one plausible mistake, and a property is broken by it.

### State and code

| Variable | In the system |
|---|---|
| `specs`, `exists`, `status` | the Pack in the API server; `metadata.generation` is `Len(specs)` |
| `cache` | the informer's copy; generation 0 when it holds none |
| `queued`, `timer` | an entry of the workqueue; a delayed one (`RequeueAfter`, back-off) |
| `fresh`, `current` | whether the cache, and the copy of the pass, have the stored `resourceVersion` |
| `pc`, `p`, `todo`, `applied`, `failed` | where `Reconcile` is, its local `Pack`, what the loop of `applyObjects` has left, the keys of `counts` and `errs` |
| `live`, `pipeline`, `runs` | which plan each object, and the last run, was made from; how many runs |
| `posts` | history: the plan each run was made from |
| `faults` | how many faults have happened (a bound) |

A pass is `ReconcileInvalid`, `ReconcileBlocked`, `ReconcileKubernetes` or
`ReconcileAzure` (from `Get` to the first call that leaves the process), then one
`Apply...` step per object and `FinishApply`, or one `Trigger...` step, then one
`Update...` step with the `Result` the code returns. Between these steps every
other actor may move. A pass that the core refuses goes straight to its update.

`PackFailover` has the same pass for each of several `Operators`, with `pc`, `cache`,
`queued` and so on as functions of the process, and the status reduced to the
generation and outcome that `PackPromise` speaks of. A process is `"down"`, or a
`"standby"` whose cache is filled and kept up to date, or works after `Elected`.
Nothing in `Reconcile` looks at the lease, so a worker whose `lease` is gone goes on
until `Resign` (`mgr.Start` returns, `main` exits). Electing over a working holder is
a fault, as are a refused apply and a crash.

`PackTenancy` takes a pass as one step, which is what one worker makes of it for
the *other* Packs: `pack` and `cache` are the store and the informer per name,
`live` has the owner reference of each object, `Report` is the conditional status
update, `PassFails` a pass that applies some of its objects. `PackManifest` takes
the manifest apart that the others keep whole: `manifest` is the Pack's,
`applied` the rendered group and its label. Names are sequences of words,
references a kind and an ID, durations sequences of characters, each with what
`sanitize` does to it (keeps it, lower-cases it, strips it): as much of the strings as
decides whether two of them are equal. A receiver or processor is its name and a
number for its configuration; the renderer makes maps of the lists (`LastByName`),
the hash takes them as they come. What the two nested loops append
and what a stable sort leaves of a list are defined by counting: the k-th alert is
the one at the place that k places do not come after, and a sorted list is, for each
name, the elements of that name in their order.

`LintRules` has one operator per function of `internal/lint`, on a record with the
fields the rules look at; findings are kept by severity, pass and what they are
about. A version is the sequence of numbers between its dots, a duration its number
and unit. `PackLint` has one action per way an iteration of the loop in `main` can
end; the files are whatever their authors have in them when they are read.

`HttpTrigger` has `secrets` (stored) and `cached` (what the manager's client
answers), the local `url` and `token` of a pass, and two history variables, `stored`
and `started`. A token is the number of the write that brought it; the answer is the
set of fields it has. `RunStarts` and `Answered` are apart: in between the answer
can be lost (`AnswerLost`).

### Abstractions

- A watch delivers the latest Pack at once: intermediate events only set the same
  dirty bit. A status update equal to what is stored is no write and no event.
- `resourceVersion` is compared only for equality, so the two flags stand for it.
- Transition times: only that of `Progressing` is kept, the one condition that
  changes twice in a pass. `Instants` has two values: the next pass may fall in
  the same second and list tools in the same order, or not.
- Content of an object is the hash of its plan. Two manifests that differ in the
  order of their rules only have one hash and count as one content.
- `Rejected` holds objects the API server never accepts: those of a tool operator
  that is not installed, or single ones, as a dashboard whose ID makes no valid
  name.
- The CRD's enum excludes other targets, so the `default` branches of the two
  switches are not reached.
- `PackController` has the pipeline at `AzureTrigger`: accepted, refused, or
  accepted with the reply lost. `HttpTrigger` is what is behind that interface,
  `TriggerPromise` what the two agree on, but for one case: an answer below 300 of
  something that is not the pipeline (`AnsweredByPage`) is taken for an accepted
  request, and no run has begun. What `PackController` says of azure presumes a
  pipeline that does not answer so.
- A restarted informer lists the latest Pack (`Start`). One that is served by an API
  server that lags behind may go back in time; the defective variant `StartBehind`
  shows what `ContentNeverGoesBack` then loses.
- A deferred update conflict wakes nobody by itself: the event of the write it lost
  to is still to be delivered. `PackFailover` and `PackController` have both wake-ups.

## 4. Runs

Bounds: `MaxGenerations` specs in a Pack's life, `MaxRuns` runs (a quota: the
pipeline refuses beyond it), `MaxFaults` faults, drifts, metadata edits and
crashes together, `MaxWrites` changes of secrets, `MaxFiles` files. Deadlock is not
checked where the system may rest: a deleted or a blocked Pack does, and `packlint`
exits.

| Run | Question | Bounds |
|---|---|---|
| `verdicts` | do the conditions agree; are hash, tools, Ready and the recorded run those of what was applied or posted; is each published report a verdict on the current spec; does the status or what is applied ever go back, for Packs of every outcome? | 5 specs (2 on azure), 2 generations, 2 runs, 1 fault |
| `settles` | (fair) does everything settle on the last spec, though a dashboard is always rejected, and does a deleted Pack, with a dashboard left over from an earlier spec or applied late, leave anything; is Ready truthful with one of two dashboards missing, is work ever lost; is the invariant of the proofs one? | 3 specs, 4 objects (1 rejected), 2 generations, 1 fault |
| `failover` | (fair) can a late leader and a new one between them lose work, publish an outdated verdict, or leave an older spec applied? | 2 processes, 3 specs, 2 generations, 2 faults |
| `tenancy` | (fair) can Packs with names apart disturb each other, and can a recreated Pack lose its objects to the collector? | 2 Packs, 3 creations, 1 edit, 1 failed pass |
| `manifest` | do alerts rest on declared SLOs, can drift hide behind a label, does a change of order make a new one, does the linter warn of just the names that no alert goes by in its spelling? | 153 manifests, any sequence of edits |
| `packlint` | is exit code 0 a verdict on every file, does the tier reached agree with the findings, are versions compared as numbers? | 2 files, some 180 manifests |
| `trigger` | (fair) can a request mix two versions of a secret, can a run be named that was not started, does each call keep the promise the controller relies on, are good credentials enough? | 2 secrets, 4 changes |

Two generations are enough for a pass to be overtaken while its copy is stale; one
fault for a call to be refused, repeated or lost at any step of a pass and at any
place between edits (the rejected dashboard fails besides, in every pass); two of
them for a lost lease followed by a refused apply; two runs for one to be repeated
after a lost reply, or followed by that of another spec; three creations for a Pack
to be recreated while the other one exists; two processes for a late leader and its
successor (a third would only be a second standby); two files for one to hide the
other; four changes for a rotation followed by a revocation of the new token and a
second rotation. The manifests of `packlint` each break one rule of the lint, from
manifests that break none at each criticality.

### Fairness

`Start`, `Deliver`, `TimerFires` and the worker (`Reconcile`) are weakly fair: the
manager is restarted by its Deployment, informers and timers run, and the one
worker takes what is queued and finishes what it has begun. So is the garbage
collector, per object. Users and faults owe nothing, and faults are bounded: the
operator retries for ever, but promises nothing while every call fails.
In `PackTenancy` the same is weak fairness of `Deliver`, `Pass` and `Collect`: a
Pack in the cache has a pass again by its resync, its retry or an event.
In `PackFailover` each of these is weakly fair per process, with `Elected` (the lease
of a dead holder expires) and `Resign` (a leader notices that it has lost it).
In `HttpTrigger` faults are not bounded, so `resolveCredentials`, `RunStarts` and an
answer are strongly fair: the API server and the pipeline may fail any number of
times, but not for ever. That is an assumption about them, not something this code
provides; the repeated passes (`Begin`) are the controller's retry and resync.

### What the code does otherwise

Each of these runs ends in a violation; `PROJECT.json` quotes the line.

| Run | Said | Done |
|---|---|---|
| `claim_rerun` | resync is periodic (`pack_controller.go:169`) | on azure the status write is an event that triggers the pipeline again, at once |
| `claim_namespace` | objects land in `spec.namespace` (`types.go:72`) | with an owner in another namespace, and are collected |
| `claim_isolation` | one pack cannot delete another's dashboards (`docs/operator-design.md:236`) | object names join the manifest's name and the dashboard's ID: two Packs may share an object, which goes with the one that applied it last |
| `claim_alertname` | the linter names burn-rate alerts as the renderer does (`refs.go:141`) | it strips `slos.` and what is not a letter or digit, the planner (`plan.go:171`) does not: a remediation the linter accepts may wait for an alert that does not exist |
| `claim_credentials` | the secret is in the Pack's namespace (`types.go:98`, `httptrigger.go:32`) | `main` leaves the trigger's namespace empty: no secret is ever found |

The run `trigger` therefore checks the trigger with the namespace set as
`httptrigger.go:32` intends; `claim_credentials` is the same model as `main` builds it.

Divergences of the same kind without a run:

- Conditions are stamped idempotently (`conditions.go:50`), but each pass sets
  `Progressing` and resets it; Degraded means a tool failed (`conditions.go:30`), but
  also a manifest that cannot be planned; later stages are skipped after a failure
  (`docs/operator-design.md:228`), but later objects are applied.
- The full hash is in `status.effectiveHash` (`render.go:172-174`): not that of the
  objects a half-failed pass has labelled.
- `azurePipelineRun` is the most recent run (`types.go:124`): not after a conflict,
  a crash or a lost reply, when a run has begun that no status will ever name. The
  next pass then starts another, of the same spec: the request has nothing to tell a
  repetition by. Neither is a violated property here; `RunOfOnePass` says what is
  left: the run that is named was posted, for a spec no later than the observed one,
  and goes with the hash for as long as the pipeline is the tool reported on.
- The hash is "stable" (`plan.go:259`), but a change in the order of receivers or
  processors changes it, though they are rendered as maps: a new label on the same
  content.
- A numeric run ID is decoded as a float and printed with `fmt.Sprint`
  (`httptrigger.go:83`), in exponent form from a million on. A secret without a
  `token` is used without one.
- `packlint` exits with 1, not with 2 (`main.go:12`), when a file does not load.
- Exit code 0 stands for every MUST clause (`main.go:10`) of the rubric in
  `docs/maturity-model.md`, but some are scored as less, or as something else, than
  it says. Of the conformance checks it lists, these differ: 3.3 always passes
  (`conformance.go:133-140`), where the rubric (line 44) wants no storage block or
  the platform's default; 2.5 looks at every burn-rate alert and wants one
  (292-312), the rubric (line 64) at those of availability SLOs; 2.8 takes any
  `steady_state_hypothesis` (339-353), the rubric (line 67) one that refers to an
  SLO; 1.5 any forecast (437-442), the rubric (line 81) one for an availability SLO;
  1.1 counts types of SLIs only (360-372), where the rubric (line 75) also takes
  SLIs tagged with a domain. `LintRules` has the clauses as they are scored.
  Findings "at tiers above the target" (`conformance.go:34-35`) are never produced:
  those tiers are not scored. A criticality that is none of the three is scored as
  tier 3.
- `isDurationLEMinute` accepts `90000ms` and `1h500ms` as at most a minute.

## 5. Proofs

Each theorem is for all values of the constants, under the named assumptions of its
module: bounds are naturals, specs, manifests and rejected objects have their record
type, no secret or URL has the empty name.

### The reconciler

| Theorem | Property |
|---|---|
| `TypeCorrect` | `TypeOK` |
| `Invariance` | `IInv`, the inductive invariant |
| `ReadyIsTruthful` | `ReadyMeansApplied` |
| `WorkIsNeverLost` | `NeverAsleep` |
| `StatusMovesForward` | `StatusNeverRegresses` |
| `KeepsThePromise` | `PromiseSafe`: the reconciler implements `PackPromise` |
| `HashIsTruthful` | `HashWasApplied` |
| `ToolsAreOfOnePass` | `ToolsOfOnePass` |
| `RunIsTruthful` | `RunOfOnePass` |
| `ConditionsAreConsistent` | `ConditionsAgree` |
| `ToolReportsAreTruthful` | `ToolReportsAreTrue` |
| `ContentMovesForward` | `ContentNeverGoesBack` |
| `HashesTellObjects` | specs with one hash and namespace render the same objects |

The first six follow from one invariant, `IInv` of `PackInvariant`. None of the
properties is inductive alone. The argument:

1. *Versions are ordered* (`VersionsOrdered`): status ≤ copy ≤ cache ≤ store. With
   *what the flags mean* (`VersionsCompared`), a pass whose update is accepted has
   worked on the current generation: nobody overtook it.
2. *Runs are ordered* (`RunsOrdered`): a copy that may be written knows the last
   recorded run.
3. *A pass fits its spec* (`PassFitsSpec`): the phase it is about to write is one the
   core's verdict allows. With 1 this gives the refinement.
4. *The loop has dealt with what it has passed* (`AppliedSoFar`), so *what is written
   is true* (`WritesTruth`), so *what is stored is true* (`ReportsTruth`): the steps of
   other actors only replace content by drift or by content of a generation at
   least as new (`LiveSteps`, `AppliedKept`).
5. `NeverAsleep` needs 1 for the blocked case: the verdict is on the latest spec.

Each conjunct has a lemma `...Step` with one case per action. The lemmas of
`conditions.go` in `PackControllerProofs` say what each helper of `conditions.go`
sets and leaves.

Hash and tools outlive the passes that leave them alone, through any number of
failed and blocked ones, crashes and stale copies. `History` says of *every* copy of
the status (stored, cached, in a pass) where its hash and its tools come from
(`HashFrom`, `ToolsFrom`); `KindsSoFar` says that the loop has an entry for exactly
the kinds it has dealt with, `CopiesOrdered` that no copy has anything later than
its own generation. `IInv /\ History` is inductive. The recorded run outlives passes
in the same way: `RunsRecorded` numbers the runs as they were posted and says of
every copy that it names one it may name (`RunFrom`); with the order of runs in
`IInv` a run that is posted and never recorded cannot be taken for the one that is.
`IInv /\ History /\ RunsRecorded` is inductive.

Applies are unconditional, so nothing in the API server keeps them in order; passes do.
`ContentOrdered` says of every object, and of the latest run, that a generation it
was made from is no later than the pass's and the cache's. It is kept because a pass
takes the cached generation and the cache is only ever filled with the latest
(`ReachedKept`), also after a restart; with `VersionsOrdered` a pass then never
works on an older generation than what it overwrites, or than the status reports
on. `IInv /\ ContentOrdered` is inductive. One spec may return in a later generation,
so "older" is said of all generations the content may be from (`Supersedes`).

What one status says at one time (`Testimony`) rests on two facts about its older
parts. No condition is later than the copy it is in (`Stamps`), and a pass overwrites
those of its own generation that it would contradict but one: a blocked pass leaves
Degraded. `Stamps` therefore adds that Degraded was never set for a blocked
generation: a generation has one verdict. The validation precedes the
adapters (`Stories`), so a Ready status is a validated one. `IInv /\ History /\
Testimony` is inductive.

### Several processes

| Theorem | Property |
|---|---|
| `FailoverTypeCorrect` | `TypeOK` |
| `NobodySleeps` | `NobodySleepsOnWork` |
| `OneVoice` | the safety of `PromiseKept`: any number of processes implement `PackPromise` |

The invariant `FInv` relates the flags of each process to the store
(`VersionsCompared`) and its pass to the spec it works on (`PassesFit`). A write makes
every other cache and copy outdated, so a second writer conflicts or has read the
first one's status. That a late leader's *objects* are put right again is liveness
(`FailoverConverges`) and only model-checked. `ReadyMeansApplied` does not hold of
several processes, and is not claimed: a late leader's unconditional apply may undo
what its successor has just reported Ready, until the resync.

### Several Packs

| Theorem | Property |
|---|---|
| `ReadyIsOwned` | `NamesApart` implies `ReadyIsSafe` |
| `PacksOwnTheirObjects` | `NamesApart` implies `ObjectsKeepTheirOwner` |

`NamesApart` is needed: `claim_isolation` shows what happens without it. Two lemmas
on sequences say that joined names are equal only if one begins like the other;
hence Packs apart own disjoint sets of objects (`ObjectsApart`). The invariant
`TenancyInv` adds that an object's owner renders it, and that the cache cannot be
behind a Pack that has been Ready (`ReadyIsCached`): passes still to come on an
earlier Pack of the name are ruled out, for the status update that made it Ready
was conditional on the cached copy.

### From the manifest to the rules

| Theorem | Property |
|---|---|
| `AlertsRestOnSLOs` | `AlertsAreGrounded` |
| `DriftNeverHides` | `DriftIsSeen` |
| `OrderNeverCounts` | `OrderIsNoDrift` |
| `WarningsAreRight` | `WarnedIffMissing` |

The invariant `MInv` is short: what is applied is what a manifest without errors
renders, and its hash. The work is in the lemmas about lists. If subsets of a finite
set, one for each element and with it, grow from one to the next, their sizes number
its elements (`CountedOnce`); so each window of each alert has its place in the
planned list (`PlannedAlerts`) and each element of a name its place in the sorted
one (`NamedOnce`). Hence a list can be read back from its sorted form up to order,
each element as often as it occurs (`SortedAlike`), and rules and alerts are counted
apart in the group that holds both (`CountsOfGroup`), which gives `DriftNeverHides`,
for lists with repeated names too. Where no name is repeated the sorted form depends
on the set of elements alone (`ElementsTellSorted`), which is `OrderNeverCounts`.
The hypothesis of unrepeated names is needed: two rules of one name that change
places do change the hash. `AlertsRestOnSLOs` follows from `RefsResolve`: a manifest
without errors has no reference that `checkRef` reports. `WarningsAreRight` says
that the names the linter knows (`KnownNames`) are those of the rendered alerts,
respelled as `burnAlertName` spells them: what it collects in two nested loops is
what the planner renders in its own. That the respelling itself changes names is not
excluded by any hypothesis; `claim_alertname` shows what it costs.

`SortedByName` keeps equal names in order, which `sort.Slice` does for up to twelve
elements only (insertion sort); beyond that it is some order, and `DriftIsSeen` still
holds of it, as any order of the same elements has the same elements.

### The linter and the trigger

| Theorem | Property |
|---|---|
| `LintTypeCorrect` | `TypeOK` of `PackLint` |
| `ExitIsTruthful` | `ExitTellsTheTruth` |
| `ReachIsConsistent` | `ReachMatchesFindings` |
| `TiersNest` | `TiersAreCumulative` |
| `GatingIsNumeric` | `GatingDecides` |
| `TriggerTypeCorrect` | `TypeOK` of `HttpTrigger` |
| `CredentialsBelongTogether` | `CredentialsPaired` |
| `ReportedRunsAreReal` | `NamedRunsAreReal` |
| `CallsArePromised` | the safety of `PromiseKept`: a call implements `TriggerPromise` |

For the linter, lemmas say which manifests each pass has errors for; together they
say that the findings of a manifest hold an error exactly when it is not
`Acceptable`. That is stated as what backends, references and the clauses as they
are scored demand (`Sound`, `PassesClauses`), without findings, severities or ranks
of tiers; it is not the rubric of `docs/maturity-model.md`, from which the scored
clauses differ (section 4). The invariant then counts the results against `anyErr`.
`GatingIsNumeric` compares the order of versions with that of numbers whose digits
are their components, in a base above all of them; no bound on components is
assumed. For the trigger the invariant adds that whatever is in the cache was once
stored, and that a pass has begun a run from the moment the request is accepted and
knows of none before it is answered.

### Only model-checked

Liveness (`StatusCatchesUp`, `Converges`, `DeletedPackCollected`, both `PromiseKept` as
far as they promise that something happens, `TenantsSettle`, `FailoverConverges`,
`GoodCredentialsSuffice`) rests on fairness and so on ENABLED, which is beyond the
prover. Induction over data is too: the theorems on lists are by counting, not
by recursion. Every safety property of a passing run is proved.

## 6. Not modelled

Real time (one and ten minutes are "later"); flags and health probes of the operator;
events and logs; the payload of objects and requests other than rules, attributes,
receivers and processors; which
documents the JSON-schema library refuses, the criticality apart; how YAML is
decoded; `packopctl`, which prints what one call of the core returns. A Pack that is
deleted and created again under its name is modelled in `PackTenancy`, not in
`PackController`. `PackFailover` leaves out deletion, azure, status updates that fail or
whose reply is lost, applies whose reply is lost, and drift: one process meets
those in `PackController`.
`PROJECT.json` lists each part with the reason, and the hazards no property
covers yet.
