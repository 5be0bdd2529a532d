----------------------------- MODULE PackStatus -----------------------------
(***************************************************************************)
(* The status subresource of a Pack and the helpers of conditions.go that  *)
(* the reconciler edits it with.                                           *)
(*                                                                         *)
(* A status is a value: the helpers map a status to the next one.  The     *)
(* generation `gen` is the metadata.generation of the copy they edit.      *)
(* `now` stands for what differs between two passes that do the same: the  *)
(* second the clock shows, and the order a Go map is walked in.  Only      *)
(* equality matters (an update equal to what is stored is no update at     *)
(* all), so Instants has two members: whatever is stored, the next pass    *)
(* may repeat it or not.                                                   *)
(***************************************************************************)
EXTENDS Naturals

Instants == 0..1

ConditionTypes == {"Validated", "Progressing", "Ready", "Degraded"}

\* A condition that has never been set.
NoCondition == [status |-> "Absent", reason |-> "", gen |-> 0, since |-> 0]

ConditionStatuses == {"Absent", "True", "False"}

Reasons ==
    {"", "Reconciling", "Validated", "ValidationFailed", "ApplyFailed",
     "PipelineFailed", "Ready", "Blocked"}

Conditions ==
    [status: ConditionStatuses, reason: Reasons, gen: Nat, since: Instants]

Phases == {"", "Planning", "Applying", "Ready", "Degraded", "Blocked"}

Tools == {"prometheus", "grafana", "otel", "azure-pipeline"}

\* Ways to fail to trigger the pipeline.  The text differs, and with it the
\* status: two failures in a row need not be the same update.
PipelineErrors == {"credentials", "post", "returned"}

LastErrors == {"", "blocked", "core", "apply"} \cup PipelineErrors

\* One entry of status.tools per tool; a Go map iteration decides the order
\* of the list, and `order` tells two orders apart.
ToolReports ==
    [entries: SUBSET [tool: Tools, phase: {"Ready", "Degraded", "Applying"}],
     order: Instants]

NoTools == [entries |-> {}, order |-> 0]

NoRun == 0

\* The status of a Pack nobody has reconciled.  noHash is the empty string of
\* effectiveHash; the hashes themselves belong to the planner.
EmptyStatus(noHash) ==
    [phase      |-> "",
     obs        |-> 0,
     hash       |-> noHash,
     tools      |-> NoTools,
     conditions |-> [c \in ConditionTypes |-> NoCondition],
     lastError  |-> "",
     run        |-> NoRun]

Statuses(Hashes) ==
    [phase:      Phases,
     obs:        Nat,
     hash:       Hashes,
     tools:      ToolReports,
     conditions: [ConditionTypes -> Conditions],
     lastError:  LastErrors,
     run:        Nat]

-----------------------------------------------------------------------------
\* meta.SetStatusCondition: the transition time moves only when the status of
\* the condition changes.  Progressing is the one condition that can change and
\* change back within a pass, so its transition time is the only one that can
\* tell two otherwise equal statuses apart, and the only one kept.
setCondition(st, gen, now, type, status, reason) ==
    [st EXCEPT !.conditions[type] =
        [status |-> status,
         reason |-> reason,
         gen    |-> gen,
         since  |-> IF type = "Progressing" /\ @.status # status THEN now ELSE @.since]]

markProgressing(st, gen, now) ==
    setCondition(st, gen, now, "Progressing", "True", "Reconciling")

markValidated(st, gen, now) ==
    setCondition(st, gen, now, "Validated", "True", "Validated")

\* Defective variant: the Degraded condition of an earlier pass is left.
markReadyKeepsDegraded(st, gen, now) ==
    LET ready == setCondition(st, gen, now, "Ready", "True", "Ready")
    IN  setCondition(ready, gen, now, "Progressing", "False", "Ready")

markReady(st, gen, now) ==
    LET ready       == setCondition(st, gen, now, "Ready", "True", "Ready")
        progressing == setCondition(ready, gen, now, "Progressing", "False", "Ready")
    IN  setCondition(progressing, gen, now, "Degraded", "False", "Ready")

markDegraded(st, gen, now, reason) ==
    LET ready == setCondition(st, gen, now, "Ready", "False", reason)
    IN  setCondition(ready, gen, now, "Degraded", "True", reason)

markBlocked(st, gen, now) ==
    LET validated == setCondition(st, gen, now, "Validated", "False", "ValidationFailed")
        ready     == setCondition(validated, gen, now, "Ready", "False", "Blocked")
    IN  setCondition(ready, gen, now, "Progressing", "False", "Blocked")
=============================================================================
