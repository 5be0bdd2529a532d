---------------------------- MODULE PackFailover ----------------------------
(***************************************************************************)
(* Several processes of the operator and one lease.  A standby has its own *)
(* cache and works once it is elected; a leader that has lost the lease    *)
(* works on until it notices and exits.  Nothing that Reconcile does looks *)
(* at the lease: applies are unconditional, and only the status update is  *)
(* conditional on the resourceVersion.                                     *)
(*                                                                         *)
(* The pass itself is PackController's for Kubernetes targets, with the    *)
(* status reduced to what PackPromise reports of it.                       *)
(***************************************************************************)
EXTENDS PackOperator

CONSTANTS
    Operators,       \* the processes
    None,            \* no process
    FirstSpecs,      \* what the Pack is created with
    MaxGenerations,  \* bound: how many specs the Pack may have
    MaxFaults        \* bound: refused calls, crashes and lost leases

ASSUME FailoverAssumption ==
    /\ None \notin Operators
    /\ FirstSpecs \subseteq Specs
    /\ MaxGenerations \in Nat \ {0}
    /\ MaxFaults \in Nat

ASSUME FailoverSpecsAssumption ==
    Specs \subseteq
        [target: Targets, namespace: STRING, pipeline: BOOLEAN,
         manifest: [parses: BOOLEAN, refsOK: BOOLEAN, name: STRING,
                    dashboards: Seq(STRING), body: Nat]]

VARIABLES
    specs,    \* every spec the Pack has had
    report,   \* its status: the generation reported on and the outcome
    live,     \* which plan each object was last applied from
    lease,    \* the holder of the leader-election lock
    faults,
    \* Of each process.
    pc,       \* "down", "standby", "idle", "applying" or "writing"
    cache,    \* the generation its informer has
    fresh,    \* its informer has seen the latest resourceVersion
    queued,
    timer,
    copy,     \* the generation its pass works on
    current,  \* the copy has the latest resourceVersion
    todo,     \* rendered objects not dealt with yet
    failed    \* some apply of this pass has failed

store == <<specs, report>>
queue == <<queued, timer>>
pass == <<copy, current, todo, failed>>
vars == <<store, live, lease, faults, pc, cache, fresh, queue, pass>>

generation == Len(specs)
Objects == UNION {RenderedObjects(s) : s \in Specs}

None0 == [o \in Operators |-> 0]
Nowhere == [o \in Operators |-> FALSE]

Init ==
    /\ \E s \in FirstSpecs : specs = <<s>>
    /\ report = [gen |-> 0, outcome |-> "none"]
    /\ live = [x \in Objects |-> NoHash]
    /\ lease = None
    /\ faults = 0
    /\ pc = [o \in Operators |-> "down"]
    /\ cache = None0 /\ copy = None0
    /\ fresh = Nowhere /\ queued = Nowhere /\ timer = Nowhere
    /\ current = Nowhere /\ failed = Nowhere
    /\ todo = [o \in Operators |-> <<>>]

Fault == faults < MaxFaults /\ faults' = faults + 1

Working(o) == pc[o] \in {"idle", "applying", "writing"}

\* A new resourceVersion: every cache and every copy is behind it.
NewVersion == fresh' = Nowhere /\ current' = Nowhere

Edit(s) ==
    /\ generation < MaxGenerations
    /\ s # specs[generation]
    /\ specs' = Append(specs, s)
    /\ NewVersion
    /\ UNCHANGED <<report, live, lease, faults, pc, cache, queue, copy, todo, failed>>

-----------------------------------------------------------------------------
(* The manager of each process. *)

\* Defective variant: workers do not wait for the cache.
StartUnsynced(o) ==
    /\ pc[o] = "down"
    /\ pc' = [pc EXCEPT ![o] = "standby"]
    /\ UNCHANGED <<store, live, lease, faults, cache, fresh, queue, pass>>

\* The caches are filled before the election.
Start(o) ==
    /\ pc[o] = "down"
    /\ pc' = [pc EXCEPT ![o] = "standby"]
    /\ cache' = [cache EXCEPT ![o] = generation]
    /\ fresh' = [fresh EXCEPT ![o] = TRUE]
    /\ UNCHANGED <<store, live, lease, faults, queue, pass>>

\* The lease is free or its holder is dead or, a fault, too slow to renew it.
\* The controller starts with every Pack in the cache queued.
Elected(o) ==
    /\ pc[o] = "standby"
    /\ \/ lease = None /\ UNCHANGED faults
       \/ lease # None /\ lease # o /\ ~Working(lease) /\ UNCHANGED faults
       \/ lease # None /\ lease # o /\ Working(lease) /\ Fault
    /\ lease' = o
    /\ pc' = [pc EXCEPT ![o] = "idle"]
    /\ queued' = [queued EXCEPT ![o] = TRUE]
    /\ UNCHANGED <<store, live, cache, fresh, timer, pass>>

\* Nothing of a process outlives it but its hold on the lease.
Exit(o) ==
    /\ pc' = [pc EXCEPT ![o] = "down"]
    /\ cache' = [cache EXCEPT ![o] = 0] /\ fresh' = [fresh EXCEPT ![o] = FALSE]
    /\ queued' = [queued EXCEPT ![o] = FALSE] /\ timer' = [timer EXCEPT ![o] = FALSE]
    /\ copy' = [copy EXCEPT ![o] = 0] /\ current' = [current EXCEPT ![o] = FALSE]
    /\ todo' = [todo EXCEPT ![o] = <<>>] /\ failed' = [failed EXCEPT ![o] = FALSE]
    /\ lease' = IF lease = o THEN None ELSE lease
    /\ UNCHANGED <<store, live>>

Crash(o) == pc[o] # "down" /\ Fault /\ Exit(o)

\* "leader election lost": Start returns an error, and main exits.
Resign(o) == Working(o) /\ lease # o /\ Exit(o) /\ UNCHANGED faults

Deliver(o) ==
    /\ pc[o] # "down"
    /\ ~fresh[o]
    /\ cache' = [cache EXCEPT ![o] = generation]
    /\ fresh' = [fresh EXCEPT ![o] = TRUE]
    /\ queued' = [queued EXCEPT ![o] = Working(o)]
    /\ UNCHANGED <<store, live, lease, faults, pc, timer, pass>>

TimerFires(o) ==
    /\ timer[o]
    /\ timer' = [timer EXCEPT ![o] = FALSE]
    /\ queued' = [queued EXCEPT ![o] = TRUE]
    /\ UNCHANGED <<store, live, lease, faults, pc, cache, fresh, pass>>

-----------------------------------------------------------------------------
(* A pass of Reconcile. *)

Begin(o) ==
    /\ pc[o] = "idle"
    /\ queued[o]
    /\ queued' = [queued EXCEPT ![o] = FALSE]
    /\ copy' = [copy EXCEPT ![o] = cache[o]]
    /\ current' = [current EXCEPT ![o] = fresh[o]]
    /\ LET s == specs[cache[o]] IN
           IF Verdict(s) = "ok"
           THEN /\ pc' = [pc EXCEPT ![o] = "applying"]
                /\ todo' = [todo EXCEPT ![o] = Rendered(s)]
           ELSE /\ pc' = [pc EXCEPT ![o] = "writing"]
                /\ UNCHANGED todo
    /\ UNCHANGED <<store, live, lease, faults, cache, fresh, timer, failed>>

NextObject(o) ==
    /\ pc[o] = "applying"
    /\ todo[o] # <<>>
    /\ todo' = [todo EXCEPT ![o] = Tail(@)]
    /\ UNCHANGED <<store, lease, pc, cache, fresh, queue, copy, current>>

ApplyAccepted(o) ==
    /\ NextObject(o)
    /\ live' = [live EXCEPT ![Head(todo[o])] = PlanHash(specs[copy[o]])]
    /\ UNCHANGED <<failed, faults>>

ApplyRefused(o) ==
    /\ NextObject(o)
    /\ Fault
    /\ failed' = [failed EXCEPT ![o] = TRUE]
    /\ UNCHANGED live

FinishApply(o) ==
    /\ pc[o] = "applying"
    /\ todo[o] = <<>>
    /\ pc' = [pc EXCEPT ![o] = "writing"]
    /\ UNCHANGED <<store, live, lease, faults, cache, fresh, queue, pass>>

Outcome(o) ==
    CASE Verdict(specs[copy[o]]) = "blocked" -> "blocked"
      [] Verdict(specs[copy[o]]) = "error"   -> "degraded"
      [] Verdict(specs[copy[o]]) = "ok"      -> IF failed[o] THEN "degraded" ELSE "ready"

Done(o) ==
    /\ pc' = [pc EXCEPT ![o] = "idle"]
    /\ copy' = [copy EXCEPT ![o] = 0]
    /\ failed' = [failed EXCEPT ![o] = FALSE]
    /\ UNCHANGED <<specs, live, lease, faults, cache, queued, todo>>

\* The write may change conditions and times that are not in the report; one
\* that changes nothing makes no resourceVersion.
Write(o) ==
    /\ report' = [gen |-> copy[o], outcome |-> Outcome(o)]
    /\ \/ NewVersion
       \/ /\ report' = report
          /\ current' = [current EXCEPT ![o] = FALSE]
          /\ UNCHANGED fresh

\* Defective variant: the update is a patch that carries no resourceVersion.
UpdateUnconditional(o) ==
    /\ pc[o] = "writing"
    /\ Write(o)
    /\ timer' = [timer EXCEPT ![o] = @ \/ Outcome(o) # "blocked"]
    /\ Done(o)

\* Defective variant: a Ready Pack is not called again.
UpdateWithoutResync(o) ==
    /\ pc[o] = "writing"
    /\ current[o]
    /\ Write(o)
    /\ timer' = [timer EXCEPT ![o] = @ \/ Outcome(o) = "degraded"]
    /\ Done(o)

\* Defective variant: a failed Pack waits for its next edit.
FailureNotRetried(o) ==
    /\ pc[o] = "writing"
    /\ current[o]
    /\ Write(o)
    /\ timer' = [timer EXCEPT ![o] = @ \/ Outcome(o) = "ready"]
    /\ Done(o)

UpdateAccepted(o) ==
    /\ pc[o] = "writing"
    /\ current[o]
    /\ Write(o)
    /\ timer' = [timer EXCEPT ![o] = @ \/ Outcome(o) # "blocked"]
    /\ Done(o)

UpdateConflicts(o) ==
    /\ pc[o] = "writing"
    /\ ~current[o]
    /\ timer' = [timer EXCEPT ![o] = TRUE]
    /\ Done(o)
    /\ UNCHANGED <<report, fresh, current>>

Reconcile(o) ==
    \/ Begin(o) \/ ApplyAccepted(o) \/ ApplyRefused(o) \/ FinishApply(o)
    \/ UpdateAccepted(o) \/ UpdateConflicts(o)

Runtime(o) == Start(o) \/ Elected(o) \/ Resign(o) \/ Deliver(o) \/ TimerFires(o)

Next ==
    \/ \E s \in Specs : Edit(s)
    \/ \E o \in Operators : Crash(o) \/ Runtime(o) \/ Reconcile(o)

Spec == Init /\ [][Next]_vars

\* Each process goes on with what it is at, and the lease finds a holder.
Fairness ==
    \A o \in Operators :
        /\ WF_vars(Start(o)) /\ WF_vars(Elected(o)) /\ WF_vars(Resign(o))
        /\ WF_vars(Deliver(o)) /\ WF_vars(TimerFires(o)) /\ WF_vars(Reconcile(o))

FairSpec == Spec /\ Fairness

-----------------------------------------------------------------------------
(***************************************************************************)
(* Properties.                                                             *)
(***************************************************************************)

Outcomes == {"none", "ready", "degraded", "blocked"}

\* Every variable has its type, and a process that runs has a cache.
TypeOK ==
    /\ specs \in Seq(Specs) /\ specs # <<>>
    /\ report \in [gen: 0..generation, outcome: Outcomes]
    /\ live \in [Objects -> PlanHashes \cup {NoHash}]
    /\ lease \in Operators \cup {None}
    /\ faults \in 0..MaxFaults
    /\ pc \in [Operators -> {"down", "standby", "idle", "applying", "writing"}]
    /\ cache \in [Operators -> 0..generation]
    /\ \A o \in Operators : cache[o] = 0 <=> pc[o] = "down"
    /\ fresh \in [Operators -> BOOLEAN]
    /\ queued \in [Operators -> BOOLEAN]
    /\ timer \in [Operators -> BOOLEAN]
    /\ copy \in [Operators -> 0..generation]
    /\ current \in [Operators -> BOOLEAN]
    /\ todo \in [Operators -> Seq(Objects)]
    /\ failed \in [Operators -> BOOLEAN]

\* A worker that nothing will wake sleeps on a Pack that is blocked on its
\* latest spec, also when another worker has reported it or got in its way.
NobodySleepsOnWork ==
    \A o \in Operators :
        pc[o] = "idle" /\ ~queued[o] /\ ~timer[o] /\ fresh[o] =>
            report = [gen |-> generation, outcome |-> "blocked"]

\* To whoever reads the status, several workers are like one: every report is a
\* verdict on the spec current at that instant, and a spec that stays gets one
\* (the conditional status update, main.go:51).
Promise == INSTANCE PackPromise WITH exists <- TRUE

PromiseKept == Promise!FairSpec

\* What a late leader, or a new one with an old cache, has put back to an older
\* spec is put right: applies are not conditional, but a Ready Pack is called
\* again (pack_controller.go:169-170).
FailoverConverges ==
    <>[](Verdict(specs[generation]) = "ok" =>
            /\ report = [gen |-> generation, outcome |-> "ready"]
            /\ \A x \in RenderedObjects(specs[generation]) :
                   live[x] = PlanHash(specs[generation]))
=============================================================================
