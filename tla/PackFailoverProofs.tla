------------------------- MODULE PackFailoverProofs -------------------------
(***************************************************************************)
(* Several processes are like one to the reader of the status, and none of *)
(* them sleeps on unfinished work: for any number of processes, specs and  *)
(* faults.                                                                 *)
(***************************************************************************)
EXTENDS PackFailover, TLAPS

-----------------------------------------------------------------------------
(***************************************************************************)
(* The inductive invariant.                                                *)
(***************************************************************************)

InPass(o) == pc[o] \in {"applying", "writing"}

\* What the flags that stand for resourceVersions mean.
VersionsCompared ==
    \A o \in Operators :
        /\ fresh[o] => cache[o] = generation
        /\ current[o] => InPass(o) /\ copy[o] = generation

\* A pass works on a spec the Pack has had, and only a pass has failures.
PassesFit ==
    \A o \in Operators :
        /\ InPass(o) => copy[o] \in 1..generation
        /\ pc[o] = "applying" => Verdict(specs[copy[o]]) = "ok"
        /\ failed[o] => InPass(o) /\ Verdict(specs[copy[o]]) = "ok"

FInv ==
    /\ TypeOK
    /\ VersionsCompared
    /\ PassesFit
    /\ NobodySleepsOnWork

-----------------------------------------------------------------------------
(***************************************************************************)
(* The core.                                                               *)
(***************************************************************************)

LEMMA RenderedType ==
    ASSUME NEW s \in Specs
    PROVE  Rendered(s) \in Seq(Objects)
<1> DEFINE U == {Prometheus(s), OTel(s)}
                  \cup {Grafana(s)[i] : i \in 1..Len(s.manifest.dashboards)}
<1>1. s.manifest.dashboards \in Seq(STRING)
  BY FailoverSpecsAssumption
<1>2. Grafana(s) \in Seq(U)
  <2> DEFINE n == Len(s.manifest.dashboards)
  <2>1. n \in Nat
    BY <1>1
  <2>2. \A i \in 1..n : Grafana(s)[i] \in U
    OBVIOUS
  <2>3. Grafana(s) = [i \in 1..n |-> Grafana(s)[i]]
    BY DEF Grafana
  <2> HIDE DEF n, U
  <2> QED
    BY <2>1, <2>2, <2>3
<1>3. Rendered(s) \in Seq(U)
  BY <1>2 DEF Rendered
<1> HIDE DEF U
<1>4. Rendered(s) \in Seq(RenderedObjects(s))
  BY <1>3 DEF RenderedObjects
<1>5. RenderedObjects(s) \subseteq Objects
  BY DEF Objects
<1> QED
  BY <1>4, <1>5

LEMMA HashType == \A s \in Specs : PlanHash(s) \in PlanHashes
  BY DEF PlanHashes

\* A spec has exactly one verdict.
LEMMA VerdictType == \A s \in Specs : Verdict(s) \in Verdicts
  BY DEF Verdict, Verdicts

LEMMA OutcomeType ==
    ASSUME NEW o \in Operators, specs[copy[o]] \in Specs
    PROVE  /\ Outcome(o) \in Outcomes
           /\ Outcome(o) = "blocked" <=> Verdict(specs[copy[o]]) = "blocked"
           /\ Outcome(o) = "ready" => Verdict(specs[copy[o]]) = "ok"
           /\ Outcome(o) = "degraded" => Verdict(specs[copy[o]]) \in {"ok", "error"}
           /\ Outcome(o) # "none"
  BY VerdictType DEF Outcome, Outcomes, Verdicts

LEMMA Numbers ==
    TypeOK => /\ generation \in Nat \ {0}
              /\ \A g \in 1..generation : specs[g] \in Specs
  BY DEF TypeOK, generation

-----------------------------------------------------------------------------
LEMMA InitInvariant == Init => FInv
<1> SUFFICES ASSUME Init PROVE FInv
  OBVIOUS
<1>1. PICK s \in FirstSpecs : specs = <<s>>
  BY DEF Init
<1>2. specs \in Seq(Specs) /\ specs # <<>> /\ generation = 1
  BY <1>1, FailoverAssumption DEF generation
<1>3. \A o \in Operators : pc[o] = "down" /\ cache[o] = 0 /\ ~fresh[o] /\ ~current[o] /\ ~failed[o]
  BY DEF Init, None0, Nowhere
<1>4. TypeOK
  BY <1>2, <1>3, FailoverAssumption DEF Init, TypeOK, None0, Nowhere, Outcomes
<1> QED
  BY <1>3, <1>4 DEF FInv, VersionsCompared, PassesFit, NobodySleepsOnWork, InPass

-----------------------------------------------------------------------------
(***************************************************************************)
(* Type correctness.                                                       *)
(***************************************************************************)

LEMMA TypeStep ==
    ASSUME FInv, [Next]_vars
    PROVE  TypeOK'
<1> USE DEF store, queue, pass
<1>0. TypeOK /\ VersionsCompared /\ PassesFit /\ generation \in Nat \ {0}
      /\ \A g \in 1..generation : specs[g] \in Specs
  BY Numbers DEF FInv
<1>f. faults' = faults \/ Fault => faults' \in 0..MaxFaults
  BY <1>0, FailoverAssumption DEF TypeOK, Fault
<1>1. ASSUME NEW s \in Specs, Edit(s) PROVE TypeOK'
  <2>1. /\ specs' = Append(specs, s) /\ fresh' = Nowhere /\ current' = Nowhere
        /\ UNCHANGED <<report, live, lease, faults, pc, cache, queue, copy, todo, failed>>
    BY <1>1 DEF Edit, NewVersion
  <2>2. /\ specs' \in Seq(Specs) /\ specs' # <<>> /\ generation' = generation + 1
    <3>1. specs \in Seq(Specs) /\ specs' = Append(specs, s)
      BY <1>0, <2>1 DEF TypeOK
    <3>2. specs' \in Seq(Specs)
      BY <3>1
    <3>3. Len(specs') = Len(specs) + 1
      BY <3>1
    <3> QED
      BY <1>0, <3>2, <3>3 DEF generation
  <2>3. /\ report' \in [gen: 0..generation', outcome: Outcomes]
        /\ copy' \in [Operators -> 0..generation']
        /\ cache' \in [Operators -> 0..generation']
        /\ \A o \in Operators : cache'[o] = 0 <=> pc'[o] = "down"
    BY <1>0, <2>1, <2>2 DEF TypeOK
  <2> QED
    BY <1>0, <2>1, <2>2, <2>3 DEF TypeOK, Nowhere
<1>2. ASSUME NEW o \in Operators, Crash(o) \/ Start(o) \/ Elected(o) \/ Resign(o)
                                    \/ Deliver(o) \/ TimerFires(o)
      PROVE  TypeOK'
  <2>1. CASE Start(o) \/ Elected(o) \/ Deliver(o) \/ TimerFires(o)
    <3>1. specs' = specs /\ generation' = generation
      BY <2>1 DEF Start, Elected, Deliver, TimerFires, generation
    <3>2. CASE Start(o)
      <4>1. /\ pc' = [pc EXCEPT ![o] = "standby"]
            /\ cache' = [cache EXCEPT ![o] = generation]
            /\ fresh' = [fresh EXCEPT ![o] = TRUE]
            /\ UNCHANGED <<report, live, lease, faults, queue, pass>>
        BY <3>2 DEF Start
      <4> QED
        BY <1>0, <3>1, <4>1 DEF TypeOK
    <3>3. CASE Elected(o)
      <4>1. /\ faults' \in 0..MaxFaults /\ lease' = o /\ pc[o] = "standby"
            /\ pc' = [pc EXCEPT ![o] = "idle"]
            /\ queued' = [queued EXCEPT ![o] = TRUE]
            /\ UNCHANGED <<report, live, cache, fresh, timer, pass>>
        BY <1>f, <3>3 DEF Elected
      <4> QED
        BY <1>0, <3>1, <4>1 DEF TypeOK
    <3>4. CASE Deliver(o)
      <4>1. /\ pc[o] # "down" /\ Working(o) \in BOOLEAN
            /\ cache' = [cache EXCEPT ![o] = generation]
            /\ fresh' = [fresh EXCEPT ![o] = TRUE]
            /\ queued' = [queued EXCEPT ![o] = Working(o)]
            /\ UNCHANGED <<report, live, lease, faults, pc, timer, pass>>
        BY <3>4 DEF Deliver, Working
      <4> HIDE DEF Working
      <4> QED
        BY <1>0, <3>1, <4>1 DEF TypeOK
    <3>5. CASE TimerFires(o)
      BY <1>0, <3>1, <3>5 DEF TypeOK, TimerFires
    <3> QED
      BY <2>1, <3>2, <3>3, <3>4, <3>5
  <2>2. CASE Crash(o) \/ Resign(o)
    <3>1. specs' = specs /\ generation' = generation /\ Exit(o)
          /\ faults' \in 0..MaxFaults
      BY <1>f, <2>2 DEF Crash, Resign, Exit, generation
    <3> QED
      BY <1>0, <3>1 DEF TypeOK, Exit
  <2> QED
    BY <1>2, <2>1, <2>2
<1>3. ASSUME NEW o \in Operators, Begin(o) PROVE TypeOK'
  <2>1. specs' = specs /\ generation' = generation
        /\ cache[o] \in 1..generation /\ pc[o] = "idle"
        /\ Rendered(specs[cache[o]]) \in Seq(Objects)
    BY <1>0, <1>3, RenderedType DEF Begin, generation, TypeOK
  <2>a. ASSUME Verdict(specs[cache[o]]) = "ok"
        PROVE  pc' = [pc EXCEPT ![o] = "applying"]
               /\ todo' = [todo EXCEPT ![o] = Rendered(specs[cache[o]])]
    BY <1>3, <2>a DEF Begin
  <2>b. ASSUME Verdict(specs[cache[o]]) # "ok"
        PROVE  pc' = [pc EXCEPT ![o] = "writing"] /\ todo' = todo
    BY <1>3, <2>b DEF Begin
  <2>c. /\ todo' = [todo EXCEPT ![o] = Rendered(specs[cache[o]])] \/ todo' = todo
        /\ pc' = [pc EXCEPT ![o] = "applying"] \/ pc' = [pc EXCEPT ![o] = "writing"]
    BY <2>a, <2>b
  <2>2. todo' \in [Operators -> Seq(Objects)]
        /\ pc' \in [Operators -> {"down", "standby", "idle", "applying", "writing"}]
        /\ \A q \in Operators : pc'[q] = "down" <=> pc[q] = "down"
    <3>0. pc \in [Operators -> {"down", "standby", "idle", "applying", "writing"}]
          /\ todo \in [Operators -> Seq(Objects)]
      BY <1>0 DEF TypeOK
    <3>1. todo' \in [Operators -> Seq(Objects)]
      BY <2>1, <2>c, <3>0
    <3>2. pc' \in [Operators -> {"down", "standby", "idle", "applying", "writing"}]
          /\ \A q \in Operators : pc'[q] = "down" <=> pc[q] = "down"
      BY <2>1, <2>c, <3>0
    <3> QED
      BY <3>1, <3>2
  <2>3. /\ queued' = [queued EXCEPT ![o] = FALSE]
        /\ copy' = [copy EXCEPT ![o] = cache[o]]
        /\ current' = [current EXCEPT ![o] = fresh[o]]
        /\ UNCHANGED <<report, live, lease, faults, cache, fresh, timer, failed>>
    BY <1>3 DEF Begin
  <2>4. current' \in [Operators -> BOOLEAN]
    BY <1>0, <2>3 DEF TypeOK
  <2>5. copy' \in [Operators -> 0..generation] /\ queued' \in [Operators -> BOOLEAN]
    BY <1>0, <2>1, <2>3 DEF TypeOK
  <2>6. UNCHANGED <<report, live, lease, faults, cache, fresh, timer, failed>>
    BY <2>3
  <2>7. \A q \in Operators : cache'[q] = 0 <=> pc'[q] = "down"
    BY <1>0, <2>2, <2>6 DEF TypeOK
  <2>8. /\ specs' \in Seq(Specs) /\ specs' # <<>>
        /\ report' \in [gen: 0..generation', outcome: Outcomes]
        /\ copy' \in [Operators -> 0..generation']
        /\ cache' \in [Operators -> 0..generation']
    BY <1>0, <2>1, <2>5, <2>6 DEF TypeOK
  <2> QED
    BY <1>0, <2>2, <2>4, <2>5, <2>6, <2>7, <2>8 DEF TypeOK
<1>4. ASSUME NEW o \in Operators, ApplyAccepted(o) \/ ApplyRefused(o) PROVE TypeOK'
  <2>1. /\ NextObject(o) /\ specs' = specs /\ generation' = generation
        /\ UNCHANGED <<report, lease, pc, cache, fresh, queue, copy, current>>
        /\ todo[o] \in Seq(Objects) /\ todo[o] # <<>>
        /\ copy[o] \in 1..generation
    BY <1>0, <1>4 DEF ApplyAccepted, ApplyRefused, NextObject, generation, TypeOK,
       PassesFit, InPass
  <2>2. todo' \in [Operators -> Seq(Objects)]
    BY <1>0, <2>1 DEF NextObject, TypeOK
  <2>3. PlanHash(specs[copy[o]]) \in PlanHashes
    BY <1>0, <2>1, HashType
  <2>4. live' \in [Objects -> PlanHashes \cup {NoHash}]
    BY <1>0, <1>4, <2>1, <2>3 DEF ApplyAccepted, ApplyRefused, TypeOK
  <2>5. failed' \in [Operators -> BOOLEAN] /\ faults' \in 0..MaxFaults
    BY <1>0, <1>4, <1>f DEF ApplyAccepted, ApplyRefused, TypeOK
  <2> QED
    BY <1>0, <2>1, <2>2, <2>4, <2>5 DEF TypeOK
<1>5. ASSUME NEW o \in Operators, FinishApply(o) PROVE TypeOK'
  <2>1. specs' = specs /\ generation' = generation
    BY <1>5 DEF FinishApply, generation
  <2> QED
    BY <1>0, <1>5, <2>1 DEF FinishApply, TypeOK
<1>6. ASSUME NEW o \in Operators, UpdateAccepted(o) \/ UpdateConflicts(o) PROVE TypeOK'
  <2>1. /\ Done(o) /\ specs' = specs /\ generation' = generation
        /\ timer' \in [Operators -> BOOLEAN]
        /\ pc[o] = "writing" /\ copy[o] \in 1..generation
    BY <1>0, <1>6 DEF UpdateAccepted, UpdateConflicts, Done, generation, TypeOK,
       PassesFit, InPass
  <2>2. /\ fresh' \in [Operators -> BOOLEAN]
        /\ current' \in [Operators -> BOOLEAN]
    BY <1>0, <1>6 DEF UpdateAccepted, UpdateConflicts, Write, NewVersion, Nowhere, TypeOK
  <2>3. Outcome(o) \in Outcomes
    BY <1>0, <2>1, OutcomeType
  <2>4. report' \in [gen: 0..generation, outcome: Outcomes]
    BY <1>0, <1>6, <2>1, <2>3 DEF UpdateAccepted, UpdateConflicts, Write, TypeOK
  <2>5. /\ pc' = [pc EXCEPT ![o] = "idle"]
        /\ copy' = [copy EXCEPT ![o] = 0]
        /\ failed' = [failed EXCEPT ![o] = FALSE]
        /\ UNCHANGED <<live, lease, faults, cache, queued, todo>>
    BY <2>1 DEF Done
  <2> QED
    BY <1>0, <2>1, <2>2, <2>4, <2>5 DEF TypeOK
<1>7. CASE UNCHANGED vars
  BY <1>0, <1>7 DEF vars, TypeOK, generation
<1> QED
  BY <1>1, <1>2, <1>3, <1>4, <1>5, <1>6, <1>7 DEF Next, Runtime, Reconcile

-----------------------------------------------------------------------------
(***************************************************************************)
(* The rest of the invariant.                                              *)
(***************************************************************************)

\* Only an edit changes the specs, and it adds a generation.
LEMMA HistoryKept ==
    ASSUME TypeOK, [Next]_vars
    PROVE  /\ generation \in Nat \ {0} /\ generation' \in Nat
           /\ generation <= generation'
           /\ \A g \in 1..generation : specs'[g] = specs[g]
           /\ (\A s \in Specs : ~Edit(s)) => specs' = specs
<1>0. generation \in Nat \ {0}
  BY Numbers
<1>1. ASSUME NEW s \in Specs, Edit(s)
      PROVE  /\ generation' = generation + 1
             /\ \A g \in 1..generation : specs'[g] = specs[g]
  <2>1. specs \in Seq(Specs) /\ specs' = Append(specs, s)
    BY <1>1 DEF TypeOK, Edit
  <2>2. \A g \in 1..Len(specs) : specs'[g] = specs[g]
    BY <2>1
  <2>3. Len(specs') = Len(specs) + 1
    BY <2>1
  <2> QED
    BY <2>2, <2>3 DEF generation
<1>2. ASSUME \A s \in Specs : ~Edit(s) PROVE specs' = specs
  <2> USE DEF store
  <2> QED
    BY <1>2 DEF Next, Runtime, Reconcile, vars, Crash, Start, Elected, Resign, Exit,
       Deliver, TimerFires, Begin, ApplyAccepted, ApplyRefused, NextObject,
       FinishApply, UpdateAccepted, UpdateConflicts, Done
<1> QED
  BY <1>0, <1>1, <1>2 DEF generation

\* A step of the others: edits apart, nothing of process q changes but what an
\* update by o does to its fresh and current.
LEMMA PassesFitStep ==
    ASSUME FInv, [Next]_vars
    PROVE  PassesFit'
<1> USE DEF store, queue, pass
<1>0. /\ TypeOK /\ PassesFit /\ VersionsCompared /\ generation \in Nat \ {0}
      /\ \A g \in 1..generation : specs[g] \in Specs
  BY Numbers DEF FInv
<1>h. /\ generation' \in Nat /\ generation <= generation'
      /\ \A g \in 1..generation : specs'[g] = specs[g]
  BY <1>0, HistoryKept
<1> SUFFICES ASSUME NEW q \in Operators
             PROVE  /\ InPass(q)' => copy'[q] \in 1..generation'
                    /\ pc'[q] = "applying" => Verdict(specs'[copy'[q]]) = "ok"
                    /\ failed'[q] => InPass(q)' /\ Verdict(specs'[copy'[q]]) = "ok"
  BY DEF PassesFit
<1>k. ASSUME /\ pc'[q] = pc[q] \/ (pc[q] = "applying" /\ pc'[q] = "writing")
             /\ copy'[q] = copy[q]
             /\ failed'[q] = failed[q] \/ pc[q] = "applying"
      PROVE  /\ InPass(q)' => copy'[q] \in 1..generation'
             /\ pc'[q] = "applying" => Verdict(specs'[copy'[q]]) = "ok"
             /\ failed'[q] => InPass(q)' /\ Verdict(specs'[copy'[q]]) = "ok"
  <2>1. CASE InPass(q)
    <3>1. copy[q] \in 1..generation
      BY <1>0, <2>1 DEF PassesFit
    <3>2. specs'[copy'[q]] = specs[copy[q]] /\ copy'[q] \in 1..generation' /\ InPass(q)'
      BY <1>0, <1>h, <1>k, <2>1, <3>1 DEF InPass
    <3> QED
      BY <1>0, <1>k, <3>2 DEF PassesFit
  <2>2. CASE ~InPass(q)
    <3>1. ~failed[q] /\ pc[q] # "applying" /\ ~InPass(q)' /\ pc'[q] # "applying"
      BY <1>0, <1>k, <2>2 DEF PassesFit, InPass
    <3> QED
      BY <1>k, <3>1
  <2> QED
    BY <2>1, <2>2
<1>1. CASE \E s \in Specs : Edit(s)
  BY <1>1, <1>k DEF Edit
<1>2. CASE UNCHANGED vars
  BY <1>2, <1>k DEF vars
<1>3. ASSUME NEW o \in Operators, o # q,
             \/ Crash(o) \/ Start(o) \/ Elected(o) \/ Resign(o) \/ Deliver(o)
             \/ TimerFires(o) \/ Begin(o) \/ ApplyAccepted(o) \/ ApplyRefused(o)
             \/ FinishApply(o) \/ UpdateAccepted(o) \/ UpdateConflicts(o)
      PROVE  pc'[q] = pc[q] /\ copy'[q] = copy[q] /\ failed'[q] = failed[q]
  BY <1>0, <1>3 DEF TypeOK, Crash, Start, Elected, Resign, Exit,
     Deliver, TimerFires, Begin, ApplyAccepted, ApplyRefused, NextObject,
     FinishApply, UpdateAccepted, UpdateConflicts, Done
<1>4. CASE Crash(q) \/ Resign(q) \/ UpdateAccepted(q) \/ UpdateConflicts(q)
  <2>1. ~failed'[q] /\ pc'[q] \in {"down", "idle"}
    BY <1>0, <1>4 DEF TypeOK, Crash, Resign, Exit, UpdateAccepted, UpdateConflicts, Done
  <2> QED
    BY <2>1 DEF InPass
<1>5. CASE Start(q) \/ Elected(q)
  <2>1. ~InPass(q) /\ pc'[q] \in {"standby", "idle"} /\ failed' = failed
    BY <1>0, <1>5 DEF TypeOK, Start, Elected, InPass
  <2> QED
    BY <1>0, <2>1 DEF InPass, PassesFit
<1>6. CASE Deliver(q) \/ TimerFires(q) \/ ApplyAccepted(q) \/ ApplyRefused(q)
  BY <1>6, <1>k DEF Deliver, TimerFires, ApplyAccepted, ApplyRefused, NextObject
<1>7. CASE FinishApply(q)
  BY <1>0, <1>7, <1>k DEF TypeOK, FinishApply
<1>8. CASE Begin(q)
  <2>1. /\ copy'[q] = cache[q] /\ failed' = failed /\ specs' = specs /\ pc[q] = "idle"
        /\ pc'[q] = "applying" => Verdict(specs[cache[q]]) = "ok"
        /\ cache[q] \in 1..generation
    BY <1>0, <1>8 DEF TypeOK, Begin
  <2>2. ~failed[q]
    BY <1>0, <2>1 DEF PassesFit, InPass
  <2> QED
    BY <1>h, <2>1, <2>2 DEF generation
<1> QED
  BY <1>k, <1>1, <1>2, <1>3, <1>4, <1>5, <1>6, <1>7, <1>8 DEF Next, Runtime, Reconcile

LEMMA VersionsStep ==
    ASSUME FInv, [Next]_vars
    PROVE  VersionsCompared'
<1> USE DEF store, queue, pass
<1>0. TypeOK /\ PassesFit /\ VersionsCompared
  BY DEF FInv
<1> SUFFICES ASSUME NEW q \in Operators
             PROVE  /\ fresh'[q] => cache'[q] = generation'
                    /\ current'[q] => InPass(q)' /\ copy'[q] = generation'
  BY DEF VersionsCompared
<1>k. ASSUME /\ specs' = specs /\ cache'[q] = cache[q] /\ copy'[q] = copy[q]
             /\ fresh'[q] => fresh[q]
             /\ current'[q] => current[q]
             /\ pc'[q] = pc[q] \/ (pc[q] = "applying" /\ pc'[q] = "writing")
      PROVE  /\ fresh'[q] => cache'[q] = generation'
             /\ current'[q] => InPass(q)' /\ copy'[q] = generation'
  BY <1>0, <1>k DEF VersionsCompared, InPass, generation
<1>1. CASE \E s \in Specs : Edit(s)
  BY <1>1 DEF Edit, NewVersion, Nowhere
<1>2. CASE UNCHANGED vars
  BY <1>2, <1>k DEF vars
<1>3. ASSUME NEW o \in Operators, o # q,
             \/ Crash(o) \/ Start(o) \/ Elected(o) \/ Resign(o) \/ Deliver(o)
             \/ TimerFires(o) \/ Begin(o) \/ ApplyAccepted(o) \/ ApplyRefused(o)
             \/ FinishApply(o) \/ UpdateConflicts(o)
      PROVE  /\ specs' = specs /\ cache'[q] = cache[q] /\ copy'[q] = copy[q]
             /\ fresh'[q] = fresh[q] /\ current'[q] = current[q] /\ pc'[q] = pc[q]
  BY <1>0, <1>3 DEF TypeOK, Crash, Start, Elected, Resign, Exit,
     Deliver, TimerFires, Begin, ApplyAccepted, ApplyRefused, NextObject,
     FinishApply, UpdateConflicts, Done
<1>4. ASSUME NEW o \in Operators, o # q, UpdateAccepted(o)
      PROVE  /\ specs' = specs /\ cache'[q] = cache[q] /\ copy'[q] = copy[q]
             /\ fresh'[q] => fresh[q]
             /\ current'[q] => current[q]
             /\ pc'[q] = pc[q]
  <2>1. Write(o) /\ Done(o)
    BY <1>4 DEF UpdateAccepted
  <2>2. specs' = specs /\ cache'[q] = cache[q] /\ copy'[q] = copy[q] /\ pc'[q] = pc[q]
    BY <1>0, <1>4, <2>1 DEF TypeOK, Done
  <2>3. (fresh'[q] => fresh[q]) /\ (current'[q] => current[q])
    BY <1>0, <1>4, <2>1 DEF TypeOK, Write, NewVersion, Nowhere
  <2> QED
    BY <2>2, <2>3
<1>5. CASE Crash(q) \/ Resign(q)
  <2>1. ~fresh'[q] /\ ~current'[q]
    BY <1>0, <1>5 DEF TypeOK, Crash, Resign, Exit
  <2> QED
    BY <2>1
<1>6. CASE Start(q) \/ Deliver(q)
  <2>1. specs' = specs /\ cache'[q] = generation /\ copy' = copy /\ current' = current
    BY <1>0, <1>6 DEF TypeOK, Start, Deliver
  <2>2. current[q] => pc'[q] = pc[q]
    BY <1>0, <1>6 DEF VersionsCompared, InPass, Start, Deliver
  <2> QED
    BY <1>0, <2>1, <2>2 DEF VersionsCompared, InPass, generation
<1>7. CASE Elected(q)
  <2>1. specs' = specs /\ UNCHANGED <<cache, fresh, copy, current>> /\ ~current[q]
    BY <1>0, <1>7 DEF Elected, VersionsCompared, InPass
  <2> QED
    BY <1>0, <2>1 DEF VersionsCompared, generation
<1>8. CASE TimerFires(q) \/ ApplyAccepted(q) \/ ApplyRefused(q) \/ FinishApply(q)
  <2>1. specs' = specs /\ UNCHANGED <<cache, fresh, copy, current>>
    BY <1>8 DEF TimerFires, ApplyAccepted, ApplyRefused, NextObject, FinishApply
  <2>2. pc'[q] = pc[q] \/ (pc[q] = "applying" /\ pc'[q] = "writing")
    BY <1>0, <1>8 DEF TypeOK, TimerFires, ApplyAccepted, ApplyRefused, NextObject, FinishApply
  <2> QED
    BY <1>k, <2>1, <2>2
<1>9. CASE Begin(q)
  <2>1. /\ specs' = specs /\ UNCHANGED <<cache, fresh>>
        /\ copy'[q] = cache[q] /\ current'[q] = fresh[q]
        /\ pc'[q] \in {"applying", "writing"}
    BY <1>0, <1>9 DEF TypeOK, Begin
  <2> QED
    BY <1>0, <2>1 DEF VersionsCompared, InPass, generation
<1>10. CASE UpdateAccepted(q)
  <2>1. Write(q) /\ Done(q)
    BY <1>10 DEF UpdateAccepted
  <2>2. specs' = specs /\ cache' = cache
    BY <2>1 DEF Done
  <2>3. (fresh'[q] => fresh[q]) /\ ~current'[q]
    BY <1>0, <2>1 DEF TypeOK, Write, NewVersion, Nowhere
  <2> QED
    BY <1>0, <2>2, <2>3 DEF VersionsCompared, generation
<1>11. CASE UpdateConflicts(q)
  <2>1. specs' = specs /\ UNCHANGED <<cache, fresh, current>> /\ ~current[q]
    BY <1>11 DEF UpdateConflicts, Done
  <2> QED
    BY <1>0, <2>1 DEF VersionsCompared, generation
<1> QED
  BY <1>k, <1>1, <1>2, <1>3, <1>4, <1>5, <1>6, <1>7, <1>8, <1>9, <1>10, <1>11
     DEF Next, Runtime, Reconcile

LEMMA SleepStep ==
    ASSUME FInv, [Next]_vars
    PROVE  NobodySleepsOnWork'
<1> USE DEF store, queue, pass
<1>0. /\ TypeOK /\ PassesFit /\ VersionsCompared /\ NobodySleepsOnWork
      /\ \A g \in 1..generation : specs[g] \in Specs
  BY Numbers DEF FInv
<1> SUFFICES ASSUME NEW q \in Operators,
                    pc'[q] = "idle", ~queued'[q], ~timer'[q], fresh'[q]
             PROVE  report' = [gen |-> generation', outcome |-> "blocked"]
  BY DEF NobodySleepsOnWork
<1>k. ASSUME specs' = specs, report' = report,
             pc[q] = "idle", ~queued[q], ~timer[q], fresh[q]
      PROVE  report' = [gen |-> generation', outcome |-> "blocked"]
  BY <1>0, <1>k DEF NobodySleepsOnWork, generation
<1>1. CASE \E s \in Specs : Edit(s)
  BY <1>1 DEF Edit, NewVersion, Nowhere
<1>2. CASE UNCHANGED vars
  BY <1>2, <1>k DEF vars
<1>3. ASSUME NEW o \in Operators, o # q,
             \/ Crash(o) \/ Start(o) \/ Elected(o) \/ Resign(o) \/ Deliver(o)
             \/ TimerFires(o) \/ Begin(o) \/ ApplyAccepted(o) \/ ApplyRefused(o)
             \/ FinishApply(o) \/ UpdateConflicts(o)
      PROVE  /\ specs' = specs /\ report' = report /\ pc'[q] = pc[q]
             /\ queued'[q] = queued[q] /\ timer'[q] = timer[q] /\ fresh'[q] = fresh[q]
  BY <1>0, <1>3 DEF TypeOK, Crash, Start, Elected, Resign, Exit,
     Deliver, TimerFires, Begin, ApplyAccepted, ApplyRefused, NextObject,
     FinishApply, UpdateConflicts, Done
<1>4. ASSUME NEW o \in Operators, UpdateAccepted(o)
      PROVE  specs' = specs /\ report' = report /\ fresh' = fresh
  BY <1>4 DEF UpdateAccepted, Write, NewVersion, Nowhere, Done
<1>5. ASSUME NEW o \in Operators, o # q, UpdateAccepted(o)
      PROVE  pc'[q] = pc[q] /\ queued'[q] = queued[q] /\ timer'[q] = timer[q]
  BY <1>0, <1>5 DEF TypeOK, UpdateAccepted, Done
\* What the worker itself writes.
<1>6. CASE UpdateAccepted(q)
  <2>1. /\ current[q] /\ pc[q] = "writing"
        /\ report' = [gen |-> copy[q], outcome |-> Outcome(q)]
        /\ timer' = [timer EXCEPT ![q] = @ \/ Outcome(q) # "blocked"]
    BY <1>6 DEF UpdateAccepted, Write
  <2>2. Outcome(q) = "blocked"
    <3>1. timer'[q] = (timer[q] \/ Outcome(q) # "blocked")
      BY <1>0, <2>1 DEF TypeOK
    <3> QED
      BY <3>1
  <2>3. copy[q] = generation
    BY <1>0, <2>1 DEF VersionsCompared
  <2> QED
    BY <1>4, <1>6, <2>1, <2>2, <2>3 DEF generation
<1>7. ~UpdateConflicts(q)
  BY <1>0 DEF TypeOK, UpdateConflicts
<1>8. ~Crash(q) /\ ~Resign(q) /\ ~Start(q) /\ ~Begin(q) /\ ~FinishApply(q)
  <2>1. ~Crash(q) /\ ~Resign(q) /\ ~Start(q) /\ ~FinishApply(q)
    BY <1>0 DEF TypeOK, Crash, Resign, Exit, Start, FinishApply
  <2>2. ~Begin(q)
    BY <1>0 DEF TypeOK, Begin
  <2> QED
    BY <2>1, <2>2
<1>9. ~ApplyAccepted(q) /\ ~ApplyRefused(q)
  BY <1>0 DEF TypeOK, ApplyAccepted, ApplyRefused, NextObject
<1>10. ~Elected(q) /\ ~TimerFires(q)
  BY <1>0 DEF TypeOK, Elected, TimerFires
<1>11. ~Deliver(q)
  <2> SUFFICES ASSUME Deliver(q) PROVE FALSE
    OBVIOUS
  <2>1. pc' = pc /\ queued' = [queued EXCEPT ![q] = Working(q)]
    BY DEF Deliver
  <2>2. pc[q] = "idle"
    BY <2>1
  <2>3. Working(q)
    BY <2>2 DEF Working
  <2>4. queued'[q] = Working(q)
    BY <1>0, <2>1 DEF TypeOK
  <2> QED
    BY <2>3, <2>4
<1> QED
  BY <1>k, <1>1, <1>2, <1>3, <1>4, <1>5, <1>6, <1>7, <1>8, <1>9, <1>10, <1>11
     DEF Next, Runtime, Reconcile

-----------------------------------------------------------------------------
(***************************************************************************)
(* The theorems.                                                           *)
(***************************************************************************)

LEMMA Invariant == Spec => []FInv
<1>1. Init => FInv
  BY InitInvariant
<1>2. FInv /\ [Next]_vars => FInv'
  BY TypeStep, VersionsStep, PassesFitStep, SleepStep DEF FInv
<1> QED
  BY <1>1, <1>2, PTL DEF Spec

\* Every variable has its type, and a process that runs has filled its cache
\* first, so no pass looks for a Pack its cache does not have yet
\* (main.go:58-76).
THEOREM FailoverTypeCorrect == Spec => []TypeOK
<1>1. FInv => TypeOK
  BY DEF FInv
<1> QED
  BY <1>1, Invariant, PTL

\* A worker that nothing will wake has nothing to do, however many workers there
\* are and whoever wrote the status last: the conflict, the retry and the resync
\* of pack_controller.go:86-171 leave no gap between them.
THEOREM NobodySleeps == Spec => []NobodySleepsOnWork
<1>1. FInv => NobodySleepsOnWork
  BY DEF FInv
<1> QED
  BY <1>1, Invariant, PTL

LEMMA SameVerdict == \A s : Promise!Verdict(s) = Verdict(s)
  BY DEF Verdict, ParseFails, RefsBlock, PlanFails, Promise!Verdict,
         Promise!ParseFails, Promise!RefsBlock, Promise!PlanFails

\* To whoever reads the status of the Pack all the processes are one reconciler:
\* whichever of them writes, and whoever holds the lease, each report is a verdict
\* on the spec current at that instant, and one that spec can have.  The update
\* that fails on an older resourceVersion (pack_controller.go:165-167) is enough
\* for it.
THEOREM OneVoice == Spec => Promise!Spec
<1>1. Init => Promise!Init
  BY FailoverAssumption DEF Init, Promise!Init, Promise!NoReport
<1>2. FInv /\ [Next]_vars => [Promise!Next]_(Promise!vars)
  <2> SUFFICES ASSUME FInv, [Next]_vars
               PROVE  Promise!Next \/ UNCHANGED <<specs, report>>
    BY DEF Promise!vars
  <2> USE DEF store
  <2>0. /\ TypeOK /\ VersionsCompared /\ PassesFit
        /\ \A g \in 1..generation : specs[g] \in Specs
    BY Numbers DEF FInv
  <2>1. ASSUME NEW s \in Specs, Edit(s) PROVE Promise!Next
    BY <2>1 DEF Edit, generation, Promise!Next, Promise!Edit
  <2>2. ASSUME NEW o \in Operators, UpdateAccepted(o) PROVE Promise!Next
    <3>1. /\ pc[o] = "writing" /\ current[o] /\ specs' = specs
          /\ report' = [gen |-> copy[o], outcome |-> Outcome(o)]
      BY <2>2 DEF UpdateAccepted, Write, Done
    <3>2. copy[o] = generation /\ copy[o] \in 1..generation
      BY <2>0, <3>1 DEF VersionsCompared, PassesFit, InPass
    <3>3. /\ Outcome(o) \in Promise!Outcomes
          /\ Promise!MayBe(specs[generation], Outcome(o))
      <4>1. specs[copy[o]] \in Specs
        BY <2>0, <3>2
      <4>2. Verdict(specs[copy[o]]) \in {"ok", "blocked", "error"}
        BY <4>1, VerdictType DEF Verdicts
      <4> QED
        BY <3>2, <4>2, SameVerdict DEF Outcome, Promise!MayBe, Promise!Outcomes
    <3> QED
      BY <3>1, <3>2, <3>3 DEF generation, Promise!Next, Promise!Report
  <2>3. ASSUME NEW o \in Operators,
               \/ Crash(o) \/ Start(o) \/ Elected(o) \/ Resign(o) \/ Deliver(o)
               \/ TimerFires(o) \/ Begin(o) \/ ApplyAccepted(o) \/ ApplyRefused(o)
               \/ FinishApply(o) \/ UpdateConflicts(o)
        PROVE  UNCHANGED <<specs, report>>
    BY <2>3 DEF Crash, Start, Elected, Resign, Exit, Deliver, TimerFires, Begin,
       ApplyAccepted, ApplyRefused, NextObject, FinishApply, UpdateConflicts, Done
  <2>4. CASE UNCHANGED vars
    BY <2>4 DEF vars
  <2> QED
    BY <2>1, <2>2, <2>3, <2>4 DEF Next, Runtime, Reconcile
<1> QED
  BY <1>1, <1>2, Invariant, PTL DEF Spec, Promise!Spec
=============================================================================
