--------------------------- MODULE PackInvariant ----------------------------
(***************************************************************************)
(* Why the properties of PackController hold: an inductive invariant, in   *)
(* named parts.                                                            *)
(***************************************************************************)
EXTENDS PackController

InPass == pc \in {"applying", "triggering", "writing"}

\* Versions are ordered: the status never runs ahead of a copy of the Pack,
\* the worker's copy never runs ahead of the cache it came from, nor the cache
\* ahead of the store.
VersionsOrdered ==
    /\ cache.gen <= generation
    /\ p.gen <= generation
    /\ status.obs <= generation
    /\ cache.gen # 0 => status.obs <= cache.gen
    /\ InPass => p.gen # 0 /\ status.obs <= p.gen
    /\ InPass /\ cache.gen # 0 => p.gen <= cache.gen
    /\ ~exists => status = NoStatus

\* What the two flags that stand for resourceVersions mean.
VersionsCompared ==
    /\ fresh => cache = Stored
    /\ current => InPass /\ exists /\ p.gen = generation

\* Runs are numbered upwards, and a copy that may be written knows the last
\* one recorded.
RunsOrdered ==
    /\ status.run <= runs
    /\ cache.status.run <= runs
    /\ p.status.run <= runs
    /\ current => status.run <= p.status.run

\* The phase a pass is in fits the spec it works on.
PassFitsSpec ==
    /\ pc = "applying" =>
           Verdict(specs[p.gen]) = "ok" /\ OnKubernetes(specs[p.gen])
    /\ pc = "triggering" =>
           /\ Verdict(specs[p.gen]) = "ok"
           /\ specs[p.gen].target = "azure"
           /\ p.status.phase = "Applying"
    /\ pc = "writing" =>
           CASE Verdict(specs[p.gen]) = "ok" ->
                    p.status.phase \in {"Ready", "Applying", "Degraded"}
             [] Verdict(specs[p.gen]) = "blocked" -> p.status.phase = "Blocked"
             [] Verdict(specs[p.gen]) = "error"   -> p.status.phase = "Degraded"

\* The loop of applyObjects has dealt with all that is no longer to do.
AppliedSoFar ==
    pc = "applying" /\ exists =>
        \A o \in RenderedObjects(specs[p.gen]) :
            \/ \E i \in 1..Len(todo) : todo[i] = o
            \/ o.kind \in failed
            \/ Lasting(o) => AppliedSince(o, p.gen)

\* The status about to be written is about the copy's generation, and says
\* Ready only of what this pass has done.
WritesTruth ==
    pc = "writing" =>
        /\ p.status.obs = p.gen
        /\ p.status.conditions["Ready"].status = "True" =>
               /\ p.status.conditions["Ready"].gen = p.gen
               /\ exists => Applied(p.gen)

\* So does the stored status.
ReportsTruth ==
    status.conditions["Ready"].status = "True" =>
        /\ status.conditions["Ready"].gen \in 1..status.obs
        /\ Applied(status.conditions["Ready"].gen)

IInv ==
    /\ TypeOK
    /\ VersionsOrdered
    /\ VersionsCompared
    /\ RunsOrdered
    /\ PassFitsSpec
    /\ AppliedSoFar
    /\ WritesTruth
    /\ ReportsTruth
    /\ NeverAsleep

-----------------------------------------------------------------------------
(* Where the parts of a status come from that outlive the pass that set them. *)

\* The hash and the tools of st are of plans no later than generation g, and
\* what they say of the objects still holds.
HashFrom(st, g) ==
    st.hash # NoHash =>
        \E k \in 1..g :
            /\ Verdict(specs[k]) = "ok"
            /\ st.hash = PlanHash(specs[k])
            /\ Applied(k)

ToolsFrom(st, g) ==
    st.tools.entries # {} => \E k \in 1..g : ReportOf(st.tools.entries, k)

KindsOf(g) == {o.kind : o \in RenderedObjects(specs[g])}

\* The loop of applyObjects has an entry for the kind of every object that it
\* has dealt with, and for no other.
KindsSoFar ==
    /\ pc = "applying" =>
           KindsOf(p.gen) =
               applied \cup failed \cup {todo[i].kind : i \in 1..Len(todo)}
    /\ ~InPass => applied = {} /\ failed = {}

\* No copy of the status has anything in it that is later than its own
\* generation, and a pass works on what is no older than the cached status.
CopiesOrdered ==
    /\ cache.status.obs <= cache.gen
    /\ InPass => cache.status.obs <= p.gen

Origins ==
    exists =>
        /\ HashFrom(status, status.obs) /\ ToolsFrom(status, status.obs)
        /\ HashFrom(cache.status, cache.status.obs)
        /\ ToolsFrom(cache.status, cache.status.obs)
        /\ InPass => HashFrom(p.status, p.gen) /\ ToolsFrom(p.status, p.gen)

History == KindsSoFar /\ CopiesOrdered /\ Origins

\* The runs are numbered as they were posted, and every copy of the status names
\* one that it may name.
RunsRecorded ==
    /\ Len(posts) = runs
    /\ RunFrom(status, status.obs)
    /\ RunFrom(cache.status, cache.status.obs)
    /\ InPass => RunFrom(p.status, p.gen)

\* The content x was made from no later generation than the pass works on, nor
\* than the next one will: the cache never goes back.
Passed(x) ==
    x \notin {NoHash, Drifted} =>
        \E g \in 1..generation :
            /\ x = PlanHash(specs[g])
            /\ InPass => g <= p.gen
            /\ cache.gen # 0 => g <= cache.gen

ContentOrdered == (\A o \in Objects : Passed(live[o])) /\ Passed(pipeline)

-----------------------------------------------------------------------------
(* What a status says of the generation it is about. *)

\* No condition of st is about a later generation than g, and Degraded was never
\* set for a blocked one: a blocked pass leaves Degraded as it is.
StampedBy(st, g) ==
    /\ \A c \in ConditionTypes : st.conditions[c].gen <= g
    /\ st.conditions["Degraded"].status = "True" =>
           /\ st.conditions["Degraded"].gen # 0
           /\ Verdict(specs[st.conditions["Degraded"].gen]) # "blocked"

\* A status that says so has the tools of generation g.
ReportsOn(st, g) ==
    st.phase = "Ready" \/ st.lastError = "apply" =>
        g # 0 /\ ReportOf(st.tools.entries, g)

Stamps ==
    /\ StampedBy(status, status.obs)
    /\ StampedBy(cache.status, cache.status.obs)
    /\ InPass => StampedBy(p.status, p.gen)

\* The Validated condition is there before the adapters are called.
Stories ==
    /\ Agree(status)
    /\ pc = "writing" => Agree(p.status)
    /\ pc \in {"applying", "triggering"} =>
           /\ p.status.conditions["Validated"].gen = p.gen
           /\ p.status.conditions["Validated"].status = "True"

Reports ==
    exists =>
        /\ ReportsOn(status, status.obs)
        /\ pc = "writing" => ReportsOn(p.status, p.gen)

Testimony == Stamps /\ Stories /\ Reports
=============================================================================
