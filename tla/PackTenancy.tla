---------------------------- MODULE PackTenancy -----------------------------
(***************************************************************************)
(* Several Packs of one namespace with Kubernetes targets and manifests    *)
(* that plan, and the objects they share by name.                          *)
(*                                                                         *)
(* One worker serves all Packs, so passes of different Packs never         *)
(* overlap; PackController has the steps of one pass, here it is a single  *)
(* step that applies all of what it renders, or, at a fault, some of it.   *)
(* Users edit, delete and recreate Packs while the cache trails them.      *)
(*                                                                         *)
(* The name of an object is a string of parts joined by hyphens, and is    *)
(* modelled as the sequence of those parts: "pack-a-b" is <<"a", "b">>.    *)
(***************************************************************************)
EXTENDS Naturals, Sequences, FiniteSets

CONSTANTS
    Packs,      \* the Packs, by metadata.name
    Words,      \* the words that names are joined from
    SpecsOf,    \* for each, the specs its users may write
    MaxUid,     \* bound: how many Packs are ever created
    MaxEdits,   \* bound: how many edits there are
    MaxFaults   \* bound: how many passes fail on the way

Specs == UNION {SpecsOf[k] : k \in Packs}

Parts == Seq(Words)

\* name is metadata.name of the manifest, not of the Pack.
ASSUME TenantsAssumption ==
    /\ "gateway" \in Words
    /\ SpecsOf \in [Packs -> SUBSET [name: Parts, dashboards: SUBSET Parts]]
    /\ MaxUid \in Nat
    /\ MaxEdits \in Nat
    /\ MaxFaults \in Nat

-----------------------------------------------------------------------------
RuleName(s) == s.name

\* Defective variant: the name of a dashboard is its ID.
DashboardId(s, d) == d

DashboardName(s, d) == s.name \o d

CollectorName(s) == s.name \o <<"gateway">>

\* What a pass over the spec applies.
Rendered(s) ==
    {[kind |-> "PrometheusRule", name |-> RuleName(s)],
     [kind |-> "OpenTelemetryCollector", name |-> CollectorName(s)]}
    \cup {[kind |-> "GrafanaDashboard", name |-> DashboardName(s, d)] :
             d \in s.dashboards}

ObjectsOf(k) == UNION {Rendered(s) : s \in SpecsOf[k]}

Objects == UNION {ObjectsOf(k) : k \in Packs}

-----------------------------------------------------------------------------
VARIABLES
    pack,     \* what the API server stores under each name
    cache,    \* what the informer has of it
    live,     \* the objects in the cluster: for each, who applied it last
    lastUid,  \* the UID of the Pack created last
    edits,    \* how many edits there have been
    faults    \* how many passes have failed

vars == <<pack, cache, live, lastUid, edits, faults>>

\* A stored Pack has a UID, a spec and the specs its status says are Ready
\* (none, or the one it was last Ready for).
NoPack == [uid |-> 0, specs |-> {}, ready |-> {}]

Exists(k) == pack[k].uid # 0

\* The owner reference: kind and name of the Pack, and its UID.
Nothing == [owner |-> {}, uid |-> 0]

\* Defective variant: the owner reference has no UID of the Pack.
OwnedByName(k, uid) == [owner |-> {k}, uid |-> 1]

OwnedBy(k, uid) == [owner |-> {k}, uid |-> uid]

Init ==
    /\ pack = [k \in Packs |-> NoPack]
    /\ cache = pack
    /\ live = [o \in Objects |-> Nothing]
    /\ lastUid = 0
    /\ edits = 0
    /\ faults = 0

\* Also a Pack that existed before: under its old name it gets a new UID.
Create(k) ==
    /\ ~Exists(k)
    /\ lastUid < MaxUid
    /\ lastUid' = lastUid + 1
    /\ \E s \in SpecsOf[k] :
        pack' = [pack EXCEPT ![k] = [uid |-> lastUid', specs |-> {s}, ready |-> {}]]
    /\ UNCHANGED <<cache, live, edits, faults>>

Edit(k) ==
    /\ Exists(k)
    /\ edits < MaxEdits
    /\ edits' = edits + 1
    /\ \E s \in SpecsOf[k] \ pack[k].specs :
        pack' = [pack EXCEPT ![k].specs = {s}]
    /\ UNCHANGED <<cache, live, lastUid, faults>>

Delete(k) ==
    /\ Exists(k)
    /\ pack' = [pack EXCEPT ![k] = NoPack]
    /\ UNCHANGED <<cache, live, lastUid, edits, faults>>

Deliver(k) ==
    /\ cache[k] # pack[k]
    /\ cache' = [cache EXCEPT ![k] = pack[k]]
    /\ UNCHANGED <<pack, live, lastUid, edits, faults>>

\* Server-side apply with one field manager for all Packs and ownership
\* forced: content, labels and the one owner reference are all replaced.
Apply(k, objects) ==
    live' = [o \in Objects |->
                IF o \in objects THEN OwnedBy(k, cache[k].uid) ELSE live[o]]

\* Defective variant: the update is a patch that carries no resourceVersion.
Stored(k) == Exists(k)

\* The status update is refused when the stored Pack is not the cached one.
\* (Versions are compared by what they hold: an edit undone is no edit.)
Current(k) == cache[k] = pack[k]

Report(k) ==
    IF Current(k)
    THEN pack' = [pack EXCEPT ![k].ready = cache[k].specs]
    ELSE UNCHANGED pack

Pass(k) ==
    /\ \E s \in cache[k].specs : Apply(k, Rendered(s))
    /\ Report(k)
    /\ UNCHANGED <<cache, lastUid, edits, faults>>

\* Some calls fail, or the worker dies: nothing new is reported as Ready.
PassFails(k) ==
    /\ faults < MaxFaults
    /\ faults' = faults + 1
    /\ \E s \in cache[k].specs : \E some \in SUBSET Rendered(s) : Apply(k, some)
    /\ \/ UNCHANGED pack
       \/ Current(k) /\ pack' = [pack EXCEPT ![k].ready = {}]
    /\ UNCHANGED <<cache, lastUid, edits>>

\* The owner of an object is gone when no Pack has its name and its UID.
OwnerGone(o) == \A k \in live[o].owner : pack[k].uid # live[o].uid

Collect(o) ==
    /\ live[o] # Nothing
    /\ OwnerGone(o)
    /\ live' = [live EXCEPT ![o] = Nothing]
    /\ UNCHANGED <<pack, cache, lastUid, edits, faults>>

Next ==
    \/ \E k \in Packs : Create(k) \/ Edit(k) \/ Delete(k)
    \/ \E k \in Packs : Deliver(k) \/ Pass(k) \/ PassFails(k)
    \/ \E o \in Objects : Collect(o)

Spec == Init /\ [][Next]_vars

\* Every Pack in the cache has its pass again and again, by events and by the
\* resync of a successful pass; the informer and the collector keep going.
Fairness ==
    /\ \A k \in Packs : WF_vars(Deliver(k)) /\ WF_vars(Pass(k))
    /\ \A o \in Objects : WF_vars(Collect(o))

FairSpec == Spec /\ Fairness

-----------------------------------------------------------------------------
(***************************************************************************)
(* Properties.                                                             *)
(***************************************************************************)

Stores == [uid: Nat, specs: SUBSET Specs, ready: SUBSET Specs]

TypeOK ==
    /\ pack \in [Packs -> Stores]
    /\ cache \in [Packs -> Stores]
    /\ live \in [Objects -> [owner: SUBSET Packs, uid: Nat]]
    /\ lastUid \in Nat
    /\ edits \in Nat
    /\ faults \in Nat

\* x comes at the beginning of y.
StartsWith(y, x) == Len(x) <= Len(y) /\ \A i \in 1..Len(x) : y[i] = x[i]

\* No Pack's manifest is named like another's, nor like the beginning of it.
NamesApart ==
    \A k, l \in Packs : k # l =>
        \A s \in SpecsOf[k], t \in SpecsOf[l] : ~StartsWith(s.name, t.name)

\* An object never passes from one Pack to another, not even when a Pack is
\* deleted, recreated or edited while a pass over its old self is under way
\* (the names Prometheus, Grafana and OTel give, and ForceOwnership).
ObjectsKeepTheirOwner ==
    [][\A o \in Objects :
          live[o] # Nothing /\ live'[o] # Nothing => live'[o].owner = live[o].owner]_live

\* What a Pack is Ready for exists and belongs to the Pack itself, not to an
\* earlier one of its name: the collector is not about to remove it (ownerRef's
\* UID, and the resourceVersion of the status update).
ReadyIsSafe ==
    \A k \in Packs : \A s \in pack[k].ready : \A o \in Rendered(s) :
        live[o] = OwnedBy(k, pack[k].uid)

\* If users stop, each Pack that is left has what it renders, and nothing is
\* left of those that are gone.
TenantsSettle ==
    <>[](/\ \A k \in Packs : \A s \in pack[k].specs : \A o \in Rendered(s) :
                live[o] = OwnedBy(k, pack[k].uid)
         /\ \A o \in Objects : live[o] # Nothing => ~OwnerGone(o))

\* docs/operator-design.md section 5.3, "A bug or compromise in one pack cannot
\* delete another pack's dashboards or alerts": what is removed is not what
\* another Pack is Ready for.  It is, when both render an object of that name
\* and the one deleted has applied it last.
NoCrossDeletion ==
    [][\A o \in Objects :
          live[o] # Nothing /\ live'[o] = Nothing =>
              \A k \in Packs : \A s \in pack[k].ready : o \notin Rendered(s)]_live
=============================================================================
