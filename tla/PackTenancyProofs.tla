------------------------- MODULE PackTenancyProofs --------------------------
(***************************************************************************)
(* Packs whose manifests have names that are apart do not share objects,   *)
(* for any set of Packs and of specs: the two theorems at the end.         *)
(***************************************************************************)
EXTENDS PackTenancy, TLAPS

-----------------------------------------------------------------------------
(* The inductive invariant. *)

\* A copy of Pack k holds at most one spec, one that users may write in k.
OwnSpecs(stores) ==
    \A k \in Packs :
        /\ stores[k].specs \subseteq SpecsOf[k]
        /\ \A s, t \in stores[k].specs : s = t

\* What a Pack was last Ready for is one of its own specs.
OwnReady(stores) == \A k \in Packs : stores[k].ready \subseteq SpecsOf[k]

\* An object's owner is a Pack that renders one of its name.
OwnersRender ==
    \A o \in Objects :
        live[o] # Nothing => \E k \in Packs : live[o].owner = {k} /\ o \in ObjectsOf(k)

\* The cache cannot fall back behind a Pack that has been Ready: passes that
\* are still to come put the same UID on its objects.
ReadyIsCached == \A k \in Packs : pack[k].ready # {} => cache[k].uid = pack[k].uid

TenancyInv ==
    /\ TypeOK
    /\ OwnSpecs(pack)
    /\ OwnSpecs(cache)
    /\ OwnReady(pack)
    /\ OwnersRender
    /\ ReadyIsCached
    /\ ReadyIsSafe

-----------------------------------------------------------------------------
(* Names. *)

LEMMA PrefixOfSame ==
    ASSUME NEW x \in Parts, NEW y \in Parts, NEW d \in Parts, NEW e \in Parts,
           x \o d = y \o e, Len(x) <= Len(y)
    PROVE  StartsWith(y, x)
<1>1. ASSUME NEW i \in 1..Len(x)
      PROVE  y[i] = x[i]
  <2>1. (x \o d)[i] = x[i]
    BY DEF Parts
  <2>2. (y \o e)[i] = y[i]
    BY DEF Parts
  <2> QED
    BY <2>1, <2>2
<1> QED
  BY <1>1 DEF StartsWith

\* Joined names are equal only if one begins like the other.
LEMMA JoinedNames ==
    ASSUME NEW x \in Parts, NEW y \in Parts, NEW d \in Parts, NEW e \in Parts,
           x \o d = y \o e
    PROVE  StartsWith(x, y) \/ StartsWith(y, x)
<1>1. Len(x) \in Nat /\ Len(y) \in Nat
  BY DEF Parts
<1>2. Len(x) <= Len(y) \/ Len(y) <= Len(x)
  BY <1>1
<1>3. CASE Len(x) <= Len(y)
  BY <1>3, PrefixOfSame
<1>4. CASE Len(y) <= Len(x)
  BY <1>4, PrefixOfSame
<1> QED
  BY <1>2, <1>3, <1>4

LEMMA SpecType ==
    ASSUME NEW k \in Packs, NEW s \in SpecsOf[k]
    PROVE  /\ s.name \in Parts
           /\ s.dashboards \subseteq Parts
           /\ s \in Specs
           /\ Rendered(s) \subseteq ObjectsOf(k)
           /\ Rendered(s) \subseteq Objects
<1>1. s \in [name: Parts, dashboards: SUBSET Parts]
  BY TenantsAssumption
<1>2. Rendered(s) \subseteq ObjectsOf(k)
  BY DEF ObjectsOf
<1>3. ObjectsOf(k) \subseteq Objects
  BY DEF Objects
<1> QED
  BY <1>1, <1>2, <1>3 DEF Specs

LEMMA DashboardRendered ==
    ASSUME NEW s, NEW o \in Rendered(s), o.kind = "GrafanaDashboard"
    PROVE  \E d \in s.dashboards : o.name = s.name \o d
<1> DEFINE rule      == [kind |-> "PrometheusRule", name |-> RuleName(s)]
           collector == [kind |-> "OpenTelemetryCollector", name |-> CollectorName(s)]
           dashboard(d) == [kind |-> "GrafanaDashboard", name |-> DashboardName(s, d)]
<1>1. rule.kind # o.kind /\ collector.kind # o.kind
  OBVIOUS
<1>2. o = rule \/ o = collector \/ \E d \in s.dashboards : o = dashboard(d)
  BY DEF Rendered
<1>3. PICK d \in s.dashboards : o = dashboard(d)
  BY <1>1, <1>2
<1>4. o.name = DashboardName(s, d)
  BY <1>3
<1> QED
  BY <1>4 DEF DashboardName

\* What two specs render has a name in common only if the names of the two
\* manifests do not stand apart.
LEMMA RenderedApart ==
    ASSUME NEW k \in Packs, NEW l \in Packs,
           NEW s \in SpecsOf[k], NEW t \in SpecsOf[l],
           NEW o \in Rendered(s), o \in Rendered(t)
    PROVE  StartsWith(s.name, t.name) \/ StartsWith(t.name, s.name)
<1>1. s.name \in Parts /\ t.name \in Parts
  BY SpecType
<1>2. CASE o.kind = "PrometheusRule"
  <2>1. s.name = t.name
    BY <1>2 DEF Rendered, RuleName
  <2> QED
    BY <2>1, <1>1 DEF StartsWith, Parts
<1>3. CASE o.kind = "OpenTelemetryCollector"
  <2>1. o.name = CollectorName(s) /\ o.name = CollectorName(t)
    BY <1>3 DEF Rendered
  <2> DEFINE word == "gateway"
  <2>2. word \in Words
    BY TenantsAssumption
  <2> HIDE DEF word
  <2>3. <<word>> \in Parts
    BY <2>2 DEF Parts
  <2>4. s.name \o <<word>> = t.name \o <<word>>
    BY <2>1 DEF CollectorName, word
  <2> QED
    BY <2>3, <2>4, <1>1, JoinedNames
<1>4. CASE o.kind = "GrafanaDashboard"
  <2>1. PICK d \in s.dashboards : o.name = s.name \o d
    BY <1>4, DashboardRendered
  <2>2. PICK e \in t.dashboards : o.name = t.name \o e
    BY <1>4, DashboardRendered
  <2>3. d \in Parts /\ e \in Parts
    BY SpecType
  <2> QED
    BY <2>1, <2>2, <2>3, <1>1, JoinedNames
<1> QED
  BY <1>2, <1>3, <1>4 DEF Rendered

\* Packs whose names are apart own disjoint sets of objects.
LEMMA ObjectsApart ==
    ASSUME NamesApart, NEW k \in Packs, NEW l \in Packs,
           NEW o \in ObjectsOf(k), o \in ObjectsOf(l)
    PROVE  k = l
<1>1. PICK s \in SpecsOf[k] : o \in Rendered(s)
  BY DEF ObjectsOf
<1>2. PICK t \in SpecsOf[l] : o \in Rendered(t)
  BY DEF ObjectsOf
<1>3. StartsWith(s.name, t.name) \/ StartsWith(t.name, s.name)
  BY <1>1, <1>2, RenderedApart
<1> QED
  BY <1>3 DEF NamesApart

-----------------------------------------------------------------------------
(* The invariant. *)

LEMMA TenancyInit == Init => TenancyInv
<1> SUFFICES ASSUME Init PROVE TenancyInv
  OBVIOUS
<1>1. TypeOK
  BY DEF Init, TypeOK, Stores, NoPack, Nothing
<1>2. OwnSpecs(pack) /\ OwnSpecs(cache) /\ OwnReady(pack)
  BY DEF Init, OwnSpecs, OwnReady, NoPack
<1>3. OwnersRender /\ ReadyIsCached /\ ReadyIsSafe
  BY DEF Init, OwnersRender, ReadyIsCached, ReadyIsSafe, NoPack
<1> QED
  BY <1>1, <1>2, <1>3 DEF TenancyInv

\* What applying some of what Pack k renders leaves true of the objects.
LEMMA ApplyStep ==
    ASSUME NamesApart, TenancyInv, NEW k \in Packs, NEW s \in cache[k].specs,
           NEW some \in SUBSET Rendered(s), Apply(k, some)
    PROVE  /\ live' \in [Objects -> [owner: SUBSET Packs, uid: Nat]]
           /\ OwnersRender'
           /\ \A l \in Packs : \A t \in pack[l].ready : \A o \in Rendered(t) :
                  live'[o] = OwnedBy(l, pack[l].uid)
           /\ \A o \in some : live'[o] = OwnedBy(k, cache[k].uid)
<1> USE DEF TenancyInv
<1>1. s \in SpecsOf[k]
  BY DEF OwnSpecs
<1>2. some \subseteq ObjectsOf(k) /\ some \subseteq Objects
  BY <1>1, SpecType
<1>3. OwnedBy(k, cache[k].uid) \in [owner: SUBSET Packs, uid: Nat]
  BY DEF OwnedBy, TypeOK, Stores
<1>4. live' \in [Objects -> [owner: SUBSET Packs, uid: Nat]]
  BY <1>3 DEF Apply, TypeOK
<1>5. \A o \in some : live'[o] = OwnedBy(k, cache[k].uid)
  BY <1>2 DEF Apply
<1>6. \A o \in Objects \ some : live'[o] = live[o]
  BY DEF Apply
<1>7. OwnersRender'
  BY <1>2, <1>5, <1>6 DEF OwnersRender, OwnedBy, Nothing
<1>8. ASSUME NEW l \in Packs, NEW t \in pack[l].ready, NEW o \in Rendered(t)
      PROVE  live'[o] = OwnedBy(l, pack[l].uid)
  <2>1. t \in SpecsOf[l]
    BY DEF OwnReady
  <2>2. o \in ObjectsOf(l) /\ o \in Objects
    BY <2>1, SpecType
  <2>3. CASE o \in some
    <3>1. k = l
      BY <2>3, <2>2, <1>2, ObjectsApart
    <3>2. cache[l].uid = pack[l].uid
      BY DEF ReadyIsCached
    <3> QED
      BY <2>3, <3>1, <3>2, <1>5
  <2>4. CASE o \notin some
    BY <2>4, <2>2, <1>6 DEF ReadyIsSafe
  <2> QED
    BY <2>3, <2>4
<1> QED
  BY <1>4, <1>5, <1>7, <1>8

\* Two copies of a Pack that are equal hold equal specs; a step that moves no
\* object leaves the owners as they are.
LEMMA TenancyStep == ASSUME NamesApart, TenancyInv, [Next]_vars PROVE TenancyInv'
<1> USE DEF TenancyInv
<1>1. ASSUME NEW k \in Packs, Create(k)
      PROVE  TenancyInv'
  <2>1. PICK s \in SpecsOf[k] :
            pack' = [pack EXCEPT ![k] = [uid |-> lastUid', specs |-> {s}, ready |-> {}]]
    BY <1>1 DEF Create
  <2>2. UNCHANGED <<cache, live, edits, faults>> /\ lastUid' = lastUid + 1
    BY <1>1 DEF Create
  <2>3. s \in Specs
    BY SpecType
  <2>4. TypeOK'
    BY <2>1, <2>2, <2>3 DEF TypeOK, Stores
  <2>5. pack'[k].specs = {s} /\ pack'[k].ready = {} /\ \A l \in Packs \ {k} : pack'[l] = pack[l]
    BY <2>1 DEF TypeOK
  <2>6. OwnSpecs(pack)' /\ OwnSpecs(cache)' /\ OwnReady(pack)'
    BY <2>2, <2>5 DEF OwnSpecs, OwnReady
  <2>7. OwnersRender' /\ ReadyIsCached' /\ ReadyIsSafe'
    BY <2>2, <2>5 DEF OwnersRender, ReadyIsCached, ReadyIsSafe
  <2> QED
    BY <2>4, <2>6, <2>7
<1>2. ASSUME NEW k \in Packs, Edit(k)
      PROVE  TenancyInv'
  <2>1. PICK s \in SpecsOf[k] : pack' = [pack EXCEPT ![k].specs = {s}]
    BY <1>2 DEF Edit
  <2>2. UNCHANGED <<cache, live, lastUid, faults>> /\ edits' = edits + 1
    BY <1>2 DEF Edit
  <2>3. s \in Specs
    BY SpecType
  <2>4. TypeOK'
    BY <2>1, <2>2, <2>3 DEF TypeOK, Stores
  <2>5. pack'[k].specs = {s} /\ \A l \in Packs \ {k} : pack'[l].specs = pack[l].specs
    BY <2>1 DEF TypeOK, Stores
  <2>6. \A l \in Packs : pack'[l].ready = pack[l].ready /\ pack'[l].uid = pack[l].uid
    BY <2>1 DEF TypeOK, Stores
  <2>7. OwnSpecs(pack)' /\ OwnSpecs(cache)' /\ OwnReady(pack)'
    BY <2>2, <2>5, <2>6 DEF OwnSpecs, OwnReady
  <2>8. OwnersRender' /\ ReadyIsCached' /\ ReadyIsSafe'
    BY <2>2, <2>6 DEF OwnersRender, ReadyIsCached, ReadyIsSafe
  <2> QED
    BY <2>4, <2>7, <2>8
<1>3. ASSUME NEW k \in Packs, Delete(k)
      PROVE  TenancyInv'
  <2>1. UNCHANGED <<cache, live, lastUid, edits, faults>>
    BY <1>3 DEF Delete
  <2>2. pack'[k] = NoPack /\ (\A l \in Packs \ {k} : pack'[l] = pack[l]) /\ TypeOK'
    BY <1>3 DEF Delete, TypeOK, Stores, NoPack
  <2>3. OwnSpecs(pack)' /\ OwnSpecs(cache)' /\ OwnReady(pack)'
    BY <2>1, <2>2 DEF OwnSpecs, OwnReady, NoPack
  <2>4. OwnersRender' /\ ReadyIsCached' /\ ReadyIsSafe'
    BY <2>1, <2>2 DEF OwnersRender, ReadyIsCached, ReadyIsSafe, NoPack
  <2> QED
    BY <2>2, <2>3, <2>4
<1>4. ASSUME NEW k \in Packs, Deliver(k)
      PROVE  TenancyInv'
  <2>1. UNCHANGED <<pack, live, lastUid, edits, faults>>
    BY <1>4 DEF Deliver
  <2>2. cache'[k] = pack[k] /\ (\A l \in Packs \ {k} : cache'[l] = cache[l]) /\ TypeOK'
    BY <1>4 DEF Deliver, TypeOK
  <2>3. OwnSpecs(pack)' /\ OwnSpecs(cache)' /\ OwnReady(pack)'
    BY <2>1, <2>2 DEF OwnSpecs, OwnReady
  <2>4. OwnersRender' /\ ReadyIsCached' /\ ReadyIsSafe'
    BY <2>1, <2>2 DEF OwnersRender, ReadyIsCached, ReadyIsSafe
  <2> QED
    BY <2>2, <2>3, <2>4
<1>5. ASSUME NEW k \in Packs, Pass(k)
      PROVE  TenancyInv'
  <2>1. PICK s \in cache[k].specs : Apply(k, Rendered(s))
    BY <1>5 DEF Pass
  <2>2. UNCHANGED <<cache, lastUid, edits, faults>> /\ Report(k)
    BY <1>5 DEF Pass
  <2>3. /\ live' \in [Objects -> [owner: SUBSET Packs, uid: Nat]]
        /\ OwnersRender'
        /\ \A l \in Packs : \A t \in pack[l].ready : \A o \in Rendered(t) :
               live'[o] = OwnedBy(l, pack[l].uid)
        /\ \A o \in Rendered(s) : live'[o] = OwnedBy(k, cache[k].uid)
    BY <2>1, ApplyStep
  <2>4. CASE cache[k] = pack[k]
    <3>1. pack' = [pack EXCEPT ![k].ready = cache[k].specs]
      BY <2>2, <2>4 DEF Report, Current
    <3>2. TypeOK'
      BY <2>2, <2>3, <3>1 DEF TypeOK, Stores
    <3>3. \A l \in Packs : pack'[l].specs = pack[l].specs /\ pack'[l].uid = pack[l].uid
      BY <3>1 DEF TypeOK, Stores
    <3>4. pack'[k].ready = cache[k].specs /\ \A l \in Packs \ {k} : pack'[l].ready = pack[l].ready
      BY <3>1 DEF TypeOK, Stores
    <3>5. OwnSpecs(pack)' /\ OwnSpecs(cache)' /\ OwnReady(pack)'
      BY <2>2, <3>3, <3>4 DEF OwnSpecs, OwnReady
    <3>6. ReadyIsCached'
      BY <2>2, <2>4, <3>3, <3>4 DEF ReadyIsCached
    <3>7. cache[k].specs = {s}
      BY <2>1 DEF OwnSpecs
    <3>8. ReadyIsSafe'
      BY <2>3, <2>4, <3>3, <3>4, <3>7 DEF ReadyIsSafe
    <3> QED
      BY <2>3, <3>2, <3>5, <3>6, <3>8
  <2>5. CASE cache[k] # pack[k]
    <3>1. UNCHANGED pack
      BY <2>2, <2>5 DEF Report, Current
    <3>2. TypeOK'
      BY <2>2, <2>3, <3>1 DEF TypeOK
    <3>3. OwnSpecs(pack)' /\ OwnSpecs(cache)' /\ OwnReady(pack)' /\ ReadyIsCached'
      BY <2>2, <3>1 DEF OwnSpecs, OwnReady, ReadyIsCached
    <3>4. ReadyIsSafe'
      BY <2>3, <3>1 DEF ReadyIsSafe
    <3> QED
      BY <2>3, <3>2, <3>3, <3>4
  <2> QED
    BY <2>4, <2>5
<1>6. ASSUME NEW k \in Packs, PassFails(k)
      PROVE  TenancyInv'
  <2>0. PICK s \in cache[k].specs : \E some \in SUBSET Rendered(s) : Apply(k, some)
    BY <1>6 DEF PassFails
  <2>1. PICK some \in SUBSET Rendered(s) : Apply(k, some)
    BY <2>0
  <2>2. UNCHANGED <<cache, lastUid, edits>> /\ faults' = faults + 1
    BY <1>6 DEF PassFails
  <2>3. /\ live' \in [Objects -> [owner: SUBSET Packs, uid: Nat]]
        /\ OwnersRender'
        /\ \A l \in Packs : \A t \in pack[l].ready : \A o \in Rendered(t) :
               live'[o] = OwnedBy(l, pack[l].uid)
    BY <2>1, ApplyStep
  <2>4. UNCHANGED pack \/ pack' = [pack EXCEPT ![k].ready = {}]
    BY <1>6 DEF PassFails
  <2>5. TypeOK'
    <3>1. pack' \in [Packs -> Stores]
      BY <2>4 DEF TypeOK, Stores
    <3>2. faults' \in Nat
      BY <2>2 DEF TypeOK
    <3> QED
      BY <2>2, <2>3, <3>1, <3>2 DEF TypeOK
  <2>6. \A l \in Packs :
            /\ pack'[l].specs = pack[l].specs
            /\ pack'[l].uid = pack[l].uid
            /\ pack'[l].ready \subseteq pack[l].ready
    BY <2>4 DEF TypeOK, Stores
  <2>7. OwnSpecs(pack)' /\ OwnSpecs(cache)' /\ OwnReady(pack)' /\ ReadyIsCached'
    BY <2>2, <2>6 DEF OwnSpecs, OwnReady, ReadyIsCached
  <2>8. ReadyIsSafe'
    BY <2>3, <2>6 DEF ReadyIsSafe
  <2> QED
    BY <2>3, <2>5, <2>7, <2>8
<1>7. ASSUME NEW x \in Objects, Collect(x)
      PROVE  TenancyInv'
  <2>1. UNCHANGED <<pack, cache, lastUid, edits, faults>>
    BY <1>7 DEF Collect
  <2>2. live'[x] = Nothing /\ (\A o \in Objects \ {x} : live'[o] = live[o]) /\ TypeOK'
    BY <1>7 DEF Collect, TypeOK, Nothing
  <2>3. OwnSpecs(pack)' /\ OwnSpecs(cache)' /\ OwnReady(pack)' /\ ReadyIsCached'
    BY <2>1 DEF OwnSpecs, OwnReady, ReadyIsCached
  <2>4. OwnersRender'
    BY <2>2 DEF OwnersRender
  <2>5. ASSUME NEW k \in Packs, NEW s \in pack[k].ready, NEW o \in Rendered(s)
        PROVE  live'[o] = OwnedBy(k, pack[k].uid)
    <3>1. live[o] = OwnedBy(k, pack[k].uid) /\ o \in Objects
      BY SpecType DEF ReadyIsSafe, OwnReady
    <3>2. ~OwnerGone(o)
      BY <3>1 DEF OwnerGone, OwnedBy
    <3>3. o # x
      BY <1>7, <3>2 DEF Collect
    <3> QED
      BY <3>1, <3>3, <2>2
  <2>6. ReadyIsSafe'
    BY <2>1, <2>5 DEF ReadyIsSafe
  <2> QED
    BY <2>2, <2>3, <2>4, <2>6
<1>8. CASE UNCHANGED vars
  BY <1>8 DEF vars, TypeOK, OwnSpecs, OwnReady, OwnersRender, ReadyIsCached, ReadyIsSafe
<1> QED
  BY <1>1, <1>2, <1>3, <1>4, <1>5, <1>6, <1>7, <1>8 DEF Next

LEMMA TenancyInvariant == ASSUME NamesApart PROVE Spec => []TenancyInv
<1>1. TenancyInv /\ [Next]_vars => TenancyInv'
  BY TenancyStep
<1> QED
  BY <1>1, TenancyInit, PTL DEF Spec

-----------------------------------------------------------------------------
\* If the manifests' names are apart, what a Pack is Ready for exists and is its
\* own, whatever is deleted, recreated, edited or fails (render.go's names, the
\* UID of ownerRef and the conflict check of the status update).
THEOREM ReadyIsOwned == ASSUME NamesApart PROVE Spec => []ReadyIsSafe
<1>1. TenancyInv => ReadyIsSafe
  BY DEF TenancyInv
<1> QED
  BY <1>1, TenancyInvariant, PTL

\* If the manifests' names are apart, no object ever passes from one Pack to
\* another, although ForceOwnership would let it.
THEOREM PacksOwnTheirObjects == ASSUME NamesApart PROVE Spec => ObjectsKeepTheirOwner
<1>1. ASSUME TenancyInv, TenancyInv', NEW o \in Objects, live[o] # Nothing, live'[o] # Nothing
      PROVE  live'[o].owner = live[o].owner
  <2>1. PICK k \in Packs : live[o].owner = {k} /\ o \in ObjectsOf(k)
    BY <1>1 DEF TenancyInv, OwnersRender
  <2>2. PICK l \in Packs : live'[o].owner = {l} /\ o \in ObjectsOf(l)
    BY <1>1 DEF TenancyInv, OwnersRender
  <2>3. k = l
    BY <2>1, <2>2, ObjectsApart
  <2> QED
    BY <2>1, <2>2, <2>3
<1> DEFINE Keeps == \A o \in Objects :
          live[o] # Nothing /\ live'[o] # Nothing => live'[o].owner = live[o].owner
<1>2. TenancyInv /\ TenancyInv' => [Keeps]_live
  BY <1>1
<1>3. TenancyInv /\ TenancyInv' /\ [Next]_vars => [Keeps]_live
  BY <1>2
<1>4. ObjectsKeepTheirOwner <=> [][Keeps]_live
  BY DEF ObjectsKeepTheirOwner
<1> QED
  BY <1>3, <1>4, TenancyInvariant, PTL DEF Spec
=============================================================================
