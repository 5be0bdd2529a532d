------------------------- MODULE PackManifestProofs -------------------------
(***************************************************************************)
(* What passes the reference lint and is rendered rests on declared SLOs,  *)
(* has every alert the lint knows of, and carries a label that tells it    *)
(* apart, for every set of manifests.                                      *)
(***************************************************************************)
EXTENDS PackManifest, FiniteSetTheorems, TLAPS

-----------------------------------------------------------------------------
(***************************************************************************)
(* Counting.                                                               *)
(***************************************************************************)

\* If the subsets upTo[q] of a finite set grow, one element at least each time,
\* then their sizes number the elements.
LEMMA CountedOnce ==
    ASSUME NEW P, IsFiniteSet(P), NEW upTo \in [P -> SUBSET P],
           \A q \in P : q \in upTo[q],
           \A q, r \in P : upTo[q] \subseteq upTo[r] \/ upTo[r] \subseteq upTo[q],
           \A q, r \in P : upTo[q] = upTo[r] => q = r
    PROVE  /\ Cardinality(P) \in Nat
           /\ \A q \in P : Cardinality(upTo[q]) \in 1..Cardinality(P)
           /\ \A q, r \in P : Cardinality(upTo[q]) = Cardinality(upTo[r]) => q = r
           /\ \A k \in 1..Cardinality(P) : \E q \in P : Cardinality(upTo[q]) = k
<1> DEFINE n == Cardinality(P)
           rank == [q \in P |-> Cardinality(upTo[q])]
<1>1. n \in Nat
  BY FS_CardinalityType
<1>2. ASSUME NEW q \in P
      PROVE  IsFiniteSet(upTo[q]) /\ rank[q] \in 1..n
  <2>1. /\ IsFiniteSet(upTo[q])
        /\ Cardinality(upTo[q]) <= n
        /\ Cardinality(upTo[q]) \in Nat
    BY FS_Subset, FS_CardinalityType
  <2>2. Cardinality(upTo[q]) # 0
    BY <2>1, FS_EmptySet
  <2> QED
    BY <1>1, <2>1, <2>2
<1>3. ASSUME NEW q \in P, NEW r \in P, upTo[q] \subseteq upTo[r], rank[q] = rank[r]
      PROVE  q = r
  <2>1. upTo[q] = upTo[r]
    BY <1>2, <1>3, FS_Subset
  <2> QED
    BY <2>1
<1>4. \A q, r \in P : rank[q] = rank[r] => q = r
  BY <1>3
<1>5. rank \in Injection(P, 1..n)
  BY <1>2, <1>4 DEF Injection, IsInjective
<1>6. rank \in Surjection(P, 1..n)
  <2>1. IsFiniteSet(1..n) /\ Cardinality(1..n) = n
    BY <1>1, FS_Interval
  <2> QED
    BY <1>1, <1>5, <2>1, FS_Injection
<1>7. \A k \in 1..n : \E q \in P : rank[q] = k
  BY <1>6 DEF Surjection
<1> QED
  BY <1>1, <1>2, <1>4, <1>7

-----------------------------------------------------------------------------
(***************************************************************************)
(* The nested loops of buildPrometheus.                                    *)
(***************************************************************************)

LEMMA PlacesType ==
    ASSUME NEW m \in Manifests
    PROVE  /\ IsFiniteSet(Places(m))
           /\ \A q \in Places(m) :
                /\ q = <<q[1], q[2]>>
                /\ q[1] \in DOMAIN m.alerts
                /\ q[2] \in DOMAIN m.alerts[q[1]].windows
                /\ q[1] \in Nat /\ q[2] \in Nat
           /\ \A i \in DOMAIN m.alerts : \A j \in DOMAIN m.alerts[i].windows :
                <<i, j>> \in Places(m)
<1> DEFINE rows(i) == {i} \X DOMAIN m.alerts[i].windows
           R == {rows(i) : i \in DOMAIN m.alerts}
<1>1. /\ Len(m.alerts) \in Nat /\ DOMAIN m.alerts = 1..Len(m.alerts)
      /\ \A i \in DOMAIN m.alerts : m.alerts[i] \in BurnRateAlerts
  BY ManifestsAssumption
<1>2. ASSUME NEW i \in DOMAIN m.alerts
      PROVE  /\ Len(m.alerts[i].windows) \in Nat
             /\ DOMAIN m.alerts[i].windows = 1..Len(m.alerts[i].windows)
  <2>1. m.alerts[i].windows \in Seq(BurnWindows)
    BY <1>1 DEF BurnRateAlerts
  <2> QED
    BY <2>1
<1>3. Places(m) = UNION R
  BY DEF Places
<1>4. IsFiniteSet(DOMAIN m.alerts)
  BY <1>1, FS_Interval
<1>5. IsFiniteSet(R)
  <2> DEFINE f == [i \in DOMAIN m.alerts |-> rows(i)]
  <2>1. f \in Surjection(DOMAIN m.alerts, R)
    BY DEF Surjection
  <2> QED
    BY <2>1, <1>4, FS_Surjection
<1>6. \A T \in R : IsFiniteSet(T)
  <2> SUFFICES ASSUME NEW i \in DOMAIN m.alerts PROVE IsFiniteSet(rows(i))
    OBVIOUS
  <2>1. IsFiniteSet(DOMAIN m.alerts[i].windows)
    BY <1>2, FS_Interval
  <2> QED
    BY <2>1, FS_Singleton, FS_Product
<1>7. IsFiniteSet(Places(m))
  BY <1>3, <1>5, <1>6, FS_UNION
<1>8. \A q \in Places(m) : \E i \in DOMAIN m.alerts : q \in rows(i)
  BY <1>3
<1>9. \A i \in DOMAIN m.alerts : rows(i) \subseteq Places(m)
  BY <1>3
<1> QED
  BY <1>1, <1>2, <1>7, <1>8, <1>9

\* Each place is visited once: the number of places visited up to it tells it
\* from the others, and there is one for each number.
LEMMA EachPlaceOnce ==
    ASSUME NEW m \in Manifests
    PROVE  /\ Cardinality(Places(m)) \in Nat
           /\ \A q \in Places(m) :
                Cardinality(Visited(m, q)) \in 1..Cardinality(Places(m))
           /\ \A q, r \in Places(m) :
                Cardinality(Visited(m, q)) = Cardinality(Visited(m, r)) => q = r
           /\ \A k \in 1..Cardinality(Places(m)) :
                \E q \in Places(m) : Cardinality(Visited(m, q)) = k
<1> DEFINE P == Places(m)
           upTo == [q \in P |-> Visited(m, q)]
<1>1. \A q, r \in P : NotAfter(q, q) /\ (NotAfter(q, r) \/ NotAfter(r, q))
  BY PlacesType DEF NotAfter
<1>2. \A q, r \in P : NotAfter(q, r) /\ NotAfter(r, q) => q = r
  BY PlacesType DEF NotAfter
<1>3. \A q, r, s \in P : NotAfter(q, r) /\ NotAfter(r, s) => NotAfter(q, s)
  BY PlacesType DEF NotAfter
<1>4. upTo \in [P -> SUBSET P] /\ \A q \in P : q \in upTo[q]
  BY <1>1 DEF Visited
<1>5. \A q, r \in P : upTo[q] \subseteq upTo[r] \/ upTo[r] \subseteq upTo[q]
  BY <1>1, <1>3 DEF Visited
<1>6. \A q, r \in P : upTo[q] = upTo[r] => q = r
  BY <1>1, <1>2 DEF Visited
<1>7. IsFiniteSet(P)
  BY PlacesType
<1>8. \A q \in P : upTo[q] = Visited(m, q)
  OBVIOUS
<1> HIDE DEF P, upTo
<1>9. /\ Cardinality(P) \in Nat
      /\ \A q \in P : Cardinality(upTo[q]) \in 1..Cardinality(P)
      /\ \A q, r \in P : Cardinality(upTo[q]) = Cardinality(upTo[r]) => q = r
      /\ \A k \in 1..Cardinality(P) : \E q \in P : Cardinality(upTo[q]) = k
  BY <1>4, <1>5, <1>6, <1>7, CountedOnce
<1> QED
  BY <1>8, <1>9 DEF P

\* The planned alerts are those of the places, no more and no fewer.
LEMMA PlannedAlerts ==
    ASSUME NEW m \in Manifests
    PROVE  /\ Elements(AlertRules(m)) = {RuleAt(m, q) : q \in Places(m)}
           /\ AlertRules(m) \in Seq({RuleAt(m, q) : q \in Places(m)})
<1> DEFINE n == Cardinality(Places(m))
           at(k) == CHOOSE q \in Places(m) : Cardinality(Visited(m, q)) = k
           A == {RuleAt(m, q) : q \in Places(m)}
<1>1. AlertRules(m) = [k \in 1..n |-> RuleAt(m, at(k))] /\ n \in Nat
  BY EachPlaceOnce DEF AlertRules
<1>2. \A k \in 1..n : at(k) \in Places(m) /\ Cardinality(Visited(m, at(k))) = k
  BY EachPlaceOnce
<1>3. \A q \in Places(m) : \E k \in 1..n : at(k) = q
  BY <1>2, EachPlaceOnce
<1> HIDE DEF n, at
<1>4. Elements(AlertRules(m)) = {RuleAt(m, at(k)) : k \in 1..n}
  BY <1>1 DEF Elements
<1>5. {RuleAt(m, at(k)) : k \in 1..n} = A
  BY <1>2, <1>3
<1>6. AlertRules(m) \in Seq(A)
  BY <1>1, <1>2
<1> QED
  BY <1>4, <1>5, <1>6

-----------------------------------------------------------------------------
(***************************************************************************)
(* The hash.                                                               *)
(***************************************************************************)

\* The how-manieth of its name the i-th element is.
Turn(list, i) == Cardinality(Named(list, list[i].name) \cap 1..i)

\* The elements of a name are counted up, each once.
LEMMA NamedOnce ==
    ASSUME NEW S, NEW list \in Seq(S), NEW n
    PROVE  LET N == Named(list, n) IN
           /\ Cardinality(N) \in Nat
           /\ \A i \in N : Cardinality(N \cap 1..i) \in 1..Cardinality(N)
           /\ \A i, j \in N : Cardinality(N \cap 1..i) = Cardinality(N \cap 1..j) => i = j
           /\ \A k \in 1..Cardinality(N) : \E i \in N : Cardinality(N \cap 1..i) = k
<1> DEFINE N == Named(list, n)
           upTo == [i \in N |-> N \cap 1..i]
<1>1. Len(list) \in Nat /\ DOMAIN list = 1..Len(list) /\ N \subseteq 1..Len(list)
  BY DEF Named
<1>2. IsFiniteSet(N)
  <2>1. IsFiniteSet(1..Len(list)) /\ N \in SUBSET (1..Len(list))
    BY <1>1, FS_Interval
  <2> QED
    BY <2>1, FS_Subset
<1>3. upTo \in [N -> SUBSET N] /\ \A i \in N : i \in upTo[i]
  BY <1>1
<1>4. \A i, j \in N : upTo[i] \subseteq upTo[j] \/ upTo[j] \subseteq upTo[i]
  BY <1>1
<1>5. \A i, j \in N : upTo[i] = upTo[j] => i = j
  BY <1>1
<1>6. \A i \in N : upTo[i] = N \cap 1..i
  OBVIOUS
<1> HIDE DEF N, upTo
<1>7. /\ Cardinality(N) \in Nat
      /\ \A i \in N : Cardinality(upTo[i]) \in 1..Cardinality(N)
      /\ \A i, j \in N : Cardinality(upTo[i]) = Cardinality(upTo[j]) => i = j
      /\ \A k \in 1..Cardinality(N) : \E i \in N : Cardinality(upTo[i]) = k
  BY <1>2, <1>3, <1>4, <1>5, CountedOnce
<1> QED
  BY <1>6, <1>7 DEF N

\* Sorting keeps each element, under its name and in its turn, ...
LEMMA SortedKeeps ==
    ASSUME NEW S, NEW list \in Seq(S), NEW i \in DOMAIN list
    PROVE  LET n == list[i].name IN
           /\ n \in DOMAIN SortedByName(list)
           /\ Turn(list, i) \in DOMAIN SortedByName(list)[n]
           /\ SortedByName(list)[n][Turn(list, i)] = list[i]
<1> DEFINE n == list[i].name
           N == Named(list, n)
           at(k) == CHOOSE j \in N : Cardinality(N \cap 1..j) = k
<1>1. n \in DOMAIN SortedByName(list)
  BY DEF SortedByName, Elements
<1>2. SortedByName(list)[n] = [k \in 1..Cardinality(N) |-> list[at(k)]]
  BY <1>1 DEF SortedByName
<1>3. i \in N /\ Turn(list, i) = Cardinality(N \cap 1..i)
  BY DEF Named, Turn
<1>4. Turn(list, i) \in 1..Cardinality(N)
  BY <1>3, NamedOnce
<1>5. at(Turn(list, i)) \in N /\ Cardinality(N \cap 1..at(Turn(list, i))) = Turn(list, i)
  BY <1>3
<1>6. at(Turn(list, i)) = i
  BY <1>3, <1>5, NamedOnce
<1> HIDE DEF n, N, at
<1> QED
  BY <1>1, <1>2, <1>4, <1>6 DEF n

\* ... and adds none.
LEMMA SortedAddsNone ==
    ASSUME NEW S, NEW list \in Seq(S), NEW n \in DOMAIN SortedByName(list),
           NEW k \in DOMAIN SortedByName(list)[n]
    PROVE  \E i \in DOMAIN list :
             /\ list[i].name = n /\ Turn(list, i) = k
             /\ SortedByName(list)[n][k] = list[i]
<1> DEFINE N == Named(list, n)
           at(j) == CHOOSE i \in N : Cardinality(N \cap 1..i) = j
<1>1. SortedByName(list)[n] = [j \in 1..Cardinality(N) |-> list[at(j)]]
  BY DEF SortedByName
<1>2. k \in 1..Cardinality(N)
  BY <1>1
<1>3. at(k) \in N /\ Cardinality(N \cap 1..at(k)) = k
  BY <1>2, NamedOnce
<1>4. at(k) \in DOMAIN list /\ list[at(k)].name = n
  BY <1>3 DEF Named
<1>5. Turn(list, at(k)) = k
  BY <1>3, <1>4 DEF Turn
<1> HIDE DEF N, at
<1> QED
  BY <1>1, <1>2, <1>4, <1>5

LEMMA OccurrencesFinite ==
    ASSUME NEW S, NEW list \in Seq(S), NEW e
    PROVE  IsFiniteSet(Occurrences(list, e)) /\ Cardinality(Occurrences(list, e)) \in Nat
<1>1. Occurrences(list, e) \in SUBSET (1..Len(list)) /\ Len(list) \in Nat
  BY DEF Occurrences
<1>2. IsFiniteSet(1..Len(list))
  BY <1>1, FS_Interval
<1> QED
  BY <1>1, <1>2, FS_Subset, FS_CardinalityType

\* Lists that are sorted alike have one element for each of the other's.
LEMMA SortedAlikeFits ==
    ASSUME NEW S, NEW x \in Seq(S), NEW y \in Seq(S), SortedByName(x) = SortedByName(y)
    PROVE  /\ Elements(x) \subseteq Elements(y)
           /\ \A e : Cardinality(Occurrences(x, e)) <= Cardinality(Occurrences(y, e))
<1> DEFINE Fits(i, j) == y[j] = x[i] /\ Turn(y, j) = Turn(x, i)
<1>1. ASSUME NEW i \in DOMAIN x PROVE \E j \in DOMAIN y : Fits(i, j)
  <2> DEFINE n == x[i].name
             k == Turn(x, i)
  <2>1. n \in DOMAIN SortedByName(x) /\ k \in DOMAIN SortedByName(x)[n]
    BY SortedKeeps
  <2>2. SortedByName(x)[n][k] = x[i]
    BY SortedKeeps
  <2>3. n \in DOMAIN SortedByName(y) /\ k \in DOMAIN SortedByName(y)[n]
    BY <2>1
  <2> HIDE DEF n, k
  <2>4. PICK j \in DOMAIN y : Turn(y, j) = k /\ SortedByName(y)[n][k] = y[j]
    BY <2>3, SortedAddsNone
  <2>5. y[j] = x[i]
    BY <2>2, <2>4
  <2> QED
    BY <2>4, <2>5 DEF k
<1>2. ASSUME NEW i \in DOMAIN x, NEW j \in DOMAIN x, x[i] = x[j], Turn(x, i) = Turn(x, j)
      PROVE  i = j
  <2> DEFINE N == Named(x, x[i].name)
  <2>1. i \in N /\ j \in N
    BY <1>2 DEF Named
  <2>2. Cardinality(N \cap 1..i) = Cardinality(N \cap 1..j)
    BY <1>2 DEF Turn
  <2> QED
    BY <2>1, <2>2, NamedOnce
<1>3. Elements(x) \subseteq Elements(y)
  BY <1>1 DEF Elements
<1>4. ASSUME NEW e
      PROVE  Cardinality(Occurrences(x, e)) <= Cardinality(Occurrences(y, e))
  <2> DEFINE X == Occurrences(x, e)
             Y == Occurrences(y, e)
             g == [i \in X |-> CHOOSE j \in DOMAIN y : Fits(i, j)]
  <2>1. \A i \in X : i \in DOMAIN x /\ x[i] = e
    BY DEF Occurrences
  <2>2. \A i \in X : g[i] \in DOMAIN y /\ Fits(i, g[i])
    BY <1>1, <2>1
  <2>3. g \in [X -> Y]
    BY <2>1, <2>2 DEF Occurrences
  <2>4. ASSUME NEW i \in X, NEW j \in X, g[i] = g[j] PROVE i = j
    <3> HIDE DEF g, X
    <3>1. x[i] = x[j] /\ Turn(x, i) = Turn(x, j)
      BY <2>2, <2>4
    <3> QED
      BY <1>2, <2>1, <3>1
  <2>5. g \in Injection(X, Y)
    BY <2>3, <2>4 DEF Injection, IsInjective
  <2> QED
    BY <2>5, OccurrencesFinite, FS_Injection
<1> QED
  BY <1>3, <1>4

LEMMA SortedAlike ==
    ASSUME NEW S, NEW x \in Seq(S), NEW y \in Seq(S), SortedByName(x) = SortedByName(y)
    PROVE  Sorted(x) = Sorted(y)
<1>1. Elements(x) = Elements(y)
  <2>1. Elements(x) \subseteq Elements(y)
    BY SortedAlikeFits
  <2>2. Elements(y) \subseteq Elements(x)
    BY SortedAlikeFits
  <2> QED
    BY <2>1, <2>2
<1>2. ASSUME NEW e
      PROVE  Cardinality(Occurrences(x, e)) = Cardinality(Occurrences(y, e))
  <2> DEFINE c == Cardinality(Occurrences(x, e))
             d == Cardinality(Occurrences(y, e))
  <2>1. c <= d /\ d <= c
    BY SortedAlikeFits
  <2>2. c \in Nat /\ d \in Nat
    BY OccurrencesFinite
  <2> HIDE DEF c, d
  <2>3. c = d
    BY <2>1, <2>2
  <2> QED
    BY <2>3 DEF c, d
<1> QED
  BY <1>1, <1>2 DEF Sorted

\* Of a list without two elements of one name, sorting leaves each one alone.
LEMMA SortedAlone ==
    ASSUME NEW S, NEW list \in Seq(S), NamesDiffer(list), NEW i \in DOMAIN list
    PROVE  SortedByName(list)[list[i].name] = <<list[i]>>
<1> DEFINE n == list[i].name
           at(k) == CHOOSE j \in {i} : Cardinality({i} \cap 1..j) = k
<1>1. Len(list) \in Nat /\ DOMAIN list = 1..Len(list)
  OBVIOUS
<1>2. Named(list, n) = {i}
  BY DEF Named, NamesDiffer
<1>3. {i} \cap 1..i = {i}
  BY <1>1
<1>4. Cardinality({i}) = 1
  BY FS_Singleton
<1>5. n \in {x.name : x \in Elements(list)}
  BY DEF Elements
<1>6. SortedByName(list)[n] =
        [k \in 1..Cardinality(Named(list, n)) |->
            list[CHOOSE j \in Named(list, n) :
                    Cardinality(Named(list, n) \cap 1..j) = k]]
  BY <1>5 DEF SortedByName
<1>7. SortedByName(list)[n] = [k \in 1..1 |-> list[at(k)]]
  BY <1>2, <1>4, <1>6
<1>8. at(1) = i
  BY <1>3, <1>4
<1> HIDE DEF n, at
<1>9. SortedByName(list)[n] = [k \in 1..1 |-> list[i]]
  <2>1. \A k \in 1..1 : k = 1
    OBVIOUS
  <2> QED
    BY <1>7, <1>8, <2>1
<1> QED
  BY <1>9 DEF n

\* So two such lists are sorted alike if they have the same elements.
LEMMA ElementsTellSorted ==
    ASSUME NEW S, NEW x \in Seq(S), NEW y \in Seq(S), NamesDiffer(x), NamesDiffer(y),
           Elements(x) = Elements(y)
    PROVE  SortedByName(x) = SortedByName(y)
<1> DEFINE N == {e.name : e \in Elements(x)}
<1>1. \A list : DOMAIN SortedByName(list) = {e.name : e \in Elements(list)}
  BY DEF SortedByName
<1>2. ASSUME NEW list \in Seq(S), NamesDiffer(list)
      PROVE  \A e \in Elements(list) : SortedByName(list)[e.name] = <<e>>
  BY <1>2, SortedAlone DEF Elements
<1>3. DOMAIN SortedByName(x) = N /\ DOMAIN SortedByName(y) = N
  BY <1>1
<1>4. \A n \in N : SortedByName(x)[n] = SortedByName(y)[n]
  <2> SUFFICES ASSUME NEW e \in Elements(x)
               PROVE  SortedByName(x)[e.name] = SortedByName(y)[e.name]
    OBVIOUS
  <2>1. SortedByName(x)[e.name] = <<e>>
    BY <1>2
  <2>2. SortedByName(y)[e.name] = <<e>>
    BY <1>2
  <2> QED
    BY <2>1, <2>2
<1>5. /\ SortedByName(x) = [n \in DOMAIN SortedByName(x) |-> SortedByName(x)[n]]
      /\ SortedByName(y) = [n \in DOMAIN SortedByName(y) |-> SortedByName(y)[n]]
  BY DEF SortedByName
<1> QED
  BY <1>3, <1>4, <1>5

\* Recording rules and alerts are told apart by their fields.
LEMMA KindsOfRules ==
    ASSUME NEW m \in Manifests
    PROVE  /\ \A r \in Elements(m.rules) : "slo" \notin DOMAIN r
           /\ \A r \in Elements(AlertRules(m)) : "slo" \in DOMAIN r
<1>1. \A r \in Elements(m.rules) : r \in RecordingRules
  BY ManifestsAssumption DEF Elements
<1>2. \A r \in RecordingRules : "slo" \notin DOMAIN r
  BY DEF RecordingRules
<1>3. \A r \in Elements(AlertRules(m)) : "slo" \in DOMAIN r
  <2> SUFFICES ASSUME NEW q \in Places(m) PROVE "slo" \in DOMAIN RuleAt(m, q)
    BY PlannedAlerts
  <2> QED
    BY DEF RuleAt, AlertRule
<1> QED
  BY <1>1, <1>2, <1>3

\* Two lists with no element in common, one after the other, keep their counts.
LEMMA OneAfterTheOther ==
    ASSUME NEW S, NEW x \in Seq(S), NEW y \in Seq(S),
           Elements(x) \cap Elements(y) = {}
    PROVE  /\ Elements(x \o y) = Elements(x) \cup Elements(y)
           /\ \A e \in Elements(x) : Sorted(x \o y)[e] = Sorted(x)[e]
           /\ \A e \in Elements(y) : Sorted(x \o y)[e] = Sorted(y)[e]
<1> DEFINE z == x \o y
           n == Len(x)
<1>1. /\ n \in Nat /\ DOMAIN x = 1..n
      /\ Len(y) \in Nat /\ DOMAIN y = 1..Len(y)
      /\ z \in Seq(S) /\ DOMAIN z = 1..(n + Len(y))
      /\ \A i \in 1..(n + Len(y)) : z[i] = IF i <= n THEN x[i] ELSE y[i - n]
  OBVIOUS
<1> HIDE DEF z, n
<1>2. \A i \in DOMAIN x : i \in DOMAIN z /\ z[i] = x[i]
  BY <1>1
<1>3. \A j \in DOMAIN y : j + n \in DOMAIN z /\ z[j + n] = y[j]
  BY <1>1
<1>4. \A i \in DOMAIN z : \/ i \in DOMAIN x /\ z[i] = x[i]
                          \/ i - n \in DOMAIN y /\ z[i] = y[i - n] /\ i = (i - n) + n
  BY <1>1
<1>5. Elements(z) = Elements(x) \cup Elements(y)
  <2>1. Elements(z) \subseteq Elements(x) \cup Elements(y)
    BY <1>4 DEF Elements
  <2>2. Elements(x) \subseteq Elements(z) /\ Elements(y) \subseteq Elements(z)
    BY <1>2, <1>3 DEF Elements
  <2> QED
    BY <2>1, <2>2
<1>6. ASSUME NEW e \in Elements(x)
      PROVE  Sorted(z)[e] = Sorted(x)[e]
  <2>1. \A j \in DOMAIN y : y[j] # e
    BY DEF Elements
  <2>2. Occurrences(z, e) = Occurrences(x, e)
    BY <1>2, <1>4, <2>1 DEF Occurrences
  <2> QED
    BY <1>5, <2>2 DEF Sorted
<1>7. ASSUME NEW e \in Elements(y)
      PROVE  Sorted(z)[e] = Sorted(y)[e]
  <2> DEFINE Y == Occurrences(y, e)
             Z == Occurrences(z, e)
             f == [j \in Y |-> j + n]
  <2>1. \A i \in DOMAIN x : x[i] # e
    BY DEF Elements
  <2>2. \A j \in Y : j \in Nat /\ j + n \in Z
    BY <1>1, <1>3 DEF Occurrences
  <2>3. \A i \in Z : i - n \in Y /\ i = (i - n) + n
    BY <1>4, <2>1 DEF Occurrences
  <2> HIDE DEF Y, Z
  <2>4. f \in Injection(Y, Z)
    <3>1. f \in [Y -> Z]
      BY <2>2
    <3>2. \A i, j \in Y : f[i] = f[j] => i = j
      BY <1>1, <2>2
    <3> QED
      BY <3>1, <3>2 DEF Injection, IsInjective
  <2>5. f \in Surjection(Y, Z)
    <3>1. \A i \in Z : f[i - n] = i
      BY <2>3
    <3> QED
      BY <2>2, <2>3, <3>1 DEF Surjection
  <2>6. IsFiniteSet(Z)
    BY <1>1, OccurrencesFinite DEF Z
  <2>7. Cardinality(Z) = Cardinality(Y)
    BY <2>4, <2>5, <2>6, FS_Injection
  <2> QED
    BY <1>5, <2>7 DEF Sorted, Y, Z
<1> QED
  BY <1>5, <1>6, <1>7 DEF z

\* What the group of rules and alerts is counted as.
LEMMA CountsOfGroup ==
    ASSUME NEW m \in Manifests
    PROVE  LET group == Rendered(m).group
               R == Elements(m.rules)
               A == Elements(AlertRules(m))
           IN  /\ Elements(group) = R \cup A
               /\ Sorted(group) = [r \in R \cup A |-> Sorted(group)[r]]
               /\ \A r \in R : Sorted(group)[r] = Sorted(m.rules)[r]
               /\ \A r \in A : Sorted(group)[r] = Sorted(AlertRules(m))[r]
<1> DEFINE a == AlertRules(m)
           B == {RuleAt(m, q) : q \in Places(m)}
           S == B \cup RecordingRules
<1>1. m.rules \in Seq(S) /\ a \in Seq(S)
  <2>1. m.rules \in Seq(RecordingRules) /\ a \in Seq(B)
    BY PlannedAlerts, ManifestsAssumption
  <2> HIDE DEF a, B
  <2> QED
    BY <2>1
<1>2. Rendered(m).group = m.rules \o a
  BY DEF Rendered, Plan
<1>3. Elements(m.rules) \cap Elements(a) = {}
  BY KindsOfRules
<1> HIDE DEF a, S
<1>4. /\ Elements(m.rules \o a) = Elements(m.rules) \cup Elements(a)
      /\ \A e \in Elements(m.rules) : Sorted(m.rules \o a)[e] = Sorted(m.rules)[e]
      /\ \A e \in Elements(a) : Sorted(m.rules \o a)[e] = Sorted(a)[e]
  BY <1>1, <1>3, OneAfterTheOther
<1>5. Sorted(m.rules \o a)
        = [r \in Elements(m.rules) \cup Elements(a) |-> Sorted(m.rules \o a)[r]]
  BY <1>4 DEF Sorted
<1> QED
  BY <1>2, <1>4, <1>5 DEF a

\* The planned alerts of two manifests, as sequences over one set.
LEMMA AlertsOfTwo ==
    ASSUME NEW m \in Manifests, NEW n \in Manifests
    PROVE  \E A : AlertRules(m) \in Seq(A) /\ AlertRules(n) \in Seq(A)
<1> DEFINE M == {RuleAt(m, q) : q \in Places(m)}
           N == {RuleAt(n, q) : q \in Places(n)}
<1>1. AlertRules(m) \in Seq(M) /\ AlertRules(n) \in Seq(N)
  BY PlannedAlerts
<1> HIDE DEF M, N
<1>2. AlertRules(m) \in Seq(M \cup N) /\ AlertRules(n) \in Seq(M \cup N)
  BY <1>1
<1> QED
  BY <1>2

\* What the hash is of, and what the same content is.
LEMMA HashAndContent ==
    ASSUME NEW m \in Manifests, NEW n \in Manifests
    PROVE  /\ hashPlan(Plan(m)) = hashPlan(Plan(n)) <=>
                /\ SortedByName(m.rules) = SortedByName(n.rules)
                /\ SortedByName(AlertRules(m)) = SortedByName(AlertRules(n))
                /\ Sorted(m.attributes) = Sorted(n.attributes)
                /\ SameStages(m, n)
           /\ SameInSomeOrder(Rendered(m), Rendered(n)) <=>
                /\ Sorted(m.rules) = Sorted(n.rules)
                /\ Sorted(AlertRules(m)) = Sorted(AlertRules(n))
                /\ Sorted(m.attributes) = Sorted(n.attributes)
                /\ LastByName(m.receivers) = LastByName(n.receivers)
                /\ LastByName(m.processors) = LastByName(n.processors)
<1>1. hashPlan(Plan(m)) = hashPlan(Plan(n)) <=>
        /\ SortedByName(m.rules) = SortedByName(n.rules)
        /\ SortedByName(AlertRules(m)) = SortedByName(AlertRules(n))
        /\ Sorted(m.attributes) = Sorted(n.attributes)
        /\ SameStages(m, n)
  BY DEF hashPlan, Plan, SameStages
<1> DEFINE a == AlertRules(m)
           b == AlertRules(n)
           g == Sorted(Rendered(m).group)
           h == Sorted(Rendered(n).group)
<1>2. /\ g = [r \in Elements(m.rules) \cup Elements(a) |-> g[r]]
      /\ \A r \in Elements(m.rules) : g[r] = Sorted(m.rules)[r]
      /\ \A r \in Elements(a) : g[r] = Sorted(a)[r]
  BY CountsOfGroup
<1>3. /\ h = [r \in Elements(n.rules) \cup Elements(b) |-> h[r]]
      /\ \A r \in Elements(n.rules) : h[r] = Sorted(n.rules)[r]
      /\ \A r \in Elements(b) : h[r] = Sorted(b)[r]
  BY CountsOfGroup
<1>4. \A list : Sorted(list) = [r \in Elements(list) |-> Sorted(list)[r]]
  BY DEF Sorted
<1>5. /\ \A r \in Elements(m.rules) \cup Elements(n.rules) : "slo" \notin DOMAIN r
      /\ \A r \in Elements(a) \cup Elements(b) : "slo" \in DOMAIN r
  BY KindsOfRules
<1> HIDE DEF a, b, g, h
<1>6. ASSUME g = h PROVE Sorted(m.rules) = Sorted(n.rules) /\ Sorted(a) = Sorted(b)
  <2>1. Elements(m.rules) \cup Elements(a) = Elements(n.rules) \cup Elements(b)
    BY <1>2, <1>3, <1>6
  <2>2. Elements(m.rules) = Elements(n.rules) /\ Elements(a) = Elements(b)
    BY <1>5, <2>1
  <2>3. /\ \A r \in Elements(m.rules) : Sorted(m.rules)[r] = Sorted(n.rules)[r]
        /\ \A r \in Elements(a) : Sorted(a)[r] = Sorted(b)[r]
    BY <1>2, <1>3, <1>6, <2>2
  <2>4. Sorted(m.rules) = Sorted(n.rules)
    BY <1>4, <2>2, <2>3
  <2>5. Sorted(a) = Sorted(b)
    BY <1>4, <2>2, <2>3
  <2> QED
    BY <2>4, <2>5
<1>7. ASSUME Sorted(m.rules) = Sorted(n.rules), Sorted(a) = Sorted(b) PROVE g = h
  <2>1. Elements(m.rules) = Elements(n.rules) /\ Elements(a) = Elements(b)
    BY <1>4, <1>7
  <2>2. \A r \in Elements(m.rules) \cup Elements(a) : g[r] = h[r]
    BY <1>2, <1>3, <1>7, <2>1
  <2> QED
    BY <1>2, <1>3, <2>1, <2>2
<1>8. \A x \in {m, n} :
        /\ Rendered(x).attributes = x.attributes
        /\ Rendered(x).receivers = LastByName(x.receivers)
        /\ Rendered(x).processors = LastByName(x.processors)
  BY DEF Rendered, Plan
<1>9. Sorted(Rendered(m).group) = Sorted(Rendered(n).group) <=>
        Sorted(m.rules) = Sorted(n.rules) /\ Sorted(AlertRules(m)) = Sorted(AlertRules(n))
  BY <1>6, <1>7 DEF a, b, g, h
<1> QED
  BY <1>1, <1>8, <1>9 DEF SameInSomeOrder

\* Equal counts are of the same elements.
LEMMA CountedElements ==
    ASSUME NEW x, NEW y, Sorted(x) = Sorted(y)
    PROVE  Elements(x) = Elements(y)
<1>1. \A list : DOMAIN Sorted(list) = Elements(list)
  BY DEF Sorted
<1> QED
  BY <1>1

-----------------------------------------------------------------------------
(***************************************************************************)
(* The lint.                                                               *)
(***************************************************************************)

\* A reference without an error is imported or resolves.
LEMMA RefsResolve ==
    ASSUME NEW m, ~HasErrors(m), NEW r \in References(m)
    PROVE  r[1].kind = "external" \/ Resolves(m, r[1], r[2])
<1>1. checkRef(m, r[1], r[2]) # "error"
  BY DEF HasErrors
<1>2. r[1].kind # "empty"
  BY <1>1 DEF checkRef
<1>3. r[1].kind # "external" =>
        checkRef(m, r[1], r[2]) = IF Resolves(m, r[1], r[2]) THEN "none" ELSE "error"
  BY <1>2 DEF checkRef
<1> QED
  BY <1>1, <1>3

\* Whatever is in the cluster is all of one manifest that has no errors.
MInv ==
    /\ manifest \in Manifests
    /\ \/ applied = Nothing
       \/ \E m \in Manifests : ~HasErrors(m) /\ applied = Made(m)

LEMMA ManifestInv == Spec => []MInv
<1>1. Init => MInv
  BY DEF Init, MInv
<1>2. MInv /\ [Next]_vars => MInv'
  <2> SUFFICES ASSUME MInv, [Next]_vars PROVE MInv'
    OBVIOUS
  <2> USE DEF MInv
  <2>1. CASE Edit
    BY <2>1 DEF Edit
  <2>2. CASE ReconcileBlocked
    BY <2>2 DEF ReconcileBlocked, vars
  <2>3. CASE Reconcile
    BY <2>3 DEF Reconcile
  <2>4. CASE UNCHANGED vars
    BY <2>4 DEF vars
  <2> QED
    BY <2>1, <2>2, <2>3, <2>4 DEF Next
<1> QED
  BY <1>1, <1>2, PTL DEF Spec

LEMMA NothingApplied == applied = Nothing => applied.from = {}
  BY DEF Nothing

\* The alerts in the cluster are those of the manifest's places.
LEMMA AppliedAlerts ==
    ASSUME NEW m \in Manifests, applied = Made(m)
    PROVE  /\ applied.from = {m}
           /\ Alerts = {RuleAt(m, q) : q \in Places(m)}
<1>1. applied.from = {m} /\ applied.content = Rendered(m)
  BY DEF Made
<1>2. Elements(Rendered(m).group) = Elements(m.rules) \cup Elements(AlertRules(m))
  BY CountsOfGroup
<1>3. Alerts = {r \in Elements(Rendered(m).group) : "slo" \in DOMAIN r}
  BY <1>1 DEF Alerts
<1>4. Alerts = Elements(AlertRules(m))
  BY <1>2, <1>3, KindsOfRules
<1> QED
  BY <1>1, <1>4, PlannedAlerts

\* Each alert in the cluster is on a declared SLO over a declared SLI, or one of
\* the two is imported (lint.Refs), for any manifests and any edits.
THEOREM AlertsRestOnSLOs == Spec => []AlertsAreGrounded
<1>1. MInv => AlertsAreGrounded
  <2> SUFFICES ASSUME MInv, NEW r \in Alerts, NEW m \in applied.from,
                      r.slo.kind # "external"
               PROVE  \E o \in m.slos :
                        /\ Means(r.slo, "slos", o.id)
                        /\ \/ o.sli.kind = "external"
                           \/ \E i \in m.slis : Means(o.sli, "slis", i)
    BY DEF AlertsAreGrounded
  <2>1. m \in Manifests /\ ~HasErrors(m) /\ applied = Made(m)
    BY NothingApplied DEF MInv, Made
  <2>2. PICK q \in Places(m) : r = RuleAt(m, q)
    BY <2>1, AppliedAlerts
  <2>3. q[1] \in DOMAIN m.alerts /\ r.slo = m.alerts[q[1]].slo
    BY <2>1, <2>2, PlacesType DEF RuleAt, AlertRule
  <2>4. <<r.slo, "slo">> \in References(m)
    BY <2>3 DEF References, Elements
  <2>5. Resolves(m, r.slo, "slo")
    BY <2>1, <2>4, RefsResolve
  <2>6. PICK o \in m.slos : o.id = r.slo.id /\ r.slo.kind \in {"bare", "slos"}
    BY <2>5 DEF Resolves
  <2>7. <<o.sli, "sli">> \in References(m)
    BY DEF References
  <2>8. o.sli.kind = "external" \/ Resolves(m, o.sli, "sli")
    BY <2>1, <2>7, RefsResolve
  <2>9. Resolves(m, o.sli, "sli") => o.sli.kind \in {"bare", "slis"} /\ o.sli.id \in m.slis
    BY DEF Resolves
  <2> QED
    BY <2>6, <2>8, <2>9 DEF Means
<1> QED
  BY <1>1, ManifestInv, PTL

\* Content under the hash of the current manifest is what that renders, in some
\* order (hashPlan keeps every element it sorts), for all manifests.
THEOREM DriftNeverHides == Spec => []DriftIsSeen
<1>1. MInv => DriftIsSeen
  <2> SUFFICES ASSUME MInv, applied.from # {}, applied.hash = hashPlan(Plan(manifest))
               PROVE  SameInSomeOrder(applied.content, Rendered(manifest))
    BY DEF DriftIsSeen
  <2>1. PICK m \in Manifests : applied = Made(m)
    BY NothingApplied DEF MInv
  <2>2. applied.content = Rendered(m) /\ hashPlan(Plan(m)) = hashPlan(Plan(manifest))
    BY <2>1 DEF Made
  <2>3. manifest \in Manifests
    BY DEF MInv
  <2>4. /\ SortedByName(m.rules) = SortedByName(manifest.rules)
        /\ SortedByName(AlertRules(m)) = SortedByName(AlertRules(manifest))
        /\ Sorted(m.attributes) = Sorted(manifest.attributes)
        /\ SameStages(m, manifest)
    BY <2>2, <2>3, HashAndContent
  <2>5. m.rules \in Seq(RecordingRules) /\ manifest.rules \in Seq(RecordingRules)
    BY <2>3, ManifestsAssumption
  <2>6. Sorted(m.rules) = Sorted(manifest.rules)
    BY <2>4, <2>5, SortedAlike
  <2>7. PICK A : AlertRules(m) \in Seq(A) /\ AlertRules(manifest) \in Seq(A)
    BY <2>3, AlertsOfTwo
  <2>8. Sorted(AlertRules(m)) = Sorted(AlertRules(manifest))
    BY <2>4, <2>7, SortedAlike
  <2>9. SameInSomeOrder(Rendered(m), Rendered(manifest))
    BY <2>3, <2>4, <2>6, <2>8, HashAndContent DEF SameStages
  <2> QED
    BY <2>2, <2>9
<1> QED
  BY <1>1, ManifestInv, PTL

\* Rules of names apart that have only changed places keep their label (hashPlan).
THEOREM OrderNeverCounts == Spec => []OrderIsNoDrift
<1>1. MInv => OrderIsNoDrift
  <2> SUFFICES ASSUME MInv, NEW m \in applied.from, RulesDiffer(m), RulesDiffer(manifest),
                      SameStages(m, manifest),
                      SameInSomeOrder(applied.content, Rendered(manifest))
               PROVE  applied.hash = hashPlan(Plan(manifest))
    BY DEF OrderIsNoDrift
  <2>1. m \in Manifests /\ applied = Made(m)
    BY NothingApplied DEF MInv, Made
  <2>2. applied.content = Rendered(m) /\ applied.hash = hashPlan(Plan(m))
    BY <2>1 DEF Made
  <2>3. manifest \in Manifests
    BY DEF MInv
  <2>4. /\ Elements(m.rules) = Elements(manifest.rules)
        /\ Elements(AlertRules(m)) = Elements(AlertRules(manifest))
        /\ Sorted(m.attributes) = Sorted(manifest.attributes)
    BY <2>1, <2>2, <2>3, HashAndContent, CountedElements
  <2>5. /\ NamesDiffer(m.rules) /\ NamesDiffer(manifest.rules)
        /\ NamesDiffer(AlertRules(m)) /\ NamesDiffer(AlertRules(manifest))
    BY DEF RulesDiffer, Plan
  <2>6. m.rules \in Seq(RecordingRules) /\ manifest.rules \in Seq(RecordingRules)
    BY <2>1, <2>3, ManifestsAssumption
  <2>7. SortedByName(m.rules) = SortedByName(manifest.rules)
    BY <2>4, <2>5, <2>6, ElementsTellSorted
  <2>8. PICK A : AlertRules(m) \in Seq(A) /\ AlertRules(manifest) \in Seq(A)
    BY <2>1, <2>3, AlertsOfTwo
  <2>9. SortedByName(AlertRules(m)) = SortedByName(AlertRules(manifest))
    BY <2>4, <2>5, <2>8, ElementsTellSorted
  <2> QED
    BY <2>1, <2>2, <2>3, <2>4, <2>7, <2>9, HashAndContent
<1> QED
  BY <1>1, ManifestInv, PTL

\* The names the linter knows are those of the alerts in the cluster, respelled.
LEMMA KnownNames ==
    ASSUME NEW m \in Manifests, applied = Made(m)
    PROVE  alertIDs(m) = {Respelled(r) : r \in Alerts}
<1>1. Alerts = {RuleAt(m, q) : q \in Places(m)}
  BY AppliedAlerts
<1>2. ASSUME NEW a, NEW w
      PROVE  Respelled(AlertRule(a, w)) = burnAlertName(a.slo, w)
  BY DEF Respelled, AlertRule, burnAlertName
<1>3. ASSUME NEW n \in alertIDs(m) PROVE \E r \in Alerts : Respelled(r) = n
  <2>1. PICK a \in Elements(m.alerts) : \E w \in Elements(a.windows) :
               n = burnAlertName(a.slo, w)
    BY DEF alertIDs
  <2>2. PICK w \in Elements(a.windows) : n = burnAlertName(a.slo, w)
    BY <2>1
  <2>3. PICK i \in DOMAIN m.alerts : a = m.alerts[i]
    BY DEF Elements
  <2>4. PICK j \in DOMAIN m.alerts[i].windows : w = m.alerts[i].windows[j]
    BY <2>2, <2>3 DEF Elements
  <2>5. <<i, j>> \in Places(m) /\ RuleAt(m, <<i, j>>) = AlertRule(a, w)
    BY <2>3, <2>4, PlacesType DEF RuleAt
  <2> QED
    BY <1>1, <1>2, <2>2, <2>5
<1>4. ASSUME NEW r \in Alerts PROVE Respelled(r) \in alertIDs(m)
  <2>1. PICK q \in Places(m) : r = RuleAt(m, q)
    BY <1>1
  <2> DEFINE a == m.alerts[q[1]]
             w == a.windows[q[2]]
  <2>2. a \in Elements(m.alerts) /\ w \in Elements(a.windows)
    BY PlacesType DEF Elements
  <2>3. Respelled(r) = burnAlertName(a.slo, w)
    BY <1>2, <2>1 DEF RuleAt
  <2> QED
    BY <2>2, <2>3 DEF alertIDs
<1> QED
  BY <1>3, <1>4

\* The linter warns of an awaited name exactly if no alert in the cluster goes by
\* it in the linter's spelling, whatever references and durations look like
\* (alertIDs in lint.Refs against the loops of buildPrometheus).
THEOREM WarningsAreRight == Spec => []WarnedIffMissing
<1>1. MInv => WarnedIffMissing
  <2> SUFFICES ASSUME MInv, NEW m \in applied.from, NEW n \in Awaited(m)
               PROVE  n \in UnknownAlerts(m) <=> \A r \in Alerts : Respelled(r) # n
    BY DEF WarnedIffMissing
  <2>1. m \in Manifests /\ ~HasErrors(m) /\ applied = Made(m)
    BY NothingApplied DEF MInv, Made
  <2>2. BadTriggers(m) = {}
    BY <2>1 DEF HasErrors
  <2>3. n \in UnknownAlerts(m) <=> n \notin alertIDs(m)
    BY <2>2 DEF UnknownAlerts, Awaited
  <2> QED
    BY <2>1, <2>3, KnownNames
<1> QED
  BY <1>1, ManifestInv, PTL
=============================================================================
