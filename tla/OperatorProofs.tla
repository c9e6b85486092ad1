--------------------------- MODULE OperatorProofs ---------------------------
(* Proofs about Operator for every set of objects, texts, environments,    *)
(* users and ids.                                                          *)
EXTENDS Operator, ListProofs

-----------------------------------------------------------------------------
(* Lists of texts.                                                         *)

(* Some places of a list are finitely many numbers.                        *)
LEMMA SomePlaces ==
  ASSUME NEW S, NEW s \in Seq(S), NEW I \in SUBSET DOMAIN s
  PROVE  I \in SUBSET Nat /\ IsFiniteSet(I)
<1>1. Len(s) \in Nat /\ DOMAIN s = 1..Len(s)
  OBVIOUS
<1>2. IsFiniteSet(DOMAIN s)
  BY <1>1, FS_Interval
<1> QED
  BY <1>1, <1>2, FS_Subset

(* A comma-separated text has its pieces but the blank ones                *)
(* (parseCommaList).                                                       *)
LEMMA CommaListDropsBlanks ==
  ASSUME NEW pieces \in Seq(STRING)
  PROVE  ToSet(CommaList(pieces)) = ToSet(pieces) \ {""}
<1> DEFINE I == {i \in DOMAIN pieces : pieces[i] # ""}
           t == Sublist(pieces, I)
           order == Sorted(I)
<1>1. I \in SUBSET Nat /\ IsFiniteSet(I)
  <2>1. I \in SUBSET DOMAIN pieces
    OBVIOUS
  <2> QED
    BY <2>1, SomePlaces
<1>2. \A i : i \in I <=> i \in DOMAIN pieces /\ pieces[i] # ""
  OBVIOUS
<1>3. CommaList(pieces) = t
  BY DEF CommaList
<1> HIDE DEF I
<1>4. /\ \A k \in DOMAIN t : order[k] \in I /\ t[k] = pieces[order[k]]
      /\ \A i \in I : \E k \in DOMAIN t : t[k] = pieces[i]
  BY <1>1, SublistOf
<1> HIDE DEF t, order
<1>5. ASSUME NEW p \in ToSet(t) PROVE p \in ToSet(pieces) \ {""}
  <2>1. PICK k \in DOMAIN t : p = t[k]
    BY DEF ToSet
  <2> QED
    BY <1>2, <1>4, <2>1 DEF ToSet
<1>6. ASSUME NEW p \in ToSet(pieces) \ {""} PROVE p \in ToSet(t)
  <2>1. PICK i \in DOMAIN pieces : p = pieces[i]
    BY DEF ToSet
  <2>2. i \in I
    BY <1>2, <2>1
  <2> QED
    BY <1>4, <2>1, <2>2 DEF ToSet
<1> QED
  BY <1>3, <1>5, <1>6

(* Each host once (HTTPRouteMonitors).                                     *)
LEMMA HostsApart ==
  ASSUME NEW hosts \in Seq(STRING)
  PROVE  /\ \E k \in Nat : DOMAIN DistinctHosts(hosts) = 1..k
         /\ \A i, j \in DOMAIN DistinctHosts(hosts) :
               DistinctHosts(hosts)[i] = DistinctHosts(hosts)[j] => i = j
<1> DEFINE I == {i \in DOMAIN hosts : hosts[i] # ""
                   /\ \A j \in DOMAIN hosts : hosts[j] = hosts[i] => i <= j}
<1>1. I \in SUBSET DOMAIN hosts
  OBVIOUS
<1>2. I \in SUBSET Nat /\ IsFiniteSet(I)
  BY <1>1, SomePlaces
<1>3. \A i, j \in I : hosts[i] = hosts[j] => i <= j /\ j <= i
  OBVIOUS
<1>4. DistinctHosts(hosts) = Sublist(hosts, I)
  BY DEF DistinctHosts
<1> HIDE DEF I
<1>5. \A i, j \in I : hosts[i] = hosts[j] => i = j
  <2>1. \A i \in I : i \in Nat
    BY <1>2
  <2> QED
    BY <1>3, <2>1
<1>6. /\ Cardinality(I) \in Nat
      /\ DOMAIN Sublist(hosts, I) = 1..Cardinality(I)
  BY <1>2, SublistOf
<1>7. \A i, j \in DOMAIN Sublist(hosts, I) :
         Sublist(hosts, I)[i] = Sublist(hosts, I)[j] => i = j
  BY <1>2, <1>5, SublistApart
<1> QED
  BY <1>4, <1>6, <1>7

-----------------------------------------------------------------------------
(* What an object asks for.                                                *)

(* A list of monitors, each host once.                                     *)
HostEach(dms) ==
    /\ \E k \in Nat : DOMAIN dms = 1..k
    /\ \A i, j \in DOMAIN dms : dms[i].host = dms[j].host => i = j

LEMMA PerHostEach ==
  ASSUME NEW o, NEW ov, NEW secure, o.hosts \in Seq(STRING)
  PROVE  HostEach(PerHost(o, ov, secure))
<1> DEFINE hosts == DistinctHosts(o.hosts)
           dms == PerHost(o, ov, secure)
<1>1. DOMAIN dms = DOMAIN hosts
  BY DEF PerHost
<1>2. ASSUME NEW i \in DOMAIN hosts PROVE dms[i].host = hosts[i]
  BY DEF PerHost, HTTPMonitor, Monitor
<1>3. /\ \E k \in Nat : DOMAIN hosts = 1..k
      /\ \A i, j \in DOMAIN hosts : hosts[i] = hosts[j] => i = j
  BY HostsApart
<1> HIDE DEF hosts, dms
<1> QED
  BY <1>1, <1>2, <1>3 DEF HostEach, dms

(* One monitor per host, for whatever kind of object (deriveMonitors).     *)
LEMMA DerivedEach ==
  ASSUME NEW n \in Names, NEW ask \in Asks, Derived[n][ask] # Invalid
  PROVE  HostEach(Derived[n][ask])
<1> DEFINE o == Rules(n, ask)
           ov == Overrides[ask.ann]
<1>1. Derived[n][ask] = DeriveMonitors(o, ov)
  BY DEF Derived
<1>2. o.hosts \in Seq(STRING)
  <2>1. ask.hosts \in Seq(STRING)
    BY WorldAssumption DEF Asks, Range
  <2> QED
    BY <2>1 DEF Rules
<1>3. o.kind \in {"Ingress", "HTTPRoute", "Service"}
  BY NameAssumption DEF Rules
<1> HIDE DEF o, ov
<1>4. CASE o.kind = "Ingress"
  BY <1>1, <1>2, <1>4, PerHostEach DEF DeriveMonitors, IngressMonitors
<1>5. CASE o.kind = "HTTPRoute"
  BY <1>1, <1>2, <1>5, PerHostEach DEF DeriveMonitors, HTTPRouteMonitors
<1>6. CASE o.kind = "Service"
  <2>1. ServiceMonitors(o, ov) # Invalid
    BY <1>1, <1>6 DEF DeriveMonitors
  <2>2. PICK m : ServiceMonitors(o, ov) = <<m>>
    BY <2>1 DEF ServiceMonitors
  <2>3. 1 \in Nat /\ DOMAIN <<m>> = 1..1
    <3>1. <<m>> \in Seq({m}) /\ Len(<<m>>) = 1
      OBVIOUS
    <3> QED
      BY <3>1
  <2>4. HostEach(<<m>>)
    BY <2>3 DEF HostEach
  <2> QED
    BY <1>1, <1>6, <2>2, <2>4 DEF DeriveMonitors
<1> QED
  BY <1>3, <1>4, <1>5, <1>6

-----------------------------------------------------------------------------
(* What calls to Kuma make (syncMonitors).                                 *)

(* Distinct ids under a bound.                                             *)
IdTable(ids, next) ==
    /\ \A h \in DOMAIN ids : ids[h] \in 1..next - 1
    /\ \A g, h \in DOMAIN ids : ids[g] = ids[h] => g = h

(* How many come before each of some places tells them apart.              *)
LEMMA Ranks ==
  ASSUME NEW F \in SUBSET Nat, IsFiniteSet(F)
  PROVE  LET rank(i) == Cardinality({j \in F : j < i})
         IN  /\ \A i \in F : rank(i) \in 0..Cardinality(F) - 1
             /\ \A i, j \in F : rank(i) = rank(j) => i = j
<1> DEFINE before(i) == {j \in F : j < i}
<1>1. ASSUME NEW i \in F
      PROVE  /\ IsFiniteSet(before(i)) /\ Cardinality(before(i)) \in Nat
             /\ Cardinality(before(i) \cup {i}) = Cardinality(before(i)) + 1
  <2>1. before(i) \in SUBSET F /\ i \notin before(i)
    OBVIOUS
  <2> HIDE DEF before
  <2>2. IsFiniteSet(before(i))
    BY <2>1, FS_Subset
  <2> QED
    BY <2>1, <2>2, FS_CardinalityType, FS_AddElement
<1>2. Cardinality(F) \in Nat
  BY FS_CardinalityType
<1>3. ASSUME NEW i \in F PROVE Cardinality(before(i)) + 1 <= Cardinality(F)
  <2>1. before(i) \cup {i} \in SUBSET F
    OBVIOUS
  <2> HIDE DEF before
  <2>2. Cardinality(before(i) \cup {i}) <= Cardinality(F)
    BY <2>1, FS_Subset
  <2> QED
    BY <1>1, <2>2
<1>4. ASSUME NEW i \in F, NEW j \in F, i < j
      PROVE  Cardinality(before(i)) # Cardinality(before(j))
  <2>1. \A k \in before(i) \cup {i} : k \in F /\ k < j
    BY <1>4
  <2>3. before(i) \cup {i} \in SUBSET before(j)
    BY <2>1
  <2> HIDE DEF before
  <2>2. Cardinality(before(i) \cup {i}) <= Cardinality(before(j))
    BY <1>1, <2>3, FS_Subset
  <2> QED
    BY <1>1, <2>2
<1> HIDE DEF before
<1>5. ASSUME NEW i \in F, NEW j \in F,
             Cardinality(before(i)) = Cardinality(before(j))
      PROVE  i = j
  <2>1. i \in Nat /\ j \in Nat /\ ~(i < j) /\ ~(j < i)
    BY <1>4, <1>5
  <2> QED
    BY <2>1
<1>6. ASSUME NEW i \in F
      PROVE  Cardinality(before(i)) \in 0..Cardinality(F) - 1
  <2>1. Cardinality(before(i)) \in Nat
    BY <1>1
  <2>2. Cardinality(before(i)) + 1 <= Cardinality(F)
    BY <1>3
  <2> QED
    BY <1>2, <2>1, <2>2
<1> QED
  BY <1>5, <1>6 DEF before

(* Kuma has monitors under ids it has given out.                           *)
KumaFit ==
    /\ nextId \in 1..MaxId + 1 /\ DOMAIN kuma \subseteq 1..nextId - 1
    /\ \A id \in DOMAIN kuma :
          kuma[id] \in [spec : {kuma[id].spec}, kept : BOOLEAN]

(* What upserts leave: the monitors there, as kept as they were, and new   *)
(* ones, each recorded for a host that had none.                           *)
Made(w, hosts, plan, through) ==
    /\ w.next \in Nat /\ w.next >= nextId
    /\ DOMAIN kuma \subseteq DOMAIN w.kuma
    /\ \A k \in DOMAIN w.kuma :
          /\ w.kuma[k] \in [spec : {w.kuma[k].spec}, kept : BOOLEAN]
          /\ k \in DOMAIN kuma => w.kuma[k].kept = kuma[k].kept
          /\ k \notin DOMAIN kuma =>
                /\ k \in nextId..w.next - 1 /\ w.kuma[k].kept = through
                /\ \E h \in DOMAIN w.ids : w.ids[h] = k
    /\ DOMAIN w.ids = hosts
    /\ \A h \in hosts : IF h \in DOMAIN plan THEN w.ids[h] = plan[h]
                        ELSE w.ids[h] \in nextId..w.next - 1
    /\ IdTable(w.ids, w.next)

LEMMA Upserted ==
  ASSUME KumaFit, NEW dms, HostEach(dms), NEW places \in SUBSET DOMAIN dms,
         NEW plan, IdTable(plan, nextId), NEW through \in BOOLEAN,
         \A i \in places : dms[i].host \in DOMAIN plan =>
            plan[dms[i].host] \in DOMAIN kuma
  PROVE  Made(Upserts(dms, places, plan, through),
              {dms[i].host : i \in places}, plan, through)
<1> DEFINE fresh == {i \in places : dms[i].host \notin DOMAIN plan}
           rank(i) == Cardinality({j \in fresh : j < i})
           id == [i \in places |->
                    IF i \in fresh THEN nextId + rank(i)
                    ELSE plan[dms[i].host]]
           Latest(made) == CHOOSE i \in made : \A j \in made : j <= i
           At(h) == {i \in places : dms[i].host = h}
           w == Upserts(dms, places, plan, through)
           hosts == {dms[i].host : i \in places}
<1>1. /\ w.next = nextId + Cardinality(fresh)
      /\ w.kuma = [k \in DOMAIN kuma \cup Range(id) |->
            IF k \in Range(id)
            THEN [spec |-> dms[Latest({i \in places : id[i] = k})].spec,
                  kept |-> IF k >= nextId THEN through ELSE kuma[k].kept]
            ELSE kuma[k]]
      /\ w.ids = [h \in hosts |-> id[Latest(At(h))]]
  BY DEF Upserts
<1>2. /\ \A i \in places : i \in fresh <=> dms[i].host \notin DOMAIN plan
      /\ fresh \in SUBSET places
  OBVIOUS
<1>3. fresh \in SUBSET Nat /\ IsFiniteSet(fresh)
  <2>1. PICK k \in Nat : DOMAIN dms = 1..k
    BY DEF HostEach
  <2>2. fresh \in SUBSET 1..k
    BY <1>2, <2>1
  <2>3. IsFiniteSet(1..k) /\ 1..k \in SUBSET Nat
    BY FS_Interval
  <2> HIDE DEF fresh
  <2> QED
    BY <2>2, <2>3, FS_Subset
<1>4. /\ \A i \in fresh : rank(i) \in 0..Cardinality(fresh) - 1
      /\ \A i, j \in fresh : rank(i) = rank(j) => i = j
  <2> HIDE DEF fresh
  <2> QED
    BY <1>3, Ranks
<1>5. Cardinality(fresh) \in Nat /\ nextId \in Nat
  <2>1. Cardinality(fresh) \in Nat
    <3> HIDE DEF fresh
    <3> QED
      BY <1>3, FS_CardinalityType
  <2>2. nextId \in Nat
    <3>1. MaxId \in Nat
      BY NameAssumption
    <3>2. nextId \in 1..MaxId + 1
      BY DEF KumaFit
    <3> QED
      BY <3>1, <3>2
  <2> QED
    BY <2>1, <2>2
<1>6. ASSUME NEW i \in places
      PROVE  /\ i \in fresh => id[i] = nextId + rank(i)
             /\ i \notin fresh => id[i] = plan[dms[i].host]
  OBVIOUS
<1>7. \A k : k \in Range(id) <=> \E i \in places : id[i] = k
  BY DEF Range
<1> HIDE DEF fresh, rank, id
(* An id is new, or planned and there.                                     *)
<1>8. ASSUME NEW i \in places
      PROVE  /\ i \in fresh => id[i] \in nextId..w.next - 1
             /\ i \notin fresh => id[i] \in DOMAIN kuma /\ id[i] < nextId
  <2>1. CASE i \in fresh
    <3>1. rank(i) \in 0..Cardinality(fresh) - 1
      BY <1>4, <2>1
    <3>2. id[i] = nextId + rank(i)
      BY <1>6, <2>1
    <3>3. w.next = nextId + Cardinality(fresh)
      BY <1>1
    <3> HIDE DEF w
    <3> QED
      BY <1>5, <2>1, <3>1, <3>2, <3>3
  <2>2. CASE i \notin fresh
    <3>1. id[i] = plan[dms[i].host] /\ dms[i].host \in DOMAIN plan
      BY <1>2, <1>6, <2>2
    <3>2. id[i] \in DOMAIN kuma /\ id[i] \in 1..nextId - 1
      BY <3>1 DEF IdTable
    <3> QED
      BY <1>5, <2>2, <3>2
  <2> QED
    BY <2>1, <2>2
(* No id is used twice.                                                    *)
<1>9. ASSUME NEW i \in places, NEW j \in places, id[i] = id[j]
      PROVE  i = j
  <2>1. i \in fresh <=> j \in fresh
    <3>1. \A k \in places : k \in fresh => id[k] >= nextId
      <4> HIDE DEF w
      <4>1. w.next \in Nat
        BY <1>1, <1>5 DEF w
      <4> QED
        BY <1>5, <1>8, <4>1
    <3>2. \A k \in places : k \notin fresh => id[k] < nextId
      BY <1>8
    <3>3. ASSUME NEW k \in places, NEW l \in places, id[k] = id[l],
                 k \in fresh, l \notin fresh
          PROVE  FALSE
      <4>1. id[k] >= nextId /\ id[k] < nextId
        BY <3>1, <3>2, <3>3
      <4>2. id[k] \in Int
        <5> HIDE DEF w
        <5> QED
          BY <1>8, <3>3
      <4> QED
        BY <1>5, <4>1, <4>2
    <3> QED
      BY <1>9, <3>3
  <2>2. CASE i \in fresh
    <3>1. rank(i) \in Int /\ rank(j) \in Int
      BY <1>4, <2>1, <2>2
    <3>2. nextId + rank(i) = nextId + rank(j)
      BY <1>6, <1>9, <2>1, <2>2
    <3>3. rank(i) = rank(j)
      BY <1>5, <3>1, <3>2
    <3> QED
      BY <1>4, <2>1, <2>2, <3>3
  <2>3. CASE i \notin fresh
    <3>1. /\ dms[i].host \in DOMAIN plan /\ dms[j].host \in DOMAIN plan
          /\ plan[dms[i].host] = plan[dms[j].host]
      BY <1>2, <1>6, <1>9, <2>1, <2>3
    <3>2. dms[i].host = dms[j].host
      BY <3>1 DEF IdTable
    <3> QED
      BY <3>2 DEF HostEach
  <2> QED
    BY <2>2, <2>3
(* Each host has the id of its only place.                                 *)
<1>10. ASSUME NEW i \in places
       PROVE  dms[i].host \in hosts /\ w.ids[dms[i].host] = id[i]
  <2>1. At(dms[i].host) = {i}
    BY DEF HostEach
  <2>2. Latest({i}) = i
    <3>1. i \in Nat
      BY DEF HostEach
    <3>2. i <= i
      BY <3>1
    <3> QED
      BY <3>2
  <2>3. dms[i].host \in hosts
    OBVIOUS
  <2> HIDE DEF Latest, hosts, w, At
  <2>4. w.ids[dms[i].host] = id[Latest(At(dms[i].host))]
    BY <1>1, <2>3
  <2> QED
    BY <2>1, <2>2, <2>3, <2>4
<1>11. /\ DOMAIN w.ids = hosts
       /\ \A h \in hosts : \E i \in places : h = dms[i].host
  <2> HIDE DEF Latest, At, w
  <2> QED
    BY <1>1
<1>12. \A h \in hosts : IF h \in DOMAIN plan THEN w.ids[h] = plan[h]
                       ELSE w.ids[h] \in nextId..w.next - 1
  <2>1. ASSUME NEW i \in places
        PROVE  IF dms[i].host \in DOMAIN plan
               THEN w.ids[dms[i].host] = plan[dms[i].host]
               ELSE w.ids[dms[i].host] \in nextId..w.next - 1
    <3> HIDE DEF w, hosts
    <3> QED
      BY <1>2, <1>6, <1>8, <1>10
  <2> HIDE DEF w, hosts
  <2> QED
    BY <1>11, <2>1
<1>13. w.next \in Nat /\ w.next >= nextId
  <2> HIDE DEF w
  <2> QED
    BY <1>1, <1>5
<1>14. IdTable(w.ids, w.next)
  <2>1. ASSUME NEW h \in hosts PROVE w.ids[h] \in 1..w.next - 1
    <3>1. PICK i \in places : h = dms[i].host
      BY <1>11
    <3>2. w.ids[h] = id[i]
      BY <1>10, <3>1
    <3>3. DOMAIN kuma \in SUBSET (1..nextId - 1) /\ nextId >= 1
      <4>1. nextId \in 1..MaxId + 1 /\ MaxId \in Nat
        BY NameAssumption DEF KumaFit
      <4> QED
        BY <4>1 DEF KumaFit
    <3> HIDE DEF w, hosts
    <3>4. CASE i \in fresh
      BY <1>5, <1>8, <1>13, <3>2, <3>3, <3>4
    <3>5. CASE i \notin fresh
      BY <1>5, <1>8, <1>13, <3>2, <3>3, <3>5
    <3> QED
      BY <3>4, <3>5
  <2>2. ASSUME NEW g \in hosts, NEW h \in hosts, w.ids[g] = w.ids[h]
        PROVE  g = h
    <3>1. PICK i \in places : g = dms[i].host
      BY <1>11
    <3>2. PICK j \in places : h = dms[j].host
      BY <1>11
    <3> HIDE DEF w, hosts
    <3> QED
      BY <1>9, <1>10, <2>2, <3>1, <3>2
  <2> HIDE DEF w, hosts
  <2> QED
    BY <1>11, <2>1, <2>2 DEF IdTable
<1>15. DOMAIN w.kuma = DOMAIN kuma \cup Range(id)
  <2> HIDE DEF w, Latest
  <2> QED
    BY <1>1
<1>16. ASSUME NEW k \in DOMAIN w.kuma
       PROVE  /\ w.kuma[k] \in [spec : {w.kuma[k].spec}, kept : BOOLEAN]
              /\ k \in DOMAIN kuma => w.kuma[k].kept = kuma[k].kept
              /\ k \notin DOMAIN kuma =>
                    /\ k \in nextId..w.next - 1 /\ w.kuma[k].kept = through
                    /\ \E h \in DOMAIN w.ids : w.ids[h] = k
  <2> DEFINE m == [spec |-> dms[Latest({i \in places : id[i] = k})].spec,
                   kept |-> IF k >= nextId THEN through ELSE kuma[k].kept]
  <2>1. w.kuma[k] = IF k \in Range(id) THEN m ELSE kuma[k]
    <3> HIDE DEF w, Latest
    <3> QED
      BY <1>1, <1>15
  <2>2. /\ m.kept = IF k >= nextId THEN through ELSE kuma[k].kept
        /\ \A b : m.kept = b /\ b \in BOOLEAN =>
               m \in [spec : {m.spec}, kept : BOOLEAN]
    OBVIOUS
  <2>3. \A j \in DOMAIN kuma : j < nextId /\ ~(j >= nextId)
    <3>1. DOMAIN kuma \in SUBSET (1..nextId - 1)
      BY DEF KumaFit
    <3> QED
      BY <1>5, <3>1
  <2>4. \A j \in DOMAIN kuma : kuma[j] \in [spec : {kuma[j].spec}, kept : BOOLEAN]
    BY DEF KumaFit
  <2> HIDE DEF m, w, hosts
  <2>5. CASE k \notin Range(id)
    <3>1. k \in DOMAIN kuma /\ w.kuma[k] = kuma[k]
      BY <1>15, <2>1, <2>5
    <3> QED
      BY <2>4, <3>1
  <2>6. CASE k \in Range(id) /\ k \in DOMAIN kuma
    <3>1. w.kuma[k] = m /\ m.kept = kuma[k].kept
      BY <2>1, <2>2, <2>3, <2>6
    <3>2. kuma[k].kept \in BOOLEAN
      BY <2>4, <2>6
    <3>3. m \in [spec : {m.spec}, kept : BOOLEAN]
      BY <2>2, <3>1, <3>2
    <3> QED
      BY <2>6, <3>1, <3>3
  <2>7. CASE k \in Range(id) /\ k \notin DOMAIN kuma
    <3>1. PICK i \in places : id[i] = k
      BY <1>7, <2>7
    <3>2. k \in nextId..w.next - 1
      BY <1>8, <2>7, <3>1
    <3>3. k >= nextId
      BY <1>5, <1>13, <3>2
    <3>4. w.kuma[k] = m /\ m.kept = through
      BY <2>1, <2>2, <2>7, <3>3
    <3>5. m \in [spec : {m.spec}, kept : BOOLEAN]
      BY <2>2, <3>4
    <3>6. \E h \in DOMAIN w.ids : w.ids[h] = k
      BY <1>10, <1>11, <3>1
    <3> QED
      BY <2>7, <3>2, <3>4, <3>5, <3>6
  <2> QED
    BY <2>5, <2>6, <2>7
<1> QED
  <2> HIDE DEF w, hosts
  <2>1. Made(w, hosts, plan, through)
    BY <1>11, <1>12, <1>13, <1>14, <1>15, <1>16 DEF Made
  <2> QED
    BY <2>1 DEF w, hosts

-----------------------------------------------------------------------------
(* The inductive invariant.                                                *)

IsObject(o) ==
    o \in [ask : Asks, ids : {o.ids}, hash : {o.hash}, fin : BOOLEAN,
           deleting : BOOLEAN]

(* A process runs the configuration its pod's environment loads.           *)
ProcFit ==
    /\ world \in DOMAIN Worlds /\ env \in Worlds[world].envs
    /\ proc = None => due = {} /\ counts = NoCounts
    /\ proc # None => /\ Load(env) # Invalid /\ proc.cfg = Load(env)
                      /\ proc.answer \in Answers
    /\ due \subseteq Names /\ counts \in [Names -> 0..MaxId]

ObjectFit(o, next) ==
    /\ IsObject(o) /\ (o.deleting => o.fin)
    /\ o.ids = Garbage \/ IdTable(o.ids, next)

ObjsFit ==
    /\ DOMAIN objs \subseteq Names
    /\ \A n \in DOMAIN objs : ObjectFit(objs[n], nextId)

(* An object guards an id if its finalizer holds it, and what is not on    *)
(* record any more may be anything.                                        *)
Holds(o, id) ==
    /\ o.fin
    /\ o.ids = Garbage \/ \E h \in DOMAIN o.ids : o.ids[h] = id

KeptFit ==
    \A id \in DOMAIN kuma : kuma[id].kept =>
        \E n \in DOMAIN objs : Holds(objs[n], id)

Fit == ProcFit /\ ObjsFit /\ KumaFit /\ KeptFit

LEMMA NextIdCounts ==
  ASSUME KumaFit
  PROVE  MaxId \in Nat /\ nextId \in Nat /\ nextId >= 1 /\ nextId <= MaxId + 1
<1>1. MaxId \in Nat
  BY NameAssumption
<1>2. nextId \in 1..MaxId + 1
  BY DEF KumaFit
<1> QED
  BY <1>1, <1>2

LEMMA WiderTable ==
  ASSUME NEW a \in Nat, NEW b \in Nat, a <= b, NEW ids, IdTable(ids, a)
  PROVE  IdTable(ids, b)
BY DEF IdTable

LEMMA WiderObject ==
  ASSUME NEW a \in Nat, NEW b \in Nat, a <= b, NEW o, ObjectFit(o, a)
  PROVE  ObjectFit(o, b)
BY WiderTable DEF ObjectFit

(* No more hosts than ids.                                                 *)
LEMMA TableSize ==
  ASSUME NEW next \in Nat, next >= 1, next <= MaxId + 1, NEW ids,
         IdTable(ids, next)
  PROVE  Cardinality(DOMAIN ids) \in 0..MaxId
<1> DEFINE H == DOMAIN ids
           f == [h \in H |-> ids[h]]
<1>1. MaxId \in Nat
  BY NameAssumption
<1>2. f \in Injection(H, 1..next - 1)
  <2>1. f \in [H -> 1..next - 1]
    BY DEF IdTable
  <2>2. \A g, h \in H : f[g] = f[h] => g = h
    BY DEF IdTable
  <2> HIDE DEF f
  <2>3. IsInjective(f)
    BY <2>1, <2>2 DEF IsInjective
  <2> QED
    BY <2>1, <2>3 DEF Injection
<1>3. next - 1 \in Nat
  OBVIOUS
<1>4. IsFiniteSet(1..next - 1) /\ Cardinality(1..next - 1) = next - 1
  <2>1. /\ IsFiniteSet(1..next - 1)
        /\ Cardinality(1..next - 1) =
              IF 1 > next - 1 THEN 0 ELSE next - 1 - 1 + 1
    BY <1>3, FS_Interval
  <2> QED
    BY <1>3, <2>1
<1> HIDE DEF H, f
<1>5. IsFiniteSet(H) /\ Cardinality(H) <= Cardinality(1..next - 1)
  BY <1>2, <1>4, FS_Injection
<1>6. Cardinality(H) \in Nat
  BY <1>5, FS_CardinalityType
<1>7. Cardinality(H) \in 0..MaxId
  BY <1>1, <1>3, <1>4, <1>5, <1>6
<1> QED
  BY <1>7 DEF H

LEMMA Running ==
  ASSUME ProcFit, proc # None, UNCHANGED <<world, env, proc>>,
         due' \subseteq Names, counts' \in [Names -> 0..MaxId]
  PROVE  ProcFit'
BY DEF ProcFit

(* The API server stores an object.                                        *)
LEMMA Stored ==
  ASSUME ObjsFit, KumaFit, NEW n \in Names, NEW o, ObjectFit(o, nextId'),
         DOMAIN objs' = DOMAIN objs \cup {n}, objs'[n] = o,
         \A m \in DOMAIN objs \ {n} : objs'[m] = objs[m],
         nextId' \in Nat, nextId <= nextId'
  PROVE  ObjsFit'
<1>1. nextId \in Nat
  BY NextIdCounts
<1>2. ASSUME NEW m \in DOMAIN objs' PROVE ObjectFit(objs'[m], nextId')
  <2>1. CASE m = n
    BY <2>1
  <2>2. CASE m # n
    <3>1. m \in DOMAIN objs /\ objs'[m] = objs[m]
      BY <2>2
    <3>2. ObjectFit(objs[m], nextId)
      BY <3>1 DEF ObjsFit
    <3> QED
      BY <1>1, <3>1, <3>2, WiderObject
  <2> QED
    BY <2>1, <2>2
<1>3. DOMAIN objs' \subseteq Names
  BY DEF ObjsFit
<1> QED
  BY <1>2, <1>3 DEF ObjsFit

-----------------------------------------------------------------------------
(* A reconcile keeps it.                                                   *)

LEMMA Taken ==
  ASSUME ProcFit, NEW n \in Names, Take(n)
  PROVE  /\ proc # None /\ n \in due /\ due \subseteq Names
         /\ counts \in [Names -> 0..MaxId]
BY DEF ProcFit, Take, Serves

LEMMA Counted ==
  ASSUME ProcFit, NEW n \in Names, NEW k \in 0..MaxId, SetCount(n, k)
  PROVE  counts' \in [Names -> 0..MaxId]
BY DEF ProcFit, SetCount

LEMMA NoneCounted ==
  ASSUME ProcFit, NEW n \in Names, SetCount(n, 0)
  PROVE  counts' \in [Names -> 0..MaxId]
<1>1. 0 \in 0..MaxId
  <2>1. MaxId \in Nat
    BY NameAssumption
  <2> QED
    BY <2>1
<1> QED
  BY <1>1, Counted

LEMMA StoresStay ==
  ASSUME Fit, UNCHANGED <<objs, kuma, nextId>>
  PROVE  ObjsFit' /\ KumaFit' /\ KeptFit'
<1>1. ObjsFit'
  BY DEF Fit, ObjsFit
<1>2. KumaFit'
  BY DEF Fit, KumaFit
<1>3. KeptFit'
  BY DEF Fit, KeptFit
<1> QED
  BY <1>1, <1>2, <1>3

LEMMA KumaShrinks ==
  ASSUME KumaFit, UNCHANGED nextId, NEW S \in SUBSET DOMAIN kuma,
         kuma' = Restrict(kuma, S)
  PROVE  KumaFit'
<1>1. DOMAIN kuma' = S /\ \A id \in S : kuma'[id] = kuma[id]
  BY DEF Restrict
<1> QED
  BY <1>1 DEF KumaFit

LEMMA GoneFits ==
  ASSUME Fit, NEW n \in Names, ReconcileGone(n)
  PROVE  Fit'
<1>1. Take(n) /\ SetCount(n, 0) /\ due' = due \ {n}
  BY DEF ReconcileGone
<1>2. UNCHANGED <<world, env, proc, objs, kuma, nextId>>
  BY DEF ReconcileGone
<1>3. ProcFit
  BY DEF Fit
<1>4. ProcFit'
  BY <1>1, <1>2, <1>3, Taken, NoneCounted, Running
<1> QED
  BY <1>2, <1>4, StoresStay DEF Fit

LEMMA DeletingFits ==
  ASSUME Fit, NEW n \in Names, ReconcileDeleting(n)
  PROVE  Fit'
<1>1. /\ Take(n) /\ SetCount(n, 0) /\ n \in DOMAIN objs
      /\ objs[n].ids # Garbage
  BY DEF ReconcileDeleting, Exists
<1>2. UNCHANGED <<world, env, proc, nextId, due>>
  BY DEF ReconcileDeleting
<1>3. ProcFit /\ ObjsFit /\ KumaFit /\ KeptFit
  BY DEF Fit
<1>4. ProcFit'
  BY <1>1, <1>2, <1>3, Taken, NoneCounted, Running
<1>5. /\ DOMAIN objs' = DOMAIN objs \ {n}
      /\ \A m \in DOMAIN objs \ {n} : objs'[m] = objs[m]
  BY DEF ReconcileDeleting, Removed, Restrict
<1>6. kuma' = Restrict(kuma, DOMAIN kuma \ IdsOf(n))
  BY DEF ReconcileDeleting, DeleteAll
<1>7. ObjsFit'
  BY <1>2, <1>3, <1>5 DEF ObjsFit
<1>8. KumaFit'
  BY <1>2, <1>3, <1>6, KumaShrinks
<1>9. KeptFit'
  <2>1. ASSUME NEW id \in DOMAIN kuma', kuma'[id].kept
        PROVE  \E m \in DOMAIN objs' : Holds(objs'[m], id)
    <3>1. id \in DOMAIN kuma /\ kuma[id].kept /\ id \notin IdsOf(n)
      BY <1>6, <2>1 DEF Restrict
    <3>2. PICK m \in DOMAIN objs : Holds(objs[m], id)
      BY <1>3, <3>1 DEF KeptFit
    <3>3. m # n
      BY <1>1, <3>1, <3>2 DEF Holds, IdsOf, Range
    <3> QED
      BY <1>5, <3>2, <3>3
  <2> QED
    BY <2>1 DEF KeptFit
<1> QED
  BY <1>4, <1>7, <1>8, <1>9 DEF Fit

LEMMA IgnoredFits ==
  ASSUME Fit, NEW n \in Names, ReconcileIgnored(n)
  PROVE  Fit'
<1>1. Take(n) /\ due' = due \ {n}
  BY DEF ReconcileIgnored, Ready
<1>2. UNCHANGED <<world, env, proc, objs, kuma, nextId, counts>>
  BY DEF ReconcileIgnored
<1>3. ProcFit
  BY DEF Fit
<1>4. ProcFit'
  BY <1>1, <1>2, <1>3, Taken, Running
<1> QED
  BY <1>2, <1>4, StoresStay DEF Fit

LEMMA OptOutFits ==
  ASSUME Fit, NEW n \in Names, ReconcileOptOut(n)
  PROVE  Fit'
<1>1. /\ Take(n) /\ SetCount(n, 0) /\ n \in DOMAIN objs
      /\ objs[n].ids # Garbage /\ ~objs[n].deleting
  BY DEF ReconcileOptOut, Ready, Exists
<1>2. UNCHANGED <<world, env, proc, nextId, due>>
  BY DEF ReconcileOptOut
<1>3. ProcFit /\ ObjsFit /\ KumaFit /\ KeptFit
  BY DEF Fit
<1>4. ProcFit'
  BY <1>1, <1>2, <1>3, Taken, NoneCounted, Running
<1> DEFINE o == [objs[n] EXCEPT !.ids = NoIds, !.hash = None, !.fin = FALSE]
<1>5. objs' = [objs EXCEPT ![n] = o]
  BY DEF ReconcileOptOut
<1>6. ObjectFit(o, nextId)
  <2>1. IsObject(objs[n])
    BY <1>1, <1>3 DEF ObjsFit, ObjectFit
  <2>2. IsObject(o) /\ o.deleting = objs[n].deleting /\ o.ids = NoIds
    BY <2>1 DEF IsObject
  <2>3. IdTable(NoIds, nextId)
    BY DEF IdTable, NoIds
  <2> HIDE DEF o
  <2> QED
    BY <1>1, <2>2, <2>3 DEF ObjectFit
<1> HIDE DEF o
<1>7. /\ DOMAIN objs' = DOMAIN objs \cup {n} /\ objs'[n] = o
      /\ \A m \in DOMAIN objs \ {n} : objs'[m] = objs[m]
  BY <1>1, <1>5
<1>8. kuma' = Restrict(kuma, DOMAIN kuma \ IdsOf(n))
  BY DEF ReconcileOptOut, DeleteAll
<1>9. ObjsFit'
  <2>1. nextId' \in Nat /\ nextId <= nextId' /\ nextId' = nextId
    BY <1>2, <1>3, NextIdCounts
  <2> QED
    BY <1>3, <1>6, <1>7, <2>1, Stored
<1>10. KumaFit'
  BY <1>2, <1>3, <1>8, KumaShrinks
<1>11. KeptFit'
  <2>1. ASSUME NEW id \in DOMAIN kuma', kuma'[id].kept
        PROVE  \E m \in DOMAIN objs' : Holds(objs'[m], id)
    <3>1. id \in DOMAIN kuma /\ kuma[id].kept /\ id \notin IdsOf(n)
      BY <1>8, <2>1 DEF Restrict
    <3>2. PICK m \in DOMAIN objs : Holds(objs[m], id)
      BY <1>3, <3>1 DEF KeptFit
    <3>3. m # n
      BY <1>1, <3>1, <3>2 DEF Holds, IdsOf, Range
    <3> QED
      BY <1>7, <3>2, <3>3
  <2> QED
    BY <2>1 DEF KeptFit
<1> QED
  BY <1>4, <1>9, <1>10, <1>11 DEF Fit

LEMMA ReadyObject ==
  ASSUME ObjsFit, NEW n \in Names, Ready(n)
  PROVE  /\ Take(n) /\ n \in DOMAIN objs /\ ~objs[n].deleting
         /\ IsObject(objs[n]) /\ objs[n].ask \in Asks
         /\ objs[n].ids # Garbage /\ IdTable(objs[n].ids, nextId)
<1>1. /\ Take(n) /\ n \in DOMAIN objs /\ ~objs[n].deleting
      /\ objs[n].ids # Garbage
  BY DEF Ready, Exists
<1>2. IsObject(objs[n]) /\ IdTable(objs[n].ids, nextId)
  BY <1>1 DEF ObjsFit, ObjectFit
<1>3. objs[n].ask \in Asks
  BY <1>2 DEF IsObject
<1> QED
  BY <1>1, <1>2, <1>3

(* One monitor per host is what an object that can be read asks for.       *)
LEMMA DesiredEach ==
  ASSUME ObjsFit, NEW n \in Names, Ready(n), Desired(n) # Invalid
  PROVE  HostEach(Desired(n))
<1>1. objs[n].ask \in Asks
  BY ReadyObject
<1>2. Derived[n][objs[n].ask] # Invalid
  BY DEF Desired
<1> QED
  BY <1>1, <1>2, DerivedEach DEF Desired

LEMMA MatchingFits ==
  ASSUME Fit, NEW n \in Names, ReconcileMatching(n)
  PROVE  Fit'
<1>1. /\ Ready(n) /\ SetCount(n, Cardinality(DOMAIN objs[n].ids))
      /\ Again(n)
  BY DEF ReconcileMatching
<1>2. UNCHANGED <<world, env, proc, objs, kuma, nextId>>
  BY DEF ReconcileMatching
<1>3. ProcFit /\ ObjsFit /\ KumaFit
  BY DEF Fit
<1>4. Take(n) /\ IdTable(objs[n].ids, nextId)
  BY <1>1, <1>3, ReadyObject
<1>5. counts' \in [Names -> 0..MaxId]
  <2>1. Cardinality(DOMAIN objs[n].ids) \in 0..MaxId
    BY <1>3, <1>4, NextIdCounts, TableSize
  <2> QED
    BY <1>1, <1>3, <2>1, Counted
<1>6. due' \subseteq Names
  <2>1. due' = due \/ due' = due \ {n}
    BY <1>1 DEF Again
  <2> QED
    BY <1>3, <1>4, <2>1, Taken
<1>7. ProcFit'
  BY <1>2, <1>3, <1>4, <1>5, <1>6, Taken, Running
<1> QED
  BY <1>2, <1>7, StoresStay DEF Fit

(* persistMonitorIDs stores what syncMonitors or reconcileDrift recorded.  *)
LEMMA Persisted ==
  ASSUME ProcFit, ObjsFit, KumaFit, NEW n \in Names, Ready(n), NEW ids, NEW hash,
         IdTable(ids, nextId'), Persist(n, ids, hash),
         nextId' \in Nat, nextId <= nextId', nextId' <= MaxId + 1,
         UNCHANGED <<world, env, proc, due>>
  PROVE  /\ ProcFit' /\ ObjsFit' /\ DOMAIN objs' = DOMAIN objs
         /\ objs'[n].fin /\ objs'[n].ids = ids
         /\ \A m \in DOMAIN objs \ {n} : objs'[m] = objs[m]
<1> DEFINE o == [objs[n] EXCEPT !.ids = ids, !.hash = hash, !.fin = TRUE]
<1>1. /\ Take(n) /\ n \in DOMAIN objs /\ ~objs[n].deleting
      /\ IsObject(objs[n])
  BY ReadyObject
<1>2. objs' = [objs EXCEPT ![n] = o]
  BY DEF Persist
<1>3. IsObject(o) /\ o.deleting = objs[n].deleting /\ o.ids = ids /\ o.fin
  BY <1>1 DEF IsObject
<1> HIDE DEF o
<1>4. /\ DOMAIN objs' = DOMAIN objs \cup {n} /\ objs'[n] = o
      /\ DOMAIN objs' = DOMAIN objs
      /\ \A m \in DOMAIN objs \ {n} : objs'[m] = objs[m]
  BY <1>1, <1>2
<1>5. ObjectFit(o, nextId')
  BY <1>3 DEF ObjectFit
<1>6. ObjsFit'
  BY <1>4, <1>5, Stored
<1>7. Cardinality(DOMAIN ids) \in 0..MaxId
  <2>1. nextId' >= 1
    BY NextIdCounts
  <2> QED
    BY <2>1, TableSize
<1>8. SetCount(n, Cardinality(DOMAIN ids))
  BY DEF Persist
<1>9. ProcFit'
  BY <1>1, <1>7, <1>8, Counted, Taken, Running
<1> QED
  BY <1>3, <1>4, <1>6, <1>9

(* Kuma as the calls leave it, but for the monitors deleted.               *)
LEMMA Applied ==
  ASSUME KumaFit, NEW w, NEW hosts, NEW plan, NEW through, NEW deleted,
         Made(w, hosts, plan, through), Apply(w, deleted)
  PROVE  /\ KumaFit' /\ nextId' = w.next
         /\ nextId' \in Nat /\ nextId <= nextId' /\ nextId' <= MaxId + 1
         /\ \A id \in DOMAIN kuma' :
               /\ id \in DOMAIN w.kuma /\ id \notin deleted
               /\ kuma'[id] = w.kuma[id]
<1>1. /\ w.next <= MaxId + 1 /\ nextId' = w.next
      /\ kuma' = Restrict(w.kuma, DOMAIN w.kuma \ deleted)
  BY DEF Apply
<1>2. /\ DOMAIN kuma' = DOMAIN w.kuma \ deleted
      /\ \A id \in DOMAIN kuma' : kuma'[id] = w.kuma[id]
  BY <1>1 DEF Restrict
<1>3. /\ MaxId \in Nat /\ nextId \in Nat /\ nextId >= 1
      /\ DOMAIN kuma \subseteq 1..nextId - 1
  BY NextIdCounts DEF KumaFit
<1>4. w.next \in Nat /\ w.next >= nextId
  BY DEF Made
<1>5. nextId' \in 1..MaxId + 1
  BY <1>1, <1>3, <1>4
<1>6. ASSUME NEW id \in DOMAIN w.kuma
      PROVE  /\ id \in 1..w.next - 1
             /\ w.kuma[id] \in [spec : {w.kuma[id].spec}, kept : BOOLEAN]
  <2>1. CASE id \in DOMAIN kuma
    <3>1. id \in 1..w.next - 1
      BY <1>3, <1>4, <2>1
    <3> QED
      BY <3>1 DEF Made
  <2>2. CASE id \notin DOMAIN kuma
    <3>1. id \in nextId..w.next - 1
      BY <2>2 DEF Made
    <3>2. id \in 1..w.next - 1
      BY <1>3, <1>4, <3>1
    <3> QED
      BY <3>2 DEF Made
  <2> QED
    BY <2>1, <2>2
<1>7. KumaFit'
  BY <1>1, <1>2, <1>5, <1>6 DEF KumaFit
<1> QED
  BY <1>1, <1>2, <1>3, <1>4, <1>7

LEMMA ChangedFits ==
  ASSUME Fit, NEW n \in Names, ReconcileChanged(n)
  PROVE  Fit'
<1> DEFINE dms == Desired(n)
           plan == objs[n].ids
           w == Upserts(dms, DOMAIN dms, plan, TRUE)
           hosts == {dms[i].host : i \in DOMAIN dms}
           retired == {plan[h] : h \in DOMAIN plan \ DOMAIN w.ids}
<1>1. /\ Ready(n) /\ dms # Invalid /\ Gone(n, dms) = {}
      /\ Apply(w, retired) /\ Persist(n, w.ids, dms)
  BY DEF ReconcileChanged
<1>2. UNCHANGED <<world, env, proc, due>>
  BY DEF ReconcileChanged
<1>3. ProcFit /\ ObjsFit /\ KumaFit /\ KeptFit
  BY DEF Fit
<1>4. /\ n \in DOMAIN objs /\ plan # Garbage /\ IdTable(plan, nextId)
      /\ HostEach(dms)
  BY <1>1, <1>3, ReadyObject, DesiredEach
<1>5. \A i \in DOMAIN dms : dms[i].host \in DOMAIN plan =>
         plan[dms[i].host] \in DOMAIN kuma
  BY <1>1 DEF Gone
<1> HIDE DEF dms, plan
<1>6. Made(w, hosts, plan, TRUE)
  <2>1. TRUE \in BOOLEAN
    OBVIOUS
  <2> QED
    BY <1>3, <1>4, <1>5, <2>1, Upserted
<1>7. \A id : id \in retired <=> \E h \in DOMAIN plan \ DOMAIN w.ids : plan[h] = id
  OBVIOUS
<1> HIDE DEF w, hosts, retired
<1>8. /\ KumaFit' /\ nextId' = w.next
      /\ nextId' \in Nat /\ nextId <= nextId' /\ nextId' <= MaxId + 1
      /\ \A id \in DOMAIN kuma' :
            /\ id \in DOMAIN w.kuma /\ id \notin retired
            /\ kuma'[id] = w.kuma[id]
  BY <1>1, <1>3, <1>6, Applied
<1>9. IdTable(w.ids, nextId')
  BY <1>6, <1>8 DEF Made
<1>10. /\ ProcFit' /\ ObjsFit' /\ DOMAIN objs' = DOMAIN objs
       /\ objs'[n].fin /\ objs'[n].ids = w.ids
       /\ \A m \in DOMAIN objs \ {n} : objs'[m] = objs[m]
  BY <1>1, <1>2, <1>3, <1>8, <1>9, Persisted
<1>11. ASSUME NEW id \in DOMAIN kuma', kuma'[id].kept
       PROVE  \E m \in DOMAIN objs' : Holds(objs'[m], id)
  <2>1. /\ id \in DOMAIN w.kuma /\ id \notin retired
        /\ w.kuma[id].kept
    BY <1>8, <1>11
  <2>2. CASE id \notin DOMAIN kuma
    <3>1. \E h \in DOMAIN w.ids : w.ids[h] = id
      BY <1>6, <2>1, <2>2 DEF Made
    <3>2. Holds(objs'[n], id)
      BY <1>10, <3>1 DEF Holds
    <3> QED
      BY <1>4, <1>10, <3>2
  <2>3. CASE id \in DOMAIN kuma
    <3>1. kuma[id].kept
      BY <1>6, <2>1, <2>3 DEF Made
    <3>2. PICK m \in DOMAIN objs : Holds(objs[m], id)
      BY <1>3, <2>3, <3>1 DEF KeptFit
    <3>3. CASE m # n
      BY <1>10, <3>2, <3>3
    <3>4. CASE m = n
      <4>1. PICK h \in DOMAIN plan : plan[h] = id
        BY <1>4, <3>2, <3>4 DEF Holds, plan
      <4>2. h \in DOMAIN w.ids
        BY <1>7, <2>1, <4>1
      <4>3. w.ids[h] = id
        BY <1>6, <4>1, <4>2 DEF Made
      <4>4. Holds(objs'[n], id)
        BY <1>10, <4>2, <4>3 DEF Holds
      <4> QED
        BY <1>4, <1>10, <4>4
    <3> QED
      BY <3>3, <3>4
  <2> QED
    BY <2>2, <2>3
<1>12. KeptFit'
  BY <1>11 DEF KeptFit
<1> QED
  BY <1>8, <1>10, <1>12 DEF Fit

(* A drift check records new monitors for the hosts whose own are gone.    *)
LEMMA DriftedFits ==
  ASSUME Fit, NEW n \in Names, ReconcileDrifted(n)
  PROVE  Fit'
<1> DEFINE dms == Desired(n)
           ids == objs[n].ids
           there == {h \in DOMAIN ids : ids[h] \in DOMAIN kuma}
           plan == Restrict(ids, there)
           places == Drifted(n, dms)
           w == Upserts(dms, places, plan, TRUE)
           hosts == {dms[i].host : i \in places}
           new == [h \in DOMAIN ids |->
                     IF h \in DOMAIN w.ids THEN w.ids[h] ELSE ids[h]]
<1>1. /\ Ready(n) /\ dms # Invalid
      /\ Apply(w, {}) /\ Persist(n, new, dms)
  BY DEF ReconcileDrifted
<1>2. UNCHANGED <<world, env, proc, due>>
  BY DEF ReconcileDrifted
<1>3. ProcFit /\ ObjsFit /\ KumaFit /\ KeptFit
  BY DEF Fit
<1>4. /\ n \in DOMAIN objs /\ ids # Garbage /\ IdTable(ids, nextId)
      /\ HostEach(dms)
  BY <1>1, <1>3, ReadyObject, DesiredEach
<1>5. /\ places \in SUBSET DOMAIN dms
      /\ \A i \in places : dms[i].host \in DOMAIN ids
  BY DEF Drifted
<1> HIDE DEF dms, ids, places
<1>6. /\ DOMAIN plan = there
      /\ \A h \in there : /\ h \in DOMAIN ids /\ plan[h] = ids[h]
                          /\ ids[h] \in DOMAIN kuma
      /\ \A h \in DOMAIN ids : ids[h] \in DOMAIN kuma => h \in there
  BY DEF Restrict
<1> HIDE DEF there, plan
<1>7. IdTable(plan, nextId)
  BY <1>4, <1>6 DEF IdTable
<1>8. Made(w, hosts, plan, TRUE)
  <2>1. TRUE \in BOOLEAN
    OBVIOUS
  <2>2. \A i \in places : dms[i].host \in DOMAIN plan =>
           plan[dms[i].host] \in DOMAIN kuma
    BY <1>6
  <2> QED
    BY <1>3, <1>4, <1>5, <1>7, <2>1, <2>2, Upserted
<1>9. \A h \in hosts : h \in DOMAIN ids
  BY <1>5
<1> HIDE DEF w, hosts
<1>10. /\ KumaFit' /\ nextId' = w.next
       /\ nextId' \in Nat /\ nextId <= nextId' /\ nextId' <= MaxId + 1
       /\ \A id \in DOMAIN kuma' :
             id \in DOMAIN w.kuma /\ kuma'[id] = w.kuma[id]
  BY <1>1, <1>3, <1>8, Applied
<1>11. /\ DOMAIN w.ids = hosts /\ IdTable(w.ids, w.next)
       /\ \A h \in hosts : IF h \in DOMAIN plan THEN w.ids[h] = plan[h]
                           ELSE w.ids[h] \in nextId..w.next - 1
  BY <1>8 DEF Made
<1>12. /\ DOMAIN new = DOMAIN ids
       /\ \A h \in DOMAIN ids : h \in hosts => new[h] = w.ids[h]
       /\ \A h \in DOMAIN ids : h \notin hosts => new[h] = ids[h]
  BY <1>11
<1> HIDE DEF new
<1>13. nextId \in Nat
  BY <1>3, NextIdCounts
(* A host's id is the one it had, or a new one.                            *)
<1>14. ASSUME NEW h \in DOMAIN new
       PROVE  \/ new[h] = ids[h] /\ new[h] \in 1..nextId - 1
              \/ h \in hosts /\ new[h] = w.ids[h] /\ new[h] \in nextId..w.next - 1
  <2>1. h \in DOMAIN ids /\ ids[h] \in 1..nextId - 1
    BY <1>4, <1>12 DEF IdTable
  <2>2. CASE h \notin hosts
    BY <1>12, <2>1, <2>2
  <2>3. CASE h \in hosts /\ h \in DOMAIN plan
    <3>1. new[h] = plan[h] /\ plan[h] = ids[h]
      BY <1>6, <1>11, <1>12, <2>1, <2>3
    <3> QED
      BY <2>1, <3>1
  <2>4. CASE h \in hosts /\ h \notin DOMAIN plan
    BY <1>11, <1>12, <2>1, <2>4
  <2> QED
    BY <2>2, <2>3, <2>4
<1>15. IdTable(new, nextId')
  <2>1. ASSUME NEW h \in DOMAIN new PROVE new[h] \in 1..nextId' - 1
    <3>1. new[h] \in 1..nextId - 1 \/ new[h] \in nextId..w.next - 1
      BY <1>14
    <3>2. nextId >= 1
      BY <1>3, NextIdCounts
    <3> QED
      BY <1>10, <1>13, <3>1, <3>2
  <2>2. ASSUME NEW g \in DOMAIN new, NEW h \in DOMAIN new, new[g] = new[h]
        PROVE  g = h
    <3>1. CASE new[g] \in 1..nextId - 1
      <4>1. ~(new[h] \in nextId..w.next - 1) /\ ~(new[g] \in nextId..w.next - 1)
        BY <1>10, <1>13, <2>2, <3>1
      <4>2. ids[g] = ids[h] /\ g \in DOMAIN ids /\ h \in DOMAIN ids
        BY <1>12, <1>14, <2>2, <4>1
      <4> QED
        BY <1>4, <4>2 DEF IdTable
    <3>2. CASE new[g] \in nextId..w.next - 1
      <4>1. ~(new[h] \in 1..nextId - 1) /\ ~(new[g] \in 1..nextId - 1)
        BY <1>10, <1>13, <2>2, <3>2
      <4>2. w.ids[g] = w.ids[h] /\ g \in DOMAIN w.ids /\ h \in DOMAIN w.ids
        BY <1>11, <1>14, <2>2, <4>1
      <4> QED
        BY <1>11, <4>2 DEF IdTable
    <3> QED
      BY <1>14, <3>1, <3>2
  <2> QED
    BY <2>1, <2>2 DEF IdTable
<1>16. /\ ProcFit' /\ ObjsFit' /\ DOMAIN objs' = DOMAIN objs
       /\ objs'[n].fin /\ objs'[n].ids = new
       /\ \A m \in DOMAIN objs \ {n} : objs'[m] = objs[m]
  BY <1>1, <1>2, <1>3, <1>10, <1>15, Persisted
<1>17. ASSUME NEW id \in DOMAIN kuma', kuma'[id].kept
       PROVE  \E m \in DOMAIN objs' : Holds(objs'[m], id)
  <2>1. id \in DOMAIN w.kuma /\ w.kuma[id].kept
    BY <1>10, <1>17
  <2>2. CASE id \notin DOMAIN kuma
    <3>1. PICK h \in DOMAIN w.ids : w.ids[h] = id
      BY <1>8, <2>1, <2>2 DEF Made
    <3>2. h \in DOMAIN new /\ new[h] = id
      BY <1>9, <1>11, <1>12, <3>1
    <3>3. Holds(objs'[n], id)
      BY <1>16, <3>2 DEF Holds
    <3> QED
      BY <1>4, <1>16, <3>3
  <2>3. CASE id \in DOMAIN kuma
    <3>1. kuma[id].kept
      BY <1>8, <2>1, <2>3 DEF Made
    <3>2. PICK m \in DOMAIN objs : Holds(objs[m], id)
      BY <1>3, <2>3, <3>1 DEF KeptFit
    <3>3. CASE m # n
      BY <1>16, <3>2, <3>3
    <3>4. CASE m = n
      <4>1. PICK h \in DOMAIN ids : ids[h] = id
        BY <1>4, <3>2, <3>4 DEF Holds, ids
      <4>2. h \in DOMAIN new /\ new[h] = id
        BY <1>6, <1>11, <1>12, <2>3, <4>1
      <4>3. Holds(objs'[n], id)
        BY <1>16, <4>2 DEF Holds
      <4> QED
        BY <1>4, <1>16, <4>3
    <3> QED
      BY <3>3, <3>4
  <2> QED
    BY <2>2, <2>3
<1>18. KeptFit'
  BY <1>17 DEF KeptFit
<1> QED
  BY <1>10, <1>16, <1>18 DEF Fit

(* A sync that fails half-way makes monitors nobody keeps.                 *)
LEMMA FailsFits ==
  ASSUME Fit, NEW n \in Names, ReconcileFails(n)
  PROVE  Fit'
<1> DEFINE dms == Desired(n)
           plan == objs[n].ids
           before == {i \in DOMAIN dms : \A j \in Gone(n, dms) : i < j}
           w == Upserts(dms, before, plan, FALSE)
           hosts == {dms[i].host : i \in before}
<1>1. Ready(n) /\ dms # Invalid /\ Apply(w, {})
  BY DEF ReconcileFails
<1>2. UNCHANGED <<world, env, proc, objs, due, counts>>
  BY DEF ReconcileFails, Spend
<1>3. ProcFit /\ ObjsFit /\ KumaFit /\ KeptFit
  BY DEF Fit
<1>4. Take(n) /\ IdTable(plan, nextId) /\ HostEach(dms)
  BY <1>1, <1>3, ReadyObject, DesiredEach
<1>5. \A i \in before : dms[i].host \in DOMAIN plan =>
         plan[dms[i].host] \in DOMAIN kuma
  <2>1. ASSUME NEW i \in before PROVE i \notin Gone(n, dms)
    <3>1. i \in Nat
      BY <1>4 DEF HostEach
    <3>2. ~(i < i)
      BY <3>1
    <3> QED
      BY <3>2
  <2>2. \A i \in before : i \in DOMAIN dms
    OBVIOUS
  <2> HIDE DEF before
  <2> QED
    BY <2>1, <2>2 DEF Gone
<1>6. before \in SUBSET DOMAIN dms
  OBVIOUS
<1> HIDE DEF dms, plan, before
<1>7. Made(w, hosts, plan, FALSE)
  <2>1. FALSE \in BOOLEAN
    OBVIOUS
  <2> QED
    BY <1>3, <1>4, <1>5, <1>6, <2>1, Upserted
<1> HIDE DEF w, hosts
<1>8. /\ KumaFit' /\ nextId' \in Nat /\ nextId <= nextId'
      /\ \A id \in DOMAIN kuma' :
            id \in DOMAIN w.kuma /\ kuma'[id] = w.kuma[id]
  BY <1>1, <1>3, <1>7, Applied
<1>9. ProcFit'
  BY <1>2, <1>3, <1>4, Taken, Running
<1>10. ObjsFit'
  <2>1. ASSUME NEW m \in DOMAIN objs PROVE ObjectFit(objs[m], nextId')
    <3>1. ObjectFit(objs[m], nextId)
      BY <1>3 DEF ObjsFit
    <3> QED
      BY <1>3, <1>8, <3>1, NextIdCounts, WiderObject
  <2>2. DOMAIN objs \subseteq Names
    BY <1>3 DEF ObjsFit
  <2> QED
    BY <1>2, <2>1, <2>2 DEF ObjsFit
<1>11. ASSUME NEW id \in DOMAIN kuma', kuma'[id].kept
       PROVE  \E m \in DOMAIN objs' : Holds(objs'[m], id)
  <2>1. id \in DOMAIN w.kuma /\ w.kuma[id].kept
    BY <1>8, <1>11
  <2>2. id \in DOMAIN kuma
    <3>1. id \notin DOMAIN kuma => w.kuma[id].kept = FALSE
      BY <1>7, <2>1 DEF Made
    <3> QED
      BY <2>1, <3>1
  <2>3. kuma[id].kept
    BY <1>7, <2>1, <2>2 DEF Made
  <2> QED
    BY <1>2, <1>3, <2>2, <2>3 DEF KeptFit
<1>12. KeptFit'
  BY <1>11 DEF KeptFit
<1> QED
  BY <1>8, <1>9, <1>10, <1>12 DEF Fit

LEMMA ReconcileFits ==
  ASSUME Fit, NEW n \in Names, Reconcile(n)
  PROVE  Fit'
<1>1. CASE ReconcileErrs(n)
  <2>1. UNCHANGED vars
    BY <1>1 DEF ReconcileErrs
  <2>2. UNCHANGED <<objs, kuma, nextId>>
    BY <2>1 DEF vars
  <2>3. ProcFit'
    BY <2>1 DEF Fit, ProcFit, vars
  <2> QED
    BY <2>2, <2>3, StoresStay DEF Fit
<1> QED
  BY <1>1, GoneFits, DeletingFits, IgnoredFits, OptOutFits, MatchingFits,
     DriftedFits, ChangedFits, FailsFits DEF Reconcile

-----------------------------------------------------------------------------
(* And so does everything else.                                            *)

LEMMA StartFits ==
  ASSUME Fit, Start
  PROVE  Fit'
<1>1. UNCHANGED <<world, env, objs, kuma, nextId, counts>>
  BY DEF Start, Spend
<1>2. Load(env) # Invalid /\ due' = DOMAIN objs
  BY DEF Start
<1>3. PICK answer \in Answers : proc' = [cfg |-> Load(env), answer |-> answer]
  <2>1. /\ (IF gateway THEN "installed" ELSE "missing") \in Answers
        /\ "error" \in Answers
    BY DEF Answers
  <2> QED
    BY <2>1 DEF Start
<1>4. world \in DOMAIN Worlds /\ env \in Worlds[world].envs
  BY DEF Fit, ProcFit
<1>5. proc' # None
  <2>1. Worlds[world] \in Range(Worlds)
    BY <1>4 DEF Range
  <2> QED
    BY <1>3, <1>4, <2>1, NoneAssumption
<1>6. due' \subseteq Names
  BY <1>2 DEF Fit, ObjsFit
<1>7. counts' \in [Names -> 0..MaxId]
  BY <1>1 DEF Fit, ProcFit
<1>8. proc'.cfg = Load(env) /\ proc'.answer \in Answers
  BY <1>3
<1>9. Load(env)' = Load(env)
  BY <1>1 DEF Load, LogLevel, IntervalAccepted, DriftCheckInterval,
     CredentialsAccepted, HasPassword, LabelTagPatterns, WatchNamespaces
<1>10. ProcFit'
  BY <1>1, <1>2, <1>4, <1>5, <1>6, <1>7, <1>8, <1>9 DEF ProcFit
<1> QED
  BY <1>1, <1>10, StoresStay DEF Fit

LEMMA ExitFits ==
  ASSUME Fit, Exit, world' = world, env' \in Worlds[world].envs,
         UNCHANGED <<objs, kuma, nextId>>
  PROVE  Fit'
<1>1. NoCounts \in [Names -> 0..MaxId]
  <2>1. MaxId \in Nat
    BY NameAssumption
  <2> QED
    BY <2>1 DEF NoCounts
<1>2. /\ world' \in DOMAIN Worlds /\ env' \in Worlds[world'].envs
      /\ proc' = None /\ due' = {} /\ counts' = NoCounts
  BY DEF Exit, Fit, ProcFit
<1>3. NoCounts' = NoCounts
  BY DEF NoCounts
<1>4. ProcFit'
  BY <1>1, <1>2, <1>3 DEF ProcFit
<1> QED
  BY <1>4, StoresStay DEF Fit

LEMMA ProcessFits ==
  ASSUME Fit, Start \/ Crash \/ AdminEdit \/ GatewayInstalled
  PROVE  Fit'
<1>1. CASE Crash
  <2>1. env \in Worlds[world].envs
    BY DEF Fit, ProcFit
  <2> QED
    BY <1>1, <2>1, ExitFits DEF Crash, Spend
<1>2. CASE AdminEdit
  BY <1>2, ExitFits DEF AdminEdit, Spend
<1>3. CASE GatewayInstalled
  <2>1. UNCHANGED <<world, env, proc, objs, kuma, nextId, due, counts>>
    BY <1>3 DEF GatewayInstalled, Spend
  <2>2. ProcFit'
    BY <2>1 DEF Fit, ProcFit
  <2> QED
    BY <2>1, <2>2, StoresStay DEF Fit
<1> QED
  BY <1>1, <1>2, <1>3, StartFits

LEMMA WatchedFits ==
  ASSUME ProcFit, NEW n \in Names, NEW kind, Spend(kind), Watched(n)
  PROVE  ProcFit' /\ UNCHANGED <<kuma, nextId>>
<1>1. UNCHANGED <<world, env, proc, counts, kuma, nextId>>
  BY DEF Spend, Watched
<1>2. due' = due \/ (due' = due \cup {n} /\ proc # None)
  BY DEF Watched, Serves
<1>3. NoCounts' = NoCounts
  BY DEF NoCounts
<1> QED
  BY <1>1, <1>2, <1>3 DEF ProcFit

LEMMA ObjectThere ==
  ASSUME ObjsFit, NEW n \in Names, Exists(n)
  PROVE  n \in DOMAIN objs /\ ObjectFit(objs[n], nextId) /\ IsObject(objs[n])
BY DEF ObjsFit, Exists, ObjectFit

(* A user may change an object into one that holds as much, ...            *)
LEMMA ChangedObject ==
  ASSUME Fit, NEW n \in Names, NEW kind, Spend(kind), NEW o,
         ObjectFit(o, nextId), Changed(n, o),
         n \in DOMAIN objs => \A id : Holds(objs[n], id) => Holds(o, id)
  PROVE  Fit'
<1>1. ProcFit /\ ObjsFit /\ KumaFit /\ KeptFit
  BY DEF Fit
<1>2. /\ DOMAIN objs' = DOMAIN objs \cup {n} /\ objs'[n] = o
      /\ \A m \in DOMAIN objs \ {n} : objs'[m] = objs[m]
  BY DEF Changed
<1>3. ProcFit' /\ UNCHANGED <<kuma, nextId>>
  BY <1>1, WatchedFits DEF Changed
<1>4. ObjsFit'
  <2>1. nextId' \in Nat /\ nextId <= nextId'
    BY <1>1, <1>3, NextIdCounts
  <2> QED
    BY <1>1, <1>2, <1>3, <2>1, Stored
<1>5. KumaFit'
  BY <1>1, <1>3 DEF KumaFit
<1>6. KeptFit'
  <2>1. ASSUME NEW id \in DOMAIN kuma', kuma'[id].kept
        PROVE  \E m \in DOMAIN objs' : Holds(objs'[m], id)
    <3>1. PICK m \in DOMAIN objs : Holds(objs[m], id)
      BY <1>1, <1>3, <2>1 DEF KeptFit
    <3>2. Holds(objs'[m], id)
      BY <1>2, <3>1
    <3> QED
      BY <1>2, <3>1, <3>2
  <2> QED
    BY <2>1 DEF KeptFit
<1> QED
  BY <1>3, <1>4, <1>5, <1>6 DEF Fit

(* ... and remove one that holds nothing.                                  *)
LEMMA RemovedObject ==
  ASSUME Fit, NEW n \in Names, NEW kind, Spend(kind),
         Exists(n), ~objs[n].fin, objs' = Removed(n), Watched(n)
  PROVE  Fit'
<1>1. ProcFit /\ ObjsFit /\ KumaFit /\ KeptFit
  BY DEF Fit
<1>2. /\ DOMAIN objs' = DOMAIN objs \ {n}
      /\ \A m \in DOMAIN objs \ {n} : objs'[m] = objs[m]
  BY DEF Removed, Restrict
<1>3. ProcFit' /\ UNCHANGED <<kuma, nextId>>
  BY <1>1, WatchedFits
<1>4. ObjsFit'
  BY <1>1, <1>2, <1>3 DEF ObjsFit
<1>5. KumaFit'
  BY <1>1, <1>3 DEF KumaFit
<1>6. KeptFit'
  <2>1. ASSUME NEW id \in DOMAIN kuma', kuma'[id].kept
        PROVE  \E m \in DOMAIN objs' : Holds(objs'[m], id)
    <3>1. PICK m \in DOMAIN objs : Holds(objs[m], id)
      BY <1>1, <1>3, <2>1 DEF KeptFit
    <3>2. m # n
      BY <3>1 DEF Holds
    <3> QED
      BY <1>2, <3>1, <3>2
  <2> QED
    BY <2>1 DEF KeptFit
<1> QED
  BY <1>3, <1>4, <1>5, <1>6 DEF Fit

LEMMA CreatedObject ==
  ASSUME NEW ask \in Asks, NEW next
  PROVE  ObjectFit(Created(ask), next)
<1>1. IdTable(NoIds, next)
  BY DEF IdTable, NoIds
<1>2. /\ IsObject(Created(ask)) /\ ~Created(ask).deleting
      /\ Created(ask).ids = NoIds
  BY DEF Created, IsObject
<1> QED
  BY <1>1, <1>2 DEF ObjectFit

LEMMA AskedFor ==
  ASSUME world \in DOMAIN Worlds, NEW n \in Names,
         NEW ask \in Worlds[world].asks[n]
  PROVE  ask \in Asks
<1>1. Worlds[world] \in Range(Worlds)
  BY DEF Range
<1>2. n \in DOMAIN Worlds[world].asks
  BY <1>1, WorldAssumption
<1>3. Worlds[world].asks[n] \in Range(Worlds[world].asks)
  BY <1>2 DEF Range
<1> QED
  BY <1>1, <1>3 DEF Asks

LEMMA UserEditFits ==
  ASSUME Fit, NEW n \in Names, UserEdit(n)
  PROVE  Fit'
<1>1. PICK ask \in Worlds[world].asks[n] :
         \/ ~Exists(n) /\ Changed(n, Created(ask))
         \/ Exists(n) /\ Changed(n, [objs[n] EXCEPT !.ask = ask])
  BY DEF UserEdit
<1>2. Spend("edit")
  BY DEF UserEdit
<1>3. ask \in Asks
  BY AskedFor DEF Fit, ProcFit
<1>4. CASE ~Exists(n) /\ Changed(n, Created(ask))
  BY <1>2, <1>3, <1>4, CreatedObject, ChangedObject DEF Exists
<1>5. CASE Exists(n) /\ Changed(n, [objs[n] EXCEPT !.ask = ask])
  <2> DEFINE o == [objs[n] EXCEPT !.ask = ask]
  <2>1. ObjectFit(objs[n], nextId) /\ IsObject(objs[n])
    BY <1>5, ObjectThere DEF Fit
  <2>2. /\ IsObject(o) /\ o.ids = objs[n].ids /\ o.fin = objs[n].fin
        /\ o.deleting = objs[n].deleting
    BY <1>3, <2>1 DEF IsObject
  <2>3. Changed(n, o)
    BY <1>5
  <2> HIDE DEF o
  <2>4. ObjectFit(o, nextId)
    BY <2>1, <2>2 DEF ObjectFit
  <2>5. \A id : Holds(objs[n], id) => Holds(o, id)
    BY <2>2 DEF Holds
  <2> QED
    BY <1>2, <2>3, <2>4, <2>5, ChangedObject
<1> QED
  BY <1>1, <1>4, <1>5

LEMMA UserDeleteFits ==
  ASSUME Fit, NEW n \in Names, UserDelete(n)
  PROVE  Fit'
<1>1. Spend("delete") /\ Exists(n)
  BY DEF UserDelete
<1>2. CASE objs[n].fin /\ Changed(n, [objs[n] EXCEPT !.deleting = TRUE])
  <2> DEFINE o == [objs[n] EXCEPT !.deleting = TRUE]
  <2>1. ObjectFit(objs[n], nextId) /\ IsObject(objs[n])
    BY <1>1, ObjectThere DEF Fit
  <2>2. IsObject(o) /\ o.ids = objs[n].ids /\ o.fin = objs[n].fin
    BY <2>1 DEF IsObject
  <2>3. Changed(n, o) /\ objs[n].fin
    BY <1>2
  <2> HIDE DEF o
  <2>4. ObjectFit(o, nextId)
    BY <2>1, <2>2, <2>3 DEF ObjectFit
  <2>5. \A id : Holds(objs[n], id) => Holds(o, id)
    BY <2>2 DEF Holds
  <2> QED
    BY <1>1, <2>3, <2>4, <2>5, ChangedObject
<1>3. CASE ~objs[n].fin /\ objs' = Removed(n) /\ Watched(n)
  BY <1>1, <1>3, RemovedObject
<1> QED
  BY <1>2, <1>3 DEF UserDelete

LEMMA UserManglesFits ==
  ASSUME Fit, NEW n \in Names, UserMangles(n)
  PROVE  Fit'
<1> DEFINE o == [objs[n] EXCEPT !.ids = Garbage]
<1>1. Spend("mangle") /\ Exists(n) /\ Changed(n, o)
  BY DEF UserMangles
<1>2. ObjectFit(objs[n], nextId) /\ IsObject(objs[n])
  BY <1>1, ObjectThere DEF Fit
<1>3. /\ IsObject(o) /\ o.ids = Garbage /\ o.fin = objs[n].fin
      /\ o.deleting = objs[n].deleting
  BY <1>2 DEF IsObject
<1> HIDE DEF o
<1>4. ObjectFit(o, nextId)
  BY <1>2, <1>3 DEF ObjectFit
<1>5. \A id : Holds(objs[n], id) => Holds(o, id)
  BY <1>3 DEF Holds
<1> QED
  BY <1>1, <1>4, <1>5, ChangedObject

LEMMA UserCopyFits ==
  ASSUME Fit, NEW n \in Names, NEW m \in Names, UserCopy(n, m)
  PROVE  Fit'
<1> DEFINE o == [objs[n] EXCEPT !.fin = FALSE, !.deleting = FALSE]
<1>1. Spend("copy") /\ Exists(n) /\ m \notin DOMAIN objs /\ Changed(m, o)
  BY DEF UserCopy, Exists
<1>2. ObjectFit(objs[n], nextId) /\ IsObject(objs[n])
  BY <1>1, ObjectThere DEF Fit
<1>3. IsObject(o) /\ o.ids = objs[n].ids /\ ~o.deleting
  BY <1>2 DEF IsObject
<1> HIDE DEF o
<1>4. ObjectFit(o, nextId)
  BY <1>2, <1>3 DEF ObjectFit
<1> QED
  BY <1>1, <1>4, ChangedObject

LEMMA UiFits ==
  ASSUME Fit, NEW id \in DOMAIN kuma, UiDelete(id) \/ UiEdit(id)
  PROVE  Fit'
<1>1. UNCHANGED <<world, env, proc, objs, nextId, due, counts>>
  BY DEF UiDelete, UiEdit, Spend
<1>2. ProcFit' /\ ObjsFit'
  BY <1>1 DEF Fit, ProcFit, ObjsFit
<1>3. CASE UiDelete(id)
  <2>1. kuma' = Restrict(kuma, DOMAIN kuma \ {id})
    BY <1>3 DEF UiDelete
  <2>2. KumaFit'
    BY <1>1, <2>1, KumaShrinks DEF Fit
  <2>3. KeptFit'
    BY <1>1, <2>1 DEF Fit, KeptFit, Restrict
  <2> QED
    BY <1>2, <2>2, <2>3 DEF Fit
<1>4. CASE UiEdit(id)
  <2>1. kuma' = [kuma EXCEPT ![id].spec = Edited]
    BY <1>4 DEF UiEdit
  <2>2. \A k \in DOMAIN kuma :
           kuma[k] \in [spec : {kuma[k].spec}, kept : BOOLEAN]
    BY DEF Fit, KumaFit
  <2>3. DOMAIN kuma' = DOMAIN kuma
    BY <2>1
  <2>4. ASSUME NEW k \in DOMAIN kuma
        PROVE  /\ kuma'[k] \in [spec : {kuma'[k].spec}, kept : BOOLEAN]
               /\ kuma'[k].kept = kuma[k].kept
    BY <2>1, <2>2
  <2>5. KumaFit'
    BY <1>1, <2>3, <2>4 DEF Fit, KumaFit
  <2>6. KeptFit'
    BY <1>1, <2>3, <2>4 DEF Fit, KeptFit
  <2> QED
    BY <1>2, <2>5, <2>6 DEF Fit
<1> QED
  BY <1>3, <1>4

-----------------------------------------------------------------------------
LEMMA InitFits == Init => Fit
<1> SUFFICES ASSUME Init PROVE Fit
  OBVIOUS
<1>1. /\ world \in DOMAIN Worlds /\ env \in Worlds[world].envs
      /\ objs = [n \in DOMAIN Worlds[world].first |->
                   Created(Worlds[world].first[n])]
      /\ proc = None /\ due = {} /\ counts = NoCounts
  BY DEF Init
<1>2. kuma = NoIds /\ nextId = 1
  BY DEF Init
<1>3. MaxId \in Nat
  BY NameAssumption
<1>4. ProcFit
  <2>1. NoCounts \in [Names -> 0..MaxId]
    BY <1>3 DEF NoCounts
  <2> QED
    BY <1>1, <2>1 DEF ProcFit
<1>5. DOMAIN kuma = {}
  BY <1>2 DEF NoIds
<1>6. KumaFit /\ KeptFit
  BY <1>2, <1>3, <1>5 DEF KumaFit, KeptFit
<1>7. ObjsFit
  <2>1. Worlds[world] \in Range(Worlds)
    BY <1>1 DEF Range
  <2>2. /\ DOMAIN Worlds[world].first \subseteq Names
        /\ \A n \in DOMAIN Worlds[world].first :
              Worlds[world].first[n] \in Worlds[world].asks[n]
    BY <2>1, WorldAssumption
  <2>3. DOMAIN objs = DOMAIN Worlds[world].first
    BY <1>1
  <2>4. ASSUME NEW n \in DOMAIN objs PROVE ObjectFit(objs[n], nextId)
    <3>1. objs[n] = Created(Worlds[world].first[n])
      BY <1>1, <2>3
    <3>2. Worlds[world].first[n] \in Asks
      BY <1>1, <2>2, <2>3, AskedFor
    <3> QED
      BY <3>1, <3>2, CreatedObject
  <2> QED
    BY <2>2, <2>3, <2>4 DEF ObjsFit
<1> QED
  BY <1>4, <1>6, <1>7 DEF Fit

LEMMA StepsFit == Fit /\ [Next]_vars => Fit'
<1> SUFFICES ASSUME Fit, [Next]_vars PROVE Fit'
  OBVIOUS
<1>1. CASE UNCHANGED vars
  <2>1. UNCHANGED <<world, env, proc, objs, kuma, nextId, due, counts>>
    BY <1>1 DEF vars
  <2>2. ProcFit'
    BY <2>1 DEF Fit, ProcFit
  <2> QED
    BY <2>1, <2>2, StoresStay DEF Fit
<1>2. CASE \E n \in Names : Reconcile(n)
  BY <1>2, ReconcileFits
<1>3. CASE Start \/ Crash \/ AdminEdit \/ GatewayInstalled
  BY <1>3, ProcessFits
<1>4. CASE \E n \in Names : UserEdit(n) \/ UserDelete(n) \/ UserMangles(n)
  BY <1>4, UserEditFits, UserDeleteFits, UserManglesFits
<1>5. CASE \E m, n \in Names : UserCopy(n, m)
  BY <1>5, UserCopyFits
<1>6. CASE \E id \in DOMAIN kuma : UiDelete(id) \/ UiEdit(id)
  BY <1>6, UiFits
<1> QED
  BY <1>1, <1>2, <1>3, <1>4, <1>5, <1>6 DEF Next

LEMMA AlwaysFit == Spec => []Fit
BY InitFits, StepsFit, PTL DEF Spec

(* The state of the operator, its objects and Kuma stays well formed.      *)
THEOREM TypeCorrect == Spec => []TypeOK
<1>1. Fit => TypeOK
  <2> SUFFICES ASSUME Fit PROVE TypeOK
    OBVIOUS
  <2>1. /\ proc # None => proc.answer \in Answers
        /\ proc = None => due = {} /\ counts = NoCounts
        /\ due \subseteq Names /\ counts \in [Names -> 0..MaxId]
    BY DEF Fit, ProcFit
  <2>2. DOMAIN kuma \subseteq 1..nextId - 1 /\ nextId \in 1..MaxId + 1
    BY DEF Fit, KumaFit
  <2>3. ASSUME NEW n \in Names, Exists(n)
        PROVE  /\ IdsOf(n) \subseteq 1..nextId - 1
               /\ objs[n].deleting => objs[n].fin
    <3>1. ObjectFit(objs[n], nextId)
      BY <2>3, ObjectThere DEF Fit
    <3>2. CASE objs[n].ids = Garbage
      BY <3>1, <3>2 DEF ObjectFit, IdsOf
    <3>3. CASE IdTable(objs[n].ids, nextId) /\ objs[n].ids # Garbage
      BY <3>1, <3>3 DEF ObjectFit, IdTable, IdsOf, Range
    <3> QED
      BY <3>1, <3>2, <3>3 DEF ObjectFit
  <2> QED
    BY <2>1, <2>2, <2>3 DEF TypeOK
<1> QED
  BY <1>1, AlwaysFit, PTL

(* Every monitor whose making went through stays on record with an object  *)
(* that its finalizer holds, whatever users do to their objects, as long   *)
(* as they leave the operator's annotations readable (syncMonitors,        *)
(* reconcileDrift, deleteAllMonitors).                                     *)
THEOREM NothingIsLeaked == Spec => []NothingLeaked
<1>1. Fit => NothingLeaked
  <2> SUFFICES ASSUME Fit,
                      \A n \in Names : Exists(n) => objs[n].ids # Garbage,
                      NEW id \in DOMAIN kuma, kuma[id].kept
               PROVE  \E n \in Names : Exists(n) /\ objs[n].fin /\ id \in IdsOf(n)
    BY DEF NothingLeaked
  <2>1. PICK n \in DOMAIN objs : Holds(objs[n], id)
    BY DEF Fit, KeptFit
  <2>2. n \in Names /\ Exists(n)
    BY DEF Fit, ObjsFit, Exists
  <2>3. \E h \in DOMAIN objs[n].ids : objs[n].ids[h] = id
    BY <2>1, <2>2 DEF Holds
  <2>4. id \in IdsOf(n)
    BY <2>2, <2>3 DEF IdsOf, Range
  <2> QED
    BY <2>1, <2>2, <2>4 DEF Holds
<1> QED
  BY <1>1, AlwaysFit, PTL

-----------------------------------------------------------------------------
(* The manager's cache holds the namespaces an administrator has named.    *)
LEMMA CacheAsNamed ==
  ASSUME Fit, proc # None, NEW ns, CacheHolds(proc.cfg, ns)
  PROVE  NamespaceWatched(ns)
<1> DEFINE listed == CommaList(env.WATCH_NAMESPACES)
<1>1. /\ Load(env) # Invalid /\ proc.cfg = Load(env)
      /\ world \in DOMAIN Worlds /\ env \in Worlds[world].envs
  BY DEF Fit, ProcFit
<1>2. /\ proc.cfg.watchAll => env.WATCH_ALL = "true"
      /\ proc.cfg.watchNamespaces = WatchNamespaces(env)
  <2> DEFINE all == env.WATCH_ALL = "true"
  <2>1. Load(env).watchAll = all
    BY <1>1, Zenon DEF Load
  <2>2. Load(env).watchNamespaces = WatchNamespaces(env)
    BY <1>1 DEF Load
  <2>3. Load(env).watchAll => all
    BY <2>1, Zenon
  <2> QED
    BY <1>1, <2>2, <2>3
<1>3. env.WATCH_ALL = "true" \/ WatchNamespaces(env) # <<>>
  BY <1>1 DEF Load
<1>4. env.WATCH_NAMESPACES \in Seq(STRING)
  <2>1. Worlds[world] \in Range(Worlds)
    BY <1>1 DEF Range
  <2> QED
    BY <1>1, <2>1, WorldAssumption
<1>5. ToSet(listed) = ToSet(env.WATCH_NAMESPACES) \ {""}
  BY <1>4, CommaListDropsBlanks
<1>6. CASE env.WATCH_ALL = "true"
  BY <1>6 DEF NamespaceWatched
<1>7. CASE env.WATCH_ALL # "true"
  <2>1. \/ ns \in ToSet(WatchNamespaces(env))
        \/ "" \in ToSet(WatchNamespaces(env))
    BY <1>2, <1>7 DEF CacheHolds
  <2>2. CASE listed = <<>> /\ env.POD_NAMESPACE # ""
    <3>1. WatchNamespaces(env) = <<env.POD_NAMESPACE>>
      BY <1>7, <2>2 DEF WatchNamespaces
    <3>2. ToSet(<<env.POD_NAMESPACE>>) = {env.POD_NAMESPACE}
      BY DEF ToSet
    <3>3. ToSet(listed) = {}
      <4>1. ToSet(<<>>) = {}
        <5>1. DOMAIN <<>> = {}
          OBVIOUS
        <5> QED
          BY <5>1 DEF ToSet
      <4> QED
        BY <2>2, <4>1
    <3> QED
      BY <1>5, <2>1, <2>2, <3>1, <3>2, <3>3 DEF NamespaceWatched
  <2>3. CASE ~(listed = <<>> /\ env.POD_NAMESPACE # "")
    <3>1. WatchNamespaces(env) = listed
      BY <1>7, <2>3 DEF WatchNamespaces
    <3> QED
      BY <1>5, <2>1, <3>1 DEF NamespaceWatched
  <2> QED
    BY <2>2, <2>3
<1> QED
  BY <1>6, <1>7

(* The operator makes, edits and deletes monitors for objects in the       *)
(* namespaces an administrator has named, and for no others, whatever      *)
(* blank pieces their list has (Load, the manager's cache).                *)
THEOREM ScopeCorrect == Spec => ScopeAsConfigured
<1>1. ASSUME Fit, NEW n \in Names, Reconcile(n)
      PROVE  NamespaceWatched(Namespace[n])
  <2>1. Take(n)
    BY <1>1 DEF Reconcile, ReconcileGone, ReconcileDeleting, ReconcileIgnored,
       ReconcileOptOut, ReconcileMatching, ReconcileDrifted, ReconcileChanged,
       ReconcileFails, ReconcileErrs, Ready
  <2>2. proc # None /\ CacheHolds(proc.cfg, Namespace[n])
    BY <2>1 DEF Take, Serves
  <2> QED
    BY <1>1, <2>2, CacheAsNamed
<1>2. Fit /\ [Next]_vars =>
         [\A n \in Names : Reconcile(n) => NamespaceWatched(Namespace[n])]_vars
  BY <1>1
<1> QED
  BY <1>2, AlwaysFit, PTL DEF Spec, ScopeAsConfigured
=============================================================================
