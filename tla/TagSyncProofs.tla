---------------------------- MODULE TagSyncProofs ----------------------------
(* Proofs about TagSync for every set of controllers, monitors, names and  *)
(* requests and every number of tags and outside events.                   *)
EXTENDS TagSync, FiniteSetTheorems, WellFoundedInduction, TLAPS

-----------------------------------------------------------------------------
(* Least and greatest numbers.                                             *)

LEMMA LeastNumber ==
  ASSUME NEW T \in SUBSET Nat, T # {}
  PROVE  \E x \in T : \A y \in T : x <= y
<1>1. PICK x \in T : \A y \in T : ~(<<y, x>> \in OpToRel(<, Nat))
  BY NatLessThanWellFounded, WFMin
<1>2. ASSUME NEW y \in T PROVE x <= y
  <2>1. x \in Nat /\ y \in Nat /\ ~(<<y, x>> \in OpToRel(<, Nat))
    BY <1>1
  <2> QED
    BY <2>1 DEF OpToRel
<1> QED
  BY <1>2

LEMMA GreatestNumber ==
  ASSUME NEW n \in Nat, NEW T \in SUBSET (1..n), T # {}
  PROVE  \E x \in T : \A y \in T : y <= x
<1> DEFINE U == {k \in Nat : \A y \in T : y <= k}
<1>1. PICK u \in U : \A k \in U : u <= k
  <2>1. n \in U
    OBVIOUS
  <2> HIDE DEF U
  <2>2. U \in SUBSET Nat
    BY DEF U
  <2> QED
    BY <2>1, <2>2, LeastNumber
<1>2. u \in T
  <2> SUFFICES ASSUME u \notin T PROVE FALSE
    OBVIOUS
  <2>1. u \in Nat /\ \A y \in T : y \in 1..n /\ y <= u /\ y # u
    BY <1>1
  <2>2. u - 1 \in Nat
    <3>1. PICK y \in T : TRUE
      OBVIOUS
    <3>2. y \in Nat /\ y >= 1 /\ y <= u
      BY <2>1, <3>1
    <3> QED
      BY <2>1, <3>2
  <2>3. \A y \in T : y <= u - 1
    BY <2>1
  <2>4. u - 1 \in U
    BY <2>2, <2>3
  <2>5. u <= u - 1
    BY <1>1, <2>4
  <2> QED
    BY <2>1, <2>5
<1> QED
  BY <1>1, <1>2

-----------------------------------------------------------------------------
(* Lists of names.                                                         *)

(* No name is kept twice, none gets lost (mergeTags).                      *)
LEMMA MergedOnce ==
  ASSUME NEW s \in Seq(Names)
  PROVE  /\ MergeTags(s) \in SUBSET Entries
         /\ \A e, f \in MergeTags(s) : e.name = f.name => e = f
<1>1. MergeTags(s) \in SUBSET Entries
  BY DEF MergeTags, Entries
<1>2. ASSUME NEW e \in MergeTags(s), NEW f \in MergeTags(s), e.name = f.name
      PROVE  e = f
  BY <1>2 DEF MergeTags
<1> QED
  BY <1>1, <1>2

LEMMA MergedAll ==
  ASSUME NEW s \in Seq(Names)
  PROVE  NamesOf(MergeTags(s)) = {s[i] : i \in DOMAIN s}
<1>1. ASSUME NEW i \in DOMAIN s PROVE s[i] \in NamesOf(MergeTags(s))
  <2> DEFINE T == {k \in DOMAIN s : s[k] = s[i]}
  <2>1. PICK k \in T : \A j \in T : k <= j
    <3>1. i \in T /\ T \in SUBSET Nat
      OBVIOUS
    <3> HIDE DEF T
    <3> QED
      BY <3>1, LeastNumber
  <2>2. \A j \in 1..(k - 1) : s[j] # s[k]
    BY <2>1
  <2>3. k \in {n \in DOMAIN s : \A j \in 1..(n - 1) : s[j] # s[n]}
    BY <2>1, <2>2
  <2>4. [at |-> k, name |-> s[k]] \in MergeTags(s)
    BY <2>3 DEF MergeTags
  <2>5. [at |-> k, name |-> s[k]].name = s[i]
    BY <2>1
  <2> QED
    BY <2>4, <2>5 DEF NamesOf
<1>2. NamesOf(MergeTags(s)) \in SUBSET {s[i] : i \in DOMAIN s}
  BY DEF NamesOf, MergeTags
<1> QED
  BY <1>1, <1>2

LEMMA FirstEntry ==
  ASSUME NEW list \in SUBSET Entries, list # {}
  PROVE  First(list) \in list
<1> DEFINE T == {e.at : e \in list}
<1>1. T \in SUBSET Nat /\ T # {}
  BY DEF Entries
<1>2. PICK x \in T : \A y \in T : x <= y
  BY <1>1, LeastNumber
<1>3. \E e \in list : \A f \in list : e.at <= f.at
  BY <1>2
<1> QED
  BY <1>3 DEF First

LEMMA LabelOrder ==
  ASSUME NEW S \in SUBSET Names, IsFiniteSet(S), NEW s \in SetToSeqs(S)
  PROVE  s \in Seq(Names)
<1>1. Cardinality(S) \in Nat
  BY FS_CardinalityType
<1>2. s \in [1..Cardinality(S) -> Names]
  BY DEF SetToSeqs
<1> QED
  BY <1>1, <1>2

(* Tags knows a tag of each name there is one of.                          *)
LEMMA KnownTag ==
  ASSUME NEW name, NEW t \in Ids, tags[t] = name
  PROVE  Known(name) # {}
<1> DEFINE T == {u \in Ids : tags[u] = name}
<1>1. PICK x \in T : \A y \in T : y <= x
  BY BoundAssumption, GreatestNumber DEF Ids
<1> QED
  BY <1>1 DEF Known

-----------------------------------------------------------------------------
(* Types, and what each controller keeps to by itself.                     *)

Own(c) == {m \in Monitors : Owner[m] = c}

(* A controller works on its own monitors only, with a list that has no    *)
(* name twice; tags are created while names of it are missing.             *)
Local(c) ==
    /\ pc[c] \in {"idle", "list", "create", "read", "change"}
    /\ names[c] \in SUBSET Entries /\ missing[c] \in SUBSET names[c]
    /\ \A e, f \in names[c] : e.name = f.name => e = f
    /\ mon[c] \in Monitors \cup {Nameless} /\ todo[c] \in SUBSET Own(c)
    /\ pc[c] # "idle" => mon[c] \in Own(c)
    /\ ids[c] \in SUBSET Ids /\ adds[c] \in SUBSET Ids
    /\ drops[c] \in SUBSET Ids
    /\ pc[c] = "create" <=> missing[c] # {}
    /\ pc[c] = "change" =>
          adds[c] \cup drops[c] # {} /\ drops[c] \cap ids[c] = {}

KumaOK ==
    /\ tags \in [Ids -> Names \cup {Nameless}] /\ nextTag \in 1..(MaxTags + 1)
    /\ assigned \in [Monitors -> SUBSET Ids]
    /\ \A t \in Ids : t >= nextTag => tags[t] = Nameless

TypeInv ==
    /\ TypeOK /\ KumaOK
    /\ \A c \in Controllers : Local(c)

(* Of the controllers' state a step changes at most one's.                 *)
Only(c) ==
    /\ pc' = Put(pc, c, pc'[c]) /\ names' = Put(names, c, names'[c])
    /\ todo' = Put(todo, c, todo'[c]) /\ mon' = Put(mon, c, mon'[c])
    /\ missing' = Put(missing, c, missing'[c]) /\ ids' = Put(ids, c, ids'[c])
    /\ adds' = Put(adds, c, adds'[c]) /\ drops' = Put(drops, c, drops'[c])

LEMMA PutEntry ==
  ASSUME NEW S, NEW f \in [Controllers -> S], NEW c \in Controllers, NEW v
  PROVE  /\ Put(f, c, v) = Put(f, c, Put(f, c, v)[c]) /\ Put(f, c, v)[c] = v
         /\ f = Put(f, c, f[c])
         /\ \A d \in Controllers : d # c => Put(f, c, v)[d] = f[d]
BY DEF Put

LEMMA Functional ==
  ASSUME TypeOK
  PROVE  \E A, B, C, D, E, F, G, H :
            /\ pc \in [Controllers -> A] /\ names \in [Controllers -> B]
            /\ todo \in [Controllers -> C] /\ mon \in [Controllers -> D]
            /\ missing \in [Controllers -> E] /\ ids \in [Controllers -> F]
            /\ adds \in [Controllers -> G] /\ drops \in [Controllers -> H]
BY DEF TypeOK

(* How each way to end, to go on and to change the sets leaves them.       *)
LEMMA ForgetOnly ==
  ASSUME TypeOK, NEW c \in Controllers, Forget(c)
  PROVE  /\ Only(c) /\ Local(c)'
         /\ pc'[c] = "idle" /\ names'[c] = {} /\ missing'[c] = {}
<1>1. /\ pc'[c] = "idle" /\ names'[c] = {} /\ todo'[c] = {}
      /\ mon'[c] = Nameless /\ missing'[c] = {} /\ ids'[c] = {}
      /\ adds'[c] = {} /\ drops'[c] = {}
  BY DEF Forget, Goto, Put, TypeOK
<1>2. Only(c)
  BY <1>1 DEF Only, Forget, Goto, Put
<1> QED
  BY <1>1, <1>2 DEF Local

LEMMA TurnOnly ==
  ASSUME TypeOK, NEW c \in Controllers, NEW m \in Own(c), Turn(c, m, names'[c]),
         names' = Put(names, c, names'[c]), todo' = Put(todo, c, todo'[c]),
         names'[c] \in SUBSET Entries, todo'[c] \in SUBSET Own(c),
         \A e, f \in names'[c] : e.name = f.name => e = f
  PROVE  /\ Only(c) /\ Local(c)'
         /\ missing'[c] = {} /\ ids'[c] = {} /\ drops'[c] = {}
         /\ pc'[c] = FirstStage(names'[c])
<1>1. /\ pc'[c] = FirstStage(names'[c]) /\ mon'[c] = m
      /\ missing'[c] = {} /\ ids'[c] = {} /\ adds'[c] = {} /\ drops'[c] = {}
  BY DEF Turn, Goto, Put, TypeOK
<1>2. Only(c)
  BY <1>1 DEF Only, Turn, Goto, Put
<1>3. m \in Monitors /\ pc'[c] \in {"read", "list"}
  BY <1>1 DEF Own, FirstStage
<1>4. Local(c)'
  BY <1>1, <1>3 DEF Local
<1> QED
  BY <1>1, <1>2, <1>4

LEMMA DoneOnly ==
  ASSUME TypeInv, NEW c \in Controllers, Done(c)
  PROVE  /\ Only(c) /\ Local(c)' /\ missing'[c] = {}
         /\ \/ pc'[c] = "idle" /\ names'[c] = {}
            \/ pc'[c] = FirstStage(names'[c]) /\ names'[c] = names[c]
<1>1. TypeOK /\ Local(c)
  BY DEF TypeInv
<1>2. CASE Forget(c)
  BY <1>1, <1>2, ForgetOnly
<1>3. ASSUME NEW m \in todo[c], todo' = Put(todo, c, todo[c] \ {m}),
             Turn(c, m, names[c]), UNCHANGED names
      PROVE  /\ Only(c) /\ Local(c)' /\ missing'[c] = {}
             /\ pc'[c] = FirstStage(names'[c]) /\ names'[c] = names[c]
  <2>1. /\ names'[c] = names[c] /\ names' = Put(names, c, names'[c])
        /\ todo'[c] = todo[c] \ {m} /\ todo' = Put(todo, c, todo'[c])
    BY <1>1, <1>3 DEF TypeOK, Put
  <2>2. m \in Own(c) /\ todo'[c] \in SUBSET Own(c)
    BY <1>1, <1>3, <2>1 DEF Local
  <2>3. /\ names'[c] \in SUBSET Entries
        /\ \A e, f \in names'[c] : e.name = f.name => e = f
    BY <1>1, <2>1 DEF Local
  <2>4. Turn(c, m, names'[c])
    BY <1>3, <2>1
  <2> QED
    BY <1>1, <2>1, <2>2, <2>3, <2>4, TurnOnly
<1> QED
  BY <1>2, <1>3 DEF Done

LEMMA BeginOnly ==
  ASSUME TypeInv, NEW c \in Controllers, Begin(c)
  PROVE  /\ Only(c) /\ Local(c)' /\ missing'[c] = {}
         /\ pc'[c] = FirstStage(names'[c])
<1>1. TypeOK /\ Local(c) /\ request[c] \in Requests
  BY DEF TypeInv, TypeOK
<1>2. PICK m \in Monitors, order \in DeriveLabelTags(request[c].labels) :
         LET merged == MergeTags(DefaultTags \o request[c].own \o order)
         IN  /\ Owner[m] = c
             /\ names' = Put(names, c, merged) /\ Turn(c, m, merged)
             /\ todo' = Put(todo, c, {n \in Monitors : Owner[n] = c} \ {m})
  BY DEF Begin
<1> DEFINE all == DefaultTags \o request[c].own \o order
           merged == MergeTags(all)
<1>3. all \in Seq(Names)
  <2> DEFINE S == request[c].labels \cap Inferred
  <2>1. /\ request[c].own \in Seq(Names) /\ DefaultTags \in Seq(Names)
        /\ S \in SUBSET Names /\ IsFiniteSet(request[c].labels)
    BY <1>1, RequestAssumption
  <2>2. IsFiniteSet(S)
    BY <2>1, FS_Subset
  <2>3. order \in SetToSeqs(S)
    BY <1>2 DEF DeriveLabelTags
  <2> HIDE DEF S
  <2>4. order \in Seq(Names)
    BY <2>1, <2>2, <2>3, LabelOrder
  <2> QED
    BY <2>1, <2>4
<1> HIDE DEF all
<1>4. /\ merged \in SUBSET Entries
      /\ \A e, f \in merged : e.name = f.name => e = f
  BY <1>3, MergedOnce
<1>5. /\ names' = Put(names, c, merged) /\ Turn(c, m, merged)
      /\ todo' = Put(todo, c, Own(c) \ {m}) /\ m \in Own(c)
  BY <1>2 DEF all, Own
<1> HIDE DEF merged
<1>6. /\ names'[c] = merged /\ names' = Put(names, c, names'[c])
      /\ todo'[c] = Own(c) \ {m} /\ todo' = Put(todo, c, todo'[c])
  BY <1>1, <1>5 DEF TypeOK, Put
<1>7. todo'[c] \in SUBSET Own(c) /\ Turn(c, m, names'[c])
  BY <1>5, <1>6
<1>8. /\ names'[c] \in SUBSET Entries
      /\ \A e, f \in names'[c] : e.name = f.name => e = f
  BY <1>4, <1>6
<1> QED
  BY <1>1, <1>5, <1>6, <1>7, <1>8, TurnOnly

LEMMA ListOnly ==
  ASSUME TypeInv, NEW c \in Controllers, ListTags(c)
  PROVE  /\ Only(c) /\ Local(c)' /\ names'[c] = names[c]
         /\ missing'[c] = {e \in names[c] : Known(e.name) = {}}
         /\ ids'[c] = UNION {Known(n) : n \in NamesOf(names[c])}
         /\ pc'[c] = AfterList(missing'[c])
<1> DEFINE unknown == {e \in names[c] : Known(e.name) = {}}
<1>1. TypeOK /\ Local(c) /\ pc[c] = "list"
  BY DEF TypeInv, ListTags
<1>2. /\ missing' = Put(missing, c, unknown) /\ Goto(c, AfterList(unknown))
      /\ ids' = Put(ids, c, UNION {Known(n) : n \in NamesOf(names[c])})
      /\ UNCHANGED <<names, todo, mon, adds, drops>>
  BY DEF ListTags
<1>3. UNION {Known(n) : n \in NamesOf(names[c])} \in SUBSET Ids
  BY DEF Known
<1> DEFINE found == UNION {Known(n) : n \in NamesOf(names[c])}
<1>4. unknown \in SUBSET names[c]
  OBVIOUS
<1> HIDE DEF unknown, found
<1>5. /\ missing'[c] = unknown /\ ids'[c] = found
      /\ pc'[c] = AfterList(unknown)
      /\ names'[c] = names[c] /\ todo'[c] = todo[c] /\ mon'[c] = mon[c]
      /\ adds'[c] = adds[c] /\ drops'[c] = drops[c]
  BY <1>1, <1>2 DEF TypeOK, Put, Goto, found
<1>6. Only(c)
  BY <1>1, <1>2, <1>5 DEF Only, TypeOK, Put, Goto, found
<1>7. Local(c)'
  BY <1>1, <1>3, <1>4, <1>5 DEF Local, AfterList, found
<1> QED
  BY <1>5, <1>6, <1>7 DEF unknown, found

LEMMA CreateOnly ==
  ASSUME TypeInv, NEW c \in Controllers, CreateTag(c)
  PROVE  /\ Only(c) /\ Local(c)' /\ names'[c] = names[c]
         /\ First(missing[c]) \in missing[c]
         /\ Created(First(missing[c]).name)
         /\ missing'[c] = missing[c] \ {First(missing[c])}
         /\ ids'[c] = ids[c] \cup {nextTag} /\ nextTag \in Ids
         /\ pc'[c] = AfterList(missing'[c])
<1> DEFINE e == First(missing[c])
<1>1. TypeOK /\ KumaOK /\ Local(c) /\ pc[c] = "create"
  BY DEF TypeInv, CreateTag
<1>2. e \in missing[c]
  BY <1>1, FirstEntry DEF Local
<1>3. /\ Created(e.name) /\ missing' = Put(missing, c, missing[c] \ {e})
      /\ Goto(c, AfterList(missing[c] \ {e}))
      /\ ids' = Put(ids, c, ids[c] \cup {nextTag})
      /\ UNCHANGED <<names, todo, mon, adds, drops>>
  BY DEF CreateTag
<1>4. nextTag \in Ids
  BY <1>1, <1>3, BoundAssumption DEF KumaOK, Created, Ids
<1> HIDE DEF e
<1>5. /\ missing'[c] = missing[c] \ {e} /\ ids'[c] = ids[c] \cup {nextTag}
      /\ pc'[c] = AfterList(missing[c] \ {e})
      /\ names'[c] = names[c] /\ todo'[c] = todo[c] /\ mon'[c] = mon[c]
      /\ adds'[c] = adds[c] /\ drops'[c] = drops[c]
  BY <1>1, <1>3 DEF TypeOK, Put, Goto
<1>6. Only(c)
  BY <1>1, <1>3, <1>5 DEF Only, TypeOK, Put, Goto
<1>7. Local(c)'
  BY <1>1, <1>4, <1>5 DEF Local, AfterList
<1> QED
  BY <1>2, <1>3, <1>4, <1>5, <1>6, <1>7 DEF e

LEMMA ChangedOnly ==
  ASSUME TypeInv, NEW c \in Controllers, pc[c] = "change",
         NEW more \in SUBSET adds[c], NEW fewer \in SUBSET drops[c],
         Changed(c, more, fewer)
  PROVE  /\ Only(c) /\ Local(c)' /\ missing'[c] = {}
         /\ \/ pc'[c] = "idle" /\ names'[c] = {}
            \/ pc'[c] = FirstStage(names'[c]) /\ names'[c] = names[c]
            \/ /\ pc'[c] = "change" /\ names'[c] = names[c]
               /\ mon'[c] = mon[c] /\ ids'[c] = ids[c]
               /\ adds'[c] = more /\ drops'[c] = fewer
<1>1. TypeOK /\ Local(c) /\ missing[c] = {}
  BY DEF TypeInv, Local
<1>2. CASE Done(c)
  BY <1>2, DoneOnly
<1>3. CASE /\ more \cup fewer # {}
           /\ adds' = Put(adds, c, more) /\ drops' = Put(drops, c, fewer)
           /\ UNCHANGED <<pc, names, todo, mon, missing, ids>>
  <2>1. /\ adds'[c] = more /\ drops'[c] = fewer /\ pc'[c] = pc[c]
        /\ names'[c] = names[c] /\ todo'[c] = todo[c] /\ mon'[c] = mon[c]
        /\ missing'[c] = missing[c] /\ ids'[c] = ids[c]
    BY <1>1, <1>3 DEF TypeOK, Put
  <2>2. Only(c)
    BY <1>1, <1>3, <2>1 DEF Only, TypeOK, Put
  <2>3. Local(c)'
    BY <1>1, <1>3, <2>1 DEF Local
  <2> QED
    BY <1>1, <2>1, <2>2, <2>3
<1> QED
  BY <1>2, <1>3 DEF Changed

LEMMA ReadOnly ==
  ASSUME TypeInv, NEW c \in Controllers, ReadTags(c)
  PROVE  /\ Only(c) /\ Local(c)' /\ missing'[c] = {}
         /\ \/ pc'[c] = "idle" /\ names'[c] = {}
            \/ pc'[c] = FirstStage(names'[c]) /\ names'[c] = names[c]
            \/ /\ pc'[c] = "change" /\ names'[c] = names[c]
               /\ mon'[c] = mon[c] /\ ids'[c] = ids[c]
               /\ adds'[c] = ids[c] \ assigned[mon[c]]
<1> DEFINE current == assigned[mon[c]]
<1>1. TypeOK /\ Local(c) /\ pc[c] = "read" /\ missing[c] = {}
  BY DEF TypeInv, Local, ReadTags
<1>2. current \in SUBSET Ids
  BY <1>1 DEF TypeOK, Local, Own
<1>3. CASE Done(c)
  BY <1>3, DoneOnly
<1>4. CASE /\ current # ids[c] /\ Goto(c, "change")
           /\ adds' = Put(adds, c, ids[c] \ current)
           /\ drops' = Put(drops, c, current \ ids[c])
           /\ UNCHANGED <<names, todo, mon, missing, ids>>
  <2> HIDE DEF current
  <2>1. /\ adds'[c] = ids[c] \ current /\ drops'[c] = current \ ids[c]
        /\ pc'[c] = "change"
        /\ names'[c] = names[c] /\ todo'[c] = todo[c] /\ mon'[c] = mon[c]
        /\ missing'[c] = missing[c] /\ ids'[c] = ids[c]
    BY <1>1, <1>4 DEF TypeOK, Put, Goto
  <2>2. Only(c)
    BY <1>1, <1>4, <2>1 DEF Only, TypeOK, Put, Goto
  <2>3. Local(c)'
    BY <1>1, <1>2, <1>4, <2>1 DEF Local
  <2> QED
    BY <1>1, <2>1, <2>2, <2>3 DEF current
<1> QED
  BY <1>3, <1>4 DEF ReadTags

LEMMA AddOnly ==
  ASSUME TypeInv, NEW c \in Controllers, AddTag(c)
  PROVE  /\ Only(c) /\ Local(c)' /\ missing'[c] = {}
         /\ \/ pc'[c] = "idle" /\ names'[c] = {}
            \/ pc'[c] = FirstStage(names'[c]) /\ names'[c] = names[c]
            \/ /\ pc'[c] = "change" /\ names'[c] = names[c]
               /\ mon'[c] = mon[c] /\ ids'[c] = ids[c]
               /\ \E t \in adds[c] : /\ adds'[c] = adds[c] \ {t}
                                     /\ Assigned(mon[c], t)
<1>1. PICK t \in adds[c] :
         Assigned(mon[c], t) /\ Changed(c, adds[c] \ {t}, drops[c])
  BY DEF AddTag
<1>2. adds[c] \ {t} \in SUBSET adds[c] /\ drops[c] \in SUBSET drops[c]
  OBVIOUS
<1>3. pc[c] = "change"
  BY DEF AddTag
<1> QED
  BY <1>1, <1>2, <1>3, ChangedOnly

LEMMA DropOnly ==
  ASSUME TypeInv, NEW c \in Controllers, DropTag(c)
  PROVE  /\ Only(c) /\ Local(c)' /\ missing'[c] = {}
         /\ \/ pc'[c] = "idle" /\ names'[c] = {}
            \/ pc'[c] = FirstStage(names'[c]) /\ names'[c] = names[c]
            \/ /\ pc'[c] = "change" /\ names'[c] = names[c]
               /\ mon'[c] = mon[c] /\ ids'[c] = ids[c]
               /\ adds'[c] = adds[c]
               /\ \E t \in drops[c] : Unassigned(mon[c], t)
<1>1. PICK t \in drops[c] :
         Unassigned(mon[c], t) /\ Changed(c, adds[c], drops[c] \ {t})
  BY DEF DropTag
<1>2. drops[c] \ {t} \in SUBSET drops[c] /\ adds[c] \in SUBSET adds[c]
  OBVIOUS
<1>3. pc[c] = "change"
  BY DEF DropTag
<1> QED
  BY <1>1, <1>2, <1>3, ChangedOnly

LEMMA FailsOnly ==
  ASSUME TypeInv, NEW c \in Controllers,
         AddTagFails(c) \/ CallFails(c) \/ AnswerLost(c)
  PROVE  /\ Only(c) /\ Local(c)'
         /\ pc'[c] = "idle" /\ names'[c] = {} /\ missing'[c] = {}
<1>1. TypeOK /\ Forget(c)
  BY DEF TypeInv, AddTagFails, CallFails, AnswerLost
<1> QED
  BY <1>1, ForgetOnly

(* A step of controller c.                                                 *)
Step(c) == Reconcile(c) \/ CallFails(c) \/ AnswerLost(c)

LEMMA StepOnly ==
  ASSUME TypeInv, NEW c \in Controllers, Step(c)
  PROVE  Only(c) /\ Local(c)'
BY BeginOnly, ListOnly, CreateOnly, ReadOnly, AddOnly, DropOnly, FailsOnly
DEF Step, Reconcile

LEMMA OthersKept ==
  ASSUME TypeOK, NEW c \in Controllers, Only(c), NEW d \in Controllers, d # c
  PROVE  /\ pc'[d] = pc[d] /\ names'[d] = names[d] /\ todo'[d] = todo[d]
         /\ mon'[d] = mon[d] /\ missing'[d] = missing[d]
         /\ ids'[d] = ids[d] /\ adds'[d] = adds[d] /\ drops'[d] = drops[d]
BY DEF Only, Put, TypeOK

LEMMA OthersLocal ==
  ASSUME TypeInv, NEW c \in Controllers, Only(c), Local(c)'
  PROVE  \A d \in Controllers : Local(d)'
<1>1. ASSUME NEW d \in Controllers, d # c PROVE Local(d)'
  <2>1. /\ pc'[d] = pc[d] /\ names'[d] = names[d] /\ todo'[d] = todo[d]
        /\ mon'[d] = mon[d] /\ missing'[d] = missing[d]
        /\ ids'[d] = ids[d] /\ adds'[d] = adds[d] /\ drops'[d] = drops[d]
    BY <1>1, OthersKept DEF TypeInv
  <2>2. Local(d)
    BY DEF TypeInv
  <2> QED
    BY <2>1, <2>2 DEF Local
<1> QED
  BY <1>1

LEMMA OnlyType ==
  ASSUME TypeInv, NEW c \in Controllers, Only(c), Local(c)'
  PROVE  /\ pc' \in [Controllers -> {"idle", "list", "create", "read", "change"}]
         /\ names' \in [Controllers -> SUBSET Entries]
         /\ todo' \in [Controllers -> SUBSET Monitors]
         /\ mon' \in [Controllers -> Monitors \cup {Nameless}]
         /\ missing' \in [Controllers -> SUBSET Entries]
         /\ ids' \in [Controllers -> SUBSET Ids]
         /\ adds' \in [Controllers -> SUBSET Ids]
         /\ drops' \in [Controllers -> SUBSET Ids]
         /\ \A d \in Controllers :
               /\ pc'[d] = "create" => missing'[d] # {}
               /\ pc'[d] = "change" => adds'[d] \cup drops'[d] # {}
<1>1. TypeOK
  BY DEF TypeInv
<1>2. \A d \in Controllers : Local(d)'
  BY OthersLocal
<1>3. todo'[c] \in SUBSET Monitors /\ missing'[c] \in SUBSET Entries
  BY <1>2 DEF Local, Own
<1>4. /\ pc'[c] \in {"idle", "list", "create", "read", "change"}
      /\ names'[c] \in SUBSET Entries /\ mon'[c] \in Monitors \cup {Nameless}
      /\ ids'[c] \in SUBSET Ids /\ adds'[c] \in SUBSET Ids
      /\ drops'[c] \in SUBSET Ids
  BY <1>2 DEF Local
<1>5. \A d \in Controllers :
         /\ pc'[d] = "create" => missing'[d] # {}
         /\ pc'[d] = "change" => adds'[d] \cup drops'[d] # {}
  BY <1>2 DEF Local
<1> QED
  BY <1>1, <1>3, <1>4, <1>5 DEF Only, Put, TypeOK

LEMMA SpendType ==
  ASSUME TypeOK, NEW kind \in Events, Spend(kind)
  PROVE  outside' \in Outside
<1>1. outside.may \in [Events -> Nat] /\ outside.did \in SUBSET Events
  BY DEF TypeOK, Outside
<1>2. [outside.may EXCEPT ![kind] = @ - 1] \in [Events -> Nat]
  BY <1>1 DEF Spend
<1>3. outside.did \cup {kind} \in SUBSET Events
  BY <1>1
<1>4. outside' = [may |-> [outside.may EXCEPT ![kind] = @ - 1],
                  did |-> outside.did \cup {kind}]
  BY DEF TypeOK, Outside, Spend
<1> QED
  BY <1>2, <1>3, <1>4 DEF Outside

LEMMA OutsideStep ==
  ASSUME TypeOK, [Next]_vars
  PROVE  outside' \in Outside /\ outside.did \in SUBSET outside'.did
<1>1. outside' = outside \/ \E kind \in Events : Spend(kind)
  BY DEF Events, Next, World, vars, Reconcile, Begin, ListTags, CreateTag,
         ReadTags, AddTag, AddTagFails, DropTag, CallFails, AnswerLost,
         UserEdit, UiDelete, UiAssign, UiCreate
<1>2. ASSUME NEW kind \in Events, Spend(kind)
      PROVE  outside.did \in SUBSET outside'.did
  BY <1>2 DEF Spend, TypeOK, Outside
<1> QED
  BY <1>1, <1>2, SpendType DEF TypeOK

LEMMA RequestStep ==
  ASSUME TypeOK, [Next]_vars
  PROVE  request' \in [Controllers -> Requests]
<1>1. ASSUME NEW c \in Controllers, UserEdit(c)
      PROVE  request' \in [Controllers -> Requests]
  BY <1>1 DEF UserEdit, Put, TypeOK
<1>2. request' = request \/ \E c \in Controllers : UserEdit(c)
  BY DEF Next, World, vars, Reconcile, Begin, ListTags, CreateTag,
         ReadTags, AddTag, AddTagFails, DropTag, CallFails, AnswerLost,
         UiDelete, UiAssign, UiCreate
<1> QED
  BY <1>1, <1>2 DEF TypeOK

-----------------------------------------------------------------------------
(* Kuma.                                                                   *)

(* A controller only takes tags off its own monitor that are not among     *)
(* those it resolved, and after it has put all of those on.                *)
Dropped(m, t) ==
    \E c \in Controllers :
        /\ Owner[m] = c /\ mon[c] = m /\ pc[c] = "change"
        /\ adds[c] = {} /\ t \in drops[c]

KumaMove ==
    \/ UNCHANGED kuma
    \/ \E name \in Names : Created(name)
    \/ \E m \in Monitors, t \in Ids : Assigned(m, t)
    \/ \E m \in Monitors, t \in Ids :
          Unassigned(m, t) /\ (Dropped(m, t) \/ "uiAssign" \in outside'.did)
    \/ \E t \in Ids :
          /\ tags' = [tags EXCEPT ![t] = Nameless]
          /\ assigned' = [m \in Monitors |-> assigned[m] \ {t}]
          /\ nextTag' = nextTag /\ "uiDelete" \in outside'.did

LEMMA Spent ==
  ASSUME TypeOK, NEW kind, Spend(kind)
  PROVE  kind \in outside'.did
BY DEF TypeOK, Outside, Spend

LEMMA ControllerMove ==
  ASSUME TypeInv, NEW c \in Controllers, Step(c)
  PROVE  KumaMove
<1>1. TypeOK /\ Local(c)
  BY DEF TypeInv
<1>2. pc[c] = "change" =>
         /\ mon[c] \in Monitors /\ Owner[mon[c]] = c
         /\ adds[c] \in SUBSET Ids /\ drops[c] \in SUBSET Ids
  BY <1>1 DEF Local, Own
<1>3. pc[c] = "create" => First(missing[c]).name \in Names
  <2>1. missing[c] \in SUBSET Entries
    BY <1>1 DEF Local
  <2>2. pc[c] = "create" => First(missing[c]) \in Entries
    BY <1>1, <2>1, FirstEntry DEF Local
  <2> QED
    BY <2>2 DEF Entries
<1>4. CASE CreateTag(c)
  BY <1>3, <1>4 DEF CreateTag, KumaMove
<1>5. CASE AddTag(c)
  BY <1>2, <1>5 DEF AddTag, KumaMove
<1>6. CASE DropTag(c)
  BY <1>2, <1>6 DEF DropTag, MayDrop, Dropped, KumaMove
<1>7. CASE AnswerLost(c)
  <2>1. \/ pc[c] = "create" /\ Created(First(missing[c]).name)
        \/ pc[c] = "change" /\ \E t \in adds[c] : Assigned(mon[c], t)
        \/ /\ pc[c] = "change" /\ adds[c] = {}
           /\ \E t \in drops[c] : Unassigned(mon[c], t)
    BY <1>7 DEF AnswerLost, MayDrop
  <2>2. CASE pc[c] = "create" /\ Created(First(missing[c]).name)
    BY <1>3, <2>2 DEF KumaMove
  <2>3. CASE pc[c] = "change" /\ \E t \in adds[c] : Assigned(mon[c], t)
    BY <1>2, <2>3 DEF KumaMove
  <2>4. CASE /\ pc[c] = "change" /\ adds[c] = {}
             /\ \E t \in drops[c] : Unassigned(mon[c], t)
    BY <1>2, <2>4 DEF Dropped, KumaMove
  <2> QED
    BY <2>1, <2>2, <2>3, <2>4
<1>8. CASE UNCHANGED kuma
  BY <1>8 DEF KumaMove
<1> QED
  BY <1>4, <1>5, <1>6, <1>7, <1>8
  DEF Step, Reconcile, Begin, ListTags, ReadTags, AddTagFails, CallFails

LEMMA UserMove ==
  ASSUME TypeInv, World
  PROVE  KumaMove
<1>1. TypeOK
  BY DEF TypeInv
<1>2. ASSUME NEW t \in Ids, UiDelete(t) PROVE KumaMove
  BY <1>1, <1>2, Spent DEF UiDelete, KumaMove
<1>3. ASSUME NEW t \in Ids, NEW m \in Monitors, UiAssign(m, t)
      PROVE  KumaMove
  <2>1. "uiAssign" \in outside'.did
    BY <1>1, <1>3, Spent DEF UiAssign
  <2> QED
    BY <1>3, <2>1 DEF UiAssign, KumaMove
<1>4. ASSUME NEW name \in Names, UiCreate(name) PROVE KumaMove
  BY <1>4 DEF UiCreate, KumaMove
<1>5. ASSUME NEW c \in Controllers, UserEdit(c) PROVE KumaMove
  BY <1>5 DEF UserEdit, KumaMove
<1> QED
  BY <1>2, <1>3, <1>4, <1>5 DEF World

LEMMA KumaStep ==
  ASSUME TypeInv, [Next]_vars
  PROVE  KumaMove
<1>1. CASE UNCHANGED vars
  BY <1>1 DEF vars, kuma, KumaMove
<1> QED
  BY <1>1, ControllerMove, UserMove DEF Next, Step

(* A tag keeps its name until a user deletes it, and so does a monitor its *)
(* tags.                                                                   *)
LEMMA KumaKept ==
  ASSUME KumaOK, KumaMove
  PROVE  /\ KumaOK'
         /\ "uiDelete" \notin outside'.did =>
               \A t \in Ids : tags[t] # Nameless => tags'[t] = tags[t]
<1>1. MaxTags \in Nat
  BY BoundAssumption
<1>2. CASE UNCHANGED kuma
  BY <1>2 DEF KumaOK, kuma
<1>3. ASSUME NEW name \in Names, Created(name)
      PROVE  /\ KumaOK'
             /\ \A t \in Ids : tags[t] # Nameless => tags'[t] = tags[t]
  <2>1. nextTag \in Ids /\ nextTag' = nextTag + 1 /\ nextTag' \in 1..(MaxTags + 1)
    BY <1>1, <1>3 DEF KumaOK, Created, Ids
  <2>2. /\ tags' \in [Ids -> Names \cup {Nameless}]
        /\ \A t \in Ids : t # nextTag => tags'[t] = tags[t]
        /\ assigned' = assigned
    BY <1>3, <2>1 DEF KumaOK, Created
  <2>3. \A t \in Ids : t >= nextTag' => t >= nextTag /\ t # nextTag
    BY <1>1, <2>1 DEF KumaOK, Ids
  <2>4. nextTag >= nextTag
    BY <1>1, <2>1 DEF Ids
  <2> QED
    BY <2>1, <2>2, <2>3, <2>4 DEF KumaOK
<1>4. ASSUME NEW m \in Monitors, NEW t \in Ids,
             Assigned(m, t) \/ Unassigned(m, t)
      PROVE  KumaOK' /\ tags' = tags
  BY <1>4 DEF KumaOK, Assigned, Unassigned
<1>5. ASSUME NEW t \in Ids, tags' = [tags EXCEPT ![t] = Nameless],
             assigned' = [m \in Monitors |-> assigned[m] \ {t}],
             nextTag' = nextTag
      PROVE  KumaOK'
  BY <1>5 DEF KumaOK
<1> QED
  BY <1>2, <1>3, <1>4, <1>5 DEF KumaMove, kuma

-----------------------------------------------------------------------------
(* Type correctness.                                                       *)

LEMMA TypeInit == Init => TypeInv
<1> SUFFICES ASSUME Init PROVE TypeInv
  OBVIOUS
<1>1. PICK n \in 0..OldTags :
         /\ nextTag = n + 1
         /\ \E old \in [1..n -> Names] :
               tags = [t \in Ids |-> IF t <= n THEN old[t] ELSE Nameless]
         /\ assigned \in [Monitors -> SUBSET (1..n)]
  BY DEF Init
<1>2. /\ OldTags \in Nat /\ MaxTags \in Nat /\ n \in Nat /\ n <= MaxTags
      /\ 1..n \in SUBSET Ids
  BY <1>1, BoundAssumption DEF Ids
<1>3. PICK old \in [1..n -> Names] :
         tags = [t \in Ids |-> IF t <= n THEN old[t] ELSE Nameless]
  BY <1>1
<1>4. KumaOK
  <2>1. \A t \in Ids : t \in Nat /\ t >= 1 /\ (t <= n => t \in 1..n)
    BY <1>2 DEF Ids
  <2>2. tags \in [Ids -> Names \cup {Nameless}]
    BY <1>3, <2>1
  <2>3. \A t \in Ids : t >= nextTag => tags[t] = Nameless
    BY <1>1, <1>2, <1>3, <2>1
  <2>4. nextTag \in 1..(MaxTags + 1)
    BY <1>1, <1>2
  <2>5. assigned \in [Monitors -> SUBSET Ids]
    BY <1>1, <1>2
  <2> QED
    BY <2>2, <2>3, <2>4, <2>5 DEF KumaOK
<1>5. outside \in Outside
  BY BoundAssumption DEF Init, Outside
<1>6. TypeOK
  BY <1>4, <1>5 DEF KumaOK, Init, TypeOK
<1>7. \A c \in Controllers : Local(c)
  BY DEF Init, Local
<1> QED
  BY <1>4, <1>6, <1>7 DEF TypeInv

LEMMA TypeStep ==
  ASSUME TypeInv, [Next]_vars
  PROVE  TypeInv'
<1>1. TypeOK /\ KumaOK /\ \A c \in Controllers : Local(c)
  BY DEF TypeInv
<1>2. KumaOK'
  BY <1>1, KumaStep, KumaKept
<1>3. outside' \in Outside /\ request' \in [Controllers -> Requests]
  BY <1>1, OutsideStep, RequestStep
<1>4. ASSUME NEW c \in Controllers, Step(c) PROVE TypeInv'
  <2>1. Only(c) /\ Local(c)'
    BY <1>4, StepOnly
  <2>2. \A d \in Controllers : Local(d)'
    BY <2>1, OthersLocal
  <2>3. TypeOK'
    BY <1>2, <1>3, <2>1, OnlyType DEF TypeOK, KumaOK
  <2> QED
    BY <1>2, <2>2, <2>3 DEF TypeInv
<1>5. CASE UNCHANGED <<pc, work>>
  <2>1. TypeOK'
    BY <1>1, <1>2, <1>3, <1>5 DEF TypeOK, KumaOK, work
  <2>2. \A d \in Controllers : Local(d)'
    BY <1>1, <1>5 DEF Local, work
  <2> QED
    BY <1>2, <2>1, <2>2 DEF TypeInv
<1> QED
  BY <1>4, <1>5
  DEF Next, Step, World, vars, UserEdit, UiDelete, UiAssign, UiCreate

LEMMA TypeInvariant == Spec => []TypeInv
BY TypeInit, TypeStep, PTL DEF Spec

(* Every variable keeps its type, and a controller that creates tags or    *)
(* changes a monitor's has some left to create or change (syncTags,        *)
(* SetMonitorTags).                                                        *)
THEOREM TypeCorrect == Spec => []TypeOK
<1>1. TypeInv => TypeOK
  BY DEF TypeInv
<1> QED
  BY <1>1, TypeInvariant, PTL

-----------------------------------------------------------------------------
(* No name is lost.  As long as users leave tags and assignments alone, a  *)
(* controller has resolved each name of its list, or will create a tag     *)
(* for it, and adds what it has resolved to what the monitor carries.      *)

Untouched == outside.did \cap {"uiDelete", "uiAssign"} = {}

Covered(c) ==
    pc[c] \in {"create", "read", "change"} =>
        \A e \in names[c] :
            e \in missing[c] \/ \E t \in ids[c] : tags[t] = e.name

Underway(c) ==
    pc[c] = "change" => ids[c] \in SUBSET (assigned[mon[c]] \cup adds[c])

ProvidedInv == Untouched => \A c \in Controllers : Covered(c) /\ Underway(c)

LEMMA StillUntouched ==
  ASSUME TypeOK, [Next]_vars, Untouched'
  PROVE  Untouched
BY OutsideStep DEF Untouched

LEMMA TagsKept ==
  ASSUME TypeInv, KumaMove, Untouched'
  PROVE  \A t \in Ids : tags[t] # Nameless => tags'[t] = tags[t]
BY KumaKept DEF TypeInv, Untouched

LEMMA AssignedKept ==
  ASSUME TypeInv, KumaMove, Untouched', NEW m \in Monitors, NEW u \in assigned[m],
         ~Dropped(m, u)
  PROVE  u \in assigned'[m]
<1>1. assigned \in [Monitors -> SUBSET Ids]
  BY DEF TypeInv, TypeOK
<1>2. "uiAssign" \notin outside'.did /\ "uiDelete" \notin outside'.did
  BY DEF Untouched
<1>3. CASE UNCHANGED assigned
  BY <1>3
<1>4. ASSUME NEW n \in Monitors, NEW t \in Ids, Assigned(n, t)
      PROVE  u \in assigned'[m]
  BY <1>1, <1>4 DEF Assigned
<1>5. ASSUME NEW n \in Monitors, NEW t \in Ids, Unassigned(n, t), Dropped(n, t)
      PROVE  u \in assigned'[m]
  <2>1. n = m => t # u
    BY <1>5
  <2> QED
    BY <1>1, <1>5, <2>1 DEF Unassigned
<1> QED
  BY <1>2, <1>3, <1>4, <1>5 DEF KumaMove, Created, kuma

(* A controller never takes off what it has resolved.                      *)
LEMMA ResolvedKept ==
  ASSUME TypeInv, KumaMove, Untouched', NEW c \in Controllers, pc[c] = "change"
  PROVE  ids[c] \cap assigned[mon[c]] \in SUBSET assigned'[mon[c]]
<1>1. /\ mon[c] \in Monitors /\ Owner[mon[c]] = c
      /\ drops[c] \cap ids[c] = {}
  BY DEF TypeInv, Local, Own
<1>2. ASSUME NEW u \in ids[c] PROVE ~Dropped(mon[c], u)
  BY <1>1 DEF Dropped
<1> QED
  BY <1>1, <1>2, AssignedKept

LEMMA ProvidedOther ==
  ASSUME TypeInv, KumaMove, Untouched', NEW c \in Controllers,
         Covered(c), Underway(c),
         /\ pc'[c] = pc[c] /\ names'[c] = names[c] /\ mon'[c] = mon[c]
         /\ missing'[c] = missing[c] /\ ids'[c] = ids[c] /\ adds'[c] = adds[c]
  PROVE  Covered(c)' /\ Underway(c)'
<1>1. /\ names[c] \in SUBSET Entries /\ ids[c] \in SUBSET Ids
      /\ \A e \in Entries : e.name # Nameless
  BY NameAssumption DEF TypeInv, Local, Entries
<1>2. ASSUME NEW e \in names[c], NEW t \in ids[c], tags[t] = e.name
      PROVE  tags'[t] = e.name
  BY <1>1, <1>2, TagsKept
<1>3. Covered(c)'
  BY <1>2 DEF Covered
<1>4. Underway(c)'
  BY ResolvedKept DEF Underway
<1> QED
  BY <1>3, <1>4

LEMMA ProvidedAnew ==
  ASSUME NEW c \in Controllers,
         pc'[c] = "idle" \/ pc'[c] = FirstStage(names'[c])
  PROVE  Covered(c)' /\ Underway(c)'
BY DEF Covered, Underway, FirstStage

LEMMA ProvidedList ==
  ASSUME TypeInv, NEW c \in Controllers, ListTags(c)
  PROVE  Covered(c)' /\ Underway(c)'
<1>1. /\ names'[c] = names[c] /\ tags' = tags
      /\ missing'[c] = {e \in names[c] : Known(e.name) = {}}
      /\ ids'[c] = UNION {Known(n) : n \in NamesOf(names[c])}
      /\ pc'[c] \in {"create", "read"}
  BY ListOnly DEF AfterList, ListTags, kuma
<1>2. ASSUME NEW e \in names[c], Known(e.name) # {}
      PROVE  \E t \in ids'[c] : tags[t] = e.name
  <2>1. PICK t \in Known(e.name) : TRUE
    BY <1>2
  <2>2. e.name \in NamesOf(names[c])
    BY DEF NamesOf
  <2>3. tags[t] = e.name
    BY <2>1 DEF Known
  <2> QED
    BY <1>1, <2>1, <2>2, <2>3
<1> QED
  BY <1>1, <1>2 DEF Covered, Underway

LEMMA ProvidedCreate ==
  ASSUME TypeInv, KumaMove, Untouched', NEW c \in Controllers, CreateTag(c),
         Covered(c)
  PROVE  Covered(c)' /\ Underway(c)'
<1> DEFINE f == First(missing[c])
<1>1. /\ names'[c] = names[c] /\ missing'[c] = missing[c] \ {f}
      /\ ids'[c] = ids[c] \cup {nextTag} /\ nextTag \in Ids /\ Created(f.name)
      /\ pc'[c] \in {"create", "read"} /\ pc[c] = "create"
  BY CreateOnly DEF AfterList, CreateTag
<1> HIDE DEF f
<1>2. /\ names[c] \in SUBSET Entries /\ ids[c] \in SUBSET Ids
      /\ tags \in [Ids -> Names \cup {Nameless}]
      /\ \A e \in Entries : e.name # Nameless
  BY NameAssumption DEF TypeInv, TypeOK, Local, Entries
<1>3. tags'[nextTag] = f.name
  BY <1>1, <1>2 DEF Created
<1>4. ASSUME NEW e \in names[c], NEW t \in ids[c], tags[t] = e.name
      PROVE  tags'[t] = e.name
  BY <1>2, <1>4, TagsKept
<1>5. ASSUME NEW e \in names[c]
      PROVE  e \in missing'[c] \/ \E t \in ids'[c] : tags'[t] = e.name
  <2>1. CASE e = f
    BY <1>1, <1>3, <2>1
  <2>2. CASE e # f
    BY <1>1, <1>4, <2>2 DEF Covered
  <2> QED
    BY <2>1, <2>2
<1> QED
  BY <1>1, <1>5 DEF Covered, Underway

LEMMA ProvidedChange ==
  ASSUME TypeInv, KumaMove, Untouched', NEW c \in Controllers,
         ReadTags(c) \/ AddTag(c) \/ DropTag(c), Covered(c), Underway(c)
  PROVE  Covered(c)' /\ Underway(c)'
<1>1. /\ pc[c] \in {"read", "change"} /\ missing[c] = {}
      /\ assigned \in [Monitors -> SUBSET Ids]
      /\ mon[c] \in Monitors /\ names[c] \in SUBSET Entries
      /\ ids[c] \in SUBSET Ids /\ adds[c] \in SUBSET Ids
      /\ \A e \in Entries : e.name # Nameless
  BY NameAssumption
  DEF TypeInv, TypeOK, Local, Own, Entries, ReadTags, AddTag, DropTag
<1>2. CASE pc'[c] = "idle" \/ pc'[c] = FirstStage(names'[c])
  BY <1>2, ProvidedAnew
<1>3. CASE /\ pc'[c] = "change" /\ names'[c] = names[c]
           /\ mon'[c] = mon[c] /\ ids'[c] = ids[c]
           /\ ids[c] \in SUBSET (assigned'[mon[c]] \cup adds'[c])
  <2>1. ASSUME NEW e \in names[c] PROVE \E t \in ids[c] : tags'[t] = e.name
    BY <1>1, TagsKept DEF Covered
  <2> QED
    BY <1>3, <2>1 DEF Covered, Underway
<1>4. CASE ReadTags(c)
  <2>1. assigned' = assigned
    BY <1>4 DEF ReadTags, kuma
  <2> QED
    BY <1>2, <1>3, <1>4, <2>1, ReadOnly
<1>5. CASE AddTag(c)
  <2>1. ASSUME NEW t \in adds[c], Assigned(mon[c], t), adds'[c] = adds[c] \ {t}
        PROVE  ids[c] \in SUBSET (assigned'[mon[c]] \cup adds'[c])
    <3>1. assigned'[mon[c]] = assigned[mon[c]] \cup {t}
      BY <1>1, <2>1 DEF Assigned
    <3>2. ids[c] \in SUBSET (assigned[mon[c]] \cup adds[c])
      BY <1>5 DEF AddTag, Underway
    <3> QED
      BY <2>1, <3>1, <3>2
  <2> QED
    BY <1>2, <1>3, <1>5, <2>1, AddOnly
<1>6. CASE DropTag(c)
  <2>1. ids[c] \in SUBSET (assigned'[mon[c]] \cup adds[c])
    BY <1>6, ResolvedKept DEF DropTag, Underway
  <2> QED
    BY <1>2, <1>3, <1>6, <2>1, DropOnly
<1> QED
  BY <1>4, <1>5, <1>6

LEMMA ProvidedStep ==
  ASSUME TypeInv, ProvidedInv, [Next]_vars
  PROVE  ProvidedInv'
<1> SUFFICES ASSUME Untouched', NEW d \in Controllers
             PROVE  Covered(d)' /\ Underway(d)'
  BY DEF ProvidedInv
<1>1. KumaMove /\ TypeOK
  BY KumaStep DEF TypeInv
<1>2. Covered(d) /\ Underway(d)
  BY <1>1, StillUntouched DEF ProvidedInv
<1>3. CASE Step(d)
  <2>1. CASE Begin(d)
    BY <2>1, BeginOnly, ProvidedAnew
  <2>2. CASE AddTagFails(d) \/ CallFails(d) \/ AnswerLost(d)
    BY <2>2, FailsOnly, ProvidedAnew
  <2> QED
    BY <1>1, <1>2, <1>3, <2>1, <2>2, ProvidedList, ProvidedCreate,
       ProvidedChange
    DEF Step, Reconcile
<1>4. ASSUME NEW c \in Controllers, Step(c), c # d
      PROVE  Covered(d)' /\ Underway(d)'
  <2>1. Only(c)
    BY <1>4, StepOnly
  <2> QED
    BY <1>1, <1>2, <1>4, <2>1, OthersKept, ProvidedOther
<1>5. CASE UNCHANGED <<pc, work>>
  <2>1. /\ pc'[d] = pc[d] /\ names'[d] = names[d] /\ mon'[d] = mon[d]
        /\ missing'[d] = missing[d] /\ ids'[d] = ids[d] /\ adds'[d] = adds[d]
    BY <1>5 DEF work
  <2> QED
    BY <1>1, <1>2, <2>1, ProvidedOther
<1> QED
  BY <1>3, <1>4, <1>5
  DEF Next, Step, World, vars, UserEdit, UiDelete, UiAssign, UiCreate

LEMMA NamesStep ==
  ASSUME TypeInv, ProvidedInv, [Next]_vars, Untouched', NEW m \in Monitors
  PROVE  NamesOn(m) \cap NamesOf(names[Owner[m]]) \in SUBSET NamesOn(m)'
<1> SUFFICES ASSUME NEW e \in names[Owner[m]], NEW t \in assigned[m],
                    tags[t] = e.name
             PROVE  e.name \in NamesOn(m)'
  BY DEF NamesOn, NamesOf
<1>1. /\ TypeOK /\ KumaMove /\ Owner[m] \in Controllers
      /\ assigned \in [Monitors -> SUBSET Ids]
  BY KumaStep, OwnerAssumption DEF TypeInv, TypeOK
<1>2. /\ names[Owner[m]] \in SUBSET Entries /\ ids[Owner[m]] \in SUBSET Ids
      /\ \A f \in Entries : f.name # Nameless
  BY <1>1, NameAssumption DEF TypeInv, Local, Entries
<1>3. ASSUME NEW u \in Ids, tags[u] = e.name, u \in assigned'[m]
      PROVE  e.name \in NamesOn(m)'
  <2>1. tags'[u] = e.name
    BY <1>1, <1>2, <1>3, TagsKept
  <2> QED
    BY <1>3, <2>1 DEF NamesOn
<1>4. CASE ~Dropped(m, t)
  BY <1>1, <1>3, <1>4, AssignedKept
<1>5. CASE Dropped(m, t)
  <2> DEFINE c == Owner[m]
  <2>1. /\ mon[c] = m /\ pc[c] = "change" /\ adds[c] = {}
    BY <1>5 DEF Dropped
  <2>2. Covered(c) /\ Underway(c) /\ missing[c] = {}
    BY <1>1, <2>1, StillUntouched DEF ProvidedInv, TypeInv, Local
  <2>3. PICK u \in ids[c] : tags[u] = e.name
    BY <2>1, <2>2 DEF Covered
  <2>4. u \in assigned[m] /\ u \in assigned'[m]
    BY <1>1, <2>1, <2>2, ResolvedKept DEF Underway
  <2> QED
    BY <1>2, <1>3, <2>3, <2>4
<1> QED
  BY <1>4, <1>5

(* While a reconcile moves a monitor from one tag to another, the monitor  *)
(* never loses a name the reconcile wants it to have, whatever the other   *)
(* controllers, failed calls and lost answers do meanwhile                 *)
(* (SetMonitorTags adds before it removes, syncTags resolves every name).  *)
THEOREM NamesKept == Spec => KeepsNames
<1>1. Init => ProvidedInv
  BY DEF Init, ProvidedInv, Covered, Underway
<1>2. TypeInv /\ ProvidedInv /\ [Next]_vars =>
         (Untouched' => \A m \in Monitors :
            NamesOn(m) \cap NamesOf(names[Owner[m]]) \in SUBSET NamesOn(m)')
  BY NamesStep
<1>3. TypeInv /\ ProvidedInv /\ [Next]_vars => ProvidedInv'
  BY ProvidedStep
<1> DEFINE Keeps ==
             outside'.did \cap {"uiDelete", "uiAssign"} = {} =>
                \A m \in Monitors :
                   NamesOn(m) \cap NamesOf(names[Owner[m]]) \subseteq NamesOn(m)'
<1>4. TypeInv /\ ProvidedInv /\ [Next]_vars => [Keeps]_vars
  BY <1>2 DEF Untouched
<1>5. KeepsNames <=> [][Keeps]_vars
  BY DEF KeepsNames
<1> HIDE DEF Keeps
<1> QED
  BY <1>1, <1>3, <1>4, <1>5, TypeInvariant, PTL DEF Spec

-----------------------------------------------------------------------------
(* Few tags of a name.  The tags there are of a name and the controllers   *)
(* about to create one are, together, no more than there were tags to      *)
(* begin with, or than there are controllers: a controller only sets out   *)
(* to create a tag when there is none, and creates one of each name.       *)

Called(name) == {t \in Ids : tags[t] = name}
Creators(name) == {c \in Controllers : name \in NamesOf(missing[c])}
Limit == Max({Cardinality(Controllers), OldTags})

ScarceInv ==
    "uiCreate" \notin outside.did =>
        \A name \in Names :
            Cardinality(Called(name)) + Cardinality(Creators(name)) <= Limit

LEMMA LimitBounds ==
  Limit \in Nat /\ Cardinality(Controllers) <= Limit /\ OldTags <= Limit
<1> DEFINE a == Cardinality(Controllers)
<1>1. a \in Nat /\ OldTags \in Nat
  BY OwnerAssumption, BoundAssumption, FS_CardinalityType
<1> HIDE DEF a
<1>2. \E x \in {a, OldTags} : \A y \in {a, OldTags} : x >= y
  BY <1>1
<1>3. /\ Max({a, OldTags}) \in {a, OldTags}
      /\ \A y \in {a, OldTags} : Max({a, OldTags}) >= y
  BY <1>2 DEF Max
<1>4. /\ Max({a, OldTags}) \in Nat /\ a <= Max({a, OldTags})
      /\ OldTags <= Max({a, OldTags})
  BY <1>1, <1>3
<1> QED
  BY <1>4 DEF Limit, a

LEMMA FiniteIds == IsFiniteSet(Ids)
BY BoundAssumption, FS_Interval DEF Ids

(* Fewer of both; one tag more and one controller fewer; no tag at all.    *)
LEMMA SumShrinks ==
  ASSUME NEW T, NEW P, IsFiniteSet(T), IsFiniteSet(P),
         NEW A \in SUBSET T, NEW B \in SUBSET P
  PROVE  /\ Cardinality(A) + Cardinality(B) <= Cardinality(T) + Cardinality(P)
         /\ Cardinality(T) + Cardinality(P) \in Nat
         /\ Cardinality(A) + Cardinality(B) \in Nat
<1>1. /\ IsFiniteSet(A) /\ Cardinality(A) <= Cardinality(T)
      /\ IsFiniteSet(B) /\ Cardinality(B) <= Cardinality(P)
  BY FS_Subset
<1>2. /\ Cardinality(A) \in Nat /\ Cardinality(T) \in Nat
      /\ Cardinality(B) \in Nat /\ Cardinality(P) \in Nat
  BY <1>1, FS_CardinalityType
<1> QED
  BY <1>1, <1>2

LEMMA SumMoves ==
  ASSUME NEW T, NEW P, IsFiniteSet(T), IsFiniteSet(P), NEW c \in P, NEW t,
         NEW A \in SUBSET (T \cup {t}), NEW B \in SUBSET (P \ {c})
  PROVE  Cardinality(A) + Cardinality(B) <= Cardinality(T) + Cardinality(P)
<1>1. /\ IsFiniteSet(T \cup {t})
      /\ Cardinality(T \cup {t}) <= Cardinality(T) + 1
  <2> DEFINE a == Cardinality(T)
             b == Cardinality(T \cup {t})
  <2>1. IsFiniteSet(T \cup {t}) /\ a \in Nat
    BY FS_AddElement, FS_CardinalityType
  <2>2. b = IF t \in T THEN a ELSE a + 1
    BY FS_AddElement
  <2> HIDE DEF a, b
  <2>3. b <= a + 1
    BY <2>1, <2>2
  <2> QED
    BY <2>1, <2>3 DEF a, b
<1>2. IsFiniteSet(P \ {c}) /\ Cardinality(P \ {c}) = Cardinality(P) - 1
  BY FS_RemoveElement
<1>3. Cardinality(A) + Cardinality(B)
         <= Cardinality(T \cup {t}) + Cardinality(P \ {c})
  BY <1>1, <1>2, SumShrinks
<1>4. /\ Cardinality(T \cup {t}) \in Nat /\ Cardinality(P) \in Nat
      /\ Cardinality(T) \in Nat /\ Cardinality(P \ {c}) \in Nat
      /\ Cardinality(A) + Cardinality(B) \in Nat
  BY <1>1, <1>2, FS_CardinalityType, SumShrinks
<1> QED
  BY <1>1, <1>2, <1>3, <1>4

LEMMA SumFinite ==
  ASSUME NEW name
  PROVE  IsFiniteSet(Called(name)) /\ IsFiniteSet(Creators(name))
<1>1. Called(name) \in SUBSET Ids /\ Creators(name) \in SUBSET Controllers
  BY DEF Called, Creators
<1> QED
  BY <1>1, FiniteIds, OwnerAssumption, FS_Subset

(* Who is about to create a tag after a step of c.                         *)
LEMMA CreatorsStep ==
  ASSUME TypeInv, NEW c \in Controllers, Only(c), NEW name
  PROVE  /\ Creators(name)' \in SUBSET (Creators(name) \cup {c})
         /\ name \notin NamesOf(missing'[c]) =>
               Creators(name)' \in SUBSET (Creators(name) \ {c})
<1>1. \A d \in Controllers : d # c => missing'[d] = missing[d]
  BY OthersKept DEF TypeInv
<1> QED
  BY <1>1 DEF Creators

LEMMA CalledStep ==
  ASSUME TypeInv, NEW n, Created(n), NEW name
  PROVE  /\ n = name => Called(name)' \in SUBSET (Called(name) \cup {nextTag})
         /\ n # name => Called(name)' \in SUBSET Called(name)
BY DEF Called, Created, TypeInv, TypeOK

LEMMA ScarceShrinks ==
  ASSUME NEW name \in Names,
         Cardinality(Called(name)) + Cardinality(Creators(name)) <= Limit,
         Called(name)' \in SUBSET Called(name),
         Creators(name)' \in SUBSET Creators(name)
  PROVE  Cardinality(Called(name)') + Cardinality(Creators(name)') <= Limit
<1> DEFINE n == Cardinality(Called(name)) + Cardinality(Creators(name))
           k == Cardinality(Called(name)') + Cardinality(Creators(name)')
<1>1. k <= n /\ n \in Nat /\ k \in Nat
  BY SumFinite, SumShrinks
<1> HIDE DEF k
<1>2. n <= Limit /\ Limit \in Nat
  BY LimitBounds
<1> HIDE DEF n
<1>3. k <= Limit
  BY <1>1, <1>2
<1> QED
  BY <1>3 DEF k

(* A controller creates the tag it was missing, and misses it no more.     *)
LEMMA ScarceCreates ==
  ASSUME TypeInv, NEW name \in Names, NEW c \in Controllers, Only(c),
         Cardinality(Called(name)) + Cardinality(Creators(name)) <= Limit,
         pc[c] = "create", Created(First(missing[c]).name),
         missing'[c] \in SUBSET (missing[c] \ {First(missing[c])})
  PROVE  Cardinality(Called(name)') + Cardinality(Creators(name)') <= Limit
<1> DEFINE e == First(missing[c])
<1>1. Local(c)
  BY DEF TypeInv
<1>2. /\ missing[c] \in SUBSET Entries /\ missing[c] # {}
      /\ \A f, g \in missing[c] : f.name = g.name => f = g
  BY <1>1 DEF Local
<1>3. e \in missing[c]
  BY <1>2, FirstEntry
<1>4. missing'[c] \in SUBSET (missing[c] \ {e}) /\ Created(e.name)
  OBVIOUS
<1> HIDE DEF e
<1>5. CASE e.name = name
  <2>1. name \notin NamesOf(missing'[c]) /\ c \in Creators(name)
    BY <1>2, <1>3, <1>4, <1>5 DEF NamesOf, Creators
  <2>2. /\ Called(name)' \in SUBSET (Called(name) \cup {nextTag})
        /\ Creators(name)' \in SUBSET (Creators(name) \ {c})
    BY <1>4, <1>5, <2>1, CalledStep, CreatorsStep
  <2> DEFINE n == Cardinality(Called(name)) + Cardinality(Creators(name))
             k == Cardinality(Called(name)') + Cardinality(Creators(name)')
  <2>3. k <= n
    BY <2>1, <2>2, SumFinite, SumMoves
  <2>4. n \in Nat
    BY SumFinite, SumShrinks
  <2>5. k \in Nat
    <3>1. IsFiniteSet(Called(name) \cup {nextTag})
      BY SumFinite, FS_AddElement
    <3>2. Creators(name)' \in SUBSET Creators(name)
      BY <2>2
    <3> QED
      BY <2>2, <3>1, <3>2, SumFinite, SumShrinks
  <2> HIDE DEF k
  <2>6. n <= Limit /\ Limit \in Nat
    BY LimitBounds
  <2> HIDE DEF n
  <2>7. k <= Limit
    BY <2>3, <2>4, <2>5, <2>6
  <2> QED
    BY <2>7 DEF k
<1>6. CASE e.name # name
  <2>1. Called(name)' \in SUBSET Called(name)
    BY <1>4, <1>6, CalledStep
  <2>2. c \notin Creators(name) => name \notin NamesOf(missing'[c])
    BY <1>4 DEF NamesOf, Creators
  <2>3. Creators(name)' \in SUBSET Creators(name)
    BY <2>2, CreatorsStep
  <2> QED
    BY <2>1, <2>3, ScarceShrinks
<1> QED
  BY <1>5, <1>6

(* A controller misses a name only if Kuma has no tag of it.               *)
LEMMA ScarceList ==
  ASSUME TypeInv, NEW name \in Names, NEW c \in Controllers, ListTags(c),
         Cardinality(Called(name)) + Cardinality(Creators(name)) <= Limit
  PROVE  Cardinality(Called(name)') + Cardinality(Creators(name)') <= Limit
<1>1. /\ Only(c) /\ tags' = tags
      /\ missing'[c] = {e \in names[c] : Known(e.name) = {}}
  BY ListOnly DEF ListTags, kuma
<1>2. Called(name)' = Called(name)
  BY <1>1 DEF Called
<1>3. CASE name \notin NamesOf(missing'[c])
  BY <1>1, <1>2, <1>3, CreatorsStep, ScarceShrinks
<1>4. CASE name \in NamesOf(missing'[c])
  <2>1. Known(name) = {}
    BY <1>1, <1>4 DEF NamesOf
  <2>2. Called(name)' = {}
    BY <1>2, <2>1, KnownTag DEF Called
  <2>3. Creators(name)' \in SUBSET Controllers
    BY DEF Creators
  <2> DEFINE k == Cardinality(Creators(name)')
             b == Cardinality(Controllers)
  <2>4. k <= b /\ k \in Nat /\ b \in Nat
    BY <2>3, OwnerAssumption, FS_Subset, FS_CardinalityType
  <2>5. Cardinality(Called(name)') = 0
    BY <2>2, FS_EmptySet
  <2>6. b <= Limit /\ Limit \in Nat
    BY LimitBounds
  <2> HIDE DEF k, b
  <2>7. 0 + k <= Limit
    BY <2>4, <2>6
  <2> QED
    BY <2>5, <2>7 DEF k
<1> QED
  BY <1>3, <1>4

LEMMA ScarceStep ==
  ASSUME TypeInv, ScarceInv, [Next]_vars
  PROVE  ScarceInv'
<1> SUFFICES ASSUME "uiCreate" \notin outside'.did, NEW name \in Names
             PROVE  Cardinality(Called(name)') + Cardinality(Creators(name)')
                       <= Limit
  BY DEF ScarceInv
<1>1. TypeOK /\ Cardinality(Called(name)) + Cardinality(Creators(name)) <= Limit
  BY OutsideStep DEF TypeInv, ScarceInv
<1>2. ASSUME NEW c \in Controllers, Step(c)
      PROVE  Cardinality(Called(name)') + Cardinality(Creators(name)') <= Limit
  <2>1. Only(c)
    BY <1>2, StepOnly
  <2>2. CASE ListTags(c)
    BY <1>1, <2>2, ScarceList
  <2>3. CASE CreateTag(c)
    <3>1. /\ pc[c] = "create" /\ Created(First(missing[c]).name)
          /\ missing'[c] \in SUBSET (missing[c] \ {First(missing[c])})
      BY <2>3, CreateOnly DEF CreateTag
    <3> QED
      BY <1>1, <2>1, <3>1, ScarceCreates
  <2>4. CASE tags' = tags /\ missing'[c] = {}
    <3>1. Called(name)' = Called(name)
      BY <2>4 DEF Called
    <3>2. Creators(name)' \in SUBSET Creators(name)
      BY <2>1, <2>4, CreatorsStep DEF NamesOf
    <3> QED
      BY <1>1, <3>1, <3>2, ScarceShrinks
  <2>5. CASE AnswerLost(c)
    <3>1. missing'[c] = {}
      BY <2>5, FailsOnly
    <3>2. tags' = tags \/ (pc[c] = "create" /\ Created(First(missing[c]).name))
      BY <2>5 DEF AnswerLost, Assigned, Unassigned
    <3>3. missing'[c] \in SUBSET (missing[c] \ {First(missing[c])})
      BY <3>1
    <3> QED
      BY <1>1, <2>1, <2>4, <3>1, <3>2, <3>3, ScarceCreates
  <2>6. CASE Begin(c) \/ ReadTags(c) \/ AddTagFails(c) \/ CallFails(c)
    <3>1. tags' = tags
      BY <2>6 DEF Begin, ReadTags, AddTagFails, CallFails, kuma
    <3>2. missing'[c] = {}
      BY <2>6, BeginOnly, ReadOnly, FailsOnly
    <3> QED
      BY <2>4, <3>1, <3>2
  <2>7. CASE AddTag(c) \/ DropTag(c)
    <3>1. tags' = tags
      BY <2>7 DEF AddTag, DropTag, Assigned, Unassigned
    <3>2. missing'[c] = {}
      BY <2>7, AddOnly, DropOnly
    <3> QED
      BY <2>4, <3>1, <3>2
  <2> QED
    BY <1>2, <2>2, <2>3, <2>5, <2>6, <2>7 DEF Step, Reconcile
<1>3. ASSUME missing' = missing, \A t \in Ids : tags'[t] = name => tags[t] = name
      PROVE  Cardinality(Called(name)') + Cardinality(Creators(name)') <= Limit
  <2>1. /\ Called(name)' \in SUBSET Called(name)
        /\ Creators(name)' \in SUBSET Creators(name)
    BY <1>3 DEF Called, Creators
  <2> QED
    BY <1>1, <2>1, ScarceShrinks
<1>4. ASSUME NEW t \in Ids, UiDelete(t)
      PROVE  \A u \in Ids : tags'[u] = name => tags[u] = name
  BY <1>1, <1>4, NameAssumption DEF UiDelete, TypeOK
<1>5. ASSUME NEW n \in Names, UiCreate(n) PROVE FALSE
  BY <1>1, <1>5, Spent DEF UiCreate
<1>6. ASSUME NEW m \in Monitors, NEW t \in Ids, UiAssign(m, t)
      PROVE  tags' = tags
  BY <1>6 DEF UiAssign, Assigned, Unassigned
<1> QED
  BY <1>2, <1>3, <1>4, <1>5, <1>6
  DEF Next, Step, World, vars, work, kuma, UserEdit, UiDelete, UiAssign

LEMMA ScarceInit == Init => ScarceInv
<1> SUFFICES ASSUME Init, NEW name \in Names
             PROVE  Cardinality(Called(name)) + Cardinality(Creators(name))
                       <= Limit
  BY DEF ScarceInv
<1>1. PICK n \in 0..OldTags :
         \E old \in [1..n -> Names] :
            tags = [t \in Ids |-> IF t <= n THEN old[t] ELSE Nameless]
  BY DEF Init
<1>2. OldTags \in Nat /\ n \in Nat /\ n <= OldTags /\ MaxTags \in Nat
  BY <1>1, BoundAssumption
<1>3. Called(name) \in SUBSET (1..n)
  BY <1>1, <1>2, NameAssumption DEF Called, Ids
<1>4. Creators(name) = {}
  BY DEF Init, Creators, NamesOf
<1> DEFINE k == Cardinality(Called(name))
<1>5. k \in Nat /\ k <= n
  <2>1. IsFiniteSet(1..n) /\ Cardinality(1..n) = n
    BY <1>2, FS_Interval
  <2> QED
    BY <1>3, <2>1, FS_Subset, FS_CardinalityType
<1>6. Cardinality(Creators(name)) = 0
  BY <1>4, FS_EmptySet
<1>7. OldTags <= Limit /\ Limit \in Nat
  BY LimitBounds
<1> HIDE DEF k
<1>8. k + 0 <= Limit
  BY <1>2, <1>5, <1>7
<1> QED
  BY <1>6, <1>8 DEF k

(* Controllers that miss the same tag at the same time each create it, but *)
(* none creates it twice or when it is there: there are never more of a    *)
(* name than there are controllers, or than there were (mergeTags drops    *)
(* duplicates, syncTags lists the tags before it creates any).             *)
THEOREM FewTags == Spec => []FewPerName
<1>1. ScarceInv => FewPerName
  <2> SUFFICES ASSUME ScarceInv, "uiCreate" \notin outside.did,
                      NEW name \in Names
               PROVE  Cardinality(Called(name)) <= Limit
    BY DEF FewPerName, Called, Limit
  <2> DEFINE k == Cardinality(Called(name))
             l == Cardinality(Creators(name))
  <2>1. k \in Nat /\ l \in Nat /\ Limit \in Nat
    BY SumFinite, FS_CardinalityType, LimitBounds
  <2>2. k + l <= Limit
    BY DEF ScarceInv
  <2> HIDE DEF k, l
  <2>3. k <= Limit
    BY <2>1, <2>2
  <2> QED
    BY <2>3 DEF k
<1>2. TypeInv /\ ScarceInv /\ [Next]_vars => ScarceInv'
  BY ScarceStep
<1> QED
  BY <1>1, <1>2, ScarceInit, TypeInvariant, PTL DEF Spec
=============================================================================
