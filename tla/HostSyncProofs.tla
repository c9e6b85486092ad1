--------------------------- MODULE HostSyncProofs ---------------------------
(* Proofs about HostSync for every number of hosts, ids, cached versions,  *)
(* retries and outside events.                                             *)
EXTENDS HostSync, FiniteSetTheorems, TLAPS

(* The version that a write of o creates.                                  *)
Newer(o) == Settled([o EXCEPT !.rv = Api.rv + 1])

LEMMA AbsentType == Absent \in Objects /\ NoIds \in IdMaps
BY DEF Absent, Objects, NoIds, IdMaps

LEMMA CreatedType ==
  ASSUME NEW o \in BOOLEAN, NEW hs \in SUBSET Hosts,
         NEW c \in Cfgs \cup {Invalid}
  PROVE  Created(o, hs, c) \in Objects
BY AbsentType, BoundAssumption DEF Created, Absent, Objects

LEMMA VersionsType ==
  ASSUME TypeOK
  PROVE  /\ Len(versions) \in Nat \ {0}
         /\ Api \in Objects /\ Cache \in Objects
         /\ \A i \in 1..Len(versions) : versions[i] \in Objects
BY DEF TypeOK, Api, Cache

LEMMA NewerType ==
  ASSUME TypeOK, NEW o \in Objects
  PROVE  Newer(o) \in Objects
<1>1. Api.rv \in Nat
  BY VersionsType DEF Objects
<1>2. [o EXCEPT !.rv = Api.rv + 1] \in Objects
  BY <1>1 DEF Objects
<1> QED
  BY <1>1, <1>2, AbsentType DEF Newer, Settled, Objects

(* A write leaves the versions alone, or adds one at the end and may drop  *)
(* the one at the front.                                                   *)
LEMMA StoreShape ==
  ASSUME TypeOK, NEW o \in Objects, Store(o)
  PROVE  /\ versions' \in Seq(Objects) /\ versions' # <<>>
         /\ \/ o = Api /\ versions' = versions
            \/ /\ Api' = Newer(o)
               /\ \A i \in 1..Len(versions') :
                     \/ versions'[i] = Newer(o)
                     \/ \E j \in 1..Len(versions) : versions'[i] = versions[j]
<1>1. Len(versions) \in Nat \ {0} /\ versions \in Seq(Objects)
  BY VersionsType DEF TypeOK
<1>2. Newer(o) \in Objects
  BY NewerType
<1>3. CASE o = Api
  BY <1>1, <1>3 DEF Store, TypeOK
<1>4. CASE o # Api /\ versions' = Append(versions, Newer(o))
  BY <1>1, <1>2, <1>4 DEF Api
<1>5. CASE o # Api /\ versions' = Append(Tail(versions), Newer(o))
  <2> DEFINE t == Tail(versions)
  <2>1. t \in Seq(Objects) /\ Len(t) = Len(versions) - 1 /\ Len(t) \in Nat
    BY <1>1
  <2>2. \A i \in 1..Len(t) : t[i] = versions[i + 1]
    BY <1>1
  <2>3. /\ versions' \in Seq(Objects) /\ Len(versions') = Len(t) + 1
        /\ versions'[Len(t) + 1] = Newer(o)
        /\ \A i \in 1..Len(t) : versions'[i] = t[i]
    BY <1>2, <1>5, <2>1
  <2>4. ASSUME NEW i \in 1..Len(versions')
        PROVE  \/ versions'[i] = Newer(o)
               \/ \E j \in 1..Len(versions) : versions'[i] = versions[j]
    <3>1. CASE i = Len(t) + 1
      BY <2>3, <3>1
    <3>2. CASE i \in 1..Len(t)
      <4>1. versions'[i] = versions[i + 1] /\ i + 1 \in 1..Len(versions)
        BY <1>1, <2>1, <2>2, <2>3, <3>2
      <4> QED
        BY <4>1
    <3>3. i = Len(t) + 1 \/ i \in 1..Len(t)
      <4> HIDE DEF t
      <4> QED BY <2>1, <2>3
    <3> QED
      BY <3>1, <3>2, <3>3
  <2>5. Api' = Newer(o) /\ versions' # <<>>
    BY <1>1, <2>1, <2>3 DEF Api
  <2> QED
    BY <2>3, <2>4, <2>5
<1> QED
  BY <1>3, <1>4, <1>5 DEF Store, Newer
(* A delivery drops the front version.                                     *)
LEMMA TailShape ==
  ASSUME TypeOK, Len(versions) > 1, versions' = Tail(versions)
  PROVE  /\ versions' \in Seq(Objects) /\ versions' # <<>> /\ Api' = Api
         /\ \A i \in 1..Len(versions') :
               \E j \in 1..Len(versions) : versions'[i] = versions[j]
<1>1. Len(versions) \in Nat \ {0} /\ versions \in Seq(Objects)
  BY VersionsType DEF TypeOK
<1>2. /\ versions' \in Seq(Objects) /\ Len(versions') = Len(versions) - 1
      /\ Len(versions') \in Nat \ {0}
  BY <1>1
<1>3. \A i \in 1..Len(versions') : versions'[i] = versions[i + 1]
  BY <1>1, <1>2
<1>4. \A i \in 1..Len(versions') : i + 1 \in 1..Len(versions)
  BY <1>1, <1>2
<1>5. Api' = Api
  BY <1>1, <1>2, <1>3 DEF Api
<1> QED
  BY <1>2, <1>3, <1>4, <1>5

-----------------------------------------------------------------------------
(* Types.                                                                  *)

LEMMA RecordedType ==
  ASSUME NEW ids \in IdMaps
  PROVE  Recorded(ids) \in SUBSET Hosts
BY DEF Recorded

LEMMA CountType ==
  ASSUME NEW ids \in IdMaps
  PROVE  Cardinality(Recorded(ids)) \in Nat
BY RecordedType, FiniteAssumption, FS_Subset, FS_CardinalityType

LEMMA StageType ==
  ASSUME NEW o, NEW td, NEW dr
  PROVE  Stage(o, td, dr) \in Stages
BY DEF Stage, Stages

LEMMA ForgetType ==
  ASSUME TypeOK, Forget
  PROVE  /\ pc' \in Stages /\ copy' \in Objects /\ plan' \in IdMaps
         /\ want' \in Hashes \cup {NoHash}
         /\ todo' \in SUBSET Hosts /\ drop' \in SUBSET Hosts
         /\ tries' \in 0..RetrySteps
BY AbsentType, BoundAssumption DEF Forget, Stages

LEMMA SpendType ==
  ASSUME TypeOK, NEW kind \in Events, Spend(kind)
  PROVE  outside' \in Outside
<1>1. outside.may \in [Events -> Nat] /\ outside.did \in SUBSET Events
  BY DEF TypeOK, Outside
<1>2. [outside.may EXCEPT ![kind] = @ - 1] \in [Events -> Nat]
  BY <1>1 DEF Spend
<1>3. outside.did \cup {kind} \in SUBSET Events
  BY <1>1
<1>4. outside' = [may |-> [outside.may EXCEPT ![kind] = @ - 1],
                  did |-> outside.did \cup {kind}]
  BY DEF TypeOK, Outside, Spend
<1> QED
  BY <1>2, <1>3, <1>4 DEF Outside

LEMMA UpsertedType ==
  ASSUME TypeOK, NEW h \in Hosts, NEW id \in Ids \cup {0}, want \in Hashes,
         Upserted(h, id)
  PROVE  /\ kuma' \in [Ids -> Monitors] /\ nextId' \in 1..MaxId + 1
         /\ Answer(id) \in Ids
<1>1. nextId \in 1..MaxId + 1 /\ kuma \in [Ids -> Monitors] /\ MaxId \in Nat
  BY BoundAssumption DEF TypeOK
<1>2. [st |-> "live", host |-> h, cfg |-> want.cfg] \in Monitors
  BY DEF Monitors, Hashes
<1>3. Answer(id) \in Ids
  BY <1>1 DEF Upserted, Answer, Ids
<1>4. kuma' = [kuma EXCEPT ![Answer(id)] =
                 [st |-> "live", host |-> h, cfg |-> want.cfg]]
  BY DEF Upserted, Answer
<1>5. nextId' \in 1..MaxId + 1
  BY <1>1 DEF Upserted, Ids
<1> QED
  BY <1>1, <1>2, <1>3, <1>4, <1>5

LEMMA RemovedType ==
  ASSUME TypeOK, NEW id, Removed(id)
  PROVE  kuma' \in [Ids -> Monitors]
<1>1. \A i \in Ids : kuma'[i] \in Monitors
  BY DEF TypeOK, Removed, Monitors
<1> QED
  BY <1>1 DEF TypeOK, Removed

(* A reconcile that may still upsert knows the hash it upserts for.        *)
Upserting == pc \in {"list", "upsert"} => want # NoHash

TypeInv == TypeOK /\ Upserting

LEMMA TypeInit == Init => TypeInv
<1> SUFFICES ASSUME Init PROVE TypeInv
  OBVIOUS
<1>1. PICK o \in BOOLEAN, hs \in SUBSET Hosts, c \in Cfgs :
         versions = <<Created(o, hs, c)>>
  BY DEF Init
<1>2. versions \in Seq(Objects) /\ versions # <<>>
  <2>1. Created(o, hs, c) \in Objects
    BY CreatedType
  <2> QED
    BY <1>1, <2>1
<1>3. kuma \in [Ids -> Monitors] /\ nextId \in 1..MaxId + 1
  BY BoundAssumption DEF Init, Unborn, Monitors
<1>4. outside \in Outside
  BY BoundAssumption DEF Init, Outside
<1> QED
  BY <1>2, <1>3, <1>4, AbsentType, BoundAssumption
  DEF Init, TypeInv, TypeOK, Upserting, Stages

LEMMA TypeBegin ==
  ASSUME TypeInv, NEW o \in Objects, NEW hash \in Hashes \cup {NoHash},
         NEW ids \in IdMaps, NEW td \in SUBSET Hosts, NEW dr \in SUBSET Hosts,
         td # {} => hash # NoHash, Begin(o, hash, ids, td, dr),
         versions' = versions, kuma' = kuma, nextId' = nextId,
         managed' = managed, outside' = outside, queued' \in BOOLEAN
  PROVE  TypeInv'
<1>1. pc' \in Stages /\ tries' \in 0..RetrySteps
  BY StageType, BoundAssumption DEF Begin
<1>2. pc' \in {"list", "upsert"} => want' # NoHash
  BY DEF Begin, Stage
<1> QED
  BY <1>1, <1>2 DEF TypeInv, TypeOK, Upserting, Begin

LEMMA TypeReturn ==
  ASSUME TypeInv, Forget,
         versions' \in Seq(Objects), versions' # <<>>,
         kuma' \in [Ids -> Monitors], nextId' \in 1..MaxId + 1,
         queued' \in BOOLEAN, managed' \in Nat, outside' \in Outside
  PROVE  TypeInv'
<1>1. pc' = "idle"
  BY DEF Forget
<1> QED
  BY <1>1, ForgetType DEF TypeInv, TypeOK, Upserting

LEMMA PlanTypes ==
  /\ \A o \in Objects : SyncPlan(o) \in IdMaps
  /\ \A ids \in IdMaps : \A hash : /\ DriftPlan(ids, hash) \in IdMaps
                                  /\ Drifted(ids, hash) \in SUBSET Hosts
BY DEF SyncPlan, DriftPlan, Drifted, Recorded, IdMaps, Objects

LEMMA TypeStart ==
  ASSUME TypeInv,
         \/ ReconcileGone \/ ReconcileDeleting \/ ReconcileIgnored
         \/ ReconcileOptOut \/ ReconcileInvalid \/ ReconcileUnchanged
         \/ ReconcileChanged
  PROVE  TypeInv'
<1>1. Cache \in Objects
  BY VersionsType DEF TypeInv
<1>2. Recorded(Cache.ids) \in SUBSET Hosts
  BY <1>1 DEF Recorded
<1>3. CASE ReconcileGone
  BY <1>3 DEF ReconcileGone, Take, TypeInv, TypeOK, Upserting, worker
<1>4. CASE ReconcileDeleting
  BY <1>1, <1>2, <1>4, TypeBegin, AbsentType DEF ReconcileDeleting, Take
<1>5. CASE ReconcileIgnored
  BY <1>5 DEF ReconcileIgnored, Take, TypeInv, TypeOK, Upserting, worker
<1>6. CASE ReconcileOptOut
  BY <1>1, <1>2, <1>6, TypeBegin, AbsentType DEF ReconcileOptOut, Take
<1>7. CASE ReconcileInvalid
  <2>1. outside' \in Outside
    BY <1>7, SpendType DEF ReconcileInvalid, TypeInv, TypeOK, Events
  <2> QED
    BY <1>7, <2>1 DEF ReconcileInvalid, TypeInv, TypeOK, Upserting, worker
<1>8. CASE ReconcileUnchanged
  <2>1. Cache.hash \in Hashes /\ Cache.ids \in IdMaps
    BY <1>1, <1>8 DEF ReconcileUnchanged, Desired, Objects, Hashes
  <2> QED
    BY <1>1, <1>8, <2>1, HashAssumption
    DEF ReconcileUnchanged, Take, TypeInv, TypeOK, Upserting, Stages
<1>9. CASE ReconcileChanged
  <2>1. Desired(Cache) \in Hashes /\ Cache.hosts \in SUBSET Hosts
    BY <1>1, <1>9 DEF ReconcileChanged, Desired, Objects, Hashes
  <2>2. SyncPlan(Cache) \in IdMaps
    BY <1>1, PlanTypes
  <2> QED
    BY <1>1, <1>2, <1>9, <2>1, <2>2, TypeBegin, HashAssumption
    DEF ReconcileChanged, Take
<1> QED
  BY <1>3, <1>4, <1>5, <1>6, <1>7, <1>8, <1>9

LEMMA TypeKuma ==
  ASSUME TypeInv, NEW h \in Hosts,
         UpsertHost(h) \/ UpsertFails(h) \/ DeleteHost(h) \/ DeleteFails(h)
  PROVE  TypeInv'
<1>1. plan[h] \in Ids \cup {0} /\ copy \in Objects
  BY DEF TypeInv, TypeOK, IdMaps
<1>2. ASSUME pc = "upsert", Upserted(h, plan[h])
      PROVE  /\ kuma' \in [Ids -> Monitors] /\ nextId' \in 1..MaxId + 1
             /\ Answer(plan[h]) \in Ids
  <2>1. want \in Hashes
    BY <1>2 DEF TypeInv, TypeOK, Upserting
  <2> QED
    BY <1>1, <1>2, <2>1, UpsertedType DEF TypeInv
<1>3. CASE UpsertHost(h)
  <2>1. plan' \in IdMaps
    BY <1>2, <1>3 DEF UpsertHost, TypeInv, TypeOK, IdMaps
  <2>2. pc' \in Stages
    BY <1>3, StageType DEF UpsertHost
  <2>3. want' # NoHash
    BY <1>3 DEF UpsertHost, TypeInv, Upserting
  <2> QED
    BY <1>2, <1>3, <2>1, <2>2, <2>3
    DEF UpsertHost, TypeInv, TypeOK, Upserting
<1>4. CASE UpsertFails(h)
  <2>1. kuma' \in [Ids -> Monitors] /\ nextId' \in 1..MaxId + 1
    BY <1>2, <1>4 DEF UpsertFails, TypeInv, TypeOK
  <2>2. outside' \in Outside
    BY <1>4, SpendType DEF UpsertFails, TypeInv, TypeOK, Events
  <2> QED
    BY <1>4, <2>1, <2>2, TypeReturn
    DEF UpsertFails, Return, Enqueue, TypeInv, TypeOK
<1>5. CASE DeleteHost(h)
  <2>1. kuma' \in [Ids -> Monitors]
    BY <1>5, RemovedType DEF DeleteHost, TypeInv
  <2>2. pc' \in Stages /\ pc' \notin {"list", "upsert"}
    BY <1>5, StageType DEF DeleteHost, Stage
  <2> QED
    BY <1>5, <2>1, <2>2 DEF DeleteHost, TypeInv, TypeOK, Upserting
<1>6. CASE DeleteFails(h)
  <2>1. kuma' \in [Ids -> Monitors]
    BY <1>6, RemovedType DEF DeleteFails, TypeInv, TypeOK
  <2>2. outside' \in Outside
    BY <1>6, SpendType DEF DeleteFails, TypeInv, Events
  <2> QED
    BY <1>6, <2>1, <2>2, TypeReturn
    DEF DeleteFails, Return, Enqueue, TypeInv, TypeOK
<1> QED
  BY <1>3, <1>4, <1>5, <1>6

LEMMA TypeList ==
  ASSUME TypeInv, ListMatches \/ ListDrifted \/ ListFails \/ SyncTags
  PROVE  TypeInv'
<1>1. copy.ids \in IdMaps /\ copy \in Objects
  BY DEF TypeInv, TypeOK, Objects
<1>2. CASE ListMatches
  BY <1>1, <1>2, CountType
  DEF ListMatches, TypeInv, TypeOK, Upserting, Stages
<1>3. CASE ListDrifted
  <2>1. want # NoHash /\ want \in Hashes \cup {NoHash}
    BY <1>3 DEF ListDrifted, TypeInv, TypeOK, Upserting
  <2> QED
    BY <1>1, <1>3, <2>1, PlanTypes, TypeBegin
    DEF ListDrifted, TypeInv, TypeOK
<1>4. CASE ListFails
  <2>1. outside' \in Outside
    BY <1>4, SpendType DEF ListFails, TypeInv, TypeOK, Events
  <2> QED
    BY <1>4, <2>1, TypeReturn
    DEF ListFails, Return, Enqueue, TypeInv, TypeOK
<1>5. CASE SyncTags
  BY <1>5, TypeReturn DEF SyncTags, Return, Enqueue, TypeInv, TypeOK
<1> QED
  BY <1>2, <1>3, <1>4, <1>5

LEMMA ReleasedType ==
  ASSUME TypeInv, Released
  PROVE  versions' \in Seq(Objects) /\ versions' # <<>>
<1>1. [copy EXCEPT !.fin = FALSE] \in Objects
  BY DEF TypeInv, TypeOK, Objects
<1> QED
  BY <1>1, StoreShape DEF Released, TypeInv

LEMMA PersistedType ==
  ASSUME TypeInv, Persisted
  PROVE  versions' \in Seq(Objects) /\ versions' # <<>>
<1>1. Recording(copy) \in Objects
  BY DEF Recording, TypeInv, TypeOK, Objects
<1> QED
  BY <1>1, StoreShape DEF Persisted, TypeInv

LEMMA TypeApi ==
  ASSUME TypeInv,
         \/ RemoveFinalizer \/ RemoveFinalizerFails
         \/ PersistGet \/ PersistGetFails
         \/ PersistUpdate \/ PersistRetry \/ PersistFails
  PROVE  TypeInv'
<1>1. CASE RemoveFinalizer
  <2>1. versions' \in Seq(Objects) /\ versions' # <<>>
    BY <1>1, ReleasedType DEF RemoveFinalizer, TypeInv, TypeOK
  <2> QED
    BY <1>1, <2>1, TypeReturn
    DEF RemoveFinalizer, Return, Enqueue, TypeInv, TypeOK
<1>2. CASE RemoveFinalizerFails
  <2>1. versions' \in Seq(Objects) /\ versions' # <<>>
    BY <1>2, ReleasedType DEF RemoveFinalizerFails, TypeInv, TypeOK
  <2>2. outside' \in Outside
    BY <1>2, SpendType DEF RemoveFinalizerFails, TypeInv, TypeOK, Events
  <2> QED
    BY <1>2, <2>1, <2>2, TypeReturn
    DEF RemoveFinalizerFails, Return, Enqueue, TypeInv, TypeOK
<1>3. CASE PersistGet
  BY <1>3, VersionsType DEF PersistGet, TypeInv, TypeOK, Upserting, Stages
<1>4. CASE PersistGetFails
  <2>1. outside' \in Outside
    BY <1>4, SpendType DEF PersistGetFails, TypeInv, TypeOK, Events
  <2> QED
    BY <1>4, <2>1, TypeReturn
    DEF PersistGetFails, Return, Enqueue, TypeInv, TypeOK
<1>5. CASE PersistUpdate
  <2>1. versions' \in Seq(Objects) /\ versions' # <<>>
    BY <1>5, PersistedType DEF PersistUpdate
  <2>2. managed' \in Nat
    BY <1>5, CountType DEF PersistUpdate, Counted, TypeInv, TypeOK
  <2>3. CASE Return(FALSE)
    BY <1>5, <2>1, <2>2, <2>3, TypeReturn
    DEF PersistUpdate, Return, Enqueue, TypeInv, TypeOK
  <2>4. CASE /\ want # NoHash /\ pc' = "tags" /\ Enqueue(FALSE)
             /\ UNCHANGED <<copy, want, plan, todo, drop, tries>>
    BY <1>5, <2>1, <2>2, <2>4
    DEF PersistUpdate, Enqueue, TypeInv, TypeOK, Upserting, Stages
  <2> QED
    BY <1>5, <2>3, <2>4 DEF PersistUpdate
<1>6. CASE PersistRetry
  <2>1. tries' \in 0..RetrySteps
    BY <1>6, BoundAssumption DEF PersistRetry, MayRetry, TypeInv, TypeOK
  <2> QED
    BY <1>6, <2>1 DEF PersistRetry, TypeInv, TypeOK, Upserting, Stages
<1>7. CASE PersistFails
  <2>1. versions' \in Seq(Objects) /\ versions' # <<>>
    BY <1>7, PersistedType DEF PersistFails, TypeInv, TypeOK
  <2>2. outside' \in Outside
    BY <1>7, SpendType DEF PersistFails, TypeInv, TypeOK, Events
  <2> QED
    BY <1>7, <2>1, <2>2, TypeReturn
    DEF PersistFails, Return, Enqueue, TypeInv, TypeOK
<1> QED
  BY <1>1, <1>2, <1>3, <1>4, <1>5, <1>6, <1>7

LEMMA EditType ==
  ASSUME TypeInv
  PROVE  /\ \A o \in BOOLEAN, hs \in SUBSET Hosts, c \in Cfgs \cup {Invalid} :
               [Api EXCEPT !.optIn = o, !.hosts = hs, !.cfg = c] \in Objects
         /\ [Api EXCEPT !.deleting = TRUE] \in Objects
         /\ [Api EXCEPT !.other = FALSE] \in Objects
BY VersionsType DEF TypeInv, Objects

LEMMA TypeWorld ==
  ASSUME TypeInv, World
  PROVE  TypeInv'
<1>1. CASE Deliver
  <2>1. versions' \in Seq(Objects) /\ versions' # <<>>
    BY <1>1, TailShape DEF TypeInv, Deliver
  <2> QED
    BY <1>1, <2>1 DEF Deliver, TypeInv, TypeOK, Upserting, worker
<1>2. CASE UserEdit
  <2>1. versions' \in Seq(Objects) /\ versions' # <<>>
    BY <1>2, EditType, CreatedType, StoreShape DEF UserEdit, TypeInv
  <2>2. outside' \in Outside
    BY <1>2, SpendType DEF UserEdit, TypeInv, Events
  <2> QED
    BY <1>2, <2>1, <2>2
    DEF UserEdit, Enqueue, TypeInv, TypeOK, Upserting, worker
<1>3. CASE UserDelete
  <2>1. versions' \in Seq(Objects) /\ versions' # <<>>
    BY <1>3, EditType, StoreShape DEF UserDelete, TypeInv
  <2>2. outside' \in Outside
    BY <1>3, SpendType DEF UserDelete, TypeInv, Events
  <2> QED
    BY <1>3, <2>1, <2>2
    DEF UserDelete, Enqueue, TypeInv, TypeOK, Upserting, worker
<1>4. CASE OtherReleases
  <2>1. versions' \in Seq(Objects) /\ versions' # <<>>
    BY <1>4, EditType, StoreShape DEF OtherReleases, TypeInv
  <2> QED
    BY <1>4, <2>1
    DEF OtherReleases, Enqueue, TypeInv, TypeOK, Upserting, worker
<1>5. ASSUME NEW id \in Ids, UiEdit(id)
      PROVE  TypeInv'
  <2>1. kuma' \in [Ids -> Monitors]
    <3>1. \A i \in Ids : kuma'[i] \in Monitors
      BY <1>5 DEF UiEdit, TypeInv, TypeOK, Monitors
    <3> QED
      BY <1>5, <3>1 DEF UiEdit, TypeInv, TypeOK
  <2>2. outside' \in Outside
    BY <1>5, SpendType DEF UiEdit, TypeInv, Events
  <2> QED
    BY <1>5, <2>1, <2>2 DEF UiEdit, TypeInv, TypeOK, Upserting, worker
<1>6. ASSUME NEW id \in Ids, UiDelete(id)
      PROVE  TypeInv'
  <2>1. kuma' \in [Ids -> Monitors]
    BY <1>6, RemovedType DEF UiDelete, TypeInv
  <2>2. outside' \in Outside
    BY <1>6, SpendType DEF UiDelete, TypeInv, Events
  <2> QED
    BY <1>6, <2>1, <2>2 DEF UiDelete, TypeInv, TypeOK, Upserting, worker
<1>7. CASE Crash
  <2>1. versions' \in Seq(Objects) /\ versions' # <<>>
    BY <1>7, VersionsType DEF Crash, TypeInv
  <2>2. outside' \in Outside
    BY <1>7, SpendType DEF Crash, TypeInv, Events
  <2> QED
    BY <1>7, <2>1, <2>2, TypeReturn DEF Crash, TypeInv, TypeOK
<1> QED
  BY <1>1, <1>2, <1>3, <1>4, <1>5, <1>6, <1>7 DEF World

LEMMA TypeStep ==
  ASSUME TypeInv, [Next]_vars
  PROVE  TypeInv'
<1>1. CASE Reconcile
  BY <1>1, TypeStart, TypeKuma, TypeList, TypeApi DEF Reconcile
<1>2. CASE World
  BY <1>2, TypeWorld
<1>3. CASE UNCHANGED vars
  BY <1>3 DEF vars, worker, TypeInv, TypeOK, Upserting
<1> QED
  BY <1>1, <1>2, <1>3 DEF Next

(* Every variable keeps its type, in particular a conflicting write is     *)
(* never attempted more than RetrySteps times (RetryOnConflict) and no     *)
(* monitor is created without a configuration.                             *)
THEOREM TypeCorrect == Spec => []TypeOK
<1>1. Init => TypeInv
  BY TypeInit
<1>2. TypeInv /\ [Next]_vars => TypeInv'
  BY TypeStep
<1>3. TypeInv => TypeOK
  BY DEF TypeInv
<1> QED
  BY <1>1, <1>2, <1>3, PTL DEF Spec

-----------------------------------------------------------------------------
(* The inductive invariant.  What a reconcile does rests on what it reads  *)
(* in the object, maybe an old version of it, so the properties are stated *)
(* of every version and of the copy in the reconcile's hands.              *)

(* What holds of each version by itself, given Kuma's monitors k.          *)
OwnedIn(k, ids) == \A h \in Recorded(ids) : k[ids[h]].host = h
SoundIn(k, o) ==
    OwnedIn(k, o.ids) /\ Vouched(o) /\ Guarded(o) /\ (o.fin => o.exists)

(* A version with the resourceVersion of a, the API server's, is a itself. *)
LatestOf(a, o) == o.rv <= a.rv /\ (o.rv = a.rv => o = a)

(* Kuma hands out ids nobody has.                                          *)
FreshIds == \A id \in Ids : id >= nextId => kuma[id] = Unborn

(* The plan ends with an id for exactly the hosts of the hash it is        *)
(* persisted with.                                                         *)
PlanVouched ==
    /\ want = NoHash => plan = NoIds
    /\ want # NoHash => Recorded(plan) \cup todo = want.hosts
    /\ pc # "upsert" => todo = {}
    /\ pc = "list" => plan = copy.ids

(* Where the running reconcile is.                                         *)
Located ==
    /\ pc \in {"list", "upsert"} => ~copy.deleting
    /\ pc = "unfinalize" => copy.deleting
    /\ pc = "update" => copy.exists
    /\ pc \in {"upsert", "delete"} => drop \subseteq Recorded(copy.ids)

(* A deletion has removed every recorded monitor it has not still to drop. *)
DeletionDone ==
    pc \in {"delete", "unfinalize"} /\ copy.deleting =>
        \A h \in Recorded(copy.ids) :
            (pc = "delete" /\ h \in drop) \/ kuma[copy.ids[h]].st = "gone"

VersionsInv ==
    \A i \in 1..Len(versions) :
        SoundIn(kuma, versions[i]) /\ LatestOf(Api, versions[i])

WorkerInv ==
    /\ SoundIn(kuma, copy) /\ (pc # "idle" => LatestOf(Api, copy))
    /\ OwnedIn(kuma, plan)
    /\ PlanVouched /\ Located /\ DeletionDone

IInv == TypeInv /\ VersionsInv /\ FreshIds /\ WorkerInv

LEMMA AbsentSound ==
  /\ \A k : OwnedIn(k, NoIds)
  /\ \A k, n : SoundIn(k, [Absent EXCEPT !.rv = n]) /\ SoundIn(k, Absent)
  /\ \A k, o, hs, c : SoundIn(k, Created(o, hs, c))
BY DEF OwnedIn, SoundIn, Vouched, Guarded, Recorded, NoIds, Absent, Created

-----------------------------------------------------------------------------
(* Kuma only ever gains monitors under fresh ids and keeps whose they are. *)
Grows(k, l) ==
    \A id \in Ids : /\ k[id].host \in Hosts => l[id].host = k[id].host
                    /\ k[id].st = "gone" => l[id].st = "gone"

LEMMA GrowsSound ==
  ASSUME NEW k, NEW l, Grows(k, l)
  PROVE  /\ \A ids \in IdMaps : OwnedIn(k, ids) => OwnedIn(l, ids)
         /\ \A o \in Objects : SoundIn(k, o) => SoundIn(l, o)
<1>1. ASSUME NEW ids \in IdMaps, OwnedIn(k, ids) PROVE OwnedIn(l, ids)
  BY <1>1 DEF Grows, OwnedIn, Recorded, IdMaps
<1> QED
  BY <1>1 DEF SoundIn, Objects

LEMMA UpsertedGrows ==
  ASSUME TypeInv, FreshIds, NEW h \in Hosts, NEW id \in Ids \cup {0},
         id # 0 => kuma[id].host = h, Upserted(h, id)
  PROVE  /\ Grows(kuma, kuma') /\ FreshIds' /\ kuma'[Answer(id)].host = h
         /\ Answer(id) \in Ids
<1>1. nextId \in 1..MaxId + 1 /\ kuma \in [Ids -> Monitors] /\ MaxId \in Nat
  BY BoundAssumption DEF TypeInv, TypeOK
<1>2. Answer(id) \in Ids
  BY <1>1 DEF Upserted, Answer, Ids
<1>3. kuma' = [kuma EXCEPT ![Answer(id)] =
                 [st |-> "live", host |-> h, cfg |-> want.cfg]]
  BY DEF Upserted, Answer
<1>4. kuma[Answer(id)].host \notin Hosts \/ kuma[Answer(id)].host = h
  BY <1>1, <1>2, SentinelAssumption DEF FreshIds, Answer, Unborn
<1>5. kuma[Answer(id)].st # "gone"
  BY <1>1, <1>2 DEF FreshIds, Answer, Unborn, Upserted, Alive
<1>6. Grows(kuma, kuma') /\ kuma'[Answer(id)].host = h
  BY <1>1, <1>2, <1>3, <1>4, <1>5 DEF Grows
<1>7. FreshIds'
  <2>1. CASE id = 0
    BY <1>1, <1>3, <2>1 DEF FreshIds, Answer, Upserted, Ids
  <2>2. CASE id # 0
    <3>1. ~(id >= nextId)
      BY <1>1, <2>2, SentinelAssumption DEF FreshIds, Unborn
    <3> QED
      BY <1>1, <1>3, <2>2, <3>1 DEF FreshIds, Answer, Upserted, Ids
  <2> QED
    BY <2>1, <2>2
<1> QED
  BY <1>2, <1>6, <1>7

LEMMA RemovedGrows ==
  ASSUME TypeInv, FreshIds, NEW id \in Ids, kuma[id].host \in Hosts,
         Removed(id), nextId' = nextId
  PROVE  Grows(kuma, kuma') /\ FreshIds' /\ kuma'[id].st = "gone"
<1>1. nextId \in 1..MaxId + 1 /\ kuma \in [Ids -> Monitors] /\ MaxId \in Nat
  BY BoundAssumption DEF TypeInv, TypeOK
<1>2. ~(id >= nextId)
  BY SentinelAssumption DEF FreshIds, Unborn
<1>3. \A i \in Ids : i # id => kuma'[i] = kuma[i]
  BY <1>1 DEF Removed
<1>4. kuma'[id].host = kuma[id].host /\ kuma'[id].st = "gone"
  BY <1>1 DEF Removed, Monitors
<1>5. Grows(kuma, kuma')
  BY <1>3, <1>4 DEF Grows
<1>6. FreshIds'
  BY <1>2, <1>3 DEF FreshIds
<1> QED
  BY <1>4, <1>5, <1>6

LEMMA SameGrows ==
  ASSUME FreshIds, UNCHANGED <<kuma, nextId>>
  PROVE  Grows(kuma, kuma') /\ FreshIds'
BY DEF Grows, FreshIds

LEMMA KumaStep ==
  ASSUME IInv, [Next]_vars
  PROVE  Grows(kuma, kuma') /\ FreshIds'
<1>1. TypeInv /\ FreshIds /\ nextId \in Nat
  BY BoundAssumption DEF IInv, TypeInv, TypeOK
<1>2. ASSUME NEW h \in Hosts, UpsertHost(h) \/ UpsertFails(h)
      PROVE  Grows(kuma, kuma') /\ FreshIds'
  <2>1. plan[h] \in Ids \cup {0} /\ (plan[h] # 0 => kuma[plan[h]].host = h)
    BY DEF IInv, TypeInv, TypeOK, IdMaps, WorkerInv, OwnedIn, Recorded
  <2>2. Upserted(h, plan[h]) \/ UNCHANGED <<kuma, nextId>>
    BY <1>2 DEF UpsertHost, UpsertFails
  <2> QED
    BY <1>1, <2>1, <2>2, UpsertedGrows, SameGrows
<1>3. ASSUME NEW h \in Hosts, DeleteHost(h) \/ DeleteFails(h)
      PROVE  Grows(kuma, kuma') /\ FreshIds'
  <2>1. \/ UNCHANGED <<kuma, nextId>>
        \/ Removed(copy.ids[h]) /\ nextId' = nextId
    BY <1>3 DEF DeleteHost, DeleteFails
  <2>2. h \in Recorded(copy.ids) /\ copy.ids \in IdMaps
    BY <1>3
    DEF DeleteHost, DeleteFails, IInv, WorkerInv, Located, TypeInv, TypeOK,
        Objects
  <2>3. copy.ids[h] \in Ids /\ kuma[copy.ids[h]].host = h
    BY <2>2 DEF IInv, WorkerInv, SoundIn, OwnedIn, Recorded, IdMaps
  <2> QED
    BY <1>1, <2>1, <2>3, RemovedGrows, SameGrows
<1>4. ASSUME NEW id \in Ids, UiEdit(id) \/ UiDelete(id)
      PROVE  Grows(kuma, kuma') /\ FreshIds'
  <2>1. kuma[id].st = "live" /\ kuma \in [Ids -> Monitors] /\ id # 0
    BY <1>4 DEF UiEdit, UiDelete, Alive, IInv, TypeInv, TypeOK
  <2>2. ~(id >= nextId)
    BY <1>1, <2>1 DEF FreshIds, Unborn
  <2>3. \A i \in Ids : /\ i # id => kuma'[i] = kuma[i]
                       /\ kuma'[i].host = kuma[i].host
    BY <1>4, <2>1 DEF UiEdit, UiDelete, Removed, Monitors
  <2>4. nextId' = nextId
    BY <1>4 DEF UiEdit, UiDelete
  <2> QED
    BY <1>1, <2>1, <2>2, <2>3, <2>4 DEF FreshIds, Grows
<1>5. \/ \E h \in Hosts : \/ UpsertHost(h) \/ UpsertFails(h)
                         \/ DeleteHost(h) \/ DeleteFails(h)
      \/ \E id \in Ids : UiEdit(id) \/ UiDelete(id)
      \/ UNCHANGED <<kuma, nextId>>
  BY DEF Next, Reconcile, World, vars,
         ReconcileGone, ReconcileDeleting, ReconcileIgnored, ReconcileOptOut,
         ReconcileInvalid, ReconcileUnchanged, ReconcileChanged, ListMatches,
         ListDrifted, ListFails, RemoveFinalizer, RemoveFinalizerFails,
         PersistGet, PersistGetFails, PersistUpdate, PersistRetry,
         PersistFails, SyncTags, Deliver, UserEdit, UserDelete,
         OtherReleases, Crash
<1> QED
  BY <1>1, <1>2, <1>3, <1>4, <1>5, SameGrows

-----------------------------------------------------------------------------
(* Every version stays sound, and resourceVersions keep telling versions   *)
(* apart, for those still in the cache and for a copy read earlier.        *)
VersionsKept ==
    /\ \A i \in 1..Len(versions') :
          SoundIn(kuma, versions'[i]) /\ LatestOf(Api', versions'[i])
    /\ \A c \in Objects : LatestOf(Api, c) => LatestOf(Api', c)

LEMMA NewerSound ==
  ASSUME TypeInv, NEW o \in Objects, SoundIn(kuma, o)
  PROVE  SoundIn(kuma, Newer(o)) /\ Newer(o).rv = Api.rv + 1
<1>1. Api.rv \in Nat
  BY VersionsType DEF TypeInv, Objects
<1> DEFINE n == [o EXCEPT !.rv = Api.rv + 1]
<1>2. /\ n.ids = o.ids /\ n.hash = o.hash /\ n.fin = o.fin /\ n.rv = Api.rv + 1
      /\ n.deleting = o.deleting /\ n.exists = o.exists
  BY DEF Objects
<1>3. SoundIn(kuma, n)
  BY <1>2 DEF SoundIn, Vouched, Guarded
<1>4. [Absent EXCEPT !.rv = n.rv].rv = n.rv
  BY DEF Absent
<1> HIDE DEF n
<1>5. Settled(n) = n \/ Settled(n) = [Absent EXCEPT !.rv = n.rv]
  BY DEF Settled
<1>6. Newer(o) = Settled(n)
  BY DEF Newer, n
<1>7. CASE Settled(n) = n
  BY <1>2, <1>3, <1>6, <1>7
<1>8. CASE Settled(n) = [Absent EXCEPT !.rv = n.rv]
  <2>1. SoundIn(kuma, Newer(o))
    BY <1>6, <1>8, AbsentSound
  <2>2. Newer(o).rv = n.rv
    BY <1>4, <1>6, <1>8
  <2> QED
    BY <1>2, <2>1, <2>2
<1> QED
  BY <1>5, <1>7, <1>8

LEMMA StoreKeeps ==
  ASSUME TypeInv, VersionsInv, NEW o \in Objects, SoundIn(kuma, o), Store(o)
  PROVE  VersionsKept
<1>1. Api.rv \in Nat /\ \A c \in Objects : c.rv \in Nat
  BY VersionsType DEF TypeInv, Objects
<1>2. CASE versions' = versions
  BY <1>2 DEF VersionsInv, VersionsKept, Api
<1>3. CASE /\ Api' = Newer(o)
           /\ \A i \in 1..Len(versions') :
                 \/ versions'[i] = Newer(o)
                 \/ \E j \in 1..Len(versions) : versions'[i] = versions[j]
  <2>1. SoundIn(kuma, Newer(o)) /\ Newer(o).rv = Api.rv + 1
    BY NewerSound
  <2>2. \A c \in Objects : LatestOf(Api, c) => LatestOf(Api', c)
    BY <1>1, <1>3, <2>1 DEF LatestOf
  <2>3. LatestOf(Api', Newer(o))
    BY <1>1, <1>3, <2>1 DEF LatestOf
  <2>4. \A j \in 1..Len(versions) :
           versions[j] \in Objects /\ SoundIn(kuma, versions[j])
           /\ LatestOf(Api, versions[j])
    BY VersionsType DEF TypeInv, VersionsInv
  <2> QED
    BY <1>3, <2>1, <2>2, <2>3, <2>4 DEF VersionsKept
<1> QED
  BY <1>2, <1>3, StoreShape DEF TypeInv

LEMMA ApiSound ==
  ASSUME TypeInv, VersionsInv
  PROVE  /\ SoundIn(kuma, Api) /\ SoundIn(kuma, Cache)
         /\ LatestOf(Api, Cache) /\ LatestOf(Api, Api)
<1>1. Len(versions) \in Nat \ {0}
  BY VersionsType DEF TypeInv
<1>2. 1 \in 1..Len(versions) /\ Len(versions) \in 1..Len(versions)
  BY <1>1
<1> QED
  BY <1>2 DEF VersionsInv, Api, Cache

LEMMA ReleasedKeeps ==
  ASSUME IInv, pc = "unfinalize", Released
  PROVE  VersionsKept
<1> DEFINE o == [copy EXCEPT !.fin = FALSE]
<1>1. o \in Objects
  BY DEF IInv, TypeInv, TypeOK, Objects
<1>2. /\ o.ids = copy.ids /\ o.hash = copy.hash /\ o.fin = FALSE
      /\ o.deleting = copy.deleting /\ copy.deleting
  BY DEF IInv, TypeInv, TypeOK, Objects, WorkerInv, Located
<1>3. SoundIn(kuma, o)
  BY <1>2 DEF IInv, WorkerInv, SoundIn, Vouched, Guarded
<1> QED
  BY <1>1, <1>3, StoreKeeps DEF IInv, Released

LEMMA PersistedKeeps ==
  ASSUME IInv, pc = "update", Persisted
  PROVE  VersionsKept
<1> DEFINE o == Recording(copy)
<1>1. o \in Objects
  BY DEF IInv, TypeInv, TypeOK, Objects, Recording
<1>2. /\ o.ids = plan /\ o.hash = want /\ o.fin = (want # NoHash)
      /\ o.exists = copy.exists /\ copy.exists
  BY DEF IInv, TypeInv, TypeOK, Objects, Recording, WorkerInv, Located
<1>3. Vouched(o)
  BY <1>2 DEF IInv, WorkerInv, PlanVouched, Vouched
<1>4. Guarded(o)
  BY <1>2 DEF IInv, WorkerInv, PlanVouched, Guarded, Recorded, NoIds
<1>5. SoundIn(kuma, o)
  BY <1>2, <1>3, <1>4 DEF IInv, WorkerInv, SoundIn
<1> QED
  BY <1>1, <1>5, StoreKeeps DEF IInv, Persisted

LEMMA EditedSound ==
  ASSUME TypeInv, VersionsInv
  PROVE  /\ \A o \in BOOLEAN, hs \in SUBSET Hosts, c \in Cfgs \cup {Invalid} :
               SoundIn(kuma, [Api EXCEPT !.optIn = o, !.hosts = hs, !.cfg = c])
         /\ SoundIn(kuma, [Api EXCEPT !.deleting = TRUE])
         /\ SoundIn(kuma, [Api EXCEPT !.other = FALSE])
<1>1. Api \in Objects /\ SoundIn(kuma, Api)
  BY VersionsType, ApiSound DEF TypeInv
<1> QED
  BY <1>1 DEF Objects, SoundIn, Vouched, Guarded

LEMMA VersionStep ==
  ASSUME IInv, [Next]_vars
  PROVE  VersionsKept
<1>1. CASE versions' = versions
  BY <1>1 DEF IInv, VersionsInv, VersionsKept, Api
<1>2. CASE Deliver
  <2>1. /\ Api' = Api
        /\ \A i \in 1..Len(versions') :
              \E j \in 1..Len(versions) : versions'[i] = versions[j]
    BY <1>2, TailShape DEF Deliver, IInv, TypeInv
  <2> QED
    BY <2>1 DEF IInv, VersionsInv, VersionsKept
<1>3. CASE Crash
  <2>1. versions' = <<Api>> /\ Len(versions') = 1 /\ Api' = Api
    BY <1>3 DEF Crash, Api
  <2> QED
    BY <2>1, ApiSound DEF IInv, VersionsKept
<1>4. CASE UserEdit
  BY <1>4, EditType, EditedSound, CreatedType, AbsentSound, StoreKeeps
  DEF UserEdit, IInv
<1>5. CASE UserDelete
  BY <1>5, EditType, EditedSound, StoreKeeps DEF UserDelete, IInv
<1>6. CASE OtherReleases
  BY <1>6, EditType, EditedSound, StoreKeeps DEF OtherReleases, IInv
<1>7. CASE RemoveFinalizer \/ RemoveFinalizerFails
  BY <1>1, <1>7, ReleasedKeeps DEF RemoveFinalizer, RemoveFinalizerFails
<1>8. CASE PersistUpdate \/ PersistFails
  BY <1>1, <1>8, PersistedKeeps DEF PersistUpdate, PersistFails
<1>9. \/ versions' = versions \/ Deliver \/ Crash \/ UserEdit \/ UserDelete
      \/ OtherReleases \/ RemoveFinalizer \/ RemoveFinalizerFails
      \/ PersistUpdate \/ PersistFails
  BY DEF Next, Reconcile, World, vars,
         ReconcileGone, ReconcileDeleting, ReconcileIgnored, ReconcileOptOut,
         ReconcileInvalid, ReconcileUnchanged, ReconcileChanged, ListMatches,
         ListDrifted, ListFails, UpsertHost, UpsertFails, DeleteHost,
         DeleteFails, PersistGet, PersistGetFails, PersistRetry, SyncTags,
         UiEdit, UiDelete
<1> QED
  BY <1>1, <1>2, <1>3, <1>4, <1>5, <1>6, <1>7, <1>8, <1>9

-----------------------------------------------------------------------------
(* The running reconcile keeps its part of the invariant.                  *)

LEMMA WorkerIdle ==
  ASSUME Forget
  PROVE  WorkerInv'
<1>1. /\ pc' = "idle" /\ copy' = Absent /\ want' = NoHash /\ plan' = NoIds
      /\ todo' = {} /\ drop' = {}
  BY DEF Forget
<1>2. SoundIn(kuma', copy') /\ OwnedIn(kuma', plan')
  BY <1>1, AbsentSound
<1> QED
  BY <1>1, <1>2 DEF WorkerInv, PlanVouched, Located, DeletionDone

(* A step that leaves the reconcile's variables alone.                     *)
LEMMA WorkerWaits ==
  ASSUME IInv, Grows(kuma, kuma'), VersionsKept, UNCHANGED worker
  PROVE  WorkerInv'
<1>1. UNCHANGED <<pc, copy, want, plan, todo, drop, tries>>
  BY DEF worker
<1>2. /\ copy \in Objects /\ plan \in IdMaps /\ copy.ids \in IdMaps
      /\ SoundIn(kuma, copy) /\ OwnedIn(kuma, plan)
      /\ pc # "idle" => LatestOf(Api, copy)
  BY DEF IInv, TypeInv, TypeOK, Objects, WorkerInv
<1>3. SoundIn(kuma', copy) /\ OwnedIn(kuma', plan)
  BY <1>2, GrowsSound
<1>4. pc # "idle" => LatestOf(Api', copy)
  BY <1>2 DEF VersionsKept
<1>5. DeletionDone'
  BY <1>1, <1>2 DEF IInv, WorkerInv, DeletionDone, Grows, Recorded, IdMaps
<1> QED
  BY <1>1, <1>3, <1>4, <1>5 DEF IInv, WorkerInv, PlanVouched, Located

(* A reconcile starts from the version in the cache.                       *)
LEMMA WorkerBegins ==
  ASSUME IInv, NEW hash, NEW ids \in IdMaps, NEW td, NEW dr,
         Begin(Cache, hash, ids, td, dr), UNCHANGED <<versions, kuma>>,
         OwnedIn(kuma, ids), hash = NoHash => ids = NoIds,
         hash # NoHash => Recorded(ids) \cup td = hash.hosts,
         dr \subseteq Recorded(Cache.ids),
         Cache.deleting => td = {} /\ dr = Recorded(Cache.ids)
  PROVE  WorkerInv'
<1>1. /\ copy' = Cache /\ want' = hash /\ plan' = ids /\ todo' = td
      /\ drop' = dr /\ pc' = Stage(Cache, td, dr) /\ Api' = Api
  BY DEF Begin, Api
<1>2. SoundIn(kuma', copy') /\ LatestOf(Api', copy') /\ OwnedIn(kuma', plan')
  BY <1>1, ApiSound DEF IInv
<1>3. PlanVouched'
  BY <1>1 DEF PlanVouched, Stage
<1>4. Located'
  BY <1>1 DEF Located, Stage
<1>5. DeletionDone'
  BY <1>1 DEF DeletionDone, Stage
<1> QED
  BY <1>2, <1>3, <1>4, <1>5 DEF WorkerInv

LEMMA SyncPlanOwned ==
  ASSUME NEW o \in Objects, OwnedIn(kuma, o.ids)
  PROVE  /\ OwnedIn(kuma, SyncPlan(o))
         /\ Recorded(SyncPlan(o)) \cup o.hosts = o.hosts
BY DEF OwnedIn, SyncPlan, Recorded, Objects, IdMaps

LEMMA WorkerStart ==
  ASSUME IInv,
         \/ ReconcileDeleting \/ ReconcileOptOut \/ ReconcileUnchanged
         \/ ReconcileChanged
  PROVE  WorkerInv'
<1>1. Cache \in Objects /\ SoundIn(kuma, Cache) /\ LatestOf(Api, Cache)
  BY VersionsType, ApiSound DEF IInv, TypeInv
<1>2. CASE ReconcileDeleting
  BY <1>2, AbsentType, AbsentSound, WorkerBegins DEF ReconcileDeleting
<1>3. CASE ReconcileOptOut
  BY <1>3, AbsentType, AbsentSound, WorkerBegins DEF ReconcileOptOut
<1>4. CASE ReconcileUnchanged
  <2>1. /\ copy' = Cache /\ want' = Cache.hash /\ plan' = Cache.ids
        /\ pc' = "list" /\ todo' = todo /\ kuma' = kuma /\ Api' = Api
        /\ ~Cache.deleting /\ Cache.hash \in Hashes /\ pc = "idle"
    BY <1>1, <1>4
    DEF ReconcileUnchanged, Take, Desired, Objects, Hashes, Api
  <2>2. todo = {}
    BY <2>1 DEF IInv, WorkerInv, PlanVouched
  <2>3. PlanVouched'
    BY <1>1, <2>1, <2>2, HashAssumption DEF PlanVouched, SoundIn, Vouched
  <2> QED
    BY <1>1, <2>1, <2>3 DEF WorkerInv, Located, DeletionDone, SoundIn
<1>5. CASE ReconcileChanged
  <2>1. Desired(Cache) \in Hashes /\ Desired(Cache).hosts = Cache.hosts
    BY <1>1, <1>5 DEF ReconcileChanged, Desired, Objects, Hashes
  <2>2. /\ SyncPlan(Cache) \in IdMaps /\ OwnedIn(kuma, SyncPlan(Cache))
        /\ Recorded(SyncPlan(Cache)) \cup Cache.hosts = Cache.hosts
    BY <1>1, PlanTypes, SyncPlanOwned DEF SoundIn
  <2>3. /\ Begin(Cache, Desired(Cache), SyncPlan(Cache), Cache.hosts,
                 Recorded(Cache.ids) \ Cache.hosts)
        /\ UNCHANGED <<versions, kuma>> /\ ~Cache.deleting
    BY <1>5 DEF ReconcileChanged
  <2> QED
    BY <2>1, <2>2, <2>3, HashAssumption, WorkerBegins
<1> QED
  BY <1>2, <1>3, <1>4, <1>5

LEMMA DriftPlanOwned ==
  ASSUME NEW ids \in IdMaps, NEW hash, OwnedIn(kuma, ids),
         Recorded(ids) = hash.hosts
  PROVE  /\ OwnedIn(kuma, DriftPlan(ids, hash))
         /\ Recorded(DriftPlan(ids, hash)) \cup Drifted(ids, hash) = hash.hosts
BY DEF OwnedIn, DriftPlan, Drifted, Recorded, IdMaps

LEMMA WorkerLists ==
  ASSUME IInv, ListMatches \/ ListDrifted
  PROVE  WorkerInv'
<1>1. /\ pc = "list" /\ ~copy.deleting /\ plan = copy.ids /\ todo = {}
      /\ want # NoHash /\ SoundIn(kuma, copy) /\ LatestOf(Api, copy)
      /\ OwnedIn(kuma, plan) /\ Recorded(plan) = want.hosts
      /\ plan \in IdMaps
  BY DEF ListMatches, ListDrifted, IInv, TypeInv, TypeOK, Upserting,
         WorkerInv, PlanVouched, Located
<1>2. UNCHANGED <<versions, kuma>> /\ Api' = Api
  BY DEF ListMatches, ListDrifted, Api
<1>3. CASE ListMatches
  BY <1>1, <1>2, <1>3
  DEF ListMatches, WorkerInv, PlanVouched, Located, DeletionDone
<1>4. CASE ListDrifted
  <2> DEFINE ids == DriftPlan(copy.ids, want)
             td == Drifted(copy.ids, want)
  <2>1. /\ copy' = copy /\ want' = want /\ plan' = ids /\ todo' = td
        /\ drop' = {} /\ pc' = Stage(copy, td, {})
    BY <1>4 DEF ListDrifted, Begin
  <2>2. OwnedIn(kuma, ids) /\ Recorded(ids) \cup td = want.hosts
    BY <1>1, DriftPlanOwned
  <2>3. pc' \in {"upsert", "get"} /\ (pc' # "upsert" => todo' = {})
    BY <1>1, <2>1 DEF Stage
  <2> QED
    BY <1>1, <1>2, <2>1, <2>2, <2>3
    DEF WorkerInv, PlanVouched, Located, DeletionDone
<1> QED
  BY <1>3, <1>4

LEMMA WorkerUpserts ==
  ASSUME IInv, NEW h \in Hosts, UpsertHost(h)
  PROVE  WorkerInv'
<1>1. /\ TypeInv /\ FreshIds /\ plan \in IdMaps /\ copy \in Objects
      /\ todo \in SUBSET Hosts
  BY DEF IInv, TypeInv, TypeOK
<1>2. /\ pc = "upsert" /\ ~copy.deleting /\ h \in todo /\ want # NoHash
      /\ SoundIn(kuma, copy) /\ LatestOf(Api, copy) /\ OwnedIn(kuma, plan)
      /\ Recorded(plan) \cup todo = want.hosts
      /\ drop \subseteq Recorded(copy.ids)
  BY DEF UpsertHost, IInv, TypeInv, Upserting, WorkerInv, PlanVouched, Located
<1>3. plan[h] \in Ids \cup {0} /\ (plan[h] # 0 => kuma[plan[h]].host = h)
  BY <1>1, <1>2 DEF IdMaps, OwnedIn, Recorded
<1>4. /\ Grows(kuma, kuma') /\ kuma'[Answer(plan[h])].host = h
      /\ Answer(plan[h]) \in Ids
  BY <1>1, <1>3, UpsertedGrows DEF UpsertHost
<1>5. /\ plan' = [plan EXCEPT ![h] = Answer(plan[h])] /\ todo' = todo \ {h}
      /\ pc' = Stage(copy, todo \ {h}, drop) /\ Api' = Api
      /\ UNCHANGED <<copy, want, drop>>
  BY DEF UpsertHost, Api
<1>6. SoundIn(kuma', copy) /\ OwnedIn(kuma', plan)
  BY <1>1, <1>2, <1>4, GrowsSound
<1>7. OwnedIn(kuma', plan')
  BY <1>1, <1>4, <1>5, <1>6 DEF OwnedIn, Recorded, IdMaps
<1>8. Recorded(plan') \cup todo' = want.hosts
  BY <1>1, <1>2, <1>4, <1>5, BoundAssumption DEF Recorded, IdMaps, Ids
<1>9. PlanVouched'
  BY <1>2, <1>5, <1>8 DEF PlanVouched, Stage
<1>10. Located' /\ DeletionDone'
  BY <1>2, <1>5 DEF Located, DeletionDone, Stage
<1> QED
  BY <1>2, <1>5, <1>6, <1>7, <1>9, <1>10 DEF WorkerInv

LEMMA WorkerDeletes ==
  ASSUME IInv, NEW h \in Hosts, DeleteHost(h), Grows(kuma, kuma')
  PROVE  WorkerInv'
<1>1. /\ kuma \in [Ids -> Monitors] /\ plan \in IdMaps /\ copy \in Objects
      /\ copy.ids \in IdMaps
  BY DEF IInv, TypeInv, TypeOK, Objects
<1>2. /\ pc = "delete" /\ h \in drop /\ todo = {}
      /\ SoundIn(kuma, copy) /\ LatestOf(Api, copy) /\ OwnedIn(kuma, plan)
      /\ drop \subseteq Recorded(copy.ids)
  BY DEF DeleteHost, IInv, WorkerInv, PlanVouched, Located
<1>3. /\ drop' = drop \ {h} /\ pc' = Stage(copy, {}, drop \ {h})
      /\ Api' = Api /\ UNCHANGED <<copy, want, plan, todo>>
  BY DEF DeleteHost, Api
<1>4. copy.ids[h] \in Ids
  BY <1>1, <1>2 DEF Recorded, IdMaps
<1>5. kuma'[copy.ids[h]].st = "gone"
  BY <1>1, <1>4 DEF DeleteHost, Removed, Monitors
<1>6. SoundIn(kuma', copy) /\ OwnedIn(kuma', plan)
  BY <1>1, <1>2, GrowsSound
<1>7. DeletionDone'
  <2> SUFFICES ASSUME pc' \in {"delete", "unfinalize"}, copy.deleting,
                      NEW g \in Recorded(copy.ids)
               PROVE  \/ pc' = "delete" /\ g \in drop'
                      \/ kuma'[copy.ids[g]].st = "gone"
    BY <1>3 DEF DeletionDone
  <2>1. CASE g = h
    BY <1>5, <2>1
  <2>2. CASE g \in drop /\ g # h
    BY <1>3, <2>2 DEF Stage
  <2>3. CASE g \notin drop
    <3>1. kuma[copy.ids[g]].st = "gone" /\ copy.ids[g] \in Ids
      BY <1>1, <1>2, <2>3 DEF IInv, WorkerInv, DeletionDone, Recorded, IdMaps
    <3> QED
      BY <3>1 DEF Grows
  <2> QED
    BY <2>1, <2>2, <2>3
<1>8. PlanVouched' /\ Located'
  <2>1. pc' \in {"delete", "unfinalize", "get"}
        /\ (pc' = "unfinalize" => copy.deleting)
    BY <1>3 DEF Stage
  <2> QED
    BY <1>2, <1>3, <2>1 DEF IInv, WorkerInv, PlanVouched, Located
<1> QED
  BY <1>2, <1>3, <1>6, <1>7, <1>8 DEF WorkerInv

LEMMA WorkerPersists ==
  ASSUME IInv, VersionsKept,
         \/ PersistGet \/ PersistRetry
         \/ PersistUpdate /\ UNCHANGED <<copy, want, plan, todo, drop>>
                          /\ pc' = "tags"
  PROVE  WorkerInv'
<1>1. /\ kuma' = kuma /\ pc \in {"get", "update"}
      /\ pc' \in {"get", "update", "tags"}
      /\ UNCHANGED <<want, plan, todo, drop>>
      /\ \/ copy' = copy /\ pc' # "update"
         \/ copy' = Cache /\ Cache.exists
  <2>1. CASE PersistGet
    BY <2>1 DEF PersistGet
  <2>2. CASE PersistRetry
    BY <2>2 DEF PersistRetry
  <2>3. CASE /\ PersistUpdate /\ UNCHANGED <<copy, want, plan, todo, drop>>
             /\ pc' = "tags"
    BY <2>3 DEF PersistUpdate
  <2> QED
    BY <2>1, <2>2, <2>3
<1>2. copy \in Objects /\ Cache \in Objects
  BY VersionsType DEF IInv, TypeInv, TypeOK
<1>3. SoundIn(kuma, copy') /\ LatestOf(Api, copy') /\ copy' \in Objects
  BY <1>1, <1>2, ApiSound DEF IInv, WorkerInv
<1>4. LatestOf(Api', copy')
  BY <1>3 DEF VersionsKept
<1> QED
  BY <1>1, <1>3, <1>4
  DEF IInv, WorkerInv, PlanVouched, Located, DeletionDone

LEMMA WorkerStep ==
  ASSUME IInv, [Next]_vars
  PROVE  WorkerInv'
<1>1. Grows(kuma, kuma') /\ VersionsKept
  BY KumaStep, VersionStep
<1>2. CASE UNCHANGED worker
  BY <1>1, <1>2, WorkerWaits
<1>3. CASE Forget
  BY <1>3, WorkerIdle
<1>4. \/ UNCHANGED worker \/ Forget
      \/ ReconcileDeleting \/ ReconcileOptOut \/ ReconcileUnchanged
      \/ ReconcileChanged \/ ListMatches \/ ListDrifted
      \/ \E h \in Hosts : UpsertHost(h) \/ DeleteHost(h)
      \/ PersistGet \/ PersistRetry \/ PersistUpdate
  BY DEF Next, Reconcile, World, vars, worker, Return,
         ReconcileGone, ReconcileIgnored, ReconcileInvalid, ListFails,
         UpsertFails, DeleteFails, RemoveFinalizer, RemoveFinalizerFails,
         PersistGetFails, PersistFails, SyncTags, Deliver, UserEdit,
         UserDelete, OtherReleases, UiEdit, UiDelete, Crash
<1>5. CASE PersistUpdate
  BY <1>1, <1>3, <1>5, WorkerPersists DEF PersistUpdate, Return
<1> QED
  BY <1>1, <1>2, <1>3, <1>4, <1>5, WorkerStart, WorkerLists, WorkerUpserts,
     WorkerDeletes, WorkerPersists

-----------------------------------------------------------------------------
(* The theorems.                                                           *)

LEMMA IInvInit == Init => IInv
<1> SUFFICES ASSUME Init PROVE IInv
  OBVIOUS
<1>1. TypeInv
  BY TypeInit
<1>2. PICK o \in BOOLEAN, hs \in SUBSET Hosts, c \in Cfgs :
         versions = <<Created(o, hs, c)>>
  BY DEF Init
<1>3. Len(versions) = 1 /\ versions[1] = Created(o, hs, c) /\ Api = versions[1]
  BY <1>2 DEF Api
<1>4. Api.rv \in Nat
  BY <1>1, VersionsType DEF TypeInv, Objects
<1>5. VersionsInv
  BY <1>3, <1>4, AbsentSound DEF VersionsInv, LatestOf
<1>6. FreshIds
  BY DEF Init, FreshIds
<1>7. WorkerInv
  BY AbsentSound DEF Init, WorkerInv, PlanVouched, Located, DeletionDone
<1> QED
  BY <1>1, <1>5, <1>6, <1>7 DEF IInv

LEMMA IInvStep ==
  ASSUME IInv, [Next]_vars
  PROVE  IInv'
<1>1. TypeInv'
  BY TypeStep DEF IInv
<1>2. Grows(kuma, kuma') /\ FreshIds'
  BY KumaStep
<1>3. VersionsInv'
  <2>1. \A i \in 1..Len(versions') : versions'[i] \in Objects
    BY <1>1 DEF TypeInv, TypeOK
  <2> QED
    BY <1>2, <2>1, VersionStep, GrowsSound DEF VersionsKept, VersionsInv
<1>4. WorkerInv'
  BY WorkerStep
<1> QED
  BY <1>1, <1>2, <1>3, <1>4 DEF IInv

THEOREM Inductive == Spec => []IInv
BY IInvInit, IInvStep, PTL DEF Spec

(* The operator only ever edits or deletes monitors it created, for the    *)
(* host it created them for, whatever it reads from a lagging cache        *)
(* (syncMonitors, reconcileDrift, deleteAllMonitors).                      *)
THEOREM OwnershipCorrect == Spec => []RecordedOwned
<1>1. IInv => RecordedOwned
  BY DEF IInv, VersionsInv, WorkerInv, SoundIn, OwnedIn, RecordedOwned, Owned
<1> QED
  BY <1>1, Inductive, PTL

(* Hash and ids never disagree, so that the drift check, which only looks  *)
(* at hosts with an id, overlooks no host (specsMatch).                    *)
THEOREM HashCorrect == Spec => []HashVouches
<1>1. IInv => HashVouches
  BY DEF IInv, VersionsInv, SoundIn, HashVouches
<1> QED
  BY <1>1, Inductive, PTL

(* An object with monitors carries the finalizer until it is deleted       *)
(* (persistMonitorIDs).                                                    *)
THEOREM GuardCorrect == Spec => []MonitorsGuarded
<1>1. IInv => MonitorsGuarded
  BY DEF IInv, VersionsInv, SoundIn, MonitorsGuarded
<1> QED
  BY <1>1, Inductive, PTL

(* The deletion branch gives up the finalizer only when every monitor the  *)
(* API server has on record is gone, for any cache lag, any faults and any *)
(* number of crashes: the optimistic lock is what makes the stale copy     *)
(* harmless (reconcileHostBasedResource).                                  *)
THEOREM ReleaseCorrect == Spec => CleanRelease
<1>1. ASSUME IInv, [Next]_vars, pc = "unfinalize", Api.fin, ~Api'.fin
      PROVE  AllGone(Api.ids)
  <2>1. AllGone(copy.ids) /\ LatestOf(Api, copy)
    BY <1>1 DEF IInv, WorkerInv, Located, DeletionDone, AllGone
  <2>2. Api \in Objects /\ Len(versions) \in Nat \ {0} /\ SoundIn(kuma, Api)
    BY <1>1, VersionsType, ApiSound DEF IInv, TypeInv
  <2>3. CASE Released
    BY <2>1, <2>3 DEF Released, LatestOf
  <2>4. CASE versions' = versions
    BY <1>1, <2>4 DEF Api
  <2>5. CASE Deliver
    BY <1>1, <2>5, TailShape DEF Deliver, IInv, TypeInv
  <2>6. CASE Crash
    <3>1. Api' = Api
      BY <2>6 DEF Crash, Api
    <3> QED
      BY <1>1, <3>1
  <2>7. ASSUME NEW o \in Objects, Store(o), o.fin PROVE FALSE
    <3>1. Newer(o).fin
      BY <2>7 DEF Newer, Settled, Objects
    <3>2. Api' = Api \/ Api' = Newer(o)
      BY <1>1, <2>7, StoreShape DEF IInv, TypeInv, Api
    <3> QED
      BY <1>1, <3>1, <3>2
  <2>8. CASE UserEdit
    <3>1. Api.exists
      BY <1>1, <2>2 DEF SoundIn
    <3>2. PICK o \in BOOLEAN, hs \in SUBSET Hosts, c \in Cfgs \cup {Invalid} :
             Store([Api EXCEPT !.optIn = o, !.hosts = hs, !.cfg = c])
      BY <2>8, <3>1 DEF UserEdit
    <3> DEFINE e == [Api EXCEPT !.optIn = o, !.hosts = hs, !.cfg = c]
    <3>3. e \in Objects /\ e.fin
      BY <1>1, <2>2 DEF Objects
    <3> QED
      BY <2>7, <3>2, <3>3
  <2>9. CASE UserDelete
    <3>1. [Api EXCEPT !.deleting = TRUE] \in Objects
          /\ [Api EXCEPT !.deleting = TRUE].fin
      BY <1>1, <2>2 DEF Objects
    <3> QED
      BY <2>7, <2>9, <3>1 DEF UserDelete
  <2>10. CASE OtherReleases
    <3>1. [Api EXCEPT !.other = FALSE] \in Objects
          /\ [Api EXCEPT !.other = FALSE].fin
      BY <1>1, <2>2 DEF Objects
    <3> QED
      BY <2>7, <2>10, <3>1 DEF OtherReleases
  <2>11. \/ versions' = versions \/ Released \/ Deliver \/ Crash \/ UserEdit
         \/ UserDelete \/ OtherReleases
    BY <1>1
    DEF Next, Reconcile, World, vars, Take,
        ReconcileGone, ReconcileDeleting, ReconcileIgnored, ReconcileOptOut,
        ReconcileInvalid, ReconcileUnchanged, ReconcileChanged, ListMatches,
        ListDrifted, ListFails, UpsertHost, UpsertFails, DeleteHost,
        DeleteFails, RemoveFinalizer, RemoveFinalizerFails, PersistGet,
        PersistGetFails, PersistUpdate, PersistRetry, PersistFails, SyncTags,
        UiEdit, UiDelete
  <2> QED
    BY <2>3, <2>4, <2>5, <2>6, <2>8, <2>9, <2>10, <2>11
<1>2. IInv /\ [Next]_vars
      => [pc = "unfinalize" /\ Api.fin /\ ~Api'.fin => AllGone(Api.ids)]_vars
  BY <1>1
<1> QED
  BY <1>2, Inductive, PTL DEF Spec, CleanRelease

(***************************************************************************)
(* HostSync implements MonitorLedger, for every number of hosts, ids,      *)
(* cached versions, retries and outside events; what the ledger promises   *)
(* follows from the ledger alone.                                          *)
(***************************************************************************)
-----------------------------------------------------------------------------
(* What a write of the object means for the book.                          *)

LEMMA NewerBook ==
  ASSUME NEW o \in Objects, NEW n \in Nat
  PROVE  LET new == Settled([o EXCEPT !.rv = n])
         IN  \/ new.ids = o.ids /\ new.fin = o.fin
             \/ new.ids = NoIds /\ ~new.fin /\ ~o.fin
<1> DEFINE w == [o EXCEPT !.rv = n]
<1>1. w.ids = o.ids /\ w.fin = o.fin
  BY DEF Objects
<1>2. [Absent EXCEPT !.rv = w.rv].ids = NoIds
      /\ [Absent EXCEPT !.rv = w.rv].fin = FALSE
  BY DEF Absent
<1> HIDE DEF w
<1>3. Settled(w) = w \/ (Settled(w) = [Absent EXCEPT !.rv = w.rv] /\ ~w.fin)
  BY DEF Settled
<1>4. \/ Settled(w).ids = o.ids /\ Settled(w).fin = o.fin
      \/ Settled(w).ids = NoIds /\ ~Settled(w).fin /\ ~o.fin
  BY <1>1, <1>2, <1>3
<1> QED
  BY <1>4 DEF w

LEMMA StoreBook ==
  ASSUME TypeInv, NEW o \in Objects, Store(o)
  PROVE  \/ Api' = Api
         \/ Api'.ids = o.ids /\ Api'.fin = o.fin
         \/ Api'.ids = NoIds /\ ~Api'.fin /\ ~o.fin
<1>1. Api.rv + 1 \in Nat
  BY VersionsType DEF TypeInv, Objects
<1>2. Api' = Api \/ Api' = Newer(o)
  BY StoreShape DEF TypeInv, Api
<1> QED
  BY <1>1, <1>2, NewerBook DEF Newer

(* A write that leaves ids and finalizer as the API server has them.       *)
BookLeftAlone ==
    \/ Api'.ids = Api.ids /\ Api'.fin = Api.fin
    \/ Api'.ids = NoIds /\ ~Api'.fin /\ ~Api.fin

LEMMA WorldBook ==
  ASSUME IInv, UserEdit \/ UserDelete \/ OtherReleases
  PROVE  BookLeftAlone
<1>1. Api \in Objects /\ TypeInv /\ (Api.fin => Api.exists)
  BY VersionsType, ApiSound DEF IInv, TypeInv, SoundIn
<1>2. ASSUME NEW o \in Objects, Store(o), o.ids = Api.ids, o.fin = Api.fin
      PROVE  BookLeftAlone
  BY <1>1, <1>2, StoreBook DEF BookLeftAlone
<1>3. CASE UserEdit
  <2>1. PICK p \in BOOLEAN, hs \in SUBSET Hosts, c \in Cfgs \cup {Invalid} :
           \/ /\ Api.exists
              /\ Store([Api EXCEPT !.optIn = p, !.hosts = hs, !.cfg = c])
           \/ ~Api.exists /\ Store(Created(p, hs, c))
    BY <1>3 DEF UserEdit
  <2> DEFINE e == [Api EXCEPT !.optIn = p, !.hosts = hs, !.cfg = c]
  <2>2. e \in Objects /\ e.ids = Api.ids /\ e.fin = Api.fin
    BY <1>1 DEF Objects
  <2>3. /\ Created(p, hs, c) \in Objects /\ Created(p, hs, c).ids = NoIds
        /\ ~Created(p, hs, c).fin
    BY CreatedType DEF Created, Absent
  <2>4. CASE Store(e)
    BY <1>2, <2>2, <2>4
  <2>5. CASE ~Api.exists /\ Store(Created(p, hs, c))
    BY <1>1, <2>3, <2>5, StoreBook DEF BookLeftAlone
  <2> QED
    BY <2>1, <2>4, <2>5
<1>4. CASE UserDelete
  <2> DEFINE e == [Api EXCEPT !.deleting = TRUE]
  <2>1. e \in Objects /\ e.ids = Api.ids /\ e.fin = Api.fin
    BY <1>1 DEF Objects
  <2> QED
    BY <1>2, <1>4, <2>1 DEF UserDelete
<1>5. CASE OtherReleases
  <2> DEFINE e == [Api EXCEPT !.other = FALSE]
  <2>1. e \in Objects /\ e.ids = Api.ids /\ e.fin = Api.fin
    BY <1>1 DEF Objects
  <2> QED
    BY <1>2, <1>5, <2>1 DEF OtherReleases
<1> QED
  BY <1>3, <1>4, <1>5

(* The deletion branch: the finalizer goes, over a clean Kuma.             *)
LEMMA ReleasedBook ==
  ASSUME IInv, pc = "unfinalize", copy.fin, Released
  PROVE  /\ Api.fin /\ AllGone(Api.ids)
         /\ \/ Api' = Api
            \/ ~Api'.fin /\ Api'.ids \in {Api.ids, NoIds}
<1>1. copy = Api /\ copy \in Objects /\ AllGone(copy.ids)
  BY DEF IInv, TypeInv, TypeOK, WorkerInv, Located, LatestOf, DeletionDone,
         AllGone, Released
<1> DEFINE o == [copy EXCEPT !.fin = FALSE]
<1>2. o \in Objects /\ o.ids = copy.ids /\ ~o.fin /\ Store(o)
  BY <1>1 DEF Objects, Released
<1> QED
  BY <1>1, <1>2, StoreBook DEF IInv

(* persistMonitorIDs: a new book under guard, or none for an opt-out.      *)
LEMMA PersistedBook ==
  ASSUME IInv, pc = "update", Persisted
  PROVE  \/ Api' = Api
         \/ Api'.ids = plan /\ Api'.fin /\ OwnedIn(kuma, plan) /\ plan \in IdMaps
         \/ Api'.ids = NoIds /\ ~Api'.fin
<1> DEFINE o == Recording(copy)
<1>1. o \in Objects /\ o.ids = plan /\ o.fin = (want # NoHash) /\ Store(o)
  BY DEF IInv, TypeInv, TypeOK, Objects, Recording, Persisted
<1>2. /\ OwnedIn(kuma, plan) /\ plan \in IdMaps
      /\ want = NoHash => plan = NoIds
  BY DEF IInv, TypeInv, TypeOK, WorkerInv, PlanVouched
<1> QED
  BY <1>1, <1>2, StoreBook DEF IInv

-----------------------------------------------------------------------------
(* What a call to Kuma means for the ids.                                  *)

Owner == [i \in Ids |-> kuma[i].host]

(* One id is made, one is lost, or neither.                                *)
IdsMove ==
    \/ /\ GoneIds' = GoneIds
       /\ \E i \in Ids, h \in Hosts :
             Owner[i] = Nobody /\ Owner' = [Owner EXCEPT ![i] = h]
    \/ /\ Owner' = Owner
       /\ \E i \in Ids : Owner[i] # Nobody /\ GoneIds' = GoneIds \cup {i}
    \/ Owner' = Owner /\ GoneIds' = GoneIds

LEMMA UpsertedIds ==
  ASSUME TypeInv, FreshIds, NEW h \in Hosts, NEW id \in Ids \cup {0},
         id # 0 => kuma[id].host = h, Upserted(h, id)
  PROVE  IdsMove
<1> DEFINE a == Answer(id)
           m == [st |-> "live", host |-> h, cfg |-> want.cfg]
<1>1. kuma \in [Ids -> Monitors] /\ nextId \in 1..MaxId + 1 /\ MaxId \in Nat
  BY BoundAssumption DEF TypeInv, TypeOK
<1>2. a \in Ids /\ kuma' = [kuma EXCEPT ![a] = m]
  BY <1>1 DEF Upserted, Answer, Ids
<1>3. /\ id = 0 => kuma[a] = Unborn
      /\ id # 0 => kuma[a].st = "live" /\ kuma[a].host = h
  BY <1>1, <1>2 DEF FreshIds, Answer, Upserted, Alive
<1>4. kuma[a].st # "gone" /\ kuma'[a] = m
  BY <1>1, <1>2, <1>3 DEF Unborn
<1>5. \A i \in Ids : i # a => kuma'[i] = kuma[i]
  BY <1>1, <1>2
<1>6. m.st = "live" /\ m.host = h
  OBVIOUS
<1> HIDE DEF a, m
<1>7. GoneIds' = GoneIds
  BY <1>2, <1>4, <1>5, <1>6 DEF GoneIds
<1>8. CASE id = 0
  <2>1. Owner[a] = Nobody
    BY <1>2, <1>3, <1>8 DEF Owner, Unborn
  <2>2. \A i \in Ids : kuma'[i].host = IF i = a THEN h ELSE kuma[i].host
    BY <1>4, <1>5, <1>6
  <2>3. Owner' = [Owner EXCEPT ![a] = h]
    BY <1>2, <2>2 DEF Owner
  <2> QED
    BY <1>2, <1>7, <2>1, <2>3 DEF IdsMove
<1>9. CASE id # 0
  <2>1. Owner' = Owner
    BY <1>3, <1>4, <1>5, <1>6, <1>9 DEF Owner
  <2> QED
    BY <1>7, <2>1 DEF IdsMove
<1> QED
  BY <1>8, <1>9

LEMMA RemovedIds ==
  ASSUME TypeInv, NEW id \in Ids, kuma[id].host \in Hosts, Removed(id)
  PROVE  IdsMove
<1>1. kuma \in [Ids -> Monitors]
  BY DEF TypeInv, TypeOK
<1>2. \A i \in Ids : i # id => kuma'[i] = kuma[i]
  BY <1>1 DEF Removed
<1>3. kuma'[id].host = kuma[id].host /\ kuma'[id].st = "gone"
  BY <1>1 DEF Removed, Monitors
<1>4. Owner' = Owner
  BY <1>2, <1>3 DEF Owner
<1>5. GoneIds' = GoneIds \cup {id}
  BY <1>2, <1>3 DEF GoneIds
<1>6. Owner[id] # Nobody
  BY SentinelAssumption DEF Owner
<1> QED
  BY <1>4, <1>5, <1>6 DEF IdsMove

LEMMA SameIds ==
  ASSUME UNCHANGED kuma
  PROVE  IdsMove
BY DEF IdsMove, Owner, GoneIds

(* A living monitor has a host, and what has one was created.              *)
Hosted ==
    \A i \in Ids : /\ kuma[i].st = "live" => kuma[i].host \in Hosts
                   /\ kuma[i].host \in Hosts => kuma[i].st # "unborn"

LEMMA KumaIds ==
  ASSUME IInv, Hosted, [Next]_vars
  PROVE  IdsMove
<1>1. TypeInv /\ FreshIds
  BY DEF IInv
<1>2. ASSUME NEW h \in Hosts, UpsertHost(h) \/ UpsertFails(h)
      PROVE  IdsMove
  <2>1. plan[h] \in Ids \cup {0} /\ (plan[h] # 0 => kuma[plan[h]].host = h)
    BY DEF IInv, TypeInv, TypeOK, IdMaps, WorkerInv, OwnedIn, Recorded
  <2>2. Upserted(h, plan[h]) \/ UNCHANGED kuma
    BY <1>2 DEF UpsertHost, UpsertFails
  <2> QED
    BY <1>1, <2>1, <2>2, UpsertedIds, SameIds
<1>3. ASSUME NEW h \in Hosts, DeleteHost(h) \/ DeleteFails(h)
      PROVE  IdsMove
  <2>1. UNCHANGED kuma \/ Removed(copy.ids[h])
    BY <1>3 DEF DeleteHost, DeleteFails
  <2>2. h \in Recorded(copy.ids) /\ copy.ids \in IdMaps
    BY <1>3
    DEF DeleteHost, DeleteFails, IInv, WorkerInv, Located, TypeInv, TypeOK,
        Objects
  <2>3. copy.ids[h] \in Ids /\ kuma[copy.ids[h]].host \in Hosts
    BY <2>2 DEF IInv, WorkerInv, SoundIn, OwnedIn, Recorded, IdMaps
  <2> QED
    BY <1>1, <2>1, <2>3, RemovedIds, SameIds
<1>4. ASSUME NEW id \in Ids, UiDelete(id) PROVE IdsMove
  BY <1>1, <1>4, RemovedIds DEF UiDelete, Alive, Hosted
<1>5. ASSUME NEW id \in Ids, UiEdit(id) PROVE IdsMove
  <2>1. kuma \in [Ids -> Monitors]
    BY <1>1 DEF TypeInv, TypeOK
  <2>2. \A i \in Ids : kuma'[i].host = kuma[i].host /\ kuma'[i].st = kuma[i].st
    BY <1>5, <2>1 DEF UiEdit, Monitors
  <2> QED
    BY <2>2 DEF IdsMove, Owner, GoneIds
<1>6. \/ \E h \in Hosts : \/ UpsertHost(h) \/ UpsertFails(h)
                         \/ DeleteHost(h) \/ DeleteFails(h)
      \/ \E id \in Ids : UiEdit(id) \/ UiDelete(id)
      \/ UNCHANGED kuma
  BY DEF Next, Reconcile, World, vars,
         ReconcileGone, ReconcileDeleting, ReconcileIgnored, ReconcileOptOut,
         ReconcileInvalid, ReconcileUnchanged, ReconcileChanged, ListMatches,
         ListDrifted, ListFails, RemoveFinalizer, RemoveFinalizerFails,
         PersistGet, PersistGetFails, PersistUpdate, PersistRetry,
         PersistFails, SyncTags, Deliver, UserEdit, UserDelete,
         OtherReleases, Crash
<1> QED
  BY <1>2, <1>3, <1>4, <1>5, <1>6, SameIds

LEMMA HostedStep ==
  ASSUME IInv, Hosted, [Next]_vars
  PROVE  Hosted'
<1>1. kuma \in [Ids -> Monitors] /\ nextId \in 1..MaxId + 1 /\ MaxId \in Nat
  BY BoundAssumption DEF IInv, TypeInv, TypeOK
<1>2. ASSUME NEW h \in Hosts, NEW id \in Ids \cup {0}, Upserted(h, id)
      PROVE  Hosted'
  <2> DEFINE a == Answer(id)
             m == [st |-> "live", host |-> h, cfg |-> want.cfg]
  <2>1. a \in Ids /\ kuma' = [kuma EXCEPT ![a] = m]
    BY <1>1, <1>2 DEF Upserted, Answer, Ids
  <2>2. m.host = h /\ m.st = "live"
    OBVIOUS
  <2> HIDE DEF a, m
  <2>3. \A i \in Ids : kuma'[i] = IF i = a THEN m ELSE kuma[i]
    BY <1>1, <2>1
  <2> QED
    BY <2>2, <2>3 DEF Hosted
<1>3. ASSUME NEW id \in Ids \cup {0}, Removed(id) PROVE Hosted'
  BY <1>1, <1>3 DEF Removed, Hosted, Monitors
<1>4. ASSUME NEW id \in Ids, UiEdit(id) PROVE Hosted'
  BY <1>1, <1>4 DEF UiEdit, Hosted, Monitors
<1>5. \A h \in Hosts : plan[h] \in Ids \cup {0} /\ copy.ids[h] \in Ids \cup {0}
  BY DEF IInv, TypeInv, TypeOK, Objects, IdMaps
<1>6. \/ \E h \in Hosts : Upserted(h, plan[h]) \/ Removed(copy.ids[h])
      \/ \E id \in Ids : Removed(id) \/ UiEdit(id)
      \/ UNCHANGED kuma
  BY DEF Next, Reconcile, World, vars,
         UpsertHost, UpsertFails, DeleteHost, DeleteFails, UiDelete,
         ReconcileGone, ReconcileDeleting, ReconcileIgnored, ReconcileOptOut,
         ReconcileInvalid, ReconcileUnchanged, ReconcileChanged, ListMatches,
         ListDrifted, ListFails, RemoveFinalizer, RemoveFinalizerFails,
         PersistGet, PersistGetFails, PersistUpdate, PersistRetry,
         PersistFails, SyncTags, Deliver, UserEdit, UserDelete,
         OtherReleases, Crash
<1>7. CASE UNCHANGED kuma
  BY <1>7 DEF Hosted
<1> QED
  BY <1>2, <1>3, <1>4, <1>5, <1>6, <1>7

-----------------------------------------------------------------------------
(* The refinement.                                                         *)

LEMMA LedgerInit == Init => Ledger!Init
<1> SUFFICES ASSUME Init PROVE Ledger!Init
  OBVIOUS
<1>1. PICK o \in BOOLEAN, hs \in SUBSET Hosts, c \in Cfgs :
         versions = <<Created(o, hs, c)>>
  BY DEF Init
<1>2. Api.ids = NoIds /\ Api.fin = FALSE
  BY <1>1 DEF Api, Created, Absent
<1>3. GoneIds = {} /\ \A i \in Ids : kuma[i].host = Nobody
  BY DEF Init, GoneIds, Unborn
<1> QED
  BY <1>2, <1>3 DEF Init, Ledger!Init, Ledger!Empty, NoIds

(* The object's ids and finalizer stay, while Kuma's ids may move.         *)
LEMMA LedgerKuma ==
  ASSUME IdsMove, Api'.ids = Api.ids, Api'.fin = Api.fin
  PROVE  Ledger!Next
<1>1. CASE /\ GoneIds' = GoneIds
           /\ \E i \in Ids, h \in Hosts :
                 Owner[i] = Nobody /\ Owner' = [Owner EXCEPT ![i] = h]
  BY <1>1 DEF Owner, Ledger!Next, Ledger!Make
<1>2. CASE /\ Owner' = Owner
           /\ \E i \in Ids : Owner[i] # Nobody /\ GoneIds' = GoneIds \cup {i}
  BY <1>2 DEF Owner, Ledger!Next, Ledger!Lose
<1>3. CASE Owner' = Owner /\ GoneIds' = GoneIds
  BY <1>3 DEF Owner, Ledger!Next, Ledger!Turn
<1> QED
  BY <1>1, <1>2, <1>3 DEF IdsMove

(* Kuma stays, while the object moves.                                     *)
LEMMA LedgerBook ==
  ASSUME UNCHANGED kuma,
         \/ Api' = Api
         \/ BookLeftAlone
         \/ Api'.ids \in IdMaps /\ OwnedIn(kuma, Api'.ids) /\ Api'.fin = TRUE
         \/ /\ pc = "unfinalize" /\ Api.fin /\ ~Api'.fin /\ AllGone(Api.ids)
            /\ Api'.ids \in {Api.ids, NoIds}
         \/ pc # "unfinalize" /\ Api'.ids = NoIds /\ ~Api'.fin,
         IInv, Api'.fin \in BOOLEAN
  PROVE  Ledger!Next
<1>1. Owner' = Owner /\ GoneIds' = GoneIds /\ NoIds = Ledger!Empty
  BY DEF Owner, GoneIds, NoIds, Ledger!Empty
<1>2. CASE Api'.ids = Api.ids /\ Api'.fin = Api.fin
  BY <1>1, <1>2, LedgerKuma DEF IdsMove
<1>3. CASE Api'.ids = NoIds /\ ~Api'.fin /\ ~Api.fin
  BY <1>1, <1>3 DEF Owner, Ledger!Next, Ledger!Vanish
<1>4. CASE Api'.ids \in IdMaps /\ OwnedIn(kuma, Api'.ids) /\ Api'.fin = TRUE
  <2>1. Api'.ids \in [Hosts -> Ids \cup {0}]
    BY <1>4 DEF IdMaps
  <2>2. \A h \in Hosts : Api'.ids[h] # 0 =>
           Api'.ids[h] \in Ids /\ Owner'[Api'.ids[h]] = h
    BY <1>1, <1>4, <2>1 DEF Owner, OwnedIn, Recorded
  <2> QED
    BY <1>1, <1>4, <2>1, <2>2
    DEF Owner, Ledger!Next, Ledger!Record, Ledger!Truthful, Ledger!Entries
<1>5. CASE /\ pc = "unfinalize" /\ Api.fin /\ ~Api'.fin /\ AllGone(Api.ids)
           /\ Api'.ids \in {Api.ids, NoIds}
  <2>1. \A h \in Hosts : Api.ids[h] # 0 => Api.ids[h] \in GoneIds
    <3>1. Api.ids \in [Hosts -> Ids \cup {0}]
      BY VersionsType DEF IInv, TypeInv, Objects, IdMaps
    <3> QED
      BY <1>5, <3>1 DEF AllGone, Recorded, GoneIds
  <2> QED
    BY <1>1, <1>5, <2>1
    DEF Owner, Ledger!Next, Ledger!Release, Ledger!AllGone, Ledger!Entries
<1>6. CASE pc # "unfinalize" /\ Api'.ids = NoIds /\ ~Api'.fin
  BY <1>1, <1>6 DEF Owner, Ledger!Next, Ledger!Dismiss
<1>7. Api' = Api => Api'.ids = Api.ids /\ Api'.fin = Api.fin
  OBVIOUS
<1> QED
  BY <1>2, <1>3, <1>4, <1>5, <1>6, <1>7 DEF BookLeftAlone

LEMMA LedgerStep ==
  ASSUME IInv, Hosted, [Next]_vars
  PROVE  Ledger!Next
<1>1. IdsMove /\ Api' \in Objects /\ Api'.fin \in BOOLEAN
  <2>1. Api' \in Objects
    BY TypeStep, VersionsType DEF IInv, TypeInv, TypeOK, Api
  <2> QED
    BY <2>1, KumaIds DEF Objects
<1>2. ASSUME Api' = Api PROVE Ledger!Next
  BY <1>1, <1>2, LedgerKuma
<1>3. CASE UserEdit \/ UserDelete \/ OtherReleases
  <2>1. UNCHANGED kuma
    BY <1>3 DEF UserEdit, UserDelete, OtherReleases
  <2> QED
    BY <1>1, <1>3, <2>1, WorldBook, LedgerBook
<1>4. CASE RemoveFinalizer \/ RemoveFinalizerFails
  <2>1. /\ pc = "unfinalize" /\ UNCHANGED kuma
        /\ versions' = versions \/ (copy.fin /\ Released)
    BY <1>4 DEF RemoveFinalizer, RemoveFinalizerFails
  <2>2. CASE versions' = versions
    BY <1>2, <2>2 DEF Api
  <2>3. CASE copy.fin /\ Released
    BY <1>1, <2>1, <2>3, ReleasedBook, LedgerBook
  <2> QED
    BY <2>1, <2>2, <2>3
<1>5. CASE PersistUpdate \/ PersistFails
  <2>1. /\ pc = "update" /\ UNCHANGED kuma
        /\ versions' = versions \/ Persisted
    BY <1>5 DEF PersistUpdate, PersistFails
  <2>2. CASE versions' = versions
    BY <1>2, <2>2 DEF Api
  <2>3. CASE Persisted
    BY <1>1, <2>1, <2>3, PersistedBook, LedgerBook
  <2> QED
    BY <2>1, <2>2, <2>3
<1>6. CASE Deliver
  BY <1>2, <1>6, TailShape DEF Deliver, IInv, TypeInv
<1>7. CASE Crash
  BY <1>2, <1>7 DEF Crash, Api
<1>8. CASE versions' = versions
  BY <1>2, <1>8 DEF Api
<1>9. \/ versions' = versions \/ Deliver \/ Crash \/ UserEdit \/ UserDelete
      \/ OtherReleases \/ RemoveFinalizer \/ RemoveFinalizerFails
      \/ PersistUpdate \/ PersistFails
  BY DEF Next, Reconcile, World, vars,
         ReconcileGone, ReconcileDeleting, ReconcileIgnored, ReconcileOptOut,
         ReconcileInvalid, ReconcileUnchanged, ReconcileChanged, ListMatches,
         ListDrifted, ListFails, UpsertHost, UpsertFails, DeleteHost,
         DeleteFails, PersistGet, PersistGetFails, PersistRetry, SyncTags,
         UiEdit, UiDelete
<1> QED
  BY <1>3, <1>4, <1>5, <1>6, <1>7, <1>8, <1>9

(* The host-based reconciler keeps the ledger: each of its steps, with its *)
(* faults, crashes and stale reads, and each of the users', of Kuma's UI   *)
(* and of the cache, is one of the ledger's or leaves it alone             *)
(* (reconcileHostBasedResource, syncMonitors, persistMonitorIDs).          *)
THEOREM LedgerKept == Spec => KeepsLedger
<1>1. Init => Hosted
  BY SentinelAssumption DEF Init, Hosted, Unborn
<1>2. Init => Ledger!Init
  BY LedgerInit
<1>3. IInv /\ Hosted /\ [Next]_vars => Hosted' /\ [Ledger!Next]_(Ledger!vars)
  BY HostedStep, LedgerStep
<1> QED
  BY <1>1, <1>2, <1>3, Inductive, PTL DEF Spec, KeepsLedger, Ledger!Spec

-----------------------------------------------------------------------------
(* One monitor each.  The cache may not trail behind and users may not     *)
(* edit the object as often as a write is attempted: with either, a        *)
(* reconcile plans on an old annotation or gives up its write, and the     *)
(* monitors it made are on no record.                                      *)
Paced == MaxLag = 0 /\ \A b \in Budgets : b["edit"] < RetrySteps

(* The edits users have left.                                              *)
Edits == outside.may["edit"]

(* While nobody does anything but edit, the object stays, a conflict       *)
(* always finds an attempt left, and the cache is up to date.              *)
Undisturbed ==
    /\ Len(versions) = 1
    /\ Api.exists /\ ~Api.deleting /\ ~copy.deleting
    /\ Edits + tries < RetrySteps
    /\ pc = "update" /\ Conflict => Edits + tries + 1 < RetrySteps

(* The monitor of each host: the one planned for it, unless it is still to *)
(* be dropped or no reconcile has a plan, when it is the one on record.    *)
Planning == pc \in {"upsert", "delete", "get", "update"}
Mine == [h \in Hosts |-> IF Planning /\ h \notin drop THEN plan[h]
                                                      ELSE Api.ids[h]]

(* Of Kuma's monitors k, those of the map m live and no others do.         *)
Exact(k, m) ==
    /\ \A h \in Recorded(m) : k[m[h]].st = "live"
    /\ \A i \in Ids : k[i].st = "live" => \E h \in Hosts : m[h] = i

(* A reconcile deletes what is on record, and only what it has not planned *)
(* to keep.                                                                *)
Apart ==
    /\ pc \in {"list", "upsert", "delete"} => copy.ids = Api.ids
    /\ pc \in {"get", "update"} => drop = {}
    /\ pc \in {"upsert", "delete"} =>
          \A h \in drop : plan[h] = 0 /\ h \notin todo

Held == Apart /\ Exact(kuma, Mine)

OneEach == OnlyEdits => Undisturbed /\ Held

LEMMA SpendEdits ==
  ASSUME TypeOK, NEW kind \in Events, Spend(kind)
  PROVE  /\ Edits \in Nat /\ Edits' \in Nat /\ Edits' <= Edits
         /\ kind = "edit" => Edits' + 1 <= Edits
         /\ OnlyEdits' => OnlyEdits /\ kind \in {"edit", "uiEdit"}
<1> DEFINE m == outside.may
<1>1. /\ outside \in Outside /\ m \in [Events -> Nat] /\ m[kind] > 0
      /\ "edit" \in Events
  BY DEF TypeOK, Outside, Spend, Events
<1>2. /\ outside'.may = [m EXCEPT ![kind] = @ - 1]
      /\ outside'.did = outside.did \cup {kind}
  BY <1>1 DEF Spend, Outside
<1> HIDE DEF m
<1>3. /\ m["edit"] \in Nat /\ m[kind] \in Nat
      /\ outside'.may["edit"] = IF kind = "edit" THEN m[kind] - 1 ELSE m["edit"]
  BY <1>1, <1>2
<1>4. Edits = m["edit"] /\ Edits' = outside'.may["edit"]
  BY DEF Edits, m
<1>5. OnlyEdits' => OnlyEdits /\ kind \in {"edit", "uiEdit"}
  BY <1>2 DEF OnlyEdits
<1> QED
  BY <1>1, <1>3, <1>4, <1>5

(* Every step spends at most one outside event.                            *)
LEMMA StepSpends ==
  ASSUME [Next]_vars
  PROVE  outside' = outside \/ \E kind \in Events : Spend(kind)
BY DEF Events, Next, Reconcile, World, vars,
       ReconcileGone, ReconcileDeleting, ReconcileIgnored, ReconcileOptOut,
       ReconcileInvalid, ReconcileUnchanged, ReconcileChanged, ListMatches,
       ListDrifted, ListFails, UpsertHost, UpsertFails, DeleteHost,
       DeleteFails, RemoveFinalizer, RemoveFinalizerFails, PersistGet,
       PersistGetFails, PersistUpdate, PersistRetry, PersistFails, SyncTags,
       Deliver, UserEdit, UserDelete, OtherReleases, UiEdit, UiDelete, Crash

LEMMA EditsStep ==
  ASSUME TypeOK, [Next]_vars
  PROVE  /\ Edits \in Nat /\ Edits' \in Nat /\ Edits' <= Edits
         /\ OnlyEdits' => OnlyEdits
<1>1. CASE outside' = outside
  <2>1. outside.may["edit"] \in Nat
    BY DEF TypeOK, Outside, Events
  <2> QED
    BY <1>1, <2>1 DEF Edits, OnlyEdits
<1> QED
  BY <1>1, StepSpends, SpendEdits

LEMMA NoFaults ==
  ASSUME TypeOK, OnlyEdits'
  PROVE  /\ ~Spend("kuma") /\ ~Spend("api") /\ ~Spend("crash")
         /\ ~Spend("delete") /\ ~Spend("uiDelete")
BY SpendEdits DEF Events

(* With fewer edits left, or after one more attempt.                       *)
LEMMA FewerLeft ==
  ASSUME NEW a \in Nat, NEW b \in Nat, NEW t \in Nat, NEW r \in Nat, b <= a
  PROVE  /\ a + t < r => b + t < r /\ b + 0 < r
         /\ a + t + 1 < r => b + t + 1 < r /\ b + (t + 1) < r
         /\ a + t < r /\ b + 1 <= a => b + t + 1 < r
OBVIOUS

LEMMA ReplacedOne ==
  ASSUME NEW S, NEW s \in Seq(S), Len(s) = 1, NEW n \in S
  PROVE  Len(Append(Tail(s), n)) = 1 /\ Append(Tail(s), n)[1] = n
<1> DEFINE t == Tail(s)
<1>1. t \in Seq(S) /\ Len(t) = 0
  OBVIOUS
<1> HIDE DEF t
<1>2. Append(t, n)[Len(t) + 1] = n /\ Len(Append(t, n)) = Len(t) + 1
  BY <1>1
<1>3. Len(Append(t, n)) = 1 /\ Append(t, n)[1] = n
  BY <1>1, <1>2
<1> QED
  BY <1>3 DEF t

(* A write of an object that stays is the one version there is.            *)
LEMMA StoreStays ==
  ASSUME TypeInv, Paced, Len(versions) = 1, NEW o \in Objects, Store(o),
         o.exists, ~o.deleting
  PROVE  /\ Len(versions') = 1 /\ Api'.exists /\ ~Api'.deleting
         /\ Api'.ids = o.ids /\ Api'.fin = o.fin
<1>1. versions \in Seq(Objects)
  BY DEF TypeInv, TypeOK
<1>2. ASSUME NEW n \in Objects, versions' = Append(Tail(versions), n)
      PROVE  Len(versions') = 1 /\ Api' = n
  <2>1. Len(versions') = 1 /\ versions'[1] = n
    BY <1>1, <1>2, ReplacedOne
  <2> QED
    BY <2>1 DEF Api
<1>3. CASE o = Api
  BY <1>3 DEF Store, Api
<1>4. CASE o # Api
  <2> DEFINE w == [o EXCEPT !.rv = Api.rv + 1]
  <2>1. /\ w.ids = o.ids /\ w.fin = o.fin
        /\ w.exists = o.exists /\ w.deleting = o.deleting
    BY DEF Objects
  <2>2. Newer(o) = w
    BY <2>1 DEF Newer, Settled
  <2>3. versions' = Append(Tail(versions), Newer(o))
    BY <1>4, BoundAssumption DEF Store, Newer, Paced
  <2>4. Len(versions') = 1 /\ Api' = Newer(o)
    BY <1>2, <2>3, NewerType DEF TypeInv
  <2> HIDE DEF w
  <2> QED
    BY <2>1, <2>2, <2>4
<1> QED
  BY <1>3, <1>4

(* What a user's edit and the reconcile's write make of the object.        *)
LEMMA EditStays ==
  ASSUME IInv, Paced, Undisturbed, UserEdit
  PROVE  /\ Len(versions') = 1 /\ Api'.exists /\ ~Api'.deleting
         /\ Api'.ids = Api.ids /\ Api'.fin = Api.fin
<1>1. PICK p \in BOOLEAN, hs \in SUBSET Hosts, c \in Cfgs \cup {Invalid} :
         Store([Api EXCEPT !.optIn = p, !.hosts = hs, !.cfg = c])
  BY DEF UserEdit, Undisturbed
<1> DEFINE e == [Api EXCEPT !.optIn = p, !.hosts = hs, !.cfg = c]
<1>2. Api \in Objects
  BY VersionsType DEF IInv, TypeInv
<1>3. /\ e \in Objects /\ e.ids = Api.ids /\ e.fin = Api.fin
      /\ e.exists = Api.exists /\ e.deleting = Api.deleting
  BY <1>2 DEF Objects
<1>4. Store(e)
  BY <1>1
<1> HIDE DEF e
<1> QED
  BY <1>3, <1>4, StoreStays DEF Undisturbed, IInv

LEMMA PersistedStays ==
  ASSUME IInv, Paced, Undisturbed, pc = "update", Persisted
  PROVE  /\ Len(versions') = 1 /\ Api'.exists /\ ~Api'.deleting
         /\ Api'.ids = plan /\ Api'.fin = (want # NoHash)
<1> DEFINE o == Recording(copy)
<1>1. copy \in Objects /\ copy.exists
  BY DEF IInv, TypeInv, TypeOK, WorkerInv, Located
<1>2. o \in Objects /\ o.exists = copy.exists /\ o.deleting = copy.deleting
      /\ o.ids = plan /\ o.fin = (want # NoHash)
  BY <1>1 DEF IInv, TypeInv, TypeOK, Objects, Recording
<1>3. Store(o)
  BY DEF Persisted
<1> HIDE DEF o
<1> QED
  BY <1>1, <1>2, <1>3, StoreStays DEF Undisturbed, IInv

(* Nothing else writes it, unless something is deleted or fails.           *)
LEMMA Writers ==
  ASSUME IInv, Undisturbed, [Next]_vars,
         ~Spend("delete"), ~Spend("crash")
  PROVE  \/ versions' = versions \/ UserEdit
         \/ pc = "update" /\ Persisted
<1>1. Len(versions) = 1 /\ ~Api.deleting /\ ~copy.deleting
  BY DEF Undisturbed
<1>2. ~Deliver
  BY <1>1 DEF Deliver
<1>4. ~OtherReleases
  BY <1>1 DEF OtherReleases
<1>3. pc # "unfinalize"
  BY <1>1 DEF IInv, WorkerInv, Located
<1> QED
  BY <1>2, <1>3, <1>4
  DEF Next, Reconcile, World, vars,
      ReconcileGone, ReconcileDeleting, ReconcileIgnored, ReconcileOptOut,
      ReconcileInvalid, ReconcileUnchanged, ReconcileChanged, ListMatches,
      ListDrifted, ListFails, UpsertHost, UpsertFails, DeleteHost,
      DeleteFails, RemoveFinalizer, RemoveFinalizerFails, PersistGet,
      PersistGetFails, PersistUpdate, PersistRetry, PersistFails, SyncTags,
      UserDelete, UiEdit, UiDelete, Crash

LEMMA Stays ==
  ASSUME IInv, Paced, Undisturbed, [Next]_vars, OnlyEdits'
  PROVE  Len(versions') = 1 /\ Api'.exists /\ ~Api'.deleting
<1>1. \/ versions' = versions \/ UserEdit \/ (pc = "update" /\ Persisted)
  BY NoFaults, Writers DEF IInv, TypeInv
<1>2. CASE versions' = versions
  BY <1>2 DEF Undisturbed, Api
<1> QED
  BY <1>1, <1>2, EditStays, PersistedStays

LEMMA UndisturbedStep ==
  ASSUME IInv, Paced, Undisturbed, OnlyEdits', [Next]_vars
  PROVE  Undisturbed'
<1>1. /\ Len(versions) = 1 /\ Cache = Api
      /\ ~Api.deleting /\ ~copy.deleting
      /\ Len(versions') = 1 /\ Api'.exists /\ ~Api'.deleting
  BY Stays DEF Undisturbed, Cache, Api
<1>2. /\ TypeOK /\ tries \in Nat /\ RetrySteps \in Nat
      /\ Edits \in Nat /\ Edits' \in Nat /\ Edits' <= Edits
  BY EditsStep, BoundAssumption DEF IInv, TypeInv, TypeOK
<1>3. /\ Edits + tries < RetrySteps
      /\ pc = "update" /\ Conflict => Edits + tries + 1 < RetrySteps
  BY DEF Undisturbed
<1>4. /\ Edits' + tries < RetrySteps /\ Edits' + 0 < RetrySteps
      /\ pc = "update" /\ Conflict =>
            Edits' + tries + 1 < RetrySteps /\ Edits' + (tries + 1) < RetrySteps
      /\ Edits' + 1 <= Edits => Edits' + tries + 1 < RetrySteps
  BY <1>2, <1>3, FewerLeft
<1>5. CASE Forget
  <2>1. pc' = "idle" /\ tries' = 0 /\ ~copy'.deleting
    BY <1>5 DEF Forget, Absent
  <2> QED
    BY <1>1, <1>4, <2>1 DEF Undisturbed
<1>6. CASE pc' # "update" /\ tries' \in {0, tries} /\ copy' \in {copy, Cache}
  BY <1>1, <1>4, <1>6 DEF Undisturbed
<1>7. CASE PersistRetry
  <2>1. /\ pc = "update" /\ Conflict /\ pc' = "get" /\ tries' = tries + 1
        /\ copy' = copy
    BY <1>7 DEF PersistRetry
  <2> QED
    BY <1>1, <1>4, <2>1 DEF Undisturbed
<1>8. CASE PersistGet
  <2>1. copy' = Api' /\ tries' = tries
    BY <1>1, <1>8 DEF PersistGet, Api
  <2>2. ~Conflict'
    BY <2>1 DEF Conflict
  <2> QED
    BY <1>1, <1>4, <2>1, <2>2 DEF Undisturbed
<1>9. CASE UNCHANGED worker /\ versions' = versions
  <2>1. /\ pc' = pc /\ tries' = tries /\ copy' = copy
        /\ (Conflict' <=> Conflict)
    BY <1>9 DEF worker, Conflict, Api
  <2> QED
    BY <1>1, <1>4, <2>1 DEF Undisturbed
<1>10. CASE UserEdit
  <2>1. Edits' + 1 <= Edits
    BY <1>2, <1>10, SpendEdits DEF UserEdit, Events
  <2>2. tries' = tries /\ copy' = copy
    BY <1>10 DEF UserEdit, worker
  <2> QED
    BY <1>1, <1>4, <2>1, <2>2 DEF Undisturbed
<1>11. \/ Forget \/ PersistRetry \/ PersistGet \/ UserEdit
       \/ UNCHANGED worker /\ versions' = versions
       \/ pc' # "update" /\ tries' \in {0, tries} /\ copy' \in {copy, Cache}
  <2>1. ~Deliver /\ ~Spend("delete")
    BY <1>1, <1>2, NoFaults DEF Deliver
  <2>2. ~OtherReleases
    BY <1>1 DEF OtherReleases
  <2>3. \A o, td, dr : Stage(o, td, dr) # "update"
    BY DEF Stage
  <2> QED
    BY <2>1, <2>2, <2>3
    DEF Next, Reconcile, World, vars, worker, Return, Begin,
        ReconcileGone, ReconcileDeleting, ReconcileIgnored, ReconcileOptOut,
        ReconcileInvalid, ReconcileUnchanged, ReconcileChanged, ListMatches,
        ListDrifted, ListFails, UpsertHost, UpsertFails, DeleteHost,
        DeleteFails, RemoveFinalizer, RemoveFinalizerFails,
        PersistGetFails, PersistUpdate, PersistFails, SyncTags,
        UserDelete, UiEdit, UiDelete, Crash
<1> QED
  BY <1>5, <1>6, <1>7, <1>8, <1>9, <1>10, <1>11

-----------------------------------------------------------------------------
(* What a call to Kuma means for the monitors the hosts have.              *)

LEMMA ExactSame ==
  ASSUME NEW k, NEW l, NEW m \in IdMaps, Exact(k, m),
         \A i \in Ids : l[i].st = k[i].st
  PROVE  Exact(l, m)
BY DEF Exact, Recorded, IdMaps

LEMMA ExactCreates ==
  ASSUME NEW k, NEW l, NEW m \in IdMaps, Exact(k, m), NEW h \in Hosts,
         m[h] = 0, NEW a \in Ids, k[a].st # "live", l[a].st = "live",
         \A i \in Ids : i # a => l[i] = k[i]
  PROVE  Exact(l, [m EXCEPT ![h] = a])
<1> DEFINE n == [m EXCEPT ![h] = a]
<1>1. \A g \in Hosts : n[g] = IF g = h THEN a ELSE m[g]
  BY DEF IdMaps
<1>2. \A g \in Hosts : m[g] \in Ids \cup {0}
  BY DEF IdMaps
<1> HIDE DEF n
<1>3. ASSUME NEW g \in Recorded(n) PROVE l[n[g]].st = "live"
  BY <1>1, <1>2 DEF Exact, Recorded
<1>4. ASSUME NEW i \in Ids, l[i].st = "live"
      PROVE  \E g \in Hosts : n[g] = i
  <2>1. CASE i = a
    BY <1>1, <2>1
  <2>2. CASE i # a
    <3>1. PICK g \in Hosts : m[g] = i
      BY <1>4, <2>2 DEF Exact
    <3>2. 0 \notin Ids
      BY BoundAssumption DEF Ids
    <3> QED
      BY <1>1, <3>1, <3>2
  <2> QED
    BY <2>1, <2>2
<1>5. Exact(l, n)
  BY <1>3, <1>4 DEF Exact
<1> QED
  BY <1>5 DEF n

LEMMA ExactDrops ==
  ASSUME NEW k, NEW l, NEW m \in IdMaps, Exact(k, m), OwnedIn(k, m),
         NEW h \in Recorded(m), l[m[h]].st # "live",
         \A i \in Ids : i # m[h] => l[i] = k[i]
  PROVE  Exact(l, [m EXCEPT ![h] = 0])
<1> DEFINE n == [m EXCEPT ![h] = 0]
<1>1. \A g \in Hosts : n[g] = IF g = h THEN 0 ELSE m[g]
  BY DEF IdMaps
<1>2. \A g \in Hosts : m[g] \in Ids \cup {0}
  BY DEF IdMaps
<1> HIDE DEF n
<1>3. ASSUME NEW g \in Recorded(n) PROVE l[n[g]].st = "live"
  <2>1. g # h /\ g \in Recorded(m) /\ n[g] = m[g] /\ m[g] \in Ids
    BY <1>1, <1>2 DEF Recorded
  <2>2. m[g] # m[h]
    BY <2>1 DEF OwnedIn
  <2> QED
    BY <2>1, <2>2 DEF Exact
<1>4. ASSUME NEW i \in Ids, l[i].st = "live"
      PROVE  \E g \in Hosts : n[g] = i
  <2>1. i # m[h] /\ k[i].st = "live"
    BY <1>4
  <2>2. PICK g \in Hosts : m[g] = i
    BY <2>1 DEF Exact
  <2> QED
    BY <1>1, <2>1, <2>2
<1>5. Exact(l, n)
  BY <1>3, <1>4 DEF Exact
<1> QED
  BY <1>5 DEF n

LEMMA MineType ==
  ASSUME IInv
  PROVE  Mine \in IdMaps /\ OwnedIn(kuma, Mine)
<1>1. Api.ids \in IdMaps /\ OwnedIn(kuma, Api.ids)
  BY VersionsType, ApiSound DEF IInv, TypeInv, SoundIn, Objects
<1>2. plan \in IdMaps /\ OwnedIn(kuma, plan)
  BY DEF IInv, TypeInv, TypeOK, WorkerInv
<1>3. \A h \in Hosts : Mine[h] = plan[h] \/ Mine[h] = Api.ids[h]
  BY DEF Mine
<1>4. Mine \in IdMaps
  BY <1>1, <1>2 DEF Mine, IdMaps
<1> QED
  BY <1>1, <1>2, <1>3, <1>4 DEF OwnedIn, Recorded

(* While no reconcile plans, the hosts have what is on record; once it has *)
(* deleted all there is to delete, what it has planned.                    *)
LEMMA MineCases ==
  ASSUME IInv
  PROVE  /\ ~Planning => Mine = Api.ids
         /\ Planning /\ drop = {} => Mine = plan
<1>1. Api.ids \in IdMaps /\ plan \in IdMaps
  BY VersionsType DEF IInv, TypeInv, TypeOK, Objects
<1>2. Api.ids = [h \in Hosts |-> Api.ids[h]] /\ plan = [h \in Hosts |-> plan[h]]
  BY <1>1 DEF IdMaps
<1> QED
  BY <1>2 DEF Mine

LEMMA MineNext ==
  ASSUME IInv, [Next]_vars
  PROVE  /\ ~Planning' => Mine' = Api'.ids
         /\ Planning' /\ drop' = {} => Mine' = plan'
<1>1. Api'.ids \in IdMaps /\ plan' \in IdMaps
  <2>1. TypeOK'
    BY TypeStep DEF IInv, TypeInv
  <2>2. Api' \in Objects
    BY <2>1 DEF TypeOK, Api
  <2> QED
    BY <2>1, <2>2 DEF TypeOK, Objects
<1>2. /\ Api'.ids = [h \in Hosts |-> Api'.ids[h]]
      /\ plan' = [h \in Hosts |-> plan'[h]]
  BY <1>1 DEF IdMaps
<1> QED
  BY <1>2 DEF Mine

(* Where nothing is planned and nothing changes in Kuma.                   *)
LEMMA HeldRests ==
  ASSUME IInv, [Next]_vars, Held, Mine = Api'.ids,
         \A i \in Ids : kuma'[i].st = kuma[i].st,
         pc' \in {"idle", "tags"} \/ (pc' = "list" /\ copy'.ids = Api'.ids)
  PROVE  Held'
<1>1. ~Planning' /\ Mine' = Mine
  BY MineNext DEF Planning
<1>2. Exact(kuma', Mine')
  BY <1>1, MineType, ExactSame DEF Held
<1>3. Apart'
  BY DEF Apart
<1> QED
  BY <1>2, <1>3 DEF Held

(* A plan that keeps what is on record, save what it is to drop.           *)
LEMMA HeldBegins ==
  ASSUME IInv, Held, ~Planning,
         NEW o \in Objects, NEW hash, NEW ids \in IdMaps,
         NEW td, NEW dr, o.ids = Api.ids, ~o.deleting,
         Begin(o, hash, ids, td, dr), UNCHANGED <<versions, kuma>>,
         \A h \in Hosts : h \notin dr => ids[h] = Api.ids[h],
         \A h \in dr : ids[h] = 0 /\ h \notin td
  PROVE  Held'
<1>1. /\ copy' = o /\ plan' = ids /\ todo' = td /\ drop' = dr
      /\ pc' \in {"upsert", "delete", "get"}
      /\ pc' = "get" => dr = {}
  BY DEF Begin, Stage
<1>2. Planning' /\ Api' = Api
  BY <1>1 DEF Planning, Api
<1>3. Mine' = [h \in Hosts |-> IF h \notin dr THEN ids[h] ELSE Api.ids[h]]
  BY <1>1, <1>2 DEF Mine
<1>4. Mine = [h \in Hosts |-> Api.ids[h]]
  BY DEF Mine
<1>5. Mine' = Mine
  BY <1>3, <1>4
<1>6. Exact(kuma', Mine')
  BY <1>5 DEF Held
<1>7. Apart'
  BY <1>1, <1>2 DEF Apart
<1> QED
  BY <1>6, <1>7 DEF Held

LEMMA HeldStarts ==
  ASSUME IInv, [Next]_vars, Undisturbed, Held,
         ReconcileOptOut \/ ReconcileUnchanged \/ ReconcileChanged
  PROVE  Held'
<1>1. /\ Cache = Api /\ ~Planning /\ Api \in Objects /\ ~Api.deleting
      /\ UNCHANGED <<versions, kuma>> /\ Api' = Api /\ Api.ids \in IdMaps
  <2>1. Cache = Api
    BY DEF Undisturbed, Cache, Api
  <2>2. Api \in Objects
    BY VersionsType DEF IInv, TypeInv
  <2>3. pc = "idle" /\ UNCHANGED <<versions, kuma>>
    BY DEF ReconcileOptOut, ReconcileUnchanged, ReconcileChanged, Take
  <2> QED
    BY <2>1, <2>2, <2>3 DEF Planning, Undisturbed, Api, Objects
<1>2. CASE ReconcileOptOut
  <2>1. Begin(Api, NoHash, NoIds, {}, Recorded(Api.ids))
    BY <1>1, <1>2 DEF ReconcileOptOut
  <2>2. /\ \A h \in Hosts : h \notin Recorded(Api.ids) => NoIds[h] = Api.ids[h]
        /\ \A h \in Recorded(Api.ids) : NoIds[h] = 0 /\ h \notin {}
    BY DEF Recorded, NoIds
  <2> QED
    BY <1>1, <2>1, <2>2, AbsentType, HeldBegins
<1>3. CASE ReconcileUnchanged
  <2>1. pc' = "list" /\ copy' = Api
    BY <1>1, <1>3 DEF ReconcileUnchanged
  <2>2. Mine = Api'.ids
    BY <1>1, MineCases
  <2> QED
    BY <1>1, <2>1, <2>2, HeldRests
<1>4. CASE ReconcileChanged
  <2> DEFINE dr == Recorded(Api.ids) \ Api.hosts
  <2>1. Begin(Api, Desired(Api), SyncPlan(Api), Api.hosts, dr)
    BY <1>1, <1>4 DEF ReconcileChanged
  <2>2. \A h \in Hosts : h \notin dr => SyncPlan(Api)[h] = Api.ids[h]
    BY DEF SyncPlan, Recorded
  <2>3. \A h \in dr : SyncPlan(Api)[h] = 0 /\ h \notin Api.hosts
    BY DEF SyncPlan, Recorded
  <2>4. SyncPlan(Api) \in IdMaps
    BY <1>1, PlanTypes
  <2> HIDE DEF dr
  <2> QED
    BY <1>1, <2>1, <2>2, <2>3, <2>4, HeldBegins
<1> QED
  BY <1>2, <1>3, <1>4

(* Everything on record lives, so the drift check finds nothing to make    *)
(* anew.                                                                   *)
LEMMA HeldLists ==
  ASSUME IInv, [Next]_vars, Undisturbed, Held, ListMatches \/ ListDrifted
  PROVE  Held'
<1>1. /\ pc = "list" /\ ~Planning /\ copy.ids = Api.ids /\ ~copy.deleting
      /\ UNCHANGED <<versions, kuma>> /\ Api' = Api
      /\ copy \in Objects /\ Api.ids \in IdMaps
  <2>1. pc = "list" /\ UNCHANGED <<versions, kuma>>
    BY DEF ListMatches, ListDrifted
  <2>2. copy \in Objects
    BY DEF IInv, TypeInv, TypeOK
  <2>3. copy.ids = Api.ids
    BY <2>1 DEF Held, Apart
  <2>4. ~copy.deleting
    BY DEF Undisturbed
  <2> QED
    BY <2>1, <2>2, <2>3, <2>4 DEF Planning, Api, Objects
<1>2. Mine = Api.ids
  BY <1>1, MineCases
<1>3. CASE ListMatches
  <2>1. pc' = "tags"
    BY <1>3 DEF ListMatches
  <2> QED
    BY <1>1, <1>2, <2>1, HeldRests
<1>4. CASE ListDrifted
  <2> DEFINE ids == DriftPlan(copy.ids, want)
             td == Drifted(copy.ids, want)
  <2>1. Begin(copy, want, ids, td, {})
    BY <1>4 DEF ListDrifted
  <2>2. \A h \in Hosts : ids[h] = Api.ids[h]
    <3>1. \A h \in Recorded(Api.ids) : Alive(Api.ids[h])
      BY <1>2 DEF Held, Exact, Alive, Recorded
    <3>2. \A h \in Drifted(copy.ids, want) : Alive(copy.ids[h])
      BY <1>1, <3>1 DEF Drifted
    <3> QED
      BY <1>1, <3>2 DEF DriftPlan
  <2>3. ids \in IdMaps
    BY <1>1, PlanTypes
  <2> HIDE DEF ids, td
  <2> QED
    BY <1>1, <2>1, <2>2, <2>3, HeldBegins
<1> QED
  BY <1>3, <1>4

LEMMA HeldUpserts ==
  ASSUME IInv, [Next]_vars, Undisturbed, Held, NEW h \in Hosts, UpsertHost(h)
  PROVE  Held'
<1> DEFINE a == Answer(plan[h])
<1>1. /\ pc = "upsert" /\ h \in todo /\ h \notin drop /\ copy.ids = Api.ids
      /\ \A g \in drop : plan[g] = 0 /\ g \notin todo
  BY DEF UpsertHost, Held, Apart
<1>2. /\ plan' = [plan EXCEPT ![h] = a] /\ todo' = todo \ {h}
      /\ drop' = drop /\ copy' = copy /\ Api' = Api
      /\ Upserted(h, plan[h])
  BY DEF UpsertHost, Api
<1>3. /\ pc' \in {"upsert", "delete", "get"} /\ (pc' = "get" => drop = {})
  BY DEF UpsertHost, Stage, Undisturbed
<1>4. /\ plan \in IdMaps /\ plan[h] \in Ids \cup {0} /\ 0 \notin Ids
      /\ kuma \in [Ids -> Monitors] /\ Mine \in IdMaps
      /\ nextId \in 1..MaxId + 1 /\ MaxId \in Nat
  BY MineType, BoundAssumption DEF IInv, TypeInv, TypeOK, IdMaps, Ids
<1>5. /\ a \in Ids /\ kuma'[a].st = "live"
      /\ \A i \in Ids : i # a => kuma'[i] = kuma[i]
      /\ plan[h] # 0 => a = plan[h] /\ kuma[a].st = "live"
      /\ plan[h] = 0 => kuma[a].st # "live"
  <2>1. a \in Ids
    BY <1>2, <1>4 DEF Answer, Upserted, Ids
  <2>2. kuma' = [kuma EXCEPT ![a] =
                   [st |-> "live", host |-> h, cfg |-> want.cfg]]
    BY <1>2 DEF Answer, Upserted
  <2>3. plan[h] # 0 => a = plan[h] /\ kuma[a].st = "live"
    BY <1>2 DEF Answer, Upserted, Alive
  <2>4. plan[h] = 0 => kuma[a].st # "live"
    BY <1>4, <2>1 DEF Answer, IInv, FreshIds, Unborn
  <2> HIDE DEF a
  <2> QED
    BY <1>4, <2>1, <2>2, <2>3, <2>4
<1> HIDE DEF a
<1>6. \A g \in Hosts : plan'[g] = IF g = h THEN a ELSE plan[g]
  BY <1>2, <1>4 DEF IdMaps
<1>7. Planning /\ Planning'
  BY <1>1, <1>3 DEF Planning
<1>8. Mine[h] = plan[h] /\ Mine' = [Mine EXCEPT ![h] = a]
  <2>1. \A g \in Hosts : /\ Mine[g] = IF g \notin drop THEN plan[g]
                                                      ELSE Api.ids[g]
                         /\ Mine'[g] = IF g \notin drop THEN plan'[g]
                                                       ELSE Api.ids[g]
    BY <1>2, <1>7 DEF Mine
  <2>2. Mine' = [g \in Hosts |-> Mine'[g]]
    BY DEF Mine
  <2>3. [Mine EXCEPT ![h] = a] = [g \in Hosts |-> IF g = h THEN a ELSE Mine[g]]
    BY <1>4 DEF IdMaps
  <2>4. \A g \in Hosts : Mine'[g] = IF g = h THEN a ELSE Mine[g]
    BY <1>1, <1>6, <2>1
  <2> QED
    BY <1>1, <2>1, <2>2, <2>3, <2>4
<1>9. Exact(kuma', Mine')
  <2>1. CASE plan[h] = 0
    BY <1>4, <1>5, <1>8, <2>1, ExactCreates DEF Held
  <2>2. CASE plan[h] # 0
    <3>1. Mine' = Mine
      BY <1>4, <1>5, <1>8, <2>2 DEF IdMaps
    <3>2. \A i \in Ids : kuma'[i].st = kuma[i].st
      BY <1>5, <2>2
    <3> QED
      BY <1>4, <3>1, <3>2, ExactSame DEF Held
  <2> QED
    BY <2>1, <2>2
<1>10. Apart'
  <2>1. \A g \in drop : plan'[g] = 0 /\ g \notin todo'
    <3>1. drop \in SUBSET Hosts
      BY DEF IInv, TypeInv, TypeOK
    <3> QED
      BY <1>1, <1>2, <1>6, <3>1
  <2> QED
    BY <1>1, <1>2, <1>3, <2>1 DEF Apart
<1> QED
  BY <1>9, <1>10 DEF Held

(* A deletion takes the monitor of a host that is to have none.            *)
LEMMA HeldDeletes ==
  ASSUME IInv, [Next]_vars, Undisturbed, Held, NEW h \in Hosts, DeleteHost(h)
  PROVE  Held'
<1>1. /\ pc = "delete" /\ h \in drop /\ copy.ids = Api.ids
      /\ \A g \in drop : plan[g] = 0 /\ g \notin todo
  BY DEF DeleteHost, Held, Apart
<1>2. /\ plan' = plan /\ todo' = todo /\ drop' = drop \ {h} /\ copy' = copy
      /\ Api' = Api /\ Removed(Api.ids[h])
  BY <1>1 DEF DeleteHost, Api
<1>3. pc' \in {"delete", "get"} /\ (pc' = "get" => drop' = {})
  BY DEF DeleteHost, Stage, Undisturbed
<1>4. /\ Mine \in IdMaps /\ OwnedIn(kuma, Mine) /\ kuma \in [Ids -> Monitors]
      /\ h \in Recorded(Api.ids) /\ Api.ids \in IdMaps
  <2>1. drop \subseteq Recorded(copy.ids)
    BY <1>1 DEF IInv, WorkerInv, Located
  <2>2. Api.ids \in IdMaps
    BY VersionsType DEF IInv, TypeInv, Objects
  <2> QED
    BY <1>1, <2>1, <2>2, MineType DEF IInv, TypeInv, TypeOK
<1>5. Planning /\ Planning'
  BY <1>1, <1>3 DEF Planning
<1>6. /\ Mine[h] = Api.ids[h] /\ h \in Recorded(Mine)
      /\ Mine' = [Mine EXCEPT ![h] = 0]
  <2>1. \A g \in Hosts : /\ Mine[g] = IF g \notin drop THEN plan[g]
                                                      ELSE Api.ids[g]
                         /\ Mine'[g] = IF g \notin drop \ {h} THEN plan[g]
                                                       ELSE Api.ids[g]
    BY <1>2, <1>5 DEF Mine
  <2>2. Mine' = [g \in Hosts |-> Mine'[g]]
    BY DEF Mine
  <2>3. [Mine EXCEPT ![h] = 0] = [g \in Hosts |-> IF g = h THEN 0 ELSE Mine[g]]
    BY <1>4 DEF IdMaps
  <2>4. \A g \in Hosts : Mine'[g] = IF g = h THEN 0 ELSE Mine[g]
    BY <1>1, <2>1
  <2> QED
    BY <1>1, <1>4, <2>1, <2>2, <2>3, <2>4 DEF Recorded
<1>7. /\ kuma'[Mine[h]].st # "live"
      /\ \A i \in Ids : i # Mine[h] => kuma'[i] = kuma[i]
  <2>1. Mine[h] \in Ids
    BY <1>4, <1>6 DEF Recorded, IdMaps
  <2> QED
    BY <1>2, <1>4, <1>6, <2>1 DEF Removed, Monitors
<1>8. Exact(kuma', Mine')
  BY <1>4, <1>6, <1>7, ExactDrops DEF Held
<1>9. Apart'
  BY <1>1, <1>2, <1>3 DEF Apart
<1> QED
  BY <1>8, <1>9 DEF Held

(* The write puts the plan on record.                                      *)
LEMMA HeldPersists ==
  ASSUME IInv, [Next]_vars, Paced, Undisturbed, Held,
         PersistGet \/ PersistRetry \/ PersistUpdate
  PROVE  Held'
<1>1. /\ pc \in {"get", "update"} /\ drop = {} /\ UNCHANGED kuma
      /\ Planning /\ Mine = plan
  <2>1. pc \in {"get", "update"} /\ UNCHANGED kuma
    BY DEF PersistGet, PersistRetry, PersistUpdate
  <2>2. drop = {} /\ Planning
    BY <2>1 DEF Held, Apart, Planning
  <2> QED
    BY <2>1, <2>2, MineCases
<1>2. CASE PersistGet \/ PersistRetry
  <2>1. plan' = plan /\ drop' = drop /\ pc' \in {"get", "update"}
    BY <1>2 DEF PersistGet, PersistRetry
  <2>2. Mine' = Mine
    BY <1>1, <2>1, MineNext DEF Planning
  <2>3. Apart'
    BY <1>1, <2>1 DEF Apart
  <2> QED
    BY <1>1, <2>2, <2>3 DEF Held
<1>3. CASE PersistUpdate
  <2>1. Api'.ids = plan
    BY <1>3, PersistedStays DEF PersistUpdate
  <2>2. pc' \in {"idle", "tags"}
    BY <1>3 DEF PersistUpdate, Return, Forget
  <2> QED
    BY <1>1, <2>1, <2>2, HeldRests
<1> QED
  BY <1>2, <1>3

(* While people only edit, no reconcile is cut short: each monitor it      *)
(* upserts is there, the object is, and no conflict is the last attempt's. *)
LEMMA NothingFails ==
  ASSUME IInv, [Next]_vars, Undisturbed, Held, OnlyEdits'
  PROVE  /\ ~ReconcileDeleting /\ ~ListFails
         /\ \A h \in Hosts : ~UpsertFails(h) /\ ~DeleteFails(h)
         /\ ~RemoveFinalizer /\ ~RemoveFinalizerFails
         /\ ~PersistGetFails /\ ~PersistFails
<1>1. /\ Cache = Api /\ Api.exists /\ ~Api.deleting /\ ~copy.deleting
  BY DEF Undisturbed, Cache, Api
<1>2. ~Spend("kuma") /\ ~Spend("api")
  BY NoFaults DEF IInv, TypeInv
<1>3. ~ReconcileDeleting /\ ~ListFails /\ ~PersistGetFails
  BY <1>1, <1>2 DEF ReconcileDeleting, ListFails, PersistGetFails
<1>4. ~RemoveFinalizer /\ ~RemoveFinalizerFails
  BY <1>1 DEF RemoveFinalizer, RemoveFinalizerFails, IInv, WorkerInv, Located
<1>5. ASSUME NEW h \in Hosts PROVE ~UpsertFails(h) /\ ~DeleteFails(h)
  <2>1. ~DeleteFails(h)
    BY <1>2 DEF DeleteFails
  <2>2. ASSUME UpsertFails(h) PROVE FALSE
    <3>1. pc = "upsert" /\ h \in todo /\ plan[h] # 0 /\ ~Alive(plan[h])
      BY <1>2, <2>2 DEF UpsertFails
    <3>2. Mine[h] = plan[h]
      BY <3>1 DEF Held, Apart, Mine, Planning
    <3>3. kuma[Mine[h]].st = "live"
      BY <3>1, <3>2 DEF Held, Exact, Recorded
    <3> QED
      BY <3>1, <3>2, <3>3 DEF Alive
  <2> QED
    BY <2>1, <2>2
<1>6. ~PersistFails
  <2>1. pc = "update" /\ Conflict => MayRetry
    <3>1. Edits \in Nat /\ tries \in Nat /\ RetrySteps \in Nat
      BY EditsStep, BoundAssumption DEF IInv, TypeInv, TypeOK
    <3>2. \A e, t, r \in Nat : e + t + 1 < r => t + 1 < r
      OBVIOUS
    <3>3. pc = "update" /\ Conflict => Edits + tries + 1 < RetrySteps
      BY DEF Undisturbed
    <3> QED
      BY <3>1, <3>2, <3>3 DEF MayRetry
  <2>2. ~Forbidden
    BY <1>1 DEF Forbidden
  <2> QED
    BY <1>1, <1>2, <2>1, <2>2 DEF PersistFails
<1> QED
  BY <1>3, <1>4, <1>5, <1>6

LEMMA HeldWaits ==
  ASSUME IInv, Held, UNCHANGED worker, Api'.ids = Api.ids,
         \A i \in Ids : kuma'[i].st = kuma[i].st
  PROVE  Held'
<1>1. /\ pc' = pc /\ copy' = copy /\ plan' = plan /\ todo' = todo
      /\ drop' = drop
  BY DEF worker
<1>2. Mine' = Mine
  BY <1>1 DEF Mine, Planning
<1>3. Exact(kuma', Mine')
  BY <1>2, MineType, ExactSame DEF Held
<1>4. Apart'
  BY <1>1 DEF Held, Apart
<1> QED
  BY <1>3, <1>4 DEF Held

LEMMA HeldStep ==
  ASSUME IInv, Paced, Undisturbed, Held, OnlyEdits', [Next]_vars
  PROVE  Held'
<1>1. CASE ReconcileOptOut \/ ReconcileUnchanged \/ ReconcileChanged
  BY <1>1, HeldStarts
<1>2. CASE ListMatches \/ ListDrifted
  BY <1>2, HeldLists
<1>3. ASSUME NEW h \in Hosts, UpsertHost(h) \/ DeleteHost(h) PROVE Held'
  BY <1>3, HeldUpserts, HeldDeletes
<1>4. CASE PersistGet \/ PersistRetry \/ PersistUpdate
  BY <1>4, HeldPersists
<1>5. CASE SyncTags
  <2>1. /\ ~Planning /\ pc' = "idle" /\ versions' = versions /\ kuma' = kuma
    BY <1>5 DEF SyncTags, Return, Forget, Planning
  <2>2. Mine = Api'.ids
    BY <2>1, MineCases DEF Api
  <2> QED
    BY <2>1, <2>2, HeldRests
<1>6. CASE UserEdit
  BY <1>6, EditStays, HeldWaits DEF UserEdit
<1>7. ASSUME NEW id \in Ids, UiEdit(id) PROVE Held'
  <2>1. UNCHANGED worker /\ Api' = Api
    BY <1>7 DEF UiEdit, Api
  <2>2. \A i \in Ids : kuma'[i].st = kuma[i].st
    BY <1>7 DEF UiEdit, IInv, TypeInv, TypeOK, Monitors
  <2> QED
    BY <2>1, <2>2, HeldWaits
<1>8. CASE UNCHANGED <<versions, kuma, worker>>
  BY <1>8, HeldWaits DEF Api
<1>9. /\ ~Deliver /\ ~OtherReleases
      /\ ~Spend("delete") /\ ~Spend("crash") /\ ~Spend("uiDelete")
  <2>1. Len(versions) = 1 /\ ~Api.deleting
    BY DEF Undisturbed
  <2>2. ~Deliver
    BY <2>1 DEF Deliver
  <2>3. ~OtherReleases
    BY <2>1 DEF OtherReleases
  <2> QED
    BY <2>2, <2>3, NoFaults DEF IInv, TypeInv
<1> QED
  BY <1>1, <1>2, <1>3, <1>4, <1>5, <1>6, <1>7, <1>8, <1>9, NothingFails
  DEF Next, Reconcile, World, vars, ReconcileGone, ReconcileIgnored,
      ReconcileInvalid, UserDelete, UiDelete, Crash

LEMMA OneEachInit == ASSUME Paced PROVE Init => OneEach
<1> SUFFICES ASSUME Init PROVE OneEach
  OBVIOUS
<1>1. PICK o \in BOOLEAN, hs \in SUBSET Hosts, c \in Cfgs :
         versions = <<Created(o, hs, c)>>
  BY DEF Init
<1>2. /\ Len(versions) = 1 /\ Api = Created(o, hs, c)
      /\ Api.exists /\ ~Api.deleting /\ Api.ids = NoIds
  BY <1>1 DEF Api, Created, Absent
<1>3. /\ pc = "idle" /\ tries = 0 /\ ~copy.deleting
      /\ kuma = [i \in Ids |-> Unborn] /\ outside.may \in Budgets
  BY DEF Init, Absent
<1>4. Edits + tries < RetrySteps
  BY <1>3, BoundAssumption DEF Paced, Edits, Events
<1>5. \A h \in Hosts : Mine[h] = 0
  BY <1>2, <1>3 DEF Mine, Planning, NoIds
<1>6. Exact(kuma, Mine)
  BY <1>3, <1>5 DEF Exact, Recorded, Unborn
<1> QED
  BY <1>2, <1>3, <1>4, <1>6 DEF OneEach, Undisturbed, Held, Apart

LEMMA OneEachStep ==
  ASSUME Paced, IInv, OneEach, [Next]_vars
  PROVE  OneEach'
<1> SUFFICES ASSUME OnlyEdits' PROVE Undisturbed' /\ Held'
  BY DEF OneEach
<1>1. Undisturbed /\ Held
  BY EditsStep DEF OneEach, IInv, TypeInv
<1> QED
  BY <1>1, UndisturbedStep, HeldStep

LEMMA OneEachMeans ==
  ASSUME IInv, OneEach
  PROVE  EditsKeepOneEach
<1> SUFFICES ASSUME OnlyEdits PROVE NoOrphan /\ OneMonitorPerHost
  BY DEF EditsKeepOneEach
<1>1. Exact(kuma, Mine) /\ OwnedIn(kuma, Mine) /\ 0 \notin Ids
  BY MineType, BoundAssumption DEF OneEach, Held, Ids
<1>2. \A i \in Ids : Alive(i) => \E h \in Hosts : Mine[h] = i
  BY <1>1 DEF Exact, Alive
<1>3. NoOrphan
  <2>1. pc = "idle" => Mine = Api.ids
    BY MineCases DEF Planning
  <2> QED
    BY <1>2, <2>1 DEF NoOrphan
<1>4. ASSUME NEW i \in Ids, NEW j \in Ids, Alive(i), Alive(j),
             kuma[i].host = kuma[j].host
      PROVE  i = j
  <2>1. PICK g \in Hosts : Mine[g] = i
    BY <1>2, <1>4
  <2>2. PICK h \in Hosts : Mine[h] = j
    BY <1>2, <1>4
  <2>3. kuma[i].host = g /\ kuma[j].host = h
    BY <1>1, <2>1, <2>2 DEF OwnedIn, Recorded
  <2> QED
    BY <1>4, <2>1, <2>2, <2>3
<1> QED
  BY <1>3, <1>4 DEF OneMonitorPerHost

(* While people do nothing but edit the object and its monitors, fewer     *)
(* times than a write is attempted, and the cache is up to date, no host   *)
(* ever has two monitors and no monitor is off the record between two      *)
(* reconciles, wherever the edits fall between the calls of one            *)
(* (syncMonitors, persistMonitorIDs with RetryOnConflict, reconcileDrift). *)
THEOREM OneEachCorrect == ASSUME Paced PROVE Spec => []EditsKeepOneEach
<1>1. Init => OneEach
  BY OneEachInit
<1>2. IInv /\ OneEach /\ [Next]_vars => OneEach'
  BY OneEachStep
<1>3. IInv /\ OneEach => EditsKeepOneEach
  BY OneEachMeans
<1> QED
  BY <1>1, <1>2, <1>3, Inductive, PTL DEF Spec

(* An opt-out gives up the finalizer with the annotation, in one write,    *)
(* when it has deleted every monitor: all that is on record is gone.       *)
LEMMA ReleaseAbandonsNothing ==
  ASSUME Paced, IInv, Hosted, OneEach, [Next]_vars,
         OnlyEdits, Api.fin, ~Api'.fin
  PROVE  AllGone(Api.ids)
<1>1. Undisturbed /\ Held
  BY DEF OneEach
<1>2. Api \in Objects /\ Api.ids \in IdMaps /\ OwnedIn(kuma, Api.ids)
  BY VersionsType, ApiSound DEF IInv, TypeInv, SoundIn, Objects
<1>3. CASE pc = "update" /\ Persisted
  <2>1. want = NoHash
    BY <1>1, <1>3, PersistedStays
  <2>2. plan = NoIds /\ drop = {} /\ Planning
    BY <1>1, <1>3, <2>1 DEF IInv, WorkerInv, PlanVouched, Held, Apart, Planning
  <2>3. \A h \in Hosts : Mine[h] = 0
    BY <2>2, MineCases DEF NoIds
  <2>4. \A i \in Ids : kuma[i].st # "live"
    <3>1. 0 \notin Ids
      BY BoundAssumption DEF Ids
    <3> QED
      BY <1>1, <2>3, <3>1 DEF Held, Exact
  <2>5. ASSUME NEW h \in Recorded(Api.ids)
        PROVE  kuma[Api.ids[h]].st = "gone"
    <3>1. h \in Hosts /\ Api.ids[h] \in Ids /\ kuma[Api.ids[h]].host = h
      BY <1>2 DEF Recorded, IdMaps, OwnedIn
    <3>2. kuma[Api.ids[h]].st \in {"unborn", "live", "gone"}
      BY <3>1 DEF IInv, TypeInv, TypeOK, Monitors
    <3> QED
      BY <2>4, <3>1, <3>2 DEF Hosted
  <2> QED
    BY <2>5 DEF AllGone
<1>4. CASE versions' = versions
  BY <1>4 DEF Api
<1>5. CASE UserEdit
  BY <1>1, <1>5, EditStays
<1>6. CASE UserDelete
  <2> DEFINE e == [Api EXCEPT !.deleting = TRUE]
  <2>1. e \in Objects /\ e.fin = Api.fin
    BY <1>2 DEF Objects
  <2>2. Store(e)
    BY <1>6 DEF UserDelete
  <2> HIDE DEF e
  <2> QED
    BY <2>1, <2>2, StoreBook DEF IInv
<1>7. CASE Crash
  BY <1>7 DEF Crash, Api
<1>8. versions' = versions \/ UserEdit \/ UserDelete \/ Crash
      \/ (pc = "update" /\ Persisted)
  <2>1. Len(versions) = 1 /\ ~Api.deleting /\ ~copy.deleting
    BY <1>1 DEF Undisturbed
  <2>2. ~Deliver
    BY <2>1 DEF Deliver
  <2>3. ~OtherReleases
    BY <2>1 DEF OtherReleases
  <2>4. ~RemoveFinalizer /\ ~RemoveFinalizerFails
    BY <2>1 DEF RemoveFinalizer, RemoveFinalizerFails, IInv, WorkerInv, Located
  <2> QED
    BY <2>2, <2>3, <2>4
    DEF Next, Reconcile, World, vars,
        ReconcileGone, ReconcileDeleting, ReconcileIgnored, ReconcileOptOut,
        ReconcileInvalid, ReconcileUnchanged, ReconcileChanged, ListMatches,
        ListDrifted, ListFails, UpsertHost, UpsertFails, DeleteHost,
        DeleteFails, PersistGet, PersistGetFails, PersistUpdate, PersistRetry,
        PersistFails, SyncTags, UiEdit, UiDelete
<1> QED
  BY <1>3, <1>4, <1>5, <1>6, <1>7, <1>8

(* Under the same hypotheses an opt-out, however many edits overtake it,   *)
(* never leaves behind a living monitor that the API server's version of   *)
(* the object recorded (the opt-out branch of reconcileHostBasedResource,  *)
(* deleteAllMonitors, persistMonitorIDs).                                  *)
THEOREM OptOutCorrect == ASSUME Paced PROVE Spec => EditsAbandonNothing
<1>1. Init => OneEach /\ Hosted
  BY OneEachInit, SentinelAssumption DEF Init, Hosted, Unborn
<1>2. IInv /\ OneEach /\ Hosted /\ [Next]_vars => OneEach' /\ Hosted'
  BY OneEachStep, HostedStep
<1>3. IInv /\ OneEach /\ Hosted /\ [Next]_vars
      => [OnlyEdits /\ Api.fin /\ ~Api'.fin => AllGone(Api.ids)]_vars
  BY ReleaseAbandonsNothing
<1> QED
  BY <1>1, <1>2, <1>3, Inductive, PTL DEF Spec, EditsAbandonNothing
=============================================================================
