-------------------------- MODULE MonitorSyncProofs --------------------------
(* Proofs about MonitorSync for every set of specs and Secret values and   *)
(* every number of ids, cached versions, retries and outside events.       *)
EXTENDS MonitorSync, TLAPS

-----------------------------------------------------------------------------
(* The versions the API server has and the cache has still to receive.     *)

(* Appending to a sequence, or to what follows its first element: the new  *)
(* sequence ends with the new element and keeps the order of the old ones. *)
LEMMA AppendShape ==
  ASSUME NEW S, NEW s \in Seq(S), s # <<>>, NEW x \in S, NEW t,
         t = Append(s, x) \/ t = Append(Tail(s), x)
  PROVE  /\ t \in Seq(S) /\ t # <<>> /\ Len(t) \in Nat \ {0}
         /\ t[Len(t)] = x
         /\ \E d \in {0, 1} : \A i \in 1..Len(t) :
               i # Len(t) => i + d \in 1..Len(s) /\ t[i] = s[i + d]
<1>1. Len(s) \in Nat \ {0}
  OBVIOUS
<1>2. CASE t = Append(s, x)
  <2>1. /\ t \in Seq(S) /\ Len(t) = Len(s) + 1 /\ t[Len(t)] = x
        /\ \A i \in 1..Len(s) : t[i] = s[i]
    BY <1>1, <1>2
  <2>2. \A i \in 1..Len(t) : i # Len(t) => i + 0 \in 1..Len(s) /\ t[i] = s[i + 0]
    BY <1>1, <2>1
  <2> QED
    BY <1>1, <2>1, <2>2
<1>3. CASE t = Append(Tail(s), x)
  <2> DEFINE u == Tail(s)
  <2>1. /\ u \in Seq(S) /\ Len(u) = Len(s) - 1 /\ Len(u) \in Nat
        /\ \A i \in 1..Len(u) : u[i] = s[i + 1]
    BY <1>1
  <2>2. t = Append(u, x)
    BY <1>3
  <2> HIDE DEF u
  <2>3. /\ t \in Seq(S) /\ Len(t) = Len(u) + 1 /\ t[Len(t)] = x
        /\ \A i \in 1..Len(u) : t[i] = u[i]
    BY <2>1, <2>2
  <2>4. \A i \in 1..Len(t) : i # Len(t) => i + 1 \in 1..Len(s) /\ t[i] = s[i + 1]
    BY <1>1, <2>1, <2>3
  <2> QED
    BY <1>1, <2>1, <2>3, <2>4
<1> QED
  BY <1>2, <1>3

(* The version that a write of o creates.                                  *)
Newer(o) == Settled([o EXCEPT !.rv = Api.rv + 1])

LEMMA AbsentType == Absent \in Objects
BY DEF Absent, Objects

LEMMA CreatedType == ASSUME NEW s \in Specs PROVE Created(s) \in Objects
BY AbsentType DEF Created, Absent, Objects

LEMMA VersionsType ==
  ASSUME TypeOK
  PROVE  /\ Len(versions) \in Nat \ {0}
         /\ Api \in Objects /\ Cache \in Objects
         /\ \A i \in 1..Len(versions) : versions[i] \in Objects
BY DEF TypeOK, Api, Cache

LEMMA NewerType ==
  ASSUME TypeOK, NEW o \in Objects
  PROVE  Newer(o) \in Objects
<1>1. Api.rv \in Nat
  BY VersionsType DEF Objects
<1>2. [o EXCEPT !.rv = Api.rv + 1] \in Objects
  BY <1>1 DEF Objects
<1> QED
  BY <1>1, <1>2, AbsentType DEF Newer, Settled, Objects

(* A write leaves the versions alone, or adds one at the end and may drop  *)
(* the one at the front.                                                   *)
LEMMA StoreShape ==
  ASSUME TypeOK, NEW o \in Objects, Store(o)
  PROVE  /\ versions' \in Seq(Objects) /\ versions' # <<>>
         /\ \/ o = Api /\ versions' = versions
            \/ /\ o # Api /\ Api' = Newer(o) /\ Len(versions') \in Nat \ {0}
               /\ versions'[Len(versions')] = Newer(o)
               /\ \E d \in {0, 1} : \A i \in 1..Len(versions') :
                     i # Len(versions') =>
                        /\ i + d \in 1..Len(versions)
                        /\ versions'[i] = versions[i + d]
<1>1. versions \in Seq(Objects) /\ versions # <<>> /\ Newer(o) \in Objects
  BY NewerType DEF TypeOK
<1>2. CASE o = Api /\ versions' = versions
  BY <1>1, <1>2
<1>3. CASE /\ o # Api
           /\ \/ versions' = Append(versions, Newer(o))
              \/ versions' = Append(Tail(versions), Newer(o))
  <2>1. /\ versions' \in Seq(Objects) /\ versions' # <<>>
        /\ Len(versions') \in Nat \ {0}
        /\ versions'[Len(versions')] = Newer(o)
        /\ \E d \in {0, 1} : \A i \in 1..Len(versions') :
              i # Len(versions') =>
                 i + d \in 1..Len(versions) /\ versions'[i] = versions[i + d]
    BY <1>1, <1>3, AppendShape
  <2> QED
    BY <1>3, <2>1 DEF Api
<1> QED
  BY <1>2, <1>3 DEF Store, Newer

(* A delivery drops the front version.                                     *)
LEMMA TailShape ==
  ASSUME TypeOK, Len(versions) > 1, versions' = Tail(versions)
  PROVE  /\ versions' \in Seq(Objects) /\ versions' # <<>> /\ Api' = Api
         /\ Len(versions') = Len(versions) - 1
         /\ \A i \in 1..Len(versions') :
               i + 1 \in 1..Len(versions) /\ versions'[i] = versions[i + 1]
<1>1. Len(versions) \in Nat \ {0} /\ versions \in Seq(Objects)
  BY VersionsType DEF TypeOK
<1>2. /\ versions' \in Seq(Objects) /\ Len(versions') = Len(versions) - 1
      /\ Len(versions') \in Nat \ {0}
  BY <1>1
<1>3. \A i \in 1..Len(versions') :
         i + 1 \in 1..Len(versions) /\ versions'[i] = versions[i + 1]
  BY <1>1, <1>2
<1>4. Api' = Api
  BY <1>1, <1>2, <1>3 DEF Api
<1> QED
  BY <1>2, <1>3, <1>4

-----------------------------------------------------------------------------
(* Types.                                                                  *)

LEMMA ForgetType ==
  ASSUME TypeOK, Forget
  PROVE  /\ pc' = "idle" /\ copy' \in Objects /\ want' \in Wanted \cup {NoCfg}
         /\ id' \in Ids \cup {0} /\ gen' \in Nat /\ failed' \in BOOLEAN
         /\ tries' \in 0..RetrySteps
<1>1. 0 \in 0..RetrySteps
  BY BoundAssumption
<1>2. failed' \in BOOLEAN
  BY DEF Forget
<1> QED
  BY <1>1, <1>2, AbsentType DEF Forget

LEMMA SpendType ==
  ASSUME TypeOK, NEW kind \in Events, Spend(kind)
  PROVE  outside' \in Outside
<1>1. outside.may \in [Events -> Nat] /\ outside.did \in SUBSET Events
  BY DEF TypeOK, Outside
<1>2. [outside.may EXCEPT ![kind] = @ - 1] \in [Events -> Nat]
  BY <1>1 DEF Spend
<1>3. outside.did \cup {kind} \in SUBSET Events
  BY <1>1
<1>4. outside' = [may |-> [outside.may EXCEPT ![kind] = @ - 1],
                  did |-> outside.did \cup {kind}]
  BY DEF TypeOK, Outside, Spend
<1> QED
  BY <1>2, <1>3, <1>4 DEF Outside

LEMMA UpsertedType ==
  ASSUME TypeOK, want \in Wanted, Upserted
  PROVE  /\ kuma' \in [Ids -> Monitors] /\ nextId' \in 1..MaxId + 1
         /\ (IF id = 0 THEN nextId ELSE id) \in Ids
<1>1. nextId \in 1..MaxId + 1 /\ kuma \in [Ids -> Monitors] /\ MaxId \in Nat
  BY BoundAssumption DEF TypeOK
<1>2. [st |-> "live", cfg |-> want, sent |-> want] \in Monitors
  BY DEF Monitors
<1>3. nextId' \in 1..MaxId + 1 /\ (IF id = 0 THEN nextId ELSE id) \in Ids
  BY <1>1 DEF Upserted, Ids, TypeOK
<1> QED
  BY <1>1, <1>2, <1>3 DEF Upserted

LEMMA RemovedType ==
  ASSUME TypeOK, NEW i, Removed(i)
  PROVE  kuma' \in [Ids -> Monitors]
<1>1. \A j \in Ids : kuma'[j] \in Monitors
  BY DEF TypeOK, Removed, Monitors
<1> QED
  BY <1>1 DEF TypeOK, Removed

(* A reconcile that may still upsert knows what it wants.                  *)
Upserting == pc \in {"list", "upsert"} => want # NoCfg

TypeInv == TypeOK /\ Upserting

LEMMA TypeInit == Init => TypeInv
<1> SUFFICES ASSUME Init PROVE TypeInv
  OBVIOUS
<1>1. PICK s \in Specs : versions = <<Created(s)>>
  BY DEF Init
<1>2. versions \in Seq(Objects) /\ versions # <<>>
  <2>1. Created(s) \in Objects
    BY CreatedType
  <2> QED
    BY <1>1, <2>1
<1>3. kuma \in [Ids -> Monitors] /\ nextId \in 1..MaxId + 1
  BY BoundAssumption DEF Init, Unborn, Monitors
<1>4. outside \in Outside
  BY BoundAssumption DEF Init, Outside
<1>5. tries \in 0..RetrySteps /\ managed \in 0..1
  BY BoundAssumption DEF Init
<1>6. failed \in BOOLEAN /\ queued \in BOOLEAN
  BY DEF Init
<1>7. pc \in Stages /\ pc \notin {"list", "upsert"}
  BY DEF Init, Stages
<1> QED
  BY <1>2, <1>3, <1>4, <1>5, <1>6, <1>7, AbsentType
  DEF Init, TypeInv, TypeOK, Upserting

LEMMA TypeReturn ==
  ASSUME TypeInv, Forget,
         versions' \in Seq(Objects), versions' # <<>>,
         kuma' \in [Ids -> Monitors], nextId' \in 1..MaxId + 1,
         secret' \in Keys \cup {NoKey},
         queued' \in BOOLEAN, managed' \in 0..1, outside' \in Outside
  PROVE  TypeInv'
<1>1. pc' = "idle" /\ pc' \in Stages
  BY DEF Forget, Stages
<1> QED
  BY <1>1, ForgetType DEF TypeInv, TypeOK, Upserting

(* A reconcile that ends without writing anything.                         *)
LEMMA TypeGivesUp ==
  ASSUME TypeInv, NEW kind \in Events, \E again \in BOOLEAN : Return(again),
         versions' = versions, kuma' \in [Ids -> Monitors], nextId' = nextId,
         secret' = secret, managed' \in 0..1,
         outside' = outside \/ Spend(kind)
  PROVE  TypeInv'
<1>1. outside' \in Outside
  BY SpendType DEF TypeInv, TypeOK
<1> QED
  BY <1>1, TypeReturn DEF TypeInv, TypeOK, Return, Enqueue

LEMMA TypeStart ==
  ASSUME TypeInv, ReconcileGone \/ ReconcileDeleting \/ ReconcileLive
  PROVE  TypeInv'
<1>1. Cache \in Objects /\ Cache.id \in Ids \cup {0}
  BY VersionsType DEF TypeInv, Objects
<1>2. queued' \in BOOLEAN
  BY DEF ReconcileGone, ReconcileDeleting, ReconcileLive, Take
<1>3. CASE ReconcileGone
  BY <1>2, <1>3 DEF ReconcileGone, Take, TypeInv, TypeOK, Upserting, worker
<1>4. CASE ReconcileDeleting
  BY <1>1, <1>2, <1>4
  DEF ReconcileDeleting, Take, TypeInv, TypeOK, Upserting, Stages
<1>5. CASE ReconcileLive
  BY <1>1, <1>2, <1>5
  DEF ReconcileLive, Take, FirstCall, TypeInv, TypeOK, Upserting, Stages
<1> QED
  BY <1>3, <1>4, <1>5

LEMMA TypeKuma ==
  ASSUME TypeInv, DeleteMonitor \/ DeleteFails \/ Upsert \/ UpsertFails
  PROVE  TypeInv'
<1>1. CASE DeleteMonitor
  <2>1. kuma' \in [Ids -> Monitors]
    BY <1>1, RemovedType DEF DeleteMonitor, TypeInv
  <2> QED
    BY <1>1, <2>1 DEF DeleteMonitor, TypeInv, TypeOK, Upserting, Stages
<1>2. CASE DeleteFails
  <2>1. kuma' \in [Ids -> Monitors]
    BY <1>2, RemovedType DEF DeleteFails, TypeInv, TypeOK
  <2> QED
    BY <1>2, <2>1, TypeGivesUp DEF DeleteFails, Events, TypeInv, TypeOK
<1>3. pc = "upsert" => want \in Wanted
  BY DEF TypeInv, TypeOK, Upserting
<1>4. CASE Upsert
  BY <1>3, <1>4, UpsertedType DEF Upsert, TypeInv, TypeOK, Upserting, Stages
<1>5. CASE UpsertFails
  <2>1. kuma' \in [Ids -> Monitors] /\ nextId' \in 1..MaxId + 1
    BY <1>3, <1>5, UpsertedType DEF UpsertFails, TypeInv, TypeOK
  <2>2. outside' \in Outside
    BY <1>5, SpendType DEF UpsertFails, TypeInv, TypeOK, Events
  <2>3. failed' \in BOOLEAN
    BY <1>5 DEF UpsertFails
  <2> QED
    BY <1>5, <2>1, <2>2, <2>3
    DEF UpsertFails, TypeInv, TypeOK, Upserting, Stages
<1> QED
  BY <1>1, <1>2, <1>4, <1>5

(* Where a configuration is wanted, a spec has been read.                  *)
LEMMA TypeReads ==
  ASSUME TypeInv, pc = "resolve" => copy.spec \in Specs,
         \/ Resolve \/ ResolveFails \/ List \/ ListFails
         \/ SyncTags \/ SyncTagsFails
  PROVE  TypeInv'
<1>1. CASE Resolve
  <2>1. copy.spec \in Specs /\ copy.gen \in Nat /\ secret \in Keys
    BY <1>1 DEF Resolve, TypeInv, TypeOK, Objects
  <2>2. want' \in Wanted /\ gen' \in Nat
    BY <1>1, <2>1 DEF Resolve, Wanted
  <2>3. want' # NoCfg
    BY <2>2, SentinelAssumption
  <2> QED
    BY <1>1, <2>2, <2>3 DEF Resolve, TypeInv, TypeOK, Upserting, Stages
<1>2. CASE ResolveFails
  BY <1>2, TypeGivesUp DEF ResolveFails, Events, TypeInv, TypeOK
<1>3. CASE List
  BY <1>3 DEF List, TypeInv, TypeOK, Upserting, Stages
<1>4. CASE ListFails
  BY <1>4, TypeGivesUp DEF ListFails, Events, TypeInv, TypeOK
<1>5. CASE SyncTags
  <2>1. managed' \in 0..1
    BY <1>5 DEF SyncTags
  <2> QED
    BY <1>5, <2>1, TypeGivesUp DEF SyncTags, Events, TypeInv, TypeOK
<1>6. CASE SyncTagsFails
  BY <1>6, TypeGivesUp DEF SyncTagsFails, Events, TypeInv, TypeOK
<1> QED
  BY <1>1, <1>2, <1>3, <1>4, <1>5, <1>6

(* The three writes the reconciler makes.                                  *)
LEMMA WrittenType ==
  ASSUME TypeInv
  PROVE  /\ [copy EXCEPT !.fin = FALSE] \in Objects
         /\ [copy EXCEPT !.fin = TRUE] \in Objects
         /\ Reporting(copy) \in Objects
<1>1. copy \in Objects /\ id \in Ids \cup {0} /\ gen \in Nat
  BY DEF TypeInv, TypeOK
<1> QED
  BY <1>1 DEF Reporting, Objects

LEMMA WriteType ==
  ASSUME TypeInv, Released \/ Finalized \/ Store(Reporting(copy))
  PROVE  versions' \in Seq(Objects) /\ versions' # <<>>
BY WrittenType, StoreShape DEF Released, Finalized, TypeInv

LEMMA TypeFinalizer ==
  ASSUME TypeInv,
         \/ RemoveFinalizer \/ RemoveFinalizerFails
         \/ AddFinalizer \/ AddFinalizerFails
  PROVE  TypeInv'
<1>1. versions' \in Seq(Objects) /\ versions' # <<>>
  BY WriteType
  DEF RemoveFinalizer, RemoveFinalizerFails, AddFinalizer, AddFinalizerFails,
      TypeInv, TypeOK
<1>2. outside' \in Outside
  BY SpendType
  DEF RemoveFinalizer, RemoveFinalizerFails, AddFinalizer, AddFinalizerFails,
      TypeInv, TypeOK, Events
<1>3. CASE AddFinalizer
  <2>1. versions'[Len(versions')] \in Objects
    BY <1>1
  <2>2. queued' \in BOOLEAN
    BY <1>3 DEF AddFinalizer, Enqueue
  <2> QED
    BY <1>1, <1>3, <2>1, <2>2
    DEF AddFinalizer, TypeInv, TypeOK, Upserting, Stages
<1>4. CASE RemoveFinalizer
  <2>1. managed' \in 0..1
    BY <1>4 DEF RemoveFinalizer
  <2> QED
    BY <1>1, <1>2, <1>4, <2>1, TypeReturn
    DEF RemoveFinalizer, Return, Enqueue, TypeInv, TypeOK
<1>5. CASE RemoveFinalizerFails \/ AddFinalizerFails
  BY <1>1, <1>2, <1>5, TypeReturn
  DEF RemoveFinalizerFails, AddFinalizerFails, Return, Enqueue, TypeInv, TypeOK
<1> QED
  BY <1>3, <1>4, <1>5

LEMMA ReportedType ==
  ASSUME TypeInv, Reported,
         versions' \in Seq(Objects), versions' # <<>>,
         UNCHANGED <<kuma, nextId, secret, outside>>
  PROVE  TypeInv'
<1>1. CASE failed /\ Return(TRUE) /\ UNCHANGED managed
  BY <1>1, TypeReturn DEF Return, Enqueue, TypeInv, TypeOK
<1>2. CASE /\ ~failed /\ managed' = 1 /\ pc' = "tags" /\ Enqueue(FALSE)
           /\ UNCHANGED <<copy, want, id, gen, failed, tries>>
  <2>1. managed' \in 0..1 /\ queued' \in BOOLEAN
    BY <1>2 DEF Enqueue
  <2> QED
    BY <1>2, <2>1 DEF TypeInv, TypeOK, Upserting, Stages
<1> QED
  BY <1>1, <1>2 DEF Reported

LEMMA TypeStatus ==
  ASSUME TypeInv,
         \/ StatusGet \/ StatusSame \/ StatusGetFails
         \/ StatusUpdate \/ StatusRetry \/ StatusUpdateFails
  PROVE  TypeInv'
<1>1. CASE StatusGet
  BY <1>1, VersionsType DEF StatusGet, TypeInv, TypeOK, Upserting, Stages
<1>2. CASE StatusSame
  BY <1>2, ReportedType DEF StatusSame, TypeInv, TypeOK
<1>3. CASE StatusGetFails
  BY <1>3, TypeGivesUp DEF StatusGetFails, Events, TypeInv, TypeOK
<1>4. CASE StatusUpdate
  BY <1>4, WriteType, ReportedType DEF StatusUpdate
<1>5. CASE StatusRetry
  <2>1. tries' \in 0..RetrySteps
    BY <1>5, BoundAssumption DEF StatusRetry, MayRetry, TypeInv, TypeOK
  <2> QED
    BY <1>5, <2>1 DEF StatusRetry, TypeInv, TypeOK, Upserting, Stages
<1>6. CASE StatusUpdateFails
  <2>1. versions' \in Seq(Objects) /\ versions' # <<>>
    BY <1>6, WriteType DEF StatusUpdateFails, TypeInv, TypeOK
  <2>2. outside' \in Outside
    BY <1>6, SpendType DEF StatusUpdateFails, TypeInv, TypeOK, Events
  <2> QED
    BY <1>6, <2>1, <2>2, TypeReturn
    DEF StatusUpdateFails, Return, Enqueue, TypeInv, TypeOK
<1> QED
  BY <1>1, <1>2, <1>3, <1>4, <1>5, <1>6

(* The objects users make of the resource.                                 *)
Edited(s) == [Api EXCEPT !.spec = s, !.gen = @ + 1]
Doomed == [Api EXCEPT !.deleting = TRUE, !.gen = @ + 1]

LEMMA EditType ==
  ASSUME TypeOK
  PROVE  /\ \A s \in Specs : Edited(s) \in Objects
         /\ Doomed \in Objects
<1> DEFINE g == Api.gen + 1
<1>1. Api \in Objects /\ g \in Nat
  BY VersionsType DEF Objects
<1>2. \A s \in Specs : Edited(s) = [Api EXCEPT !.spec = s, !.gen = g]
  BY DEF Edited
<1>3. Doomed = [Api EXCEPT !.deleting = TRUE, !.gen = g]
  BY DEF Doomed
<1> HIDE DEF g
<1>4. \A s \in Specs : [Api EXCEPT !.spec = s, !.gen = g] \in Objects
  BY <1>1 DEF Objects
<1>5. [Api EXCEPT !.deleting = TRUE, !.gen = g] \in Objects
  BY <1>1 DEF Objects
<1> QED
  BY <1>2, <1>3, <1>4, <1>5

LEMMA EditShape ==
  ASSUME UserEdit
  PROVE  \E s \in Specs : \/ Api.exists /\ Store(Edited(s))
                          \/ ~Api.exists /\ Store(Created(s))
BY DEF UserEdit, Edited

LEMMA TypeWorld ==
  ASSUME TypeInv, World
  PROVE  TypeInv'
<1>1. CASE Deliver
  <2>1. versions' \in Seq(Objects) /\ versions' # <<>>
    BY <1>1, TailShape DEF TypeInv, Deliver
  <2>2. queued' \in BOOLEAN
    BY <1>1 DEF Deliver
  <2> QED
    BY <1>1, <2>1, <2>2 DEF Deliver, TypeInv, TypeOK, Upserting, worker
<1>2. CASE UserEdit
  <2>1. versions' \in Seq(Objects) /\ versions' # <<>>
    BY <1>2, EditShape, EditType, CreatedType, StoreShape DEF TypeInv
  <2>2. outside' \in Outside
    BY <1>2, SpendType DEF UserEdit, TypeInv, Events
  <2>3. queued' \in BOOLEAN
    BY <1>2 DEF UserEdit, Enqueue
  <2> QED
    BY <1>2, <2>1, <2>2, <2>3 DEF UserEdit, TypeInv, TypeOK, Upserting, worker
<1>3. CASE UserDelete
  <2>1. versions' \in Seq(Objects) /\ versions' # <<>>
    BY <1>3, EditType, StoreShape DEF UserDelete, Doomed, TypeInv
  <2>2. outside' \in Outside
    BY <1>3, SpendType DEF UserDelete, TypeInv, Events
  <2>3. queued' \in BOOLEAN
    BY <1>3 DEF UserDelete, Enqueue
  <2> QED
    BY <1>3, <2>1, <2>2, <2>3
    DEF UserDelete, TypeInv, TypeOK, Upserting, worker
<1>4. CASE SecretEdit
  <2>1. outside' \in Outside
    BY <1>4, SpendType DEF SecretEdit, TypeInv, Events
  <2>2. secret' \in Keys \cup {NoKey}
    BY <1>4 DEF SecretEdit
  <2> QED
    BY <1>4, <2>1, <2>2 DEF SecretEdit, TypeInv, TypeOK, Upserting, worker
<1>5. ASSUME NEW i \in Ids, UiEdit(i)
      PROVE  TypeInv'
  <2>1. kuma' \in [Ids -> Monitors]
    <3>1. \A j \in Ids : kuma'[j] \in Monitors
      BY <1>5 DEF UiEdit, TypeInv, TypeOK, Monitors
    <3> QED
      BY <1>5, <3>1 DEF UiEdit, TypeInv, TypeOK
  <2>2. outside' \in Outside
    BY <1>5, SpendType DEF UiEdit, TypeInv, Events
  <2> QED
    BY <1>5, <2>1, <2>2 DEF UiEdit, TypeInv, TypeOK, Upserting, worker
<1>6. ASSUME NEW i \in Ids, UiDelete(i)
      PROVE  TypeInv'
  <2>1. kuma' \in [Ids -> Monitors]
    BY <1>6, RemovedType DEF UiDelete, TypeInv
  <2>2. outside' \in Outside
    BY <1>6, SpendType DEF UiDelete, TypeInv, Events
  <2> QED
    BY <1>6, <2>1, <2>2 DEF UiDelete, TypeInv, TypeOK, Upserting, worker
<1>7. CASE Crash
  <2>1. versions' \in Seq(Objects) /\ versions' # <<>>
    BY <1>7, VersionsType DEF Crash, TypeInv
  <2>2. outside' \in Outside
    BY <1>7, SpendType DEF Crash, TypeInv, Events
  <2>3. queued' \in BOOLEAN /\ managed' \in 0..1
    BY <1>7 DEF Crash
  <2> QED
    BY <1>7, <2>1, <2>2, <2>3, TypeReturn DEF Crash, TypeInv, TypeOK
<1> QED
  BY <1>1, <1>2, <1>3, <1>4, <1>5, <1>6, <1>7 DEF World

LEMMA TypeStep ==
  ASSUME TypeInv, pc = "resolve" => copy.spec \in Specs, [Next]_vars
  PROVE  TypeInv'
<1>1. CASE Reconcile
  BY <1>1, TypeStart, TypeKuma, TypeReads, TypeFinalizer, TypeStatus
  DEF Reconcile
<1>2. CASE World
  BY <1>2, TypeWorld
<1>3. CASE UNCHANGED vars
  BY <1>3 DEF vars, worker, TypeInv, TypeOK, Upserting
<1> QED
  BY <1>1, <1>2, <1>3 DEF Next

-----------------------------------------------------------------------------
(* The inductive invariant.  A reconcile reads the resource where the      *)
(* cache is, which may be several versions behind, and writes it where the *)
(* API server is, so the invariant relates every version to every later    *)
(* one and to what the running reconcile holds.                            *)

(* Was the id, if there is one, ever handed out?                           *)
Known(k, i) == i # 0 => k[i].st # "unborn"

(* What holds of each version by itself, given Kuma's monitors k.          *)
VouchedIn(k, o) ==
    o.id # 0 /\ o.observed = o.gen /\ k[o.id].st = "live" =>
        k[o.id].sent.spec = o.spec

SoundIn(k, o) ==
    /\ VouchedIn(k, o) /\ Guarded(o) /\ Known(k, o.id)
    /\ o.fin => o.exists
    /\ o.exists => o.spec \in Specs
    /\ o.observed <= o.gen

(* A version with the resourceVersion of a, the API server's, is a itself. *)
LatestOf(a, o) == o.rv <= a.rv /\ (o.rv = a.rv => o = a)

(* How the resource may have changed from a version to a later one.  What  *)
(* the operator looks after is still the same resource, and stays guarded: *)
(* it has gone through the generations since, the spec with them, and no   *)
(* sync has claimed one the earlier version does not have.  Nothing being  *)
(* deleted comes back with a finalizer.                                    *)
Continues(a, b) ==
    /\ a.deleting /\ b.fin => b.deleting
    /\ a.fin /\ ~a.deleting =>
          /\ b.fin /\ a.gen <= b.gen /\ (b.gen = a.gen => b.spec = a.spec)
          /\ b.observed <= a.gen

VersionsInv ==
    /\ \A i \in 1..Len(versions) : SoundIn(kuma, versions[i])
    /\ \A i, j \in 1..Len(versions) : i <= j =>
          LatestOf(versions[j], versions[i]) /\ Continues(versions[i], versions[j])

(* Kuma hands out ids nobody has.                                          *)
FreshIds == \A i \in Ids : i >= nextId => kuma[i] = Unborn

(* The API server has the resource still guarded, and neither it nor the   *)
(* cache has gone back behind generation g, whose spec is s, or claims a   *)
(* later one as synced.                                                    *)
Ahead(vs, g, s) ==
    /\ vs[Len(vs)].fin
    /\ \A i \in 1..Len(vs) :
          /\ g <= vs[i].gen
          /\ vs[i].gen = g => vs[i].spec = s
          /\ vs[i].observed <= g

(* The finalizer is about to be put on a live resource; the cache has not  *)
(* gone back behind the version it is put on.                              *)
Finalizing ==
    pc = "finalize" =>
        /\ copy.exists /\ ~copy.deleting /\ ~copy.fin
        /\ \A i \in 1..Len(versions) : copy.rv <= versions[i].rv

(* A sync under way is for a generation the resource cannot fall behind.   *)
Syncing ==
    /\ pc = "resolve" => copy.exists /\ Ahead(versions, copy.gen, copy.spec)
    /\ pc \in {"list", "upsert", "get", "update"} => Ahead(versions, gen, want.spec)
    /\ pc \in {"get", "update"} /\ ~failed => id # 0 /\ kuma[id].sent = want

(* A deletion that has been seen is final, and comes before the finalizer  *)
(* goes.                                                                   *)
Deleting ==
    /\ pc \in {"delete", "unfinalize"} =>
          /\ copy.deleting
          /\ \A i \in 1..Len(versions) : versions[i].fin => versions[i].deleting
    /\ pc = "delete" => id = copy.id /\ id # 0
    /\ pc = "unfinalize" /\ copy.id # 0 => kuma[copy.id].st = "gone"

WorkerInv ==
    /\ Known(kuma, id)
    /\ pc # "idle" => LatestOf(Api, copy)
    /\ pc \in {"finalize", "resolve"} => copy.spec \in Specs
    /\ Finalizing /\ Syncing /\ Deleting

IInv == TypeInv /\ VersionsInv /\ FreshIds /\ WorkerInv

LEMMA AbsentSound ==
  \A k, n : SoundIn(k, [Absent EXCEPT !.rv = n])
BY DEF SoundIn, VouchedIn, Guarded, Known, Absent

LEMMA CreatedSound ==
  ASSUME NEW k, NEW s \in Specs
  PROVE  SoundIn(k, Created(s))
BY DEF SoundIn, VouchedIn, Guarded, Known, Created, Absent

LEMMA ApiSound ==
  ASSUME TypeOK, VersionsInv
  PROVE  /\ SoundIn(kuma, Api) /\ SoundIn(kuma, Cache)
         /\ \A i \in 1..Len(versions) :
               /\ LatestOf(Api, versions[i]) /\ Continues(versions[i], Api)
               /\ LatestOf(versions[i], Cache) /\ Continues(Cache, versions[i])
<1>1. Len(versions) \in Nat \ {0}
  BY VersionsType
<1>2. 1 \in 1..Len(versions) /\ Len(versions) \in 1..Len(versions)
  BY <1>1
<1>3. \A i \in 1..Len(versions) : 1 <= i /\ i <= Len(versions)
  BY <1>1
<1> QED
  BY <1>2, <1>3 DEF VersionsInv, Api, Cache

-----------------------------------------------------------------------------
(* Kuma.                                                                   *)

(* Kuma never takes an id back, and what is gone stays gone.               *)
Grows(k, l) ==
    \A i \in Ids : /\ k[i].st # "unborn" => l[i].st # "unborn"
                   /\ k[i].st = "gone" => l[i].st = "gone"

LEMMA GrowsKnown ==
  ASSUME NEW k, NEW l, Grows(k, l), NEW i \in Ids \cup {0}, Known(k, i)
  PROVE  Known(l, i)
BY DEF Grows, Known

(* Kuma's side of a step: what the versions say of it stays true.          *)
KumaKept ==
    /\ Grows(kuma, kuma') /\ FreshIds'
    /\ \A i \in 1..Len(versions) : SoundIn(kuma', versions[i])

(* Kuma changes without the operator asking for anything new.              *)
LEMMA UnaskedKept ==
  ASSUME IInv, Grows(kuma, kuma'), nextId' = nextId,
         \A i \in Ids : /\ kuma'[i].sent = kuma[i].sent
                        /\ kuma[i].st = "unborn" => kuma'[i] = kuma[i]
                        /\ kuma'[i].st = "live" => kuma[i].st = "live"
  PROVE  KumaKept
<1>1. FreshIds'
  BY DEF IInv, FreshIds, Unborn
<1>2. ASSUME NEW n \in 1..Len(versions)
      PROVE  SoundIn(kuma', versions[n])
  <2>1. versions[n].id \in Ids \cup {0} /\ SoundIn(kuma, versions[n])
    BY VersionsType DEF IInv, TypeInv, VersionsInv, Objects
  <2>2. Known(kuma', versions[n].id)
    BY <2>1, GrowsKnown DEF SoundIn
  <2>3. VouchedIn(kuma', versions[n])
    BY <2>1 DEF SoundIn, VouchedIn
  <2> QED
    BY <2>1, <2>2, <2>3 DEF SoundIn
<1> QED
  BY <1>1, <1>2 DEF KumaKept

LEMMA RemovedKept ==
  ASSUME IInv, NEW i \in Ids, Known(kuma, i), Removed(i), nextId' = nextId
  PROVE  KumaKept /\ kuma'[i].st = "gone"
<1>1. kuma \in [Ids -> Monitors] /\ i # 0
  BY BoundAssumption DEF IInv, TypeInv, TypeOK, Ids
<1>2. kuma'[i].st = "gone" /\ kuma'[i].sent = kuma[i].sent
  BY <1>1 DEF Removed, Monitors
<1>3. \A j \in Ids : j # i => kuma'[j] = kuma[j]
  BY <1>1 DEF Removed
<1>4. kuma[i].st # "unborn"
  BY <1>1 DEF Known
<1>5. Grows(kuma, kuma')
  BY <1>2, <1>3 DEF Grows
<1>6. \A j \in Ids : /\ kuma'[j].sent = kuma[j].sent
                     /\ kuma[j].st = "unborn" => kuma'[j] = kuma[j]
                     /\ kuma'[j].st = "live" => kuma[j].st = "live"
  BY <1>2, <1>3, <1>4
<1> QED
  BY <1>2, <1>5, <1>6, UnaskedKept

(* A monitor is created under an id no version mentions, or edited to what *)
(* the version that vouches for it asks for.                               *)
LEMMA UpsertedKept ==
  ASSUME IInv, pc = "upsert", Upserted
  PROVE  /\ KumaKept
         /\ (IF id = 0 THEN nextId ELSE id) \in Ids \ {0}
         /\ kuma'[IF id = 0 THEN nextId ELSE id].st = "live"
         /\ kuma'[IF id = 0 THEN nextId ELSE id].sent = want
<1> DEFINE a == IF id = 0 THEN nextId ELSE id
           m == [st |-> "live", cfg |-> want, sent |-> want]
<1>1. /\ nextId \in 1..MaxId + 1 /\ kuma \in [Ids -> Monitors] /\ MaxId \in Nat
      /\ id \in Ids \cup {0} /\ FreshIds
  BY BoundAssumption DEF IInv, TypeInv, TypeOK
<1>2. a \in Ids \ {0}
  BY <1>1 DEF Upserted, Ids
<1>3. kuma' = [kuma EXCEPT ![a] = m]
  BY DEF Upserted
<1>4. m.st = "live" /\ m.sent = want
  OBVIOUS
<1>5. /\ id = 0 => kuma[a] = Unborn /\ nextId' = nextId + 1 /\ a = nextId
      /\ id # 0 => kuma[a].st = "live" /\ nextId' = nextId /\ a = id
  BY <1>1, <1>2 DEF Upserted, FreshIds, Alive
<1> HIDE DEF a, m
<1>6. kuma'[a] = m /\ \A i \in Ids : i # a => kuma'[i] = kuma[i]
  BY <1>1, <1>2, <1>3
<1>7. kuma[a].st # "gone"
  BY <1>5 DEF Unborn
<1>8. Grows(kuma, kuma')
  BY <1>4, <1>6, <1>7 DEF Grows
<1>9. FreshIds'
  <2>1. CASE id = 0
    BY <1>1, <1>2, <1>5, <1>6, <2>1 DEF FreshIds, Ids
  <2>2. CASE id # 0
    <3>1. ~(a >= nextId)
      BY <1>1, <1>2, <1>5, <2>2 DEF FreshIds, Unborn
    <3> QED
      BY <1>1, <1>2, <1>5, <1>6, <2>2, <3>1 DEF FreshIds, Ids
  <2> QED
    BY <2>1, <2>2
<1>10. ASSUME NEW n \in 1..Len(versions)
       PROVE  SoundIn(kuma', versions[n])
  <2> DEFINE o == versions[n]
  <2>1. /\ o \in Objects /\ o.id \in Ids \cup {0} /\ SoundIn(kuma, o)
        /\ o.gen \in Nat /\ o.observed \in Nat /\ gen \in Nat
    BY VersionsType DEF IInv, TypeInv, TypeOK, VersionsInv, Objects
  <2>2. gen <= o.gen /\ (o.gen = gen => o.spec = want.spec) /\ o.observed <= gen
    BY DEF IInv, WorkerInv, Syncing, Ahead
  <2> HIDE DEF o
  <2>3. o.observed = o.gen => o.spec = want.spec
    BY <2>1, <2>2
  <2>4. Known(kuma', o.id)
    BY <1>8, <2>1, GrowsKnown DEF SoundIn
  <2>5. VouchedIn(kuma', o)
    <3>1. CASE o.id = a
      BY <1>4, <1>6, <2>3, <3>1 DEF VouchedIn
    <3>2. CASE o.id # a
      BY <1>6, <2>1, <3>2 DEF VouchedIn, SoundIn
    <3> QED
      BY <3>1, <3>2
  <2>6. SoundIn(kuma', o)
    BY <2>1, <2>4, <2>5 DEF SoundIn
  <2> QED
    BY <2>6 DEF o
<1>11. KumaKept /\ a \in Ids \ {0} /\ kuma'[a].st = "live" /\ kuma'[a].sent = want
  BY <1>2, <1>4, <1>6, <1>8, <1>9, <1>10 DEF KumaKept
<1> QED
  BY <1>11 DEF a

LEMMA SameKept ==
  ASSUME IInv, UNCHANGED <<kuma, nextId>>
  PROVE  KumaKept
BY DEF KumaKept, Grows, IInv, FreshIds, VersionsInv

LEMMA KumaStep ==
  ASSUME IInv, [Next]_vars
  PROVE  KumaKept
<1>1. CASE Upsert \/ UpsertFails
  <2>1. pc = "upsert" /\ (Upserted \/ UNCHANGED <<kuma, nextId>>)
    BY <1>1 DEF Upsert, UpsertFails
  <2> QED
    BY <2>1, UpsertedKept, SameKept
<1>2. CASE DeleteMonitor \/ DeleteFails
  <2>1. pc = "delete" /\ nextId' = nextId /\ (Removed(id) \/ UNCHANGED kuma)
    BY <1>2 DEF DeleteMonitor, DeleteFails
  <2>2. id \in Ids /\ Known(kuma, id)
    BY <2>1 DEF IInv, TypeInv, TypeOK, WorkerInv, Deleting
  <2> QED
    BY <2>1, <2>2, RemovedKept, SameKept
<1>3. ASSUME NEW i \in Ids, UiDelete(i)
      PROVE  KumaKept
  BY <1>3, RemovedKept DEF UiDelete, Alive, Known
<1>4. ASSUME NEW i \in Ids, UiEdit(i)
      PROVE  KumaKept
  <2>1. kuma \in [Ids -> Monitors] /\ kuma[i].st = "live" /\ nextId' = nextId
    BY <1>4 DEF UiEdit, Alive, IInv, TypeInv, TypeOK
  <2>2. \A j \in Ids : /\ kuma'[j].st = kuma[j].st /\ kuma'[j].sent = kuma[j].sent
                       /\ j # i => kuma'[j] = kuma[j]
    BY <1>4, <2>1 DEF UiEdit, Monitors
  <2>3. Grows(kuma, kuma')
    BY <2>2 DEF Grows
  <2>4. \A j \in Ids : kuma[j].st = "unborn" => kuma'[j] = kuma[j]
    BY <2>1, <2>2
  <2> QED
    BY <2>1, <2>2, <2>3, <2>4, UnaskedKept
<1>5. \/ Upsert \/ UpsertFails \/ DeleteMonitor \/ DeleteFails
      \/ \E i \in Ids : UiEdit(i) \/ UiDelete(i)
      \/ UNCHANGED <<kuma, nextId>>
  BY DEF Next, Reconcile, World, vars,
         ReconcileGone, ReconcileDeleting, ReconcileLive, RemoveFinalizer,
         RemoveFinalizerFails, AddFinalizer, AddFinalizerFails, Resolve,
         ResolveFails, List, ListFails, StatusGet, StatusSame,
         StatusGetFails, StatusUpdate, StatusRetry, StatusUpdateFails,
         SyncTags, SyncTagsFails, Deliver, UserEdit, UserDelete, SecretEdit,
         Crash
<1> QED
  BY <1>1, <1>2, <1>3, <1>4, <1>5, SameKept

-----------------------------------------------------------------------------
(* The resource.                                                           *)

(* A version just written has the fields asked for, or nothing at all.     *)
LEMMA NewerFields ==
  ASSUME TypeOK, NEW o \in Objects
  PROVE  /\ Newer(o).rv = Api.rv + 1
         /\ o.deleting /\ ~o.fin =>
               Newer(o) = [Absent EXCEPT !.rv = Api.rv + 1]
         /\ ~(o.deleting /\ ~o.fin) =>
               /\ Newer(o).exists = o.exists /\ Newer(o).deleting = o.deleting
               /\ Newer(o).gen = o.gen /\ Newer(o).spec = o.spec
               /\ Newer(o).fin = o.fin /\ Newer(o).id = o.id
               /\ Newer(o).observed = o.observed
<1> DEFINE w == [o EXCEPT !.rv = Api.rv + 1]
<1>1. /\ w.exists = o.exists /\ w.deleting = o.deleting /\ w.gen = o.gen
      /\ w.spec = o.spec /\ w.fin = o.fin /\ w.id = o.id
      /\ w.observed = o.observed /\ w.rv = Api.rv + 1
  BY DEF Objects
<1>2. [Absent EXCEPT !.rv = Api.rv + 1].rv = Api.rv + 1
  BY DEF Absent
<1> HIDE DEF w
<1>3. CASE o.deleting /\ ~o.fin
  <2>1. Settled(w) = [Absent EXCEPT !.rv = Api.rv + 1]
    BY <1>1, <1>3 DEF Settled
  <2> QED
    BY <1>2, <1>3, <2>1 DEF Newer, w
<1>4. CASE ~(o.deleting /\ ~o.fin)
  <2>1. Settled(w) = w
    BY <1>1, <1>4 DEF Settled
  <2>2. Newer(o) = w
    BY <2>1 DEF Newer, w
  <2> QED
    BY <1>1, <1>4, <2>2
<1> QED
  BY <1>3, <1>4

(* What a write may be: sound in itself, and a continuation of all there   *)
(* has been.                                                               *)
Fits(n) ==
    /\ SoundIn(kuma, n) /\ n.rv = Api.rv + 1
    /\ \A i \in 1..Len(versions) : Continues(versions[i], n)

LEMMA NewerFits ==
  ASSUME TypeOK, NEW o \in Objects, SoundIn(kuma, o),
         \A i \in 1..Len(versions) : Continues(versions[i], o)
  PROVE  Fits(Newer(o))
<1> DEFINE n == Newer(o)
<1>1. n.rv = Api.rv + 1
  BY NewerFields
<1>2. CASE o.deleting /\ ~o.fin
  <2>1. n = [Absent EXCEPT !.rv = Api.rv + 1]
    BY <1>2, NewerFields
  <2>2. [Absent EXCEPT !.rv = Api.rv + 1].fin = FALSE
    BY DEF Absent
  <2>3. SoundIn(kuma, [Absent EXCEPT !.rv = Api.rv + 1])
    BY AbsentSound
  <2>4. SoundIn(kuma, n) /\ n.fin = FALSE
    BY <2>1, <2>2, <2>3
  <2> HIDE DEF n
  <2>5. \A i \in 1..Len(versions) : Continues(versions[i], n)
    BY <1>2, <2>4 DEF Continues
  <2> QED
    BY <1>1, <2>4, <2>5 DEF Fits, n
<1>3. CASE ~(o.deleting /\ ~o.fin)
  <2>1. /\ n.exists = o.exists /\ n.deleting = o.deleting
        /\ n.gen = o.gen /\ n.spec = o.spec /\ n.fin = o.fin /\ n.id = o.id
        /\ n.observed = o.observed
    BY <1>3, NewerFields
  <2> HIDE DEF n
  <2>2. SoundIn(kuma, n)
    BY <2>1 DEF SoundIn, VouchedIn, Guarded
  <2>3. \A i \in 1..Len(versions) : Continues(versions[i], n)
    BY <2>1 DEF Continues
  <2> QED
    BY <1>1, <2>2, <2>3 DEF Fits, n
<1> QED
  BY <1>2, <1>3

(* The resource's side of a step: the versions keep their invariant, and a *)
(* version read earlier is still told from the API server's.               *)
VersionsKept ==
    /\ VersionsInv'
    /\ \A c \in Objects : LatestOf(Api, c) => LatestOf(Api', c)
    /\ \A c \in Objects :
          (\A i \in 1..Len(versions) : c.rv <= versions[i].rv)
          => (\A i \in 1..Len(versions') : c.rv <= versions'[i].rv)

(* Dropping versions from the front keeps the rest in order.               *)
LEMMA ShiftKept ==
  ASSUME TypeOK, VersionsInv, kuma' = kuma, NEW d \in {0, 1}, Api' = Api,
         Len(versions') \in Nat,
         \A i \in 1..Len(versions') :
            i + d \in 1..Len(versions) /\ versions'[i] = versions[i + d]
  PROVE  VersionsKept
<1>1. \A i \in 1..Len(versions') : SoundIn(kuma', versions'[i])
  BY DEF VersionsInv
<1>2. ASSUME NEW i \in 1..Len(versions'), NEW j \in 1..Len(versions'), i <= j
      PROVE  LatestOf(versions'[j], versions'[i])
             /\ Continues(versions'[i], versions'[j])
  <2>1. /\ i + d \in 1..Len(versions) /\ versions'[i] = versions[i + d]
        /\ j + d \in 1..Len(versions) /\ versions'[j] = versions[j + d]
        /\ i + d <= j + d
    BY <1>2
  <2> QED
    BY <2>1 DEF VersionsInv
<1>3. VersionsInv'
  BY <1>1, <1>2 DEF VersionsInv
<1> QED
  BY <1>3 DEF VersionsKept

LEMMA StoreKept ==
  ASSUME TypeOK, VersionsInv, kuma' = kuma, NEW o \in Objects, Store(o),
         Fits(Newer(o))
  PROVE  VersionsKept
<1>1. CASE versions' = versions
  BY <1>1 DEF VersionsInv, VersionsKept, Api
<1>2. CASE o # Api
  <2> DEFINE n == Newer(o)
             L == Len(versions')
  <2>1. PICK d \in {0, 1} : \A i \in 1..L :
           i # L => i + d \in 1..Len(versions) /\ versions'[i] = versions[i + d]
    BY <1>2, StoreShape
  <2>2. Api' = n /\ L \in Nat \ {0} /\ versions'[L] = n /\ n \in Objects
    BY <1>2, StoreShape, NewerType
  <2>3. /\ SoundIn(kuma, n) /\ n.rv = Api.rv + 1 /\ Api.rv \in Nat
        /\ \A i \in 1..Len(versions) :
              Continues(versions[i], n) /\ LatestOf(Api, versions[i])
        /\ \A c \in Objects : c.rv \in Nat
    BY VersionsType, ApiSound DEF Fits, Objects
  <2> HIDE DEF n, L
  <2>4. LatestOf(n, n) /\ Continues(n, n)
    BY <2>2, <2>3 DEF LatestOf, Continues, SoundIn, Objects
  <2>5. \A c \in Objects : LatestOf(Api, c) => LatestOf(n, c)
    BY <2>3 DEF LatestOf
  <2>6. \A i \in 1..L : SoundIn(kuma', versions'[i])
    BY <2>1, <2>2, <2>3 DEF VersionsInv
  <2>7. ASSUME NEW i \in 1..L, NEW j \in 1..L, i <= j
        PROVE  LatestOf(versions'[j], versions'[i])
               /\ Continues(versions'[i], versions'[j])
    <3>1. CASE i = L
      <4>1. j = L
        BY <2>2, <2>7, <3>1
      <4> QED
        BY <2>2, <2>4, <3>1, <4>1
    <3>2. CASE i # L /\ j = L
      <4>1. i + d \in 1..Len(versions) /\ versions'[i] = versions[i + d]
        BY <2>1, <3>2
      <4>2. versions[i + d] \in Objects
        BY <4>1, VersionsType
      <4> QED
        BY <2>2, <2>3, <2>5, <3>2, <4>1, <4>2
    <3>3. CASE i # L /\ j # L
      <4>1. /\ i + d \in 1..Len(versions) /\ versions'[i] = versions[i + d]
            /\ j + d \in 1..Len(versions) /\ versions'[j] = versions[j + d]
            /\ i + d <= j + d
        BY <2>1, <2>7, <3>3
      <4> QED
        BY <4>1 DEF VersionsInv
    <3> QED
      BY <3>1, <3>2, <3>3
  <2>8. VersionsInv'
    BY <2>6, <2>7 DEF VersionsInv, L
  <2>9. ASSUME NEW c \in Objects,
               \A i \in 1..Len(versions) : c.rv <= versions[i].rv
        PROVE  \A i \in 1..L : c.rv <= versions'[i].rv
    <3>1. c.rv <= Api.rv
      <4>1. Len(versions) \in 1..Len(versions)
        BY VersionsType
      <4> QED
        BY <2>9, <4>1 DEF Api
    <3>2. c.rv <= n.rv
      BY <2>3, <3>1
    <3> QED
      BY <2>1, <2>2, <2>9, <3>2
  <2> QED
    BY <2>2, <2>5, <2>8, <2>9 DEF VersionsKept, L
<1> QED
  BY <1>1, <1>2, StoreShape

(* What users write: a live, guarded resource stays so in a generation of  *)
(* its own, and no finalizer appears on one that is being deleted.         *)
UserWrites(o) ==
    /\ SoundIn(kuma, o)
    /\ \A i \in 1..Len(versions) : Continues(versions[i], o)
    /\ Api.fin => o.fin /\ o.gen = Api.gen + 1 /\ o.observed = Api.observed
    /\ o.fin => Api.fin /\ (Api.deleting => o.deleting)

LEMMA EditedWrites ==
  ASSUME TypeOK, VersionsInv, NEW o \in Objects,
         o.gen = Api.gen + 1, o.observed = Api.observed, o.id = Api.id,
         o.fin = Api.fin, o.exists = Api.exists, Api.deleting => o.deleting,
         o.exists => o.spec \in Specs
  PROVE  UserWrites(o)
<1>1. /\ SoundIn(kuma, Api) /\ Api.gen \in Nat /\ Api.observed \in Nat
      /\ \A i \in 1..Len(versions) :
            Continues(versions[i], Api) /\ versions[i].gen \in Nat
  BY ApiSound, VersionsType DEF Objects
<1>2. SoundIn(kuma, o)
  BY <1>1 DEF SoundIn, VouchedIn, Guarded
<1>3. ASSUME NEW i \in 1..Len(versions) PROVE Continues(versions[i], o)
  <2>1. Continues(versions[i], Api) /\ versions[i].gen \in Nat
    BY <1>1
  <2>2. versions[i].deleting /\ o.fin => o.deleting
    BY <2>1 DEF Continues
  <2>3. ASSUME versions[i].fin, ~versions[i].deleting
        PROVE  /\ o.fin /\ versions[i].gen <= o.gen /\ o.gen # versions[i].gen
               /\ o.observed <= versions[i].gen
    BY <1>1, <2>1, <2>3 DEF Continues
  <2> QED
    BY <2>2, <2>3 DEF Continues
<1> QED
  BY <1>2, <1>3 DEF UserWrites

LEMMA UserStores ==
  ASSUME TypeOK, VersionsInv, UserEdit \/ UserDelete
  PROVE  \E o \in Objects : Store(o) /\ UserWrites(o)
<1>1. Api \in Objects /\ SoundIn(kuma, Api)
  BY VersionsType, ApiSound
<1>2. ASSUME NEW s \in Specs, Api.exists, Store(Edited(s))
      PROVE  \E o \in Objects : Store(o) /\ UserWrites(o)
  <2> DEFINE o == Edited(s)
  <2>1. o \in Objects
    BY EditType
  <2>2. /\ o.gen = Api.gen + 1 /\ o.observed = Api.observed /\ o.id = Api.id
        /\ o.fin = Api.fin /\ o.exists = Api.exists
        /\ o.deleting = Api.deleting /\ o.spec = s
    BY <1>1 DEF Edited, Objects
  <2> HIDE DEF o
  <2>3. UserWrites(o)
    BY <2>1, <2>2, EditedWrites
  <2>4. Store(o)
    BY <1>2 DEF o
  <2> QED
    BY <2>1, <2>3, <2>4
<1>3. ASSUME NEW s \in Specs, ~Api.exists, Store(Created(s))
      PROVE  \E o \in Objects : Store(o) /\ UserWrites(o)
  <2>1. Created(s) \in Objects /\ SoundIn(kuma, Created(s))
    BY CreatedType, CreatedSound
  <2>2. Created(s).fin = FALSE
    BY DEF Created, Absent
  <2>3. ~Api.fin
    BY <1>1, <1>3 DEF SoundIn
  <2>4. \A i \in 1..Len(versions) : Continues(versions[i], Created(s))
    BY <2>2, <2>3, ApiSound DEF Continues
  <2>5. UserWrites(Created(s))
    BY <2>1, <2>2, <2>3, <2>4 DEF UserWrites
  <2> QED
    BY <1>3, <2>1, <2>5
<1>4. ASSUME Api.exists, Store(Doomed)
      PROVE  \E o \in Objects : Store(o) /\ UserWrites(o)
  <2> DEFINE o == Doomed
  <2>1. o \in Objects
    BY EditType
  <2>2. /\ o.gen = Api.gen + 1 /\ o.observed = Api.observed /\ o.id = Api.id
        /\ o.fin = Api.fin /\ o.exists = Api.exists /\ o.deleting = TRUE
        /\ o.spec = Api.spec
    BY <1>1 DEF Doomed, Objects
  <2> HIDE DEF o
  <2>3. UserWrites(o)
    BY <1>1, <2>1, <2>2, EditedWrites DEF SoundIn
  <2>4. Store(o)
    BY <1>4 DEF o
  <2> QED
    BY <2>1, <2>3, <2>4
<1> QED
  BY <1>2, <1>3, <1>4, EditShape DEF UserDelete, Doomed

(* The API server takes the finalizer off what it has just heard of as     *)
(* being deleted.                                                          *)
LEMMA ReleasedFits ==
  ASSUME IInv, pc = "unfinalize", Released
  PROVE  LET o == [copy EXCEPT !.fin = FALSE]
         IN  /\ copy = Api /\ o \in Objects /\ Store(o)
             /\ Newer(o) = [Absent EXCEPT !.rv = Api.rv + 1] /\ Fits(Newer(o))
<1> DEFINE o == [copy EXCEPT !.fin = FALSE]
           n == Newer(o)
<1>1. copy = Api /\ copy.deleting /\ Store(o) /\ TypeOK
  BY DEF IInv, TypeInv, WorkerInv, Deleting, LatestOf, Released
<1>2. o \in Objects
  BY WrittenType DEF IInv
<1>3. o.deleting = copy.deleting /\ o.fin = FALSE
  BY DEF IInv, TypeInv, TypeOK, Objects
<1> HIDE DEF o
<1>4. n = [Absent EXCEPT !.rv = Api.rv + 1] /\ n.rv = Api.rv + 1
  BY <1>1, <1>2, <1>3, NewerFields
<1>5. [Absent EXCEPT !.rv = Api.rv + 1].fin = FALSE
  BY DEF Absent
<1>6. SoundIn(kuma, [Absent EXCEPT !.rv = Api.rv + 1])
  BY AbsentSound
<1>7. SoundIn(kuma, n) /\ n.fin = FALSE
  BY <1>4, <1>5, <1>6
<1>8. \A i \in 1..Len(versions) : versions[i].fin => versions[i].deleting
  BY DEF IInv, WorkerInv, Deleting
<1> HIDE DEF n
<1>9. \A i \in 1..Len(versions) : Continues(versions[i], n)
  BY <1>7, <1>8 DEF Continues
<1>10. Fits(n)
  BY <1>4, <1>7, <1>9 DEF Fits
<1> QED
  BY <1>1, <1>2, <1>4, <1>10 DEF o, n

(* The finalizer is put on the only version there is.                      *)
LEMMA FinalizedFits ==
  ASSUME IInv, pc = "finalize", Finalized
  PROVE  LET o == [copy EXCEPT !.fin = TRUE]
         IN  /\ copy = Api /\ o \in Objects /\ Store(o) /\ Fits(Newer(o))
             /\ \A i \in 1..Len(versions) : versions[i] = Api
<1> DEFINE o == [copy EXCEPT !.fin = TRUE]
<1>1. /\ copy = Api /\ copy.exists /\ ~copy.deleting /\ ~copy.fin
      /\ Store(o) /\ TypeOK /\ VersionsInv
  BY DEF IInv, TypeInv, WorkerInv, Finalizing, LatestOf, Finalized
<1>2. o \in Objects
  BY WrittenType DEF IInv
<1>3. /\ o.exists = copy.exists /\ o.deleting = copy.deleting /\ o.fin = TRUE
      /\ o.gen = copy.gen /\ o.spec = copy.spec /\ o.id = copy.id
      /\ o.observed = copy.observed
  BY DEF IInv, TypeInv, TypeOK, Objects
<1>4. ASSUME NEW i \in 1..Len(versions) PROVE versions[i] = Api
  <2>1. versions[i].rv \in Nat /\ Api.rv \in Nat
    BY <1>1, VersionsType DEF Objects
  <2>2. Api.rv <= versions[i].rv
    BY <1>1 DEF IInv, WorkerInv, Finalizing
  <2>3. LatestOf(Api, versions[i])
    BY <1>1, ApiSound
  <2> QED
    BY <2>1, <2>2, <2>3 DEF LatestOf
<1> HIDE DEF o
<1>5. SoundIn(kuma, Api)
  BY <1>1, ApiSound
<1>6. SoundIn(kuma, o)
  BY <1>1, <1>3, <1>5 DEF SoundIn, VouchedIn, Guarded
<1>7. \A i \in 1..Len(versions) : Continues(versions[i], o)
  BY <1>1, <1>3, <1>4 DEF Continues
<1>8. Fits(Newer(o))
  BY <1>1, <1>2, <1>6, <1>7, NewerFits
<1> QED
  BY <1>1, <1>2, <1>4, <1>8 DEF o

(* The status is written on a version whose generation is the one synced,  *)
(* or a later one.                                                         *)
LEMMA ReportingFits ==
  ASSUME IInv, pc = "update", ~Conflict
  PROVE  LET o == Reporting(copy)
         IN  /\ copy = Api /\ o \in Objects /\ Fits(Newer(o))
             /\ o.fin = TRUE /\ Api.fin = TRUE /\ o.deleting = Api.deleting
             /\ Known(kuma, o.id) /\ o.id \in Ids \cup {0}
<1> DEFINE o == Reporting(copy)
<1>1. /\ copy = Api /\ Api.fin /\ TypeOK /\ VersionsInv /\ copy \in Objects
      /\ gen \in Nat /\ id \in Ids \cup {0} /\ Known(kuma, id)
      /\ SoundIn(kuma, Api)
      /\ \A i \in 1..Len(versions) :
            /\ gen <= versions[i].gen
            /\ versions[i].gen = gen => versions[i].spec = want.spec
            /\ versions[i].observed <= gen /\ Continues(versions[i], Api)
  BY ApiSound
  DEF IInv, TypeInv, TypeOK, WorkerInv, Syncing, Ahead, Api, LatestOf, Conflict
<1>2. o \in Objects
  BY WrittenType DEF IInv
<1>3. Api.fin = TRUE /\ gen <= Api.gen /\ (Api.gen = gen => Api.spec = want.spec)
  <2>1. Len(versions) \in 1..Len(versions)
    BY <1>1, VersionsType
  <2>2. Api.fin \in BOOLEAN
    BY <1>1, VersionsType DEF Objects
  <2> QED
    BY <1>1, <2>1, <2>2 DEF Api
<1>4. /\ o.exists = Api.exists /\ o.deleting = Api.deleting /\ o.fin = Api.fin
      /\ o.gen = Api.gen /\ o.spec = Api.spec
  BY <1>1 DEF Reporting, Objects
<1>5. \/ failed /\ o.id = Api.id /\ o.observed = Api.observed
      \/ ~failed /\ o.id = id /\ o.observed = gen
  BY <1>1 DEF Reporting, Objects
<1> HIDE DEF o
<1>6. Known(kuma, o.id) /\ o.observed <= o.gen /\ o.id \in Ids \cup {0}
  BY <1>1, <1>2, <1>3, <1>4, <1>5 DEF SoundIn, Objects
<1>7. VouchedIn(kuma, o)
  <2>1. CASE failed
    BY <1>1, <1>4, <1>5, <2>1 DEF VouchedIn, SoundIn
  <2>2. CASE ~failed
    <3>1. kuma[id].sent = want
      BY <2>2 DEF IInv, WorkerInv, Syncing
    <3> QED
      BY <1>3, <1>4, <1>5, <2>2, <3>1 DEF VouchedIn
  <2> QED
    BY <2>1, <2>2
<1>8. SoundIn(kuma, o)
  BY <1>1, <1>3, <1>4, <1>6, <1>7 DEF SoundIn, Guarded
<1>9. \A i \in 1..Len(versions) : Continues(versions[i], o)
  BY <1>1, <1>4, <1>5 DEF Continues
<1>10. Fits(Newer(o))
  BY <1>1, <1>2, <1>8, <1>9, NewerFits
<1> QED
  BY <1>1, <1>2, <1>3, <1>4, <1>6, <1>10 DEF o

LEMMA SameVersions ==
  ASSUME IInv, [Next]_vars, versions' = versions
  PROVE  VersionsKept
<1>1. \A i \in 1..Len(versions) : SoundIn(kuma', versions[i])
  BY KumaStep DEF KumaKept
<1> QED
  BY <1>1 DEF IInv, VersionsInv, VersionsKept, Api

LEMMA VersionStep ==
  ASSUME IInv, [Next]_vars
  PROVE  VersionsKept
<1>1. TypeOK /\ VersionsInv
  BY DEF IInv, TypeInv
<1>2. CASE Deliver
  <2>1. /\ Api' = Api /\ Len(versions') \in Nat /\ 1 \in {0, 1}
        /\ kuma' = kuma
        /\ \A i \in 1..Len(versions') :
              i + 1 \in 1..Len(versions) /\ versions'[i] = versions[i + 1]
    BY <1>1, <1>2, TailShape, VersionsType DEF Deliver
  <2> QED
    BY <1>1, <2>1, ShiftKept
<1>3. CASE Crash
  <2>1. versions' = <<Api>> /\ Len(versions') = 1 /\ Api' = Api /\ kuma' = kuma
        /\ versions'[1] = Api
    BY <1>3 DEF Crash, Api
  <2>2. /\ SoundIn(kuma, Api) /\ LatestOf(Api, Api) /\ Continues(Api, Api)
        /\ Len(versions) \in 1..Len(versions)
    <3>1. Len(versions) \in 1..Len(versions)
      BY <1>1, VersionsType
    <3> QED
      BY <1>1, <3>1, ApiSound DEF Api
  <2>3. VersionsInv'
    BY <2>1, <2>2 DEF VersionsInv
  <2>4. \A c \in Objects :
          (\A i \in 1..Len(versions) : c.rv <= versions[i].rv) => c.rv <= Api.rv
    BY <2>2 DEF Api
  <2> QED
    BY <2>1, <2>3, <2>4 DEF VersionsKept
<1>4. CASE UserEdit \/ UserDelete
  <2>1. PICK o \in Objects : Store(o) /\ UserWrites(o)
    BY <1>1, <1>4, UserStores
  <2>2. Fits(Newer(o))
    BY <1>1, <2>1, NewerFits DEF UserWrites
  <2>3. kuma' = kuma
    BY <1>4 DEF UserEdit, UserDelete
  <2> QED
    BY <1>1, <2>1, <2>2, <2>3, StoreKept
<1>5. CASE RemoveFinalizer \/ RemoveFinalizerFails
  <2>1. pc = "unfinalize" /\ kuma' = kuma /\ (versions' = versions \/ Released)
    BY <1>5 DEF RemoveFinalizer, RemoveFinalizerFails
  <2> QED
    BY <1>1, <2>1, ReleasedFits, StoreKept, SameVersions
<1>6. CASE AddFinalizer \/ AddFinalizerFails
  <2>1. pc = "finalize" /\ kuma' = kuma /\ (versions' = versions \/ Finalized)
    BY <1>6 DEF AddFinalizer, AddFinalizerFails
  <2> QED
    BY <1>1, <2>1, FinalizedFits, StoreKept, SameVersions
<1>7. CASE StatusUpdate \/ StatusUpdateFails
  <2>1. /\ pc = "update" /\ kuma' = kuma
        /\ versions' = versions \/ (~Conflict /\ Store(Reporting(copy)))
    BY <1>7 DEF StatusUpdate, StatusUpdateFails
  <2> QED
    BY <1>1, <2>1, ReportingFits, StoreKept, SameVersions
<1>8. \/ versions' = versions \/ Deliver \/ Crash \/ UserEdit \/ UserDelete
      \/ RemoveFinalizer \/ RemoveFinalizerFails
      \/ AddFinalizer \/ AddFinalizerFails
      \/ StatusUpdate \/ StatusUpdateFails
  BY DEF Next, Reconcile, World, vars,
         ReconcileGone, ReconcileDeleting, ReconcileLive, DeleteMonitor,
         DeleteFails, Resolve, ResolveFails, List, ListFails, Upsert,
         UpsertFails, StatusGet, StatusSame, StatusGetFails, StatusRetry,
         SyncTags, SyncTagsFails, SecretEdit, UiEdit, UiDelete
<1> QED
  BY <1>2, <1>3, <1>4, <1>5, <1>6, <1>7, <1>8, SameVersions

-----------------------------------------------------------------------------
(* The running reconcile keeps its part of the invariant.                  *)

LEMMA WorkerIdle ==
  ASSUME Forget
  PROVE  WorkerInv'
BY DEF Forget, WorkerInv, Known, Finalizing, Syncing, Deleting

(* Users leave a guarded resource where a sync under way has it.           *)
LEMMA AheadKept ==
  ASSUME TypeOK, VersionsInv, NEW o \in Objects, Store(o), UserWrites(o),
         NEW g \in Nat, NEW s, Ahead(versions, g, s)
  PROVE  Ahead(versions', g, s)
<1>1. CASE versions' = versions
  BY <1>1 DEF Ahead, Api
<1>2. CASE o # Api
  <2>1. PICK d \in {0, 1} : \A i \in 1..Len(versions') :
           i # Len(versions')
           => i + d \in 1..Len(versions) /\ versions'[i] = versions[i + d]
    BY <1>2, StoreShape
  <2>2. /\ Api' = Newer(o) /\ versions'[Len(versions')] = Newer(o)
    BY <1>2, StoreShape
  <2>3. /\ o.fin /\ o.gen = Api.gen + 1 /\ o.observed = Api.observed
        /\ Api.gen \in Nat /\ g <= Api.gen /\ Api.observed <= g
    <3>1. Len(versions) \in 1..Len(versions) /\ Api \in Objects
      BY VersionsType
    <3> QED
      BY <3>1 DEF Ahead, UserWrites, Api, Objects
  <2>4. /\ Newer(o).fin = o.fin /\ Newer(o).gen = o.gen
        /\ Newer(o).observed = o.observed
    BY <2>3, NewerFields
  <2>5. Newer(o).fin /\ g < Newer(o).gen /\ Newer(o).observed <= g
    BY <2>3, <2>4
  <2>6. ASSUME NEW i \in 1..Len(versions')
        PROVE  /\ g <= versions'[i].gen
               /\ versions'[i].gen = g => versions'[i].spec = s
               /\ versions'[i].observed <= g
    <3>1. CASE i = Len(versions')
      BY <2>2, <2>3, <2>4, <2>5, <3>1
    <3>2. CASE i # Len(versions')
      BY <2>1, <3>2 DEF Ahead
    <3> QED
      BY <3>1, <3>2
  <2> QED
    BY <2>2, <2>5, <2>6 DEF Ahead, Api
<1> QED
  BY <1>1, <1>2, StoreShape

(* Nor do they bring back what is being deleted.                           *)
LEMMA DeletingKept ==
  ASSUME TypeOK, VersionsInv, NEW o \in Objects, Store(o), UserWrites(o),
         \A i \in 1..Len(versions) : versions[i].fin => versions[i].deleting
  PROVE  \A i \in 1..Len(versions') : versions'[i].fin => versions'[i].deleting
<1>1. CASE versions' = versions
  BY <1>1
<1>2. CASE o # Api
  <2>1. PICK d \in {0, 1} : \A i \in 1..Len(versions') :
           i # Len(versions')
           => i + d \in 1..Len(versions) /\ versions'[i] = versions[i + d]
    BY <1>2, StoreShape
  <2>2. versions'[Len(versions')] = Newer(o)
    BY <1>2, StoreShape
  <2>3. o.fin => o.deleting
    <3>1. Len(versions) \in 1..Len(versions)
      BY VersionsType
    <3> QED
      BY <3>1 DEF UserWrites, Api
  <2>4. [Absent EXCEPT !.rv = Api.rv + 1].fin = FALSE
    BY DEF Absent
  <2>5. Newer(o).fin => Newer(o).deleting
    BY <2>3, <2>4, NewerFields
  <2> QED
    BY <2>1, <2>2, <2>5
<1> QED
  BY <1>1, <1>2, StoreShape

(* A step that leaves the reconcile's variables alone keeps what the       *)
(* reconcile knows of Kuma and of the version it has read.                 *)
LEMMA WorkerWaits ==
  ASSUME IInv, [Next]_vars, UNCHANGED worker,
         \A i \in Ids : kuma'[i].sent = kuma[i].sent,
         \A g \in Nat : \A s : Ahead(versions, g, s) => Ahead(versions', g, s),
         (\A i \in 1..Len(versions) : versions[i].fin => versions[i].deleting)
         => (\A i \in 1..Len(versions') : versions'[i].fin => versions'[i].deleting)
  PROVE  WorkerInv'
<1>1. UNCHANGED <<pc, copy, want, id, gen, failed, tries>>
  BY DEF worker
<1>2. /\ Grows(kuma, kuma') /\ VersionsKept /\ WorkerInv
      /\ copy \in Objects /\ id \in Ids \cup {0} /\ gen \in Nat
      /\ copy.gen \in Nat /\ copy.id \in Ids \cup {0}
  BY KumaStep, VersionStep DEF KumaKept, IInv, TypeInv, TypeOK, Objects
<1>3. Known(kuma', id)
  BY <1>2, GrowsKnown DEF WorkerInv
<1>4. pc # "idle" => LatestOf(Api', copy)
  BY <1>2 DEF WorkerInv, VersionsKept
<1>5. Finalizing'
  BY <1>1, <1>2 DEF WorkerInv, VersionsKept, Finalizing
<1>6. Syncing'
  <2>1. pc = "resolve" => copy.exists /\ Ahead(versions', copy.gen, copy.spec)
    BY <1>2 DEF WorkerInv, Syncing
  <2>2. pc \in {"list", "upsert", "get", "update"} => Ahead(versions', gen, want.spec)
    BY <1>2 DEF WorkerInv, Syncing
  <2>3. pc \in {"get", "update"} /\ ~failed => id # 0 /\ kuma'[id].sent = want
    BY <1>2 DEF WorkerInv, Syncing
  <2> QED
    BY <1>1, <2>1, <2>2, <2>3 DEF Syncing, Ahead
<1>7. Deleting'
  BY <1>1, <1>2 DEF WorkerInv, Deleting, Grows
<1> QED
  BY <1>1, <1>2, <1>3, <1>4, <1>5, <1>6, <1>7 DEF WorkerInv

LEMMA WorkerOutside ==
  ASSUME IInv, [Next]_vars, UNCHANGED worker,
         \/ versions' = versions /\ \A i \in Ids : kuma'[i].sent = kuma[i].sent
         \/ Deliver \/ UserEdit \/ UserDelete
  PROVE  WorkerInv'
<1>1. TypeOK /\ VersionsInv
  BY DEF IInv, TypeInv
<1>2. CASE versions' = versions /\ \A i \in Ids : kuma'[i].sent = kuma[i].sent
  BY <1>2, WorkerWaits
<1>3. CASE Deliver
  <2>1. /\ kuma' = kuma /\ Len(versions') = Len(versions) - 1
        /\ Len(versions) \in Nat /\ Len(versions') \in 1..Len(versions')
        /\ \A i \in 1..Len(versions') :
              i + 1 \in 1..Len(versions) /\ versions'[i] = versions[i + 1]
    BY <1>1, <1>3, TailShape, VersionsType DEF Deliver
  <2>2. versions'[Len(versions')] = versions[Len(versions)]
    BY <2>1
  <2>3. ASSUME NEW g \in Nat, NEW s, Ahead(versions, g, s)
        PROVE  Ahead(versions', g, s)
    BY <2>1, <2>2, <2>3 DEF Ahead
  <2>4. (\A i \in 1..Len(versions) : versions[i].fin => versions[i].deleting)
        => \A i \in 1..Len(versions') : versions'[i].fin => versions'[i].deleting
    BY <2>1
  <2> QED
    BY <2>1, <2>3, <2>4, WorkerWaits
<1>4. CASE UserEdit \/ UserDelete
  <2>1. PICK o \in Objects : Store(o) /\ UserWrites(o)
    BY <1>1, <1>4, UserStores
  <2>2. kuma' = kuma
    BY <1>4 DEF UserEdit, UserDelete
  <2> QED
    BY <1>1, <2>1, <2>2, AheadKept, DeletingKept, WorkerWaits
<1> QED
  BY <1>2, <1>3, <1>4

(* Whatever the cache shows of a guarded live resource, the API server has *)
(* it guarded still, and has not gone back behind it.                      *)
LEMMA CacheAhead ==
  ASSUME TypeOK, VersionsInv, Cache.fin, ~Cache.deleting
  PROVE  Ahead(versions, Cache.gen, Cache.spec)
<1>1. \A i \in 1..Len(versions) : Continues(Cache, versions[i])
  BY ApiSound
<1>2. Len(versions) \in 1..Len(versions)
  BY VersionsType
<1> QED
  BY <1>1, <1>2 DEF Continues, Ahead

LEMMA WorkerStart ==
  ASSUME IInv, ReconcileDeleting \/ ReconcileLive
  PROVE  WorkerInv'
<1>1. /\ TypeOK /\ VersionsInv /\ SoundIn(kuma, Cache) /\ LatestOf(Api, Cache)
      /\ Cache \in Objects
      /\ \A i \in 1..Len(versions) :
            LatestOf(versions[i], Cache) /\ Continues(Cache, versions[i])
  <2>1. TypeOK /\ VersionsInv /\ Len(versions) \in 1..Len(versions)
    BY VersionsType DEF IInv, TypeInv
  <2> QED
    BY <2>1, ApiSound, VersionsType DEF Api
<1>2. /\ copy' = Cache /\ id' = Cache.id /\ Cache.exists
      /\ UNCHANGED <<versions, kuma>> /\ Api' = Api
  BY DEF ReconcileDeleting, ReconcileLive, Api
<1>3. Known(kuma', id') /\ LatestOf(Api', copy')
  BY <1>1, <1>2 DEF SoundIn
<1>4. CASE ReconcileDeleting
  <2>1. /\ Cache.deleting /\ pc' \in {"delete", "unfinalize"}
        /\ pc' = "delete" => Cache.id # 0
        /\ pc' = "unfinalize" => Cache.id = 0
    BY <1>4 DEF ReconcileDeleting
  <2>2. Deleting'
    BY <1>1, <1>2, <2>1 DEF Deleting, Continues
  <2> QED
    BY <1>3, <2>1, <2>2 DEF WorkerInv, Finalizing, Syncing
<1>5. CASE ReconcileLive
  <2>1. /\ ~Cache.deleting
        /\ (pc' = "resolve" /\ Cache.fin) \/ (pc' = "finalize" /\ ~Cache.fin)
    BY <1>5 DEF ReconcileLive, FirstCall
  <2>2. copy'.spec \in Specs
    BY <1>1, <1>2 DEF SoundIn
  <2>3. Finalizing'
    BY <1>1, <1>2, <2>1 DEF Finalizing, LatestOf
  <2>4. Syncing'
    BY <1>1, <1>2, <2>1, CacheAhead DEF Syncing
  <2>5. Deleting'
    BY <2>1 DEF Deleting
  <2> QED
    BY <1>3, <2>2, <2>3, <2>4, <2>5 DEF WorkerInv
<1> QED
  BY <1>4, <1>5

LEMMA WorkerDeletes ==
  ASSUME IInv, DeleteMonitor
  PROVE  WorkerInv'
<1>1. /\ pc = "delete" /\ id = copy.id /\ id \in Ids /\ Known(kuma, id)
      /\ LatestOf(Api, copy) /\ copy.deleting
      /\ \A i \in 1..Len(versions) : versions[i].fin => versions[i].deleting
  BY DEF DeleteMonitor, IInv, TypeInv, TypeOK, WorkerInv, Deleting
<1>2. /\ pc' = "unfinalize" /\ UNCHANGED <<versions, copy, id>> /\ Api' = Api
      /\ Removed(id) /\ nextId' = nextId
  BY DEF DeleteMonitor, Api
<1>3. KumaKept /\ kuma'[id].st = "gone"
  BY <1>1, <1>2, RemovedKept
<1>4. Known(kuma', id')
  BY <1>2, <1>3 DEF Known
<1>5. Deleting'
  BY <1>1, <1>2, <1>3 DEF Deleting
<1> QED
  BY <1>1, <1>2, <1>4, <1>5 DEF WorkerInv, Finalizing, Syncing

LEMMA WorkerGuards ==
  ASSUME IInv, [Next]_vars, AddFinalizer
  PROVE  WorkerInv'
<1> DEFINE o == [copy EXCEPT !.fin = TRUE]
           n == Newer(o)
<1>1. /\ pc = "finalize" /\ Finalized /\ pc' = "resolve" /\ id' = id
      /\ kuma' = kuma /\ copy' = versions'[Len(versions')]
  BY DEF AddFinalizer
<1>2. /\ copy = Api /\ o \in Objects /\ Store(o)
      /\ \A i \in 1..Len(versions) : versions[i] = Api
  BY <1>1, FinalizedFits
<1>3. /\ copy.exists /\ ~copy.deleting /\ ~copy.fin /\ copy.spec \in Specs
      /\ Known(kuma, id) /\ TypeOK /\ VersionsInv /\ copy \in Objects
  BY <1>1 DEF IInv, TypeInv, TypeOK, WorkerInv, Finalizing
<1>4. /\ o.exists /\ ~o.deleting /\ o.fin /\ o.gen = copy.gen
      /\ o.spec = copy.spec /\ o.observed = copy.observed
  BY <1>3 DEF Objects
<1>5. o # Api
  BY <1>2, <1>3, <1>4
<1>6. /\ n.exists /\ n.fin /\ n.gen = Api.gen /\ n.spec = Api.spec
      /\ n.observed = Api.observed
  BY <1>2, <1>3, <1>4, NewerFields
<1>7. PICK d \in {0, 1} : \A i \in 1..Len(versions') :
         i # Len(versions')
         => i + d \in 1..Len(versions) /\ versions'[i] = versions[i + d]
  BY <1>2, <1>3, <1>5, StoreShape
<1>8. Api' = n /\ versions'[Len(versions')] = n
  BY <1>2, <1>3, <1>5, StoreShape
<1> HIDE DEF n, o
<1>9. ASSUME NEW i \in 1..Len(versions')
      PROVE  /\ versions'[i].gen = Api.gen /\ versions'[i].spec = Api.spec
             /\ versions'[i].observed = Api.observed
  BY <1>2, <1>6, <1>7, <1>8
<1>10. Api.gen \in Nat /\ Api.observed <= Api.gen
  BY <1>3, ApiSound, VersionsType DEF SoundIn, Objects
<1>11. Ahead(versions', n.gen, n.spec)
  BY <1>6, <1>8, <1>9, <1>10 DEF Ahead
<1>12. LatestOf(Api', copy')
  <2>1. n.rv \in Nat
    BY <1>2, <1>3, NewerType DEF n, Objects
  <2> QED
    BY <1>1, <1>8, <2>1 DEF LatestOf
<1>13. Syncing'
  BY <1>1, <1>6, <1>8, <1>11 DEF Syncing
<1>14. copy'.spec \in Specs /\ Known(kuma', id')
  BY <1>1, <1>2, <1>3, <1>6, <1>8
<1> QED
  BY <1>1, <1>12, <1>13, <1>14 DEF WorkerInv, Finalizing, Deleting

LEMMA WorkerReads ==
  ASSUME IInv, [Next]_vars,
         Resolve \/ List \/ StatusGet \/ StatusRetry
  PROVE  WorkerInv'
<1>1. /\ UNCHANGED <<versions, kuma, failed>> /\ Api' = Api
      /\ TypeOK /\ VersionsInv /\ WorkerInv
  BY DEF Resolve, List, StatusGet, StatusRetry, Api, IInv, TypeInv
<1>2. LatestOf(Api, copy) /\ LatestOf(Api, Cache)
  <2>1. Len(versions) \in 1..Len(versions)
    BY <1>1, VersionsType
  <2> QED
    BY <1>1, <2>1, ApiSound
    DEF WorkerInv, Resolve, List, StatusGet, StatusRetry, Api
<1>3. CASE Resolve
  <2>1. /\ pc = "resolve" /\ pc' \in {"list", "upsert"} /\ UNCHANGED <<copy, id>>
        /\ want'.spec = copy.spec /\ gen' = copy.gen
    BY <1>3 DEF Resolve
  <2>2. Syncing'
    BY <1>1, <2>1 DEF WorkerInv, Syncing
  <2> QED
    BY <1>1, <1>2, <2>1, <2>2 DEF WorkerInv, Finalizing, Deleting
<1>4. CASE List
  <2>1. /\ pc = "list" /\ pc' \in {"tags", "upsert"} /\ id' \in {0, id}
        /\ UNCHANGED <<copy, want, gen>>
    BY <1>4 DEF List
  <2>2. Syncing'
    BY <1>1, <2>1 DEF WorkerInv, Syncing
  <2>3. Known(kuma', id')
    BY <1>1, <2>1 DEF WorkerInv, Known
  <2> QED
    BY <1>1, <1>2, <2>1, <2>2, <2>3 DEF WorkerInv, Finalizing, Deleting
<1>5. CASE StatusGet \/ StatusRetry
  <2>1. /\ pc \in {"get", "update"} /\ pc' \in {"get", "update"}
        /\ copy' \in {copy, Cache} /\ UNCHANGED <<want, gen, id>>
    BY <1>5 DEF StatusGet, StatusRetry
  <2>2. Syncing'
    BY <1>1, <2>1 DEF WorkerInv, Syncing
  <2> QED
    BY <1>1, <1>2, <2>1, <2>2 DEF WorkerInv, Finalizing, Deleting
<1> QED
  BY <1>3, <1>4, <1>5

LEMMA WorkerUpserts ==
  ASSUME IInv, Upsert \/ UpsertFails
  PROVE  WorkerInv'
<1>1. /\ pc = "upsert" /\ pc' = "get"
      /\ UNCHANGED <<versions, copy, want, gen>> /\ Api' = Api
      /\ LatestOf(Api, copy) /\ Ahead(versions, gen, want.spec)
      /\ Known(kuma, id) /\ id \in Ids \cup {0}
  BY DEF Upsert, UpsertFails, Api, IInv, TypeInv, TypeOK, WorkerInv, Syncing
<1>2. CASE Upsert
  <2>1. /\ id' \in Ids \ {0} /\ kuma'[id'].st = "live" /\ kuma'[id'].sent = want
    BY <1>1, <1>2, UpsertedKept DEF Upsert
  <2>2. Known(kuma', id')
    BY <2>1 DEF Known
  <2>3. Syncing'
    BY <1>1, <2>1 DEF Syncing
  <2> QED
    BY <1>1, <2>2, <2>3 DEF WorkerInv, Finalizing, Deleting
<1>3. CASE UpsertFails
  <2>1. failed' = TRUE /\ id' = id
    BY <1>3 DEF UpsertFails
  <2>2. Upserted \/ UNCHANGED <<kuma, nextId>>
    BY <1>3 DEF UpsertFails
  <2>3. Known(kuma', id')
    BY <1>1, <2>1, <2>2, UpsertedKept, SameKept, GrowsKnown DEF KumaKept
  <2>4. Syncing'
    BY <1>1, <2>1 DEF Syncing
  <2> QED
    BY <1>1, <2>3, <2>4 DEF WorkerInv, Finalizing, Deleting
<1> QED
  BY <1>2, <1>3

LEMMA WorkerReports ==
  ASSUME IInv, [Next]_vars, StatusSame \/ StatusUpdate
  PROVE  WorkerInv'
<1>1. Reported /\ pc # "idle" /\ kuma' = kuma
  BY DEF StatusSame, StatusUpdate
<1>2. CASE Forget
  BY <1>2, WorkerIdle
<1>3. CASE pc' = "tags" /\ UNCHANGED <<copy, id>>
  <2>1. Known(kuma, id) /\ LatestOf(Api, copy) /\ copy \in Objects
    BY <1>1 DEF IInv, TypeInv, TypeOK, WorkerInv
  <2>2. LatestOf(Api', copy)
    BY <2>1, VersionStep DEF VersionsKept
  <2> QED
    BY <1>1, <1>3, <2>1, <2>2 DEF WorkerInv, Finalizing, Syncing, Deleting
<1> QED
  BY <1>1, <1>2, <1>3 DEF Reported, Return

LEMMA WorkerStep ==
  ASSUME IInv, [Next]_vars
  PROVE  WorkerInv'
<1>1. ASSUME NEW i \in Ids, UiEdit(i) \/ UiDelete(i)
      PROVE  \A j \in Ids : kuma'[j].sent = kuma[j].sent
  BY <1>1 DEF UiEdit, UiDelete, Removed, IInv, TypeInv, TypeOK, Monitors
<1>2. \/ Forget
      \/ UNCHANGED worker /\ versions' = versions /\ UNCHANGED kuma
      \/ UNCHANGED worker /\ (Deliver \/ UserEdit \/ UserDelete)
      \/ /\ UNCHANGED worker /\ versions' = versions
         /\ \E i \in Ids : UiEdit(i) \/ UiDelete(i)
      \/ ReconcileDeleting \/ ReconcileLive \/ DeleteMonitor \/ AddFinalizer
      \/ Resolve \/ List \/ StatusGet \/ StatusRetry
      \/ Upsert \/ UpsertFails \/ StatusSame \/ StatusUpdate
  BY DEF Next, Reconcile, World, vars, worker, Return,
         ReconcileGone, DeleteFails, RemoveFinalizer, RemoveFinalizerFails,
         AddFinalizerFails, ResolveFails, ListFails, StatusGetFails,
         StatusUpdateFails, SyncTags, SyncTagsFails, Deliver, UserEdit,
         UserDelete, SecretEdit, UiEdit, UiDelete, Crash
<1> QED
  BY <1>1, <1>2, WorkerIdle, WorkerOutside, WorkerStart, WorkerDeletes,
     WorkerGuards, WorkerReads, WorkerUpserts, WorkerReports

-----------------------------------------------------------------------------
(* The theorems.                                                           *)

LEMMA IInvInit == Init => IInv
<1> SUFFICES ASSUME Init PROVE IInv
  OBVIOUS
<1>1. TypeInv
  BY TypeInit
<1>2. PICK s \in Specs : versions = <<Created(s)>>
  BY DEF Init
<1>3. Len(versions) = 1 /\ versions[1] = Created(s)
  BY <1>2
<1>4. /\ SoundIn(kuma, Created(s)) /\ Created(s).fin = FALSE
      /\ Created(s).rv = 0 /\ Created(s).deleting = FALSE
  BY CreatedSound DEF Created, Absent
<1>5. VersionsInv
  BY <1>3, <1>4 DEF VersionsInv, LatestOf, Continues
<1>6. FreshIds
  BY DEF Init, FreshIds
<1>7. WorkerInv
  BY DEF Init, WorkerInv, Known, Finalizing, Syncing, Deleting
<1> QED
  BY <1>1, <1>5, <1>6, <1>7 DEF IInv

LEMMA IInvStep ==
  ASSUME IInv, [Next]_vars
  PROVE  IInv'
<1>1. TypeInv'
  BY TypeStep DEF IInv, WorkerInv
<1>2. FreshIds' /\ VersionsInv' /\ WorkerInv'
  BY KumaStep, VersionStep, WorkerStep DEF KumaKept, VersionsKept
<1> QED
  BY <1>1, <1>2 DEF IInv

THEOREM Inductive == Spec => []IInv
BY IInvInit, IInvStep, PTL DEF Spec

(* Every variable keeps its type, in particular a conflicting status write *)
(* is never attempted more than RetrySteps times (RetryOnConflict) and no  *)
(* monitor is made without a configuration.                                *)
THEOREM TypeCorrect == Spec => []TypeOK
<1>1. IInv => TypeOK
  BY DEF IInv, TypeInv
<1> QED
  BY <1>1, Inductive, PTL

(* No edit of the spec made while a sync is under way is ever taken for    *)
(* synced: not with any cache lag, any retries of the status write, any    *)
(* faults or crashes, nor when the resource is deleted and created again   *)
(* meanwhile (generationToSync, updateStatus).                             *)
THEOREM VouchCorrect == Spec => []GenerationVouches
<1>1. ASSUME IInv, NEW n \in 1..Len(versions)
      PROVE  Vouched(versions[n])
  BY <1>1 DEF IInv, VersionsInv, SoundIn, VouchedIn, Vouched, Alive
<1>2. IInv => GenerationVouches
  BY <1>1 DEF GenerationVouches
<1> QED
  BY <1>2, Inductive, PTL

(* A resource with a monitor on record carries the finalizer (the call     *)
(* order of Reconcile, the optimistic lock of updateStatus).               *)
THEOREM GuardCorrect == Spec => []MonitorGuarded
<1>1. IInv => MonitorGuarded
  BY DEF IInv, VersionsInv, SoundIn, MonitorGuarded
<1> QED
  BY <1>1, Inductive, PTL

-----------------------------------------------------------------------------
(* The refinement of MonitorLedger.                                        *)

(* Kuma's side of a step of the ledger: one id is made, one is lost, or    *)
(* neither.                                                                *)
Made == [i \in Ids |-> Born(i)]

IdsMove ==
    \/ /\ GoneIds' = GoneIds
       /\ \E i \in Ids : /\ Made[i] = "nobody"
                         /\ Made' = [Made EXCEPT ![i] = Self]
    \/ /\ Made' = Made
       /\ \E i \in Ids : Made[i] # "nobody" /\ GoneIds' = GoneIds \cup {i}
    \/ Made' = Made /\ GoneIds' = GoneIds

LEMMA UpsertedIds ==
  ASSUME IInv, Upserted
  PROVE  IdsMove
<1> DEFINE a == IF id = 0 THEN nextId ELSE id
           m == [st |-> "live", cfg |-> want, sent |-> want]
<1>1. /\ nextId \in 1..MaxId + 1 /\ kuma \in [Ids -> Monitors] /\ MaxId \in Nat
      /\ id \in Ids \cup {0} /\ FreshIds
  BY BoundAssumption DEF IInv, TypeInv, TypeOK
<1>2. a \in Ids
  BY <1>1 DEF Upserted, Ids
<1>3. kuma' = [kuma EXCEPT ![a] = m]
  BY DEF Upserted
<1>4. m.st = "live"
  OBVIOUS
<1>5. kuma[a].st = IF id = 0 THEN "unborn" ELSE "live"
  BY <1>1, <1>2 DEF Upserted, FreshIds, Alive, Unborn
<1> HIDE DEF a, m
<1>6. kuma'[a].st = "live" /\ \A i \in Ids : i # a => kuma'[i] = kuma[i]
  BY <1>1, <1>2, <1>3, <1>4
<1>7. GoneIds' = GoneIds
  BY <1>2, <1>5, <1>6 DEF GoneIds
<1>8. \A i \in Ids : Born(i)' = IF i = a THEN Self ELSE Born(i)
  BY <1>6 DEF Born
<1>9. CASE id = 0
  <2>1. Made[a] = "nobody"
    BY <1>2, <1>5, <1>9 DEF Made, Born
  <2>2. Made' = [Made EXCEPT ![a] = Self]
    BY <1>2, <1>8 DEF Made
  <2> QED
    BY <1>2, <1>7, <2>1, <2>2 DEF IdsMove
<1>10. CASE id # 0
  <2>1. Born(a) = Self
    BY <1>5, <1>10 DEF Born
  <2>2. Made' = Made
    BY <1>8, <2>1 DEF Made
  <2> QED
    BY <1>7, <2>2 DEF IdsMove
<1> QED
  BY <1>9, <1>10

LEMMA RemovedIds ==
  ASSUME IInv, NEW i \in Ids, Known(kuma, i), Removed(i)
  PROVE  IdsMove
<1>1. kuma \in [Ids -> Monitors] /\ i # 0
  BY BoundAssumption DEF IInv, TypeInv, TypeOK, Ids
<1>2. kuma'[i].st = "gone" /\ \A j \in Ids : j # i => kuma'[j] = kuma[j]
  BY <1>1 DEF Removed, Monitors
<1>3. kuma[i].st # "unborn"
  BY <1>1 DEF Known
<1>4. \A j \in Ids : Born(j)' = Born(j)
  BY <1>2, <1>3 DEF Born
<1>5. Made' = Made /\ Made[i] # "nobody"
  BY <1>3, <1>4 DEF Made, Born, Self
<1>6. GoneIds' = GoneIds \cup {i}
  BY <1>2 DEF GoneIds
<1> QED
  BY <1>5, <1>6 DEF IdsMove

LEMMA SameIds ==
  ASSUME \A i \in Ids : kuma'[i].st = kuma[i].st
  PROVE  IdsMove
BY DEF IdsMove, Made, Born, GoneIds

LEMMA KumaIds ==
  ASSUME IInv, [Next]_vars
  PROVE  IdsMove
<1>1. CASE UNCHANGED kuma
  BY <1>1, SameIds
<1>2. CASE Upsert \/ UpsertFails
  BY <1>1, <1>2, UpsertedIds DEF Upsert, UpsertFails
<1>3. CASE DeleteMonitor \/ DeleteFails
  <2>1. pc = "delete" /\ (Removed(id) \/ UNCHANGED kuma)
    BY <1>3 DEF DeleteMonitor, DeleteFails
  <2>2. id \in Ids /\ Known(kuma, id)
    BY <2>1 DEF IInv, TypeInv, TypeOK, WorkerInv, Deleting
  <2> QED
    BY <1>1, <2>1, <2>2, RemovedIds
<1>4. ASSUME NEW i \in Ids, UiDelete(i) PROVE IdsMove
  BY <1>4, RemovedIds DEF UiDelete, Alive, Known
<1>5. ASSUME NEW i \in Ids, UiEdit(i) PROVE IdsMove
  <2>1. \A j \in Ids : kuma'[j].st = kuma[j].st
    BY <1>5 DEF UiEdit, IInv, TypeInv, TypeOK, Monitors
  <2> QED
    BY <2>1, SameIds
<1>6. \/ Upsert \/ UpsertFails \/ DeleteMonitor \/ DeleteFails
      \/ \E i \in Ids : UiEdit(i) \/ UiDelete(i)
      \/ UNCHANGED kuma
  BY DEF Next, Reconcile, World, vars,
         ReconcileGone, ReconcileDeleting, ReconcileLive, RemoveFinalizer,
         RemoveFinalizerFails, AddFinalizer, AddFinalizerFails, Resolve,
         ResolveFails, List, ListFails, StatusGet, StatusSame,
         StatusGetFails, StatusUpdate, StatusRetry, StatusUpdateFails,
         SyncTags, SyncTagsFails, Deliver, UserEdit, UserDelete, SecretEdit,
         Crash
<1> QED
  BY <1>1, <1>2, <1>3, <1>4, <1>5, <1>6

(* The resource's side: the status keeps its id or gets a known one under  *)
(* guard, or the finalizer goes after the monitor.                         *)
BookMove ==
    \/ Api'.id = Api.id /\ Api'.fin = Api.fin
    \/ /\ Api'.fin = TRUE /\ Api'.id \in Ids \cup {0} /\ Known(kuma, Api'.id)
       /\ UNCHANGED kuma
    \/ /\ pc = "unfinalize" /\ Api.fin /\ Api'.fin = FALSE /\ Api'.id = 0
       /\ Api.id # 0 => Api.id \in Ids /\ kuma[Api.id].st = "gone"
       /\ UNCHANGED kuma

(* Users touch neither, not even when they delete the resource unguarded.  *)
LEMMA UserBook ==
  ASSUME IInv, UserEdit \/ UserDelete
  PROVE  Api'.id = Api.id /\ Api'.fin = Api.fin
<1>1. /\ TypeOK /\ VersionsInv /\ Api \in Objects /\ SoundIn(kuma, Api)
      /\ Api.fin \in BOOLEAN
  BY VersionsType, ApiSound DEF IInv, TypeInv, Objects
<1>2. ASSUME NEW o \in Objects, Store(o), o.fin = Api.fin, o.id = Api.id
      PROVE  Api'.id = Api.id /\ Api'.fin = Api.fin
  <2>1. CASE versions' = versions
    BY <2>1 DEF Api
  <2>2. CASE Api' = Newer(o) /\ ~(o.deleting /\ ~o.fin)
    BY <1>1, <1>2, <2>2, NewerFields
  <2>3. CASE Api' = Newer(o) /\ o.deleting /\ ~o.fin
    <3>1. Api' = [Absent EXCEPT !.rv = Api.rv + 1]
      BY <1>1, <2>3, NewerFields
    <3>2. Api'.id = 0 /\ Api'.fin = FALSE
      BY <3>1 DEF Absent
    <3>3. Api.fin = FALSE /\ Api.id = 0
      BY <1>1, <1>2, <2>3 DEF SoundIn, Guarded
    <3> QED
      BY <3>2, <3>3
  <2> QED
    BY <1>1, <1>2, <2>1, <2>2, <2>3, StoreShape
<1>3. ASSUME NEW s \in Specs, Store(Edited(s))
      PROVE  Api'.id = Api.id /\ Api'.fin = Api.fin
  <2>1. Edited(s).fin = Api.fin /\ Edited(s).id = Api.id /\ Edited(s) \in Objects
    BY <1>1, EditType DEF Edited, Objects
  <2> QED
    BY <1>2, <1>3, <2>1
<1>4. ASSUME Store(Doomed)
      PROVE  Api'.id = Api.id /\ Api'.fin = Api.fin
  <2>1. Doomed.fin = Api.fin /\ Doomed.id = Api.id /\ Doomed \in Objects
    BY <1>1, EditType DEF Doomed, Objects
  <2> QED
    BY <1>2, <1>4, <2>1
<1>5. ASSUME NEW s \in Specs, ~Api.exists, Store(Created(s))
      PROVE  Api'.id = Api.id /\ Api'.fin = Api.fin
  <2>1. /\ Created(s) \in Objects /\ Created(s).fin = FALSE
        /\ Created(s).id = 0
    BY CreatedType DEF Created, Absent
  <2>2. Api.fin = FALSE /\ Api.id = 0
    BY <1>1, <1>5 DEF SoundIn, Guarded
  <2> QED
    BY <1>2, <1>5, <2>1, <2>2
<1> QED
  BY <1>3, <1>4, <1>5, EditShape DEF UserDelete, Doomed

LEMMA WriteBook ==
  ASSUME IInv, UNCHANGED kuma,
         \/ pc = "unfinalize" /\ copy.fin /\ Released
         \/ pc = "finalize" /\ Finalized
         \/ pc = "update" /\ ~Conflict /\ Store(Reporting(copy))
  PROVE  BookMove
<1>1. TypeOK /\ VersionsInv /\ Api \in Objects /\ SoundIn(kuma, Api)
  BY VersionsType, ApiSound DEF IInv, TypeInv
<1>2. ASSUME NEW o \in Objects, Store(o), o.fin = TRUE, o.id \in Ids \cup {0},
             Known(kuma, o.id)
      PROVE  BookMove
  <2>1. Newer(o).fin = TRUE /\ Newer(o).id = o.id
    BY <1>1, <1>2, NewerFields
  <2>2. Api' = Api \/ Api' = Newer(o)
    BY <1>1, <1>2, StoreShape DEF Api
  <2> QED
    BY <1>2, <2>1, <2>2 DEF BookMove
<1>3. CASE pc = "unfinalize" /\ copy.fin /\ Released
  <2> DEFINE o == [copy EXCEPT !.fin = FALSE]
  <2>1. /\ copy = Api /\ o \in Objects /\ Store(o)
        /\ Newer(o) = [Absent EXCEPT !.rv = Api.rv + 1]
    BY <1>3, ReleasedFits
  <2> HIDE DEF o
  <2>2. Api' = Api \/ Api' = [Absent EXCEPT !.rv = Api.rv + 1]
    BY <1>1, <2>1, StoreShape DEF Api
  <2>3. /\ [Absent EXCEPT !.rv = Api.rv + 1].fin = FALSE
        /\ [Absent EXCEPT !.rv = Api.rv + 1].id = 0
    BY DEF Absent
  <2>4. Api.id # 0 => Api.id \in Ids /\ kuma[Api.id].st = "gone"
    BY <1>1, <1>3, <2>1 DEF IInv, WorkerInv, Deleting, Objects
  <2> QED
    BY <1>3, <2>1, <2>2, <2>3, <2>4 DEF BookMove
<1>4. CASE pc = "finalize" /\ Finalized
  <2> DEFINE o == [copy EXCEPT !.fin = TRUE]
  <2>1. copy = Api /\ o \in Objects /\ Store(o)
    BY <1>4, FinalizedFits
  <2>2. o.fin = TRUE /\ o.id = Api.id
    BY <1>1, <2>1 DEF Objects
  <2>3. Api.id \in Ids \cup {0} /\ Known(kuma, Api.id)
    BY <1>1 DEF SoundIn, Objects
  <2> HIDE DEF o
  <2> QED
    BY <1>2, <2>1, <2>2, <2>3
<1>5. CASE pc = "update" /\ ~Conflict /\ Store(Reporting(copy))
  BY <1>2, <1>5, ReportingFits
<1> QED
  BY <1>3, <1>4, <1>5

LEMMA BookStep ==
  ASSUME IInv, [Next]_vars
  PROVE  BookMove
<1>1. ASSUME Api' = Api PROVE BookMove
  BY <1>1 DEF BookMove
<1>2. CASE versions' = versions
  BY <1>1, <1>2 DEF Api
<1>3. CASE Deliver
  BY <1>1, <1>3, TailShape DEF Deliver, IInv, TypeInv
<1>4. CASE Crash
  BY <1>1, <1>4 DEF Crash, Api
<1>5. CASE RemoveFinalizer \/ RemoveFinalizerFails
  BY <1>2, <1>5, WriteBook DEF RemoveFinalizer, RemoveFinalizerFails
<1>6. CASE AddFinalizer \/ AddFinalizerFails
  BY <1>2, <1>6, WriteBook DEF AddFinalizer, AddFinalizerFails
<1>7. CASE StatusUpdate \/ StatusUpdateFails
  BY <1>2, <1>7, WriteBook DEF StatusUpdate, StatusUpdateFails
<1>8. \/ versions' = versions \/ Deliver \/ Crash \/ UserEdit \/ UserDelete
      \/ RemoveFinalizer \/ RemoveFinalizerFails
      \/ AddFinalizer \/ AddFinalizerFails
      \/ StatusUpdate \/ StatusUpdateFails
  BY DEF Next, Reconcile, World, vars,
         ReconcileGone, ReconcileDeleting, ReconcileLive, DeleteMonitor,
         DeleteFails, Resolve, ResolveFails, List, ListFails, Upsert,
         UpsertFails, StatusGet, StatusSame, StatusGetFails, StatusRetry,
         SyncTags, SyncTagsFails, SecretEdit, UiEdit, UiDelete
<1> QED
  BY <1>2, <1>3, <1>4, <1>5, <1>6, <1>7, <1>8, UserBook DEF BookMove

(* The status as a book of one entry.                                      *)
Book == [o \in {Self} |-> Api.id]

LEMMA LedgerInit == Init => Ledger!Init
<1> SUFFICES ASSUME Init PROVE Ledger!Init
  OBVIOUS
<1>1. PICK s \in Specs : versions = <<Created(s)>>
  BY DEF Init
<1>2. Api.id = 0 /\ Api.fin = FALSE
  BY <1>1 DEF Api, Created, Absent
<1>3. GoneIds = {} /\ \A i \in Ids : Born(i) = "nobody"
  BY DEF Init, GoneIds, Born, Unborn
<1> QED
  BY <1>2, <1>3 DEF Init, Ledger!Init, Ledger!Empty

LEMMA LedgerStep ==
  ASSUME IInv, [Next]_vars
  PROVE  Ledger!Next
<1>1. IdsMove /\ BookMove
  BY KumaIds, BookStep
<1>2. ASSUME UNCHANGED kuma PROVE Made' = Made /\ GoneIds' = GoneIds
  BY <1>2 DEF Made, Born, GoneIds
<1>3. CASE Api'.id = Api.id /\ Api'.fin = Api.fin
  <2>1. Book' = Book
    BY <1>3 DEF Book
  <2>2. CASE /\ GoneIds' = GoneIds
             /\ \E i \in Ids : /\ Made[i] = "nobody"
                               /\ Made' = [Made EXCEPT ![i] = Self]
    BY <1>3, <2>1, <2>2 DEF Book, Made, Ledger!Next, Ledger!Make
  <2>3. CASE /\ Made' = Made
             /\ \E i \in Ids : /\ Made[i] # "nobody"
                               /\ GoneIds' = GoneIds \cup {i}
    BY <1>3, <2>1, <2>3 DEF Book, Made, Ledger!Next, Ledger!Lose
  <2>4. CASE Made' = Made /\ GoneIds' = GoneIds
    BY <1>3, <2>1, <2>4 DEF Book, Made, Ledger!Next, Ledger!Turn
  <2> QED
    BY <1>1, <2>2, <2>3, <2>4 DEF IdsMove
<1>4. CASE /\ Api'.fin = TRUE /\ Api'.id \in Ids \cup {0}
           /\ Known(kuma, Api'.id) /\ UNCHANGED kuma
  <2>1. Book' \in [{Self} -> Ids \cup {0}]
    BY <1>4 DEF Book
  <2>2. Api'.id # 0 => Made'[Api'.id] = Self
    BY <1>2, <1>4 DEF Made, Born, Known
  <2> QED
    BY <1>2, <1>4, <2>1, <2>2
    DEF Book, Made, Ledger!Next, Ledger!Record, Ledger!Truthful,
        Ledger!Entries
<1>5. CASE /\ pc = "unfinalize" /\ Api.fin /\ Api'.fin = FALSE /\ Api'.id = 0
           /\ Api.id # 0 => Api.id \in Ids /\ kuma[Api.id].st = "gone"
           /\ UNCHANGED kuma
  <2>1. Api.id # 0 => Api.id \in GoneIds
    BY <1>5 DEF GoneIds
  <2> QED
    BY <1>2, <1>5, <2>1
    DEF Made, Ledger!Next, Ledger!Release, Ledger!AllGone, Ledger!Entries,
        Ledger!Empty
<1> QED
  BY <1>1, <1>3, <1>4, <1>5 DEF BookMove

(* The Monitor reconciler keeps the ledger, too: each of its steps, with   *)
(* its faults, crashes and stale reads, and each of the users', of Kuma's  *)
(* UI and of the cache, is one of the ledger's or leaves it alone          *)
(* (Reconcile, updateStatus).                                              *)
THEOREM LedgerKept == Spec => KeepsLedger
<1>1. Init => Ledger!Init
  BY LedgerInit
<1>2. IInv /\ [Next]_vars => [Ledger!Next]_(Ledger!vars)
  BY LedgerStep
<1> QED
  BY <1>1, <1>2, Inductive, PTL DEF Spec, KeepsLedger, Ledger!Spec

-----------------------------------------------------------------------------
(* No orphan.  The cache may not trail behind and users may not change the *)
(* resource as often as a status write is attempted: MonitorStaleStatus    *)
(* shows the monitors lost otherwise.                                      *)
Paced ==
    /\ MaxLag = 0
    /\ \A b \in Budgets : b["edit"] + b["delete"] < RetrySteps

Calm == outside.did \cap {"kuma", "api", "crash"} = {}

(* The writes users have left and the attempts made add up to fewer than   *)
(* there are attempts, so a conflict always finds one left.                *)
Changes == outside.may["edit"] + outside.may["delete"]

Spared ==
    /\ Len(versions) = 1
    /\ Changes + tries < RetrySteps
    /\ pc = "update" /\ Conflict => Changes + tries + 1 < RetrySteps

(* While nothing fails, each living monitor is on record or the running    *)
(* reconcile has just made it, having seen that none on record lives.      *)
Accounted ==
    /\ failed => pc \in {"get", "update"}
    /\ \A i \in Ids : Alive(i) =>
          Api.id = i \/ (pc \in {"get", "update"} /\ ~failed /\ id = i)
    /\ pc \in {"finalize", "resolve", "list", "upsert", "get", "update"}
       /\ ~failed /\ Alive(Api.id) => Api.id = id

NoneLost == Spared /\ (Calm => Accounted)

LEMMA SpendChanges ==
  ASSUME TypeOK, NEW kind \in Events, Spend(kind)
  PROVE  /\ Changes \in Nat /\ Changes' \in Nat /\ Changes' <= Changes
         /\ kind \in {"edit", "delete"} => Changes' + 1 <= Changes
         /\ kind \in {"kuma", "api", "crash"} => ~Calm'
         /\ Calm' => Calm
<1> DEFINE m == outside.may
<1>1. /\ outside \in Outside /\ m \in [Events -> Nat] /\ m[kind] > 0
      /\ "edit" \in Events /\ "delete" \in Events
  BY DEF TypeOK, Outside, Spend, Events
<1>2. /\ outside'.may = [m EXCEPT ![kind] = @ - 1]
      /\ outside'.did = outside.did \cup {kind}
  BY <1>1 DEF Spend, Outside
<1> HIDE DEF m
<1>3. /\ m["edit"] \in Nat /\ m["delete"] \in Nat /\ m[kind] \in Nat
      /\ outside'.may["edit"] = IF kind = "edit" THEN m[kind] - 1 ELSE m["edit"]
      /\ outside'.may["delete"]
            = IF kind = "delete" THEN m[kind] - 1 ELSE m["delete"]
  BY <1>1, <1>2
<1>4. /\ Changes = m["edit"] + m["delete"]
      /\ Changes' = outside'.may["edit"] + outside'.may["delete"]
  BY DEF Changes, m
<1>5. /\ kind \in {"kuma", "api", "crash"} => ~Calm'
      /\ Calm' => Calm
  BY <1>2 DEF Calm
<1> QED
  BY <1>1, <1>3, <1>4, <1>5

(* Every step spends at most one outside event.                            *)
LEMMA StepSpends ==
  ASSUME [Next]_vars
  PROVE  outside' = outside \/ \E kind \in Events : Spend(kind)
BY DEF Events, Next, Reconcile, World, vars,
       ReconcileGone, ReconcileDeleting, ReconcileLive, DeleteMonitor,
       DeleteFails, RemoveFinalizer, RemoveFinalizerFails, AddFinalizer,
       AddFinalizerFails, Resolve, ResolveFails, List, ListFails, Upsert,
       UpsertFails, StatusGet, StatusSame, StatusGetFails, StatusUpdate,
       StatusRetry, StatusUpdateFails, SyncTags, SyncTagsFails, Deliver,
       UserEdit, UserDelete, SecretEdit, UiEdit, UiDelete, Crash

LEMMA ChangesStep ==
  ASSUME TypeOK, [Next]_vars
  PROVE  /\ Changes \in Nat /\ Changes' \in Nat /\ Changes' <= Changes
         /\ Calm' => Calm
<1>1. CASE outside' = outside
  <2>1. outside.may["edit"] \in Nat /\ outside.may["delete"] \in Nat
    BY DEF TypeOK, Outside, Events
  <2> QED
    BY <1>1, <2>1 DEF Changes, Calm
<1> QED
  BY <1>1, StepSpends, SpendChanges

(* Without lag the one version is the API server's.                        *)
LEMMA OneVersion ==
  ASSUME TypeOK, MaxLag = 0, Len(versions) = 1, [Next]_vars
  PROVE  Len(versions') = 1 /\ Cache = Api
<1>1. Cache = Api
  BY DEF Cache, Api
<1>2. ASSUME NEW o, Store(o) PROVE Len(versions') = 1
  <2>1. versions \in Seq(Objects)
    BY DEF TypeOK
  <2>2. ~(Len(versions) <= MaxLag)
    OBVIOUS
  <2>3. CASE versions' = versions
    BY <2>3
  <2>4. ASSUME NEW n, versions' = Append(Tail(versions), n)
        PROVE  Len(versions') = 1
    <3>1. Tail(versions) \in Seq(Objects) /\ Len(Tail(versions)) = 0
      BY <2>1
    <3> QED
      BY <2>4, <3>1
  <2> QED
    BY <1>2, <2>2, <2>3, <2>4 DEF Store
<1>3. CASE Crash
  BY <1>1, <1>3 DEF Crash
<1>4. ~Deliver
  BY DEF Deliver
<1>5. \/ versions' = versions \/ Deliver \/ Crash \/ \E o : Store(o)
  BY DEF Next, Reconcile, World, vars,
         ReconcileGone, ReconcileDeleting, ReconcileLive, DeleteMonitor,
         DeleteFails, RemoveFinalizer, RemoveFinalizerFails, AddFinalizer,
         AddFinalizerFails, Released, Finalized, Resolve, ResolveFails,
         List, ListFails, Upsert, UpsertFails, StatusGet, StatusSame,
         StatusGetFails, StatusUpdate, StatusRetry, StatusUpdateFails,
         SyncTags, SyncTagsFails, UserEdit, UserDelete, SecretEdit, UiEdit,
         UiDelete
<1> QED
  BY <1>1, <1>2, <1>3, <1>4, <1>5

(* With fewer writes left, or after one more attempt.                      *)
LEMMA FewerLeft ==
  ASSUME NEW a \in Nat, NEW b \in Nat, NEW t \in Nat, NEW r \in Nat, b <= a
  PROVE  /\ a + t < r => b + t < r /\ b + 0 < r
         /\ a + t + 1 < r => b + t + 1 < r /\ b + (t + 1) < r
         /\ a + t < r /\ b + 1 <= a => b + t + 1 < r
OBVIOUS

LEMMA SparedStep ==
  ASSUME IInv, Paced, Spared, [Next]_vars
  PROVE  Spared'
<1>1. /\ TypeOK /\ Changes \in Nat /\ Changes' \in Nat /\ Changes' <= Changes
      /\ tries \in Nat /\ RetrySteps \in Nat
      /\ Len(versions') = 1 /\ Cache = Api
  BY ChangesStep, OneVersion, BoundAssumption
  DEF IInv, TypeInv, TypeOK, Spared, Paced
<1>2. /\ Changes' + tries < RetrySteps /\ Changes' + 0 < RetrySteps
      /\ pc = "update" /\ Conflict =>
            Changes' + tries + 1 < RetrySteps /\ Changes' + (tries + 1) < RetrySteps
      /\ Changes' + 1 <= Changes => Changes' + tries + 1 < RetrySteps
  BY <1>1, FewerLeft DEF Spared
<1>3. CASE Forget
  <2>1. pc' = "idle" /\ tries' = 0
    BY <1>3 DEF Forget
  <2> QED
    BY <1>1, <1>2, <2>1 DEF Spared
<1>4. CASE tries' = tries /\ (pc' # "update" \/ ~Conflict')
  BY <1>1, <1>2, <1>4 DEF Spared
<1>5. CASE StatusRetry
  <2>1. pc = "update" /\ Conflict /\ tries' = tries + 1 /\ pc' = "get"
    BY <1>5 DEF StatusRetry
  <2> QED
    BY <1>1, <1>2, <2>1 DEF Spared
<1>6. CASE StatusGet
  <2>1. ~Conflict' /\ tries' = tries
    BY <1>1, <1>6 DEF StatusGet, Conflict, Api
  <2> QED
    BY <1>4, <2>1
<1>7. CASE UNCHANGED worker /\ versions' = versions
  <2>1. pc' = pc /\ tries' = tries /\ (Conflict' <=> Conflict)
    BY <1>7 DEF worker, Conflict, Api
  <2> QED
    BY <1>1, <1>2, <2>1 DEF Spared
<1>8. CASE UserEdit \/ UserDelete
  <2>1. Changes' + 1 <= Changes
    BY <1>1, <1>8, SpendChanges DEF UserEdit, UserDelete, Events
  <2>2. tries' = tries
    BY <1>8 DEF UserEdit, UserDelete, worker
  <2> QED
    BY <1>1, <1>2, <2>1, <2>2 DEF Spared
<1>9. \/ Forget \/ StatusRetry \/ StatusGet \/ UserEdit \/ UserDelete
      \/ UNCHANGED worker /\ versions' = versions
      \/ pc' # "update" /\ tries' = tries
  <2>1. ~Deliver
    BY DEF Deliver, Spared
  <2> QED
    BY <2>1
    DEF Next, Reconcile, World, vars, worker, Return, Reported, FirstCall,
        ReconcileGone, ReconcileDeleting, ReconcileLive, DeleteMonitor,
        DeleteFails, RemoveFinalizer, RemoveFinalizerFails, AddFinalizer,
        AddFinalizerFails, Resolve, ResolveFails, List, ListFails, Upsert,
        UpsertFails, StatusSame, StatusGetFails, StatusUpdate,
        StatusUpdateFails, SyncTags, SyncTagsFails, SecretEdit, UiEdit,
        UiDelete, Crash
<1> QED
  BY <1>3, <1>4, <1>5, <1>6, <1>7, <1>8, <1>9

LEMMA NoFaults ==
  ASSUME TypeOK, Calm'
  PROVE  ~Spend("kuma") /\ ~Spend("api") /\ ~Spend("crash")
BY SpendChanges DEF Events

LEMMA NoneBorn ==
  ASSUME IInv, [Next]_vars, Calm', ~Upsert
  PROVE  \A i \in Ids : kuma'[i].st = "live" => kuma[i].st = "live"
<1>1. TypeOK /\ kuma \in [Ids -> Monitors] /\ ~Spend("kuma")
  BY NoFaults DEF IInv, TypeInv, TypeOK
<1>2. ASSUME NEW j, Removed(j)
      PROVE  \A i \in Ids : kuma'[i].st = "live" => kuma[i].st = "live"
  BY <1>1, <1>2 DEF Removed, Monitors
<1>3. ASSUME NEW j \in Ids, UiEdit(j)
      PROVE  \A i \in Ids : kuma'[i].st = "live" => kuma[i].st = "live"
  BY <1>1, <1>3 DEF UiEdit, Monitors
<1>4. \/ UNCHANGED kuma \/ Removed(id)
      \/ \E i \in Ids : UiEdit(i) \/ Removed(i)
  BY <1>1
  DEF Next, Reconcile, World, vars,
      ReconcileGone, ReconcileDeleting, ReconcileLive, DeleteMonitor,
      DeleteFails, RemoveFinalizer, RemoveFinalizerFails, AddFinalizer,
      AddFinalizerFails, Resolve, ResolveFails, List, ListFails, UpsertFails,
      StatusGet, StatusSame, StatusGetFails, StatusUpdate, StatusRetry,
      StatusUpdateFails, SyncTags, SyncTagsFails, Deliver, UserEdit,
      UserDelete, SecretEdit, UiDelete, Crash
<1> QED
  BY <1>2, <1>3, <1>4

(* Only a status write and the release of the finalizer change the entry.  *)
LEMMA SameEntry ==
  ASSUME IInv, Spared, [Next]_vars, Calm', ~StatusUpdate, ~RemoveFinalizer
  PROVE  Api'.id = Api.id
<1>1. /\ TypeOK /\ Api \in Objects /\ ~Spend("api") /\ ~Spend("crash")
      /\ ~Spend("kuma") /\ ~Deliver
  BY NoFaults, VersionsType DEF IInv, TypeInv, Deliver, Spared
<1>2. CASE AddFinalizer
  <2> DEFINE o == [copy EXCEPT !.fin = TRUE]
  <2>1. copy = Api /\ o \in Objects /\ Store(o)
    BY <1>2, FinalizedFits DEF AddFinalizer
  <2>2. o.fin = TRUE /\ o.id = Api.id
    BY <1>1, <2>1 DEF Objects
  <2> HIDE DEF o
  <2>3. Newer(o).id = o.id
    BY <1>1, <2>1, <2>2, NewerFields
  <2>4. Api' = Api \/ Api' = Newer(o)
    BY <1>1, <2>1, StoreShape DEF Api
  <2> QED
    BY <2>2, <2>3, <2>4
<1>3. CASE versions' = versions
  BY <1>3 DEF Api
<1>4. versions' = versions \/ AddFinalizer \/ UserEdit \/ UserDelete
  BY <1>1
  DEF Next, Reconcile, World, vars,
      ReconcileGone, ReconcileDeleting, ReconcileLive, DeleteMonitor,
      DeleteFails, RemoveFinalizerFails, AddFinalizerFails, Resolve,
      ResolveFails, List, ListFails, Upsert, UpsertFails, StatusGet,
      StatusSame, StatusGetFails, StatusRetry, StatusUpdateFails, SyncTags,
      SyncTagsFails, SecretEdit, UiEdit, UiDelete, Crash
<1> QED
  BY <1>2, <1>3, <1>4, UserBook

(* The monitors living after a step are on record, or the one to be.       *)
LEMMA AccountedSettled ==
  ASSUME failed' = FALSE,
         \A i \in Ids : kuma'[i].st = "live" => Api'.id = i,
         pc' \in {"finalize", "resolve", "list", "upsert", "get", "update"}
         /\ Alive(Api.id)' => Api'.id = id'
  PROVE  Accounted'
BY DEF Accounted, Alive

LEMMA AccountedForgets ==
  ASSUME Forget, \A i \in Ids : kuma'[i].st = "live" => Api'.id = i
  PROVE  Accounted'
<1>1. failed' = FALSE /\ pc' = "idle"
  BY DEF Forget
<1> QED
  BY <1>1, AccountedSettled

LEMMA AccountedWaits ==
  ASSUME IInv, Accounted, UNCHANGED worker, Api'.id = Api.id,
         \A i \in Ids : kuma'[i].st = "live" => kuma[i].st = "live"
  PROVE  Accounted'
<1>1. pc' = pc /\ id' = id /\ (failed' <=> failed)
  BY DEF worker
<1>2. Api.id \in Ids \cup {0} /\ 0 \notin Ids
  <2>1. Api \in Objects
    BY VersionsType DEF IInv, TypeInv
  <2>2. 0 \notin Ids
    BY BoundAssumption DEF Ids
  <2> QED
    BY <2>1, <2>2 DEF Objects
<1>3. Alive(Api.id)' => Alive(Api.id)
  BY <1>2 DEF Alive
<1>4. \A i \in Ids : Alive(i)' => Alive(i)
  BY DEF Alive
<1>5. failed' => pc' \in {"get", "update"}
  BY <1>1 DEF Accounted
<1>6. \A i \in Ids : Alive(i)' =>
         Api'.id = i \/ (pc' \in {"get", "update"} /\ ~failed' /\ id' = i)
  BY <1>1, <1>4 DEF Accounted
<1>7. pc' \in {"finalize", "resolve", "list", "upsert", "get", "update"}
      /\ ~failed' /\ Alive(Api.id)' => Api'.id = id'
  BY <1>1, <1>3 DEF Accounted
<1> QED
  BY <1>5, <1>6, <1>7 DEF Accounted

(* Outside of a status update every living monitor is on record.           *)
LEMMA OnRecord ==
  ASSUME IInv, Accounted, pc \notin {"get", "update"}
  PROVE  /\ failed = FALSE
         /\ \A i \in Ids : kuma[i].st = "live" => Api.id = i
<1>1. failed = FALSE
  BY DEF Accounted, IInv, TypeInv, TypeOK
<1>2. 0 \notin Ids
  BY BoundAssumption DEF Ids
<1> QED
  BY <1>1, <1>2 DEF Accounted, Alive

LEMMA AccountedReads ==
  ASSUME IInv, Spared, Accounted, Api'.id = Api.id,
         \A i \in Ids : kuma'[i].st = "live" => kuma[i].st = "live",
         \/ ReconcileDeleting \/ ReconcileLive \/ DeleteMonitor
         \/ AddFinalizer \/ Resolve \/ List
  PROVE  Accounted'
<1>1. pc \notin {"get", "update"}
  BY DEF ReconcileDeleting, ReconcileLive, DeleteMonitor, AddFinalizer,
         Resolve, List, Take
<1>2. /\ failed = FALSE
      /\ \A i \in Ids : kuma'[i].st = "live" => Api'.id = i
  BY <1>1, OnRecord
<1>3. failed' = FALSE
  BY <1>2 DEF ReconcileDeleting, ReconcileLive, DeleteMonitor, AddFinalizer,
              Resolve, List
<1>4. Api.id \in Ids \cup {0} /\ 0 \notin Ids /\ Cache = Api
  <2>1. Api \in Objects
    BY VersionsType DEF IInv, TypeInv
  <2>2. 0 \notin Ids
    BY BoundAssumption DEF Ids
  <2>3. Cache = Api
    BY DEF Spared, Api, Cache
  <2> QED
    BY <2>1, <2>2, <2>3 DEF Objects
<1>5. Alive(Api.id)' => Alive(Api.id)
  BY <1>4 DEF Alive
<1>6. CASE ReconcileDeleting \/ ReconcileLive
  <2>1. id' = Api.id
    BY <1>4, <1>6 DEF ReconcileDeleting, ReconcileLive
  <2> QED
    BY <1>2, <1>3, <2>1, AccountedSettled
<1>7. CASE DeleteMonitor
  <2>1. pc' = "unfinalize"
    BY <1>7 DEF DeleteMonitor
  <2> QED
    BY <1>2, <1>3, <2>1, AccountedSettled
<1>8. CASE AddFinalizer \/ Resolve
  <2>1. id' = id /\ pc \in {"finalize", "resolve"}
    BY <1>8 DEF AddFinalizer, Resolve
  <2>2. Alive(Api.id) => Api.id = id
    BY <1>2, <2>1 DEF Accounted
  <2> QED
    BY <1>2, <1>3, <1>5, <2>1, <2>2, AccountedSettled
<1>9. CASE List
  <2>1. pc = "list" /\ id' = IF Alive(id) THEN id ELSE 0
    BY <1>9 DEF List
  <2>2. Alive(Api.id) => Api.id = id
    BY <1>2, <2>1 DEF Accounted
  <2> QED
    BY <1>2, <1>3, <1>5, <2>1, <2>2, AccountedSettled
<1> QED
  BY <1>6, <1>7, <1>8, <1>9

(* A monitor is only created when the one on record, if any, is gone.      *)
LEMMA AccountedUpserts ==
  ASSUME IInv, Accounted, Calm', Upsert \/ UpsertFails
  PROVE  Accounted'
<1>1. /\ pc = "upsert" /\ pc' = "get" /\ versions' = versions /\ Api' = Api
  BY DEF Upsert, UpsertFails, Api
<1>2. /\ failed = FALSE
      /\ \A i \in Ids : kuma[i].st = "live" => Api.id = i
  BY <1>1, OnRecord
<1>3. /\ TypeOK /\ kuma \in [Ids -> Monitors] /\ 0 \notin Ids
      /\ Api.id \in Ids \cup {0}
  <2>1. TypeOK
    BY DEF IInv, TypeInv
  <2>2. Api \in Objects
    BY <2>1, VersionsType
  <2>3. Api.id \in Ids \cup {0}
    BY <2>2 DEF Objects
  <2>4. 0 \notin Ids
    BY BoundAssumption DEF Ids
  <2>5. kuma \in [Ids -> Monitors]
    BY <2>1 DEF TypeOK
  <2> QED
    BY <2>1, <2>3, <2>4, <2>5
<1>4. Alive(Api.id) => Api.id = id
  BY <1>1, <1>2 DEF Accounted
<1>5. CASE Upsert
  <2> DEFINE a == IF id = 0 THEN nextId ELSE id
             m == [st |-> "live", cfg |-> want, sent |-> want]
  <2>1. id' = a /\ kuma' = [kuma EXCEPT ![a] = m] /\ failed' = FALSE
    BY <1>2, <1>5 DEF Upsert, Upserted
  <2>2. id # 0 => a = id
    OBVIOUS
  <2> HIDE DEF a, m
  <2>3. \A i \in Ids : i # a => kuma'[i] = kuma[i]
    BY <1>3, <2>1
  <2>4. \A i \in Ids : Alive(i)' => i = a
    <3> SUFFICES ASSUME NEW i \in Ids, Alive(i)', i # a PROVE FALSE
      OBVIOUS
    <3>1. kuma[i].st = "live" /\ i # 0
      BY <1>3, <2>3 DEF Alive
    <3>2. Api.id = i /\ Alive(Api.id)
      BY <1>2, <3>1 DEF Alive
    <3> QED
      BY <1>4, <2>2, <3>1, <3>2
  <2>5. Alive(Api.id)' => Api'.id = a
    <3>1. Alive(Api.id)' => Api.id \in Ids
      BY <1>1, <1>3 DEF Alive
    <3> QED
      BY <1>1, <2>4, <3>1
  <2> QED
    BY <1>1, <2>1, <2>4, <2>5 DEF Accounted
<1>6. CASE UpsertFails
  <2>1. kuma' = kuma /\ failed' = TRUE
    BY <1>3, <1>6, NoFaults DEF UpsertFails
  <2>2. \A i \in Ids : Alive(i)' => Api'.id = i
    BY <1>1, <1>2, <2>1 DEF Alive
  <2> QED
    BY <1>1, <2>1, <2>2 DEF Accounted
<1> QED
  BY <1>5, <1>6

(* The write puts the new monitor on record in place of one that is gone.  *)
LEMMA AccountedReports ==
  ASSUME IInv, Spared, Accounted, StatusSame \/ StatusUpdate
  PROVE  Accounted'
<1>1. /\ pc \in {"get", "update"} /\ kuma' = kuma /\ Cache = Api
      /\ TypeOK /\ Api \in Objects /\ Reported /\ 0 \notin Ids
  BY VersionsType, BoundAssumption
  DEF StatusSame, StatusUpdate, Spared, Cache, Api, IInv, TypeInv, Ids
<1>2. \A i \in Ids : kuma[i].st = "live" => Api.id = i \/ (~failed /\ id = i)
  BY <1>1 DEF Accounted, Alive
<1>3. \A i \in Ids : kuma[i].st = "live" /\ ~failed => id = i
  BY <1>1, <1>2 DEF Accounted, Alive
<1>4. ASSUME NEW o \in Objects
      PROVE  Reporting(o).id = IF failed THEN o.id ELSE id
  BY <1>4 DEF Reporting, Objects
<1>5. Api'.id = IF failed THEN Api.id ELSE id
  <2>1. CASE StatusSame
    <3>1. Reporting(Api) = Api /\ versions' = versions
      BY <1>1, <2>1 DEF StatusSame, Differs
    <3> QED
      BY <1>1, <1>4, <3>1 DEF Api
  <2>2. CASE StatusUpdate
    <3> DEFINE o == Reporting(copy)
    <3>1. copy = Api /\ o \in Objects /\ o.fin = TRUE /\ Store(o)
      BY <1>1, <2>2, ReportingFits, WrittenType DEF StatusUpdate, IInv
    <3>2. o.id = IF failed THEN Api.id ELSE id
      BY <1>1, <1>4, <3>1
    <3> HIDE DEF o
    <3>3. Newer(o).id = o.id
      BY <1>1, <3>1, NewerFields
    <3>4. (o = Api /\ Api' = Api) \/ Api' = Newer(o)
      BY <1>1, <3>1, StoreShape DEF Api
    <3> QED
      BY <3>2, <3>3, <3>4
  <2> QED
    BY <2>1, <2>2
<1>6. \A i \in Ids : kuma'[i].st = "live" => Api'.id = i
  BY <1>1, <1>2, <1>3, <1>5
<1>7. CASE failed
  BY <1>1, <1>6, <1>7, AccountedForgets DEF Reported, Return
<1>8. CASE ~failed
  <2>1. failed' = FALSE /\ pc' = "tags"
    BY <1>1, <1>8 DEF Reported, IInv, TypeInv, TypeOK
  <2> QED
    BY <1>6, <2>1, AccountedSettled
<1> QED
  BY <1>7, <1>8

(* Without faults an update is only given up when the resource is gone or  *)
(* the attempts are used up, and neither happens.                          *)
LEMMA NeverGivenUp ==
  ASSUME IInv, Spared, Calm', [Next]_vars
  PROVE  ~StatusGetFails /\ ~StatusUpdateFails
<1>1. /\ TypeOK /\ VersionsInv /\ ~Spend("api") /\ Cache = Api
      /\ SoundIn(kuma, Api)
  BY NoFaults, ApiSound DEF IInv, TypeInv, Spared, Cache, Api
<1>2. pc \in {"get", "update"} => Api.exists
  BY <1>1 DEF IInv, WorkerInv, Syncing, Ahead, SoundIn, Api
<1>3. pc = "update" /\ Conflict => MayRetry
  <2>1. Changes \in Nat /\ tries \in Nat /\ RetrySteps \in Nat
    BY <1>1, ChangesStep, BoundAssumption DEF TypeOK
  <2>2. \A c, t, r \in Nat : c + t + 1 < r => t + 1 < r
    OBVIOUS
  <2> QED
    BY <2>1, <2>2 DEF Spared, MayRetry
<1> QED
  BY <1>1, <1>2, <1>3 DEF StatusGetFails, StatusUpdateFails

LEMMA AccountedStep ==
  ASSUME IInv, Spared, Accounted, Calm', [Next]_vars
  PROVE  Accounted'
<1>1. /\ TypeOK /\ ~Spend("kuma") /\ ~Spend("api") /\ ~Spend("crash")
      /\ ~StatusGetFails /\ ~StatusUpdateFails /\ ~Deliver
  BY NoFaults, NeverGivenUp DEF IInv, TypeInv, Deliver, Spared
<1>2. ~Upsert => \A i \in Ids : kuma'[i].st = "live" => kuma[i].st = "live"
  BY NoneBorn
<1>3. ~StatusUpdate /\ ~RemoveFinalizer => Api'.id = Api.id
  BY SameEntry
<1>4. CASE Upsert \/ UpsertFails
  BY <1>4, AccountedUpserts
<1>5. CASE StatusSame \/ StatusUpdate
  BY <1>5, AccountedReports
<1>6. CASE StatusGet \/ StatusRetry
  <2>1. /\ pc \in {"get", "update"} /\ pc' \in {"get", "update"} /\ id' = id
        /\ failed' = failed /\ kuma' = kuma /\ Api' = Api
    BY <1>6 DEF StatusGet, StatusRetry, Api
  <2>2. \A i \in Ids : Alive(i)' => Alive(i)
    BY <2>1 DEF Alive
  <2>3. Alive(Api.id)' => Alive(Api.id)
    BY <2>1 DEF Alive
  <2>4. failed' => pc' \in {"get", "update"}
    BY <2>1
  <2>5. \A i \in Ids : Alive(i)' =>
           Api'.id = i \/ (pc' \in {"get", "update"} /\ ~failed' /\ id' = i)
    BY <2>1, <2>2 DEF Accounted
  <2>6. ~failed' /\ Alive(Api.id)' => Api'.id = id'
    BY <2>1, <2>3 DEF Accounted
  <2> QED
    BY <2>4, <2>5, <2>6 DEF Accounted
<1>7. CASE RemoveFinalizer
  <2>1. pc = "unfinalize" /\ kuma' = kuma /\ Forget
    BY <1>7 DEF RemoveFinalizer, Return
  <2>2. \A i \in Ids : kuma[i].st = "live" => Api.id = i
    BY <2>1, OnRecord
  <2>3. CASE versions' = versions
    BY <2>1, <2>2, <2>3, AccountedForgets DEF Api
  <2>4. CASE copy.fin /\ Released
    <3>1. copy = Api /\ (Api.id # 0 => kuma[Api.id].st = "gone")
      BY <2>1, <2>4, ReleasedFits DEF IInv, WorkerInv, Deleting
    <3>2. \A i \in Ids : kuma'[i].st # "live"
      BY <2>1, <2>2, <3>1, BoundAssumption DEF Ids
    <3> QED
      BY <2>1, <3>2, AccountedForgets
  <2> QED
    BY <1>7, <2>3, <2>4 DEF RemoveFinalizer
<1>8. CASE \/ RemoveFinalizerFails \/ AddFinalizerFails \/ ResolveFails
           \/ SyncTags
  <2>1. /\ pc \notin {"get", "update"} /\ Forget
        /\ versions' = versions /\ kuma' = kuma
    BY <1>1, <1>8
    DEF RemoveFinalizerFails, AddFinalizerFails, ResolveFails, SyncTags,
        Return
  <2>2. \A i \in Ids : kuma'[i].st = "live" => Api'.id = i
    BY <2>1, OnRecord DEF Api
  <2> QED
    BY <2>1, <2>2, AccountedForgets
<1>9. CASE UNCHANGED worker
  <2>1. ~Upsert /\ ~StatusUpdate /\ ~RemoveFinalizer
    BY <1>9 DEF worker, Upsert, StatusUpdate, RemoveFinalizer, Reported,
                Return, Forget
  <2> QED
    BY <1>2, <1>3, <1>9, <2>1, AccountedWaits
<1>10. CASE \/ ReconcileDeleting \/ ReconcileLive \/ DeleteMonitor
            \/ AddFinalizer \/ Resolve \/ List
  <2>1. ~Upsert /\ ~StatusUpdate /\ ~RemoveFinalizer
    BY <1>10
    DEF ReconcileDeleting, ReconcileLive, Take, DeleteMonitor, AddFinalizer,
        Resolve, List, Upsert, StatusUpdate, RemoveFinalizer
  <2> QED
    BY <1>2, <1>3, <1>10, <2>1, AccountedReads
<1> QED
  BY <1>1, <1>4, <1>5, <1>6, <1>7, <1>8, <1>9, <1>10
  DEF Next, Reconcile, World, vars, ReconcileGone, DeleteFails, ListFails,
      SyncTagsFails, Deliver, UserEdit, UserDelete, SecretEdit, UiEdit,
      UiDelete, Crash

LEMMA NoneLostInit == ASSUME Paced PROVE Init => NoneLost
<1> SUFFICES ASSUME Init PROVE NoneLost
  OBVIOUS
<1>1. /\ outside.may \in Budgets /\ tries = 0 /\ pc = "idle"
      /\ failed = FALSE /\ Len(versions) = 1
      /\ kuma = [i \in Ids |-> Unborn]
  BY DEF Init
<1>2. /\ outside.may["edit"] \in Nat /\ outside.may["delete"] \in Nat
      /\ Changes < RetrySteps
  BY <1>1, BoundAssumption DEF Paced, Changes, Events
<1>3. Changes + tries < RetrySteps
  BY <1>1, <1>2 DEF Changes
<1>4. Accounted
  BY <1>1 DEF Accounted, Alive, Unborn
<1> QED
  BY <1>1, <1>3, <1>4 DEF NoneLost, Spared

LEMMA NoneLostStep ==
  ASSUME Paced, IInv, NoneLost, [Next]_vars
  PROVE  NoneLost'
<1>1. Spared'
  BY SparedStep DEF NoneLost
<1>2. ASSUME Calm' PROVE Accounted'
  BY <1>2, AccountedStep, ChangesStep DEF NoneLost, IInv, TypeInv
<1> QED
  BY <1>1, <1>2 DEF NoneLost

(* No reconcile without a failed call ever leaves a monitor in Kuma that   *)
(* the status does not record, as long as the cache is up to date when it  *)
(* is read and a status write is attempted more often than users can       *)
(* overtake it (the finalizer before Upsert, updateStatus with             *)
(* RetryOnConflict).                                                       *)
THEOREM OrphanFree == ASSUME Paced PROVE Spec => []NoOrphan
<1>1. Init => NoneLost
  BY NoneLostInit
<1>2. IInv /\ NoneLost /\ [Next]_vars => NoneLost'
  BY NoneLostStep
<1>3. NoneLost => NoOrphan
  BY DEF NoneLost, Calm, Accounted, NoOrphan
<1> QED
  BY <1>1, <1>2, <1>3, Inductive, PTL DEF Spec
=============================================================================
