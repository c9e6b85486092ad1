------------------------------ MODULE HostSync ------------------------------
(***************************************************************************)
(* One Ingress, HTTPRoute or Service, the operator's reconciler for it     *)
(* (internal/controller/host_reconciler.go and sync.go) and the Uptime     *)
(* Kuma server that reconciler drives.                                     *)
(*                                                                         *)
(* The reconciler keeps no state of its own between two reconciles: what   *)
(* it knows of Kuma is what it wrote into the object's annotations (the    *)
(* host -> monitor id map and the hash of the configuration it synced) and *)
(* its finalizer.  It reads the object through the manager's informer      *)
(* cache, which trails the API server, and writes it to the API server     *)
(* with optimistic concurrency.  Each call that leaves the process is one  *)
(* step, so users, the cache, Kuma's own UI, faults and a crash interleave *)
(* with a reconcile between any two calls.  controller-runtime never runs  *)
(* two reconciles of one object at the same time.                          *)
(***************************************************************************)
EXTENDS Naturals, Sequences, FiniteSets

CONSTANTS
    Hosts,           \* host names the object's rules can mention
    Cfgs,            \* monitor configurations the annotations can ask for
    Invalid,         \* annotations from which no monitor can be derived
    Manual,          \* a configuration only a person in Kuma's UI produces
    NoCfg,           \* the configuration of a monitor that does not exist
    NoHash,          \* an absent synced-hash annotation
    Nobody,          \* the host of a monitor id not handed out yet
    MaxId,           \* bound: Kuma hands out the ids 1..MaxId
    RetrySteps,      \* retry.DefaultRetry.Steps: attempts per annotation write
    MaxLag,          \* bound: versions the informer cache may trail behind
    OtherFinalizer,  \* does another controller hold a finalizer on the object?
    Budgets          \* bounds: how often each kind of outside event happens;
                     \* one of these in each behaviour

Events == {"edit", "delete", "kuma", "api", "crash", "uiEdit", "uiDelete"}

ASSUME SentinelAssumption ==
    /\ Invalid \notin Cfgs /\ Manual \notin Cfgs /\ NoCfg \notin Cfgs
    /\ NoCfg # Manual /\ Nobody \notin Hosts

ASSUME BoundAssumption ==
    /\ MaxId \in Nat /\ MaxLag \in Nat /\ RetrySteps \in Nat \ {0}
    /\ OtherFinalizer \in BOOLEAN
    /\ Budgets \subseteq [Events -> Nat]

ASSUME FiniteAssumption == IsFiniteSet(Hosts)

Ids == 1..MaxId

Outside == [may : [Events -> Nat], did : SUBSET Events]

(* A desired monitor set is the hosts of the rules and the configuration   *)
(* every one of them gets; desiredHash tells two of them apart.            *)
Hashes == [hosts : SUBSET Hosts, cfg : Cfgs]

ASSUME HashAssumption == NoHash \notin Hashes

(* The host -> id annotation; 0 is a missing entry, as in the Go code where *)
(* id 0 asks Upsert to create.                                             *)
IdMaps == [Hosts -> Ids \cup {0}]
NoIds == [h \in Hosts |-> 0]
Recorded(ids) == {h \in Hosts : ids[h] # 0}

(* What the API server stores of the object.                               *)
Objects == [exists : BOOLEAN, deleting : BOOLEAN, optIn : BOOLEAN,
            hosts : SUBSET Hosts, cfg : Cfgs \cup {Invalid},
            ids : IdMaps, hash : Hashes \cup {NoHash},
            fin : BOOLEAN, other : BOOLEAN, rv : Nat]

Absent == [exists |-> FALSE, deleting |-> FALSE, optIn |-> FALSE,
           hosts |-> {}, cfg |-> Invalid, ids |-> NoIds, hash |-> NoHash,
           fin |-> FALSE, other |-> FALSE, rv |-> 0]

(* A monitor of Kuma's; host is the one the operator created it for.       *)
Monitors == [st : {"unborn", "live", "gone"}, host : Hosts \cup {Nobody},
             cfg : Cfgs \cup {Manual, NoCfg}]
Unborn == [st |-> "unborn", host |-> Nobody, cfg |-> NoCfg]

Stages == {"idle", "list", "upsert", "delete", "unfinalize", "get", "update",
           "tags"}

VARIABLES
    versions,  \* the object: the last version is the API server's, the first
               \* the informer cache's, those between are still to be delivered
    kuma,      \* Kuma's monitors, by id
    nextId,    \* the id Kuma gives the next monitor
    queued,    \* is a request for the object in the work queue?
    pc,        \* the call the running reconcile makes next
    copy,      \* obj: the object as this reconcile last read it
    want,      \* the hash this reconcile will persist, NoHash to clear it
    plan,      \* newIDs: ids to upsert for hosts in todo, final for the rest
    todo,      \* hosts still to upsert
    drop,      \* hosts whose recorded monitor is still to be deleted
    tries,     \* conflicts so far in persistMonitorIDs
    managed,   \* what the managed-monitors gauge reports for the object
    outside    \* outside events: how many of each kind may still happen and
               \* which kinds have happened

worker == <<pc, copy, want, plan, todo, drop, tries>>
vars == <<versions, kuma, nextId, queued, worker, managed, outside>>

Api == versions[Len(versions)]
Cache == versions[1]

TypeOK ==
    /\ versions \in Seq(Objects) /\ versions # <<>>
    /\ kuma \in [Ids -> Monitors] /\ nextId \in 1..MaxId + 1
    /\ queued \in BOOLEAN /\ pc \in Stages /\ copy \in Objects
    /\ want \in Hashes \cup {NoHash} /\ plan \in IdMaps
    /\ todo \in SUBSET Hosts /\ drop \in SUBSET Hosts
    /\ tries \in 0..RetrySteps /\ managed \in Nat
    /\ outside \in Outside

-----------------------------------------------------------------------------
(* The API server and the informer cache.                                  *)

(* An object whose deletion was requested disappears with its last         *)
(* finalizer.                                                              *)
Settled(o) ==
    IF o.deleting /\ ~o.fin /\ ~o.other THEN [Absent EXCEPT !.rv = o.rv] ELSE o

(* A write that changes the object is a new version; the cache falls one   *)
(* further behind, or is forced on when it is MaxLag behind already.       *)
Store(o) ==
    LET new == Settled([o EXCEPT !.rv = Api.rv + 1])
    IN  versions' = IF o = Api THEN versions
                    ELSE IF Len(versions) <= MaxLag THEN Append(versions, new)
                    ELSE Append(Tail(versions), new)

(* Any version the cache receives puts a request in the queue.             *)
Enqueue(again) == queued' = (queued \/ again \/ versions'[1] # Cache)

Spend(kind) ==
    /\ outside.may[kind] > 0
    /\ outside' = [outside EXCEPT !.may[kind] = @ - 1, !.did = @ \cup {kind}]

-----------------------------------------------------------------------------
(* The reconciler.                                                         *)

Desired(o) == [hosts |-> o.hosts, cfg |-> o.cfg]

Alive(id) == id # 0 /\ kuma[id].st = "live"

(* Bug to plant: compare only whether the monitor is there.                *)
DriftedMissing(ids, hash) ==
    {h \in Recorded(ids) \cap hash.hosts : ~Alive(ids[h])}

(* specsMatch: a recorded monitor of a host that is still desired is gone, *)
(* or its configuration is not the one desired.                            *)
Drifted(ids, hash) ==
    {h \in Recorded(ids) \cap hash.hosts :
        ~(Alive(ids[h]) /\ kuma[ids[h]].cfg = hash.cfg)}

(* Bug to plant: recreate what only has to be edited.                      *)
DriftPlanRecreating(ids, hash) ==
    [h \in Hosts |-> IF h \in Drifted(ids, hash) THEN 0 ELSE ids[h]]

(* reconcileDrift: a missing monitor is upserted as a new one, an edited   *)
(* one in place.                                                           *)
DriftPlan(ids, hash) ==
    [h \in Hosts |-> IF h \in Drifted(ids, hash) /\ ~Alive(ids[h])
                     THEN 0 ELSE ids[h]]

(* Bug to plant: start from the recorded ids, as reconcileDrift does.      *)
SyncPlanKeeping(o) == o.ids

(* syncMonitors: the recorded id of every desired host, no other.          *)
SyncPlan(o) == [h \in Hosts |-> IF h \in o.hosts THEN o.ids[h] ELSE 0]

(* Bug to plant: the deletions never get their turn.                       *)
StageWithoutDelete(o, td, dr) ==
    IF td # {} THEN "upsert" ELSE IF o.deleting THEN "unfinalize" ELSE "get"

(* The call that follows once hosts td are left to upsert and dr to delete. *)
Stage(o, td, dr) ==
    IF td # {} THEN "upsert"
    ELSE IF dr # {} THEN "delete"
    ELSE IF o.deleting THEN "unfinalize"
    ELSE "get"

Begin(o, hash, ids, td, dr) ==
    /\ copy' = o /\ want' = hash /\ plan' = ids /\ todo' = td /\ drop' = dr
    /\ tries' = 0 /\ pc' = Stage(o, td, dr)

Forget ==
    /\ pc' = "idle" /\ copy' = Absent /\ want' = NoHash /\ plan' = NoIds
    /\ todo' = {} /\ drop' = {} /\ tries' = 0

(* Reconcile returns; again tells whether it asks to be run once more, as  *)
(* an error (back-off) or a RequeueAfter (drift check) does.               *)
Return(again) == Forget /\ Enqueue(again)

Take == pc = "idle" /\ queued /\ queued' = FALSE

ReconcileGone ==
    /\ Take /\ ~Cache.exists
    /\ managed' = 0
    /\ UNCHANGED <<versions, kuma, nextId, worker, outside>>

ReconcileDeleting ==
    /\ Take /\ Cache.exists /\ Cache.deleting
    /\ Begin(Cache, NoHash, NoIds, {}, Recorded(Cache.ids))
    /\ UNCHANGED <<versions, kuma, nextId, managed, outside>>

ReconcileIgnored ==
    /\ Take /\ Cache.exists /\ ~Cache.deleting /\ ~Cache.optIn
    /\ Recorded(Cache.ids) = {} /\ ~Cache.fin
    /\ UNCHANGED <<versions, kuma, nextId, worker, managed, outside>>

ReconcileOptOut ==
    /\ Take /\ Cache.exists /\ ~Cache.deleting /\ ~Cache.optIn
    /\ Recorded(Cache.ids) # {} \/ Cache.fin
    /\ Begin(Cache, NoHash, NoIds, {}, Recorded(Cache.ids))
    /\ UNCHANGED <<versions, kuma, nextId, managed, outside>>

(* ParseOverrides, deriveMonitors or resolveReferences fails: an error     *)
(* before anything was done.                                               *)
ReconcileInvalid ==
    /\ pc = "idle" /\ queued
    /\ Cache.exists /\ ~Cache.deleting /\ Cache.optIn
    /\ \/ Cache.cfg = Invalid /\ UNCHANGED outside
       \/ Cache.cfg # Invalid /\ Spend("kuma")
    /\ UNCHANGED <<versions, kuma, nextId, queued, worker, managed>>

(* The hash is the one persisted last: verify Kuma instead of syncing.     *)
ReconcileUnchanged ==
    /\ Take /\ Cache.exists /\ ~Cache.deleting /\ Cache.optIn
    /\ Cache.cfg # Invalid /\ Cache.hash = Desired(Cache)
    /\ copy' = Cache /\ want' = Cache.hash /\ plan' = Cache.ids
    /\ pc' = "list"
    /\ UNCHANGED <<versions, kuma, nextId, todo, drop, tries, managed, outside>>

(* syncMonitors: upsert every desired host, then delete the recorded ones  *)
(* that are not desired.                                                   *)
ReconcileChanged ==
    /\ Take /\ Cache.exists /\ ~Cache.deleting /\ Cache.optIn
    /\ Cache.cfg # Invalid /\ Cache.hash # Desired(Cache)
    /\ Begin(Cache, Desired(Cache), SyncPlan(Cache),
             Cache.hosts, Recorded(Cache.ids) \ Cache.hosts)
    /\ UNCHANGED <<versions, kuma, nextId, managed, outside>>

(* ExistingSpecs answers and everything recorded is as it should be.       *)
ListMatches ==
    /\ pc = "list" /\ Drifted(copy.ids, want) = {}
    /\ managed' = Cardinality(Recorded(copy.ids)) /\ pc' = "tags"
    /\ UNCHANGED <<versions, kuma, nextId, queued, copy, want, plan, todo,
                   drop, tries, outside>>

(* ExistingSpecs answers and reconcileDrift has work: only the drifted     *)
(* hosts are upserted, a missing monitor as a new one.                     *)
ListDrifted ==
    /\ pc = "list" /\ Drifted(copy.ids, want) # {}
    /\ Begin(copy, want, DriftPlan(copy.ids, want),
             Drifted(copy.ids, want), {})
    /\ UNCHANGED <<versions, kuma, nextId, queued, managed, outside>>

(* ExistingSpecs fails: Kuma is away (or, as Translate shows, holds a      *)
(* monitor of a type the translation does not know).                       *)
ListFails ==
    /\ pc = "list" /\ Spend("kuma")
    /\ UNCHANGED versions /\ Return(TRUE)
    /\ UNCHANGED <<kuma, nextId, managed>>

(* Bug to plant: the id of an edited monitor is taken for a new one.       *)
AnswerFresh(id) == nextId

(* The id Upsert(id, spec) returns.                                        *)
Answer(id) == IF id = 0 THEN nextId ELSE id

(* Bug to plant: a monitor that is gone is written anew under its old id.  *)
UpsertedReviving(h, id) ==
    /\ id = 0 => nextId <= MaxId
    /\ nextId' = IF id = 0 THEN nextId + 1 ELSE nextId
    /\ kuma' = [kuma EXCEPT ![IF id = 0 THEN nextId ELSE id] =
                   [st |-> "live", host |-> h, cfg |-> want.cfg]]

(* What Upsert(id, spec) makes of Kuma when it takes effect: it creates    *)
(* for id 0 and edits a live monitor; it cannot edit one that is gone.     *)
Upserted(h, id) ==
    /\ id = 0 \/ Alive(id)
    /\ id = 0 => nextId <= MaxId
    /\ nextId' = IF id = 0 THEN nextId + 1 ELSE nextId
    /\ kuma' = [kuma EXCEPT ![IF id = 0 THEN nextId ELSE id] =
                   [st |-> "live", host |-> h, cfg |-> want.cfg]]

UpsertHost(h) ==
    /\ pc = "upsert" /\ h \in todo
    /\ Upserted(h, plan[h])
    /\ plan' = [plan EXCEPT ![h] = Answer(@)]
    /\ todo' = todo \ {h}
    /\ pc' = Stage(copy, todo \ {h}, drop)
    /\ UNCHANGED <<versions, queued, copy, want, drop, tries, managed, outside>>

(* Upsert returns an error, and with it the whole reconcile: the monitor   *)
(* is gone, the call never reached Kuma, or its answer was lost.           *)
UpsertFails(h) ==
    /\ pc = "upsert" /\ h \in todo
    /\ \/ plan[h] # 0 /\ ~Alive(plan[h]) /\ UNCHANGED <<kuma, nextId, outside>>
       \/ Spend("kuma") /\ UNCHANGED <<kuma, nextId>>
       \/ Spend("kuma") /\ Upserted(h, plan[h])
    /\ UNCHANGED versions /\ Return(TRUE)
    /\ UNCHANGED managed

Removed(id) == kuma' = [kuma EXCEPT ![id].st = "gone", ![id].cfg = NoCfg]

(* deleteAllMonitors and the second loop of syncMonitors.  Deleting a      *)
(* monitor that is gone already succeeds.                                  *)
DeleteHost(h) ==
    /\ pc = "delete" /\ h \in drop
    /\ Removed(copy.ids[h])
    /\ drop' = drop \ {h}
    /\ pc' = Stage(copy, {}, drop \ {h})
    /\ UNCHANGED <<versions, nextId, queued, copy, want, plan, todo, tries,
                   managed, outside>>

DeleteFails(h) ==
    /\ pc = "delete" /\ h \in drop
    /\ Spend("kuma")
    /\ UNCHANGED kuma \/ Removed(copy.ids[h])
    /\ UNCHANGED versions /\ Return(TRUE)
    /\ UNCHANGED <<nextId, managed>>

(* Bug to plant: the write is not held against the version read.           *)
ReleasedBlindly == Store([copy EXCEPT !.fin = FALSE])

(* The deletion branch drops the finalizer from the object it read, so the *)
(* API server refuses it when the object has changed since.                *)
Released == copy.rv = Api.rv /\ Store([copy EXCEPT !.fin = FALSE])

RemoveFinalizer ==
    /\ pc = "unfinalize"
    /\ IF copy.fin THEN Released ELSE UNCHANGED versions
    /\ Return(FALSE) /\ managed' = 0
    /\ UNCHANGED <<kuma, nextId, outside>>

RemoveFinalizerFails ==
    /\ pc = "unfinalize" /\ copy.fin
    /\ \/ copy.rv # Api.rv /\ UNCHANGED <<versions, outside>>
       \/ Spend("api") /\ UNCHANGED versions
       \/ Spend("api") /\ Released
    /\ Return(TRUE)
    /\ UNCHANGED <<kuma, nextId, managed>>

(* persistMonitorIDs reads the object again, from the cache, before each   *)
(* attempt to write it.                                                    *)
PersistGet ==
    /\ pc = "get" /\ Cache.exists
    /\ copy' = Cache /\ pc' = "update"
    /\ UNCHANGED <<versions, kuma, nextId, queued, want, plan, todo, drop,
                   tries, managed, outside>>

PersistGetFails ==
    /\ pc = "get"
    /\ \/ ~Cache.exists /\ UNCHANGED outside
       \/ Cache.exists /\ Spend("api")
    /\ UNCHANGED versions /\ Return(TRUE)
    /\ UNCHANGED <<kuma, nextId, managed>>

Conflict == copy.rv # Api.rv

(* Bugs to plant: give up at the first conflict, or never.                 *)
RetryNever == FALSE
RetryForever == TRUE

(* RetryOnConflict has attempts left.                                      *)
MayRetry == tries + 1 < RetrySteps

(* The API server lets nobody add a finalizer to an object being deleted.  *)
Forbidden == copy.deleting /\ ~copy.fin /\ want # NoHash

(* Bugs to plant: the finalizer or the hash is left as it was.             *)
RecordingUnguarded(o) == [o EXCEPT !.ids = plan, !.hash = want]
RecordingUnhashed(o) == [o EXCEPT !.ids = plan, !.fin = (want # NoHash)]

(* Ids, hash and finalizer are one write of the object just read.          *)
Recording(o) ==
    [o EXCEPT !.ids = plan, !.hash = want, !.fin = (want # NoHash)]

Persisted == ~Conflict /\ ~Forbidden /\ Store(Recording(copy))

(* Bug to plant: count what was recorded before.                           *)
CountedBefore == Cardinality(Recorded(copy.ids))

Counted == Cardinality(Recorded(plan))

(* After the write the gauge is set; an opted-out object is done, any      *)
(* other has its tags synced next.                                         *)
PersistUpdate ==
    /\ pc = "update" /\ Persisted
    /\ managed' = Counted
    /\ \/ want = NoHash /\ Return(FALSE)
       \/ /\ want # NoHash /\ pc' = "tags" /\ Enqueue(FALSE)
          /\ UNCHANGED <<copy, want, plan, todo, drop, tries>>
    /\ UNCHANGED <<kuma, nextId, outside>>

PersistRetry ==
    /\ pc = "update" /\ Conflict /\ Api.exists /\ MayRetry
    /\ tries' = tries + 1 /\ pc' = "get"
    /\ UNCHANGED <<versions, kuma, nextId, queued, copy, want, plan, todo,
                   drop, managed, outside>>

(* The object is gone, the conflicts went on, the write is not allowed, or *)
(* the call fails, before or after the API server has done it.             *)
PersistFails ==
    /\ pc = "update"
    /\ \/ /\ Conflict /\ (~Api.exists \/ ~MayRetry)
          /\ UNCHANGED <<versions, outside>>
       \/ ~Conflict /\ Forbidden /\ UNCHANGED <<versions, outside>>
       \/ Spend("api") /\ UNCHANGED versions
       \/ Spend("api") /\ Persisted
    /\ Return(TRUE)
    /\ UNCHANGED <<kuma, nextId, managed>>

(* syncTagsForHosts, whose result only decides how soon the next reconcile *)
(* comes; RequeueAfter otherwise.                                          *)
SyncTags ==
    /\ pc = "tags"
    /\ UNCHANGED versions /\ Return(TRUE)
    /\ UNCHANGED <<kuma, nextId, managed, outside>>

-----------------------------------------------------------------------------
(* The world around the reconciler.                                        *)

(* The informer receives the next version of the object.                   *)
Deliver ==
    /\ Len(versions) > 1
    /\ versions' = Tail(versions) /\ queued' = TRUE
    /\ UNCHANGED <<kuma, nextId, worker, managed, outside>>

Created(o, hs, c) ==
    [Absent EXCEPT !.exists = TRUE, !.optIn = o, !.hosts = hs, !.cfg = c,
                   !.other = OtherFinalizer]

(* Someone changes the rules, the override annotations or the opt-in of    *)
(* the object, or creates it again.                                        *)
UserEdit ==
    /\ Spend("edit")
    /\ \E o \in BOOLEAN, hs \in SUBSET Hosts, c \in Cfgs \cup {Invalid} :
           \/ /\ Api.exists /\ <<o, hs, c>> # <<Api.optIn, Api.hosts, Api.cfg>>
              /\ Store([Api EXCEPT !.optIn = o, !.hosts = hs, !.cfg = c])
           \/ /\ ~Api.exists
              /\ Store(Created(o, hs, c))
    /\ Enqueue(FALSE)
    /\ UNCHANGED <<kuma, nextId, worker, managed>>

UserDelete ==
    /\ Spend("delete")
    /\ Api.exists /\ ~Api.deleting
    /\ Store([Api EXCEPT !.deleting = TRUE]) /\ Enqueue(FALSE)
    /\ UNCHANGED <<kuma, nextId, worker, managed>>

(* The other controller is done with the deleted object.                   *)
OtherReleases ==
    /\ Api.deleting /\ Api.other
    /\ Store([Api EXCEPT !.other = FALSE]) /\ Enqueue(FALSE)
    /\ UNCHANGED <<kuma, nextId, worker, managed, outside>>

(* Someone edits or deletes a monitor in Kuma's own UI.                    *)
UiEdit(id) ==
    /\ Spend("uiEdit") /\ Alive(id) /\ kuma[id].cfg # Manual
    /\ kuma' = [kuma EXCEPT ![id].cfg = Manual]
    /\ UNCHANGED <<versions, nextId, queued, worker, managed>>

UiDelete(id) ==
    /\ Spend("uiDelete") /\ Alive(id) /\ Removed(id)
    /\ UNCHANGED <<versions, nextId, queued, worker, managed>>

(* The operator's process ends and starts again: the reconcile and the     *)
(* gauge are lost, the informer lists the object afresh.                   *)
Crash ==
    /\ Spend("crash")
    /\ versions' = <<Api>> /\ Forget /\ queued' = TRUE /\ managed' = 0
    /\ UNCHANGED <<kuma, nextId>>

-----------------------------------------------------------------------------
(* The object has just been created and the operator has just started.     *)
Init ==
    /\ \E o \in BOOLEAN, hs \in SUBSET Hosts, c \in Cfgs :
          versions = <<Created(o, hs, c)>>
    /\ kuma = [id \in Ids |-> Unborn] /\ nextId = 1
    /\ queued = TRUE /\ managed = 0
    /\ outside \in [may : Budgets, did : {{}}]
    /\ pc = "idle" /\ copy = Absent /\ want = NoHash /\ plan = NoIds
    /\ todo = {} /\ drop = {} /\ tries = 0

Reconcile ==
    \/ ReconcileGone \/ ReconcileDeleting \/ ReconcileIgnored
    \/ ReconcileOptOut \/ ReconcileInvalid \/ ReconcileUnchanged
    \/ ReconcileChanged
    \/ ListMatches \/ ListDrifted \/ ListFails
    \/ \E h \in Hosts : \/ UpsertHost(h) \/ UpsertFails(h)
                        \/ DeleteHost(h) \/ DeleteFails(h)
    \/ RemoveFinalizer \/ RemoveFinalizerFails
    \/ PersistGet \/ PersistGetFails
    \/ PersistUpdate \/ PersistRetry \/ PersistFails
    \/ SyncTags

World ==
    \/ Deliver \/ UserEdit \/ UserDelete \/ OtherReleases
    \/ (\E id \in Ids : UiEdit(id) \/ UiDelete(id)) \/ Crash

Next == Reconcile \/ World

Spec == Init /\ [][Next]_vars

(* controller-runtime hands a queued request to a worker, every call to    *)
(* Kuma or the API server ends (with ErrOperationTimeout at the latest)    *)
(* and the watch delivers; nothing else of the world has to happen.        *)
FairSpec == Spec /\ WF_vars(Reconcile) /\ WF_vars(Deliver)

-----------------------------------------------------------------------------
(* Safety.                                                                 *)

(* Whatever id the object's annotation holds, in the API server, in the    *)
(* cache or in a reconcile's hands, is that of a monitor the operator      *)
(* itself created for that very host: it never edits or deletes another's, *)
(* and two hosts never share one (syncMonitors, reconcileDrift).           *)
Owned(ids) == \A h \in Recorded(ids) : kuma[ids[h]].host = h
RecordedOwned ==
    /\ \A i \in 1..Len(versions) : Owned(versions[i].ids)
    /\ Owned(copy.ids) /\ Owned(plan)

(* A persisted hash vouches for the ids next to it: exactly the hosts it   *)
(* was computed from have a monitor id.  The drift check relies on it, as  *)
(* it only looks at hosts that have one (specsMatch, reconcileDrift).      *)
Vouched(o) == o.hash # NoHash => Recorded(o.ids) = o.hash.hosts
HashVouches == \A i \in 1..Len(versions) : Vouched(versions[i])

(* As long as an object that is not being deleted has monitors, it carries *)
(* the finalizer: deleting it always comes past the operator               *)
(* (persistMonitorIDs, reconcileHostBasedResource).                        *)
Guarded(o) == Recorded(o.ids) # {} => o.fin \/ o.deleting
MonitorsGuarded == \A i \in 1..Len(versions) : Guarded(versions[i])

(* However stale the object it read was and whatever failed on the way:    *)
(* when the deletion branch takes the finalizer off, every monitor the     *)
(* API server's version of the object records is gone from Kuma.           *)
AllGone(ids) == \A h \in Recorded(ids) : kuma[ids[h]].st = "gone"
CleanRelease ==
    [][pc = "unfinalize" /\ Api.fin /\ ~Api'.fin => AllGone(Api.ids)]_vars

(* Between two reconciles every monitor the operator has in Kuma is        *)
(* recorded in the object.                                                 *)
NoOrphan ==
    pc = "idle" =>
        \A id \in Ids : Alive(id) => \E h \in Hosts : Api.ids[h] = id

(* Kuma never holds two monitors for one host of the object.               *)
OneMonitorPerHost ==
    \A i, j \in Ids :
        Alive(i) /\ Alive(j) /\ kuma[i].host = kuma[j].host => i = j

(* So far people have edited the object and its monitors and nothing else  *)
(* has happened: no call failed, no process ended, nothing was deleted.    *)
OnlyEdits == outside.did \subseteq {"edit", "uiEdit"}

(* As long as people only edit, fewer times than a write is tried, and the *)
(* cache keeps up, no monitor is lost between two reconciles, wherever the *)
(* edits fall between the calls of one, nor does a host ever get a second  *)
(* one, not even for the time of a reconcile (syncMonitors,                *)
(* persistMonitorIDs, reconcileDrift).                                     *)
EditsKeepOneEach == OnlyEdits => NoOrphan /\ OneMonitorPerHost

(* Nor does an opt-out that is overtaken by further edits give up with the *)
(* finalizer what the API server's version still records: that is gone     *)
(* from Kuma by then (the opt-out branch, persistMonitorIDs).              *)
EditsAbandonNothing ==
    [][OnlyEdits /\ Api.fin /\ ~Api'.fin => AllGone(Api.ids)]_vars

-----------------------------------------------------------------------------
(* The abstract specification.                                             *)

GoneIds == {i \in Ids : kuma[i].st = "gone"}

Ledger == INSTANCE MonitorLedger WITH
    Owners <- Hosts, MayDismiss <- TRUE,
    made <- [i \in Ids |-> kuma[i].host], gone <- GoneIds,
    book <- Api.ids, guard <- Api.fin, closing <- pc = "unfinalize"

(* Whatever the cache, the calls and the process do between two versions   *)
(* of the object: the annotation the API server stores is a book as the    *)
(* ledger keeps it.  Only an opt-out strikes entries whose monitors may    *)
(* still be there, an entry never names another host's monitor, no id ever *)
(* changes hosts, and outside of an opt-out the finalizer goes last        *)
(* (syncMonitors, persistMonitorIDs, deleteAllMonitors).                   *)
KeepsLedger == Ledger!Spec

-----------------------------------------------------------------------------
(* Liveness.                                                               *)

(* Kuma and the object agree with what its user asks for.  Annotations     *)
(* nothing can be derived from ask for nothing.                            *)
Synced ==
    CASE ~Api.exists                   -> TRUE
      [] Api.exists /\ Api.deleting    -> ~Api.fin /\ AllGone(Api.ids)
      [] Api.exists /\ ~Api.deleting /\ ~Api.optIn ->
            Recorded(Api.ids) = {} /\ ~Api.fin
      [] Api.exists /\ ~Api.deleting /\ Api.optIn ->
            Api.cfg # Invalid =>
                /\ Recorded(Api.ids) = Api.hosts
                /\ \A h \in Api.hosts :
                      Alive(Api.ids[h]) /\ kuma[Api.ids[h]].cfg = Api.cfg

(* Once users and faults leave the object alone, Kuma ends up as asked and *)
(* stays so (the reconcile loop as a whole).                               *)
Settles == <>[]Synced

(* Once nothing changes any more the operator stops editing monitors,      *)
(* although it goes on reconciling: each edit would restart the monitor's  *)
(* check timer (desiredHash, reconcileDrift).                              *)
EditsStop == <>[](pc # "upsert")

(* The gauge ends up telling how many monitors the object has, none once   *)
(* the operator has let go of it, unless an API write was answered with an *)
(* error although it took effect (ManagedMonitors.Set).                    *)
GaugeSettles ==
    \/ <>("api" \in outside.did)
    \/ <>[](managed = IF Api.fin THEN Cardinality(Recorded(Api.ids)) ELSE 0)
=============================================================================
