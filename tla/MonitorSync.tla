----------------------------- MODULE MonitorSync -----------------------------
(***************************************************************************)
(* One Monitor resource, the operator's reconciler for it                  *)
(* (internal/controller/monitor_controller.go) and the Uptime Kuma server  *)
(* that reconciler drives.                                                 *)
(*                                                                         *)
(* What the operator knows of Kuma is in the resource's status: the id of  *)
(* its monitor, the generation synced last and a Ready condition.  Unlike  *)
(* the host-based reconciler it adds its finalizer before it creates       *)
(* anything, it tells "unchanged" by generation instead of a hash, and the *)
(* configuration it wants depends on a Secret nothing watches.  As in      *)
(* HostSync each call that leaves the process is one step, so users, the   *)
(* informer cache, Kuma's UI, faults and a crash fall between any two.     *)
(***************************************************************************)
EXTENDS Naturals, Sequences, FiniteSets

CONSTANTS
    Specs,           \* the specs the resource can be given
    Refused,         \* those Kuma, or the translation for it, turns down
    Keys,            \* values of the Secret the spec refers to
    NoKey,           \* the Secret, or its key, is missing
    Manual,          \* a configuration only a person in Kuma's UI produces
    NoCfg,           \* no configuration
    MaxId,           \* bound: Kuma hands out the ids 1..MaxId
    RetrySteps,      \* retry.DefaultRetry.Steps: attempts per status write
    MaxLag,          \* bound: versions the informer cache may trail behind
    Budgets          \* bounds: how often each kind of outside event happens;
                     \* one of these in each behaviour

Events == {"edit", "delete", "secret", "kuma", "api", "crash", "uiEdit",
           "uiDelete"}

ASSUME SpecAssumption == Refused \subseteq Specs /\ NoKey \notin Keys

ASSUME BoundAssumption ==
    /\ MaxId \in Nat /\ MaxLag \in Nat /\ RetrySteps \in Nat \ {0}
    /\ Budgets \subseteq [Events -> Nat]

Ids == 1..MaxId

Outside == [may : [Events -> Nat], did : SUBSET Events]

(* What the reconciler asks of Kuma: the spec with its Secret filled in.   *)
Wanted == [spec : Specs, key : Keys]

ASSUME SentinelAssumption ==
    /\ NoCfg \notin Wanted /\ Manual \notin Wanted /\ NoCfg # Manual
    /\ NoCfg \notin Specs

(* What the API server stores; a status without an id holds 0, one never   *)
(* synced the generation 0.                                                *)
Objects == [exists : BOOLEAN, deleting : BOOLEAN, gen : Nat,
            spec : Specs \cup {NoCfg}, fin : BOOLEAN,
            id : Ids \cup {0}, observed : Nat,
            ready : {"Unknown", "True", "False"}, rv : Nat]

Absent == [exists |-> FALSE, deleting |-> FALSE, gen |-> 0, spec |-> NoCfg,
           fin |-> FALSE, id |-> 0, observed |-> 0, ready |-> "Unknown",
           rv |-> 0]

(* A monitor of Kuma's; sent is what the operator last asked it to be.     *)
Monitors == [st : {"unborn", "live", "gone"}, cfg : Wanted \cup {Manual, NoCfg},
             sent : Wanted \cup {NoCfg}]
Unborn == [st |-> "unborn", cfg |-> NoCfg, sent |-> NoCfg]

Stages == {"idle", "delete", "unfinalize", "finalize", "resolve", "list",
           "upsert", "get", "update", "tags"}

VARIABLES
    versions,  \* the resource: the last version is the API server's, the first
               \* the informer cache's, those between are still to be delivered
    kuma,      \* Kuma's monitors, by id
    nextId,    \* the id Kuma gives the next monitor
    secret,    \* the Secret's value
    queued,    \* is a request for the resource in the work queue?
    pc,        \* the call the running reconcile makes next
    copy,      \* mon: the resource as this reconcile last read it
    want,      \* desiredSpec
    id,        \* existingID, then newID
    gen,       \* generationToSync
    failed,    \* did Upsert fail?
    tries,     \* conflicts so far in updateStatus
    managed,   \* what the managed-monitors gauge reports for the resource
    outside    \* outside events: how many of each kind may still happen and
               \* which kinds have happened

worker == <<pc, copy, want, id, gen, failed, tries>>
vars == <<versions, kuma, nextId, secret, queued, worker, managed, outside>>

Api == versions[Len(versions)]
Cache == versions[1]

TypeOK ==
    /\ versions \in Seq(Objects) /\ versions # <<>>
    /\ kuma \in [Ids -> Monitors] /\ nextId \in 1..MaxId + 1
    /\ secret \in Keys \cup {NoKey} /\ queued \in BOOLEAN
    /\ pc \in Stages /\ copy \in Objects /\ want \in Wanted \cup {NoCfg}
    /\ id \in Ids \cup {0} /\ gen \in Nat /\ failed \in BOOLEAN
    /\ tries \in 0..RetrySteps /\ managed \in 0..1
    /\ outside \in Outside

-----------------------------------------------------------------------------
(* The API server and the informer cache.                                  *)

Settled(o) == IF o.deleting /\ ~o.fin THEN [Absent EXCEPT !.rv = o.rv] ELSE o

(* A write that changes the resource is a new version; the cache falls one *)
(* further behind, or is forced on when it is MaxLag behind already.       *)
Store(o) ==
    LET new == Settled([o EXCEPT !.rv = Api.rv + 1])
    IN  versions' = IF o = Api THEN versions
                    ELSE IF Len(versions) <= MaxLag THEN Append(versions, new)
                    ELSE Append(Tail(versions), new)

(* Any version the cache receives puts a request in the queue.             *)
Enqueue(again) == queued' = (queued \/ again \/ versions'[1] # Cache)

Spend(kind) ==
    /\ outside.may[kind] > 0
    /\ outside' = [outside EXCEPT !.may[kind] = @ - 1, !.did = @ \cup {kind}]

-----------------------------------------------------------------------------
(* The reconciler.                                                         *)

Alive(i) == i # 0 /\ kuma[i].st = "live"

Forget ==
    /\ pc' = "idle" /\ copy' = Absent /\ want' = NoCfg /\ id' = 0 /\ gen' = 0
    /\ failed' = FALSE /\ tries' = 0

(* Reconcile returns; again tells whether it asks to be run once more, as  *)
(* an error (back-off) or a RequeueAfter (drift check) does.               *)
Return(again) == Forget /\ Enqueue(again)

Take == pc = "idle" /\ queued /\ queued' = FALSE

ReconcileGone ==
    /\ Take /\ ~Cache.exists
    /\ managed' = 0
    /\ UNCHANGED <<versions, kuma, nextId, secret, worker, outside>>

ReconcileDeleting ==
    /\ Take /\ Cache.exists /\ Cache.deleting
    /\ copy' = Cache /\ id' = Cache.id
    /\ pc' = IF Cache.id # 0 THEN "delete" ELSE "unfinalize"
    /\ UNCHANGED <<versions, kuma, nextId, secret, want, gen, failed, tries,
                   managed, outside>>

(* Bug to plant: the finalizer can wait.                                   *)
FirstCallUnguarded(o) == "resolve"

(* The finalizer comes before anything else.                               *)
FirstCall(o) == IF o.fin THEN "resolve" ELSE "finalize"

ReconcileLive ==
    /\ Take /\ Cache.exists /\ ~Cache.deleting
    /\ copy' = Cache /\ id' = Cache.id /\ pc' = FirstCall(Cache)
    /\ UNCHANGED <<versions, kuma, nextId, secret, want, gen, failed, tries,
                   managed, outside>>

Removed(i) == kuma' = [kuma EXCEPT ![i].st = "gone", ![i].cfg = NoCfg]

(* Deleting a monitor that is gone already succeeds.                       *)
DeleteMonitor ==
    /\ pc = "delete"
    /\ Removed(id) /\ pc' = "unfinalize"
    /\ UNCHANGED <<versions, nextId, secret, queued, copy, want, id, gen,
                   failed, tries, managed, outside>>

DeleteFails ==
    /\ pc = "delete" /\ Spend("kuma")
    /\ UNCHANGED kuma \/ Removed(id)
    /\ UNCHANGED versions /\ Return(TRUE)
    /\ UNCHANGED <<nextId, secret, managed>>

(* Bug to plant: the write is not held against the version read.           *)
ReleasedBlindly == Store([copy EXCEPT !.fin = FALSE])

(* The API server refuses an update of any version but its own.            *)
Released == copy.rv = Api.rv /\ Store([copy EXCEPT !.fin = FALSE])

RemoveFinalizer ==
    /\ pc = "unfinalize"
    /\ IF copy.fin THEN Released ELSE UNCHANGED versions
    /\ Return(FALSE) /\ managed' = 0
    /\ UNCHANGED <<kuma, nextId, secret, outside>>

RemoveFinalizerFails ==
    /\ pc = "unfinalize" /\ copy.fin
    /\ \/ copy.rv # Api.rv /\ UNCHANGED <<versions, outside>>
       \/ Spend("api") /\ UNCHANGED versions
       \/ Spend("api") /\ Released
    /\ Return(TRUE)
    /\ UNCHANGED <<kuma, nextId, secret, managed>>

Finalized == copy.rv = Api.rv /\ Store([copy EXCEPT !.fin = TRUE])

(* Update refreshes the reconciler's copy with the version written.        *)
AddFinalizer ==
    /\ pc = "finalize" /\ Finalized
    /\ copy' = versions'[Len(versions')] /\ pc' = "resolve"
    /\ Enqueue(FALSE)
    /\ UNCHANGED <<kuma, nextId, secret, want, id, gen, failed, tries, managed,
                   outside>>

AddFinalizerFails ==
    /\ pc = "finalize"
    /\ \/ copy.rv # Api.rv /\ UNCHANGED <<versions, outside>>
       \/ Spend("api") /\ UNCHANGED versions
       \/ Spend("api") /\ Finalized
    /\ Return(TRUE)
    /\ UNCHANGED <<kuma, nextId, secret, managed>>

(* The generation is the one synced last: verify Kuma instead of syncing.  *)
Unchanged(o) == o.id # 0 /\ o.observed = o.gen

(* toKumaSpec, resolveReferences and resolveSecret: everything the desired *)
(* configuration depends on could be read.                                 *)
Resolve ==
    /\ pc = "resolve" /\ secret # NoKey
    /\ want' = [spec |-> copy.spec, key |-> secret] /\ gen' = copy.gen
    /\ pc' = IF Unchanged(copy) THEN "list" ELSE "upsert"
    /\ UNCHANGED <<versions, kuma, nextId, secret, queued, copy, id, failed,
                   tries, managed, outside>>

(* The Secret is missing, or reading it or Kuma's notifications and groups *)
(* fails; only an Event tells of it, the Ready condition does not.         *)
ResolveFails ==
    /\ pc = "resolve"
    /\ \/ secret = NoKey /\ UNCHANGED outside
       \/ secret # NoKey /\ Spend("kuma")
    /\ UNCHANGED versions /\ Return(TRUE)
    /\ UNCHANGED <<kuma, nextId, secret, managed>>

(* Bug to plant: the Secret is left out of the comparison.                 *)
MatchesButKey(cfg) == cfg \notin {Manual, NoCfg} /\ cfg.spec = want.spec

(* kuma.Equivalent: secrets are compared like any other field.             *)
Matches(cfg) == cfg = want

(* ExistingSpecs answers: the monitor is as it should be, has to be edited *)
(* in place, or has to be created again.                                   *)
List ==
    /\ pc = "list"
    /\ pc' = IF Alive(id) /\ Matches(kuma[id].cfg) THEN "tags" ELSE "upsert"
    /\ id' = IF Alive(id) THEN id ELSE 0
    /\ UNCHANGED <<versions, kuma, nextId, secret, queued, copy, want, gen,
                   failed, tries, managed, outside>>

ListFails ==
    /\ pc = "list" /\ Spend("kuma")
    /\ UNCHANGED versions /\ Return(TRUE)
    /\ UNCHANGED <<kuma, nextId, secret, managed>>

(* What Upsert(id, want) makes of Kuma when it takes effect.               *)
Upserted ==
    /\ want.spec \notin Refused
    /\ id = 0 \/ Alive(id)
    /\ id = 0 => nextId <= MaxId
    /\ nextId' = IF id = 0 THEN nextId + 1 ELSE nextId
    /\ kuma' = [kuma EXCEPT ![IF id = 0 THEN nextId ELSE id] =
                   [st |-> "live", cfg |-> want, sent |-> want]]

Upsert ==
    /\ pc = "upsert" /\ Upserted
    /\ id' = IF id = 0 THEN nextId ELSE id
    /\ pc' = "get"
    /\ UNCHANGED <<versions, secret, queued, copy, want, gen, failed, tries,
                   managed, outside>>

(* The spec is refused, the monitor is gone, the call never reached Kuma   *)
(* or its answer was lost; the failure is recorded in the status.          *)
UpsertFails ==
    /\ pc = "upsert"
    /\ \/ /\ want.spec \in Refused \/ (id # 0 /\ ~Alive(id))
          /\ UNCHANGED <<kuma, nextId, outside>>
       \/ Spend("kuma") /\ UNCHANGED <<kuma, nextId>>
       \/ Spend("kuma") /\ Upserted
    /\ failed' = TRUE /\ pc' = "get"
    /\ UNCHANGED <<versions, secret, queued, copy, want, id, gen, tries,
                   managed>>

(* Bug to plant: the generation claimed is that of the resource just read. *)
ReportingLatest(o) ==
    IF failed THEN [o EXCEPT !.ready = "False"]
    ELSE [o EXCEPT !.id = id, !.observed = o.gen, !.ready = "True"]

(* Bug to plant: the condition is only ever lowered.                       *)
ReportingFailures(o) ==
    IF failed THEN [o EXCEPT !.ready = "False"]
    ELSE [o EXCEPT !.id = id, !.observed = gen,
                   !.ready = IF @ = "False" THEN @ ELSE "True"]

(* Bug to plant: the generation is not recorded.                           *)
ReportingNoGeneration(o) ==
    IF failed THEN [o EXCEPT !.ready = "False"]
    ELSE [o EXCEPT !.id = id, !.ready = "True"]

(* updateStatus: a failure leaves the id and the generation as they are.   *)
Reporting(o) ==
    IF failed THEN [o EXCEPT !.ready = "False"]
    ELSE [o EXCEPT !.id = id, !.observed = gen, !.ready = "True"]

(* updateStatus is done: a failed sync returns its error, any other goes   *)
(* on with the gauge and the tags.                                         *)
Reported ==
    \/ failed /\ Return(TRUE) /\ UNCHANGED managed
    \/ /\ ~failed /\ managed' = 1 /\ pc' = "tags" /\ Enqueue(FALSE)
       /\ UNCHANGED <<copy, want, id, gen, failed, tries>>

(* Bug to plant: write whether or not something differs.                   *)
AlwaysDiffers(o) == TRUE

Differs(o) == Reporting(o) # o

(* updateStatus reads the resource again, from the cache, before each      *)
(* attempt, and writes only what differs.                                  *)
StatusGet ==
    /\ pc = "get" /\ Cache.exists /\ Differs(Cache)
    /\ copy' = Cache /\ pc' = "update"
    /\ UNCHANGED <<versions, kuma, nextId, secret, queued, want, id, gen,
                   failed, tries, managed, outside>>

StatusSame ==
    /\ pc = "get" /\ Cache.exists /\ ~Differs(Cache)
    /\ UNCHANGED versions /\ Reported
    /\ UNCHANGED <<kuma, nextId, secret, outside>>

StatusGetFails ==
    /\ pc = "get"
    /\ \/ ~Cache.exists /\ UNCHANGED outside
       \/ Cache.exists /\ Spend("api")
    /\ UNCHANGED versions /\ Return(TRUE)
    /\ UNCHANGED <<kuma, nextId, secret, managed>>

Conflict == copy.rv # Api.rv

(* Bugs to plant: give up at the first conflict, or never.                 *)
RetryNever == FALSE
RetryForever == TRUE

(* RetryOnConflict has attempts left.                                      *)
MayRetry == tries + 1 < RetrySteps

StatusUpdate ==
    /\ pc = "update" /\ ~Conflict /\ Store(Reporting(copy))
    /\ Reported
    /\ UNCHANGED <<kuma, nextId, secret, outside>>

StatusRetry ==
    /\ pc = "update" /\ Conflict /\ Api.exists /\ MayRetry
    /\ tries' = tries + 1 /\ pc' = "get"
    /\ UNCHANGED <<versions, kuma, nextId, secret, queued, copy, want, id, gen,
                   failed, managed, outside>>

(* The resource is gone, the conflicts went on, or the call fails, before  *)
(* or after the API server has done it.                                    *)
StatusUpdateFails ==
    /\ pc = "update"
    /\ \/ /\ Conflict /\ (~Api.exists \/ ~MayRetry)
          /\ UNCHANGED <<versions, outside>>
       \/ Spend("api") /\ UNCHANGED versions
       \/ Spend("api") /\ ~Conflict /\ Store(Reporting(copy))
    /\ Return(TRUE)
    /\ UNCHANGED <<kuma, nextId, secret, managed>>

SyncTags ==
    /\ pc = "tags"
    /\ UNCHANGED versions /\ Return(TRUE) /\ managed' = 1
    /\ UNCHANGED <<kuma, nextId, secret, outside>>

SyncTagsFails ==
    /\ pc = "tags" /\ Spend("kuma")
    /\ UNCHANGED versions /\ Return(TRUE)
    /\ UNCHANGED <<kuma, nextId, secret, managed>>

-----------------------------------------------------------------------------
(* The world around the reconciler.                                        *)

(* The informer receives the next version of the resource.                 *)
Deliver ==
    /\ Len(versions) > 1
    /\ versions' = Tail(versions) /\ queued' = TRUE
    /\ UNCHANGED <<kuma, nextId, secret, worker, managed, outside>>

Created(s) == [Absent EXCEPT !.exists = TRUE, !.gen = 1, !.spec = s]

(* Someone changes the spec, which makes a new generation, or creates the  *)
(* resource again.                                                         *)
UserEdit ==
    /\ Spend("edit")
    /\ \E s \in Specs :
          \/ /\ Api.exists /\ Api.spec # s
             /\ Store([Api EXCEPT !.spec = s, !.gen = @ + 1])
          \/ ~Api.exists /\ Store(Created(s))
    /\ Enqueue(FALSE)
    /\ UNCHANGED <<kuma, nextId, secret, worker, managed>>

(* A requested deletion makes a new generation, too.                       *)
UserDelete ==
    /\ Spend("delete") /\ Api.exists /\ ~Api.deleting
    /\ Store([Api EXCEPT !.deleting = TRUE, !.gen = @ + 1]) /\ Enqueue(FALSE)
    /\ UNCHANGED <<kuma, nextId, secret, worker, managed>>

(* Someone rotates, removes or restores the Secret; nothing watches it.    *)
SecretEdit ==
    /\ Spend("secret") /\ \E k \in (Keys \cup {NoKey}) \ {secret} : secret' = k
    /\ UNCHANGED <<versions, kuma, nextId, queued, worker, managed>>

(* Someone edits or deletes a monitor in Kuma's own UI.                    *)
UiEdit(i) ==
    /\ Spend("uiEdit") /\ Alive(i) /\ kuma[i].cfg # Manual
    /\ kuma' = [kuma EXCEPT ![i].cfg = Manual]
    /\ UNCHANGED <<versions, nextId, secret, queued, worker, managed>>

UiDelete(i) ==
    /\ Spend("uiDelete") /\ Alive(i) /\ Removed(i)
    /\ UNCHANGED <<versions, nextId, secret, queued, worker, managed>>

(* The operator's process ends and starts again: the reconcile and the     *)
(* gauge are lost, the informer lists the resource afresh.                 *)
Crash ==
    /\ Spend("crash")
    /\ versions' = <<Api>> /\ Forget /\ queued' = TRUE /\ managed' = 0
    /\ UNCHANGED <<kuma, nextId, secret>>

-----------------------------------------------------------------------------
(* The resource has just been created and the operator has just started.   *)
Init ==
    /\ \E s \in Specs : versions = <<Created(s)>>
    /\ kuma = [i \in Ids |-> Unborn] /\ nextId = 1
    /\ secret \in Keys \cup {NoKey}
    /\ queued = TRUE /\ managed = 0
    /\ outside \in [may : Budgets, did : {{}}]
    /\ pc = "idle" /\ copy = Absent /\ want = NoCfg /\ id = 0 /\ gen = 0
    /\ failed = FALSE /\ tries = 0

Reconcile ==
    \/ ReconcileGone \/ ReconcileDeleting \/ ReconcileLive
    \/ DeleteMonitor \/ DeleteFails
    \/ RemoveFinalizer \/ RemoveFinalizerFails
    \/ AddFinalizer \/ AddFinalizerFails
    \/ Resolve \/ ResolveFails \/ List \/ ListFails
    \/ Upsert \/ UpsertFails
    \/ StatusGet \/ StatusSame \/ StatusGetFails
    \/ StatusUpdate \/ StatusRetry \/ StatusUpdateFails
    \/ SyncTags \/ SyncTagsFails

World ==
    \/ Deliver \/ UserEdit \/ UserDelete \/ SecretEdit
    \/ (\E i \in Ids : UiEdit(i) \/ UiDelete(i)) \/ Crash

Next == Reconcile \/ World

Spec == Init /\ [][Next]_vars

(* controller-runtime hands a queued request to a worker, every call ends  *)
(* (with ErrOperationTimeout at the latest) and the watch delivers;        *)
(* nothing else of the world has to happen.                                *)
FairSpec == Spec /\ WF_vars(Reconcile) /\ WF_vars(Deliver)

-----------------------------------------------------------------------------
(* Safety.                                                                 *)

(* Whenever the status claims the generation it stands beside, what the    *)
(* operator last sent to the monitor it names is that generation's spec:   *)
(* no edit made while a sync is under way is ever taken for synced         *)
(* (generationToSync, captured before Upsert and written after it).        *)
Vouched(o) ==
    o.id # 0 /\ o.observed = o.gen /\ Alive(o.id) =>
        kuma[o.id].sent.spec = o.spec
GenerationVouches == \A n \in 1..Len(versions) : Vouched(versions[n])

(* A resource with a monitor carries the finalizer until the operator has  *)
(* let go of it (the finalizer is added before Upsert, and updateStatus    *)
(* refuses a copy read before that).                                       *)
Guarded(o) == o.id # 0 => o.fin
MonitorGuarded == \A n \in 1..Len(versions) : Guarded(versions[n])

(* As long as no call fails and the process does not end, every monitor    *)
(* the operator has in Kuma is, between two reconciles, the one its status *)
(* records, deletions included: however users, the Secret and Kuma's UI    *)
(* change under a running reconcile, none is lost or created twice         *)
(* (the finalizer before Upsert, updateStatus before anything else).       *)
NoOrphan ==
    pc = "idle" /\ outside.did \cap {"kuma", "api", "crash"} = {} =>
        \A i \in Ids : Alive(i) => Api.id = i

(* Kuma never holds two monitors for the resource.                         *)
OneMonitor == \A i, j \in Ids : Alive(i) /\ Alive(j) => i = j

-----------------------------------------------------------------------------
(* The abstract specification.                                             *)

Self == "monitor"
Born(i) == IF kuma[i].st = "unborn" THEN "nobody" ELSE Self
GoneIds == {i \in Ids : kuma[i].st = "gone"}

Ledger == INSTANCE MonitorLedger WITH
    Owners <- {Self}, Nobody <- "nobody", MayDismiss <- FALSE,
    made <- [i \in Ids |-> Born(i)], gone <- GoneIds,
    book <- [o \in {Self} |-> Api.id], guard <- Api.fin,
    closing <- pc = "unfinalize"

(* Whatever the cache, the calls and the process do between two versions   *)
(* of the resource: its status is a book of one entry as the ledger keeps  *)
(* it.  The entry only ever names a monitor the operator made, no write of *)
(* it leaves the finalizer off, and the finalizer goes after the monitor,  *)
(* with no opt-out to make an exception for (Reconcile, updateStatus).     *)
KeepsLedger == Ledger!Spec

-----------------------------------------------------------------------------
(* Liveness.                                                               *)

(* Kuma and the resource agree.  A refused spec or a missing Secret asks   *)
(* for nothing.                                                            *)
Synced ==
    CASE ~Api.exists                 -> TRUE
      [] Api.exists /\ Api.deleting  -> ~Api.fin
      [] Api.exists /\ ~Api.deleting ->
            Api.spec \notin Refused /\ secret # NoKey =>
                /\ Alive(Api.id) /\ Api.observed = Api.gen
                /\ kuma[Api.id].cfg = [spec |-> Api.spec, key |-> secret]

(* Once users and faults leave it alone, the resource is deleted if it was *)
(* asked to be, and otherwise Kuma ends up with its spec and with the      *)
(* Secret's last value, although nothing tells the operator of a new one   *)
(* (the reconcile loop as a whole).                                        *)
Settles == <>[]Synced

(* Once nothing changes any more the operator stops editing its monitor,   *)
(* unless Kuma refuses it: each edit would restart the monitor's check     *)
(* timer (MonitorStatus.ObservedGeneration).                               *)
EditsStop == <>[](pc = "upsert" => want.spec \in Refused)

(* The status stops being written, whether syncs succeed or fail: a write  *)
(* per reconcile would trigger the next one without end (updateStatus).    *)
WritesStop == <>[](pc # "update")

(* The Ready condition ends up telling whether Kuma has what the spec asks *)
(* for, unless a Kuma call has failed (updateStatus, setReady).            *)
ReadyTruthful ==
    \/ <>("kuma" \in outside.did)
    \/ <>[](Api.exists /\ ~Api.deleting /\ secret # NoKey =>
              Api.ready = IF Api.spec \in Refused THEN "False" ELSE "True")
=============================================================================
