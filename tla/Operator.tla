------------------------------ MODULE Operator ------------------------------
(***************************************************************************)
(* The operator as its users meet it: a process that is configured and     *)
(* started (cmd/main.go), the controllers of the three routed kinds side   *)
(* by side, many objects with the rules and annotations of Derive, and one *)
(* Kuma.  A reconcile is one step here: HostSync has its calls, with what  *)
(* may come between them and fail, the stale cache and the conflicting     *)
(* writes.  This module has what HostSync takes as given or leaves out:    *)
(* which objects a process looks at, what they ask for, several objects    *)
(* with one monitor, a configuration that changes.  References to channels *)
(* and groups are in Translate, tags in TagSync, Monitors in MonitorSync.  *)
(***************************************************************************)
EXTENDS Derive, Config

CONSTANTS
    None,       \* no hash, no process
    Garbage,    \* a monitor-ids annotation that is not JSON
    Edited,     \* what a monitor is after an edit in Kuma's UI
    Names,      \* the names of objects
    Kind,       \* Kind[n]: "Ingress", "HTTPRoute" or "Service"
    Namespace,  \* Namespace[n]: where n is
    Secrets,    \* the passwords and session tokens Kuma accepts
    Worlds,     \* sequence of beginnings: the objects there first, the CRD,
                \* the environments and asks its users choose from, and how
                \* often what may happen
    MaxId       \* bound: how many monitors Kuma can create

(* What discovery of the CRD may answer.                                   *)
Answers == {"installed", "missing", "error"}

ASSUME NameAssumption ==
    /\ Kind \in [Names -> {"Ingress", "HTTPRoute", "Service"}]
    /\ Namespace \in [Names -> STRING \ {""}] /\ MaxId \in Nat
ASSUME WorldAssumption ==
    \A w \in Range(Worlds) :
        /\ DOMAIN w.asks = Names /\ DOMAIN w.first \subseteq Names
        /\ \A n \in DOMAIN w.first : w.first[n] \in w.asks[n]
        /\ \A n \in Names : \A ask \in w.asks[n] : ask.hosts \in Seq(STRING)
        /\ \A e \in w.envs : e.WATCH_NAMESPACES \in Seq(STRING)
ASSUME NoneAssumption ==
    \A w \in Range(Worlds) : \A e \in w.envs :
        \A answer \in Answers : [cfg |-> Load(e), answer |-> answer] # None

VARIABLES
    world,    \* which of Worlds this is
    may,      \* what may still happen
    env,      \* the environment of the operator's pod
    gateway,  \* is the HTTPRoute CRD installed?
    proc,     \* None, or the process: its configuration and what it was
              \* told of the CRD when it started
    objs,     \* API server: of each object there is, what it asks for and
              \* its monitor-ids (host -> id), synced-hash and finalizer
    kuma,     \* Kuma: id -> the monitor's configuration, and whether the
              \* reconcile that made it went through
    nextId,   \* Kuma: the next id
    due,      \* the objects queued for a reconcile
    counts    \* the gauge: how many monitors each object has
vars == <<world, may, env, gateway, proc, objs, kuma, nextId, due, counts>>

Asks == UNION {UNION Range(w.asks) : w \in Range(Worlds)}
NoIds == <<>>
Spend(kind) ==
    may[kind] > 0 /\ may' = [may EXCEPT ![kind] = @ - 1] /\ UNCHANGED world

-----------------------------------------------------------------------------
(* Which objects the process looks at.                                     *)

(* The manager's cache holds the namespaces it is given, and every one if  *)
(* it is given none or NamespaceAll, the empty name.                       *)
CacheHolds(cfg, ns) ==
    \/ cfg.watchAll
    \/ ns \in ToSet(cfg.watchNamespaces) \/ "" \in ToSet(cfg.watchNamespaces)

(* An error is taken for a cluster without the CRD.                        *)
HTTPRouteCRDInstalled(answer) == answer = "installed"

Controllers(answer) ==
    {"Ingress", "Service"}
    \cup (IF HTTPRouteCRDInstalled(answer) THEN {"HTTPRoute"} ELSE {})

Serves(n) ==
    /\ proc # None /\ CacheHolds(proc.cfg, Namespace[n])
    /\ Kind[n] \in Controllers(proc.answer)

-----------------------------------------------------------------------------
(* What an object asks for.                                                *)

Exists(n) == n \in DOMAIN objs
Removed(n) == Restrict(objs, DOMAIN objs \ {n})
Opted(n) == ShouldSync(proc.cfg.optInByDefault, objs[n].ask.ann)

Rules(n, ask) ==
    [kind |-> Kind[n], ns |-> Namespace[n], name |-> n,
     hosts |-> ask.hosts, tls |-> ask.tls, ports |-> ask.ports]

(* A table, computed once.                                                 *)
Overrides ==
    [ann \in {ask.ann : ask \in Asks} |-> ParseOverrides(ann)]

Derived ==
    [n \in Names |-> [ask \in Asks |->
        IF Overrides[ask.ann] = Invalid THEN Invalid
        ELSE DeriveMonitors(Rules(n, ask), Overrides[ask.ann])]]

Desired(n) == Derived[n][objs[n].ask]

IdsOf(n) == IF objs[n].ids = Garbage THEN {} ELSE Range(objs[n].ids)

(* Bug to plant: an object replaces the sum of those before it.            *)
ObservedLast(kind, ns) ==
    LET here == {n \in Names : Kind[n] = kind /\ Namespace[n] = ns}
    IN  IF here = {} THEN 0 ELSE counts[CHOOSE n \in here : TRUE]

(* The gauge's callback: the sum over the objects of a kind and namespace. *)
Observed(kind, ns) ==
    MapThenSumSet(LAMBDA n : counts[n],
                  {n \in Names : Kind[n] = kind /\ Namespace[n] = ns})

-----------------------------------------------------------------------------
(* Calls to Kuma, in order, for the monitors at some places of dms, under  *)
(* the ids planned for their hosts, or else under new ones.                *)
Upserts(dms, places, plan, through) ==
    LET fresh == {i \in places : dms[i].host \notin DOMAIN plan}
        id == [i \in places |->
                 IF i \in fresh THEN nextId + Cardinality({j \in fresh : j < i})
                 ELSE plan[dms[i].host]]
        Latest(made) == CHOOSE i \in made : \A j \in made : j <= i
    IN  [next |-> nextId + Cardinality(fresh),
         kuma |-> [k \in DOMAIN kuma \cup Range(id) |->
            IF k \in Range(id)
            THEN [spec |-> dms[Latest({i \in places : id[i] = k})].spec,
                  kept |-> IF k >= nextId THEN through ELSE kuma[k].kept]
            ELSE kuma[k]],
         ids |-> [h \in {dms[i].host : i \in places} |->
            id[Latest({i \in places : dms[i].host = h})]]]

Apply(w, deleted) ==
    /\ w.next <= MaxId + 1 /\ nextId' = w.next
    /\ kuma' = Restrict(w.kuma, DOMAIN w.kuma \ deleted)

(* syncMonitors edits a monitor under its recorded id; one that is gone    *)
(* fails, and what came before it has happened.                            *)
Gone(n, dms) ==
    {i \in DOMAIN dms : /\ dms[i].host \in DOMAIN objs[n].ids
                        /\ objs[n].ids[dms[i].host] \notin DOMAIN kuma}

(* specsMatch: of the recorded hosts that are still desired.               *)
Drifted(n, dms) ==
    LET ids == objs[n].ids
    IN  {i \in DOMAIN dms :
            /\ dms[i].host \in DOMAIN ids
            /\ ids[dms[i].host] \in DOMAIN kuma =>
                  kuma[ids[dms[i].host]].spec # dms[i].spec}

-----------------------------------------------------------------------------
(* reconcileHostBasedResource, of one object.                              *)

Take(n) == n \in due /\ Serves(n)
Ready(n) == Take(n) /\ Exists(n) /\ ~objs[n].deleting /\ objs[n].ids # Garbage

(* The next drift check, if there is one.                                  *)
Again(n) == due' = IF proc.cfg.driftCheckInterval > 0 THEN due ELSE due \ {n}

(* Bug to plant: the count is added to what was there.                     *)
SetCountAdding(n, k) == counts' = [counts EXCEPT ![n] = @ + k]

SetCount(n, k) == counts' = [counts EXCEPT ![n] = k]

ReconcileGone(n) ==
    /\ Take(n) /\ ~Exists(n)
    /\ due' = due \ {n} /\ SetCount(n, 0)
    /\ UNCHANGED <<world, may, env, gateway, proc, objs, kuma, nextId>>

(* deleteAllMonitors; a monitor that is gone already is no error.          *)
DeleteAll(n) == kuma' = Restrict(kuma, DOMAIN kuma \ IdsOf(n))

ReconcileDeleting(n) ==
    /\ Take(n) /\ Exists(n) /\ objs[n].deleting /\ objs[n].ids # Garbage
    /\ DeleteAll(n) /\ objs' = Removed(n)
    /\ SetCount(n, 0)
    /\ UNCHANGED <<world, may, env, gateway, proc, nextId, due>>

ReconcileIgnored(n) ==
    /\ Ready(n) /\ ~Opted(n) /\ objs[n].ids = NoIds /\ ~objs[n].fin
    /\ due' = due \ {n}
    /\ UNCHANGED <<world, may, env, gateway, proc, objs, kuma, nextId, counts>>

ReconcileOptOut(n) ==
    /\ Ready(n) /\ ~Opted(n) /\ (objs[n].ids # NoIds \/ objs[n].fin)
    /\ DeleteAll(n) /\ SetCount(n, 0)
    /\ objs' = [objs EXCEPT ![n].ids = NoIds, ![n].hash = None, ![n].fin = FALSE]
    /\ UNCHANGED <<world, may, env, gateway, proc, nextId, due>>

(* persistMonitorIDs.                                                      *)
Persist(n, ids, hash) ==
    /\ objs' = [objs EXCEPT ![n].ids = ids, ![n].hash = hash, ![n].fin = TRUE]
    /\ SetCount(n, Cardinality(DOMAIN ids))

ReconcileMatching(n) ==
    /\ Ready(n) /\ Opted(n) /\ Desired(n) # Invalid
    /\ objs[n].hash = Desired(n) /\ Drifted(n, Desired(n)) = {}
    /\ SetCount(n, Cardinality(DOMAIN objs[n].ids)) /\ Again(n)
    /\ UNCHANGED <<world, may, env, gateway, proc, objs, kuma, nextId>>

(* reconcileDrift: a missing monitor is created anew, an edited one is     *)
(* edited back.                                                            *)
ReconcileDrifted(n) ==
    LET dms == Desired(n)
        ids == objs[n].ids
        there == {h \in DOMAIN ids : ids[h] \in DOMAIN kuma}
        w == Upserts(dms, Drifted(n, dms), Restrict(ids, there), TRUE)
    IN  /\ Ready(n) /\ Opted(n) /\ dms # Invalid
        /\ objs[n].hash = dms /\ Drifted(n, dms) # {}
        /\ Apply(w, {})
        /\ Persist(n, [h \in DOMAIN ids |->
                         IF h \in DOMAIN w.ids THEN w.ids[h] ELSE ids[h]], dms)
        /\ UNCHANGED <<world, may, env, gateway, proc, due>>

ReconcileChanged(n) ==
    LET dms == Desired(n)
        w == Upserts(dms, DOMAIN dms, objs[n].ids, TRUE)
        retired == {objs[n].ids[h] : h \in DOMAIN objs[n].ids \ DOMAIN w.ids}
    IN  /\ Ready(n) /\ Opted(n) /\ dms # Invalid
        /\ objs[n].hash # dms /\ Gone(n, dms) = {}
        /\ Apply(w, retired) /\ Persist(n, w.ids, dms)
        /\ UNCHANGED <<world, may, env, gateway, proc, due>>

(* The recorded id of a host is gone from Kuma: the monitors before it are *)
(* upserted, on every retry, and their ids forgotten.  A world has so many *)
(* retries.                                                                *)
ReconcileFails(n) ==
    LET dms == Desired(n)
        before == {i \in DOMAIN dms : \A j \in Gone(n, dms) : i < j}
        w == Upserts(dms, before, objs[n].ids, FALSE)
    IN  /\ Ready(n) /\ Opted(n) /\ dms # Invalid
        /\ objs[n].hash # dms /\ Gone(n, dms) # {}
        /\ Spend("retry") /\ Apply(w, {})
        /\ UNCHANGED <<env, gateway, proc, objs, due, counts>>

(* An annotation that cannot be read and rules that cannot be derived from *)
(* are errors: nothing changes, and the object stays due.                  *)
ReconcileErrs(n) ==
    /\ Take(n) /\ Exists(n)
    /\ \/ objs[n].ids = Garbage
       \/ ~objs[n].deleting /\ Opted(n) /\ Desired(n) = Invalid
    /\ UNCHANGED vars

Reconcile(n) ==
    \/ ReconcileGone(n) \/ ReconcileDeleting(n)
    \/ ReconcileIgnored(n) \/ ReconcileOptOut(n)
    \/ ReconcileMatching(n) \/ ReconcileDrifted(n)
    \/ ReconcileChanged(n) \/ ReconcileFails(n) \/ ReconcileErrs(n)

-----------------------------------------------------------------------------
(* The process.                                                            *)

NoCounts == [n \in Names |-> 0]

(* NewClient: a session token first, a password as the fallback.           *)
LogsIn(cfg) == {cfg.token, cfg.password} \cap Secrets # {}

(* Every object in the cache is reconciled first.  A process that does not *)
(* get this far exits and is started again.                                *)
Start ==
    /\ proc = None /\ Load(env) # Invalid /\ LogsIn(Load(env))
    /\ \/ /\ proc' = [cfg |-> Load(env),
                       answer |-> IF gateway THEN "installed" ELSE "missing"]
          /\ UNCHANGED <<world, may>>
       \/ /\ Spend("discovery")
          /\ proc' = [cfg |-> Load(env), answer |-> "error"]
    /\ due' = DOMAIN objs
    /\ UNCHANGED <<env, gateway, objs, kuma, nextId, counts>>

Exit == proc' = None /\ due' = {} /\ counts' = NoCounts

Crash ==
    /\ Spend("crash") /\ proc # None /\ Exit
    /\ UNCHANGED <<env, gateway, objs, kuma, nextId>>

(* The deployment is changed, and its pod replaced.                        *)
AdminEdit ==
    /\ Spend("admin") /\ env' \in Worlds[world].envs \ {env} /\ Exit
    /\ UNCHANGED <<gateway, objs, kuma, nextId>>

GatewayInstalled ==
    /\ Spend("gateway") /\ ~gateway /\ gateway' = TRUE
    /\ UNCHANGED <<env, proc, objs, kuma, nextId, due, counts>>

-----------------------------------------------------------------------------
(* Users of the cluster.                                                   *)

Created(ask) ==
    [ask |-> ask, ids |-> NoIds, hash |-> None, fin |-> FALSE, deleting |-> FALSE]

(* The watch tells a running process.                                      *)
Watched(n) ==
    /\ due' = IF Serves(n) THEN due \cup {n} ELSE due
    /\ UNCHANGED <<env, gateway, proc, kuma, nextId, counts>>

Changed(n, o) ==
    /\ objs' = [m \in DOMAIN objs \cup {n} |-> IF m = n THEN o ELSE objs[m]]
    /\ Watched(n)

UserEdit(n) ==
    /\ Spend("edit") /\ (Kind[n] = "HTTPRoute" => gateway)
    /\ \E ask \in Worlds[world].asks[n] :
          \/ ~Exists(n) /\ Changed(n, Created(ask))
          \/ /\ Exists(n) /\ ask # objs[n].ask
             /\ Changed(n, [objs[n] EXCEPT !.ask = ask])

UserDelete(n) ==
    /\ Spend("delete") /\ Exists(n) /\ ~objs[n].deleting
    /\ \/ objs[n].fin /\ Changed(n, [objs[n] EXCEPT !.deleting = TRUE])
       \/ ~objs[n].fin /\ objs' = Removed(n) /\ Watched(n)

(* An object is exported and created again under another name, with its    *)
(* annotations but without its finalizer.                                  *)
UserCopy(n, m) ==
    /\ Spend("copy") /\ Exists(n) /\ ~Exists(m)
    /\ Kind[m] = Kind[n] /\ Namespace[m] = Namespace[n]
    /\ Changed(m, [objs[n] EXCEPT !.fin = FALSE, !.deleting = FALSE])

UserMangles(n) ==
    /\ Spend("mangle") /\ Exists(n) /\ Changed(n, [objs[n] EXCEPT !.ids = Garbage])

UiDelete(id) ==
    /\ Spend("uiDelete") /\ kuma' = Restrict(kuma, DOMAIN kuma \ {id})
    /\ UNCHANGED <<env, gateway, proc, objs, nextId, due, counts>>

UiEdit(id) ==
    /\ Spend("uiEdit") /\ kuma' = [kuma EXCEPT ![id].spec = Edited]
    /\ UNCHANGED <<env, gateway, proc, objs, nextId, due, counts>>

Init ==
    /\ world \in DOMAIN Worlds /\ may = Worlds[world].may
    /\ env \in Worlds[world].envs /\ gateway = Worlds[world].gateway
    /\ objs = [n \in DOMAIN Worlds[world].first |->
                 Created(Worlds[world].first[n])]
    /\ proc = None /\ kuma = NoIds /\ nextId = 1 /\ due = {} /\ counts = NoCounts

Next ==
    \/ \E n \in Names : Reconcile(n)
    \/ Start \/ Crash \/ AdminEdit \/ GatewayInstalled
    \/ \E n \in Names : UserEdit(n) \/ UserDelete(n) \/ UserMangles(n)
    \/ \E m, n \in Names : UserCopy(n, m)
    \/ \E id \in DOMAIN kuma : UiDelete(id) \/ UiEdit(id)

Spec == Init /\ [][Next]_vars

(* The pod is restarted until it runs, and a worker takes every object     *)
(* that is due.                                                            *)
FairSpec ==
    Spec /\ WF_vars(Start) /\ \A n \in Names : WF_vars(Reconcile(n))

-----------------------------------------------------------------------------
TypeOK ==
    /\ proc # None => proc.answer \in Answers
    /\ proc = None => due = {} /\ counts = NoCounts
    /\ DOMAIN kuma \subseteq 1..nextId - 1 /\ nextId \in 1..MaxId + 1
    /\ due \subseteq Names /\ counts \in [Names -> 0..MaxId]
    /\ \A n \in Names : Exists(n) => IdsOf(n) \subseteq 1..nextId - 1
    /\ \A n \in Names : Exists(n) /\ objs[n].deleting => objs[n].fin

(* Every monitor whose making went through is on record with an object     *)
(* that guards it by its finalizer, however often a host is repeated,      *)
(* whatever the object is changed to and whichever object it was copied    *)
(* from (IngressMonitors, HTTPRouteMonitors, syncMonitors).                *)
NothingLeaked ==
    (\A n \in Names : Exists(n) => objs[n].ids # Garbage) =>
        \A id \in DOMAIN kuma : kuma[id].kept =>
            \E n \in Names : Exists(n) /\ objs[n].fin /\ id \in IdsOf(n)

-----------------------------------------------------------------------------
(* What docs/README.md says an object gets, in its own words.              *)

Ann(n, scope, field) == Text(objs[n].ask.ann, <<scope, field>>)

(* The namespaces an administrator has named.                              *)
NamespaceWatched(ns) ==
    \/ env.WATCH_ALL = "true" \/ ns \in ToSet(env.WATCH_NAMESPACES)
    \/ ToSet(env.WATCH_NAMESPACES) \subseteq {""} /\ ns = env.POD_NAMESPACE

(* Enabled says so, or says nothing where that is enough.                  *)
Wanted(n) ==
    \/ Ann(n, "", "enabled") = "true"
    \/ env.OPT_IN_BY_DEFAULT = "true" /\ Ann(n, "", "enabled") # "false"

TypeOf(n) == IF Kind[n] = "Service" THEN OrDefault(Ann(n, "", "type"), "HTTP")
             ELSE "HTTP"
HasPort(n) == Kind[n] = "Service" /\ TypeOf(n) \in {"HTTP", "TCP", "Gamedig"}

(* The ports an annotation may mean: by number or by name, or the only one. *)
PortsMeant(n) ==
    LET text == Ann(n, Scope[TypeOf(n)], "port")
        ports == ToSet(objs[n].ask.ports)
    IN  {p.port : p \in {q \in ports :
            \/ text = "" /\ Len(objs[n].ask.ports) = 1
            \/ text # "" /\ q.name = text
            \/ text \in DOMAIN IntOf /\ q.port = IntOf[text]}}

Understood(n) ==
    /\ Overrides[objs[n].ask.ann] # Invalid
    /\ TypeOf(n) \in DOMAIN Scope
    /\ HasPort(n) => PortsMeant(n) # {}
    /\ TypeOf(n) = "Gamedig" => Ann(n, "gamedig", "game") # ""

HostsMeant(n) ==
    IF Kind[n] # "Service" THEN ToSet(objs[n].ask.hosts) \ {""}
    ELSE {OrDefault(Ann(n, Scope[TypeOf(n)], "host"),
                    n \o "." \o Namespace[n] \o ".svc.cluster.local")}

NameMeant(n, host) ==
    OrDefault(Ann(n, "", "name"),
              Namespace[n] \o "/" \o n
              \o (IF Kind[n] = "Service" THEN "" ELSE "/" \o host))

SchemeMeant(n, host) ==
    OrDefault(Ann(n, "http", "scheme"),
              CASE Kind[n] = "HTTPRoute" -> "https"
                [] Kind[n] = "Ingress" ->
                      IF host \in objs[n].ask.tls THEN "https" ELSE "http"
                [] Kind[n] = "Service" -> "http")

TargetsMeant(n, host) ==
    LET url == IF TypeOf(n) # "HTTP" THEN <<>> ELSE <<SchemeMeant(n, host)>>
        path == IF TypeOf(n) # "HTTP" THEN <<>>
                ELSE <<OrDefault(Ann(n, "http", "path"), "/")>>
    IN  IF HasPort(n) THEN {url \o <<host, p>> \o path : p \in PortsMeant(n)}
        ELSE {url \o <<host>> \o path}

(* The monitor of a host is the one described.                             *)
Fits(n, host, m) ==
    /\ m # Edited /\ m.type = TypeOf(n) /\ m.name = NameMeant(n, host)
    /\ m.target \in TargetsMeant(n, host)

(* Kuma has what an object asks for, and nothing else of it.               *)
AsDescribed(n) ==
    LET o == objs[n]
    IN  Exists(n) =>
            /\ ~o.deleting
            /\ IF Wanted(n)
               THEN /\ DOMAIN o.ids = HostsMeant(n)
                    /\ \A h \in HostsMeant(n) :
                          o.ids[h] \in DOMAIN kuma /\ Fits(n, h, kuma[o.ids[h]].spec)
               ELSE o.ids = NoIds /\ ~o.fin

-----------------------------------------------------------------------------
(* What the operator does not look after: objects elsewhere, HTTPRoutes    *)
(* where the CRD was not there, or not found, when it started, annotations *)
(* and rules that mean nothing, and the operator's own annotation          *)
(* overwritten.                                                            *)
LeftAlone(n) ==
    \/ ~NamespaceWatched(Namespace[n])
    \/ Kind[n] = "HTTPRoute" /\ proc.answer # "installed"
    \/ Exists(n) /\ objs[n].ids = Garbage
    \/ Exists(n) /\ ~objs[n].deleting /\ Wanted(n) /\ ~Understood(n)

(* Known disagreements: a change that meets a monitor deleted in the UI,   *)
(* and copies, which take the monitor for theirs in turn.                  *)
Entangled(n) ==
    /\ Exists(n) /\ objs[n].ids # Garbage
    /\ \/ /\ objs[n].hash # Desired(n) /\ Desired(n) # Invalid
          /\ Gone(n, Desired(n)) # {}
       \/ \E m \in Names \ {n} : Exists(m) /\ IdsOf(m) \cap IdsOf(n) # {}

(* Another: an object that is ignored stays in the gauge if it was in it,  *)
(* as a copy without a finalizer that is deleted and created again.        *)
Miscounted(n) ==
    Exists(n) /\ ~Wanted(n) /\ objs[n].ids = NoIds /\ counts[n] # 0

Excused(n) == LeftAlone(n) \/ Entangled(n)

(* An environment the documentation allows.                                *)
Sound ==
    /\ env.KUMA_URL # "" /\ {env.KUMA_SESSION_TOKEN, env.KUMA_PASSWORD} \cap Secrets # {}
    /\ CredentialsAccepted(env) /\ LogLevel(env) \in ValidLogLevels
    /\ env.DRIFT_CHECK_INTERVAL \in {""} \cup {t \in DOMAIN DurationOf : DurationOf[t] > 0}
    /\ \E ns \in Range(Namespace) : NamespaceWatched(ns)
    /\ ToSet(env.LABEL_TAG_PATTERNS) \subseteq Compiles \cup {""}

(* Whatever users, administrators and Kuma's UI do to it, once they stop   *)
(* the operator runs if its configuration allows it, and if it runs every  *)
(* object it looks after has what the documentation describes, until the   *)
(* next change: no object is held up by the mistakes in another            *)
(* (Load, derive, annotations, the drift check).                           *)
Settles ==
    <>[]/\ Sound => proc # None
        /\ proc # None => \A n \in Names : Excused(n) \/ AsDescribed(n)

(* The gauge tells, by kind and namespace, how many monitors the objects   *)
(* there own, however often the process was restarted (ManagedMonitors).   *)
GaugeTotals ==
    <>[](proc # None =>
            \A kind \in Range(Kind), ns \in Range(Namespace) :
                LET here == {n \in Names : Kind[n] = kind /\ Namespace[n] = ns}
                IN  \/ \E n \in here : Excused(n) \/ Miscounted(n)
                    \/ Observed(kind, ns) =
                          MapThenSumSet(LAMBDA n : Cardinality(IdsOf(n)),
                                        {n \in here : Exists(n)}))

(* The operator makes, edits and deletes monitors for objects in the       *)
(* namespaces an administrator has named, and for no others (Load, the     *)
(* manager's cache).                                                       *)
ScopeAsConfigured ==
    [][\A n \in Names : Reconcile(n) => NamespaceWatched(Namespace[n])]_vars
=============================================================================
