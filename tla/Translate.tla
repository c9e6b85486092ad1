------------------------------ MODULE Translate ------------------------------
(***************************************************************************)
(* A monitor's configuration on its way to Kuma and back: the rules by     *)
(* which the API server admits a Monitor (api/v1alpha1/monitor_types.go),  *)
(* its conversion and resolution (internal/controller/convert.go, sync.go) *)
(* and its translation (internal/kuma/translate.go, spec.go, client.go).   *)
(* The operator edits a monitor when the                                   *)
(* configuration it wants has changed, or when Equivalent says that the    *)
(* one Kuma lists is another: every difference between what is sent and    *)
(* what comes back that is not a drift restarts the monitor's check timer  *)
(* on every reconcile, and every drift it does not see is never corrected. *)
(*                                                                         *)
(* Of fields that are only copied both ways one stands for all: resend     *)
(* for the numbers and switches every monitor has, host, url and auth for  *)
(* the details.  Timeouts are float64 seconds in Kuma:    *)
(* here tenths of a second.  Monitors come and go in HostSync; here there  *)
(* is one, after it has been created.                                      *)
(***************************************************************************)
EXTENDS Lists

CONSTANTS
    Nil,        \* a nil pointer
    Text,       \* the texts of Go
    Specs,      \* what users may ask for: a MonitorSpec, notifications and
                \* group by name, the sub-structs that are set in parts
    Channels,   \* names of notification channels
    Groups,     \* names of group monitors, each used once
    ChannelIds, \* ids of notification channels
    GroupIds,   \* ids of group monitors
    UiBase,     \* UiBase[f]: what users type into the common field f
    UiDetail,   \* UiDetail[f]: what users type into the field f of a type
    UiTypes,    \* monitors a user may turn one into: [type |-> .., detail |-> ..]
    MaxTouches  \* bound: edits in Kuma's UI between two reconciles

KumaTypes == [HTTP |-> "http", TCP |-> "port", Ping |-> "ping", DNS |-> "dns",
              Gamedig |-> "gamedig", Push |-> "push"]
Types == DOMAIN KumaTypes

(* The part of a spec that its type has for itself (spec.go), and what     *)
(* Kuma keeps of it.                                                       *)
Parts ==
    [HTTP |-> [url : Text, method : Text, codes : Seq(Text),
               timeout : Int, auth : Text],
     TCP |-> [host : Text, tlsMode : Text],
     Ping |-> [host : Text, timeout : Int],
     DNS |-> [host : Text, resolveType : Text],
     Gamedig |-> [host : Text, token : Text], Push |-> [token : Text]]

NonEmpty == Text \ {""}
Details ==
    [HTTP |-> [url : Text, method : NonEmpty, codes : Seq(Text) \ {<<>>},
               timeout : Int, auth : Text, oauthMethod : Text],
     TCP |-> [host : Text, tlsMode : Text \cup {Nil}],
     Ping |-> [host : Text, timeout : Int \cup {Nil}],
     DNS |-> [host : Text, resolveType : NonEmpty],
     Gamedig |-> [host : Text, token : Text \cup {Nil}],
     Push |-> [token : Text \cup {Nil}]]

ASSUME TextAssumption ==
    {"", "GET", "200-299", "A", "client_secret_basic"} \subseteq Text
ASSUME NilAssumption ==
    Nil \notin Text \cup Int /\ \A t \in Types : Nil \notin Parts[t]
ASSUME SpecAssumption ==
    \A s \in Specs :
        /\ DOMAIN s = {"type", "name", "interval", "retryInterval", "resend",
                       "description", "notifications", "group", "proxy",
                       "parts"}
        /\ {s.name, s.description} \subseteq Text
        /\ {s.interval, s.retryInterval, s.resend, s.proxy} \subseteq Int
        /\ s.notifications \in Seq(Channels) /\ s.group \in Groups \cup {Nil}
        /\ \A t \in Types \cap DOMAIN s.parts : s.parts[t] \in Parts[t]
ASSUME IdAssumption ==
    /\ ChannelIds \cup GroupIds \subseteq Nat /\ 0 \notin ChannelIds \cup GroupIds
    /\ Channels \cap Groups = {} /\ Nil \notin Groups
ASSUME UiAssumption ==
    /\ \A f \in DOMAIN UiBase :
          CASE f \in {"interval", "retryInterval"} -> UiBase[f] \subseteq Int \ {0}
            [] f = "resend" -> UiBase[f] \subseteq Int
            [] f = "name" -> UiBase[f] \subseteq Text
            [] f = "description" -> UiBase[f] \subseteq Text \cup {Nil}
            [] f = "active" -> UiBase[f] \subseteq BOOLEAN
            [] f \in {"parent", "proxy"} -> UiBase[f] \subseteq Int \cup {Nil}
            [] OTHER -> FALSE
    /\ \A f \in DOMAIN UiDetail :
          CASE f \in {"url", "host", "auth", "oauthMethod"} ->
                  UiDetail[f] \subseteq Text
            [] f \in {"method", "resolveType"} -> UiDetail[f] \subseteq NonEmpty
            [] f = "codes" -> UiDetail[f] \subseteq Seq(Text) \ {<<>>}
            [] f = "timeout" -> UiDetail[f] \subseteq Int
            [] f \in {"tlsMode", "token"} -> UiDetail[f] \subseteq Text \cup {Nil}
            [] OTHER -> FALSE
    /\ \A m \in UiTypes : \A t \in Types :
          m.type = KumaTypes[t] => m.detail \in Details[t]
ASSUME BoundAssumption == MaxTouches \in Nat

VARIABLES
    spec,      \* the configuration the user asks for
    known,     \* Kuma: the id of every channel and group; 0 is none
    live,      \* Kuma: the monitor
    synced,    \* the desired configuration last sent (its hash is recorded)
    touched    \* how often users edited the monitor in Kuma's UI since
vars == <<spec, known, live, synced, touched>>

-----------------------------------------------------------------------------
(* monitor_types.go and convert.go *)

OrDefault(v, unset, default) == IF v = unset THEN default ELSE v

(* A field Kuma has as a pointer: unset is nil.                            *)
Pointer(v, unset) == OrDefault(v, unset, Nil)
Value(p, unset) == OrDefault(p, Nil, unset)

(* Bug to plant: the last rule is forgotten.                               *)
AdmittedAnyProxy(s) == s.type \in Types /\ DOMAIN s.parts = {s.type}

(* The rules on MonitorSpec: a type of the enumeration, its own sub-struct *)
(* and no other, and no proxy for a monitor that makes no request.  What   *)
(* is derived from annotations keeps to them, too.                         *)
Admitted(s) ==
    /\ s.type \in Types /\ DOMAIN s.parts = {s.type}
    /\ s.type = "Push" => s.proxy = 0

ToKumaSpec(s) ==
    [type |-> s.type, name |-> s.name, interval |-> s.interval,
     retryInterval |-> s.retryInterval, resend |-> s.resend,
     description |-> s.description, notifications |-> s.notifications,
     group |-> s.group, proxy |-> Pointer(s.proxy, 0),
     detail |-> IF s.type \in DOMAIN s.parts THEN s.parts[s.type] ELSE Nil]

-----------------------------------------------------------------------------
(* resolveReferences *)

(* Bug to plant: the ids keep the order of the names.                     *)
NotificationIDsUnsorted(names) ==
    FoldLeft(LAMBDA ids, n : IF Contains(ids, known[n]) THEN ids
                             ELSE Append(ids, known[n]), <<>>, names)

NotificationIDs(names) == Sorted({known[n] : n \in ToSet(names)})

(* A name Kuma does not know is an error.                                  *)
Resolvable ==
    /\ \A n \in ToSet(spec.notifications) : known[n] # 0
    /\ spec.group # Nil => known[spec.group] # 0

GroupID(name) == IF name = Nil THEN Nil ELSE known[name]

(* The desired configuration: what is hashed, compared and sent.           *)
Desired ==
    [ToKumaSpec(spec) EXCEPT !.notifications = NotificationIDs(@),
                             !.group = GroupID(@)]

-----------------------------------------------------------------------------
(* translate.go *)

(* Bug to plant: a default is forgotten.                                   *)
NormalizeDetailNoMethod(type, d) ==
    CASE d = Nil -> Nil
      [] d # Nil /\ type = "HTTP" ->
            [d EXCEPT !.codes = OrDefault(@, <<>>, <<"200-299">>)]
      [] OTHER -> d

NormalizeDetail(type, d) ==
    CASE d = Nil -> Nil
      [] d # Nil /\ type = "HTTP" ->
            [d EXCEPT !.codes = OrDefault(@, <<>>, <<"200-299">>),
                      !.method = OrDefault(@, "", "GET")]
      [] d # Nil /\ type = "DNS" ->
            [d EXCEPT !.resolveType = OrDefault(@, "", "A")]
      [] OTHER -> d

(* normalizeSpec *)
Normalize(s) ==
    [s EXCEPT !.interval = OrDefault(@, 0, 60),
              !.retryInterval = OrDefault(@, 0, 60),
              !.detail = NormalizeDetail(s.type, @)]

OauthAuthMethodFor(auth) ==
    IF auth = "oauth2-cc" THEN "client_secret_basic" ELSE ""

(* Bug to plant: the token of a push monitor is not checked.               *)
TranslatableNoToken(s) == s.type \in Types /\ s.detail # Nil

(* ToBremlMonitor refuses an unknown type, a type without its own part of  *)
(* the configuration, and a push monitor without a token.                  *)
Translatable(s) ==
    /\ s.type \in Types /\ s.detail # Nil
    /\ s.type = "Push" => s.detail.token # ""

ToDetail(type, d) ==
    CASE type = "HTTP" ->
            [url |-> d.url, method |-> d.method, codes |-> d.codes,
             timeout |-> 10 * d.timeout, auth |-> d.auth,
             oauthMethod |-> OauthAuthMethodFor(d.auth)]
      [] type = "TCP" -> [host |-> d.host, tlsMode |-> Pointer(d.tlsMode, "")]
      [] type = "Ping" ->
            [host |-> d.host, timeout |-> Pointer(10 * d.timeout, 0)]
      [] type = "Gamedig" -> [host |-> d.host, token |-> Pointer(d.token, "")]
      [] type \in {"DNS", "Push"} -> d

(* The client library sends no proxy with a push monitor.                  *)
ToBreml(desired) ==
    LET s == Normalize(desired)
    IN  [type |-> KumaTypes[s.type], name |-> s.name, interval |-> s.interval,
         retryInterval |-> s.retryInterval, resend |-> s.resend,
         description |-> Pointer(s.description, ""), active |-> TRUE,
         notifications |-> s.notifications, parent |-> s.group,
         proxy |-> IF s.type = "Push" THEN Nil ELSE s.proxy,
         detail |-> ToDetail(s.type, s.detail)]

(* What Kuma keeps: its own defaults where nothing is set, and the         *)
(* notifications as a set.                                                 *)
Stored(b) ==
    [b EXCEPT
        !.interval = OrDefault(@, 0, 60),
        !.retryInterval = OrDefault(@, 0, 60), !.notifications = ToSet(@),
        !.detail = [f \in DOMAIN @ |->
            CASE f = "method" -> OrDefault(@[f], "", "GET")
              [] f = "codes" -> OrDefault(@[f], <<>>, <<"200-299">>)
              [] f = "resolveType" -> OrDefault(@[f], "", "A")
              [] OTHER -> @[f]]]

(* secondsFromKuma: rounded to the nearest second, halves away from zero.  *)
SecondsFromKuma(tenths) == (tenths + 5) \div 10

FromDetail(type, d) ==
    CASE type = "HTTP" ->
            [url |-> d.url, method |-> d.method, codes |-> d.codes,
             timeout |-> SecondsFromKuma(d.timeout), auth |-> d.auth]
      [] type = "TCP" -> [host |-> d.host, tlsMode |-> Value(d.tlsMode, "")]
      [] type = "Ping" ->
            [host |-> d.host,
             timeout |-> IF d.timeout = Nil THEN 0
                         ELSE SecondsFromKuma(d.timeout)]
      [] type = "Gamedig" -> [host |-> d.host, token |-> Value(d.token, "")]
      [] type \in {"DNS", "Push"} -> d

(* FromBremlMonitor fails on a type the operator does not manage.          *)
Readable(b) == \E t \in Types : KumaTypes[t] = b.type

FromBreml(b, listed) ==
    LET type == CHOOSE t \in Types : KumaTypes[t] = b.type
    IN  [type |-> type, name |-> b.name, interval |-> b.interval,
         retryInterval |-> b.retryInterval, resend |-> b.resend,
         description |-> Value(b.description, ""), notifications |-> listed,
         group |-> b.parent, proxy |-> b.proxy, detail |-> FromDetail(type, b.detail)]

Count(s, v) == Cardinality({i \in DOMAIN s : s[i] = v})

EqualInt64Sets(a, b) ==
    /\ Len(a) = Len(b)
    /\ \A v \in ToSet(a) \cup ToSet(b) : Count(a, v) = Count(b, v)

(* Bug to plant: a field that is sent is not compared.                     *)
ComparedWithoutResend ==
    {"type", "name", "interval", "retryInterval", "description", "group",
     "proxy"}

Compared == {"type", "name", "interval", "retryInterval", "resend",
             "description", "group", "proxy"}

Equivalent(desired, listed) ==
    LET d == Normalize(desired)
        l == Normalize(listed)
    IN  /\ \A f \in Compared : d[f] = l[f]
        /\ EqualInt64Sets(d.notifications, l.notifications)
        /\ d.type \in Types /\ d.detail # Nil /\ d.detail = l.detail

(* ExistingSpecs reads every monitor there is, groups as well, and fails   *)
(* on the first it does not know the type of.                              *)
Listable == Readable(live) /\ \A g \in Groups : known[g] = 0

(* GetMonitors lists the notifications in an order of its own.             *)
Unchanged ==
    /\ \E order \in SetToSeqs(live.notifications) :
          Equivalent(Desired, FromBreml(live, order))

-----------------------------------------------------------------------------
Upsert ==
    /\ live' = Stored(ToBreml(Desired)) /\ synced' = Desired /\ touched' = 0
    /\ UNCHANGED <<spec, known>>

(* The desired configuration is not the one recorded: it is sent.          *)
ReconcileChanged ==
    /\ Resolvable /\ synced # Desired /\ Translatable(Desired)
    /\ Upsert

(* It is: Kuma's monitor is compared, and edited when it drifted.          *)
ReconcileDrift ==
    /\ Resolvable /\ synced = Desired /\ Listable /\ ~Unchanged
    /\ Upsert

UserEdit ==
    /\ spec' \in {s \in Specs \ {spec} : Admitted(s)}
    /\ UNCHANGED <<known, live, synced, touched>>

Touch(monitor) ==
    /\ touched < MaxTouches /\ touched' = touched + 1
    /\ monitor # live /\ live' = monitor
    /\ UNCHANGED <<spec, known, synced>>

UiEdit ==
    \/ \E f \in DOMAIN UiBase : \E v \in UiBase[f] :
          Touch([live EXCEPT ![f] = v])
    \/ \E f \in DOMAIN UiDetail \cap DOMAIN live.detail :
          \E v \in UiDetail[f] : Touch([live EXCEPT !.detail[f] = v])
    \/ \E m \in UiTypes :
          Touch([live EXCEPT !.type = m.type, !.detail = m.detail])

Renamed(n, id) ==
    /\ id # known[n] /\ (known[n] = 0 \/ id = 0)
    /\ known' = [known EXCEPT ![n] = id]
    /\ touched < MaxTouches /\ touched' = touched + 1
    /\ UNCHANGED <<spec, synced>>

(* A channel is deleted, and taken off the monitor, or created again under *)
(* a new id.                                                               *)
UiChannel ==
    \E n \in Channels, id \in ChannelIds \cup {0} :
        /\ \A o \in Channels : known[o] # id \/ id = 0
        /\ Renamed(n, id)
        /\ live' = [live EXCEPT !.notifications = @ \ {known[n]}]

(* A group is deleted, which leaves its members without, or created again. *)
UiGroup ==
    \E n \in Groups, id \in GroupIds \cup {0} :
        /\ \A o \in Groups : known[o] # id \/ id = 0
        /\ Renamed(n, id)
        /\ live' = [live EXCEPT !.parent = IF @ = known[n] THEN Nil ELSE @]

Init ==
    /\ spec \in Specs /\ Admitted(spec)
    /\ known \in [Channels \cup Groups -> ChannelIds \cup GroupIds \cup {0}]
    /\ \A n \in Channels : known[n] \in ChannelIds
    /\ \A m, n \in Channels : known[m] = known[n] => m = n
    /\ \A g \in Groups : known[g] \in GroupIds \cup {0}
    /\ \A g, h \in Groups : known[g] = known[h] => g = h \/ known[g] = 0
    /\ Resolvable /\ Translatable(Desired)
    /\ synced = Desired /\ live = Stored(ToBreml(Desired)) /\ touched = 0

Next ==
    \/ ReconcileChanged \/ ReconcileDrift
    \/ UserEdit \/ UiEdit \/ UiChannel \/ UiGroup

Spec == Init /\ [][Next]_vars

-----------------------------------------------------------------------------
(* Kuma has no push monitor without a token but one a user made.           *)
TypeOK ==
    /\ spec \in Specs
    /\ known \in [Channels \cup Groups -> ChannelIds \cup GroupIds \cup {0}]
    /\ live.notifications \subseteq ChannelIds /\ live.active \in BOOLEAN
    /\ touched \in 0..MaxTouches
    /\ live.type = "push" /\ touched = 0 => live.detail.token # ""

(* What was sent comes back as the same configuration, in whatever order   *)
(* Kuma lists it and for whatever the API server admits: as long as nobody *)
(* touches the monitor, no drift check edits it (Equivalent, the rules on  *)
(* MonitorSpec).                                                           *)
RoundTrip ==
    touched = 0 =>
        /\ Readable(live)
        /\ \A order \in SetToSeqs(live.notifications) :
              Equivalent(synced, FromBreml(live, order))

(* A monitor as the operator's fields say it is: without what the operator *)
(* sends but never compares, timeouts to the second, and an empty text as  *)
(* good as none.                                                           *)
Managed(b) ==
    [b EXCEPT
        !.active = TRUE, !.description = Value(@, ""),
        !.detail = [f \in DOMAIN @ |->
            CASE f = "oauthMethod" -> ""
              [] f = "timeout" -> SecondsFromKuma(Value(@[f], 0))
              [] f \in {"tlsMode", "token"} -> Value(@[f], "")
              [] OTHER -> @[f]]]

Settled == Resolvable /\ synced = Desired /\ Listable /\ Unchanged

(* A monitor the operator leaves alone is the one it would send: no edit   *)
(* of a managed field in the UI passes for none.                           *)
LeftAloneIsAsSent == Settled => Managed(live) = Managed(Stored(ToBreml(Desired)))

(* What the spec asks for, but for the order and repetition of channels.   *)
Meaning(s) == [s EXCEPT !.notifications = ToSet(@)]

(* An edit of the monitor is one somebody asked for, or repairs one that   *)
(* somebody made: neither naming a channel twice nor listing them in       *)
(* another order restarts the check timer.                                 *)
EditsAreNeeded ==
    [][ReconcileChanged \/ ReconcileDrift =>
          touched > 0 \/ Meaning(Desired) # Meaning(synced)]_vars
=============================================================================
