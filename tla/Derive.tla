------------------------------- MODULE Derive -------------------------------
(***************************************************************************)
(* The monitors an Ingress, an HTTPRoute or a Service asks for, as a       *)
(* function of its rules and its annotations: the parsing of overrides     *)
(* (internal/annotations/annotations.go) and the derivation of one monitor *)
(* per host (internal/derive).  An annotation's key is <<scope, field>>,   *)
(* as in http.uptime-kuma.io/timeout; the scope of the top-level ones is   *)
(* "".  On the 64-bit platforms the operator is built for, an int is an    *)
(* int64.                                                                  *)
(***************************************************************************)
EXTENDS Texts

Keys(scope, fields) == {scope} \X fields

CommonFields ==
    {"interval", "retry-interval", "max-retries", "description",
     "resend-interval", "upside-down", "proxy"}

(* The scope of a type's annotations, and those that are copied as they    *)
(* are into the monitor.                                                   *)
Scope == [HTTP |-> "http", TCP |-> "tcp", Ping |-> "ping", DNS |-> "dns",
          Gamedig |-> "gamedig"]

CopiedFields ==
    [HTTP |-> {"accepted-statuscodes", "timeout", "max-redirects",
               "ignore-tls", "cache-bust", "expiry-notification",
               "domain-expiry-notification", "headers", "body"},
     TCP |-> {"tls-mode", "expected-ssl-alert", "expiry-notification",
              "domain-expiry-notification"},
     Ping |-> {"timeout", "packet-size", "domain-expiry-notification"},
     DNS |-> {"resolver-server", "resolve-type", "port",
              "domain-expiry-notification"},
     Gamedig |-> {"game", "given-port-only", "domain-expiry-notification"}]

IntKeys ==
    Keys("", {"interval", "retry-interval", "max-retries", "resend-interval",
              "proxy"})
    \cup Keys("http", {"timeout", "max-redirects"})
    \cup Keys("ping", {"timeout", "packet-size"}) \cup Keys("dns", {"port"})

BoolKeys ==
    {<<"", "upside-down">>, <<"gamedig", "given-port-only">>}
    \cup Keys("http", {"ignore-tls", "cache-bust"})
    \cup {"http", "tcp"} \X {"expiry-notification"}
    \cup {Scope[t] : t \in DOMAIN Scope} \X {"domain-expiry-notification"}

ListKeys ==
    Keys("", {"tags", "notifications"})
    \cup Keys("http", {"accepted-statuscodes"})

OverrideKeys ==
    Keys("", CommonFields \cup {"name", "type", "group"})
    \cup UNION {Keys(Scope[t], CopiedFields[t]) : t \in DOMAIN Scope}
    \cup {Scope[t] : t \in DOMAIN Scope} \X {"host"}
    \cup {"http", "tcp", "gamedig"} \X {"port"}
    \cup Keys("http", {"scheme", "path"}) \cup ListKeys

-----------------------------------------------------------------------------
(* annotations.go *)

Text(ann, k) == IF k \in DOMAIN ann THEN ann[k] ELSE ""

ShouldSync(optInByDefault, ann) ==
    LET v == Text(ann, <<"", "enabled">>)
    IN  IF optInByDefault THEN v # "false" ELSE v = "true"

(* The texts a given annotation may have.                                  *)
Accepts(k, v) ==
    CASE k \in IntKeys -> v \in DOMAIN IntOf
      [] k \in BoolKeys -> v \in DOMAIN BoolOf
      [] k = <<"http", "scheme">> -> v \in {"http", "https"}
      [] k = <<"http", "path">> -> v \in Rooted
      [] k = <<"tcp", "tls-mode">> -> v \in {"nostarttls", "secure", "starttls"}
      [] OTHER -> TRUE

Given(ann, k) ==
    /\ k \in DOMAIN ann
    /\ IF k \in ListKeys THEN ann[k] # <<>> ELSE ann[k] # ""

Override(ann, k) ==
    CASE k = <<"http", "accepted-statuscodes">> ->
            IF Given(ann, k) THEN ann[k] ELSE <<>>
      [] k \in ListKeys \ {<<"http", "accepted-statuscodes">>} ->
            IF Given(ann, k) THEN CommaList(ann[k]) ELSE <<>>
      [] k \in IntKeys -> IF Given(ann, k) THEN IntOf[ann[k]] ELSE 0
      [] k \in BoolKeys -> Given(ann, k) /\ BoolOf[ann[k]]
      [] OTHER -> Text(ann, k)

(* The first text that cannot be read is an error, of whatever type its    *)
(* annotation is.                                                          *)
ParseOverrides(ann) ==
    IF \A k \in OverrideKeys : Given(ann, k) => Accepts(k, ann[k])
    THEN [k \in OverrideKeys |-> Override(ann, k)]
    ELSE Invalid

-----------------------------------------------------------------------------
(* derive.  An object o has a kind, a namespace ns, a name and what its    *)
(* kind has of hosts, the hosts with a certificate in tls, and ports.  A   *)
(* target is a URL's parts, or host and port.                              *)

Copied(ov, scope, fields) == [f \in fields |-> ov[<<scope, f>>]]

Monitor(type, host, name, target, ov) ==
    [host |-> host,
     spec |-> [type |-> type, name |-> name, target |-> target,
               common |-> Copied(ov, "", CommonFields),
               detail |-> Copied(ov, Scope[type], CopiedFields[type])]]

Path(ov) == OrDefault(ov[<<"http", "path">>], "/")
QualifiedName(o) == o.ns \o "/" \o o.name

(* httpMonitorSpec *)
HTTPMonitor(o, host, scheme, ov) ==
    LET name == QualifiedName(o) \o "/" \o host
    IN  Monitor("HTTP", host, OrDefault(ov[<<"", "name">>], name),
                <<OrDefault(ov[<<"http", "scheme">>], scheme), host, Path(ov)>>,
                ov)

(* Bug to plant: a host that is there twice gets two monitors.             *)
DistinctHostsTwice(hosts) == CommaList(hosts)

(* One monitor for each host that is not blank, in the order they appear.  *)
DistinctHosts(hosts) ==
    Sublist(hosts, {i \in DOMAIN hosts :
        hosts[i] # "" /\ \A j \in DOMAIN hosts : hosts[j] = hosts[i] => i <= j})

(* Hosts in secure are asked for by https.                                 *)
PerHost(o, ov, secure) ==
    LET hosts == DistinctHosts(o.hosts)
    IN  [i \in DOMAIN hosts |->
            HTTPMonitor(o, hosts[i],
                        IF hosts[i] \in secure THEN "https" ELSE "http", ov)]

IngressMonitors(o, ov) == PerHost(o, ov, o.tls)

HTTPRouteMonitors(o, ov) == PerHost(o, ov, ToSet(o.hosts))

DefaultHost(o, override) ==
    OrDefault(override, o.name \o "." \o o.ns \o ".svc.cluster.local")

(* A text that is a number picks a port by number only.                    *)
ResolveServicePort(o, override) ==
    LET Picked == {i \in DOMAIN o.ports :
                      IF override \in DOMAIN IntOf
                      THEN o.ports[i].port = IntOf[override]
                      ELSE o.ports[i].name = override}
        First(S) == CHOOSE i \in S : \A j \in S : i <= j
    IN  CASE override = "" ->
                IF Len(o.ports) = 1 THEN o.ports[1].port ELSE Invalid
          [] override # "" ->
                IF Picked # {} THEN o.ports[First(Picked)].port ELSE Invalid

ServiceMonitors(o, ov) ==
    LET t == OrDefault(ov[<<"", "type">>], "HTTP")
        Of(f) == ov[<<Scope[t], f>>]
        host == DefaultHost(o, Of("host"))
        port == ResolveServicePort(o, Of("port"))
        target ==
            CASE t = "HTTP" -> <<OrDefault(Of("scheme"), "http"), host, port, Path(ov)>>
              [] t \in {"TCP", "Gamedig"} -> <<host, port>>
              [] t \in {"Ping", "DNS"} -> <<host>>
    IN  IF \/ t \notin DOMAIN Scope
           \/ t = "Gamedig" /\ Of("game") = ""
           \/ t \in {"HTTP", "TCP", "Gamedig"} /\ port = Invalid
        THEN Invalid
        ELSE <<Monitor(t, host, OrDefault(ov[<<"", "name">>], QualifiedName(o)),
                       target, ov)>>

(* deriveMonitors of the three controllers.                                *)
DeriveMonitors(o, ov) ==
    CASE o.kind = "Ingress" -> IngressMonitors(o, ov)
      [] o.kind = "HTTPRoute" -> HTTPRouteMonitors(o, ov)
      [] o.kind = "Service" -> ServiceMonitors(o, ov)
=============================================================================
