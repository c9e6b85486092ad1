----------------------------- MODULE MCOperator -----------------------------
(* The texts, objects, environments and users of the run of Operator.      *)
EXTENDS Operator, TLC

Ints == ("0" :> 0) @@ ("20" :> 20) @@ ("80" :> 80) @@ ("8080" :> 8080)
Bools == ("true" :> TRUE) @@ ("1" :> TRUE) @@ ("false" :> FALSE)
Durations == ("5m" :> 300) @@ ("0s" :> 0)
Lowered == [t \in {"info", "debug", "loud"} |-> t] @@ ("DEBUG" :> "debug")

Kinds == [web |-> "Ingress", blog |-> "Ingress", api |-> "HTTPRoute",
          db |-> "Service"]
Namespaces == [web |-> "shop", blog |-> "shop", api |-> "shop", db |-> "data"]

-----------------------------------------------------------------------------
Key(scope, field, text) == <<scope, field>> :> text
On == Key("", "enabled", "true")

Ask(ann, hosts) == [ann |-> ann, hosts |-> hosts, tls |-> {}, ports |-> <<>>]
Plain == Ask(On, <<"a">>)

IngressAsks ==
    {Plain, Ask(On, <<"b", "", "a", "b">>),
     [Ask(On, <<"a", "b">>) EXCEPT !.tls = {"b"}],
     [Ask(On @@ Key("http", "scheme", "http") @@ Key("http", "path", "/health"),
          <<"a">>) EXCEPT !.tls = {"a"}],
     Ask(On @@ Key("", "interval", "20") @@ Key("", "tags", <<"", "x">>)
            @@ Key("", "name", "front") @@ Key("", "type", "TCP")
            @@ Key("http", "ignore-tls", "1"), <<"b">>),
     Ask(Key("", "enabled", "yes"), <<"a">>), Ask(<<>>, <<"a">>),
     Ask(On @@ Key("", "interval", "soon"), <<"a">>), Ask(On, <<"">>)}

Port(name, number) == [name |-> name, port |-> number]
Served(ann, ports) == [Ask(On @@ ann, <<>>) EXCEPT !.ports = ports]
Of(type) == Key("", "type", type)
Two == <<Port("admin", 80), Port("web", 8080)>>

ServiceAsks ==
    {Served(<<>>, <<Port("", 80)>>), Served(<<>>, Two), Served(<<>>, <<>>),
     Served(Key("http", "port", "web"), Two),
     Served(Of("HTTP") @@ Key("http", "port", "8080")
            @@ Key("http", "scheme", "https"), Two),
     Served(Of("TCP") @@ Key("tcp", "port", "20"), Two),
     Served(Of("TCP") @@ Key("tcp", "port", "admin")
            @@ Key("tcp", "tls-mode", "secure"), Two),
     Served(Of("TCP") @@ Key("tcp", "tls-mode", "none"), Two),
     Served(Of("Ping") @@ Key("ping", "host", "h"), <<>>),
     Served(Of("DNS") @@ Key("dns", "port", "20"), <<>>),
     Served(Of("Gamedig") @@ Key("gamedig", "game", "csgo"), <<Port("", 80)>>),
     Served(Of("Gamedig"), <<Port("", 80)>>), Served(Of("Push"), <<>>)}

-----------------------------------------------------------------------------
Env ==
    [KUMA_URL |-> "kuma", KUMA_USERNAME |-> "ops", KUMA_PASSWORD |-> "good",
     KUMA_TOTP_SECRET |-> "", KUMA_SESSION_TOKEN |-> "", LOG_LEVEL |-> "",
     DRIFT_CHECK_INTERVAL |-> "", WATCH_ALL |-> "true",
     WATCH_NAMESPACES |-> <<>>, POD_NAMESPACE |-> "shop",
     OPT_IN_BY_DEFAULT |-> "", DEFAULT_TAGS |-> <<"", "kuma">>,
     LABEL_TAG_PATTERNS |-> <<>>]

Narrowed(namespaces) ==
    [Env EXCEPT !.WATCH_ALL = "false", !.WATCH_NAMESPACES = namespaces]

TokenOnly == [Env EXCEPT !.KUMA_USERNAME = "", !.KUMA_PASSWORD = "",
                         !.KUMA_SESSION_TOKEN = "good"]

Envs ==
    {Env, Narrowed(<<"data", "">>), Narrowed(<<"", "">>), Narrowed(<<>>),
     [Narrowed(<<>>) EXCEPT !.POD_NAMESPACE = ""],
     [Env EXCEPT !.DRIFT_CHECK_INTERVAL = "0s", !.LOG_LEVEL = "DEBUG"],
     [Env EXCEPT !.DRIFT_CHECK_INTERVAL = "5m", !.OPT_IN_BY_DEFAULT = "true"],
     [Env EXCEPT !.DRIFT_CHECK_INTERVAL = "often"],
     [Env EXCEPT !.LOG_LEVEL = "loud"], [Env EXCEPT !.KUMA_URL = ""],
     [Env EXCEPT !.LABEL_TAG_PATTERNS = <<"team-.*", "(">>],
     [Env EXCEPT !.KUMA_USERNAME = ""], TokenOnly,
     [TokenOnly EXCEPT !.KUMA_TOTP_SECRET = "seed"],
     [Env EXCEPT !.KUMA_SESSION_TOKEN = "old"], [Env EXCEPT !.KUMA_PASSWORD = "bad"]}

-----------------------------------------------------------------------------
Events == {"edit", "delete", "copy", "mangle", "uiEdit", "uiDelete", "crash",
           "admin", "gateway", "discovery", "retry"}

Make(first, asks, envs, crd, budget) ==
    [first |-> first, envs |-> envs, gateway |-> crd,
     asks |-> [n \in Names |-> IF n \in DOMAIN asks THEN asks[n] ELSE {}],
     may |-> [e \in Events |-> IF e \in DOMAIN budget THEN budget[e] ELSE 0]]

Web == [web |-> Plain]
Both == [web |-> Plain, blog |-> Ask(<<>>, <<"b">>)]
All == Both @@ [db |-> Served(<<>>, <<Port("", 80)>>)]
Only(first) == [n \in DOMAIN first |-> {first[n]}]

SomeWorlds ==
    <<(* one object, all it can ask for *)
     Make(Web, [web |-> IngressAsks], {Env}, TRUE,
          [edit |-> 2, delete |-> 1, uiDelete |-> 1, retry |-> 1]),
     Make([db |-> Served(<<>>, Two)], [db |-> ServiceAsks], {Env}, TRUE,
          [edit |-> 2, uiEdit |-> 1]),
     (* a cluster that gets the Gateway API *)
     Make(<<>>, [api |-> {Ask(On, <<"b", "a", "b">>), Ask(<<>>, <<"a">>)}],
          {Env}, FALSE,
          [edit |-> 2, delete |-> 1, gateway |-> 1, discovery |-> 1,
           crash |-> 2, uiDelete |-> 1]),
     (* several objects under changing configurations *)
     Make(All, Only(All), Envs, TRUE,
          [admin |-> 2, uiDelete |-> 1, delete |-> 1]),
     (* copies *)
     Make(Web, [web |-> {Plain, Ask(On @@ Key("", "name", "front"), <<"a">>)},
                blog |-> {Ask(<<>>, <<"a">>)}], {Env}, TRUE,
          [edit |-> 2, copy |-> 1, delete |-> 2, uiDelete |-> 1, retry |-> 1]),
     (* an annotation overwritten *)
     Make(Web @@ [blog |-> Plain], [web |-> {Plain}, blog |-> {Plain, Ask(On, <<"b">>)}],
          {Env}, TRUE,
          [mangle |-> 1, edit |-> 1, delete |-> 1, uiEdit |-> 1, crash |-> 1])>>
=============================================================================
