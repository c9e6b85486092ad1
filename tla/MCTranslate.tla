----------------------------- MODULE MCTranslate -----------------------------
(* The specs and the edits of the run of Translate.                        *)
EXTENDS Translate

CONSTANTS mail, chat, team

AllText == STRING

Common(types, details, descriptions, channels, groups, proxies) ==
    UNION {[type : {t}, name : {"web"}, interval : {0}, retryInterval : {60},
            resend : {3}, description : descriptions, notifications : channels,
            group : groups, proxy : proxies,
            parts : {[p \in {t} |-> d] : d \in details}] : t \in types}

SomeChannels == {<<>>, <<mail, mail>>, <<mail, chat>>, <<chat, mail>>}

HTTPSpecs ==
    Common({"HTTP"},
           {[url |-> "u", method |-> "", codes |-> <<>>, timeout |-> t,
             auth |-> IF t = 0 THEN "" ELSE "oauth2-cc"] : t \in {0, 17}},
           {"shop"}, {<<mail>>}, {Nil}, {0})
    \cup Common({"HTTP"},
           [url : {"u"}, method : {"GET"}, codes : {<<>>}, timeout : {17},
            auth : {""}],
           {"shop"}, {<<>>}, {team}, {0, 5})

ChannelSpecs ==
    Common({"Push"}, {[token |-> "t"]}, {""}, SomeChannels, {Nil},
           {0, 5})

(* Every type, with optional fields set and not, and what is refused: by   *)
(* the API server a proxy for a push monitor, an unknown type, a missing   *)
(* and a surplus sub-struct, and an empty token by the translation.        *)
TypedSpecs ==
    Common({"TCP"}, [host : {"h"}, tlsMode : {"", "secure"}], {""}, {<<>>},
           {Nil}, {0})
    \cup Common({"Ping"}, [host : {"h"}, timeout : {0, 5}], {""}, {<<>>},
                {Nil}, {0})
    \cup Common({"DNS"}, [host : {"h"}, resolveType : {"", "MX"}], {""},
                {<<>>}, {Nil}, {0})
    \cup Common({"Gamedig"}, [host : {"h"}, token : {"", "t"}], {""}, {<<>>},
                {Nil}, {0})
    \cup Common({"Push"}, {[token |-> ""]}, {""}, {<<mail>>}, {Nil}, {0})
    \cup Common({"Keyword"}, {Nil}, {""}, {<<>>}, {Nil}, {0})

Misfits ==
    {[s EXCEPT !.parts = p] :
        s \in ChannelSpecs,
        p \in {<<>>, [Push |-> [token |-> "t"],
                      TCP |-> [host |-> "h", tlsMode |-> ""]]}}

AllSpecs == HTTPSpecs \cup ChannelSpecs \cup TypedSpecs \cup Misfits

InUi ==
    [interval |-> {20}, resend |-> {0}, description |-> {Nil, "", "mine"},
     parent |-> {1, Nil}, proxy |-> {6}, active |-> {FALSE}]

InUiOfType ==
    [method |-> {"HEAD"}, timeout |-> {168, 175}, tlsMode |-> {Nil, ""},
     resolveType |-> {"A"}, token |-> {"", "t"},
     oauthMethod |-> {"client_secret_post"}]

OtherTypes ==
    {[type |-> "dns", detail |-> [host |-> "h", resolveType |-> "A"]],
     [type |-> "keyword", detail |-> [keyword |-> "k"]]}
=============================================================================
