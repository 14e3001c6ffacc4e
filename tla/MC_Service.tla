------------------------------ MODULE MC_Service ------------------------------
(***************************************************************************)
(* Service on its instances:                                               *)
(*   config     texts on both sides of every bound, settings that are      *)
(*              missing, empty, malformed or overridden                    *)
(*   app        every way to give it resources, two requests               *)
(*   path       two requests of two users, which may send the same         *)
(*              identifier, none, and more than one credential             *)
(*   commands   creates and updates whose hook takes a connection of its   *)
(*              own, and a create in a boundary, on three connections      *)
(***************************************************************************)
EXTENDS Service, TLC

CONSTANTS u1, u2

--------------------------------------------------------------------------------
(* Configurations.                                                         *)

Optional(name, texts) == {<<>>} \cup {name :> t : t \in texts}

\* Required settings with every text, the optional ones with good required ones.
Required == {p @@ s : p \in Optional("PORT", {"", "0", "3", "65536", "x"}),
                      s \in Optional("DB_MAX_CONNECTIONS", {"", "0", "1", "3", "x"})}
Good == "PORT" :> "3" @@ "DB_MAX_CONNECTIONS" :> "3"
MCEnvs == Required
  \cup {Good @@ a @@ b @@ c :
          a \in Optional("DB_MIN_CONNECTIONS", {"", "0", "-1", "65536"}),
          b \in Optional("AUTH_TIMEOUT_TOTAL", {"", "0", "1", "-1"}),
          c \in Optional("AIOCACHE_DISABLE", {"yes", "off", "x"})}
  \cup {Good @@ a @@ b @@ c @@ d :
          a \in Optional("CORS_ALLOWED_ORIGINS", {"", "http://A", "http://A,http://b,http://a", "*"}),
          b \in Optional("CORS_MAX_AGE", {"", "0", "-1"}),
          c \in Optional("DOMAIN", {"", "http://a"}),
          d \in Optional("AUTH_URL", {"http://a", "http://"})}

Number(n) == <<"int", n>>
String(s) == <<"text", s>>
Mapping(f) == <<"map", f>>

Cors(origins, age) == <<"cors", [origins |-> <<"tuple", origins>>, max_age |-> age]>>
NoCors == Cors(<<>>, <<"none">>)

MCAppConfigs ==
  {a @@ b @@ c @@ d :
     a \in {<<>>, "postgres" :> Mapping("min_size" :> Number(1)),
            "postgres" :> Mapping("max_size" :> String("1") @@ "min_size" :> Number(3))},
     b \in {<<>>, "AUTH_TIMEOUT_TOTAL" :> Number(0), "AUTH_TIMEOUT_TOTAL" :> String("1")},
     c \in {<<>>, "CORS_ALLOWED_ORIGINS" :> <<"tuple", <<"http://b", "http://b">>>>},
     d \in {<<>>, "wallet" :> String("x"), "AUTH_URL" :> String("http://b"), "DOMAIN" :> String(""),
            "cors" :> Mapping("CORS_MAX_AGE" :> Number(0))}}
  \cup {a @@ b @@ c :
     a \in {"AUTH_URL" :> u : u \in {String(""), String("a"), <<"none">>}}
            \cup {"auth_url" :> String("http://b"), <<>>},
     b \in {<<>>, "cors_allowed_origins" :> <<"tuple", <<"http://b">>>>, "domain" :> String("http://b")},
     c \in {"cors" :> v : v \in {NoCors, Cors(<<"http://b">>, Number(3)), <<"none">>,
                                 Mapping("cors_max_age" :> Number(0))}} \cup {<<>>}}

MCNumbers == "-1" :> 0 - 1 @@ "0" :> 0 @@ "1" :> 1 @@ "3" :> 3 @@ "65536" :> 65536
MCFlags == "yes" :> TRUE @@ "off" :> FALSE
MCOrigins == "http://A" :> "http://a" @@ "http://a" :> "http://a" @@ "http://b" :> "http://b"
MCUrls == {"http://a", "http://b"}
MCLists == "http://A,http://b,http://a" :> <<"http://A", "http://b", "http://a">>

(* Requests and commands.                                                  *)

MCCredentials == {<<>>, <<u1>>, <<u2, u1>>}
MCPayloads == {[user_id |-> FALSE, id |-> FALSE, user |-> FALSE],
               [user_id |-> FALSE, id |-> TRUE, user |-> TRUE]}
MCViews ==
  {[kind |-> k, boundary |-> {}, guarded |-> FALSE, helper |-> TRUE] : k \in {"create", "update"}}
    \cup {[kind |-> "create", boundary |-> {"middleware"}, guarded |-> FALSE, helper |-> TRUE]}

================================================================================
