--------------------------------- MODULE Config ---------------------------------
(***************************************************************************)
(* Configuration: load_config of aiohttp_boilerplate/config reads typed    *)
(* values from the environment, merges what the module <app_dir>.config    *)
(* gives, and makes an immutable AppConfig that validates itself; an       *)
(* AppConfig is a mapping, from which an AppConfig can be made again.      *)
(*                                                                         *)
(* One setting stands for all that are read and validated alike: a port, a *)
(* group of related numbers, a flag, a text and a duration with their      *)
(* upper and lower case names, the CORS settings, the application's own.   *)
(* A value is a tuple of its type and its data; what a text reads as comes *)
(* from tables.                                                            *)
(***************************************************************************)
EXTENDS Integers, Sequences, SequencesExt

CONSTANTS
  Numbers,   \* texts that are numbers
  Flags,     \* texts that are booleans
  Origins,   \* texts that are origins, and their canonical form
  Lists,     \* texts with more than one item, and their items
  Urls,      \* texts that are absolute HTTP(S) URLs
  Envs,      \* environments: names and texts
  AppConfigs \* what <app_dir>.config may hold, {} if there is none

VARIABLES env, app, conf, pc
vars == <<env, app, conf, pc>>

Text(s) == <<"text", s>>
IntV(n) == <<"int", n>>
BoolV(b) == <<"bool", b>>
Map(f) == <<"map", f>>
Tuple(s) == <<"tuple", s>>
CorsConfig(c) == <<"cors", c>>
None == <<"none">>
Bad == <<"bad">>       \* raises ConfigurationError
Rejected == [rejected |-> TRUE]

IsSequence(s) == Len(s) \in Nat /\ s = [i \in 1 .. Len(s) |-> s[i]]

\* What is given for a setting that is not a mapping itself.
Plain(v) ==
  \/ v = None \/ v = Text(v[2]) \/ v = BoolV(v[2])
  \/ v = IntV(v[2]) /\ v[2] \in Int
  \/ v = Tuple(v[2]) /\ IsSequence(v[2])

\* The keys that AppConfig reads, and the ones of them that hold mappings; CORS settings
\* come in a mapping or as a CorsConfig.  Every other key is the application's own, with
\* any value.
Known == {"web_run", "postgres", "AIOCACHE_DISABLE", "AUTH_URL", "auth_url", "AUTH_TIMEOUT_TOTAL",
          "cors", "CORS_ALLOWED_ORIGINS", "cors_allowed_origins", "CORS_MAX_AGE", "cors_max_age",
          "DOMAIN", "domain"}
Group == {"web_run", "postgres"}

\* The types that the parser of a setting takes; the groups of numbers hold numbers only.
Types(setting) ==
  CASE setting \in {"CORS_ALLOWED_ORIGINS", "cors_allowed_origins"} -> {"text", "tuple", "none"}
    [] setting = "AIOCACHE_DISABLE" -> {"text", "bool", "none"}
    [] setting \in {"AUTH_URL", "auth_url"} -> {"text", "none"}
    [] setting \in {"DOMAIN", "domain"} -> {"text"}
    [] OTHER -> {"text", "int", "none"}

\* dict(old).update(new).
Over(new, old) ==
  [k \in DOMAIN new \cup DOMAIN old |-> IF k \in DOMAIN new THEN new[k] ELSE old[k]]

Get(values, key, default) == IF key \in DOMAIN values THEN values[key] ELSE default

\* values.get(upper, values.get(lower, default)).
GetEither(values, upper, lower, default) == Get(values, upper, Get(values, lower, default))

\* Mutant of AsInt: the minimum is not looked at.
AsInt_NoMinimum(v, minimum) ==
  IF v[1] = "text" /\ v[2] \in DOMAIN Numbers THEN IntV(Numbers[v[2]])
  ELSE IF v[1] = "int" THEN v ELSE Bad

\* _as_int, and _as_float with a minimum that is excluded.
AsInt(v, minimum) ==
  LET n == IF v[1] = "text" /\ v[2] \in DOMAIN Numbers THEN IntV(Numbers[v[2]])
           ELSE IF v[1] = "int" THEN v ELSE Bad
  IN IF n[1] = "int" /\ n[2] >= minimum THEN n ELSE Bad

AsBool(v) ==
  IF v[1] = "text" /\ v[2] \in DOMAIN Flags THEN BoolV(Flags[v[2]])
  ELSE IF v[1] = "bool" THEN v ELSE Bad

\* _csv: the items of a text or of a sequence.
Csv(v) ==
  CASE v[1] = "text" -> IF v[2] = "" THEN <<>>
                        ELSE IF v[2] \in DOMAIN Lists THEN Lists[v[2]] ELSE <<v[2]>>
    [] v[1] = "tuple" -> v[2]
    [] OTHER -> <<>>

\* canonicalize_origins: exact origins, each of them once.
CanonicalizeOrigins(v) ==
  LET given == Csv(v)
      seen[n \in 0 .. Len(given)] ==
        IF n = 0 THEN <<>>
        ELSE IF Origins[given[n]] \in ToSet(seen[n - 1]) THEN seen[n - 1]
        ELSE Append(seen[n - 1], Origins[given[n]])
  IN IF \E o \in ToSet(given) : o \notin DOMAIN Origins THEN Bad ELSE Tuple(seen[Len(given)])

\* The numbers of a group; a port has a maximum.
Ints(map, minimum) ==
  [k \in DOMAIN map |->
     LET n == AsInt(map[k], Get(minimum, k, 0))
     IN IF k = "port" /\ n[1] = "int" /\ n[2] > 65535 THEN Bad ELSE n]

SizesFit(postgres) ==
  \/ "max_size" \notin DOMAIN postgres
  \/ Get(postgres, "min_size", IntV(0))[2] <= postgres["max_size"][2]

\* The fields of a CorsConfig, each parsed by its constructor.
CorsFields(origins, age) ==
  [origins |-> CanonicalizeOrigins(origins), max_age |-> IF age = None THEN None ELSE AsInt(age, 0)]

\* CorsConfig.from_mapping.
Cors(values) ==
  LET origins == GetEither(values, "CORS_ALLOWED_ORIGINS", "cors_allowed_origins", Text(""))
      age == GetEither(values, "CORS_MAX_AGE", "cors_max_age", None)
      domain == {Get(values, "DOMAIN", Text("")), Get(values, "domain", Text(""))} # {Text("")}
      parsed == CorsFields(origins, IF age = Text("") THEN None ELSE age)
  IN [parsed EXCEPT !.origins = IF domain /\ Csv(origins) = <<>> THEN Bad ELSE @]

\* A nested mapping of CORS settings goes before the flat ones.
CorsSettings(values) ==
  LET nested == Get(values, "cors", None)
  IN IF nested[1] = "map" THEN Over(nested[2], values) ELSE values

\* A CorsConfig is taken as it is, whatever else there is, a DOMAIN included.
CorsOf(values) ==
  LET nested == Get(values, "cors", None)
  IN IF nested[1] = "cors" THEN nested[2] ELSE Cors(CorsSettings(values))

\* No URL, or one that is absolute.
AuthUrl(v) == IF v = Text("") \/ (v[1] = "text" /\ v[2] \in Urls) THEN v ELSE Bad

\* The fields of an AppConfig, each parsed.
Parsed(values) ==
  [web_run |-> Ints(Get(values, "web_run", Map(<<>>))[2], [port |-> 1]),
   postgres |-> Ints(Get(values, "postgres", Map(<<>>))[2],
                     [port |-> 1, min_size |-> 0, max_size |-> 1]),
   cache_disabled |-> AsBool(Get(values, "AIOCACHE_DISABLE", BoolV(FALSE))),
   auth_url |-> AuthUrl(GetEither(values, "AUTH_URL", "auth_url", Text(""))),
   auth_timeout_total |-> AsInt(Get(values, "AUTH_TIMEOUT_TOTAL", IntV(10)), 1),
   cors |-> CorsOf(values),
   extras |-> [k \in DOMAIN values \ Known |-> values[k]]]

Parts(c) ==
  {c.web_run[k] : k \in DOMAIN c.web_run} \cup {c.postgres[k] : k \in DOMAIN c.postgres}
    \cup {c.cache_disabled, c.auth_url, c.auth_timeout_total, c.cors.origins, c.cors.max_age}

\* AppConfig.from_mapping: the first part that does not parse raises.
FromMapping(values) ==
  LET c == Parsed(values)
  IN IF Bad \in Parts(c) \/ ~SizesFit(c.postgres) THEN Rejected ELSE c

\* Mutant of Compat: an age that is not set shows as zero.
Compat_AgeIsZero(c) ==
  Over([web_run |-> Map(c.web_run), postgres |-> Map(c.postgres),
        AIOCACHE_DISABLE |-> c.cache_disabled, AUTH_URL |-> c.auth_url,
        AUTH_TIMEOUT_TOTAL |-> c.auth_timeout_total, CORS_ALLOWED_ORIGINS |-> c.cors.origins,
        CORS_MAX_AGE |-> IF c.cors.max_age = None THEN IntV(0) ELSE c.cors.max_age], c.extras)

\* _compat: the mapping that an AppConfig is.
Compat(c) ==
  Over([web_run |-> Map(c.web_run), postgres |-> Map(c.postgres),
        AIOCACHE_DISABLE |-> c.cache_disabled, AUTH_URL |-> c.auth_url,
        AUTH_TIMEOUT_TOTAL |-> c.auth_timeout_total,
        CORS_ALLOWED_ORIGINS |-> c.cors.origins, CORS_MAX_AGE |-> c.cors.max_age], c.extras)

\* A mapping of settings with values that their parsers take.
IsMapping(v) ==
  /\ v[1] = "map" /\ v = Map(v[2])
  /\ \A k \in DOMAIN v[2] : Plain(v[2][k]) /\ v[2][k][1] \in Types(k)

\* What a CorsConfig holds was parsed when it was made.
IsCorsConfig(v) ==
  /\ v[1] = "cors" /\ v = CorsConfig(v[2])
  /\ v[2].origins[1] = "tuple" /\ Plain(v[2].origins) /\ Plain(v[2].max_age)
  /\ v[2] = CorsFields(v[2].origins, v[2].max_age)

\* The canonical form of an origin is canonical; groups of settings are mappings, CORS
\* settings one, a CorsConfig or none; a setting that is read has one of its types.
ConstantsAssumption ==
  /\ \A s \in DOMAIN Numbers : Numbers[s] \in Int
  /\ \A s \in DOMAIN Flags : Flags[s] \in BOOLEAN
  /\ \A s \in DOMAIN Lists : IsSequence(Lists[s])
  /\ \A o \in DOMAIN Origins : Origins[o] \in DOMAIN Origins /\ Origins[Origins[o]] = Origins[o]
  /\ \A a \in AppConfigs : \A k \in DOMAIN a :
       /\ k \in Group => IsMapping(a[k])
       /\ k = "cors" => IsMapping(a[k]) \/ IsCorsConfig(a[k]) \/ a[k] = None
       /\ k \in Known \ (Group \cup {"cors"}) => Plain(a[k]) /\ a[k][1] \in Types(k)

Init ==
  /\ env \in Envs /\ app \in AppConfigs
  /\ conf = Rejected /\ pc = "load"

\* Mutant of Read: only a missing value is unset.
Read_EmptyIsValue(e, name, default) ==
  IF name \in DOMAIN e THEN Text(e[name]) ELSE default

\* Environment._read: missing and empty values are unset; Bad is no default.
Read(e, name, default) ==
  IF name \in DOMAIN e /\ e[name] # "" THEN Text(e[name]) ELSE default

Number(v) == IF v[1] = "text" THEN AsInt(v, 0 - 1000000) ELSE v
Flag(v) == IF v[1] = "text" THEN AsBool(v) ELSE v

\* The values that load_config reads.
EnvValues(e) ==
  Over([web_run |-> Map([port |-> Number(Read(e, "PORT", Bad))]),
        postgres |-> Map([max_size |-> Number(Read(e, "DB_MAX_CONNECTIONS", Bad)),
                          min_size |-> Number(Read(e, "DB_MIN_CONNECTIONS", IntV(2)))]),
        AIOCACHE_DISABLE |-> Flag(Read(e, "AIOCACHE_DISABLE", BoolV(FALSE))),
        AUTH_URL |-> Read(e, "AUTH_URL", Text("")),
        AUTH_TIMEOUT_TOTAL |-> Number(Read(e, "AUTH_TIMEOUT_TOTAL", IntV(10))),
        CORS_ALLOWED_ORIGINS |-> Read(e, "CORS_ALLOWED_ORIGINS", Text("")),
        CORS_MAX_AGE |-> Number(Read(e, "CORS_MAX_AGE", None))],
       [k \in DOMAIN e \cap {"DOMAIN"} |-> Text(e[k])])

\* Every read happens before the merge: a reader that raises ends load_config.
Readable(values) ==
  /\ \A k \in DOMAIN values : values[k] # Bad
  /\ \A g \in {"web_run", "postgres"} : \A k \in DOMAIN values[g][2] : values[g][2][k] # Bad

\* Mutant of Merged: what the application gives is only a default.
Merged_EnvWins(e) == Over(EnvValues(e), app)

\* values.update(app_module.config).
Merged(e) == Over(app, EnvValues(e))

Loaded(e) == IF Readable(EnvValues(e)) THEN FromMapping(Merged(e)) ELSE Rejected

Load ==
  /\ pc = "load" /\ pc' = "loaded"
  /\ conf' = Loaded(env)
  /\ UNCHANGED <<env, app>>

\* The constructor's __post_init__, or create_app of the configuration as a mapping.
Rebuild ==
  /\ pc = "loaded" /\ conf # Rejected
  /\ conf' = FromMapping(Compat(conf))
  /\ UNCHANGED <<env, app, pc>>

Next == Load \/ Rebuild
Spec == Init /\ [][Next]_vars

--------------------------------------------------------------------------------
(* Properties.                                                             *)

Accepted == pc = "loaded" /\ conf # Rejected

\* A configuration that is read back as a mapping and made again, by the constructor or
\* by create_app, is the same: values that are parsed and canonical stay as they are.
RebuildKeeps == Accepted => FromMapping(Compat(conf)) = conf

PortInRange(group) ==
  "port" \in DOMAIN group => group["port"][2] >= 1 /\ group["port"][2] <= 65535
SizesInOrder(group) ==
  "max_size" \in DOMAIN group =>
    /\ group["max_size"][2] >= 1
    /\ "min_size" \in DOMAIN group => group["min_size"][2] \in 0 .. group["max_size"][2]
Exact(origins) == \A i, j \in DOMAIN origins : i # j => origins[i] # origins[j]

\* The CORS settings are parsed from these, DOMAIN and origins among them.
ParsesCors(values) == Get(values, "cors", None)[1] # "cors"
HasDomain(values) == \E k \in {"DOMAIN", "domain"} : Get(values, k, Text("")) # Text("")

\* Whatever the environment and the application give, what is accepted fits together:
\* ports and sizes in range, an absolute URL of the authentication service or none, a
\* finite wait for it, exact origins without a repetition, and no DOMAIN in their place
\* unless the application gives a CorsConfig, which hides it.
AcceptedIsConsistent ==
  Accepted =>
    /\ PortInRange(conf.web_run) /\ PortInRange(conf.postgres) /\ SizesInOrder(conf.postgres)
    /\ conf.auth_url = Text("") \/ conf.auth_url[2] \in Urls
    /\ conf.auth_timeout_total[2] > 0
    /\ Exact(conf.cors.origins[2])
    /\ ParsesCors(Merged(env)) /\ HasDomain(CorsSettings(Merged(env))) => conf.cors.origins[2] # <<>>

\* "missing and empty values use an explicit default when one is supplied"
\* (docs/migration-0.9.md:11): an environment whose optional settings are empty
\* gives the configuration of one that has not got them, and a required setting
\* that is empty gives none.
EmptyIsUnset ==
  pc = "loaded" =>
    /\ conf = Loaded([name \in {n \in DOMAIN env : env[n] # ""} |-> env[name]])
    /\ Accepted => Get(env, "PORT", "") # "" /\ Get(env, "DB_MAX_CONNECTIONS", "") # ""

\* The keys of the configuration's mapping for which the application gives a value: its
\* own keys, the settings in upper case and the groups, CORS settings flat or nested.
Given(a) ==
  LET cors == {"CORS_ALLOWED_ORIGINS", "CORS_MAX_AGE"}
  IN (DOMAIN a \ Known)
       \cup (DOMAIN a \cap {"web_run", "postgres", "AIOCACHE_DISABLE", "AUTH_URL", "AUTH_TIMEOUT_TOTAL"})
       \cup (IF ParsesCors(a) THEN DOMAIN CorsSettings(a) \cap cors ELSE cors)

LowerCase == {"auth_url", "cors_allowed_origins", "cors_max_age"}

\* What the application's module gives under those keys is what the configuration holds
\* there, parsed as if the environment gave nothing.  What it gives in lower case, which
\* AppConfig.from_mapping reads as well, has no effect, against "values merged from
\* <app_dir>.config remain available" (docs/migration-0.9.md:20): load_config always sets
\* the name in upper case, which is read first, and the lower-case one is no extra.
ApplicationWins ==
  Accepted =>
    /\ \A k \in Given(app) : Compat(conf)[k] = Compat(Parsed(app))[k]
    /\ conf = FromMapping(Over([k \in DOMAIN app \ LowerCase |-> app[k]], EnvValues(env)))

================================================================================
