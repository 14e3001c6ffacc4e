----------------------------- MODULE SchemaRequests -----------------------------
(***************************************************************************)
(* Schema requests and CORS: OptionsViewMixin of                           *)
(* aiohttp_boilerplate/views/options.py between a browser and aiohttp-cors,*)
(* as _setup_cors of bootstrap/web_app.py sets that up.                    *)
(*                                                                         *)
(* aiohttp-cors answers the preflights that options() hands to it, and     *)
(* adds the headers of every other request when its response is prepared;  *)
(* it leaves every OPTIONS of a class view to the view.  A browser sends a *)
(* request that is not simple only after its preflight was accepted.       *)
(***************************************************************************)
EXTENDS Naturals

CONSTANTS
  Origin,  \* origins of browsers
  None     \* a header that is not sent

ConstantsAssumption == None \notin Origin

VARIABLES
  allowed,   \* cors.allowed_origins; if it is empty, aiohttp-cors is not set up
  methods,   \* methods that the view implements besides OPTIONS
  delegates, \* its GET handler returns self.options()
  last,      \* the last request
  answer,    \* its answer
  promised   \* history: the origin and the method of the last accepted preflight

vars == <<allowed, methods, delegates, last, answer, promised>>

Method == {"GET", "PUT", "DELETE", "OPTIONS"}

\* asks is Access-Control-Request-Method, known whether every header that it asks
\* for is in allow_headers, schema whether the query string has schema=1.
Request == [method : Method, origin : Origin \cup {None}, asks : Method \cup {None},
            known : BOOLEAN, schema : BOOLEAN]

\* origins: how many times Access-Control-Allow-Origin is set.  The answer to a request
\* is never the 500 of an assertion that failed.
Answer == [status : {200, 403, 405}, body : {"schema", "handler", "none"},
           origins : 0 .. 1]
Nothing == [status |-> 200, body |-> "none", origins |-> 0]

Init ==
  /\ allowed \in SUBSET Origin
  /\ methods \in SUBSET (Method \ {"OPTIONS"})
  /\ delegates \in BOOLEAN /\ (delegates => "GET" \in methods)
  /\ last = [method |-> "OPTIONS", origin |-> None, asks |-> None, known |-> TRUE, schema |-> FALSE]
  /\ answer = Nothing /\ promised = {}

CorsEnabled == allowed # {}
Has(method) == method = "OPTIONS" \/ method \in methods

\* Mutant of HasConfig: a method that the view has not got is not an error.
HasConfig_Always(q, method) == TRUE

\* get_request_config raises KeyError for an unsupported method of a preflight only.
HasConfig(q, method) == Has(method) \/ q.method # "OPTIONS"

\* CorsViewMixin.options: what aiohttp-cors requires of a preflight.
Accepted(q) == q.origin \in allowed /\ HasConfig(q, q.asks) /\ q.known

Preflight(q) == q.method = "OPTIONS" /\ CorsEnabled /\ q.asks # None

\* Mutant of Options: the headers are added to every schema answer.
Options_AnyMethod(q) ==
  IF Preflight(q) /\ ~Accepted(q) THEN [Nothing EXCEPT !.status = 403]
  ELSE [status |-> 200, body |-> "schema", origins |-> IF q.origin \in allowed THEN 1 ELSE 0]

\* options(): an accepted preflight gives its headers to the schema, another OPTIONS
\* request gets them from the view.
Options(q) ==
  IF Preflight(q) /\ ~Accepted(q) THEN [Nothing EXCEPT !.status = 403]
  ELSE [status |-> 200, body |-> "schema",
        origins |-> IF q.method = "OPTIONS" /\ q.origin \in allowed THEN 1 ELSE 0]

\* Mutant of Dispatch: schema=1 needs a view that has GET.
Dispatch_OfGet(q) ==
  IF q.method = "OPTIONS" \/ (q.method = "GET" /\ Has("GET") /\ (q.schema \/ delegates))
    THEN Options(q)
  ELSE IF Has(q.method) THEN [Nothing EXCEPT !.body = "handler"]
  ELSE [Nothing EXCEPT !.status = 405]

\* _iter: GET with schema=1 is answered by options(), also without a GET handler.
Dispatch(q) ==
  IF q.method = "OPTIONS" \/ (q.method = "GET" /\ (q.schema \/ (Has("GET") /\ delegates)))
    THEN Options(q)
  ELSE IF Has(q.method) THEN [Nothing EXCEPT !.body = "handler"]
  ELSE [Nothing EXCEPT !.status = 405]

\* aiohttp-cors, when a response is prepared: the configuration of the method, or else
\* the defaults; it asserts that the header is not there.
Prepared(q, a) ==
  IF ~CorsEnabled \/ q.method = "OPTIONS" \/ q.origin \notin allowed THEN a
  ELSE [status |-> IF a.origins > 0 THEN 500 ELSE a.status, body |-> a.body,
        origins |-> a.origins + 1]

Ask(q) ==
  /\ last' = q /\ answer' = Prepared(q, Dispatch(q))
  /\ promised' = IF Preflight(q) /\ answer'.status = 200
                   THEN {<<q.origin, q.asks>>} ELSE promised
  /\ UNCHANGED <<allowed, methods, delegates>>

Next == \E q \in Request : Ask(q)
Spec == Init /\ [][Next]_vars

--------------------------------------------------------------------------------
(* Properties.                                                             *)

TypeOK ==
  /\ allowed \subseteq Origin /\ methods \subseteq Method /\ delegates \in BOOLEAN
  /\ last \in Request /\ answer \in Answer
  /\ promised \subseteq Origin \X Method /\ \A p, q \in promised : p = q

\* A preflight that was accepted is kept by the request that follows: "Preflights must
\* still reject the unsupported requested method" (views/options.py:87), so what the
\* browser sends next is not answered with 405, and it may read the answer.
PromiseKept ==
  <<last.origin, last.method>> \in promised /\ last.asks = None =>
    answer.status # 405 /\ answer.origins = 1

\* The two that set the header agree: of the configured origins every request that is
\* not refused gets it, once, whatever its method, the view's methods and its handler;
\* others never do.
OriginOnce ==
  answer.origins = (IF last.origin \in allowed /\ answer # Nothing /\ answer.status # 403
                      THEN 1 ELSE 0)

\* "The same schema is available from GET ?schema=1, including for views that do not
\* otherwise implement GET"; "Schema OPTIONS works when CORS is disabled"
\* (README.md:52): neither depends on the view's methods or the configuration.
SchemaAvailable ==
  /\ last.method = "GET" /\ last.schema => answer.body = "schema" /\ answer.status = 200
  /\ answer # Nothing /\ last.method = "OPTIONS" /\ last.asks = None => answer.body = "schema"

================================================================================
