------------------------------ MODULE RequestBody ------------------------------
(***************************************************************************)
(* The body of a request as a view reads it: get_request_data,             *)
(* get_schema_data and _get_header_values of                               *)
(* aiohttp_boilerplate/views/options.py.  The handler and the hooks of a   *)
(* view may call them in any order and more than once; request_data is     *)
(* what they share.                                                        *)
(***************************************************************************)
EXTENDS FiniteSets

CONSTANTS
  Field,       \* keys that the schema loads
  HeaderField, \* those of its Header fields
  Foreign      \* a key that is not the schema's

ConstantsAssumption == HeaderField \subseteq Field /\ Foreign \notin Field

VARIABLES
  request, \* its content type, body and headers
  schema,  \* required fields
  data,    \* self.request_data
  call,    \* the last call
  answer,  \* what it returned or raised
  parsed   \* history: a call asked for JSON

vars == <<request, schema, data, call, answer, parsed>>

Key == Field \cup {Foreign}

\* What a text is, read as JSON; "quoted" is a string that holds the text of an object.
\* keys are those of the object; a number is not 0 and a list not empty.
Kind == {"nothing", "broken", "null", "number", "list", "object", "quoted"}
Body == {b \in [is : Kind, keys : SUBSET Key] : b.is \in {"object", "quoted"} \/ b.keys = {}}
Nothing == [is |-> "nothing", keys |-> {}]
Unread == [form |-> "none", of |-> Nothing]
Request == [json : BOOLEAN, body : Body, headers : [HeaderField -> {"absent", "blank", "given"}]]

\* loaded: which of the schema's keys have a value, and where it comes from.
Done(loaded) == [status |-> 200, error |-> "none", loaded |-> loaded]
Refusal(status, error) == [status |-> status, error |-> error, loaded |-> <<>>]

Init ==
  /\ request \in Request
  /\ schema \in [required : SUBSET Field, partial : BOOLEAN]
  /\ data = Unread /\ call = "none" /\ answer = Done(<<>>) /\ parsed = FALSE

\* request_data is None: the body is read, and kept.
Text(d, q) == IF d.form = "none" THEN [form |-> "text", of |-> q.body] ELSE d

\* json.loads of a text that is well-formed: None for null, and a string for a string.
Parsed(body) ==
  CASE body.is = "null"   -> Unread
    [] body.is = "quoted" -> [form |-> "text", of |-> [body EXCEPT !.is = "object"]]
    [] OTHER              -> [form |-> "value", of |-> body]
WellFormed(body) == body.is \notin {"nothing", "broken"}

GetText ==
  /\ call' = "text" /\ data' = Text(data, request) /\ answer' = Done(<<>>)
  /\ UNCHANGED <<request, schema, parsed>>

\* get_request_data(to_json=True).  A value that is no text is a TypeError here.
GetJson ==
  LET text == Text(data, request) IN
  /\ call' = "json" /\ parsed' = TRUE
  /\ \/ ~request.json
        /\ data' = text /\ answer' = Refusal(415, "content_type")
     \/ request.json /\ text.form = "value"
        /\ data' = text /\ answer' = Refusal(500, "none")
     \/ request.json /\ text.form = "text" /\ ~WellFormed(text.of)
        /\ data' = text /\ answer' = Refusal(400, "malformed")
     \/ request.json /\ text.form = "text" /\ WellFormed(text.of)
        /\ data' = Parsed(text.of) /\ answer' = Done(<<>>)
  /\ UNCHANGED <<request, schema>>

\* The keys of _get_header_values: headers that are not blank.
HeaderValues(q, fields) == {f \in fields : q.headers[f] = "given"}

\* Mutant of WithHeaders: the header's value replaces the body's only when it is there.
WithHeaders_OverBody(keys, q, fields) ==
  [k \in keys \cup HeaderValues(q, fields) |->
     IF k \in HeaderValues(q, fields) THEN "header" ELSE "body"]

\* The body without the keys of Header fields, and the values of these.
WithHeaders(keys, q, fields) ==
  [k \in (keys \ fields) \cup HeaderValues(q, fields) |->
     IF k \in fields THEN "header" ELSE "body"]

\* loader.load of an object: unknown keys and missing fields are ValidationErrors.
Validated(values) ==
  IF DOMAIN values \subseteq Field /\ (schema.partial \/ schema.required \subseteq DOMAIN values)
    THEN Done(values) ELSE Refusal(400, "invalid")

\* Mutant of LoadText: headers are merged into whatever the body is.
LoadText_NoCheck(body, q, fields) ==
  IF ~WellFormed(body) \/ (body.is # "object" /\ fields # {}) THEN Refusal(400, "malformed")
  ELSE IF body.is # "object" THEN Refusal(400, "invalid")
  ELSE Validated(WithHeaders(body.keys, q, fields))

\* json.loads and loader.load, or loader.loads; a body that is no object is invalid input.
LoadText(body, q, fields) ==
  IF ~WellFormed(body) THEN Refusal(400, "malformed")
  ELSE IF body.is # "object" THEN Refusal(400, "invalid")
  ELSE Validated(WithHeaders(body.keys, q, fields))

\* Mutant of Load: only a JSONDecodeError is caught.
Load_Narrow(d, q, fields) ==
  IF ~q.json THEN Refusal(415, "content_type")
  ELSE IF d.of = Nothing THEN Refusal(400, "empty")
  ELSE IF d.form = "value" THEN Refusal(500, "none")
  ELSE LoadText(d.of, q, fields)

\* get_schema_data with the data that get_request_data returned: an empty text or an
\* empty object is "Empty data", a value that is no text a TypeError that is caught.
Load(d, q, fields) ==
  IF ~q.json THEN Refusal(415, "content_type")
  ELSE IF d.of = Nothing \/ (d.form = "value" /\ d.of.keys = {} /\ d.of.is = "object")
    THEN Refusal(400, "empty")
  ELSE IF d.form = "value" THEN Refusal(400, "malformed")
  ELSE LoadText(d.of, q, fields)

\* Mutant of GetSchemaData: what was parsed is kept.
GetSchemaData_Keeps ==
  /\ call' = "load"
  /\ answer' = Load(Text(data, request), request, HeaderField)
  /\ data' = IF answer'.status = 200 THEN Parsed(Text(data, request).of) ELSE Text(data, request)
  /\ UNCHANGED <<request, schema, parsed>>

GetSchemaData ==
  /\ call' = "load"
  /\ answer' = Load(Text(data, request), request, HeaderField)
  /\ data' = IF request.json THEN Text(data, request) ELSE data
  /\ UNCHANGED <<request, schema, parsed>>

Next == GetText \/ GetJson \/ GetSchemaData
Spec == Init /\ [][Next]_vars

--------------------------------------------------------------------------------
(* Properties.                                                             *)

\* Loading through the schema refuses with 400 or 415 or it returns a mapping; no body
\* and no call before it makes it fail with 500 (get_schema_data catches what its
\* parsers raise).
LoadRefuses == call = "load" => answer.status # 500

\* "A body value with the same key is ignored, even when the header is absent"
\* (README.md:123): the outcome is that of the same body without the keys of Header
\* fields, and a Header field that was loaded has a header that is not blank.
HeaderFieldsFromHeaders ==
  LET without == [request.body EXCEPT !.keys = @ \ HeaderField] IN
  call = "load" /\ ~parsed =>
    /\ answer = Load([form |-> "text", of |-> without], request, HeaderField)
    /\ \A f \in HeaderField \cap DOMAIN answer.loaded :
         answer.loaded[f] = "header" /\ request.headers[f] = "given"

\* "A body that is not a JSON object keeps its existing error response" (README.md:124):
\* the one that it gets from a schema without Header fields.  It does not hold once
\* get_request_data has decoded a string that itself holds the text of an object.
ErrorKept ==
  call = "load" /\ ~parsed /\ request.body.is # "object" => answer = Load(data, request, {})

\* Until something asks for JSON, loading gives what it gives as the first call, however
\* often the body was read or loaded before (on_start, before_create and the handler
\* share request_data).
LoadedAgain ==
  call = "load" /\ ~parsed => answer = Load([form |-> "text", of |-> request.body], request, HeaderField)

================================================================================
