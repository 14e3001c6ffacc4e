------------------------------- MODULE RequestPath -------------------------------
(***************************************************************************)
(* The path of a request through the library's middlewares and the         *)
(* authentication of a view: logger_to_request, json_error_middleware and  *)
(* erase_header_server (aiohttp_boilerplate/middleware), the context of    *)
(* views/request.py, the errors of views/exceptions.py, validate_token and *)
(* Auth.auth_user of auth/__init__.py.                                     *)
(*                                                                         *)
(* Requests interleave at their awaits: the authentication service, the    *)
(* check of permissions and the handler.  The transaction middleware and   *)
(* the application's own are inside of these three and part of the handler.*)
(***************************************************************************)
EXTENDS Naturals, FiniteSets, Sequences, SequencesExt

CONSTANTS
  Request,      \* requests
  GivenIds,     \* values of the X-Request-ID header
  User,         \* identities
  Credentials,  \* the credential headers of a request: their owners, in order
  Payloads,     \* objects that the authentication service answers
  Absent        \* a header that is not sent, a key that a payload has not

ConstantsAssumption ==
  /\ Absent \notin GivenIds \cup Request \cup User
  /\ Credentials \subseteq Seq(User)
  /\ Payloads \subseteq [{"user_id", "id", "user"} -> BOOLEAN]

VARIABLES
  cfg,       \* is auth_url configured, does validate_token make its own session?
  headers,   \* what a request has sent
  context,   \* request[REQUEST_CONTEXT_KEY]
  log,       \* the context of request[REQUEST_LOG_KEY]
  view,      \* the context of the logger that the view took when it was made
  records,   \* log records: the request they are about, and their context
  sessions,  \* sessions that validate_token has made
  accepted,  \* history: whom the service has accepted, if it has answered
  result,    \* what the handler, and then each middleware, returns or raises
  pc

vars == <<cfg, headers, context, log, view, records, sessions, accepted, result, pc>>

NoContext == [id |-> Absent, user |-> Absent]
Context == [id : GivenIds \cup Request \cup {Absent}, user : User \cup {Absent}]
Label == {"arrive", "construct", "auth", "upstream", "permission", "handle", "answer",
          "done", "gone"}
\* "json" is a JSONHTTPError, "own json" an HTTPException with a JSON body of the
\* application's, "http" any other, "crash" any other exception; a "stream" has been
\* prepared by the handler.
Raised == {"json", "own json", "http", "crash"}
Result == [kind : Raised \cup {"response", "stream", "none"},
           status : {200, 400, 403, 404, 500, 502, 503},
           details : BOOLEAN,  \* the error's text or details are in the body
           id : GivenIds \cup Request \cup {Absent}, server : BOOLEAN]
Nothing == [kind |-> "none", status |-> 200, details |-> FALSE, id |-> Absent, server |-> TRUE]

Init ==
  /\ cfg \in [url : BOOLEAN, own : BOOLEAN]
  /\ headers \in [Request -> [id : GivenIds \cup {Absent}, credentials : Credentials]]
  /\ context = [r \in Request |-> NoContext]
  /\ log = [r \in Request |-> NoContext]
  /\ view = [r \in Request |-> NoContext]
  /\ records = {}
  /\ sessions = [r \in Request |-> FALSE]
  /\ accepted = [r \in Request |-> {}]
  /\ result = [r \in Request |-> Nothing]
  /\ pc = [r \in Request |-> "arrive"]

At(r, label) == pc[r] = label
Goto(r, label) == pc' = [pc EXCEPT ![r] = label]
Log(r, logger) == records' = records \cup {[request |-> r, context |-> logger[r]]}

\* get_request_id: a fresh identifier is named by its request.
RequestId(r) == IF headers[r].id # Absent THEN headers[r].id ELSE r

\* Mutant of Install: the logger of a component is one for all requests.
Install_SharedLogger(r, c) ==
  /\ context' = [context EXCEPT ![r] = c]
  /\ log' = [q \in Request |-> c]

\* install_request_context: both keys in one step.
Install(r, c) ==
  /\ context' = [context EXCEPT ![r] = c]
  /\ log' = [log EXCEPT ![r] = c]

\* logger_to_request, before the handler.
Arrive(r) ==
  /\ At(r, "arrive") /\ Install(r, [id |-> RequestId(r), user |-> Absent])
  /\ Goto(r, "construct")
  /\ UNCHANGED <<cfg, headers, view, records, sessions, accepted, result>>

\* JSONHTTPError keeps its details below 500.
JsonError(status) ==
  [Nothing EXCEPT !.kind = "json", !.status = status, !.details = status < 500]

Raise(r, error) == result' = [result EXCEPT ![r] = error] /\ Goto(r, "answer")

\* The router finds no route.
NoRoute(r) ==
  /\ At(r, "construct")
  /\ Raise(r, [Nothing EXCEPT !.kind = "http", !.status = 404, !.details = TRUE])
  /\ UNCHANGED <<cfg, headers, context, log, view, records, sessions, accepted>>

\* The view and its models keep the logger of now.
Construct(r) ==
  /\ At(r, "construct") /\ view' = [view EXCEPT ![r] = log[r]] /\ Goto(r, "auth")
  /\ UNCHANGED <<cfg, headers, context, log, records, sessions, accepted, result>>

\* auth_user, up to the request to the authentication service.
AskService(r) ==
  /\ At(r, "auth") /\ cfg.url /\ Log(r, log) /\ Goto(r, "upstream")
  /\ sessions' = [sessions EXCEPT ![r] = cfg.own]
  /\ UNCHANGED <<cfg, headers, context, log, view, accepted, result>>

NoAuthUrl(r) ==
  /\ At(r, "auth") /\ ~cfg.url /\ Log(r, log) /\ Raise(r, JsonError(503))
  /\ UNCHANGED <<cfg, headers, context, log, view, sessions, accepted>>

\* Mutant of EndSession: only a success closes the session.
EndSession_OnSuccess(r) ==
  sessions' = IF pc'[r] = "permission" THEN [sessions EXCEPT ![r] = FALSE] ELSE sessions

\* The finally of validate_token.
EndSession(r) == sessions' = [sessions EXCEPT ![r] = FALSE]

\* The first credential header is the one that is sent.
Sent(r) == IF headers[r].credentials = <<>> THEN Absent ELSE Head(headers[r].credentials)

\* A key of a payload holds the owner of the credential, or is not there.
Identity(payload, owner) == IF \E k \in DOMAIN payload : payload[k] THEN owner ELSE Absent

\* 200 with an object, or 204 with none: context and logger get the identity.
Accept(r) ==
  /\ At(r, "upstream") /\ Goto(r, "permission") /\ EndSession(r)
  /\ \E payload \in Payloads :
       LET user == Identity(payload, Sent(r))
       IN /\ Install(r, [context[r] EXCEPT !.user = user])
          /\ accepted' = [accepted EXCEPT ![r] = {user}]
  /\ UNCHANGED <<cfg, headers, view, records, result>>

\* Mutant of ServiceError: an error is taken for an anonymous user.
ServiceError_Anonymous(r) ==
  /\ At(r, "upstream")
  /\ \/ Raise(r, JsonError(403))
     \/ Goto(r, "permission") /\ UNCHANGED result
  /\ EndSession(r)
  /\ UNCHANGED <<cfg, headers, context, log, view, records, accepted>>

\* A rejection, a malformed body, any other status or a transport error.
ServiceError(r) ==
  /\ At(r, "upstream") /\ \E status \in {403, 502, 503} : Raise(r, JsonError(status))
  /\ EndSession(r)
  /\ UNCHANGED <<cfg, headers, context, log, view, records, accepted>>

\* Mutant of Timeout: only a session of its own has one.
Timeout_OfOwn(r) ==
  /\ At(r, "upstream") /\ cfg.own /\ Raise(r, JsonError(503)) /\ EndSession(r)
  /\ UNCHANGED <<cfg, headers, context, log, view, records, accepted>>

\* The service does not answer within the timeout of its session.
Timeout(r) ==
  /\ At(r, "upstream") /\ Raise(r, JsonError(503)) /\ EndSession(r)
  /\ UNCHANGED <<cfg, headers, context, log, view, records, accepted>>

\* The client goes away: CancelledError passes every middleware.
Cancel(r) ==
  /\ pc[r] \in {"upstream", "permission", "handle"} /\ Goto(r, "gone") /\ EndSession(r)
  /\ UNCHANGED <<cfg, headers, context, log, view, records, accepted, result>>

\* check_permission, if the view asks for it.
Permit(r) ==
  /\ At(r, "permission") /\ Log(r, log)
  /\ \/ Goto(r, "handle") /\ UNCHANGED result
     \/ Raise(r, JsonError(403))
  /\ UNCHANGED <<cfg, headers, context, log, view, sessions, accepted>>

\* The handler, with what the application may return or raise in it.
Handle(r) ==
  /\ At(r, "handle") /\ Log(r, view)
  /\ \E kind \in Raised \cup {"response", "stream"}, status \in {200, 400, 500} :
       /\ (status = 200) <=> (kind \in {"response", "stream"})
       /\ kind = "crash" => status = 500
       /\ Raise(r, [Nothing EXCEPT !.kind = kind, !.status = status,
                      !.details = kind \in {"own json", "http", "crash"}
                                  \/ (kind = "json" /\ status < 500),
                      !.id = IF kind = "stream" THEN context[r].id ELSE Absent])
  /\ UNCHANGED <<cfg, headers, context, log, view, sessions, accepted>>

\* erase_header_server: what has been sent keeps its header, a crash has none yet.
EraseHeaderServer(x) == IF x.kind \in {"stream", "crash"} THEN x ELSE [x EXCEPT !.server = FALSE]

\* Mutant of JsonErrors: the text of an error is its message.
JsonErrors_WithText(x) ==
  CASE x.kind = "http" -> [x EXCEPT !.kind = "response"]
    [] x.kind = "crash" -> [x EXCEPT !.kind = "response", !.status = 500]
    [] OTHER -> x

\* json_error_middleware: a JSON error is raised again, any other becomes the
\* envelope; the reason of an HTTPException below 500 is its message.
JsonErrors(x) ==
  CASE x.kind = "http" -> [x EXCEPT !.kind = "response", !.details = x.status < 500]
    [] x.kind = "crash" -> [Nothing EXCEPT !.kind = "response", !.status = 500]
    [] OTHER -> x

\* Mutant of Stamp: an error that is raised is not given the identifier.
Stamp_Returned(x, id) ==
  IF x.kind \in {"stream", "json", "own json"} THEN x ELSE [x EXCEPT !.id = id, !.server = FALSE]

\* logger_to_request, after the handler; a stream had its identifier when prepared.
Stamp(x, id) ==
  CASE x.kind = "stream" -> x
    [] x.kind = "response" -> [x EXCEPT !.id = id, !.server = FALSE]
    [] OTHER -> [x EXCEPT !.id = id]

\* The middlewares are left, from the inner to the outer one; none of them awaits.
Answer(r) ==
  /\ At(r, "answer") /\ Goto(r, "done")
  /\ result' = [result EXCEPT ![r] = Stamp(JsonErrors(EraseHeaderServer(@)), context[r].id)]
  /\ IF result[r].kind = "crash" THEN Log(r, log) ELSE UNCHANGED records
  /\ UNCHANGED <<cfg, headers, context, log, view, sessions, accepted>>

Step(r) ==
  \/ Arrive(r) \/ NoRoute(r) \/ Construct(r) \/ AskService(r) \/ NoAuthUrl(r)
  \/ Timeout(r) \/ Permit(r) \/ Handle(r) \/ Answer(r)

Ended == \A r \in Request : pc[r] \in {"done", "gone"}
Finished == Ended /\ UNCHANGED vars
Next == (\E r \in Request : Step(r) \/ Accept(r) \/ ServiceError(r) \/ Cancel(r)) \/ Finished
Spec == Init /\ [][Next]_vars

\* Handlers return, and the session's timeout passes; the service need not answer.
FairSpec == Spec /\ \A r \in Request : WF_vars(Step(r))

--------------------------------------------------------------------------------
(* Properties.                                                             *)

TypeOK ==
  /\ cfg \in [url : BOOLEAN, own : BOOLEAN]
  /\ headers \in [Request -> [id : GivenIds \cup {Absent}, credentials : Credentials]]
  /\ {context, log, view} \subseteq [Request -> Context]
  /\ \A r \in Request : ~At(r, "arrive") => context[r].id # Absent
  /\ records \subseteq [request : Request, context : Context]
  /\ sessions \in [Request -> BOOLEAN]
  /\ accepted \in [Request -> SUBSET (User \cup {Absent})]
  /\ result \in [Request -> Result]
  /\ pc \in [Request -> Label]

\* Every answer, of whatever kind and from whatever layer, carries the identifier of
\* its own request.
AnsweredWithOwnId ==
  \A r \in Request : At(r, "done") =>
    result[r].id = (IF headers[r].id # Absent THEN headers[r].id ELSE r)

\* "Identity discovery replaces both atomically. Shared loggers never hold request,
\* response, identity, or component state" (docs/adr/0005): no record names another
\* request's identifier or user, and no record a user whom the service has not yet
\* accepted; the context and its logger agree.
RecordsAreOwn ==
  /\ context = log
  /\ \A record \in records :
       LET r == record.request
       IN /\ record.context.id = (IF headers[r].id # Absent THEN headers[r].id ELSE r)
          /\ record.context.user \in {Absent} \cup accepted[r]

\* "Rejection maps to 403, malformed success to 502, and transport/timeout failure
\* to 503" (docs/adr/0004): the permission check and the handler are reached only
\* after the service has accepted, and the identity is the owner of the first of the
\* request's credentials.
IdentityIsAccepted ==
  \A r \in Request :
    /\ pc[r] \in {"permission", "handle"} => accepted[r] = {context[r].user}
    /\ context[r].user # Absent =>
         headers[r].credentials # <<>> /\ context[r].user = headers[r].credentials[1]

\* "never expose internal exception text" (docs/migration-0.9.md): an internal error
\* is answered without details, unless the application wrote the JSON body itself.
InternalsAreHidden ==
  \A r \in Request : At(r, "done") /\ result[r].status >= 500 =>
    ~result[r].details \/ result[r].kind = "own json"

\* A session that validate_token has made is closed on every way out.
OwnSessionsAreClosed == \A r \in Request : sessions[r] => At(r, "upstream")

\* Every request is answered, unless its client goes away.
EveryRequestEnds == <>Ended

================================================================================
