---------------------------------- MODULE Data ----------------------------------
(***************************************************************************)
(* The parts of the library that handle one request's data and share no    *)
(* state: a behaviour of this module is a behaviour of one of them.        *)
(*   pages        ListPages                                                *)
(*   keys         CacheKeys                                                *)
(*   record       ModelRecord                                              *)
(*   statements   SqlStatements                                            *)
(*   body         RequestBody                                              *)
(*   schema       SchemaRequests                                           *)
(* Constants and variables are those of the parts, under their own names;  *)
(* parts with a variable of the same name use the same one.  The variables *)
(* of the other parts are 0.                                               *)
(***************************************************************************)
EXTENDS Integers, FiniteSets

CONSTANTS
  PageRow, PageKey, LimitDefault, LimitMax, Limits, Offsets, Orders, Writes,
  Absent, NotANumber,                         \* pages
  Character, Path, QueryItems,
  Header, HeaderValue, Identity,              \* keys
  RecordId, RecordValue, MaxCalls,            \* record
  Name, Invalid, Calls,                       \* statements
  Field, HeaderField, Foreign,                \* body
  Origin,                                     \* schema
  None                                        \* record and schema

VARIABLES
  part,                                           \* the part of this behaviour
  table, data, call, request, answer,             \* of more than one part
  query, page, count, seen, writes, pc,           \* pages
  stored,                                         \* keys
  saved, inside, home, excuse, wrote, calls,      \* record
  stmt,                                           \* statements
  schema, parsed,                                 \* body
  allowed, methods, delegates, last, promised     \* schema

pages == <<query, page, count, seen, writes, pc>>
record == <<saved, inside, home, excuse, wrote, calls>>
body == <<schema, parsed>>
schemas == <<allowed, methods, delegates, last, promised>>

vars == <<part, table, data, call, request, answer, pages, stored, record, stmt, body, schemas>>

Pages == INSTANCE ListPages WITH Row <- PageRow, Key <- PageKey
Keys == INSTANCE CacheKeys WITH Query <- QueryItems, Value <- HeaderValue
Record == INSTANCE ModelRecord WITH Id <- RecordId, Value <- RecordValue
Statements == INSTANCE SqlStatements
Body == INSTANCE RequestBody
Schema == INSTANCE SchemaRequests

ASSUME PartsAssumption ==
  /\ Pages!ConstantsAssumption /\ Keys!ConstantsAssumption /\ Record!ConstantsAssumption
  /\ Statements!ConstantsAssumption /\ Body!ConstantsAssumption /\ Schema!ConstantsAssumption

--------------------------------------------------------------------------------

NoPages == query = 0 /\ page = 0 /\ count = 0 /\ seen = 0 /\ writes = 0 /\ pc = 0
NoRecord == saved = 0 /\ inside = 0 /\ home = 0 /\ excuse = 0 /\ wrote = 0 /\ calls = 0
NoBody == schema = 0 /\ parsed = 0
NoSchema == allowed = 0 /\ methods = 0 /\ delegates = 0 /\ last = 0 /\ promised = 0

Init ==
  \/ /\ part = "pages" /\ Pages!Init
     /\ data = 0 /\ call = 0 /\ request = 0 /\ answer = 0
     /\ stored = 0 /\ NoRecord /\ stmt = 0 /\ NoBody /\ NoSchema
  \/ /\ part = "keys" /\ Keys!Init
     /\ table = 0 /\ data = 0 /\ call = 0
     /\ NoPages /\ NoRecord /\ stmt = 0 /\ NoBody /\ NoSchema
  \/ /\ part = "record" /\ Record!Init
     /\ call = 0 /\ request = 0 /\ answer = 0
     /\ NoPages /\ stored = 0 /\ stmt = 0 /\ NoBody /\ NoSchema
  \/ /\ part = "statements" /\ Statements!Init
     /\ table = 0 /\ data = 0 /\ request = 0 /\ answer = 0
     /\ NoPages /\ stored = 0 /\ NoRecord /\ NoBody /\ NoSchema
  \/ /\ part = "body" /\ Body!Init
     /\ table = 0 /\ NoPages /\ stored = 0 /\ NoRecord /\ stmt = 0 /\ NoSchema
  \/ /\ part = "schema" /\ Schema!Init
     /\ table = 0 /\ data = 0 /\ call = 0 /\ request = 0
     /\ NoPages /\ stored = 0 /\ NoRecord /\ stmt = 0 /\ NoBody

Next ==
  \/ /\ part = "pages" /\ Pages!Next
     /\ UNCHANGED <<part, data, call, request, answer, stored, record, stmt, body, schemas>>
  \/ /\ part = "keys" /\ Keys!Next
     /\ UNCHANGED <<part, table, data, call, pages, record, stmt, body, schemas>>
  \/ /\ part = "record" /\ Record!Next
     /\ UNCHANGED <<part, call, request, answer, pages, stored, stmt, body, schemas>>
  \/ /\ part = "statements" /\ Statements!Next
     /\ UNCHANGED <<part, table, data, request, answer, pages, stored, record, body, schemas>>
  \/ /\ part = "body" /\ Body!Next
     /\ UNCHANGED <<part, table, pages, stored, record, stmt, schemas>>
  \/ /\ part = "schema" /\ Schema!Next
     /\ UNCHANGED <<part, table, data, call, request, pages, stored, record, stmt, body>>

Spec == Init /\ [][Next]_vars

--------------------------------------------------------------------------------
(* The properties of the parts, which their modules state one by one.      *)

\* Walking a list page by page gives every row once, pages fit what was asked for, and
\* what a client gives as limit, offset or order never makes SQL.select raise.
ListIsWalked ==
  part = "pages" => Pages!WalkComplete /\ Pages!PageFits /\ Pages!BadQueryIsRefused

\* Requests whose paths and header values hold no separator share a cached response only
\* if all that build_cache_key is made of is equal; with separators too if they have one
\* path and the same headers, or differ in the path or in one header only. They do share
\* it, with any characters, if only the order of the query's items differs.
KeysAreFaithful ==
  part = "keys" => Keys!SharedOnlyEqual /\ Keys!OneDifferenceIsSeen /\ Keys!OrderIsNothing

\* A write of a loaded record changes its row and no other, and the record in memory
\* equals its row unless there is a reason that it need not.
RecordIsItsRow ==
  part = "record" => Record!TypeOK /\ Record!WritesStayHome /\ Record!MemoryIsRow

\* Every placeholder of a statement stands for the value that it was written for, the
\* record's own id included, whatever names columns and parameters share.
ValuesInPlace ==
  part = "statements" => Statements!TypeOK /\ Statements!PlaceholdersMatch /\ Statements!OwnIdInScope

\* Loading a body through the schema is a result or a 4xx, the same each time, with
\* Header fields from the headers only.
BodyLoads ==
  part = "body" => /\ Body!LoadRefuses /\ Body!LoadedAgain
                   /\ Body!HeaderFieldsFromHeaders /\ Body!ErrorKept

\* What an accepted preflight promises is kept by the request after it, an allowed
\* origin's header is set once, and every view's schema is available.
BrowsersAreServed ==
  part = "schema" => /\ Schema!TypeOK /\ Schema!PromiseKept
                     /\ Schema!OriginOnce /\ Schema!SchemaAvailable

================================================================================
