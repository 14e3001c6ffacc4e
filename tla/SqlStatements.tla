----------------------------- MODULE SqlStatements -----------------------------
(***************************************************************************)
(* The statements that aiohttp_boilerplate/sql and models/__init__.py      *)
(* build: named values become the positions $1, $2, ... of one list, and   *)
(* the same names may occur among the columns, the parameters of a `where` *)
(* and the names that the library itself adds.                             *)
(*                                                                         *)
(* A name is a tuple: its text and the suffixes appended to it, so that    *)
(* "a__1" given by a caller and "a__1" made of "a" are one name.  A `where`*)
(* is the sequence of names in its braces; <<>> is a blank one.  A value   *)
(* is where it comes from.                                                 *)
(***************************************************************************)
EXTENDS Naturals, Sequences, FiniteSets, SequencesExt

CONSTANTS
  Name,     \* names that callers use
  Invalid,  \* those that are no identifiers
  Calls     \* the calls to build

VARIABLES
  call,  \* the arguments of a call
  stmt   \* what goes to asyncpg

vars == <<call, stmt>>

\* own: the record has an id of its own.  paged: limit and offset of a select.
Operation == {"insert", "update", "update_all", "delete", "select", "is_exists", "get_count",
              "model update", "model delete", "jsonb insert", "jsonb update", "jsonb delete"}
Call == [op : Operation, data : Seq(Name), where : Seq(Name), params : Seq(Name), own : BOOLEAN]

\* A name is a tuple.
ConstantsAssumption ==
  /\ \A name \in Name : Len(name) \in Nat /\ name = [i \in 1 .. Len(name) |-> name[i]]
  /\ Calls \subseteq Call

ObjectId == <<"__object_id">>
JsonData == <<"json_data">>
JsonPath == <<"json_path">>

\* A value of a dictionary: where it comes from, and under which name.
Items(from, names) == [i \in DOMAIN names |-> [name |-> names[i], value |-> <<from, names[i]>>]]
NamesOf(items) == {items[i].name : i \in DOMAIN items}
Least(S) == CHOOSE s \in S : \A t \in S : s <= t

\* Mutant of Unique: the suffix is tried once.
Unique_Once(name, suffix, used) ==
  IF name \notin used THEN name ELSE Append(name, suffix)

\* `while unique_key in combined`.
Unique(name, suffix, used) ==
  IF name \notin used THEN name
  ELSE Append(name, Least({s \in suffix .. suffix + Cardinality(used) :
                             Append(name, s) \notin used}))

\* Assigning to a key of a dictionary that it has does not add one.
Assign(items, item) ==
  IF item.name \notin NamesOf(items) THEN Append(items, item)
  ELSE [i \in DOMAIN items |-> IF items[i].name = item.name THEN item ELSE items[i]]

\* combine_bound_values of two dictionaries: the first one's order, then the other's.
CombineBoundValues(first, second) ==
  LET combined[n \in 0 .. Len(second)] ==
        IF n = 0 THEN first
        ELSE Assign(combined[n - 1],
               [second[n] EXCEPT !.name = Unique(@, 1, NamesOf(combined[n - 1]))])
  IN combined[Len(second)]

Position(name, items) == CHOOSE i \in DOMAIN items : items[i].name = name

\* prepare_where: every {name} becomes the position of its parameter.
PrepareWhere(where, params, index) ==
  [i \in DOMAIN where |-> [at |-> index + Position(where[i], params),
                           means |-> params[Position(where[i], params)].value]]

\* Every name in braces has a parameter, and every parameter is an identifier.
Preparable(where, params) == ToSet(where) \subseteq NamesOf(params) \ Invalid
                             /\ NamesOf(params) \cap Invalid = {}

\* A statement: which position stands for which value, and the list of values.
Statement(places, items) ==
  [sent |-> TRUE, places |-> places, bound |-> [i \in DOMAIN items |-> items[i].value]]
Refused == [sent |-> FALSE, places |-> <<>>, bound |-> <<>>]

\* name=$1, ... of insert, update and update_all.
Assignments(items) == [i \in DOMAIN items |-> [at |-> i, means |-> items[i].value]]
Columns(data) == data # <<>> /\ ToSet(data) \cap Invalid = {}

Insert(data) ==
  IF Columns(data) THEN Statement(Assignments(Items("data", data)), Items("data", data))
  ELSE Refused

UpdateAll(data) == Insert(data)

Update(where, params, data) ==
  LET columns == Items("data", data)
  IN IF where = <<>> \/ params = <<>> \/ ~Columns(data) \/ ~Preparable(where, params)
       THEN Refused
       ELSE Statement(Assignments(columns) \o PrepareWhere(where, params, Len(columns)),
                      CombineBoundValues(columns, params))

\* delete and is_exists refuse a blank scope; select and get_count do not.
Scoped(where, params) ==
  IF where = <<>> \/ params = <<>> \/ ~Preparable(where, params) THEN Refused
  ELSE Statement(PrepareWhere(where, params, 0), params)

Unscoped(where, params) ==
  IF where # <<>> /\ ~Preparable(where, params) THEN Refused
  ELSE Statement(PrepareWhere(where, params, 0), params)

\* Mutant of ObjectIdName: the name is taken without a look at the caller's.
ObjectIdName_Fixed(where, params) == ObjectId

\* A name for the record's id that neither the parameters nor the where use.
ObjectIdName(where, params) ==
  LET used == NamesOf(params) \cup ToSet(where)
      numbered(s) == <<"__object_id_", s>>
  IN IF ObjectId \notin used THEN ObjectId
     ELSE numbered(Least({s \in 1 .. 1 + Cardinality(used) : numbered(s) \notin used}))

\* _write_scope of a record with an id: the caller's predicate AND its id.
WriteScope(where, params, own) ==
  LET name == ObjectIdName(where, params)
  IN IF own THEN [where |-> Append(where, name),
                  params |-> Assign(params, [name |-> name, value |-> <<"own", ObjectId>>])]
     ELSE [where |-> where, params |-> params]

\* JsonbManager: the payload, the path or the index in front of the scope's values.
Jsonb(first, where, params) ==
  IF where = <<>> \/ params = <<>> \/ ~Preparable(where, params) THEN Refused
  ELSE LET front == Items("json", first)
       IN Statement(Assignments(front) \o PrepareWhere(where, params, Len(front)),
                    CombineBoundValues(front, params))

\* The statement of a call.
Build(c) ==
  LET params == Items("param", c.params)
      scope == WriteScope(c.where, params, c.own)
  IN CASE c.op = "insert" -> Insert(c.data)
       [] c.op = "update_all" -> UpdateAll(c.data)
       [] c.op = "update" -> Update(c.where, params, c.data)
       [] c.op \in {"delete", "is_exists"} -> Scoped(c.where, params)
       [] c.op \in {"select", "get_count"} -> Unscoped(c.where, params)
       [] c.op = "model update" -> Update(scope.where, scope.params, c.data)
       [] c.op = "model delete" -> Scoped(scope.where, scope.params)
       [] c.op = "jsonb insert" -> Jsonb(<<JsonData>>, c.where, params)
       [] c.op = "jsonb update" -> Jsonb(<<JsonPath, JsonData>>, c.where, params)
       [] c.op = "jsonb delete" -> Jsonb(<<<<"json_index">>>>, c.where, params)

Init == call \in Calls /\ stmt = Refused
Next == stmt' = Build(call) /\ UNCHANGED call
Spec == Init /\ [][Next]_vars

--------------------------------------------------------------------------------
(* Properties.                                                             *)

Value == {"data", "param", "json", "own"} \X
           (Name \cup {ObjectId, JsonData, JsonPath, <<"json_index">>})

TypeOK ==
  /\ call \in Call
  /\ stmt.sent \in BOOLEAN
  /\ stmt.places \in Seq([at : Nat \ {0}, means : Value])
  /\ stmt.bound \in Seq(Value)

\* Whatever names the caller's columns and parameters share with each other and
\* with the library's, every placeholder stands for the value that it was written
\* for, and no value is left without its own position.
PlaceholdersMatch ==
  /\ \A i \in DOMAIN stmt.places :
       /\ stmt.places[i].at \in DOMAIN stmt.bound
       /\ stmt.bound[stmt.places[i].at] = stmt.places[i].means
  /\ stmt.sent => Len(stmt.bound) =
       (IF call.op \in {"insert", "update", "update_all", "model update"} THEN Len(call.data) ELSE 0)
     + (IF call.op \in {"insert", "update_all"} THEN 0 ELSE Len(call.params))
     + (IF call.op \in {"model update", "model delete"} /\ call.own THEN 1 ELSE 0)
     + (IF call.op \in {"jsonb insert", "jsonb delete"} THEN 1
        ELSE IF call.op = "jsonb update" THEN 2 ELSE 0)

\* An update or delete of a record with an id compares the id of the row with the
\* record's own, also if the caller's predicate uses the library's names; and the
\* caller's own names still stand for the caller's values.
OwnIdInScope ==
  call.op \in {"model update", "model delete"} /\ call.own /\ stmt.sent =>
    \E i \in DOMAIN stmt.places :
      /\ stmt.places[i].means = <<"own", ObjectId>>
      /\ \A j \in DOMAIN call.where :
           \E k \in DOMAIN stmt.places \ {i} : stmt.places[k].means = <<"param", call.where[j]>>

================================================================================
