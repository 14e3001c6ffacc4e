-------------------------------- MODULE MC_Data --------------------------------
(***************************************************************************)
(* Data on its instances, and one part more, whose operators are           *)
(* recursive:                                                              *)
(*   pages       three rows of two ranks, pages of up to two               *)
(*   keys        two varying headers, texts with separators                *)
(*   record      two ids and two values, which are alike                   *)
(*   statements  at most two names in each place of a call                 *)
(*   body        one field of the body and one of a header                 *)
(*   schema      two origins, every view, every request                    *)
(*   rows        SchemaRows: up to two levels of joins, two fields on each *)
(***************************************************************************)
EXTENDS Data, Sequences, SequencesExt, TLC

CONSTANTS
  Attributes,      \* sources of a column that has another name
  i1, i2, v1, v2   \* of ModelRecord

Distinct(S, n) == {s \in BoundedSeq(S, n) : \A i, j \in DOMAIN s : i # j => s[i] # s[j]}

--------------------------------------------------------------------------------
(* Pages: every kind of parameter, also those that are refused.            *)

MCLimits == {Absent, NotANumber, 0 - 1, 0, 1, 5}
MCOffsets == {Absent, NotANumber, 0 - 1, 0, 1}
Order(f, d) == [field |-> f, direction |-> d]
MCOrders == {Absent, Order("id", "asc"), Order("id", "desc"), Order("rank", "desc"),
             Order("rank", "up"), Order("name", "asc")}

(* Keys: texts that hold separators where keys of different requests meet. *)

A == <<"a">>
And == <<"&">>
Between == <<And, <<"y">>, <<"=">>>>

MCCharacter == {<<c>> : c \in {"a", "x", "y", "|", "&", "="}}
MCPath == {<<A>>, <<A, <<"|">>, A>>}
MCItems == {<<>>, << <<1, 1>> >>, << <<1, 2>>, <<1, 1>> >>}
             \cup {<< <<1, 1>>, <<1, 1>> >>, << <<1, 1>>, <<1, 2>> >>}
MCHeader == << << <<"x">> >>, << <<"y">> >> >>
MCHeaderValue == {<<>>, <<A>>, <<A>> \o Between, Between, <<A, <<"|">>, A>>}
MCIdentity == {<<A>>, <<A, <<"|">>, A>>}

(* Records and statements.                                                 *)

Alike == Permutations({i1, i2}) \cup Permutations({v1, v2})

CallName == {A, <<"a", 1>>, <<"__object_id">>, <<"json_data">>}
NoName == <<"a b">>
MCName == CallName \cup {NoName}
MCInvalid == {NoName}
MCCalls ==
  [op : {"insert", "update", "update_all", "delete", "select", "is_exists", "get_count",
         "model update", "model delete", "jsonb insert", "jsonb update", "jsonb delete"},
   data : Distinct({A, <<"a", 1>>, NoName}, 2), where : Distinct(CallName, 2),
   params : Distinct(CallName \cup {NoName}, 2), own : BOOLEAN]

--------------------------------------------------------------------------------
(* Schemas: every pair of fields of tables that are joined once, and plain *)
(* columns around a join inside of a join.                                 *)

id == <<"id">>
identity == <<"identity">>

FieldOf(name, kind, nested) == [name |-> name, kind |-> kind, source |-> name, nested |-> nested]
Leaf == {FieldOf(n, k, <<>>) : n \in {id, A},
                             k \in {"column", "expression", "load_only", "not_db", "computed"}}
   \cup {[FieldOf(A, "column", <<>>) EXCEPT !.source = s] : s \in Attributes}
Join(S) == {FieldOf(<<n>>, "join", s) : n \in {"x", "y"}, s \in S}
SchemaOf(F) == {s \in BoundedSeq(F, 2) :
                  s # <<>> /\ \A i, j \in DOMAIN s : i # j => s[i].name # s[j].name}
Plain == {f \in Leaf : f.kind = "column"}
Middle == {s \in SchemaOf(Plain \cup Join({<<f>> : f \in Plain})) : s[1].kind = "join"}

DbName == {<<"db_name">>}

VARIABLES view, rows, select, objects \* rows; it has schema, answer and pc of Data

Rows == INSTANCE SchemaRows WITH
  Schemas <- SchemaOf(Leaf \cup Join({<<f>> : f \in Leaf})) \cup SchemaOf(Plain \cup Join(Middle)),
  IdLike <- {identity, <<"expression", id>>}, MaxRows <- 2

MCInit ==
  \/ Init /\ view = 0 /\ rows = 0 /\ select = 0 /\ objects = 0
  \/ /\ part = "rows" /\ Rows!Init
     /\ table = 0 /\ data = 0 /\ call = 0 /\ request = 0
     /\ query = 0 /\ page = 0 /\ count = 0 /\ seen = 0 /\ writes = 0
     /\ stored = 0 /\ NoRecord /\ stmt = 0 /\ parsed = 0 /\ NoSchema

MCNext ==
  \/ Next /\ UNCHANGED <<view, rows, select, objects>>
  \/ /\ part = "rows" /\ Rows!Next
     /\ UNCHANGED <<part, table, data, call, request, query, page, count, seen, writes,
                    stored, record, stmt, parsed, schemas>>

MCSpec == MCInit /\ [][MCNext]_<<vars, view, rows, select, objects>>

\* A read answers the row's value of every field that its schema selects, in its place.
SelectedIsAnswered == part = "rows" => Rows!SelectedIsAnswered

\* Retrieve and list views answer every row that exists, with the value of every field
\* that the schema selects; no column of their statement hides another, and each comes
\* from its own join.
RowsAreAnswered ==
  part = "rows" => Rows!SelectedIsAnswered /\ Rows!FoundIsAnswered /\ Rows!ColumnsApart

================================================================================
