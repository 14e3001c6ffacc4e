------------------------------- MODULE SchemaRows -------------------------------
(***************************************************************************)
(* Reading through a schema: aiohttp_boilerplate/views/options.py and      *)
(* views/retrieve.py build the columns and joins of a SELECT from a        *)
(* marshmallow schema, make nested objects of its rows and dump them with  *)
(* the same schema.  views/list.py does it for many rows.                  *)
(*                                                                         *)
(* A schema is a sequence of fields; a JoinNested field holds the schema   *)
(* of another table.  A name is the tuple of its parts between "__".  The  *)
(* value of a column is named by its row, its table's path and its source. *)
(* A table alias is its number.                                            *)
(***************************************************************************)
EXTENDS Naturals, Sequences, SequencesExt

CONSTANTS
  Schemas,  \* the schemas of the views
  IdLike,   \* sources that make "t0.id" a part of their column's text
  MaxRows   \* rows that a select may find

VARIABLES
  schema,  \* the view's schema
  view,    \* "retrieve" or "list"
  rows,    \* rows that the where matches
  select,  \* columns and join paths of the statement
  objects, \* data of the model, or of the list's models
  answer,  \* dumped objects
  pc

vars == <<schema, view, rows, select, objects, answer, pc>>

\* "missing" is load_only or db_field=False, "computed" a Method, Function or
\* Constant, "join" a JoinNested.  source is attribute or name; an "expression" is
\* a db_field text, which get_data does not know of.
Kind == {"column", "expression", "load_only", "not_db", "computed", "join"}
Id == <<"id">>
Null == <<"null">>
Expression(f) == <<"expression", f.name>>
Selected(f) == f.kind \in {"column", "expression"}
Nothing == [next |-> 1, columns |-> <<>>, paths |-> <<>>]

Init ==
  /\ schema \in Schemas
  /\ view \in {"retrieve", "list"}
  /\ rows \in 0 .. MaxRows
  /\ select = Nothing /\ objects = <<>> /\ answer = <<>>
  /\ pc = "start"

\* The visible part of what a join's alias stands for: the path of its objects.
PathOf(s, alias) == IF alias = 0 THEN <<>> ELSE s.paths[alias]

Column(s, alias, f) ==
  [s EXCEPT !.columns = Append(@, [alias |-> alias, name |-> f.name,
     source |-> IF f.kind = "expression" THEN Expression(f) ELSE f.source])]

\* The next alias of the allocator, for the table at a path.
Joined(s, path) == [s EXCEPT !.next = @ + 1, !.paths = Append(@, path)]

\* Mutant of Visit: an alias counts the depth of its join.
RECURSIVE Visit_ByDepth(_, _, _, _)
Visit_ByDepth(fields, alias, path, start) ==
  FoldLeft(LAMBDA s, f :
    IF f.kind = "join"
      THEN Visit_ByDepth(f.nested, Len(path) + 1, Append(path, f.name),
                         Joined(s, Append(path, f.name)))
      ELSE IF Selected(f) THEN Column(s, alias, f) ELSE s,
    start, fields)

\* visit of add_fields_from_schema: a join is numbered before those inside of it.
RECURSIVE Visit(_, _, _, _)
Visit(fields, alias, path, start) ==
  FoldLeft(LAMBDA s, f :
    IF f.kind = "join"
      THEN Visit(f.nested, s.next, Append(path, f.name), Joined(s, Append(path, f.name)))
      ELSE IF Selected(f) THEN Column(s, alias, f) ELSE s,
    start, fields)

\* Mutant of WithId: the id is never added.
WithId_Never(s) == s

\* RetrieveView: "id is required for single object"; the test is one of text.
WithId(s) ==
  IF \E i \in DOMAIN s.columns :
       s.columns[i].alias = 0 /\ s.columns[i].source \in {Id} \cup IdLike
    THEN s ELSE Column(s, 0, [name |-> Id, kind |-> "column", source |-> Id])

\* join_prepare_fields, and perform_get of a single object.
Prepare ==
  /\ pc = "start" /\ pc' = "select"
  /\ select' = LET s == Visit(schema, 0, <<>>, Nothing)
               IN IF view = "retrieve" THEN WithId(s) ELSE s
  /\ UNCHANGED <<schema, view, rows, objects, answer>>

\* What PostgreSQL answers for a column of a row.
Value(row, path, source) == <<row, path, source>>

\* Mutant of Object: the alias's path is not followed.
Object_Flat(row) ==
  FoldLeft(LAMBDA object, c :
      [at \in DOMAIN object \cup {<<<<Head(c.name)>>>>} |->
         IF at = <<<<Head(c.name)>>>> THEN Value(row, PathOf(select, c.alias), c.source)
         ELSE object[at]],
    <<>>, select.columns)

\* join_beautiful_output: nested objects, as a function of their paths.  The label
\* alias__name is split again; a later column of the same label wins.
Object(row) ==
  FoldLeft(LAMBDA object, c :
      LET place == Append(PathOf(select, c.alias), <<Head(c.name)>>)
      IN [at \in DOMAIN object \cup {place} |->
            IF at = place THEN Value(row, PathOf(select, c.alias), c.source) ELSE object[at]],
    <<>>, select.columns)

\* fetchrow gives the first row, fetch every row; set_data keeps them.
Fetch ==
  /\ pc = "select" /\ pc' = "fetched"
  /\ objects' = [i \in 1 .. (IF view = "list" \/ rows = 0 THEN rows ELSE 1) |-> Object(i)]
  /\ UNCHANGED <<schema, view, rows, select, answer>>

Identified == objects # <<>> /\ <<Id>> \in DOMAIN objects[1]

\* A single object without an id is not found.
NotFound ==
  /\ pc = "fetched" /\ view = "retrieve" /\ ~Identified
  /\ pc' = "not found"
  /\ UNCHANGED <<schema, view, rows, select, objects, answer>>

Has(object, path) == \E at \in DOMAIN object : IsPrefix(path, at)

\* get_data and schema.dump: <<path, value>> of every value that is answered.  On
\* top, what the object does not have is None; below, it is left out.
RECURSIVE Dump(_, _, _, _)
Dump(fields, object, from, to) ==
  UNION {LET f == fields[i]
             source == Append(from, f.source)
             place == Append(to, f.name)
         IN IF f.kind \in {"load_only", "computed"} THEN {}
            ELSE IF ~Has(object, source)
              THEN IF from = <<>> THEN {<<place, Null>>} ELSE {}
            ELSE IF f.kind = "join" THEN Dump(f.nested, object, source, place)
            ELSE {<<place, object[source]>>}
         : i \in DOMAIN fields}

Answer ==
  /\ pc = "fetched" /\ pc' = "answered"
  /\ view = "retrieve" => Identified
  /\ answer' = [i \in DOMAIN objects |-> Dump(schema, objects[i], <<>>, <<>>)]
  /\ UNCHANGED <<schema, view, rows, select, objects>>

Next == Prepare \/ Fetch \/ NotFound \/ Answer
Spec == Init /\ [][Next]_vars

--------------------------------------------------------------------------------
(* Properties.                                                             *)

\* Where the fields that a schema selects are answered, and from what.
RECURSIVE Wanted(_, _)
Wanted(fields, path) ==
  UNION {LET f == fields[i]
         IN IF f.kind = "join" THEN Wanted(f.nested, Append(path, f.name))
            ELSE IF f.kind = "column" THEN {[path |-> path, name |-> f.name, source |-> f.source]}
            ELSE IF f.kind = "expression"
              THEN {[path |-> path, name |-> f.name, source |-> Expression(f)]}
            ELSE {}
         : i \in DOMAIN fields}

\* "dump honors attribute" (tests/test_schema_cache_fixture.py:105): the answer to a
\* read has the row's value of every field that the schema selects, in its place.
SelectedIsAnswered ==
  pc = "answered" =>
    \A i \in DOMAIN answer : \A w \in Wanted(schema, <<>>) :
      <<Append(w.path, w.name), Value(i, w.path, w.source)>> \in answer[i]

\* Every row of the list is answered, a single object if it exists:
\* "id is required for single object" (views/retrieve.py:29).
FoundIsAnswered ==
  /\ pc = "not found" => rows = 0
  /\ pc = "answered" /\ view = "list" => Len(answer) = rows

\* Two columns of one statement have different labels, so that none of them hides
\* the other, and each belongs to the join of its own path.
ColumnsApart ==
  /\ \A i, j \in DOMAIN select.columns :
       i # j => <<select.columns[i].alias, select.columns[i].name>>
             # <<select.columns[j].alias, select.columns[j].name>>
  /\ \A i, j \in DOMAIN select.paths : i # j => select.paths[i] # select.paths[j]
  /\ \A i \in DOMAIN select.columns : select.columns[i].alias \in 0 .. Len(select.paths)

================================================================================
