------------------------------ MODULE ModelRecord ------------------------------
(***************************************************************************)
(* One Manager of aiohttp_boilerplate/models/__init__.py: the record in    *)
(* memory next to the rows of its table, inside and outside of a           *)
(* transaction, while another session writes the same rows.                *)
(*                                                                         *)
(* A row is its value; a predicate of a `where` is the set of ids that it  *)
(* holds for.  The record is the dictionary `data`: its "id" and its       *)
(* "value", each possibly missing.                                         *)
(***************************************************************************)
EXTENDS Naturals

CONSTANTS
  Id, Value,
  None,       \* a key that is not in data, a row that is not in the table
  MaxCalls    \* bound: calls of the application

ConstantsAssumption ==
  /\ None \notin Id \cup Value
  /\ MaxCalls \in Nat

VARIABLES
  table,    \* the rows that the session sees
  saved,    \* the rows that a rollback restores
  inside,   \* is a transaction open
  data,     \* Manager.data
  home,     \* history: the row that data was loaded from or inserted as
  excuse,   \* history: why data may differ from its row
  wrote,    \* history: rows that the last write changed, its where and its home
  calls

vars == <<table, saved, inside, data, home, excuse, wrote, calls>>

Row == Value \cup {None}
Data == [id : Id \cup {None}, value : Row]
Excuse == {"assigned", "matched nothing", "rolled back", "other session", "id written"}
Empty == [id |-> None, value |-> None]
Nothing == [rows |-> {}, where |-> {}, home |-> None]

Init ==
  /\ table \in [Id -> Row] /\ saved = table /\ inside = FALSE
  /\ data = Empty /\ home = None /\ excuse = {} /\ wrote = Nothing /\ calls = 0

Call == calls < MaxCalls /\ calls' = calls + 1
Store(rows) == table' = rows /\ saved' = IF inside THEN saved ELSE rows
Keep == UNCHANGED <<table, saved, wrote>>

\* set_data replaces the state of the model, also by an empty result.
SetData(d) == data' = d /\ home' = d.id /\ excuse' = {}

\* select with any predicate: the first of its rows, if there is one; get_by_id
\* and get_by raise after an empty one, with the record emptied.
Select(where) ==
  LET found == {i \in where : table[i] # None}
  IN /\ Call /\ Keep /\ UNCHANGED inside
     /\ \/ \E i \in found : SetData([id |-> i, value |-> table[i]])
        \/ found = {} /\ SetData(Empty)

\* insert: the row that RETURNING gives is merged over the data.
Insert(i, v) ==
  /\ Call /\ table[i] = None
  /\ Store([table EXCEPT ![i] = v]) /\ SetData([id |-> i, value |-> v])
  /\ wrote' = [rows |-> {i}, where |-> {i}, home |-> i] /\ UNCHANGED inside

\* insert with ON CONFLICT DO NOTHING returns no row: the data has no id.
InsertNothing(i, v) ==
  /\ Call /\ table[i] # None
  /\ data' = [id |-> None, value |-> v] /\ home' = None /\ excuse' = {}
  /\ Keep /\ UNCHANGED inside

\* Mutant of Scope: the predicate of the caller or the id, not both.
Scope_Or(where) == IF data.id = None THEN where ELSE where \cup {data.id}

\* _write_scope: the predicate of the caller and the record's own id.
Scope(where) == IF data.id = None THEN where ELSE where \cap {data.id}

\* Without a predicate there must be an id; the empty set stands for no where.
Scoped(where) == where # {} \/ data.id # None
Where(where) == IF where = {} THEN Id ELSE where
Matched(where) == {i \in Scope(Where(where)) : table[i] # None}
Wrote(rows, where) ==
  wrote' = IF "id written" \in excuse THEN Nothing
           ELSE [rows |-> rows, where |-> where, home |-> home]

\* update: the data is merged after the statement, whatever it matched.
Update(where, v) ==
  LET rows == Matched(where)
  IN /\ Call /\ Scoped(where)
     /\ Store([i \in Id |-> IF i \in rows THEN v ELSE table[i]]) /\ Wrote(rows, where)
     /\ data' = [data EXCEPT !.value = v]
     /\ excuse' = IF home \in rows THEN excuse \ {"assigned"} ELSE excuse \cup {"matched nothing"}
     /\ UNCHANGED <<inside, home>>

\* update of the id itself: the row moves, and the record with it, unless it
\* matched nothing: then the record alone.
UpdateId(where, j) ==
  LET rows == Matched(where)
  IN /\ Call /\ Scoped(where) /\ data.id # None /\ table[j] = None
     /\ Store([i \in Id |-> IF i = j /\ rows # {} THEN table[data.id]
                            ELSE IF i \in rows THEN None ELSE table[i]])
     /\ wrote' = Nothing
     /\ data' = [data EXCEPT !.id = j]
     /\ IF rows # {} /\ ~inside
          THEN home' = j /\ excuse' = excuse
          ELSE home' = home /\ excuse' = excuse \cup {"id written"}
     /\ UNCHANGED inside

\* Mutant of UpdateFails: the data is merged before the statement.
UpdateFails_Merged(v) ==
  Call /\ data' = [data EXCEPT !.value = v] /\ Keep /\ UNCHANGED <<inside, home, excuse>>

\* The statement of an insert, update or delete raises, or the scope is refused:
\* the record is as it was.
UpdateFails(v) == Call /\ Keep /\ UNCHANGED <<inside, data, home, excuse>>

\* delete empties the record, whatever it matched.
Delete(where) ==
  LET rows == Matched(where)
  IN /\ Call /\ Scoped(where)
     /\ Store([i \in Id |-> IF i \in rows THEN None ELSE table[i]]) /\ Wrote(rows, where)
     /\ SetData(Empty) /\ UNCHANGED inside

\* update_all leaves the record alone, delete_all empties it.
UpdateAll(v) ==
  /\ Call /\ Store([i \in Id |-> IF table[i] = None THEN None ELSE v]) /\ wrote' = Nothing
  /\ excuse' = excuse \cup {"other session"} /\ UNCHANGED <<inside, data, home>>
DeleteAll ==
  /\ Call /\ Store([i \in Id |-> None]) /\ wrote' = Nothing
  /\ SetData(Empty) /\ UNCHANGED inside

\* __setattr__ of a key that the data has.
Assign(v) ==
  /\ Call /\ data.value # None /\ data' = [data EXCEPT !.value = v]
  /\ excuse' = excuse \cup {"assigned"} /\ Keep /\ UNCHANGED <<inside, home>>

Begin == Call /\ ~inside /\ inside' = TRUE /\ Keep /\ UNCHANGED <<data, home, excuse>>

Commit ==
  /\ inside /\ inside' = FALSE /\ saved' = table
  /\ UNCHANGED <<table, data, home, excuse, wrote, calls>>

Rollback ==
  /\ inside /\ inside' = FALSE /\ table' = saved /\ wrote' = Nothing
  /\ excuse' = IF saved = table THEN excuse ELSE excuse \cup {"rolled back"}
  /\ UNCHANGED <<saved, data, home, calls>>

\* Another session commits a change of a row that the transaction has not written.
Other(i, v) ==
  /\ Call /\ table[i] = saved[i]
  /\ table' = [table EXCEPT ![i] = v] /\ saved' = [saved EXCEPT ![i] = v]
  /\ excuse' = excuse \cup {"other session"} /\ UNCHANGED <<inside, data, home, wrote>>

Finished == calls = MaxCalls /\ ~inside /\ UNCHANGED vars

Next ==
  \/ \E where \in SUBSET Id, v \in Value :
       Select(where) \/ Update(where, v) \/ Delete(where)
  \/ \E where \in SUBSET Id, j \in Id : UpdateId(where, j)
  \/ \E i \in Id, v \in Value : Insert(i, v) \/ InsertNothing(i, v)
  \/ \E v \in Value : UpdateFails(v) \/ UpdateAll(v) \/ Assign(v)
  \/ \E i \in Id, v \in Row : Other(i, v)
  \/ DeleteAll \/ Begin \/ Commit \/ Rollback \/ Finished

Spec == Init /\ [][Next]_vars

--------------------------------------------------------------------------------
(* Properties.                                                             *)

TypeOK ==
  /\ table \in [Id -> Row] /\ saved \in [Id -> Row] /\ inside \in BOOLEAN
  /\ data \in Data /\ home \in Id \cup {None} /\ excuse \subseteq Excuse
  /\ calls \in 0 .. MaxCalls

\* A write of a record that was loaded or inserted changes that row and no other,
\* whatever its predicate; one of a record that was not (or was emptied by a
\* reload that found nothing, or by delete) changes what its predicate names.
\* Exempt is a record whose id was updated by a statement that matched nothing, or
\* in a transaction: the row did not, or need not, follow.
WritesStayHome ==
  wrote.rows \subseteq
    IF wrote.home = None THEN wrote.where ELSE Where(wrote.where) \cap {wrote.home}

\* The record equals its row unless something says otherwise: an assignment not
\* yet saved, a write that matched nothing, a rollback, or another session.  So a
\* failed statement leaves no trace in memory.
MemoryIsRow ==
  data.id # None /\ excuse = {} => data.id = home /\ data.value = table[home]

================================================================================
