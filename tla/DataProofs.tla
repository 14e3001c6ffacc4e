------------------------------- MODULE DataProofs -------------------------------
(***************************************************************************)
(* Theorems about the parts of Data that hold a record, page through a     *)
(* list, load a request's body and answer a browser, for every value of    *)
(* their constants.                                                        *)
(***************************************************************************)
EXTENDS Data, FiniteSetTheorems, SequenceTheorems, TLAPS

(***************************************************************************)
(* ModelRecord: the inductive invariant.                                   *)
(***************************************************************************)

\* Unless the id was written past its row, the record knows which row it is: what
\* _write_scope adds is the row that the data was loaded from or inserted as.
KnowsItsRow == "id written" \in excuse \/ data.id = home

RecordInv == KnowsItsRow /\ Record!WritesStayHome /\ Record!MemoryIsRow

LEMMA RecordInit ==
  ASSUME Record!ConstantsAssumption, Record!Init PROVE Record!TypeOK /\ RecordInv
  <1>1. Record!TypeOK
    <2>1. data \in Record!Data /\ excuse \subseteq Record!Excuse
      BY DEF Record!Init, Record!Data, Record!Row, Record!Empty
    <2>2. calls \in 0 .. MaxCalls
      BY DEF Record!ConstantsAssumption, Record!Init
    <2> QED
      BY <2>1, <2>2 DEF Record!Init, Record!TypeOK
  <1>2. RecordInv
    BY DEF Record!Init, RecordInv, KnowsItsRow, Record!WritesStayHome, Record!MemoryIsRow,
           Record!Empty, Record!Nothing
  <1> QED
    BY <1>1, <1>2

(***************************************************************************)
(* The operators of the module.                                            *)
(***************************************************************************)

LEMMA CallType ==
  ASSUME Record!ConstantsAssumption, Record!TypeOK, Record!Call PROVE calls' \in 0 .. MaxCalls
  BY DEF Record!ConstantsAssumption, Record!TypeOK, Record!Call

LEMMA StoreType ==
  ASSUME Record!TypeOK, NEW rows \in [RecordId -> Record!Row], Record!Store(rows), UNCHANGED inside
  PROVE  /\ table' = rows /\ table' \in [RecordId -> Record!Row] /\ saved' \in [RecordId -> Record!Row]
         /\ inside' \in BOOLEAN
  BY DEF Record!TypeOK, Record!Store

\* A write matches rows of its predicate, and only the record's if it has an id.
LEMMA MatchedRows ==
  ASSUME Record!TypeOK, NEW where \in SUBSET RecordId
  PROVE  /\ Record!Matched(where) \subseteq RecordId /\ Record!Matched(where) \subseteq Record!Where(where)
         /\ data.id # None => Record!Matched(where) \subseteq {data.id}
  BY DEF Record!TypeOK, Record!Matched, Record!Scope, Record!Where

\* What a write reports of itself stays at home.
LEMMA WroteHome ==
  ASSUME Record!TypeOK, KnowsItsRow, NEW where \in SUBSET RecordId, Record!Scoped(where),
         Record!Wrote(Record!Matched(where), where)
  PROVE  Record!WritesStayHome'
  <1>1. CASE "id written" \in excuse
    BY <1>1 DEF Record!Wrote, Record!Nothing, Record!WritesStayHome
  <1>2. CASE "id written" \notin excuse
    <2>1. wrote' = [rows |-> Record!Matched(where), where |-> where, home |-> home]
      BY <1>2 DEF Record!Wrote
    <2>2. CASE home = None
      <3>1. Record!Matched(where) \subseteq where
        BY <1>2, <2>2, MatchedRows DEF KnowsItsRow, Record!Scoped, Record!Where
      <3> QED
        BY <2>1, <2>2, <3>1 DEF Record!WritesStayHome
    <2>3. CASE home # None
      BY <1>2, <2>1, <2>3, MatchedRows DEF KnowsItsRow, Record!WritesStayHome, Record!Where
    <2> QED
      BY <2>2, <2>3
  <1> QED
    BY <1>1, <1>2

(***************************************************************************)
(* The calls.                                                              *)
(***************************************************************************)

LEMMA SelectStep ==
  ASSUME Record!ConstantsAssumption, Record!TypeOK, RecordInv, NEW where \in SUBSET RecordId,
         Record!Select(where)
  PROVE  Record!TypeOK' /\ RecordInv'
  <1>1. PICK d \in Record!Data :
          /\ Record!SetData(d)
          /\ d.id # None => d.id \in RecordId /\ d.value = table[d.id]
    BY DEF Record!Select, Record!SetData, Record!TypeOK, Record!Data, Record!Row, Record!Empty
  <1>2. UNCHANGED <<table, saved, wrote, inside>>
    BY DEF Record!Select, Record!Keep
  <1>3. data' = d /\ home' = d.id /\ excuse' = {}
    BY <1>1 DEF Record!SetData
  <1>4. Record!TypeOK'
    BY <1>2, <1>3, CallType DEF Record!Select, Record!TypeOK, Record!Data
  <1>5. RecordInv'
    BY <1>1, <1>2, <1>3 DEF RecordInv, KnowsItsRow, Record!WritesStayHome, Record!MemoryIsRow,
                            Record!Where
  <1> QED
    BY <1>4, <1>5

LEMMA InsertStep ==
  ASSUME Record!ConstantsAssumption, Record!TypeOK, RecordInv, NEW i \in RecordId,
         NEW v \in RecordValue,
         Record!Insert(i, v)
  PROVE  Record!TypeOK' /\ RecordInv'
  <1>1. [table EXCEPT ![i] = v] \in [RecordId -> Record!Row]
    BY DEF Record!TypeOK, Record!Row
  <1>2. /\ table' = [table EXCEPT ![i] = v] /\ table' \in [RecordId -> Record!Row] /\ saved' \in [RecordId -> Record!Row]
        /\ inside' \in BOOLEAN
    BY <1>1, StoreType DEF Record!Insert
  <1>3. /\ data' = [id |-> i, value |-> v] /\ home' = i /\ excuse' = {}
        /\ wrote' = [rows |-> {i}, where |-> {i}, home |-> i]
    BY DEF Record!Insert, Record!SetData
  <1>4. Record!TypeOK'
    BY <1>2, <1>3, CallType DEF Record!Insert, Record!TypeOK, Record!Data, Record!Row
  <1>5. table'[i] = v
    BY <1>2 DEF Record!TypeOK
  <1>6. RecordInv'
    BY <1>3, <1>5 DEF RecordInv, KnowsItsRow, Record!WritesStayHome, Record!MemoryIsRow,
                      Record!Where
  <1> QED
    BY <1>4, <1>6

LEMMA UpdateStep ==
  ASSUME Record!ConstantsAssumption, Record!TypeOK, RecordInv, NEW where \in SUBSET RecordId,
         NEW v \in RecordValue,
         Record!Update(where, v)
  PROVE  Record!TypeOK' /\ RecordInv'
  <1> DEFINE rows == Record!Matched(where)
             after == [i \in RecordId |-> IF i \in rows THEN v ELSE table[i]]
  <1>1. after \in [RecordId -> Record!Row]
    BY DEF Record!TypeOK, Record!Row
  <1>2. /\ table' = after /\ table' \in [RecordId -> Record!Row] /\ saved' \in [RecordId -> Record!Row]
        /\ inside' \in BOOLEAN
    BY <1>1, StoreType DEF Record!Update
  <1>3. data' = [data EXCEPT !.value = v] /\ home' = home
    BY DEF Record!Update
  <1>4. data \in Record!Data
    BY DEF Record!TypeOK
  <1>5. data' \in Record!Data /\ data'.id = data.id /\ data'.value = v
    BY <1>3, <1>4 DEF Record!Data, Record!Row
  <1>6. excuse' = IF home \in rows THEN excuse \ {"assigned"} ELSE excuse \cup {"matched nothing"}
    BY DEF Record!Update
  <1>7. Record!TypeOK'
    BY <1>2, <1>3, <1>5, <1>6, CallType DEF Record!Update, Record!TypeOK, Record!Excuse
  <1>8. KnowsItsRow'
    BY <1>3, <1>5, <1>6 DEF RecordInv, KnowsItsRow
  <1>9. Record!WritesStayHome'
    BY WroteHome DEF RecordInv, Record!Update
  <1>10. Record!MemoryIsRow'
    <2> SUFFICES ASSUME data'.id # None, excuse' = {}
                 PROVE  data'.id = home' /\ data'.value = table'[home']
      BY DEF Record!MemoryIsRow
    <2>1. home \in rows /\ data.id = home
      BY <1>6, <1>8, <1>3, <1>5 DEF KnowsItsRow
    <2>2. home \in RecordId
      BY <2>1, MatchedRows
    <2> QED
      BY <1>2, <1>3, <1>5, <2>1, <2>2
  <1> QED
    BY <1>7, <1>8, <1>9, <1>10 DEF RecordInv

LEMMA UpdateIdStep ==
  ASSUME Record!ConstantsAssumption, Record!TypeOK, RecordInv, NEW where \in SUBSET RecordId,
         NEW j \in RecordId,
         Record!UpdateId(where, j)
  PROVE  Record!TypeOK' /\ RecordInv'
  <1> DEFINE rows == Record!Matched(where)
             after == [i \in RecordId |-> IF i = j /\ rows # {} THEN table[data.id]
                                           ELSE IF i \in rows THEN None ELSE table[i]]
  <1>1. data \in Record!Data /\ data.id \in RecordId
    BY DEF Record!TypeOK, Record!UpdateId, Record!Data
  <1>2. after \in [RecordId -> Record!Row]
    BY <1>1 DEF Record!TypeOK, Record!Row
  <1>3. /\ table' = after /\ table' \in [RecordId -> Record!Row] /\ saved' \in [RecordId -> Record!Row]
        /\ inside' \in BOOLEAN
    BY <1>2, StoreType DEF Record!UpdateId
  <1>4. data' = [data EXCEPT !.id = j] /\ wrote' = Record!Nothing
    BY DEF Record!UpdateId
  <1>5. data' \in Record!Data /\ data'.id = j /\ data'.value = data.value
    BY <1>1, <1>4 DEF Record!Data
  <1>6. \/ rows # {} /\ home' = j /\ excuse' = excuse
        \/ home' = home /\ excuse' = excuse \cup {"id written"}
    BY DEF Record!UpdateId
  <1>7. Record!TypeOK'
    BY <1>3, <1>5, <1>6, CallType DEF Record!UpdateId, Record!TypeOK, Record!Excuse
  <1>8. KnowsItsRow' /\ Record!WritesStayHome'
    BY <1>4, <1>5, <1>6 DEF KnowsItsRow, Record!WritesStayHome, Record!Nothing
  <1>9. Record!MemoryIsRow'
    <2> SUFFICES ASSUME excuse' = {} PROVE data'.id = home' /\ data'.value = table'[home']
      BY DEF Record!MemoryIsRow
    <2>1. rows # {} /\ home' = j /\ excuse = {}
      BY <1>6
    <2>2. data.value = table[data.id]
      BY <1>1, <2>1 DEF RecordInv, Record!MemoryIsRow, Record!ConstantsAssumption
    <2> QED
      BY <1>3, <1>5, <2>1, <2>2
  <1> QED
    BY <1>7, <1>8, <1>9 DEF RecordInv

LEMMA DeleteStep ==
  ASSUME Record!ConstantsAssumption, Record!TypeOK, RecordInv, NEW where \in SUBSET RecordId,
         Record!Delete(where)
  PROVE  Record!TypeOK' /\ RecordInv'
  <1> DEFINE after == [i \in RecordId |-> IF i \in Record!Matched(where) THEN None ELSE table[i]]
  <1>1. after \in [RecordId -> Record!Row]
    BY DEF Record!TypeOK, Record!Row
  <1>2. /\ table' = after /\ table' \in [RecordId -> Record!Row] /\ saved' \in [RecordId -> Record!Row]
        /\ inside' \in BOOLEAN
    BY <1>1, StoreType DEF Record!Delete
  <1>3. data' = Record!Empty /\ home' = None /\ excuse' = {}
    BY DEF Record!Delete, Record!SetData, Record!Empty
  <1>4. Record!TypeOK'
    BY <1>2, <1>3, CallType DEF Record!Delete, Record!TypeOK, Record!Data, Record!Row, Record!Empty
  <1>5. Record!WritesStayHome'
    BY WroteHome DEF RecordInv, Record!Delete
  <1>6. KnowsItsRow' /\ Record!MemoryIsRow'
    BY <1>3 DEF KnowsItsRow, Record!MemoryIsRow, Record!Empty
  <1> QED
    BY <1>4, <1>5, <1>6 DEF RecordInv

\* update_all and delete_all: whole-table writes name no row of the record.
LEMMA TableStep ==
  ASSUME Record!ConstantsAssumption, Record!TypeOK, RecordInv,
         (\E v \in RecordValue : Record!UpdateAll(v)) \/ Record!DeleteAll
  PROVE  Record!TypeOK' /\ RecordInv'
  <1>1. PICK after \in [RecordId -> Record!Row] : Record!Store(after)
    <2>1. CASE Record!DeleteAll
      <3>1. [i \in RecordId |-> None] \in [RecordId -> Record!Row]
        BY DEF Record!Row
      <3> QED
        BY <2>1, <3>1 DEF Record!DeleteAll
    <2>2. ASSUME NEW v \in RecordValue, Record!UpdateAll(v) PROVE \E s \in [RecordId -> Record!Row] : Record!Store(s)
      <3>1. [i \in RecordId |-> IF table[i] = None THEN None ELSE v] \in [RecordId -> Record!Row]
        BY DEF Record!Row
      <3> QED
        BY <2>2, <3>1 DEF Record!UpdateAll
    <2> QED
      BY <2>1, <2>2
  <1>2. Record!Call /\ UNCHANGED inside /\ wrote' = Record!Nothing
    BY DEF Record!UpdateAll, Record!DeleteAll
  <1>3. table' \in [RecordId -> Record!Row] /\ saved' \in [RecordId -> Record!Row] /\ inside' \in BOOLEAN
    BY <1>1, <1>2, StoreType
  <1>4. \/ data' = Record!Empty /\ home' = None /\ excuse' = {}
        \/ data' = data /\ home' = home /\ excuse' = excuse \cup {"other session"}
    BY DEF Record!UpdateAll, Record!DeleteAll, Record!SetData, Record!Empty
  <1>5. Record!TypeOK'
    <2>1. Record!Empty \in Record!Data
      BY DEF Record!Empty, Record!Data, Record!Row
    <2>2. data' \in Record!Data /\ home' \in RecordId \cup {None}
      BY <1>4, <2>1 DEF Record!TypeOK
    <2>3. excuse' \subseteq Record!Excuse
      BY <1>4 DEF Record!TypeOK, Record!Excuse
    <2> QED
      BY <1>2, <1>3, <2>2, <2>3, CallType DEF Record!TypeOK
  <1>6. Record!WritesStayHome'
    BY <1>2 DEF Record!WritesStayHome, Record!Nothing
  <1>7. KnowsItsRow' /\ Record!MemoryIsRow'
    <2>1. CASE data' = Record!Empty /\ home' = None
      BY <2>1 DEF KnowsItsRow, Record!MemoryIsRow, Record!Empty
    <2>2. CASE data' = data /\ home' = home /\ excuse' = excuse \cup {"other session"}
      BY <2>2 DEF RecordInv, KnowsItsRow, Record!MemoryIsRow
    <2> QED
      BY <1>4, <2>1, <2>2
  <1> QED
    BY <1>5, <1>6, <1>7 DEF RecordInv

\* Calls that write no row: the insert that does nothing, a failed statement, an
\* assignment to the record.
LEMMA MemoryStep ==
  ASSUME Record!ConstantsAssumption, Record!TypeOK, RecordInv,
         \/ \E i \in RecordId, v \in RecordValue : Record!InsertNothing(i, v)
         \/ \E v \in RecordValue : Record!UpdateFails(v) \/ Record!Assign(v)
  PROVE  Record!TypeOK' /\ RecordInv'
  <1>1. Record!Call /\ UNCHANGED <<table, saved, wrote, inside>>
    BY DEF Record!InsertNothing, Record!UpdateFails, Record!Assign, Record!Keep
  <1>2. \/ data'.id = None /\ data' \in Record!Data /\ home' = None /\ excuse' = {}
        \/ UNCHANGED <<data, home, excuse>>
        \/ /\ data' \in Record!Data /\ data'.id = data.id /\ home' = home
           /\ excuse' = excuse \cup {"assigned"}
    BY DEF Record!InsertNothing, Record!UpdateFails, Record!Assign, Record!TypeOK,
           Record!Data, Record!Row
  <1>3. Record!TypeOK'
    BY <1>1, <1>2, CallType DEF Record!TypeOK, Record!Data, Record!Excuse
  <1>4. RecordInv'
    BY <1>1, <1>2 DEF RecordInv, KnowsItsRow, Record!WritesStayHome, Record!MemoryIsRow,
                      Record!Where
  <1> QED
    BY <1>3, <1>4

\* The transaction around the calls, and the other session.
LEMMA OutsideStep ==
  ASSUME Record!ConstantsAssumption, Record!TypeOK, RecordInv,
         Record!Begin \/ Record!Commit \/ Record!Rollback \/ \E i \in RecordId, v \in Record!Row : Record!Other(i, v)
  PROVE  Record!TypeOK' /\ RecordInv'
  <1>1. data' = data /\ home' = home
    BY DEF Record!Begin, Record!Commit, Record!Rollback, Record!Other
  <1>2. table' \in [RecordId -> Record!Row] /\ saved' \in [RecordId -> Record!Row] /\ inside' \in BOOLEAN
    BY DEF Record!Begin, Record!Commit, Record!Rollback, Record!Other, Record!Keep, Record!TypeOK
  <1>3. calls' \in 0 .. MaxCalls
    BY CallType DEF Record!Begin, Record!Commit, Record!Rollback, Record!Other, Record!TypeOK
  <1>4. wrote' = wrote \/ wrote' = Record!Nothing
    BY DEF Record!Begin, Record!Commit, Record!Rollback, Record!Other, Record!Keep
  <1>5. \/ table' = table /\ excuse' = excuse
        \/ excuse' = excuse \cup {"rolled back"}
        \/ excuse' = excuse \cup {"other session"}
    BY DEF Record!Begin, Record!Commit, Record!Rollback, Record!Other, Record!Keep
  <1>6. Record!TypeOK'
    BY <1>1, <1>2, <1>3, <1>5 DEF Record!TypeOK, Record!Excuse
  <1>7. Record!WritesStayHome'
    BY <1>4 DEF RecordInv, Record!WritesStayHome, Record!Nothing, Record!Where
  <1>8. KnowsItsRow' /\ Record!MemoryIsRow'
    <2>1. CASE table' = table /\ excuse' = excuse
      BY <1>1, <2>1 DEF RecordInv, KnowsItsRow, Record!MemoryIsRow
    <2>2. CASE \E why \in Record!Excuse : excuse' = excuse \cup {why}
      BY <1>1, <2>2 DEF RecordInv, KnowsItsRow, Record!MemoryIsRow
    <2> QED
      BY <1>5, <2>1, <2>2 DEF Record!Excuse
  <1> QED
    BY <1>6, <1>7, <1>8 DEF RecordInv

LEMMA RecordNext ==
  ASSUME Record!ConstantsAssumption, Record!TypeOK, RecordInv, [Record!Next]_(Record!vars)
  PROVE  Record!TypeOK' /\ RecordInv'
  <1>1. CASE UNCHANGED Record!vars
    BY <1>1 DEF Record!vars, Record!TypeOK, RecordInv, KnowsItsRow, Record!WritesStayHome,
                Record!MemoryIsRow, Record!Where
  <1>2. ASSUME NEW where \in SUBSET RecordId, NEW v \in RecordValue,
               Record!Select(where) \/ Record!Update(where, v) \/ Record!Delete(where)
        PROVE  Record!TypeOK' /\ RecordInv'
    BY <1>2, SelectStep, UpdateStep, DeleteStep
  <1>3. ASSUME NEW where \in SUBSET RecordId, NEW j \in RecordId, Record!UpdateId(where, j)
        PROVE  Record!TypeOK' /\ RecordInv'
    BY <1>3, UpdateIdStep
  <1>4. ASSUME NEW i \in RecordId, NEW v \in RecordValue, Record!Insert(i, v)
        PROVE  Record!TypeOK' /\ RecordInv'
    BY <1>4, InsertStep
  <1> QED
    BY <1>1, <1>2, <1>3, <1>4, TableStep, MemoryStep, OutsideStep DEF Record!Next, Record!Finished

(***************************************************************************)
(* ModelRecord: the theorems.                                              *)
(***************************************************************************)

\* Types, and the row that a record stands for, on every sequence of calls.
THEOREM RecordInvariant ==
  ASSUME Record!ConstantsAssumption PROVE Record!Spec => [](Record!TypeOK /\ RecordInv)
  <1>1. Record!Init => Record!TypeOK /\ RecordInv
    BY RecordInit
  <1>2. Record!TypeOK /\ RecordInv /\ [Record!Next]_(Record!vars) => Record!TypeOK' /\ RecordInv'
    BY RecordNext
  <1> QED
    BY <1>1, <1>2, PTL DEF Record!Spec

\* A write of a record that was loaded or inserted changes that row and no other,
\* whatever predicate its caller gives: _write_scope adds the record's own id.
THEOREM WritesStayHomeHolds ==
  ASSUME Record!ConstantsAssumption PROVE Record!Spec => []Record!WritesStayHome
  <1>1. Record!TypeOK /\ RecordInv => Record!WritesStayHome
    BY DEF RecordInv
  <1> QED
    BY <1>1, RecordInvariant, PTL

\* The record equals its row unless an assignment, a write that matched nothing, a
\* rollback or another session is the reason: failed statements leave no trace.
THEOREM MemoryIsRowHolds ==
  ASSUME Record!ConstantsAssumption PROVE Record!Spec => []Record!MemoryIsRow
  <1>1. Record!TypeOK /\ RecordInv => Record!MemoryIsRow
    BY DEF RecordInv
  <1> QED
    BY <1>1, RecordInvariant, PTL

(***************************************************************************)
(* ModelRecord as a part.                                                  *)
(***************************************************************************)

\* A behaviour of Data is one of ModelRecord from its start, or never.
LEMMA DataIsRecord ==
  /\ Spec /\ part = "record" => Record!Spec
  /\ Spec /\ ~(part = "record") => []~(part = "record")
  <1>1. Init /\ part = "record" => Record!Init
    BY DEF Init
  <1>2. [Next]_vars => /\ part = "record" => (part = "record")' /\ [Record!Next]_(Record!vars)
                       /\ ~(part = "record") => ~(part = "record")'
    BY DEF Next, vars, record, Record!vars
  <1> QED
    BY <1>1, <1>2, PTL DEF Spec, Record!Spec

\* Manager: its writes change the record's own row and no other, and the record in
\* memory is its row unless there is a reason that it need not be.
THEOREM RecordIsItsRowHolds == Spec => []RecordIsItsRow
  <1>1. Record!ConstantsAssumption
    BY PartsAssumption
  <1>2. Record!Spec => /\ [](Record!TypeOK /\ RecordInv)
                       /\ []Record!WritesStayHome /\ []Record!MemoryIsRow
    BY <1>1, RecordInvariant, WritesStayHomeHolds, MemoryIsRowHolds
  <1>3. /\ Record!TypeOK /\ RecordInv /\ Record!WritesStayHome /\ Record!MemoryIsRow
           => RecordIsItsRow
        /\ ~(part = "record") => RecordIsItsRow
    BY DEF RecordIsItsRow
  <1> QED
    BY <1>2, <1>3, DataIsRecord, PTL

(***************************************************************************)
(* ListPages.                                                              *)
(***************************************************************************)

\* FiniteSets as ListPages sees it is the same.
LEMMA SameCardinality ==
  ASSUME NEW S
  PROVE  /\ Pages!Cardinality(S) = Cardinality(S) /\ (Pages!IsFiniteSet(S) <=> IsFiniteSet(S))
         /\ Pages!ToSet(S) = {S[i] : i \in DOMAIN S}
  BY DEF Cardinality, Pages!Cardinality, IsFiniteSet, Pages!IsFiniteSet, Pages!ToSet

Size == Cardinality(DOMAIN table)

\* The table holds finitely many rows, the query string what a client may give, and
\* whoever writes uses up a write.
PagesTypeOK ==
  /\ DOMAIN table \subseteq PageRow /\ table \in [DOMAIN table -> PageKey]
  /\ query \in [limit : Limits, offset : Offsets \cup Nat, order : Orders]
  /\ page \in Seq(PageRow) /\ seen \in Seq(PageRow) /\ writes \in 0 .. Writes
  /\ pc \in {"request", "refused", "select", "count", "answered", "walked"}
  /\ pc \notin {"request", "refused"} => ~Pages!Refused(query)

\* Without a write in between and with an order that is total, the pages of a client
\* that has got as many rows as its offset are the first rows of the one order there is.
PagesInv ==
  /\ PagesTypeOK
  /\ Pages!PageFits
  /\ Pages!Total /\ writes = Writes =>
       /\ Len(seen) = Pages!Start(query) /\ pc # "walked" =>
            \A rows \in Pages!Ordered(query.order) : seen = SubSeq(rows, 1, Len(seen)) /\ Len(seen) <= Len(rows)
       /\ pc \in {"count", "answered"} =>
            \E rows \in Pages!Ordered(query.order) : page = Pages!Page(rows, query)
       /\ pc = "answered" => count = Size
       /\ pc = "walked" /\ Pages!Limit(query) > 0 /\ Len(seen) = Pages!Start(query) + Len(page) =>
            seen \in Pages!Ordered(query.order)

LEMMA OrderedFacts ==
  ASSUME Pages!ConstantsAssumption, DOMAIN table \subseteq PageRow,
         NEW order, NEW rows \in Pages!Ordered(order)
  PROVE  /\ rows \in Seq(PageRow) /\ Size \in Nat /\ Len(rows) = Size /\ DOMAIN rows = 1 .. Size
         /\ \A i \in DOMAIN rows : rows[i] \in DOMAIN table
         /\ \A i, j \in DOMAIN rows : i # j => rows[i] # rows[j]
         /\ \A i, j \in DOMAIN rows : i < j => Pages!Before(rows[i], rows[j], order)
         /\ {rows[i] : i \in DOMAIN rows} = DOMAIN table
  <1>1. IsFiniteSet(DOMAIN table) /\ Size \in Nat
    <2>1. IsFiniteSet(PageRow)
      BY SameCardinality DEF Pages!ConstantsAssumption
    <2> QED
      BY <2>1, FS_Subset, FS_CardinalityType DEF Size
  <1>2. /\ rows \in [1 .. Size -> DOMAIN table]
        /\ \A i, j \in 1 .. Size : i # j => rows[i] # rows[j]
    BY SameCardinality DEF Pages!Ordered, Pages!SetToSeqs, Size
  <1>3. \A i, j \in DOMAIN rows : i < j => Pages!Before(rows[i], rows[j], order)
    BY DEF Pages!Ordered
  <1>4. {rows[i] : i \in DOMAIN rows} = DOMAIN table
    <2>1. rows \in Injection(1 .. Size, DOMAIN table)
      BY <1>2 DEF Injection, IsInjective
    <2>2. Cardinality(1 .. Size) = Size
      BY <1>1, FS_Interval
    <2>3. rows \in Surjection(1 .. Size, DOMAIN table)
      BY <1>1, <2>1, <2>2, FS_Injection DEF Size
    <2> QED
      BY <1>2, <2>3 DEF Surjection
  <1>5. rows \in Seq(PageRow) /\ Len(rows) = Size
    BY <1>1, <1>2
  <1> QED
    BY <1>1, <1>2, <1>3, <1>4, <1>5

LEMMA Antisymmetric ==
  ASSUME Pages!ConstantsAssumption, PagesTypeOK, Pages!Total,
         NEW r \in DOMAIN table, NEW s \in DOMAIN table,
         Pages!Before(r, s, query.order), Pages!Before(s, r, query.order)
  PROVE  r = s
  <1>1. r \in Int /\ s \in Int /\ table[r] \in Int /\ table[s] \in Int
    BY DEF Pages!ConstantsAssumption, PagesTypeOK
  <1> QED
    BY <1>1 DEF Pages!Total, Pages!Before

\* In a total order the place of a row is the number of rows before it.
LEMMA PlaceOf ==
  ASSUME Pages!ConstantsAssumption, PagesTypeOK, Pages!Total,
         NEW rows \in Pages!Ordered(query.order), NEW i \in DOMAIN rows
  PROVE  i = 1 + Cardinality({r \in DOMAIN table : r # rows[i] /\ Pages!Before(r, rows[i], query.order)})
  <1> DEFINE earlier == {r \in DOMAIN table : r # rows[i] /\ Pages!Before(r, rows[i], query.order)}
             f == [j \in 1 .. i - 1 |-> rows[j]]
  <1>1. /\ DOMAIN rows = 1 .. Size /\ Size \in Nat /\ i \in 1 .. Size
        /\ \A j \in DOMAIN rows : rows[j] \in DOMAIN table
        /\ \A j, k \in DOMAIN rows : j # k => rows[j] # rows[k]
        /\ \A j, k \in DOMAIN rows : j < k => Pages!Before(rows[j], rows[k], query.order)
        /\ {rows[j] : j \in DOMAIN rows} = DOMAIN table
    BY OrderedFacts DEF PagesTypeOK
  <1>2. \A j \in 1 .. i - 1 : j \in DOMAIN rows /\ rows[j] \in earlier
    BY <1>1
  <1>3. ASSUME NEW r \in earlier PROVE \E j \in 1 .. i - 1 : rows[j] = r
    <2>1. PICK j \in DOMAIN rows : rows[j] = r
      BY <1>1
    <2>2. CASE j < i
      BY <1>1, <2>1, <2>2
    <2>3. CASE j = i
      BY <2>1, <2>3
    <2>4. CASE j > i
      <3>1. Pages!Before(rows[i], rows[j], query.order)
        BY <1>1, <2>4
      <3> QED
        BY <1>1, <2>1, <3>1, Antisymmetric
    <2> QED
      BY <1>1, <2>2, <2>3, <2>4
  <1>4. f \in Injection(1 .. i - 1, earlier) /\ f \in Surjection(1 .. i - 1, earlier)
    <2> HIDE DEF earlier
    <2>1. f \in [1 .. i - 1 -> earlier]
      BY <1>2
    <2>2. \A j, k \in 1 .. i - 1 : f[j] = f[k] => j = k
      BY <1>1, <1>2
    <2>3. \A r \in earlier : \E j \in 1 .. i - 1 : f[j] = r
      BY <1>3
    <2> QED
      BY <2>1, <2>2, <2>3 DEF Injection, IsInjective, Surjection
  <1>5. IsFiniteSet(1 .. i - 1) /\ Cardinality(1 .. i - 1) = i - 1
    BY <1>1, FS_Interval
  <1>6. Cardinality(earlier) = i - 1
    <2> HIDE DEF f, earlier
    <2> QED
      BY <1>4, <1>5, FS_Surjection
  <1> QED
    BY <1>1, <1>6

\* So there is one such order of the rows.
LEMMA OrderIsUnique ==
  ASSUME Pages!ConstantsAssumption, PagesTypeOK, Pages!Total,
         NEW a \in Pages!Ordered(query.order), NEW b \in Pages!Ordered(query.order)
  PROVE  a = b
  <1>1. /\ a \in Seq(PageRow) /\ b \in Seq(PageRow) /\ DOMAIN a = 1 .. Size /\ DOMAIN b = 1 .. Size
        /\ {a[i] : i \in DOMAIN a} = {b[i] : i \in DOMAIN b}
        /\ Len(a) = Size /\ Len(b) = Size
    BY OrderedFacts DEF PagesTypeOK
  <1>2. ASSUME NEW i \in 1 .. Size PROVE a[i] = b[i]
    <2>1. PICK j \in 1 .. Size : b[j] = a[i]
      BY <1>1
    <2> DEFINE place(r) ==
          1 + Cardinality({s \in DOMAIN table : s # r /\ Pages!Before(s, r, query.order)})
    <2>2. i = place(a[i]) /\ j = place(b[j])
      BY <1>1, PlaceOf
    <2> HIDE DEF place
    <2> QED
      BY <2>1, <2>2
  <1> QED
    BY <1>1, <1>2, SeqEqual

\* A part of a sequence of rows.
LEMMA SliceFacts ==
  ASSUME NEW s \in Seq(PageRow), NEW a \in Nat, NEW b \in Nat, b <= Len(s)
  PROVE  /\ SubSeq(s, a + 1, b) \in Seq(PageRow)
         /\ Len(SubSeq(s, a + 1, b)) = IF a < b THEN b - a ELSE 0
         /\ \A i \in 1 .. b - a : SubSeq(s, a + 1, b)[i] = s[a + i]
  <1> DEFINE p == SubSeq(s, a + 1, b)
  <1>1. \A i \in (a + 1) .. b : s[i] \in PageRow
    BY LenProperties, ElementOfSeq
  <1>2. /\ p \in Seq(PageRow)
        /\ Len(p) = IF a + 1 <= b THEN b - (a + 1) + 1 ELSE 0
        /\ \A i \in 1 .. b - (a + 1) + 1 : p[i] = s[(a + 1) + i - 1]
    BY <1>1, SubSeqProperties
  <1> HIDE DEF p
  <1>3. ASSUME NEW i \in 1 .. b - a PROVE p[i] = s[a + i]
    <2>1. i \in 1 .. b - (a + 1) + 1 /\ (a + 1) + i - 1 = a + i
      OBVIOUS
    <2>2. p[i] = s[(a + 1) + i - 1]
      BY <1>2, <2>1
    <2> QED
      BY <2>1, <2>2
  <1>4. Len(p) = IF a < b THEN b - a ELSE 0
    BY <1>2
  <1> QED
    BY <1>2, <1>3, <1>4 DEF p

\* A page follows on the rows before its offset.
LEMMA PageFacts ==
  ASSUME Pages!ConstantsAssumption, NEW rows \in Seq(PageRow), NEW q,
         Pages!Limit(q) \in Nat, Pages!Start(q) \in Nat
  PROVE  LET p == Pages!Page(rows, q)
             start == Pages!Start(q)
         IN /\ p \in Seq(PageRow) /\ Len(p) <= Pages!Limit(q)
            /\ \A i \in 1 .. Len(p) : start + i \in 1 .. Len(rows) /\ p[i] = rows[start + i]
            /\ start <= Len(rows) =>
                 /\ start + Len(p) <= Len(rows)
                 /\ SubSeq(rows, 1, start) \o p = SubSeq(rows, 1, start + Len(p))
                 /\ p = <<>> /\ Pages!Limit(q) > 0 => start = Len(rows)
  <1> DEFINE start == Pages!Start(q)
             limit == Pages!Limit(q)
             end == Pages!Smaller(start + limit, Len(rows))
             p == SubSeq(rows, start + 1, end)
             before == SubSeq(rows, 0 + 1, start)
  <1>1. /\ Len(rows) \in Nat /\ start \in Nat /\ limit \in Nat /\ end \in Nat
        /\ end <= start + limit /\ end <= Len(rows)
        /\ end < start + 1 => limit = 0 \/ Len(rows) <= start
    <2>1. Len(rows) \in Nat
      BY LenProperties
    <2> QED
      BY <2>1 DEF Pages!Smaller
  <1>2. Pages!Page(rows, q) = p
    BY DEF Pages!Page
  <1> HIDE DEF start, limit, end
  <1>4. /\ p \in Seq(PageRow)
        /\ Len(p) = IF start < end THEN end - start ELSE 0
        /\ \A i \in 1 .. end - start : p[i] = rows[start + i]
    BY <1>1, SliceFacts
  <1> HIDE DEF p
  <1>5. Len(p) <= limit /\ \A i \in 1 .. Len(p) : start + i \in 1 .. Len(rows) /\ p[i] = rows[start + i]
    <2>1. CASE start < end
      <3>1. Len(p) = end - start /\ Len(p) \in Nat /\ Len(p) <= limit
        BY <1>1, <1>4, <2>1
      <3>2. \A i \in 1 .. Len(p) : start + i \in 1 .. Len(rows)
        BY <1>1, <3>1
      <3> QED
        BY <1>4, <3>1, <3>2
    <2>2. CASE ~(start < end)
      <3>1. Len(p) = 0 /\ Len(p) <= limit /\ 1 .. Len(p) = {}
        BY <1>1, <1>4, <2>2
      <3> QED
        BY <3>1
    <2> QED
      BY <2>1, <2>2
  <1>6. ASSUME start <= Len(rows)
        PROVE  /\ start + Len(p) <= Len(rows)
               /\ before \o p = SubSeq(rows, 1, start + Len(p))
               /\ p = <<>> /\ limit > 0 => start = Len(rows)
    <2>1. start + Len(p) <= Len(rows) /\ start + Len(p) \in Nat /\ Len(p) \in Nat
      BY <1>1, <1>4, <1>6
    <2>2. /\ before \in Seq(PageRow) /\ Len(before) = start
          /\ \A i \in 1 .. start : before[i] = rows[i]
      BY <1>1, <1>6, SliceFacts
    <2> HIDE DEF before
    <2> DEFINE both == SubSeq(rows, 0 + 1, start + Len(p))
    <2>3. /\ both \in Seq(PageRow) /\ Len(both) = start + Len(p)
          /\ \A i \in 1 .. start + Len(p) : both[i] = rows[i]
      BY <2>1, SliceFacts
    <2> HIDE DEF both
    <2>4. /\ before \o p \in Seq(PageRow) /\ Len(before \o p) = start + Len(p)
          /\ \A i \in 1 .. start + Len(p) : (before \o p)[i] = IF i <= start THEN before[i] ELSE p[i - start]
      BY <1>4, <2>2, ConcatProperties
    <2>5. \A i \in 1 .. start + Len(p) : (before \o p)[i] = both[i]
      <3>1. TAKE i \in 1 .. start + Len(p)
      <3>2. CASE i <= start
        BY <1>1, <2>1, <2>2, <2>3, <2>4, <3>2
      <3>3. CASE ~(i <= start)
        <4>1. i - start \in 1 .. Len(p) /\ start + (i - start) = i
          BY <1>1, <2>1, <3>3
        <4> QED
          BY <1>5, <2>3, <2>4, <3>3, <4>1
      <3> QED
        BY <3>2, <3>3
    <2>6. before \o p = both
      BY <2>3, <2>4, <2>5, SeqEqual
    <2>7. p = <<>> => Len(p) = 0
      BY EmptySeq
    <2> QED
      BY <1>1, <1>4, <1>6, <2>1, <2>6, <2>7 DEF both
  <1> QED
    BY <1>2, <1>4, <1>5, <1>6 DEF start, limit, before

\* What the constructor accepts has a limit and an offset that SQL.select accepts.
LEMMA AcceptedFacts ==
  ASSUME Pages!ConstantsAssumption, NEW q, ~Pages!Refused(q)
  PROVE  /\ Pages!Limit(q) \in Nat /\ Pages!Start(q) \in Nat /\ Pages!Limit(q) <= LimitMax
         /\ q.limit # Absent => Pages!Limit(q) <= q.limit
  BY DEF Pages!ConstantsAssumption, Pages!Refused, Pages!Limit, Pages!Start

LEMMA PagesInit ==
  ASSUME Pages!ConstantsAssumption, Pages!Init PROVE PagesInv
  <1>1. PICK S \in SUBSET PageRow : table \in [S -> PageKey]
    BY DEF Pages!Init
  <1>2. /\ query \in [limit : Limits, offset : Offsets, order : Orders]
        /\ page = <<>> /\ seen = <<>> /\ writes = Writes /\ pc = "request"
    BY DEF Pages!Init
  <1>3. PagesTypeOK
    BY <1>1, <1>2, EmptySeq DEF PagesTypeOK, Pages!ConstantsAssumption
  <1>4. Pages!PageFits
    BY <1>2 DEF Pages!PageFits
  <1>5. \A rows \in Pages!Ordered(query.order) : seen = SubSeq(rows, 1, Len(seen)) /\ Len(seen) <= Len(rows)
    <2>1. TAKE rows \in Pages!Ordered(query.order)
    <2>2. rows \in Seq(PageRow) /\ Len(rows) \in Nat
      BY <1>3, OrderedFacts, LenProperties DEF PagesTypeOK
    <2>3. Len(seen) = 0 /\ SubSeq(rows, 1, 0) = <<>>
      BY <1>2, SubSeqEmpty
    <2> QED
      BY <1>2, <2>2, <2>3
  <1> QED
    BY <1>2, <1>3, <1>4, <1>5 DEF PagesInv

\* A step that leaves the table and the order of the query alone leaves the orders of
\* its rows alone.
LEMMA SameOrder ==
  ASSUME table' = table, query'.order = query.order
  PROVE  /\ Pages!Ordered(query.order)' = Pages!Ordered(query.order)
         /\ Pages!Total' <=> Pages!Total
         /\ Size' = Size
  BY DEF Pages!Ordered, Pages!Before, Pages!Total, Size

LEMMA PagesTypeNext ==
  ASSUME Pages!ConstantsAssumption, PagesTypeOK, [Pages!Next]_(Pages!vars)
  PROVE  PagesTypeOK'
  <1>1. CASE UNCHANGED Pages!vars
    BY <1>1 DEF PagesTypeOK, Pages!Refused, Pages!vars
  <1>2. CASE Pages!Refuse
    BY <1>2 DEF PagesTypeOK, Pages!Refuse
  <1>3. CASE Pages!Construct
    BY <1>3 DEF PagesTypeOK, Pages!Construct, Pages!Refused
  <1>4. CASE Pages!Select
    <2>1. ~Pages!Refused(query)
      BY <1>4 DEF PagesTypeOK, Pages!Select
    <2>2. Pages!Limit(query) \in Nat /\ Pages!Start(query) \in Nat
      BY <2>1, AcceptedFacts
    <2>3. PICK rows \in Pages!Ordered(query.order) : page' = Pages!Page(rows, query)
      BY <1>4, <2>2 DEF Pages!Select
    <2>4. page' \in Seq(PageRow)
      <3>1. rows \in Seq(PageRow)
        BY OrderedFacts DEF PagesTypeOK
      <3> QED
        BY <2>2, <2>3, <3>1, PageFacts
    <2>5. pc' = "count" /\ UNCHANGED <<table, query, count, seen, writes>>
      BY <1>4, <2>2 DEF Pages!Select
    <2> QED
      BY <2>1, <2>4, <2>5 DEF PagesTypeOK, Pages!Refused
  <1>5. CASE Pages!Count
    BY <1>5 DEF PagesTypeOK, Pages!Count, Pages!Refused
  <1>6. CASE Pages!Walk
    <2>1. /\ seen' = seen \o page /\ UNCHANGED <<table, page, writes>>
          /\ pc = "answered" /\ ~Pages!Refused(query)
          /\ \/ pc' = "walked" /\ query' = query
             \/ pc' = "request" /\ query' = [query EXCEPT !.offset = Pages!Start(query) + Len(page)]
      BY <1>6 DEF PagesTypeOK, Pages!Walk
    <2>2. seen' \in Seq(PageRow)
      BY <2>1, ConcatProperties DEF PagesTypeOK
    <2>3. Pages!Start(query) + Len(page) \in Nat
      BY <2>1, AcceptedFacts, LenProperties DEF PagesTypeOK
    <2> QED
      BY <2>1, <2>2, <2>3 DEF PagesTypeOK, Pages!Refused
  <1>7. CASE Pages!Others
    <2>1. UNCHANGED <<query, page, seen, pc>> /\ writes' \in 0 .. Writes
      BY <1>7 DEF PagesTypeOK, Pages!Others, Pages!ConstantsAssumption
    <2>2. PICK D \in SUBSET PageRow : table' \in [D -> PageKey]
      <3>1. \A s \in DOMAIN table : s \in PageRow /\ table[s] \in PageKey
        BY DEF PagesTypeOK
      <3>2. CASE \E r \in PageRow \ DOMAIN table, k \in PageKey :
                   table' = [s \in DOMAIN table \cup {r} |-> IF s = r THEN k ELSE table[s]]
        <4>1. PICK r \in PageRow, k \in PageKey :
                table' = [s \in DOMAIN table \cup {r} |-> IF s = r THEN k ELSE table[s]]
          BY <3>2
        <4>2. table' \in [DOMAIN table \cup {r} -> PageKey] /\ DOMAIN table \cup {r} \in SUBSET PageRow
          BY <3>1, <4>1
        <4> QED
          BY <4>2
      <3>3. CASE \E r \in DOMAIN table : table' = [s \in DOMAIN table \ {r} |-> table[s]]
        <4>1. PICK r : table' = [s \in DOMAIN table \ {r} |-> table[s]]
          BY <3>3
        <4>2. table' \in [DOMAIN table \ {r} -> PageKey] /\ DOMAIN table \ {r} \in SUBSET PageRow
          BY <3>1, <4>1
        <4> QED
          BY <4>2
      <3> QED
        BY <1>7, <3>2, <3>3 DEF Pages!Others
    <2>3. DOMAIN table' = D
      BY <2>2
    <2>4. DOMAIN table' \subseteq PageRow /\ table' \in [DOMAIN table' -> PageKey]
      BY <2>2, <2>3
    <2> QED
      BY <2>1, <2>4 DEF PagesTypeOK, Pages!Refused
  <1> QED
    BY <1>1, <1>2, <1>3, <1>4, <1>5, <1>6, <1>7 DEF Pages!Next

LEMMA PagesNext ==
  ASSUME Pages!ConstantsAssumption, PagesInv, [Pages!Next]_(Pages!vars)
  PROVE  PagesInv'
  <1>1. PagesTypeOK' /\ PagesTypeOK /\ Pages!PageFits
    BY PagesTypeNext DEF PagesInv
  <1>2. ASSUME UNCHANGED <<table, query, page, seen, writes>>,
               \/ UNCHANGED <<pc, count>>
               \/ pc = "request" /\ pc' \in {"refused", "select"}
               \/ pc = "count" /\ pc' = "answered" /\ count' = Size
        PROVE  PagesInv'
    <2>1. /\ Pages!Ordered(query.order)' = Pages!Ordered(query.order)
          /\ Pages!Total' <=> Pages!Total
          /\ Size' = Size
      BY <1>2, SameOrder
    <2>2. Pages!PageFits'
      BY <1>1, <1>2 DEF Pages!PageFits
    <2> QED
      BY <1>1, <1>2, <2>1, <2>2 DEF PagesInv
  <1>3. CASE Pages!Select
    <2>1. /\ ~Pages!Refused(query) /\ Pages!Limit(query) \in Nat /\ Pages!Start(query) \in Nat
          /\ Pages!Limit(query) <= LimitMax /\ (query.limit # Absent => Pages!Limit(query) <= query.limit)
          /\ pc = "select"
      BY <1>1, <1>3, AcceptedFacts DEF PagesTypeOK, Pages!Select
    <2>2. pc' = "count" /\ UNCHANGED <<table, query, count, seen, writes>>
      BY <1>3, <2>1 DEF Pages!Select
    <2>3. PICK rows \in Pages!Ordered(query.order) : page' = Pages!Page(rows, query)
      BY <1>3, <2>1 DEF Pages!Select
    <2>4. /\ Pages!Ordered(query.order)' = Pages!Ordered(query.order)
          /\ Pages!Total' <=> Pages!Total
      BY <2>2, SameOrder
    <2>5. /\ rows \in Seq(PageRow) /\ DOMAIN rows = 1 .. Len(rows)
          /\ \A i, j \in DOMAIN rows : i # j => rows[i] # rows[j]
      BY <1>1, OrderedFacts DEF PagesTypeOK
    <2>6. /\ page' \in Seq(PageRow) /\ Len(page') <= Pages!Limit(query)
          /\ \A i \in 1 .. Len(page') : /\ Pages!Start(query) + i \in 1 .. Len(rows)
                                        /\ page'[i] = rows[Pages!Start(query) + i]
      BY <2>1, <2>3, <2>5, PageFacts
    <2>7. \A i, j \in DOMAIN page' : i # j => page'[i] # page'[j]
      <3>1. TAKE i, j \in DOMAIN page'
      <3>2. HAVE i # j
      <3>3. i \in 1 .. Len(page') /\ j \in 1 .. Len(page')
        BY <2>6, LenProperties
      <3>4. Pages!Start(query) + i # Pages!Start(query) + j
        BY <2>1, <3>2, <3>3
      <3> QED
        BY <2>5, <2>6, <3>3, <3>4
    <2>8. Len(page') <= LimitMax /\ (query.limit # Absent => Len(page') <= query.limit)
      <3>1. Len(page') \in Nat /\ LimitMax \in Nat
        BY <2>6, LenProperties DEF Pages!ConstantsAssumption
      <3>2. query.limit # Absent => query.limit \in Nat
        BY <2>1 DEF Pages!Refused
      <3> QED
        BY <2>1, <2>6, <3>1, <3>2
    <2>9. Pages!PageFits'
      BY <2>2, <2>7, <2>8 DEF Pages!PageFits
    <2> QED
      BY <1>1, <2>1, <2>2, <2>3, <2>4, <2>9 DEF PagesInv
  <1>4. CASE Pages!Walk
    <2> DEFINE start == Pages!Start(query)
    <2>1. /\ seen' = seen \o page /\ UNCHANGED <<table, page, count, writes>>
          /\ pc = "answered" /\ ~Pages!Refused(query)
          /\ \/ pc' = "walked" /\ query' = query /\ (page = <<>> \/ start + Len(page) >= count)
             \/ pc' = "request" /\ query' = [query EXCEPT !.offset = start + Len(page)]
      BY <1>1, <1>4 DEF PagesTypeOK, Pages!Walk
    <2>2. /\ Pages!Limit(query) \in Nat /\ start \in Nat
          /\ Len(page) \in Nat /\ Len(seen) \in Nat /\ Len(seen') = Len(seen) + Len(page)
          /\ page \in Seq(PageRow) /\ seen \in Seq(PageRow)
      BY <1>1, <2>1, AcceptedFacts, LenProperties, ConcatProperties DEF PagesTypeOK
    <2>3. query'.order = query.order /\ query'.limit = query.limit
      BY <1>1, <2>1 DEF PagesTypeOK
    <2>4. /\ Pages!Ordered(query.order)' = Pages!Ordered(query.order)
          /\ Pages!Total' <=> Pages!Total
      BY <2>1, <2>3, SameOrder
    <2>5. Pages!PageFits'
      BY <1>1, <2>1 DEF Pages!PageFits
    <2>6. ASSUME Pages!Total, writes = Writes, Len(seen) = start
          PROVE  \A rows \in Pages!Ordered(query.order) :
                   /\ seen' = SubSeq(rows, 1, Len(seen')) /\ Len(seen') <= Len(rows)
                   /\ pc' = "walked" /\ Pages!Limit(query) > 0 => seen' = rows
      <3>1. TAKE rows \in Pages!Ordered(query.order)
      <3>2. page = Pages!Page(rows, query) /\ count = Size
        BY <1>1, <2>1, <2>6, OrderIsUnique DEF PagesInv
      <3>3. rows \in Seq(PageRow) /\ Len(rows) = Size /\ Size \in Nat
        BY <1>1, OrderedFacts DEF PagesTypeOK
      <3>4. seen = SubSeq(rows, 1, start) /\ start <= Len(rows)
        BY <2>1, <2>6 DEF PagesInv
      <3>5. /\ start + Len(page) <= Len(rows)
            /\ seen \o page = SubSeq(rows, 1, start + Len(page))
            /\ page = <<>> /\ Pages!Limit(query) > 0 => start = Len(rows)
        BY <2>2, <3>2, <3>3, <3>4, PageFacts
      <3>6. page = <<>> => Len(page) = 0
        BY EmptySeq
      <3>7. ASSUME pc' = "walked", Pages!Limit(query) > 0 PROVE seen' = rows
        <4>1. start + Len(page) = Len(rows)
          BY <2>1, <2>2, <3>2, <3>3, <3>5, <3>6, <3>7
        <4> QED
          BY <2>1, <3>3, <3>5, <4>1, SubSeqFull
      <3> QED
        BY <2>1, <2>2, <2>6, <3>5, <3>7
    <2>7. CASE pc' = "walked" /\ query' = query
      <3>1. ASSUME Pages!Total, writes = Writes, Pages!Limit(query) > 0, Len(seen') = start + Len(page)
            PROVE  seen' \in Pages!Ordered(query.order)
        <4>1. Len(seen) = start
          BY <2>2, <3>1
        <4>2. PICK rows \in Pages!Ordered(query.order) : TRUE
          BY <2>1, <3>1 DEF PagesInv
        <4> QED
          BY <2>6, <2>7, <3>1, <4>1, <4>2
      <3> QED
        BY <1>1, <2>1, <2>4, <2>5, <2>7, <3>1 DEF PagesInv
    <2>8. CASE pc' = "request" /\ query' = [query EXCEPT !.offset = start + Len(page)]
      <3>1. Pages!Start(query)' = start + Len(page)
        <4>1. start + Len(page) \in Int /\ query'.offset = start + Len(page)
          BY <1>1, <2>2, <2>8 DEF PagesTypeOK
        <4> QED
          BY <4>1 DEF Pages!Start, Pages!ConstantsAssumption
      <3>2. Len(seen') = start + Len(page) => Len(seen) = start
        BY <2>2
      <3> QED
        BY <1>1, <2>1, <2>4, <2>5, <2>6, <2>8, <3>1, <3>2 DEF PagesInv
    <2> QED
      BY <2>1, <2>7, <2>8
  <1>5. CASE Pages!Others
    <2>1. /\ UNCHANGED <<query, page, count, seen, pc>> /\ ~(writes' = Writes)
      BY <1>1, <1>5 DEF PagesTypeOK, Pages!Others, Pages!ConstantsAssumption
    <2>2. Pages!PageFits'
      BY <1>1, <2>1 DEF Pages!PageFits
    <2> QED
      BY <1>1, <2>1, <2>2 DEF PagesInv
  <1> QED
    BY <1>2, <1>3, <1>4, <1>5, SameCardinality
    DEF Pages!Next, Pages!vars, Pages!Refuse, Pages!Construct, Pages!Count, Size

LEMMA PagesProperties ==
  ASSUME Pages!ConstantsAssumption, PagesInv PROVE part = "pages" => ListIsWalked
  <1>1. Pages!WalkComplete
    <2> SUFFICES ASSUME pc = "walked", Pages!Total, writes = Writes, Pages!Limit(query) > 0,
                        Len(seen) = Pages!Start(query) + Len(page)
                 PROVE  Pages!ToSet(seen) = DOMAIN table /\ Len(seen) = Pages!Cardinality(DOMAIN table)
      BY DEF Pages!WalkComplete
    <2>1. seen \in Pages!Ordered(query.order)
      BY DEF PagesInv
    <2> QED
      BY <2>1, OrderedFacts, SameCardinality DEF PagesInv, PagesTypeOK, Size
  <1> QED
    BY <1>1 DEF PagesInv, PagesTypeOK, Pages!BadQueryIsRefused, ListIsWalked

\* The pages so far are the first rows of the order, on every walk through a table.
THEOREM PagesInvariant ==
  ASSUME Pages!ConstantsAssumption
  PROVE  Pages!Spec => [](PagesInv)
  <1>1. Pages!Init => PagesInv
    BY PagesInit
  <1>2. PagesInv /\ [Pages!Next]_(Pages!vars) => (PagesInv)'
    BY PagesNext
  <1> QED
    BY <1>1, <1>2, PTL DEF Pages!Spec

\* A behaviour of Data is one of ListPages from its start, or never.
LEMMA DataIsPages ==
  /\ Spec /\ part = "pages" => Pages!Spec
  /\ Spec /\ ~(part = "pages") => []~(part = "pages")
  <1>1. Init /\ part = "pages" => Pages!Init
    BY DEF Init
  <1>2. [Next]_vars =>
          /\ part = "pages" => (part = "pages")' /\ [Pages!Next]_(Pages!vars)
          /\ ~(part = "pages") => ~(part = "pages")'
    BY DEF Next, vars, pages, Pages!vars
  <1> QED
    BY <1>1, <1>2, PTL DEF Spec, Pages!Spec

\* ListView: a client that walks a list page by page gets every row once, pages fit
\* what was asked for, and a bad query is refused, for tables and limits of any size.
THEOREM ListIsWalkedHolds == Spec => []ListIsWalked
  <1>1. Pages!ConstantsAssumption
    BY PartsAssumption
  <1>2. Pages!Spec => [](PagesInv)
    BY <1>1, PagesInvariant
  <1>3. /\ PagesInv => ListIsWalked
        /\ ~(part = "pages") => ListIsWalked
    BY <1>1, PagesProperties DEF ListIsWalked
  <1> QED
    BY <1>2, <1>3, DataIsPages, PTL

(***************************************************************************)
(* RequestBody.                                                            *)
(***************************************************************************)

TextOf(body_) == [form |-> "text", of |-> body_]

\* Until a call asked for JSON, request_data is nothing or the body's text.  What was
\* loaded last is what its data give, and loading a second time would give the same.
BodyInv ==
  /\ request \in Body!Request
  /\ ~parsed => data = Body!Unread \/ data = TextOf(request.body)
  /\ call = "load" => /\ answer = Body!Load(Body!Text(data, request), request, HeaderField)
                      /\ request.json => Body!Text(data, request) = data

LEMMA TextTwice ==
  ASSUME NEW d, NEW q PROVE Body!Text(Body!Text(d, q), q) = Body!Text(d, q)
  BY DEF Body!Text

\* What loading returns does not depend on what request_data is if the content type is
\* not JSON, and is never an internal error.
LEMMA LoadFacts ==
  ASSUME NEW d, NEW q, NEW fields
  PROVE  /\ ~q.json => Body!Load(d, q, fields) = Body!Refusal(415, "content_type")
         /\ Body!Load(d, q, fields).status # 500
  <1>1. ~q.json => Body!Load(d, q, fields) = Body!Refusal(415, "content_type")
    BY DEF Body!Load
  <1>2. \A values : Body!Validated(values).status # 500
    BY DEF Body!Validated, Body!Refusal, Body!Done
  <1>3. \A status, error : Body!Refusal(status, error).status = status
    BY DEF Body!Refusal
  <1>4. Body!LoadText(d.of, q, fields).status # 500
    BY <1>2, <1>3 DEF Body!LoadText
  <1>5. Body!Load(d, q, fields).status # 500
    BY <1>3, <1>4 DEF Body!Load
  <1> QED
    BY <1>1, <1>5

\* The body without the keys of Header fields has the same outcome.
LEMMA WithoutHeaderKeys ==
  ASSUME NEW q \in Body!Request
  PROVE  /\ Body!Load(TextOf([q.body EXCEPT !.keys = @ \ HeaderField]), q, HeaderField)
              = Body!Load(TextOf(q.body), q, HeaderField)
         /\ LET loaded == Body!Load(TextOf(q.body), q, HeaderField).loaded
            IN \A f \in HeaderField \cap DOMAIN loaded : loaded[f] = "header" /\ q.headers[f] = "given"
  <1> DEFINE b == q.body
             w == [b EXCEPT !.keys = @ \ HeaderField]
             values == Body!WithHeaders(b.keys, q, HeaderField)
  <1>1. /\ b = [is |-> b.is, keys |-> b.keys] /\ b.is \in Body!Kind
        /\ b.is \notin {"object", "quoted"} => b.keys = {}
    BY DEF Body!Request, Body!Body
  <1>2. w = [is |-> b.is, keys |-> b.keys \ HeaderField]
    BY <1>1
  <1>3. w.is = b.is /\ w.keys = b.keys \ HeaderField
    BY <1>2
  <1>4. w = Body!Nothing <=> b = Body!Nothing
    BY <1>1, <1>2 DEF Body!Nothing, Body!Kind
  <1>5. Body!WithHeaders(w.keys, q, HeaderField) = values
    BY <1>3 DEF Body!WithHeaders, Body!HeaderValues
  <1>6. \A f \in HeaderField \cap DOMAIN values : values[f] = "header" /\ q.headers[f] = "given"
    BY DEF Body!WithHeaders, Body!HeaderValues
  <1> HIDE DEF b, w, values
  <1>7. Body!Load(TextOf(w), q, HeaderField) = Body!Load(TextOf(b), q, HeaderField)
    <2>1. Body!LoadText(w, q, HeaderField) = Body!LoadText(b, q, HeaderField)
      BY <1>3, <1>5 DEF Body!LoadText, Body!WellFormed, values
    <2> QED
      BY <1>4, <2>1 DEF Body!Load, TextOf
  <1>8. LET loaded == Body!Load(TextOf(b), q, HeaderField).loaded
        IN loaded = <<>> \/ loaded = values
    <2>1. \A status, error : Body!Refusal(status, error).loaded = <<>>
      BY DEF Body!Refusal
    <2>2. Body!Validated(values).loaded \in {<<>>, values}
      BY DEF Body!Validated, Body!Refusal, Body!Done
    <2>3. Body!LoadText(b, q, HeaderField).loaded \in {<<>>, values}
      BY <2>1, <2>2 DEF Body!LoadText, values
    <2> QED
      BY <2>1, <2>3 DEF Body!Load, TextOf
  <1>9. DOMAIN <<>> = {}
    OBVIOUS
  <1> QED
    BY <1>6, <1>7, <1>8, <1>9 DEF b, w

\* A body that is not an object is answered as by a schema without Header fields.
LEMMA NoObject ==
  ASSUME NEW q, q.body.is # "object"
  PROVE  Body!Load(TextOf(q.body), q, HeaderField) = Body!Load(TextOf(q.body), q, {})
  BY DEF Body!Load, Body!LoadText, TextOf

LEMMA BodyInit == ASSUME Body!Init PROVE BodyInv
  BY DEF Body!Init, BodyInv

LEMMA BodyNext ==
  ASSUME BodyInv, [Body!Next]_(Body!vars) PROVE BodyInv'
  <1> DEFINE text == Body!Text(data, request)
  <1>1. CASE Body!GetText \/ Body!GetJson \/ UNCHANGED Body!vars
    <2>1. request' = request /\ schema' = schema
      BY <1>1 DEF Body!GetText, Body!GetJson, Body!vars
    <2>2. CASE Body!GetText
      BY <2>1, <2>2 DEF BodyInv, Body!GetText, Body!Text, TextOf, Body!Unread
    <2>3. CASE Body!GetJson
      BY <2>1, <2>3 DEF BodyInv, Body!GetJson
    <2>4. CASE UNCHANGED Body!vars
      <3>1. /\ request' = request /\ schema' = schema /\ data' = data /\ call' = call
            /\ answer' = answer /\ parsed' = parsed
        BY <2>4 DEF Body!vars
      <3>2. Body!Load(Body!Text(data, request), request, HeaderField)'
              = Body!Load(Body!Text(data, request), request, HeaderField)
        BY <3>1 DEF Body!Load, Body!LoadText, Body!Validated, Body!Text
      <3> QED
        BY <3>1, <3>2 DEF BodyInv, Body!Text
    <2> QED
      BY <1>1, <2>2, <2>3, <2>4
  <1>2. CASE Body!GetSchemaData
    <2>1. /\ UNCHANGED <<request, schema, parsed>> /\ call' = "load"
          /\ answer' = Body!Load(text, request, HeaderField)
          /\ data' = IF request.json THEN text ELSE data
      BY <1>2 DEF Body!GetSchemaData
    <2>2. Body!Text(data', request) = text /\ (request.json => data' = text)
      BY <2>1, TextTwice
    <2>3. Body!Load(Body!Text(data, request), request, HeaderField)'
            = Body!Load(text, request, HeaderField)
      BY <2>1, <2>2 DEF Body!Load, Body!LoadText, Body!Validated, Body!Text
    <2>4. ~parsed => data' = Body!Unread \/ data' = TextOf(request.body)
      BY <2>1 DEF BodyInv, Body!Text, Body!Unread, TextOf
    <2>5. Body!Text(data, request)' = Body!Text(data', request)
      BY <2>1 DEF Body!Text
    <2> QED
      BY <2>1, <2>2, <2>3, <2>4, <2>5 DEF BodyInv
  <1> QED
    BY <1>1, <1>2 DEF Body!Next

LEMMA BodyProperties == ASSUME BodyInv PROVE part = "body" => BodyLoads
  <1> DEFINE q == request
  <1>1. ASSUME call = "load" PROVE answer.status # 500
    BY <1>1, LoadFacts DEF BodyInv
  <1>2. ASSUME call = "load", ~parsed
        PROVE  answer = Body!Load(TextOf(q.body), q, HeaderField)
    <2>1. Body!Text(data, q) = TextOf(q.body)
      BY <1>2 DEF BodyInv, Body!Text, Body!Unread, TextOf
    <2> QED
      BY <1>2, <2>1 DEF BodyInv
  <1>3. ASSUME call = "load", ~parsed, q.body.is # "object"
        PROVE  answer = Body!Load(data, q, {})
    <2>1. CASE ~q.json
      BY <1>2, <1>3, <2>1, LoadFacts
    <2>2. CASE q.json
      <3>1. data = TextOf(q.body)
        BY <1>3, <2>2 DEF BodyInv, Body!Text, Body!Unread, TextOf
      <3> QED
        BY <1>2, <1>3, <3>1, NoObject
    <2> QED
      BY <2>1, <2>2
  <1>4. Body!LoadRefuses
    BY <1>1 DEF Body!LoadRefuses
  <1>5. Body!LoadedAgain
    BY <1>2 DEF Body!LoadedAgain, TextOf
  <1>6. Body!ErrorKept
    BY <1>3 DEF Body!ErrorKept
  <1>7. Body!HeaderFieldsFromHeaders
    <2>1. q \in Body!Request
      BY DEF BodyInv
    <2> QED
      BY <1>2, <2>1, WithoutHeaderKeys DEF Body!HeaderFieldsFromHeaders, TextOf
  <1> QED
    BY <1>4, <1>5, <1>6, <1>7 DEF BodyLoads

\* What was loaded last is what the request gives, on every sequence of calls.
THEOREM BodyInvariant ==
  Body!Spec => [](BodyInv)
  <1>1. Body!Init => BodyInv
    BY BodyInit
  <1>2. BodyInv /\ [Body!Next]_(Body!vars) => (BodyInv)'
    BY BodyNext
  <1> QED
    BY <1>1, <1>2, PTL DEF Body!Spec

\* A behaviour of Data is one of RequestBody from its start, or never.
LEMMA DataIsBody ==
  /\ Spec /\ part = "body" => Body!Spec
  /\ Spec /\ ~(part = "body") => []~(part = "body")
  <1>1. Init /\ part = "body" => Body!Init
    BY DEF Init
  <1>2. [Next]_vars =>
          /\ part = "body" => (part = "body")' /\ [Body!Next]_(Body!vars)
          /\ ~(part = "body") => ~(part = "body")'
    BY DEF Next, vars, body, Body!vars
  <1> QED
    BY <1>1, <1>2, PTL DEF Spec, Body!Spec

\* OptionsView: loading a body through the schema is a result or a 4xx, the same each
\* time, with Header fields from the headers only.
THEOREM BodyLoadsHolds == Spec => []BodyLoads
  <1>1. Body!ConstantsAssumption
    BY PartsAssumption
  <1>2. Body!Spec => [](BodyInv)
    BY <1>1, BodyInvariant
  <1>3. /\ BodyInv => BodyLoads
        /\ ~(part = "body") => BodyLoads
    BY <1>1, BodyProperties DEF BodyLoads
  <1> QED
    BY <1>2, <1>3, DataIsBody, PTL

(***************************************************************************)
(* SchemaRequests.                                                         *)
(***************************************************************************)

\* The answer is the last request's, and what was promised is still so: the origin is
\* configured and the view has the method.
SchemaInv ==
  /\ \/ answer = Schema!Nothing /\ promised = {} /\ last.method = "OPTIONS"
     \/ answer = Schema!Prepared(last, Schema!Dispatch(last))
  /\ \A p \in promised : p[1] \in allowed /\ Schema!Has(p[2])

Reply(status, text, origins) == [status |-> status, body |-> text, origins |-> origins]

\* The handlers of a view, before aiohttp-cors prepares the response.
LEMMA DispatchFacts ==
  ASSUME NEW q \in Schema!Request
  PROVE  \/ /\ Schema!Dispatch(q) = Reply(403, "none", 0)
            /\ q.method = "OPTIONS" /\ Schema!Preflight(q) /\ ~Schema!Accepted(q)
         \/ /\ Schema!Dispatch(q) = Reply(200, "schema", IF q.origin \in allowed THEN 1 ELSE 0)
            /\ q.method = "OPTIONS" /\ (Schema!Preflight(q) => Schema!Accepted(q))
         \/ Schema!Dispatch(q) = Reply(200, "schema", 0) /\ q.method = "GET"
         \/ /\ Schema!Dispatch(q) = Reply(200, "handler", 0)
            /\ q.method # "OPTIONS" /\ ~(q.method = "GET" /\ q.schema)
         \/ /\ Schema!Dispatch(q) = Reply(405, "none", 0)
            /\ ~Schema!Has(q.method) /\ ~(q.method = "GET" /\ q.schema)
  <1>1. /\ [Schema!Nothing EXCEPT !.status = 403] = Reply(403, "none", 0)
        /\ [Schema!Nothing EXCEPT !.status = 405] = Reply(405, "none", 0)
        /\ [Schema!Nothing EXCEPT !.body = "handler"] = Reply(200, "handler", 0)
    BY DEF Schema!Nothing, Reply
  <1>2. q.method # "OPTIONS" => ~Schema!Preflight(q)
    BY DEF Schema!Preflight
  <1>3. CASE q.method = "OPTIONS"
    BY <1>1, <1>3 DEF Schema!Dispatch, Schema!Options, Schema!Has, Reply
  <1>4. CASE q.method # "OPTIONS"
    BY <1>1, <1>2, <1>4 DEF Schema!Dispatch, Schema!Options, Reply
  <1> QED
    BY <1>3, <1>4

LEMMA AnswerFacts ==
  ASSUME NEW q \in Schema!Request, NEW a, a = Schema!Prepared(q, Schema!Dispatch(q))
  PROVE  /\ a \in Schema!Answer /\ a # Schema!Nothing
         /\ a.origins = IF q.origin \in allowed /\ a.status # 403 THEN 1 ELSE 0
         /\ Schema!Preflight(q) /\ a.status = 200 => Schema!Accepted(q)
         /\ Schema!Has(q.method) /\ q.asks = None => a.status = 200
         /\ q.method = "GET" /\ q.schema => a.body = "schema" /\ a.status = 200
         /\ q.method = "OPTIONS" /\ q.asks = None => a.body = "schema"
  <1>1. q.origin \in allowed => Schema!CorsEnabled
    BY DEF Schema!CorsEnabled
  <1>2. \A s, b, n : Reply(s, b, n).status = s /\ Reply(s, b, n).body = b /\ Reply(s, b, n).origins = n
    BY DEF Reply
  <1>3. CASE q.method = "OPTIONS" \/ q.origin \notin allowed
    <2>1. a = Schema!Dispatch(q)
      BY <1>3 DEF Schema!Prepared
    <2> QED
      BY <1>3, <2>1, DispatchFacts DEF Reply, Schema!Answer, Schema!Nothing, Schema!Preflight,
                                       Schema!Has
  <1>4. CASE q.method # "OPTIONS" /\ q.origin \in allowed
    <2> DEFINE d == Schema!Dispatch(q)
    <2>1. /\ d.origins = 0 /\ d.status \in {200, 405} /\ d.body \in {"schema", "handler", "none"}
      BY <1>4, DispatchFacts DEF Reply
    <2>2. a = Reply(IF d.origins > 0 THEN 500 ELSE d.status, d.body, d.origins + 1)
      BY <1>1, <1>4 DEF Schema!Prepared, Reply
    <2> HIDE DEF d
    <2>3. a = Reply(d.status, d.body, 1)
      BY <2>1, <2>2
    <2> USE DEF d
    <2> QED
      BY <1>4, <2>3, <2>1, DispatchFacts DEF Reply, Schema!Answer, Schema!Nothing,
                                             Schema!Preflight, Schema!Has
  <1> QED
    BY <1>3, <1>4

LEMMA SchemaInit ==
  ASSUME Schema!ConstantsAssumption, Schema!Init PROVE Schema!TypeOK /\ SchemaInv
  <1>1. last \in Schema!Request
    BY DEF Schema!Init, Schema!Request, Schema!Method
  <1>2. Schema!Nothing \in Schema!Answer
    BY DEF Schema!Nothing, Schema!Answer
  <1> QED
    BY <1>1, <1>2 DEF Schema!Init, Schema!TypeOK, SchemaInv, Schema!Method

LEMMA SchemaNext ==
  ASSUME Schema!ConstantsAssumption, Schema!TypeOK, SchemaInv, [Schema!Next]_(Schema!vars)
  PROVE  Schema!TypeOK' /\ SchemaInv'
  <1>1. CASE UNCHANGED Schema!vars
    <2>1. UNCHANGED <<allowed, methods, delegates, last, answer, promised>>
      BY <1>1 DEF Schema!vars
    <2>2. Schema!Prepared(last, Schema!Dispatch(last))' = Schema!Prepared(last, Schema!Dispatch(last))
      BY <2>1 DEF Schema!Prepared, Schema!Dispatch, Schema!Options, Schema!Preflight,
                  Schema!Accepted,
                  Schema!HasConfig, Schema!Has, Schema!CorsEnabled
    <2> QED
      BY <2>1, <2>2 DEF Schema!TypeOK, SchemaInv, Schema!Has
  <1>2. ASSUME NEW q \in Schema!Request, Schema!Ask(q)
        PROVE  Schema!TypeOK' /\ SchemaInv'
    <2> DEFINE a == Schema!Prepared(q, Schema!Dispatch(q))
    <2>1. last' = q /\ answer' = a /\ UNCHANGED <<allowed, methods, delegates>>
      BY <1>2 DEF Schema!Ask
    <2>2. a \in Schema!Answer /\ (Schema!Preflight(q) /\ a.status = 200 => Schema!Accepted(q))
      BY AnswerFacts
    <2>3. Schema!Prepared(last, Schema!Dispatch(last))' = a
      BY <2>1 DEF Schema!Prepared, Schema!Dispatch, Schema!Options, Schema!Preflight,
                  Schema!Accepted,
                  Schema!HasConfig, Schema!Has, Schema!CorsEnabled
    <2> HIDE DEF a
    <2>4. \/ promised' = promised
          \/ /\ promised' = {<<q.origin, q.asks>>} /\ q.origin \in allowed
             /\ q.asks \in Schema!Method /\ Schema!Has(q.asks)
      BY <1>2, <2>1, <2>2 DEF Schema!Ask, Schema!Accepted, Schema!HasConfig, Schema!Preflight,
                              Schema!Request
    <2>5. /\ promised' \subseteq Origin \X Schema!Method /\ (\A p1, p2 \in promised' : p1 = p2)
          /\ \A p \in promised' : p[1] \in allowed /\ Schema!Has(p[2])
      BY <2>4 DEF Schema!TypeOK, SchemaInv
    <2> QED
      BY <2>1, <2>2, <2>3, <2>5 DEF Schema!TypeOK, SchemaInv, Schema!Has
  <1> QED
    BY <1>1, <1>2 DEF Schema!Next

LEMMA SchemaProperties ==
  ASSUME Schema!TypeOK, SchemaInv
  PROVE  Schema!PromiseKept /\ Schema!OriginOnce /\ Schema!SchemaAvailable
  <1>1. CASE answer = Schema!Nothing /\ promised = {} /\ last.method = "OPTIONS"
    BY <1>1 DEF Schema!Nothing, Schema!PromiseKept, Schema!OriginOnce, Schema!SchemaAvailable
  <1>2. CASE answer = Schema!Prepared(last, Schema!Dispatch(last))
    <2>1. last \in Schema!Request
      BY DEF Schema!TypeOK
    <2> QED
      BY <1>2, <2>1, AnswerFacts
      DEF SchemaInv, Schema!PromiseKept, Schema!OriginOnce, Schema!SchemaAvailable
  <1> QED
    BY <1>1, <1>2 DEF SchemaInv

\* Types, and what was promised since the last preflight, on every sequence of requests.
THEOREM SchemaInvariant ==
  ASSUME Schema!ConstantsAssumption
  PROVE  Schema!Spec => [](Schema!TypeOK /\ SchemaInv)
  <1>1. Schema!Init => Schema!TypeOK /\ SchemaInv
    BY SchemaInit
  <1>2. Schema!TypeOK /\ SchemaInv /\ [Schema!Next]_(Schema!vars) => (Schema!TypeOK /\ SchemaInv)'
    BY SchemaNext
  <1> QED
    BY <1>1, <1>2, PTL DEF Schema!Spec

\* A behaviour of Data is one of SchemaRequests from its start, or never.
LEMMA DataIsSchema ==
  /\ Spec /\ part = "schema" => Schema!Spec
  /\ Spec /\ ~(part = "schema") => []~(part = "schema")
  <1>1. Init /\ part = "schema" => Schema!Init
    BY DEF Init
  <1>2. [Next]_vars =>
          /\ part = "schema" => (part = "schema")' /\ [Schema!Next]_(Schema!vars)
          /\ ~(part = "schema") => ~(part = "schema")'
    BY DEF Next, vars, schemas, Schema!vars
  <1> QED
    BY <1>1, <1>2, PTL DEF Spec, Schema!Spec

\* SchemaOptionsView and aiohttp-cors: what an accepted preflight promises the request
\* after it keeps, an allowed origin's header is set once, and every view's schema is
\* available.
THEOREM BrowsersAreServedHolds == Spec => []BrowsersAreServed
  <1>1. Schema!ConstantsAssumption
    BY PartsAssumption
  <1>2. Schema!Spec => [](Schema!TypeOK /\ SchemaInv)
    BY <1>1, SchemaInvariant
  <1>3. /\ Schema!TypeOK /\ SchemaInv => BrowsersAreServed
        /\ ~(part = "schema") => BrowsersAreServed
    BY <1>1, SchemaProperties DEF BrowsersAreServed
  <1> QED
    BY <1>2, <1>3, DataIsSchema, PTL

================================================================================
