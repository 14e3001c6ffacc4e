------------------------------- MODULE ListPages -------------------------------
(***************************************************************************)
(* ListView of aiohttp_boilerplate/views/list.py: limit, offset and order  *)
(* of the query string, the page they select and its count, for a client   *)
(* that walks the pages of one list.  The page and the count are read by   *)
(* two statements; others may write between them, and between two pages.   *)
(***************************************************************************)
EXTENDS Integers, Sequences, FiniteSets, SequencesExt

CONSTANTS
  Row,           \* rows that may be in the table
  Key,           \* values of the column "rank"
  LimitDefault,  \* limit_default
  LimitMax,      \* limit_max_default
  Limits,        \* what a client may give as limit: numbers, Absent, NotANumber
  Offsets,       \* what it may give as its first offset
  Orders,        \* what it may give as order: [field, direction], Absent
  Writes,        \* how many rows others may insert or delete
  Absent, NotANumber

ConstantsAssumption ==
  /\ IsFiniteSet(Row) /\ Row \subseteq Int /\ Key \subseteq Int
  /\ {Absent, NotANumber} \cap Int = {}
  /\ LimitDefault \in Nat /\ LimitMax \in Nat \ {0} /\ Writes \in Nat
  /\ (Limits \cup Offsets) \ {Absent, NotANumber} \subseteq Int

VARIABLES
  table,   \* rows and their rank
  query,   \* the query string of the client's request
  page,    \* self.objects
  count,   \* self.count
  seen,    \* pages that the client has got
  writes,  \* writes that are left
  pc

vars == <<table, query, page, count, seen, writes, pc>>

Query == [limit : Limits, offset : Int \cup {Absent, NotANumber}, order : Orders]
OrderFields == {"id", "rank"}     \* order_fields of the list

Init ==
  /\ \E S \in SUBSET Row : table \in [S -> Key]
  /\ query \in [limit : Limits, offset : Offsets, order : Orders]
  /\ page = <<>> /\ count = 0 /\ seen = <<>> /\ writes = Writes
  /\ pc = "request"

\* get_limit.
Limit(q) ==
  LET limit == IF q.limit = Absent THEN LimitDefault ELSE q.limit
  IN IF limit > LimitMax THEN LimitMax ELSE limit

OrderGiven == [field : OrderFields, direction : {"asc", "desc"}] \cup {Absent}

\* Mutant of Refused: the sign of an offset is not looked at.
Refused_Signless(q) ==
  ~(q.limit \in Nat \cup {Absent} /\ q.offset # NotANumber /\ q.order \in OrderGiven)

\* The constructor answers 400 to what get_limit, get_order or get_offset reject.
Refused(q) ==
  ~(q.limit \in Nat \cup {Absent} /\ q.offset \in Nat \cup {Absent} /\ q.order \in OrderGiven)

Refuse ==
  /\ pc = "request" /\ Refused(query) /\ pc' = "refused"
  /\ UNCHANGED <<table, query, page, count, seen, writes>>

Construct ==
  /\ pc = "request" /\ ~Refused(query) /\ pc' = "select"
  /\ UNCHANGED <<table, query, page, count, seen, writes>>

\* Whether row r may not come after s under `order by`; without it, any order.
Before(r, s, order) ==
  CASE order = Absent -> TRUE
    [] order # Absent /\ order.field = "id" /\ order.direction = "asc" -> r <= s
    [] order # Absent /\ order.field = "id" /\ order.direction # "asc" -> r >= s
    [] order # Absent /\ order.field # "id" /\ order.direction = "asc" -> table[r] <= table[s]
    [] OTHER -> table[r] >= table[s]

\* The orders in which PostgreSQL may return the rows.
Ordered(order) ==
  {s \in SetToSeqs(DOMAIN table) :
     \A i, j \in DOMAIN s : i < j => Before(s[i], s[j], order)}

Start(q) == IF q.offset = Absent THEN 0 ELSE q.offset

Smaller(m, n) == IF m < n THEN m ELSE n

\* Mutant of Page: the offset is left out.
Page_NoOffset(rows, q) == SubSeq(rows, 1, Smaller(Limit(q), Len(rows)))

\* Mutant of Page: a limit of 0 is taken for none.
Page_ZeroIsNone(rows, q) ==
  SubSeq(rows, Start(q) + 1,
    Smaller(IF Limit(q) = 0 THEN Len(rows) ELSE Start(q) + Limit(q), Len(rows)))

\* `limit` and `offset` of a select.
Page(rows, q) == SubSeq(rows, Start(q) + 1, Smaller(Start(q) + Limit(q), Len(rows)))

\* perform_get; SQL.select raises SQLException for a number that is negative.
Select ==
  LET accepted == Limit(query) \in Nat /\ Start(query) \in Nat
  IN /\ pc = "select" /\ pc' = IF accepted THEN "count" ELSE "failed"
     /\ \E rows \in Ordered(query.order) :
          page' = IF accepted THEN Page(rows, query) ELSE page
     /\ UNCHANGED <<table, query, count, seen, writes>>

\* combine_response: the rows are dumped, and every row is counted.
Count ==
  /\ pc = "count" /\ pc' = "answered" /\ count' = Cardinality(DOMAIN table)
  /\ UNCHANGED <<table, query, page, seen, writes>>

\* The client takes the page and asks for the next, if the count promises one.
Walk ==
  /\ pc = "answered"
  /\ seen' = seen \o page
  /\ IF page = <<>> \/ Start(query) + Len(page) >= count
       THEN pc' = "walked" /\ UNCHANGED query
       ELSE pc' = "request" /\ query' = [query EXCEPT !.offset = Start(query) + Len(page)]
  /\ UNCHANGED <<table, page, count, writes>>

\* Another request inserts or deletes a row.
Others ==
  /\ writes > 0 /\ writes' = writes - 1
  /\ \/ \E r \in Row \ DOMAIN table, k \in Key :
          table' = [s \in DOMAIN table \cup {r} |-> IF s = r THEN k ELSE table[s]]
     \/ \E r \in DOMAIN table : table' = [s \in DOMAIN table \ {r} |-> table[s]]
  /\ UNCHANGED <<query, page, count, seen, pc>>

Next == Refuse \/ Construct \/ Select \/ Count \/ Walk \/ Others
Spec == Init /\ [][Next]_vars

--------------------------------------------------------------------------------
(* Properties.                                                             *)

\* An order that leaves no two rows alike.
Total ==
  /\ query.order # Absent
  /\ query.order.field = "id" \/ \A r, s \in DOMAIN table : r # s => table[r] # table[s]

\* A client that walks a list from its start (the pages before this one fill the
\* offset), with an order that is total and while nobody writes, gets every row once:
\* whatever limit it asks for and however that is cut to limit_max_default.
WalkComplete ==
  pc = "walked" /\ Total /\ writes = Writes /\ Limit(query) > 0
            /\ Len(seen) = Start(query) + Len(page) =>
    ToSet(seen) = DOMAIN table /\ Len(seen) = Cardinality(DOMAIN table)

\* What the constructor lets through never makes SQL.select raise: a bad query is
\* answered with 400, not as an internal error.
BadQueryIsRefused == pc # "failed"

\* A page has no row twice, no more than limit_max_default rows and no more than
\* the client asked for, also if it asks for none.
PageFits ==
  /\ \A i, j \in DOMAIN page : i # j => page[i] # page[j]
  /\ pc \in {"count", "answered"} =>
       Len(page) <= LimitMax /\ (query.limit # Absent => Len(page) <= query.limit)

================================================================================
