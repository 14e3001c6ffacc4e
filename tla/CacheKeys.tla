------------------------------- MODULE CacheKeys -------------------------------
(***************************************************************************)
(* The text of a cache key: build_cache_key of                             *)
(* aiohttp_boilerplate/views/mixins.py.  ResponseCache takes a key for the *)
(* parts that it is built from; this module says when that is right.       *)
(*                                                                         *)
(* A text is a sequence of characters, which are 1-tuples.  urlencode      *)
(* escapes what separates, so that an item of the query, a pair of a name  *)
(* and a value, stands for a character of its own.  Namespace and method   *)
(* are left out: they are joined as the path is.                           *)
(***************************************************************************)
EXTENDS Naturals, Sequences, SequencesExt

CONSTANTS
  Character, \* characters of texts
  Path,      \* texts
  Query,     \* sequences of items, pairs of numbers
  Header,    \* names of cache_vary_headers in their order, a sequence of texts
  Value,     \* texts of header values; the empty one is also a missing header's
  Identity   \* texts that cache_identity returns

VARIABLES
  stored,  \* a request whose response is in the store
  request, \* the request that looks up
  answer   \* "stored", or "own" if it computes its response

vars == <<stored, request, answer>>

ConstantsAssumption ==
  /\ Path \subseteq Seq(Character) /\ Value \subseteq Seq(Character)
  /\ Identity \subseteq Seq(Character) /\ Header \in Seq(Seq(Character))
  /\ Query \subseteq Seq(Nat \X Nat)

Bar == <<"|">>
And == <<"&">>
Is == <<"=">>

Request == [path : Path, query : Query, headers : [DOMAIN Header -> Value], identity : Identity]

Init == stored \in Request /\ request = stored /\ answer = "none"

Joined(texts, separator) ==
  FlattenSeq([i \in DOMAIN texts |-> IF i = 1 THEN texts[i] ELSE <<separator>> \o texts[i]])

ItemBefore(a, b) == a[1] < b[1] \/ (a[1] = b[1] /\ a[2] < b[2])
InOrder(items) == \A i, j \in DOMAIN items : i < j => ~ItemBefore(items[j], items[i])

\* The same items in another order, with their repetitions.
Arranged(items) ==
  {[i \in DOMAIN items |-> items[p[i]]] : p \in Bijection(DOMAIN items, DOMAIN items)}

Sorted(items) == CHOOSE s \in Arranged(items) : InOrder(s)

\* Mutant of CanonicalQuery: a name has one value.
CanonicalQuery_Dict(query) ==
  Sorted(SelectSeq(query, LAMBDA a :
           \A i \in DOMAIN query : query[i][1] = a[1] => query[i][2] <= a[2]))

\* Mutant of CanonicalQuery: items stay as they were sent.
CanonicalQuery_Sent(query) == query

\* urlencode(sorted(items)).
CanonicalQuery(query) == Sorted(query)

HeaderValues(headers) ==
  Joined([i \in DOMAIN Header |-> Header[i] \o <<Is>> \o headers[i]], And)

BuildCacheKey(q) ==
  Joined(<<q.path, CanonicalQuery(q.query), HeaderValues(q.headers), q.identity>>, Bar)

\* A request finds the response of another one with its key.
Ask(q) ==
  /\ answer = "none"
  /\ request' = q
  /\ answer' = IF BuildCacheKey(q) = BuildCacheKey(stored) THEN "stored" ELSE "own"
  /\ UNCHANGED stored

\* Otherwise it stores its own.
Store ==
  /\ answer # "none"
  /\ stored' = IF answer = "own" THEN request ELSE stored
  /\ request' = stored' /\ answer' = "none"

Next == (\E q \in Request : Ask(q)) \/ Store
Spec == Init /\ [][Next]_vars

--------------------------------------------------------------------------------
(* Properties.                                                             *)

\* The requests agree in everything a key is made of: path, every item of the query with
\* its repetitions, varying headers, identity.
Agree(a, b) ==
  /\ a.path = b.path /\ a.headers = b.headers /\ a.identity = b.identity
  /\ a.query \in Arranged(b.query)

\* No separator in the path and the header values, where none is escaped; the identity is
\* the last part and may hold any character.
Clean(q) ==
  /\ ~Contains(q.path, Bar)
  /\ \A i \in DOMAIN Header : ~Contains(q.headers[i], Bar) /\ ~Contains(q.headers[i], And)

\* A response is shared by requests only that agree, if neither of them is made to look
\* like another one with separators in its path or headers.
SharedOnlyEqual == answer = "stored" /\ Clean(stored) /\ Clean(request) => Agree(request, stored)

\* Whatever characters the texts hold, separators included: for one path and the same
\* varying headers nobody gets the response of another identity or another query, and
\* requests that differ in the path only, or in one header only, do not share either.
OneDifferenceIsSeen ==
  answer = "stored" =>
    /\ request.path = stored.path /\ request.headers = stored.headers => Agree(request, stored)
    /\ Agree([request EXCEPT !.path = stored.path], stored) => Agree(request, stored)
    /\ \A i \in DOMAIN Header :
         Agree([request EXCEPT !.headers[i] = stored.headers[i]], stored) => Agree(request, stored)

\* The key is stable, with any characters: requests that differ only in the order of their
\* query share.
OrderIsNothing ==
  answer # "none" /\ request.query \in Arranged(stored.query)
    /\ [request EXCEPT !.query = stored.query] = stored
  => answer = "stored"

================================================================================
