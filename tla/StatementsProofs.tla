---------------------------- MODULE StatementsProofs ----------------------------
(***************************************************************************)
(* The theorems about SqlStatements and CacheKeys, as parts of Data: for   *)
(* calls with any number of names, and texts of any length.                *)
(***************************************************************************)
EXTENDS Data, FiniteSetTheorems, SequenceTheorems, WellFoundedInduction, TLAPS

(***************************************************************************)
(* Induction on natural numbers, over a set instead of a predicate.        *)
(***************************************************************************)

\* A set of natural numbers that is not empty has a least element.
LEMMA LeastOfNaturals ==
  ASSUME NEW T \in SUBSET Nat, T # {}
  PROVE  \E x \in T : \A y \in T : x <= y
  <1> DEFINE R == {p \in Nat \X Nat : p[1] < p[2]}
  <1>1. IsWellFoundedOn(R, Nat)
    BY NatLessThanWellFounded DEF OpToRel
  <1>2. \A x, y \in Nat : <<y, x>> \in R <=> y < x
    OBVIOUS
  <1> HIDE DEF R
  <1>3. PICK x \in T : \A y \in T : <<y, x>> \notin R
    BY <1>1, WFMin
  <1>4. ASSUME NEW y \in T PROVE x <= y
    <2>1. x \in Nat /\ y \in Nat /\ <<y, x>> \notin R
      BY <1>3
    <2>2. ~(y < x)
      BY <1>2, <2>1
    <2> QED
      BY <2>1, <2>2
  <1> QED
    BY <1>4

LEMMA InductionOverSet ==
  ASSUME NEW S, 0 \in S, \A n \in Nat : n \in S => n + 1 \in S
  PROVE  Nat \subseteq S
  <1> SUFFICES ASSUME Nat \ S # {} PROVE FALSE
    OBVIOUS
  <1>1. PICK n \in Nat \ S : \A m \in Nat \ S : n <= m
    BY LeastOfNaturals
  <1>2. n # 0 /\ n - 1 \in Nat /\ n - 1 \notin Nat \ S
    BY <1>1
  <1>3. (n - 1) + 1 \in S
    BY <1>2
  <1> QED
    BY <1>1, <1>3

(***************************************************************************)
(* SqlStatements.                                                          *)
(***************************************************************************)

\* FiniteSets and SequencesExt as SqlStatements sees them are the same.
LEMMA SameOperators ==
  ASSUME NEW S
  PROVE  /\ Statements!Cardinality(S) = Cardinality(S)
         /\ Statements!ToSet(S) = {S[i] : i \in DOMAIN S}
  BY DEF Cardinality, Statements!Cardinality, Statements!ToSet

LEMMA LeastFacts ==
  ASSUME NEW S \in SUBSET Nat, S # {} PROVE Statements!Least(S) \in S
  BY LeastOfNaturals DEF Statements!Least

\* Names of a caller and of the library, and those with a suffix.
Front == {Statements!JsonData, Statements!JsonPath, <<"json_index">>}
Numbered == {<<"__object_id_", s>> : s \in Nat}
Given == Name \cup {Statements!ObjectId} \cup Numbered
AnyName == Given \cup Front \cup {Append(n, s) : n \in Given, s \in Nat}
Item == [name : AnyName, value : Statements!Value]
GivenItem == [name : Given, value : Statements!Value]

\* Of 1 + Cardinality(used) different names one is not used.
LEMMA OneIsFree ==
  ASSUME NEW used, IsFiniteSet(used), NEW g,
         DOMAIN g = 1 .. 1 + Cardinality(used), g = [s \in DOMAIN g |-> g[s]],
         \A s, t \in DOMAIN g : g[s] = g[t] => s = t
  PROVE  \E s \in DOMAIN g : g[s] \notin used
  <1> DEFINE N == 1 .. 1 + Cardinality(used)
  <1> SUFFICES ASSUME \A s \in DOMAIN g : g[s] \in used PROVE FALSE
    OBVIOUS
  <1>1. Cardinality(used) \in Nat
    BY FS_CardinalityType
  <1>2. IsFiniteSet(N) /\ Cardinality(N) = 1 + Cardinality(used)
    BY <1>1, FS_Interval
  <1>3. g \in [N -> used]
    OBVIOUS
  <1> HIDE DEF N
  <1>4. \E s, t \in N : s # t /\ g[s] = g[t]
    BY <1>1, <1>2, <1>3, FS_PigeonHole
  <1> QED
    BY <1>4 DEF N

LEMMA AppendFacts ==
  ASSUME Statements!ConstantsAssumption, NEW n \in Given, NEW s \in Nat, NEW t \in Nat,
         Append(n, s) = Append(n, t)
  PROVE  s = t
  <1>1. /\ Len(n) \in Nat /\ n = [i \in 1 .. Len(n) |-> n[i]]
    BY DEF Given, Numbered, Statements!ConstantsAssumption, Statements!ObjectId
  <1> DEFINE S == {n[i] : i \in 1 .. Len(n)} \cup Nat
  <1>2. n \in Seq(S)
    BY <1>1
  <1>3. Append(n, s)[Len(n) + 1] = s /\ Append(n, t)[Len(n) + 1] = t
    BY <1>2, AppendProperties
  <1> QED
    BY <1>3

\* The name that `while unique_key in combined` ends with is not used.
LEMMA UniqueIsNew ==
  ASSUME Statements!ConstantsAssumption, NEW n \in Given, NEW used, IsFiniteSet(used)
  PROVE  Statements!Unique(n, 1, used) \notin used /\ Statements!Unique(n, 1, used) \in AnyName
  <1> DEFINE g == [s \in 1 .. 1 + Cardinality(used) |-> Append(n, s)]
             free == {s \in 1 .. 1 + Cardinality(used) : Append(n, s) \notin used}
  <1>1. Cardinality(used) \in Nat
    BY FS_CardinalityType
  <1>2. \A s, t \in DOMAIN g : g[s] = g[t] => s = t
    BY <1>1, AppendFacts
  <1>3. \E s \in DOMAIN g : g[s] \notin used
    <2>1. DOMAIN g = 1 .. 1 + Cardinality(used) /\ g = [s \in DOMAIN g |-> g[s]]
      OBVIOUS
    <2> HIDE DEF g
    <2> QED
      BY <1>2, <2>1, OneIsFree
  <1>4. free \in SUBSET Nat /\ free # {}
    BY <1>1, <1>3
  <1>5. Statements!Least(free) \in free
    <2> HIDE DEF free
    <2> QED
      BY <1>4, LeastFacts
  <1>6. Statements!Unique(n, 1, used) = IF n \notin used THEN n ELSE Append(n, Statements!Least(free))
    BY SameOperators DEF Statements!Unique
  <1>7. Append(n, Statements!Least(free)) \notin used /\ Statements!Least(free) \in Nat
    BY <1>1, <1>5
  <1> HIDE DEF free
  <1>8. n \in AnyName /\ Append(n, Statements!Least(free)) \in AnyName
    BY <1>7 DEF AnyName
  <1> QED
    BY <1>6, <1>7, <1>8

LEMMA NamesAreFinite ==
  ASSUME NEW S, NEW items \in Seq(S) PROVE IsFiniteSet(Statements!NamesOf(items))
  <1> DEFINE f == [i \in 1 .. Len(items) |-> items[i].name]
  <1>1. Len(items) \in Nat /\ DOMAIN items = 1 .. Len(items)
    BY LenProperties
  <1>2. f \in Surjection(1 .. Len(items), Statements!NamesOf(items))
    BY <1>1 DEF Surjection, Statements!NamesOf
  <1>3. IsFiniteSet(1 .. Len(items))
    BY <1>1, FS_Interval
  <1> QED
    BY <1>2, <1>3, FS_Surjection

\* What is bound after the first dictionary's values and n of the second's.
Steps(first, second, n) ==
  LET combined[m \in 0 .. n] ==
        IF m = 0 THEN first
        ELSE Statements!Assign(combined[m - 1],
               [second[m] EXCEPT !.name = Statements!Unique(@, 1, Statements!NamesOf(combined[m - 1]))])
  IN combined

\* The definition by recursion has a solution.
LEMMA StepsExist ==
  ASSUME NEW first, NEW second, NEW k \in Nat
  PROVE  Steps(first, second, k) =
           [m \in 0 .. k |->
              IF m = 0 THEN first
              ELSE Statements!Assign(Steps(first, second, k)[m - 1],
                     [second[m] EXCEPT !.name =
                        Statements!Unique(@, 1, Statements!NamesOf(Steps(first, second, k)[m - 1]))])]
  <1> DEFINE Next1(c, m) == Statements!Assign(c,
                            [second[m] EXCEPT !.name = Statements!Unique(@, 1, Statements!NamesOf(c))])
             Is(f, j) == f = [m \in 0 .. j |-> IF m = 0 THEN first ELSE Next1(f[m - 1], m)]
             S == {j \in Nat : \E f : Is(f, j)}
  <1>1. 0 \in S
    <2>1. Is([m \in 0 .. 0 |-> first], 0)
      OBVIOUS
    <2> QED
      BY <2>1
  <1>2. ASSUME NEW j \in Nat, j \in S PROVE j + 1 \in S
    <2>1. PICK f : Is(f, j)
      BY <1>2
    <2> DEFINE g == [m \in 0 .. j + 1 |-> IF m = j + 1 THEN Next1(f[j], j + 1) ELSE f[m]]
    <2> HIDE DEF Next1
    <2>2. \A m \in 0 .. j : g[m] = f[m] /\ f[m] = IF m = 0 THEN first ELSE Next1(f[m - 1], m)
      BY <2>1
    <2>3. ASSUME NEW m \in 0 .. j + 1
          PROVE  g[m] = IF m = 0 THEN first ELSE Next1(g[m - 1], m)
      <3>1. CASE m = j + 1
        <4>1. m - 1 = j /\ j \in 0 .. j /\ m # 0
          BY <3>1
        <4> QED
          BY <2>2, <3>1, <4>1
      <3>2. CASE m # j + 1
        <4>1. m \in 0 .. j /\ (m # 0 => m - 1 \in 0 .. j)
          BY <3>2
        <4> QED
          BY <2>2, <4>1
      <3> QED
        BY <3>1, <3>2
    <2>4. g = [m \in 0 .. j + 1 |-> g[m]]
      OBVIOUS
    <2>5. Is(g, j + 1)
      <3> HIDE DEF g
      <3> QED
        BY <2>3, <2>4
    <2> HIDE DEF g, Is
    <2> QED
      BY <2>5
  <1>3. \E f : Is(f, k)
    <2>1. k \in S
      <3> HIDE DEF S
      <3> QED
        BY <1>1, <1>2, InductionOverSet
    <2> QED
      BY <2>1
  <1> QED
    BY <1>3, Zenon DEF Steps

\* combine_bound_values: the first dictionary's values, and the second's after them.
LEMMA CombineFacts ==
  ASSUME Statements!ConstantsAssumption, NEW first \in Seq(Item), NEW second \in Seq(GivenItem)
  PROVE  LET c == Statements!CombineBoundValues(first, second)
         IN /\ c \in Seq(Item) /\ Len(c) = Len(first) + Len(second)
            /\ \A i \in 1 .. Len(first) : c[i].value = first[i].value
            /\ \A j \in 1 .. Len(second) : c[Len(first) + j].value = second[j].value
  <1> DEFINE k == Len(second)
             s == Steps(first, second, k)
             Holds(c, n) == /\ c \in Seq(Item) /\ Len(c) = Len(first) + n
                            /\ \A i \in 1 .. Len(first) : c[i].value = first[i].value
                            /\ \A j \in 1 .. n : c[Len(first) + j].value = second[j].value
             S == {n \in Nat : n <= k => Holds(s[n], n)}
  <1>1. k \in Nat /\ Len(first) \in Nat
    BY LenProperties
  <1> DEFINE added(c, n) ==
        [second[n] EXCEPT !.name = Statements!Unique(@, 1, Statements!NamesOf(c))]
  <1>2. s = [m \in 0 .. k |-> IF m = 0 THEN first ELSE Statements!Assign(s[m - 1], added(s[m - 1], m))]
    BY <1>1, StepsExist
  <1> HIDE DEF s
  <1>3. s[0] = first /\ \A n \in Nat : n + 1 <= k => s[n + 1] = Statements!Assign(s[n], added(s[n], n + 1))
    <2> HIDE DEF added
    <2>1. 0 \in 0 .. k /\ \A n \in Nat : n + 1 <= k => n + 1 \in 0 .. k /\ (n + 1) - 1 = n /\ n + 1 # 0
      BY <1>1
    <2> QED
      BY <1>2, <2>1
  <1>4. 0 \in S
    BY <1>1, <1>3
  <1>5. ASSUME NEW n \in Nat, n \in S PROVE n + 1 \in S
    <2> SUFFICES ASSUME n + 1 <= k PROVE Holds(s[n + 1], n + 1)
      OBVIOUS
    <2> DEFINE c == s[n]
               item == added(c, n + 1)
               name == Statements!Unique(second[n + 1].name, 1, Statements!NamesOf(c))
    <2>1. Holds(c, n)
      BY <1>1, <1>5
    <2>2. second[n + 1] \in GivenItem
      BY <1>1, ElementOfSeq
    <2>3. second[n + 1].name \in Given /\ second[n + 1].value \in Statements!Value
      BY <2>2 DEF GivenItem
    <2>4. name \notin Statements!NamesOf(c) /\ name \in AnyName
      BY <2>1, <2>3, NamesAreFinite, UniqueIsNew
    <2>5. item.name = name /\ item.value = second[n + 1].value /\ item \in Item
      <3> HIDE DEF name
      <3>1. item = [second[n + 1] EXCEPT !.name = name]
        BY DEF name
      <3>2. item = [name |-> name, value |-> second[n + 1].value]
        BY <2>2, <3>1 DEF GivenItem
      <3> QED
        BY <2>3, <2>4, <3>2 DEF Item
    <2>6. s[n + 1] = Append(c, item)
      BY <1>3, <2>4, <2>5 DEF Statements!Assign
    <2> HIDE DEF item, c, name
    <2>7. /\ Append(c, item) \in Seq(Item) /\ Len(Append(c, item)) = Len(c) + 1
          /\ \A i \in 1 .. Len(c) : Append(c, item)[i] = c[i]
          /\ Append(c, item)[Len(c) + 1] = item
      BY <2>1, <2>5, AppendProperties
    <2>8. \A i \in 1 .. Len(first) : Append(c, item)[i].value = first[i].value
      BY <1>1, <2>1, <2>7
    <2>9. ASSUME NEW j \in 1 .. n + 1
          PROVE  Append(c, item)[Len(first) + j].value = second[j].value
      <3>1. CASE j = n + 1
        BY <1>1, <2>1, <2>5, <2>7, <3>1
      <3>2. CASE j # n + 1
        <4>1. j \in 1 .. n /\ Len(first) + j \in 1 .. Len(c)
          BY <1>1, <2>1, <3>2
        <4> QED
          BY <2>1, <2>7, <4>1
      <3> QED
        BY <3>1, <3>2
    <2>10. Len(Append(c, item)) = Len(first) + (n + 1)
      BY <1>1, <2>1, <2>7
    <2> QED
      BY <2>6, <2>7, <2>8, <2>9, <2>10
  <1>6. k \in S
    <2> HIDE DEF S
    <2> QED
      BY <1>1, <1>4, <1>5, InductionOverSet
  <1>7. Statements!CombineBoundValues(first, second) = s[k]
    BY DEF Statements!CombineBoundValues, Steps, s
  <1> QED
    BY <1>1, <1>6, <1>7

Place == [at : Nat \ {0}, means : Statements!Value]

\* A statement in which every placeholder stands for the value that it was written for,
\* with n values.
Sound(st, n) ==
  /\ st.sent \in BOOLEAN /\ st.places \in Seq(Place) /\ st.bound \in Seq(Statements!Value)
  /\ \A i \in DOMAIN st.places : /\ st.places[i].at \in DOMAIN st.bound
                                 /\ st.bound[st.places[i].at] = st.places[i].means
  /\ st.sent => Len(st.bound) = n

LEMMA ElementFacts ==
  /\ \A s \in Seq(Item) : \A i \in 1 .. Len(s) : s[i] \in Item /\ s[i].value \in Statements!Value
  /\ \A s \in Seq(GivenItem) : \A i \in 1 .. Len(s) : s[i] \in GivenItem /\ s[i].value \in Statements!Value
  /\ \A s \in Seq(Place) : \A i \in 1 .. Len(s) : s[i].at \in Nat \ {0}
  <1>1. /\ \A x \in Item : x.value \in Statements!Value
        /\ \A x \in GivenItem : x.value \in Statements!Value
        /\ \A x \in Place : x.at \in Nat \ {0}
    BY DEF Item, GivenItem, Place
  <1>2. \A S : \A s \in Seq(S) : \A i \in 1 .. Len(s) : s[i] \in S
    BY ElementOfSeq
  <1> QED
    BY <1>1, <1>2

LEMMA RefusedIsSound == ASSUME NEW n PROVE Sound(Statements!Refused, n)
  BY DEF Sound, Statements!Refused

\* What goes to asyncpg, given the placeholders.
LEMMA StatementFacts ==
  ASSUME NEW places \in Seq(Place), NEW items \in Seq(Item),
         \A i \in DOMAIN places : places[i].at <= Len(items) /\ places[i].means = items[places[i].at].value
  PROVE  Sound(Statements!Statement(places, items), Len(items))
  <1> DEFINE bound == [i \in DOMAIN items |-> items[i].value]
  <1>1. Len(items) \in Nat /\ DOMAIN items = 1 .. Len(items) /\ DOMAIN places = 1 .. Len(places)
    BY LenProperties
  <1>2. \A i \in 1 .. Len(items) : items[i].value \in Statements!Value
    BY ElementFacts
  <1>3. bound \in Seq(Statements!Value) /\ Len(bound) = Len(items) /\ DOMAIN bound = 1 .. Len(items)
    BY <1>1, <1>2
  <1>4. \A i \in 1 .. Len(items) : bound[i] = items[i].value
    BY <1>1
  <1> HIDE DEF bound
  <1>5. ASSUME NEW i \in DOMAIN places
        PROVE  places[i].at \in DOMAIN bound /\ bound[places[i].at] = places[i].means
    <2>1. places[i].at \in 1 .. Len(items)
      BY <1>1, ElementFacts
    <2> QED
      BY <1>3, <1>4, <2>1
  <1>6. Statements!Statement(places, items) = [sent |-> TRUE, places |-> places, bound |-> bound]
    BY DEF Statements!Statement, bound
  <1> QED
    BY <1>3, <1>5, <1>6 DEF Sound

LEMMA AssignmentsFacts ==
  ASSUME NEW items \in Seq(Item)
  PROVE  LET places == Statements!Assignments(items)
         IN /\ places \in Seq(Place) /\ Len(places) = Len(items) /\ DOMAIN places = 1 .. Len(items)
            /\ \A i \in 1 .. Len(items) : places[i].at = i /\ places[i].means = items[i].value
  <1>1. Len(items) \in Nat /\ DOMAIN items = 1 .. Len(items)
    BY LenProperties
  <1>2. \A i \in 1 .. Len(items) : [at |-> i, means |-> items[i].value] \in Place
    BY <1>1, ElementFacts DEF Place
  <1> QED
    BY <1>1, <1>2 DEF Statements!Assignments

\* prepare_where: each name becomes the position of a parameter of that name.
LEMMA PrepareFacts ==
  ASSUME NEW where \in Seq(Given), NEW params \in Seq(GivenItem), NEW index \in Nat,
         Statements!ToSet(where) \subseteq Statements!NamesOf(params)
  PROVE  LET places == Statements!PrepareWhere(where, params, index)
         IN /\ places \in Seq(Place) /\ Len(places) = Len(where) /\ DOMAIN places = 1 .. Len(where)
            /\ \A i \in 1 .. Len(where) : \E p \in 1 .. Len(params) :
                 /\ places[i].at = index + p /\ places[i].means = params[p].value
                 /\ params[p].name = where[i]
  <1> DEFINE places == Statements!PrepareWhere(where, params, index)
             at(i) == Statements!Position(where[i], params)
  <1>1. /\ Len(where) \in Nat /\ DOMAIN where = 1 .. Len(where)
        /\ Len(params) \in Nat /\ DOMAIN params = 1 .. Len(params)
    BY LenProperties
  <1>2. ASSUME NEW i \in 1 .. Len(where)
        PROVE  at(i) \in 1 .. Len(params) /\ params[at(i)].name = where[i]
    <2>1. where[i] \in Statements!NamesOf(params)
      BY <1>1, SameOperators
    <2>2. \E p \in DOMAIN params : params[p].name = where[i]
      BY <2>1 DEF Statements!NamesOf
    <2>3. at(i) \in DOMAIN params /\ params[at(i)].name = where[i]
      BY <2>2, Zenon DEF Statements!Position
    <2> QED
      BY <1>1, <2>3
  <1> HIDE DEF at
  <1>3. places = [i \in 1 .. Len(where) |-> [at |-> index + at(i), means |-> params[at(i)].value]]
    BY <1>1 DEF at, Statements!PrepareWhere
  <1>4. \A i \in 1 .. Len(where) : [at |-> index + at(i), means |-> params[at(i)].value] \in Place
    <2>1. TAKE i \in 1 .. Len(where)
    <2>2. index + at(i) \in Nat \ {0} /\ params[at(i)].value \in Statements!Value
      BY <1>1, <1>2, ElementFacts
    <2> QED
      BY <2>2 DEF Place
  <1> HIDE DEF places
  <1>5. places \in Seq(Place) /\ Len(places) = Len(where) /\ DOMAIN places = 1 .. Len(where)
    BY <1>1, <1>3, <1>4
  <1>6. \A i \in 1 .. Len(where) : places[i].at = index + at(i) /\ places[i].means = params[at(i)].value
    BY <1>3
  <1> QED
    BY <1>2, <1>5, <1>6 DEF places

LEMMA GivenItems == ASSUME NEW items \in Seq(GivenItem) PROVE items \in Seq(Item)
  <1>1. GivenItem \subseteq Item
    BY DEF GivenItem, Item, AnyName
  <1>2. \A i \in 1 .. Len(items) : items[i] \in Item
    BY <1>1, ElementOfSeq
  <1> QED
    BY <1>2

\* The scope of a delete, a select or a count.
LEMMA ScopeIsSound ==
  ASSUME NEW where \in Seq(Given), NEW params \in Seq(GivenItem),
         Statements!ToSet(where) \subseteq Statements!NamesOf(params)
  PROVE  Sound(Statements!Statement(Statements!PrepareWhere(where, params, 0), params), Len(params))
  <1> DEFINE places == Statements!PrepareWhere(where, params, 0)
  <1>1. /\ places \in Seq(Place) /\ DOMAIN places = 1 .. Len(where)
        /\ \A i \in 1 .. Len(where) : \E p \in 1 .. Len(params) :
             places[i].at = 0 + p /\ places[i].means = params[p].value
    BY PrepareFacts
  <1> HIDE DEF places
  <1>2. params \in Seq(Item) /\ Len(params) \in Nat
    BY GivenItems, LenProperties
  <1>3. \A i \in DOMAIN places : places[i].at <= Len(params) /\ places[i].means = params[places[i].at].value
    BY <1>1, <1>2
  <1>4. Sound(Statements!Statement(places, params), Len(params))
    BY <1>1, <1>2, <1>3, StatementFacts
  <1> QED
    BY <1>4 DEF places

\* Assignments and a scope after them: update and the writes of JsonbManager.
LEMMA WriteIsSound ==
  ASSUME Statements!ConstantsAssumption,
         NEW first \in Seq(Item), NEW where \in Seq(Given), NEW params \in Seq(GivenItem),
         Statements!ToSet(where) \subseteq Statements!NamesOf(params)
  PROVE  Sound(Statements!Statement(
                 Statements!Assignments(first) \o Statements!PrepareWhere(where, params, Len(first)),
                 Statements!CombineBoundValues(first, params)), Len(first) + Len(params))
  <1> DEFINE a == Statements!Assignments(first)
             w == Statements!PrepareWhere(where, params, Len(first))
             c == Statements!CombineBoundValues(first, params)
  <1>1. Len(first) \in Nat /\ Len(params) \in Nat /\ Len(where) \in Nat
    BY LenProperties
  <1>2. /\ a \in Seq(Place) /\ Len(a) = Len(first)
        /\ \A i \in 1 .. Len(first) : a[i].at = i /\ a[i].means = first[i].value
    BY AssignmentsFacts
  <1>3. /\ w \in Seq(Place) /\ Len(w) = Len(where)
        /\ \A i \in 1 .. Len(where) : \E p \in 1 .. Len(params) :
             w[i].at = Len(first) + p /\ w[i].means = params[p].value
    BY <1>1, PrepareFacts
  <1>4. /\ c \in Seq(Item) /\ Len(c) = Len(first) + Len(params)
        /\ \A i \in 1 .. Len(first) : c[i].value = first[i].value
        /\ \A j \in 1 .. Len(params) : c[Len(first) + j].value = params[j].value
    BY CombineFacts
  <1> HIDE DEF a, w, c
  <1>5. /\ a \o w \in Seq(Place) /\ DOMAIN (a \o w) = 1 .. Len(first) + Len(where)
        /\ \A i \in 1 .. Len(first) + Len(where) :
             (a \o w)[i] = IF i <= Len(first) THEN a[i] ELSE w[i - Len(first)]
    <2>1. a \in Seq(Place) /\ w \in Seq(Place)
      BY <1>2, <1>3
    <2>2. /\ a \o w \in Seq(Place) /\ Len(a \o w) = Len(a) + Len(w)
          /\ \A i \in 1 .. Len(a) + Len(w) : (a \o w)[i] = IF i <= Len(a) THEN a[i] ELSE w[i - Len(a)]
      BY <2>1, ConcatProperties
    <2>3. DOMAIN (a \o w) = 1 .. Len(a \o w)
      BY <2>2, LenProperties
    <2> QED
      BY <1>2, <1>3, <2>2, <2>3
  <1>6. ASSUME NEW i \in DOMAIN (a \o w)
        PROVE  (a \o w)[i].at <= Len(c) /\ (a \o w)[i].means = c[(a \o w)[i].at].value
    <2>1. CASE i <= Len(first)
      BY <1>1, <1>2, <1>4, <1>5, <2>1
    <2>2. CASE ~(i <= Len(first))
      <3>1. i - Len(first) \in 1 .. Len(where) /\ (a \o w)[i] = w[i - Len(first)]
        BY <1>1, <1>5, <2>2
      <3>2. PICK p \in 1 .. Len(params) :
              w[i - Len(first)].at = Len(first) + p /\ w[i - Len(first)].means = params[p].value
        BY <1>3, <3>1
      <3>3. Len(first) + p <= Len(c) /\ c[Len(first) + p].value = params[p].value
        BY <1>1, <1>4
      <3> QED
        BY <3>1, <3>2, <3>3
    <2> QED
      BY <2>1, <2>2
  <1>7. Sound(Statements!Statement(a \o w, c), Len(c))
    BY <1>4, <1>5, <1>6, StatementFacts
  <1> QED
    BY <1>4, <1>7 DEF a, w, c

LEMMA ItemsFacts ==
  ASSUME NEW names \in Seq(Name), NEW from \in {"data", "param"}
  PROVE  LET items == Statements!Items(from, names)
         IN /\ items \in Seq(GivenItem) /\ Len(items) = Len(names) /\ DOMAIN items = 1 .. Len(names)
            /\ \A i \in 1 .. Len(names) : items[i].name = names[i] /\ items[i].value = <<from, names[i]>>
  <1>1. Len(names) \in Nat /\ DOMAIN names = 1 .. Len(names)
    BY LenProperties
  <1>2. \A i \in 1 .. Len(names) : [name |-> names[i], value |-> <<from, names[i]>>] \in GivenItem
    BY <1>1, ElementOfSeq DEF GivenItem, Given, Statements!Value
  <1> QED
    BY <1>1, <1>2 DEF Statements!Items

LEMMA GivenNames == ASSUME NEW names \in Seq(Name) PROVE names \in Seq(Given)
  <1>1. \A i \in 1 .. Len(names) : names[i] \in Given
    BY ElementOfSeq DEF Given
  <1> QED
    BY <1>1

\* The name of the record's own id is the caller's neither in the where nor among its
\* parameters.
LEMMA ObjectIdIsNew ==
  ASSUME NEW where \in Seq(Given), NEW params \in Seq(GivenItem)
  PROVE  LET name == Statements!ObjectIdName(where, params)
         IN name \in Given /\ name \notin Statements!NamesOf(params) \cup Statements!ToSet(where)
  <1> DEFINE used == Statements!NamesOf(params) \cup Statements!ToSet(where)
             g == [s \in 1 .. 1 + Cardinality(used) |-> <<"__object_id_", s>>]
             free == {s \in 1 .. 1 + Cardinality(used) : <<"__object_id_", s>> \notin used}
  <1>1. IsFiniteSet(used)
    <2>1. IsFiniteSet(Statements!NamesOf(params))
      BY NamesAreFinite
    <2>2. Len(where) \in Nat /\ DOMAIN where = 1 .. Len(where) /\ IsFiniteSet(1 .. Len(where))
      BY LenProperties, FS_Interval
    <2> DEFINE f == [i \in 1 .. Len(where) |-> where[i]]
    <2>3. f \in Surjection(1 .. Len(where), Statements!ToSet(where))
      BY <2>2, SameOperators DEF Surjection
    <2>4. IsFiniteSet(Statements!ToSet(where))
      BY <2>2, <2>3, FS_Surjection
    <2> QED
      BY <2>1, <2>4, FS_Union
  <1>2. Cardinality(used) \in Nat
    BY <1>1, FS_CardinalityType
  <1> HIDE DEF used
  <1>3. \E s \in 1 .. 1 + Cardinality(used) : g[s] \notin used
    <2>1. /\ DOMAIN g = 1 .. 1 + Cardinality(used) /\ g = [s \in DOMAIN g |-> g[s]]
          /\ \A s, t \in DOMAIN g : g[s] = g[t] => s = t
      OBVIOUS
    <2> HIDE DEF g
    <2> QED
      BY <1>1, <2>1, OneIsFree
  <1>4. free \in SUBSET Nat /\ free # {}
    BY <1>2, <1>3
  <1>5. Statements!Least(free) \in free
    <2> HIDE DEF free
    <2> QED
      BY <1>4, LeastFacts
  <1>6. Statements!ObjectIdName(where, params) =
          IF Statements!ObjectId \notin used THEN Statements!ObjectId
          ELSE <<"__object_id_", Statements!Least(free)>>
    BY SameOperators DEF Statements!ObjectIdName, used
  <1>7. <<"__object_id_", Statements!Least(free)>> \notin used /\ Statements!Least(free) \in Nat
    BY <1>2, <1>5
  <1> HIDE DEF free
  <1> QED
    BY <1>6, <1>7 DEF used, Given, Numbered

OwnScope(where, params) == Statements!WriteScope(where, params, TRUE)

\* _write_scope: the caller's predicate, and the id of the record.
LEMMA WriteScopeFacts ==
  ASSUME NEW where \in Seq(Given), NEW params \in Seq(GivenItem)
  PROVE  LET scope == OwnScope(where, params)
             name == Statements!ObjectIdName(where, params)
         IN /\ scope.where \in Seq(Given) /\ Len(scope.where) = Len(where) + 1
            /\ scope.params \in Seq(GivenItem) /\ Len(scope.params) = Len(params) + 1
            /\ scope.where[Len(where) + 1] = name
            /\ \A j \in 1 .. Len(where) : scope.where[j] = where[j] /\ where[j] # name
            /\ scope.params[Len(params) + 1] =
                 [name |-> name, value |-> <<"own", Statements!ObjectId>>]
            /\ \A p \in 1 .. Len(params) : scope.params[p] = params[p] /\ params[p].name # name
  <1> DEFINE name == Statements!ObjectIdName(where, params)
             item == [name |-> name, value |-> <<"own", Statements!ObjectId>>]
  <1>1. name \in Given /\ name \notin Statements!NamesOf(params) /\ name \notin Statements!ToSet(where)
    BY ObjectIdIsNew
  <1> HIDE DEF name
  <1>2. item \in GivenItem /\ item.name = name
    BY <1>1 DEF GivenItem, Statements!Value
  <1>3. Statements!Assign(params, item) = Append(params, item)
    BY <1>1, <1>2 DEF Statements!Assign
  <1>4. /\ OwnScope(where, params).where = Append(where, name)
        /\ OwnScope(where, params).params = Append(params, item)
    BY <1>3 DEF OwnScope, Statements!WriteScope, name
  <1>5. /\ Append(where, name) \in Seq(Given) /\ Len(Append(where, name)) = Len(where) + 1
        /\ \A j \in 1 .. Len(where) : Append(where, name)[j] = where[j]
        /\ Append(where, name)[Len(where) + 1] = name
    BY <1>1, AppendProperties
  <1>6. /\ Append(params, item) \in Seq(GivenItem) /\ Len(Append(params, item)) = Len(params) + 1
        /\ \A j \in 1 .. Len(params) : Append(params, item)[j] = params[j]
        /\ Append(params, item)[Len(params) + 1] = item
    BY <1>2, AppendProperties
  <1>7. \A j \in 1 .. Len(where) : where[j] # name
    BY <1>1, SameOperators, LenProperties
  <1>8. \A p \in 1 .. Len(params) : params[p].name # name
    BY <1>1, LenProperties DEF Statements!NamesOf
  <1> HIDE DEF item
  <1> QED
    BY <1>4, <1>5, <1>6, <1>7, <1>8 DEF name, item

LEMMA ItemFields ==
  ASSUME NEW n, NEW v
  PROVE  [name |-> n, value |-> v].name = n /\ [name |-> n, value |-> v].value = v
  OBVIOUS

\* Whichever value index the scope begins at, its last placeholder stands for the
\* record's own id, and the caller's names stand for the caller's values.
LEMMA OwnIdPlaced ==
  ASSUME NEW where \in Seq(Name), NEW names \in Seq(Name), NEW index \in Nat,
         Statements!ToSet(OwnScope(where, Statements!Items("param", names)).where)
           \subseteq Statements!NamesOf(OwnScope(where, Statements!Items("param", names)).params)
  PROVE  LET scope == OwnScope(where, Statements!Items("param", names))
             places == Statements!PrepareWhere(scope.where, scope.params, index)
         IN /\ places[Len(where) + 1].means = <<"own", Statements!ObjectId>>
            /\ \A j \in 1 .. Len(where) : places[j].means = <<"param", where[j]>>
  <1> DEFINE params == Statements!Items("param", names)
             own == Statements!ObjectIdName(where, params)
             w == OwnScope(where, params).where
             ps == OwnScope(where, params).params
             places == Statements!PrepareWhere(w, ps, index)
  <1>1. where \in Seq(Given) /\ Len(where) \in Nat
    BY GivenNames, LenProperties
  <1>2. /\ params \in Seq(GivenItem) /\ Len(params) = Len(names) /\ Len(names) \in Nat
        /\ \A i \in 1 .. Len(names) : params[i].name = names[i] /\ params[i].value = <<"param", names[i]>>
    BY ItemsFacts, LenProperties
  <1> HIDE DEF params
  <1>3. /\ w \in Seq(Given) /\ Len(w) = Len(where) + 1
        /\ ps \in Seq(GivenItem) /\ Len(ps) = Len(params) + 1
        /\ w[Len(where) + 1] = own
        /\ \A j \in 1 .. Len(where) : w[j] = where[j] /\ where[j] # own
        /\ ps[Len(params) + 1] =
             [name |-> own, value |-> <<"own", Statements!ObjectId>>]
        /\ \A p \in 1 .. Len(params) : ps[p] = params[p] /\ params[p].name # own
    BY <1>1, <1>2, WriteScopeFacts
  <1>0. Statements!ToSet(w) \subseteq Statements!NamesOf(ps)
    BY DEF params
  <1> HIDE DEF w, ps
  <1>4. \A i \in 1 .. Len(w) : \E p \in 1 .. Len(ps) :
          places[i].means = ps[p].value /\ ps[p].name = w[i]
    BY <1>0, <1>3, PrepareFacts
  <1> HIDE DEF places, own
  <1>5. ASSUME NEW i \in 1 .. Len(where) + 1
        PROVE  \E p \in 1 .. Len(params) + 1 :
                 places[i].means = ps[p].value /\ ps[p].name = w[i]
    <2>1. i \in 1 .. Len(w)
      BY <1>3
    <2>2. Len(ps) = Len(params) + 1
      BY <1>3
    <2> QED
      BY <1>4, <2>1, <2>2
  <1>6. ASSUME NEW p \in 1 .. Len(params) + 1
        PROVE  \/ p = Len(params) + 1
               \/ p \in 1 .. Len(names) /\ ps[p] = params[p] /\ params[p].name # own
    <2>1. p = Len(params) + 1 \/ p \in 1 .. Len(params)
      BY <1>2
    <2> QED
      BY <1>2, <1>3, <2>1
  <1>7. /\ ps[Len(params) + 1].name = own
        /\ ps[Len(params) + 1].value = <<"own", Statements!ObjectId>>
    <2>1. ps[Len(params) + 1] = [name |-> own, value |-> <<"own", Statements!ObjectId>>]
      BY <1>3
    <2> DEFINE x == ps[Len(params) + 1]
               v == <<"own", Statements!ObjectId>>
    <2>2. x = [name |-> own, value |-> v]
      BY <2>1
    <2> HIDE DEF x, v
    <2>3. x.name = own /\ x.value = v
      BY <2>2
    <2> QED
      BY <2>3 DEF x, v
  <1>8. \A j \in 1 .. Len(where) : w[j] = where[j] /\ where[j] # own
    BY <1>3
  <1>9. places[Len(where) + 1].means = <<"own", Statements!ObjectId>>
    <2>1. Len(where) + 1 \in 1 .. Len(where) + 1
      BY <1>1
    <2>2. PICK p \in 1 .. Len(params) + 1 :
            places[Len(where) + 1].means = ps[p].value /\ ps[p].name = own
      BY <1>3, <1>5, <2>1
    <2>3. p = Len(params) + 1
      BY <1>6, <2>2
    <2> QED
      BY <1>7, <2>2, <2>3
  <1>10. ASSUME NEW j \in 1 .. Len(where) PROVE places[j].means = <<"param", where[j]>>
    <2>1. j \in 1 .. Len(where) + 1 /\ w[j] = where[j] /\ where[j] # own
      <3>1. j \in 1 .. Len(where) + 1
        BY <1>1
      <3>2. w[j] = where[j] /\ where[j] # own
        BY <1>8
      <3> QED
        BY <3>1, <3>2
    <2>2. PICK p \in 1 .. Len(params) + 1 :
            places[j].means = ps[p].value /\ ps[p].name = where[j]
      BY <1>5, <2>1
    <2>3. CASE p = Len(params) + 1
      BY <1>7, <2>1, <2>2, <2>3
    <2>4. CASE p \in 1 .. Len(names) /\ ps[p] = params[p]
      BY <1>2, <2>2, <2>4
    <2> QED
      BY <1>6, <2>3, <2>4
  <1> QED
    BY <1>9, <1>10 DEF places, w, ps, params

\* insert and update_all.
LEMMA InsertIsSound ==
  ASSUME NEW data_ \in Seq(Name) PROVE Sound(Statements!Insert(data_), Len(data_))
  <1> DEFINE items == Statements!Items("data", data_)
             places == Statements!Assignments(items)
  <1>1. items \in Seq(Item) /\ Len(items) = Len(data_) /\ Len(data_) \in Nat
    BY ItemsFacts, GivenItems, LenProperties
  <1> HIDE DEF items
  <1>2. /\ places \in Seq(Place) /\ DOMAIN places = 1 .. Len(items)
        /\ \A i \in 1 .. Len(items) : places[i].at = i /\ places[i].means = items[i].value
    BY <1>1, AssignmentsFacts
  <1> HIDE DEF places
  <1>3. \A i \in DOMAIN places : places[i].at <= Len(items) /\ places[i].means = items[places[i].at].value
    BY <1>1, <1>2
  <1>4. Sound(Statements!Statement(places, items), Len(data_))
    BY <1>1, <1>2, <1>3, StatementFacts
  <1> QED
    BY <1>4, RefusedIsSound DEF Statements!Insert, places, items

LEMMA UpdateIsSound ==
  ASSUME Statements!ConstantsAssumption,
         NEW where \in Seq(Given), NEW params \in Seq(GivenItem), NEW data_ \in Seq(Name)
  PROVE  Sound(Statements!Update(where, params, data_), Len(data_) + Len(params))
  <1> DEFINE columns == Statements!Items("data", data_)
  <1>1. columns \in Seq(Item) /\ Len(columns) = Len(data_)
    BY ItemsFacts, GivenItems
  <1> HIDE DEF columns
  <1>2. ASSUME Statements!Preparable(where, params)
        PROVE  Sound(Statements!Statement(
                       Statements!Assignments(columns) \o Statements!PrepareWhere(where, params, Len(columns)),
                       Statements!CombineBoundValues(columns, params)), Len(data_) + Len(params))
    <2>1. Statements!ToSet(where) \subseteq Statements!NamesOf(params)
      BY <1>2 DEF Statements!Preparable
    <2> QED
      BY <1>1, <2>1, WriteIsSound
  <1> QED
    BY <1>2, RefusedIsSound DEF Statements!Update, columns

LEMMA ScopesAreSound ==
  ASSUME NEW where \in Seq(Given), NEW params \in Seq(GivenItem)
  PROVE  /\ Sound(Statements!Scoped(where, params), Len(params))
         /\ Sound(Statements!Unscoped(where, params), Len(params))
  <1>1. ASSUME Statements!Preparable(where, params) \/ where = <<>>
        PROVE  Sound(Statements!Statement(Statements!PrepareWhere(where, params, 0), params), Len(params))
    <2>1. Statements!ToSet(where) \subseteq Statements!NamesOf(params)
      BY <1>1, SameOperators DEF Statements!Preparable
    <2> QED
      BY <2>1, ScopeIsSound
  <1> QED
    BY <1>1, RefusedIsSound DEF Statements!Scoped, Statements!Unscoped

LEMMA JsonbIsSound ==
  ASSUME Statements!ConstantsAssumption,
         NEW first \in Seq(Front), NEW where \in Seq(Given), NEW params \in Seq(GivenItem)
  PROVE  Sound(Statements!Jsonb(first, where, params), Len(first) + Len(params))
  <1> DEFINE front == Statements!Items("json", first)
  <1>1. front \in Seq(Item) /\ Len(front) = Len(first)
    <2>1. Len(first) \in Nat /\ DOMAIN first = 1 .. Len(first)
      BY LenProperties
    <2>2. ASSUME NEW i \in 1 .. Len(first)
          PROVE  [name |-> first[i], value |-> <<"json", first[i]>>] \in Item
      <3>1. first[i] \in Front
        BY ElementOfSeq
      <3> QED
        BY <3>1 DEF Front, Item, AnyName, Statements!Value
    <2> QED
      BY <2>1, <2>2 DEF Statements!Items
  <1> HIDE DEF front
  <1>2. ASSUME Statements!Preparable(where, params)
        PROVE  Sound(Statements!Statement(
                       Statements!Assignments(front) \o Statements!PrepareWhere(where, params, Len(front)),
                       Statements!CombineBoundValues(front, params)), Len(first) + Len(params))
    <2>1. Statements!ToSet(where) \subseteq Statements!NamesOf(params)
      BY <1>2 DEF Statements!Preparable
    <2> QED
      BY <1>1, <2>1, WriteIsSound
  <1> QED
    BY <1>2, RefusedIsSound DEF Statements!Jsonb, front

\* How many values PlaceholdersMatch expects of a call.
OfColumns(c) == IF c.op \in {"insert", "update", "update_all", "model update"} THEN Len(c.data) ELSE 0
OfParams(c) == IF c.op \in {"insert", "update_all"} THEN 0 ELSE Len(c.params)
OfRecord(c) == IF c.op \in {"model update", "model delete"} /\ c.own THEN 1 ELSE 0
OfJson(c) == IF c.op \in {"jsonb insert", "jsonb delete"} THEN 1
             ELSE IF c.op = "jsonb update" THEN 2 ELSE 0
Expected(c) == OfColumns(c) + OfParams(c) + OfRecord(c) + OfJson(c)

LEMMA ExpectedFacts ==
  ASSUME NEW c, NEW d \in Nat, NEW n \in Nat, Len(c.data) = d, Len(c.params) = n
  PROVE  /\ c.op \in {"insert", "update_all"} => Expected(c) = d
         /\ c.op = "update" => Expected(c) = d + n
         /\ c.op \in {"delete", "is_exists", "select", "get_count"} => Expected(c) = n
         /\ c.op = "model update" => Expected(c) = d + (n + IF c.own THEN 1 ELSE 0)
         /\ c.op = "model delete" => Expected(c) = n + IF c.own THEN 1 ELSE 0
         /\ c.op \in {"jsonb insert", "jsonb delete"} => Expected(c) = 1 + n
         /\ c.op = "jsonb update" => Expected(c) = 2 + n
  <1> DEFINE own == IF c.own THEN 1 ELSE 0
  <1>0. own \in Nat
    OBVIOUS
  <1>1. ASSUME c.op \in {"insert", "update_all"} PROVE Expected(c) = d
    <2>1. OfColumns(c) = d /\ OfParams(c) = 0 /\ OfRecord(c) = 0 /\ OfJson(c) = 0
      BY <1>1 DEF OfColumns, OfParams, OfRecord, OfJson
    <2> HIDE DEF own
    <2> QED
      BY <1>0, <2>1 DEF Expected
  <1>2. ASSUME c.op = "update" PROVE Expected(c) = d + n
    <2>1. OfColumns(c) = d /\ OfParams(c) = n /\ OfRecord(c) = 0 /\ OfJson(c) = 0
      BY <1>2 DEF OfColumns, OfParams, OfRecord, OfJson
    <2> HIDE DEF own
    <2> QED
      BY <1>0, <2>1 DEF Expected
  <1>3. ASSUME c.op \in {"delete", "is_exists", "select", "get_count"} PROVE Expected(c) = n
    <2>1. OfColumns(c) = 0 /\ OfParams(c) = n /\ OfRecord(c) = 0 /\ OfJson(c) = 0
      BY <1>3 DEF OfColumns, OfParams, OfRecord, OfJson
    <2> HIDE DEF own
    <2> QED
      BY <1>0, <2>1 DEF Expected
  <1>4. ASSUME c.op = "model update" PROVE Expected(c) = d + (n + own)
    <2>1. OfColumns(c) = d /\ OfParams(c) = n /\ OfRecord(c) = own /\ OfJson(c) = 0
      BY <1>4 DEF OfColumns, OfParams, OfRecord, OfJson
    <2> HIDE DEF own
    <2> QED
      BY <1>0, <2>1 DEF Expected
  <1>5. ASSUME c.op = "model delete" PROVE Expected(c) = n + own
    <2>1. OfColumns(c) = 0 /\ OfParams(c) = n /\ OfRecord(c) = own /\ OfJson(c) = 0
      BY <1>5 DEF OfColumns, OfParams, OfRecord, OfJson
    <2> HIDE DEF own
    <2> QED
      BY <1>0, <2>1 DEF Expected
  <1>6. ASSUME c.op \in {"jsonb insert", "jsonb delete"} PROVE Expected(c) = 1 + n
    <2>1. OfColumns(c) = 0 /\ OfParams(c) = n /\ OfRecord(c) = 0 /\ OfJson(c) = 1
      BY <1>6 DEF OfColumns, OfParams, OfRecord, OfJson
    <2> HIDE DEF own
    <2> QED
      BY <1>0, <2>1 DEF Expected
  <1>7. ASSUME c.op = "jsonb update" PROVE Expected(c) = 2 + n
    <2>1. OfColumns(c) = 0 /\ OfParams(c) = n /\ OfRecord(c) = 0 /\ OfJson(c) = 2
      BY <1>7 DEF OfColumns, OfParams, OfRecord, OfJson
    <2> HIDE DEF own
    <2> QED
      BY <1>0, <2>1 DEF Expected
  <1> QED
    BY <1>1, <1>2, <1>3, <1>4, <1>5, <1>6, <1>7

LEMMA BuildIsSound ==
  ASSUME Statements!ConstantsAssumption, NEW c \in Statements!Call
  PROVE  Sound(Statements!Build(c), Expected(c))
  <1> DEFINE params == Statements!Items("param", c.params)
             scope == Statements!WriteScope(c.where, params, c.own)
  <1>1. /\ c.op \in Statements!Operation /\ c.data \in Seq(Name) /\ c.where \in Seq(Name)
        /\ c.params \in Seq(Name) /\ c.own \in BOOLEAN
    BY DEF Statements!Call
  <1>2. c.where \in Seq(Given) /\ params \in Seq(GivenItem) /\ Len(params) = Len(c.params)
    BY <1>1, GivenNames, ItemsFacts
  <1>3. Len(c.data) \in Nat /\ Len(c.params) \in Nat
    BY <1>1, LenProperties
  <1> HIDE DEF params
  <1>4. /\ scope.where \in Seq(Given) /\ scope.params \in Seq(GivenItem)
        /\ Len(scope.params) = Len(c.params) + IF c.own THEN 1 ELSE 0
    <2>1. CASE c.own
      <3>1. scope = OwnScope(c.where, params)
        BY <1>1, <2>1 DEF OwnScope
      <3> HIDE DEF scope
      <3>2. /\ scope.where \in Seq(Given) /\ scope.params \in Seq(GivenItem)
            /\ Len(scope.params) = Len(params) + 1
        BY <1>2, <3>1, WriteScopeFacts
      <3> QED
        BY <1>2, <2>1, <3>2
    <2>2. CASE ~c.own
      <3>1. scope.where = c.where /\ scope.params = params
        BY <2>2 DEF Statements!WriteScope
      <3> HIDE DEF scope
      <3> QED
        BY <1>2, <1>3, <2>2, <3>1
    <2> QED
      BY <2>1, <2>2
  <1> HIDE DEF scope
  <1>5. /\ <<Statements!JsonData>> \in Seq(Front) /\ Len(<<Statements!JsonData>>) = 1
        /\ <<Statements!JsonPath, Statements!JsonData>> \in Seq(Front)
        /\ Len(<<Statements!JsonPath, Statements!JsonData>>) = 2
        /\ <<<<"json_index">>>> \in Seq(Front) /\ Len(<<<<"json_index">>>>) = 1
    <2>1. Statements!JsonData \in Front /\ Statements!JsonPath \in Front /\ <<"json_index">> \in Front
      BY DEF Front
    <2> HIDE DEF Front
    <2> QED
      BY <2>1
  <1>6. CASE c.op \in {"insert", "update_all"}
    <2>1. Statements!Build(c) = Statements!Insert(c.data)
      BY <1>6 DEF Statements!Build, Statements!UpdateAll
    <2>2. Expected(c) = Len(c.data)
      BY <1>3, <1>6, ExpectedFacts
    <2> QED
      BY <1>1, <2>1, <2>2, InsertIsSound
  <1>7. CASE c.op = "update"
    <2>1. Statements!Build(c) = Statements!Update(c.where, params, c.data)
      BY <1>7 DEF Statements!Build, params
    <2>2. Expected(c) = Len(c.data) + Len(params)
      BY <1>2, <1>3, <1>7, ExpectedFacts
    <2> QED
      BY <1>1, <1>2, <2>1, <2>2, UpdateIsSound
  <1>8. CASE c.op \in {"delete", "is_exists", "select", "get_count"}
    <2>1. \/ Statements!Build(c) = Statements!Scoped(c.where, params)
          \/ Statements!Build(c) = Statements!Unscoped(c.where, params)
      BY <1>8 DEF Statements!Build, params
    <2>2. Expected(c) = Len(params)
      BY <1>2, <1>3, <1>8, ExpectedFacts
    <2> QED
      BY <1>2, <2>1, <2>2, ScopesAreSound
  <1>9. CASE c.op = "model update"
    <2>1. Statements!Build(c) = Statements!Update(scope.where, scope.params, c.data)
      BY <1>9 DEF Statements!Build, params, scope
    <2>2. Expected(c) = Len(c.data) + Len(scope.params)
      <3>1. Expected(c) = Len(c.data) + (Len(c.params) + IF c.own THEN 1 ELSE 0)
        BY <1>3, <1>9, ExpectedFacts
      <3> QED
        BY <1>4, <3>1
    <2> QED
      BY <1>1, <1>4, <2>1, <2>2, UpdateIsSound
  <1>10. CASE c.op = "model delete"
    <2>1. Statements!Build(c) = Statements!Scoped(scope.where, scope.params)
      BY <1>10 DEF Statements!Build, params, scope
    <2>2. Expected(c) = Len(scope.params)
      BY <1>1, <1>3, <1>4, <1>10, ExpectedFacts
    <2> QED
      BY <1>4, <2>1, <2>2, ScopesAreSound
  <1>11. CASE c.op \in {"jsonb insert", "jsonb update", "jsonb delete"}
    <2>1. PICK first \in Seq(Front) :
            /\ Statements!Build(c) = Statements!Jsonb(first, c.where, params)
            /\ Len(first) = IF c.op = "jsonb update" THEN 2 ELSE 1
      BY <1>5, <1>11 DEF Statements!Build, params
    <2>2. Expected(c) = Len(first) + Len(params)
      BY <1>2, <1>3, <1>11, <2>1, ExpectedFacts
    <2> QED
      BY <1>2, <2>1, <2>2, JsonbIsSound
  <1> QED
    BY <1>1, <1>6, <1>7, <1>8, <1>9, <1>10, <1>11 DEF Statements!Operation

\* The record's own id is in the scope of its update or delete, beside the caller's names.
Owned(c, st) == c.op \in {"model update", "model delete"} /\ c.own /\ st.sent
OwnId(c, st) ==
  Owned(c, st) =>
    \E i \in DOMAIN st.places :
      /\ st.places[i].means = <<"own", Statements!ObjectId>>
      /\ \A j \in DOMAIN c.where :
           \E k \in DOMAIN st.places \ {i} : st.places[k].means = <<"param", c.where[j]>>

LEMMA BuildHasOwnId ==
  ASSUME Statements!ConstantsAssumption, NEW c \in Statements!Call
  PROVE  OwnId(c, Statements!Build(c))
  <1> SUFFICES ASSUME Owned(c, Statements!Build(c))
               PROVE  \E i \in DOMAIN Statements!Build(c).places :
                        /\ Statements!Build(c).places[i].means = <<"own", Statements!ObjectId>>
                        /\ \A j \in DOMAIN c.where :
                             \E k \in DOMAIN Statements!Build(c).places \ {i} :
                               Statements!Build(c).places[k].means = <<"param", c.where[j]>>
    BY DEF OwnId
  <1> DEFINE params == Statements!Items("param", c.params)
             scope == OwnScope(c.where, params)
             w == scope.where
             ps == scope.params
             m == Len(c.where)
  <1>1. /\ c.data \in Seq(Name) /\ c.where \in Seq(Name) /\ c.params \in Seq(Name)
        /\ scope = Statements!WriteScope(c.where, params, c.own)
    BY DEF Owned, OwnScope, Statements!Call
  <1>2. /\ m \in Nat /\ DOMAIN c.where = 1 .. m
    BY <1>1, LenProperties
  <1> HIDE DEF m
  <1>3. /\ w \in Seq(Given) /\ Len(w) = m + 1 /\ ps \in Seq(GivenItem)
    <2>1. c.where \in Seq(Given) /\ params \in Seq(GivenItem)
      BY <1>1, GivenNames, ItemsFacts
    <2> HIDE DEF params
    <2> QED
      BY <2>1, WriteScopeFacts DEF m
  <1>4. ASSUME NEW index \in Nat, Statements!Preparable(w, ps)
        PROVE  LET places == Statements!PrepareWhere(w, ps, index)
               IN /\ places \in Seq(Place) /\ Len(places) = m + 1
                  /\ places[m + 1].means = <<"own", Statements!ObjectId>>
                  /\ \A j \in 1 .. m : places[j].means = <<"param", c.where[j]>>
    <2>1. Statements!ToSet(w) \subseteq Statements!NamesOf(ps)
      BY <1>4 DEF Statements!Preparable
    <2>2. LET places == Statements!PrepareWhere(w, ps, index)
          IN places \in Seq(Place) /\ Len(places) = m + 1
      <3> HIDE DEF w, ps
      <3> QED
        BY <1>3, <2>1, PrepareFacts
    <2>3. LET places == Statements!PrepareWhere(w, ps, index)
          IN /\ places[m + 1].means = <<"own", Statements!ObjectId>>
             /\ \A j \in 1 .. m : places[j].means = <<"param", c.where[j]>>
      BY <1>1, <2>1, OwnIdPlaced DEF m
    <2> QED
      BY <2>2, <2>3
  <1> HIDE DEF w, ps, scope, params
  <1>5. CASE c.op = "model delete"
    <2>1. Statements!Build(c) = Statements!Scoped(w, ps)
      BY <1>1, <1>5 DEF Statements!Build, params, scope, w, ps
    <2> DEFINE places == Statements!PrepareWhere(w, ps, 0)
    <2>2. Statements!Preparable(w, ps) /\ Statements!Build(c).places = places
      <3>1. /\ ~Statements!Refused.sent /\ Statements!Statement(places, ps).places = places
        BY DEF Statements!Refused, Statements!Statement
      <3>2. Statements!Build(c) # Statements!Refused
        BY <3>1 DEF Owned
      <3> QED
        BY <2>1, <3>1, <3>2 DEF Statements!Scoped
    <2>3. /\ places \in Seq(Place) /\ Len(places) = m + 1
          /\ places[m + 1].means = <<"own", Statements!ObjectId>>
          /\ \A j \in 1 .. m : places[j].means = <<"param", c.where[j]>>
      BY <1>4, <2>2
    <2> HIDE DEF places
    <2>4. DOMAIN places = 1 .. m + 1
      BY <2>3, LenProperties
    <2>5. m + 1 \in DOMAIN places /\ \A j \in 1 .. m : j \in DOMAIN places \ {m + 1}
      BY <1>2, <2>4
    <2> QED
      BY <1>2, <2>2, <2>3, <2>5
  <1>6. CASE c.op = "model update"
    <2> DEFINE columns == Statements!Items("data", c.data)
               first == Statements!Assignments(columns)
               last_ == Statements!PrepareWhere(w, ps, Len(columns))
               places == first \o last_
               n == Len(columns)
    <2>1. Statements!Build(c) = Statements!Update(w, ps, c.data)
      BY <1>1, <1>6 DEF Statements!Build, params, scope, w, ps
    <2>2. Statements!Preparable(w, ps) /\ Statements!Build(c).places = places
      <3> DEFINE bound == Statements!CombineBoundValues(columns, ps)
      <3>1. /\ ~Statements!Refused.sent /\ Statements!Statement(places, bound).places = places
        BY DEF Statements!Refused, Statements!Statement
      <3>2. Statements!Build(c) # Statements!Refused
        BY <3>1 DEF Owned
      <3> QED
        BY <2>1, <3>1, <3>2 DEF Statements!Update
    <2>3. columns \in Seq(Item) /\ n \in Nat
      BY <1>1, ItemsFacts, GivenItems, LenProperties
    <2> HIDE DEF columns
    <2>4. first \in Seq(Place) /\ Len(first) = n
      BY <2>3, AssignmentsFacts
    <2>5. /\ last_ \in Seq(Place) /\ Len(last_) = m + 1
          /\ last_[m + 1].means = <<"own", Statements!ObjectId>>
          /\ \A j \in 1 .. m : last_[j].means = <<"param", c.where[j]>>
      BY <1>4, <2>2, <2>3
    <2> HIDE DEF first, last_, n
    <2>6. /\ places \in Seq(Place) /\ Len(places) = Len(first) + Len(last_)
          /\ \A i \in 1 .. Len(first) + Len(last_) :
               places[i] = IF i <= Len(first) THEN first[i] ELSE last_[i - Len(first)]
      <3>1. first \in Seq(Place) /\ last_ \in Seq(Place)
        BY <2>4, <2>5
      <3> QED
        BY <3>1, ConcatProperties
    <2>7. DOMAIN places = 1 .. n + (m + 1)
      <3>1. DOMAIN places = 1 .. Len(places)
        BY <2>6, LenProperties
      <3> QED
        BY <2>4, <2>5, <2>6, <3>1
    <2> HIDE DEF places
    <2>8. ASSUME NEW j \in 1 .. m + 1
          PROVE  n + j \in DOMAIN places /\ places[n + j] = last_[j]
      <3>1. n + j \in 1 .. n + (m + 1) /\ ~(n + j <= n) /\ (n + j) - n = j
        BY <1>2, <2>3
      <3> QED
        BY <2>4, <2>5, <2>6, <2>7, <3>1
    <2> DEFINE i == n + (m + 1)
    <2>9. i \in DOMAIN places /\ places[i].means = <<"own", Statements!ObjectId>>
      <3>1. m + 1 \in 1 .. m + 1
        BY <1>2
      <3> QED
        BY <2>5, <2>8, <3>1
    <2>10. ASSUME NEW j \in DOMAIN c.where
           PROVE  n + j \in DOMAIN places \ {i} /\ places[n + j].means = <<"param", c.where[j]>>
      <3>1. j \in 1 .. m /\ j \in 1 .. m + 1 /\ n + j # i
        BY <1>2, <2>3
      <3> QED
        BY <2>5, <2>8, <3>1
    <2> HIDE DEF i
    <2> QED
      BY <2>2, <2>9, <2>10
  <1> QED
    BY <1>5, <1>6 DEF Owned

StatementsInv ==
  call \in Statements!Call /\ (stmt = Statements!Refused \/ stmt = Statements!Build(call))

LEMMA StatementsProperties ==
  ASSUME Statements!ConstantsAssumption, StatementsInv PROVE part = "statements" => ValuesInPlace
  <1>1. call \in Statements!Call
    BY DEF StatementsInv
  <1>2. Sound(stmt, Expected(call)) /\ OwnId(call, stmt)
    <2>1. OwnId(call, Statements!Refused)
      BY DEF OwnId, Owned, Statements!Refused
    <2> QED
      BY <1>1, <2>1, RefusedIsSound, BuildIsSound, BuildHasOwnId DEF StatementsInv
  <1>3. Statements!TypeOK
    BY <1>1, <1>2 DEF Statements!TypeOK, Sound, Place
  <1>4. Statements!PlaceholdersMatch
    BY <1>2 DEF Statements!PlaceholdersMatch, Sound, Expected, OfColumns, OfParams, OfRecord, OfJson
  <1>5. Statements!OwnIdInScope
    BY <1>2 DEF Statements!OwnIdInScope, OwnId, Owned
  <1> QED
    BY <1>3, <1>4, <1>5 DEF ValuesInPlace

LEMMA StatementsInit ==
  ASSUME Statements!ConstantsAssumption, Statements!Init PROVE StatementsInv
  BY DEF Statements!ConstantsAssumption, Statements!Init, StatementsInv

LEMMA StatementsNext ==
  ASSUME StatementsInv, [Statements!Next]_(Statements!vars) PROVE StatementsInv'
  <1>1. call' = call /\ (stmt' = stmt \/ stmt' = Statements!Build(call))
    BY DEF Statements!Next, Statements!vars
  <1>2. Statements!Build(call)' = Statements!Build(call)
    BY <1>1
  <1> QED
    BY <1>1, <1>2 DEF StatementsInv

\* The statement is the one that the call builds.
THEOREM StatementsInvariant ==
  ASSUME Statements!ConstantsAssumption
  PROVE  Statements!Spec => [](StatementsInv)
  <1>1. Statements!Init => StatementsInv
    BY StatementsInit
  <1>2. StatementsInv /\ [Statements!Next]_(Statements!vars) => (StatementsInv)'
    BY StatementsNext
  <1> QED
    BY <1>1, <1>2, PTL DEF Statements!Spec

\* A behaviour of Data is one of SqlStatements from its start, or never.
LEMMA DataIsStatements ==
  /\ Spec /\ part = "statements" => Statements!Spec
  /\ Spec /\ ~(part = "statements") => []~(part = "statements")
  <1>1. Init /\ part = "statements" => Statements!Init
    BY DEF Init
  <1>2. [Next]_vars =>
          /\ part = "statements" => (part = "statements")' /\ [Statements!Next]_(Statements!vars)
          /\ ~(part = "statements") => ~(part = "statements")'
    BY DEF Next, vars, Statements!vars
  <1> QED
    BY <1>1, <1>2, PTL DEF Spec, Statements!Spec

\* SQL: every placeholder of every statement stands for the value that it was written
\* for, the record's own id included, whatever names columns and parameters share.
THEOREM ValuesInPlaceHolds == Spec => []ValuesInPlace
  <1>1. Statements!ConstantsAssumption
    BY PartsAssumption
  <1>2. Statements!Spec => [](StatementsInv)
    BY <1>1, StatementsInvariant
  <1>3. /\ StatementsInv => ValuesInPlace
        /\ ~(part = "statements") => ValuesInPlace
    BY <1>1, StatementsProperties DEF ValuesInPlace
  <1> QED
    BY <1>2, <1>3, DataIsStatements, PTL

(***************************************************************************)
(* CacheKeys: sorted queries.                                              *)
(***************************************************************************)

QueryItem == Nat \X Nat

LEMMA ItemOrder ==
  ASSUME NEW a \in QueryItem, NEW b \in QueryItem
  PROVE  /\ ~Keys!ItemBefore(a, a)
         /\ Keys!ItemBefore(a, b) => ~Keys!ItemBefore(b, a)
         /\ a # b => Keys!ItemBefore(a, b) \/ Keys!ItemBefore(b, a)
         /\ \A c \in QueryItem : Keys!ItemBefore(a, b) /\ ~Keys!ItemBefore(c, b)
                                   => Keys!ItemBefore(a, c)
         /\ \A c \in QueryItem : ~Keys!ItemBefore(b, a) /\ Keys!ItemBefore(b, c)
                                   => Keys!ItemBefore(a, c)
  <1>1. ASSUME NEW x \in QueryItem
        PROVE  x = <<x[1], x[2]>> /\ x[1] \in Nat /\ x[2] \in Nat
    BY DEF QueryItem
  <1>2. ASSUME NEW x \in QueryItem, NEW y \in QueryItem, x[1] = y[1], x[2] = y[2]
        PROVE  x = y
    BY <1>1, <1>2
  <1> QED
    BY <1>1, <1>2 DEF Keys!ItemBefore

\* b has the items of a at the places that p gives.
ArrangedBy(a, b, p) ==
  LET D == 1 .. Len(a)
  IN /\ p \in [D -> D] /\ \A i, j \in D : p[i] = p[j] => i = j
     /\ \A j \in D : \E i \in D : p[i] = j
     /\ b = [i \in D |-> a[p[i]]]

LEMMA ArrangedIs ==
  ASSUME NEW a \in Seq(QueryItem), NEW b
  PROVE  b \in Keys!Arranged(a) <=> \E p : ArrangedBy(a, b, p)
  <1> DEFINE D == 1 .. Len(a)
  <1>1. DOMAIN a = D
    BY LenProperties
  <1>2. \A p : p \in Keys!Bijection(D, D) <=>
                /\ p \in [D -> D] /\ \A i, j \in D : p[i] = p[j] => i = j
                /\ \A j \in D : \E i \in D : p[i] = j
    BY DEF Keys!Bijection, Keys!Injection, Keys!Surjection, Keys!IsInjective
  <1>3. Keys!Arranged(a) = {[i \in D |-> a[p[i]]] : p \in Keys!Bijection(D, D)}
    BY <1>1 DEF Keys!Arranged
  <1>4. \A p : ArrangedBy(a, b, p) <=> p \in Keys!Bijection(D, D) /\ b = [i \in D |-> a[p[i]]]
    BY <1>2 DEF ArrangedBy
  <1> HIDE DEF D
  <1> QED
    BY <1>3, <1>4

LEMMA ArrangedFacts ==
  ASSUME NEW a \in Seq(QueryItem), NEW b, NEW p, ArrangedBy(a, b, p)
  PROVE  /\ b \in Seq(QueryItem) /\ Len(b) = Len(a)
         /\ \A i \in 1 .. Len(a) : p[i] \in 1 .. Len(a) /\ b[i] = a[p[i]]
  <1>1. Len(a) \in Nat /\ \A i \in 1 .. Len(a) : a[i] \in QueryItem
    BY LenProperties, ElementOfSeq
  <1>2. \A i \in 1 .. Len(a) : p[i] \in 1 .. Len(a) /\ b[i] = a[p[i]]
    BY DEF ArrangedBy
  <1>3. b \in [1 .. Len(a) -> QueryItem]
    BY <1>1, <1>2 DEF ArrangedBy
  <1> QED
    BY <1>1, <1>2, <1>3

LEMMA IntervalSize ==
  ASSUME NEW n \in Nat PROVE IsFiniteSet(1 .. n) /\ Cardinality(1 .. n) = n
  BY FS_Interval

\* Sequences in order that have the same items have them at the same places: as many
\* are not after the k-th of one as are before the k-th of the other.
LEMMA NoneEarlier ==
  ASSUME NEW a \in Seq(QueryItem), NEW b, NEW p, ArrangedBy(a, b, p),
         Keys!InOrder(a), Keys!InOrder(b), NEW k \in 1 .. Len(a)
  PROVE  ~Keys!ItemBefore(b[k], a[k])
  <1> SUFFICES ASSUME Keys!ItemBefore(b[k], a[k]) PROVE FALSE
    OBVIOUS
  <1> DEFINE f == [i \in 1 .. k |-> p[i]]
  <1>1. /\ Len(a) \in Nat /\ b \in Seq(QueryItem) /\ Len(b) = Len(a)
        /\ DOMAIN a = 1 .. Len(a) /\ DOMAIN b = 1 .. Len(a)
        /\ \A i \in 1 .. Len(a) : /\ a[i] \in QueryItem /\ b[i] \in QueryItem
                                  /\ p[i] \in 1 .. Len(a) /\ b[i] = a[p[i]]
    BY ArrangedFacts, LenProperties, ElementOfSeq
  <1>2. ASSUME NEW i \in 1 .. k PROVE p[i] \in 1 .. k - 1
    <2> SUFFICES ASSUME p[i] >= k PROVE FALSE
      BY <1>1
    <2>1. i \in 1 .. Len(a) /\ p[i] \in 1 .. Len(a)
      BY <1>1
    <2>2. ~Keys!ItemBefore(b[k], b[i])
      <3>1. CASE i = k
        BY <1>1, <3>1, ItemOrder
      <3>2. CASE i # k
        BY <1>1, <2>1, <3>2 DEF Keys!InOrder
      <3> QED
        BY <3>1, <3>2
    <2>3. ~Keys!ItemBefore(a[p[i]], a[k])
      <3>1. CASE p[i] = k
        BY <1>1, <3>1, ItemOrder
      <3>2. CASE p[i] # k
        BY <1>1, <2>1, <3>2 DEF Keys!InOrder
      <3> QED
        BY <3>1, <3>2
    <2>4. b[k] \in QueryItem /\ a[k] \in QueryItem /\ b[i] \in QueryItem /\ a[p[i]] = b[i]
      BY <1>1, <2>1
    <2> QED
      BY <2>2, <2>3, <2>4, ItemOrder
  <1>3. f \in [1 .. k -> 1 .. k - 1]
    BY <1>2
  <1>4. /\ IsFiniteSet(1 .. k) /\ Cardinality(1 .. k) = k
        /\ IsFiniteSet(1 .. k - 1) /\ Cardinality(1 .. k - 1) = k - 1
    <2> DEFINE m == k - 1
    <2>1. k \in Nat \ {0} /\ m \in Nat /\ m = k - 1
      BY <1>1
    <2> HIDE DEF m
    <2> QED
      BY <2>1, IntervalSize
  <1>5. PICK i \in 1 .. k, j \in 1 .. k : i # j /\ f[i] = f[j]
    <2> HIDE DEF f
    <2>1. Cardinality(1 .. k - 1) < Cardinality(1 .. k)
      BY <1>4
    <2> QED
      BY <1>3, <1>4, <2>1, FS_PigeonHole
  <1>6. p[i] = p[j] /\ i \in 1 .. Len(a) /\ j \in 1 .. Len(a)
    BY <1>1, <1>5
  <1> QED
    BY <1>5, <1>6 DEF ArrangedBy

\* The same items at the places of the inverse.
LEMMA ArrangedBack ==
  ASSUME NEW a \in Seq(QueryItem), NEW b, NEW p, ArrangedBy(a, b, p)
  PROVE  \E q : ArrangedBy(b, a, q)
  <1> DEFINE D == 1 .. Len(a)
             q == [j \in D |-> CHOOSE i \in D : p[i] = j]
  <1>1. /\ Len(b) = Len(a) /\ b = [i \in D |-> a[p[i]]]
        /\ p \in [D -> D] /\ \A i, j \in D : p[i] = p[j] => i = j
        /\ \A j \in D : \E i \in D : p[i] = j
    BY ArrangedFacts DEF ArrangedBy
  <1>2. \A j \in D : q[j] \in D /\ p[q[j]] = j
    <2> HIDE DEF D
    <2> QED
      BY <1>1
  <1>3. a = [i \in D |-> a[i]]
    BY LenProperties
  <1> HIDE DEF D
  <1>4. q \in [D -> D]
    BY <1>2
  <1> HIDE DEF q
  <1>5. \A i \in D : q[p[i]] = i
    BY <1>1, <1>2
  <1>6. a = [j \in D |-> b[q[j]]]
    BY <1>1, <1>2, <1>3
  <1>7. \A i, j \in D : q[i] = q[j] => i = j
    BY <1>2
  <1>8. \A j \in D : \E i \in D : q[i] = j
    BY <1>1, <1>5
  <1>9. D = 1 .. Len(b)
    BY <1>1 DEF D
  <1>10. ArrangedBy(b, a, q)
    BY <1>4, <1>6, <1>7, <1>8, <1>9 DEF ArrangedBy
  <1> QED
    BY <1>10

LEMMA ArrangedTwice ==
  ASSUME NEW a \in Seq(QueryItem), NEW b, NEW c, NEW p, NEW q,
         ArrangedBy(a, b, p), ArrangedBy(b, c, q)
  PROVE  \E r : ArrangedBy(a, c, r)
  <1> DEFINE D == 1 .. Len(a)
             r == [i \in D |-> p[q[i]]]
  <1>1. Len(b) = Len(a)
    BY ArrangedFacts
  <1>2. /\ p \in [D -> D] /\ \A i, j \in D : p[i] = p[j] => i = j
        /\ \A j \in D : \E i \in D : p[i] = j
        /\ b = [i \in D |-> a[p[i]]]
    BY DEF ArrangedBy
  <1>3. /\ q \in [D -> D] /\ \A i, j \in D : q[i] = q[j] => i = j
        /\ \A j \in D : \E i \in D : q[i] = j
        /\ c = [i \in D |-> b[q[i]]]
    BY <1>1 DEF ArrangedBy
  <1> HIDE DEF D
  <1>4. r \in [D -> D] /\ \A i, j \in D : r[i] = r[j] => i = j
    BY <1>2, <1>3
  <1>5. ASSUME NEW j \in D PROVE \E i \in D : r[i] = j
    BY <1>2, <1>3
  <1>6. c = [i \in D |-> a[r[i]]]
    BY <1>2, <1>3
  <1> HIDE DEF r
  <1> QED
    BY <1>4, <1>5, <1>6 DEF ArrangedBy, D

LEMMA SortedIsUnique ==
  ASSUME NEW a \in Seq(QueryItem), NEW b \in Keys!Arranged(a), Keys!InOrder(a), Keys!InOrder(b)
  PROVE  a = b
  <1>1. PICK p : ArrangedBy(a, b, p)
    BY ArrangedIs
  <1>2. b \in Seq(QueryItem) /\ Len(b) = Len(a)
    BY <1>1, ArrangedFacts
  <1>3. PICK q : ArrangedBy(b, a, q)
    BY <1>1, ArrangedBack
  <1>4. ASSUME NEW k \in 1 .. Len(a) PROVE a[k] = b[k]
    <2>1. ~Keys!ItemBefore(b[k], a[k])
      BY <1>1, NoneEarlier
    <2>2. ~Keys!ItemBefore(a[k], b[k])
      BY <1>2, <1>3, NoneEarlier
    <2>3. a[k] \in QueryItem /\ b[k] \in QueryItem
      BY <1>2, ElementOfSeq
    <2> QED
      BY <2>1, <2>2, <2>3, ItemOrder
  <1> QED
    BY <1>2, <1>4, SeqEqual

\* Every query can be put in order: an item's place is the number of items that are not
\* after it, where equal items keep their order.
LEMMA SortedExists ==
  ASSUME NEW a \in Seq(QueryItem)
  PROVE  \E b \in Keys!Arranged(a) : Keys!InOrder(b)
  <1> DEFINE D == 1 .. Len(a)
             R(i, j) == Keys!ItemBefore(a[i], a[j]) \/ (a[i] = a[j] /\ i <= j)
             upTo(i) == {j \in D : R(j, i)}
             rank == [i \in D |-> Cardinality(upTo(i))]
  <1>1. /\ Len(a) \in Nat /\ DOMAIN a = D /\ D \subseteq Nat
        /\ \A i \in D : a[i] \in QueryItem
    BY LenProperties, ElementOfSeq
  <1>2. IsFiniteSet(D) /\ Cardinality(D) = Len(a)
    BY <1>1, FS_Interval
  <1>3. \A i, j \in D : /\ R(i, i) /\ (R(i, j) \/ R(j, i))
                        /\ Keys!ItemBefore(a[i], a[j]) => R(i, j) /\ i # j
                        /\ R(i, j) /\ R(j, i) => i = j
    <2> SUFFICES ASSUME NEW i \in D, NEW j \in D
                 PROVE  /\ R(i, i) /\ (R(i, j) \/ R(j, i))
                        /\ Keys!ItemBefore(a[i], a[j]) => R(i, j) /\ i # j
                        /\ R(i, j) /\ R(j, i) => i = j
      OBVIOUS
    <2>1. /\ ~Keys!ItemBefore(a[i], a[i])
          /\ Keys!ItemBefore(a[i], a[j]) => ~Keys!ItemBefore(a[j], a[i])
          /\ a[i] # a[j] => Keys!ItemBefore(a[i], a[j]) \/ Keys!ItemBefore(a[j], a[i])
      BY <1>1, ItemOrder
    <2>2. ~Keys!ItemBefore(a[j], a[j])
      BY <1>1, ItemOrder
    <2>3. i \in Nat /\ j \in Nat
      BY <1>1
    <2> QED
      BY <2>1, <2>2, <2>3
  <1>4. ASSUME NEW i \in D, NEW j \in D, NEW k \in D, R(i, j), R(j, k) PROVE R(i, k)
    <2>1. /\ a[i] \in QueryItem /\ a[j] \in QueryItem /\ a[k] \in QueryItem
          /\ i \in Nat /\ j \in Nat /\ k \in Nat
      BY <1>1
    <2>2. CASE Keys!ItemBefore(a[i], a[j]) /\ Keys!ItemBefore(a[j], a[k])
      <3>1. ~Keys!ItemBefore(a[k], a[j])
        BY <2>1, <2>2, ItemOrder
      <3> QED
        BY <2>1, <2>2, <3>1, ItemOrder
    <2> QED
      BY <1>4, <2>1, <2>2
  <1> HIDE DEF R, D
  <1>5. ASSUME NEW i \in D
        PROVE  /\ IsFiniteSet(upTo(i)) /\ Cardinality(upTo(i)) \in 1 .. Len(a)
               /\ i \in upTo(i)
    <2>1. upTo(i) \in SUBSET D /\ i \in upTo(i)
      BY <1>3
    <2> HIDE DEF upTo
    <2>2. IsFiniteSet(upTo(i)) /\ Cardinality(upTo(i)) <= Len(a)
      BY <1>2, <2>1, FS_Subset
    <2>3. Cardinality(upTo(i)) \in Nat /\ Cardinality(upTo(i)) # 0
      BY <2>1, <2>2, FS_CardinalityType, FS_EmptySet
    <2> QED
      BY <1>1, <2>1, <2>2, <2>3
  <1>6. ASSUME NEW i \in D, NEW j \in D, R(i, j), i # j PROVE rank[i] < rank[j]
    <2>1. upTo(i) \in SUBSET upTo(j) /\ j \in upTo(j) /\ j \notin upTo(i)
      BY <1>3, <1>4, <1>6
    <2> HIDE DEF upTo
    <2>2. IsFiniteSet(upTo(j)) /\ Cardinality(upTo(i)) \in Nat /\ Cardinality(upTo(j)) \in Nat
      BY <1>1, <1>5
    <2>3. rank[i] = Cardinality(upTo(i)) /\ rank[j] = Cardinality(upTo(j))
      OBVIOUS
    <2> HIDE DEF rank
    <2>4. /\ Cardinality(upTo(i)) <= Cardinality(upTo(j))
          /\ Cardinality(upTo(j)) = Cardinality(upTo(i)) => upTo(i) = upTo(j)
      BY <2>1, <2>2, FS_Subset
    <2> QED
      BY <2>1, <2>2, <2>3, <2>4
  <1>7. rank \in [D -> D]
    <2>1. \A i \in D : rank[i] \in D
      <3> HIDE DEF upTo
      <3> QED
        BY <1>5 DEF D
    <2> QED
      BY <2>1
  <1> HIDE DEF upTo, rank
  <1>8. \A i, j \in D : rank[i] = rank[j] => i = j
    <2>1. \A i \in D : rank[i] \in Nat
      BY <1>1, <1>7
    <2> QED
      BY <1>3, <1>6, <2>1
  <1>9. rank \in Surjection(D, D)
    <2>1. rank \in Injection(D, D)
      BY <1>7, <1>8 DEF Injection, IsInjective
    <2> QED
      BY <1>2, <2>1, FS_Injection
  <1> DEFINE p == [r \in D |-> CHOOSE i \in D : rank[i] = r]
             b == [r \in D |-> a[p[r]]]
  <1>10. \A r \in D : p[r] \in D /\ rank[p[r]] = r
    BY <1>9 DEF Surjection
  <1>11. p \in [D -> D]
    BY <1>10
  <1>12. \A r \in D : b[r] = a[p[r]]
    OBVIOUS
  <1>13. DOMAIN b = D /\ b = [r \in D |-> a[p[r]]]
    OBVIOUS
  <1> HIDE DEF p, b
  <1>14. ArrangedBy(a, b, p)
    <2>1. \A i, j \in D : p[i] = p[j] => i = j
      BY <1>10
    <2>2. \A j \in D : \E i \in D : p[i] = j
      BY <1>7, <1>8, <1>10
    <2> QED
      BY <1>11, <1>13, <2>1, <2>2 DEF ArrangedBy, D
  <1>15. Keys!InOrder(b)
    <2> SUFFICES ASSUME NEW i \in D, NEW j \in D, i < j, Keys!ItemBefore(b[j], b[i]) PROVE FALSE
      BY <1>13 DEF Keys!InOrder
    <2>1. R(p[j], p[i]) /\ p[j] # p[i]
      BY <1>3, <1>10, <1>12
    <2>2. rank[p[j]] < rank[p[i]]
      BY <1>6, <1>10, <2>1
    <2> QED
      BY <1>1, <1>10, <2>2
  <1> QED
    BY <1>14, <1>15, ArrangedIs

\* A query's canonical form is the query in order.
LEMMA CanonicalFacts ==
  ASSUME NEW a \in Seq(QueryItem)
  PROVE  LET c == Keys!CanonicalQuery(a)
         IN c \in Keys!Arranged(a) /\ Keys!InOrder(c) /\ c \in Seq(QueryItem)
  <1>1. /\ Keys!CanonicalQuery(a) \in Keys!Arranged(a)
        /\ Keys!InOrder(Keys!CanonicalQuery(a))
    BY SortedExists DEF Keys!CanonicalQuery, Keys!Sorted
  <1> QED
    BY <1>1, ArrangedIs, ArrangedFacts

\* Two queries have one canonical form if and only if they have the same items.
LEMMA SameCanonical ==
  ASSUME NEW a \in Seq(QueryItem), NEW b \in Seq(QueryItem)
  PROVE  Keys!CanonicalQuery(a) = Keys!CanonicalQuery(b) <=> a \in Keys!Arranged(b)
  <1> DEFINE c == Keys!CanonicalQuery(a)
             d == Keys!CanonicalQuery(b)
  <1>1. /\ c \in Keys!Arranged(a) /\ Keys!InOrder(c) /\ c \in Seq(QueryItem)
        /\ d \in Keys!Arranged(b) /\ Keys!InOrder(d) /\ d \in Seq(QueryItem)
    BY CanonicalFacts
  <1> HIDE DEF c, d
  <1>2. PICK p, q : ArrangedBy(a, c, p) /\ ArrangedBy(b, d, q)
    BY <1>1, ArrangedIs
  <1>3. PICK r : ArrangedBy(c, a, r)
    BY <1>2, ArrangedBack
  <1>4. ASSUME c = d PROVE a \in Keys!Arranged(b)
    <2>1. ArrangedBy(b, c, q)
      BY <1>2, <1>4
    <2>2. \E t : ArrangedBy(b, a, t)
      BY <1>3, <2>1, ArrangedTwice
    <2> QED
      BY <2>2, ArrangedIs
  <1>5. ASSUME a \in Keys!Arranged(b) PROVE c = d
    <2>1. PICK t : ArrangedBy(b, a, t)
      BY <1>5, ArrangedIs
    <2>2. PICK u : ArrangedBy(d, b, u)
      BY <1>2, ArrangedBack
    <2>3. PICK v : ArrangedBy(d, a, v)
      BY <1>1, <2>1, <2>2, ArrangedTwice
    <2>4. PICK w : ArrangedBy(d, c, w)
      BY <1>1, <1>2, <2>3, ArrangedTwice
    <2> QED
      BY <1>1, <2>4, ArrangedIs, SortedIsUnique
  <1> QED
    BY <1>4, <1>5 DEF c, d

(***************************************************************************)
(* CacheKeys: joined texts, and where they come apart.                     *)
(***************************************************************************)

\* A character of a text, or an item of a query.
Symbol == Character \cup {Keys!Bar, Keys!And, Keys!Is} \cup QueryItem
Separator == {Keys!And, Keys!Bar}

\* The text ends, or goes on with a separator.
Opens(u) == Len(u) > 0 /\ u[1] \in Separator

LEMMA OneOfSeq ==
  ASSUME NEW S, NEW c \in S PROVE <<c>> \in Seq(S)
  OBVIOUS

LEMMA SymbolFacts ==
  /\ Keys!Bar \in Symbol /\ Keys!And \in Symbol /\ Keys!Is \in Symbol
  /\ \A a \in QueryItem : a # Keys!Bar
  <1>1. /\ Keys!Bar \in Symbol /\ Keys!And \in Symbol /\ Keys!Is \in Symbol
    BY DEF Symbol
  <1>2. ASSUME NEW a \in QueryItem PROVE a # Keys!Bar
    <2>1. a = <<a[1], a[2]>>
      BY DEF QueryItem
    <2>2. Len(<<a[1], a[2]>>) = 2 /\ Len(Keys!Bar) = 1
      BY DEF Keys!Bar
    <2> QED
      BY <2>1, <2>2
  <1> QED
    BY <1>1, <1>2

LEMMA CancelLeft ==
  ASSUME NEW S, NEW x \in Seq(S), NEW u \in Seq(S), NEW v \in Seq(S), x \o u = x \o v
  PROVE  u = v
  BY ConcatSimplifications

LEMMA CancelRight ==
  ASSUME NEW S, NEW u \in Seq(S), NEW v \in Seq(S), NEW x \in Seq(S), u \o x = v \o x
  PROVE  u = v
  BY ConcatSimplifications

\* Two texts are the same up to the first separator, and after it.
LEMMA SplitOnce ==
  ASSUME NEW S, NEW T, NEW x \in Seq(S), NEW y \in Seq(S), NEW u \in Seq(S), NEW v \in Seq(S),
         \A i \in 1 .. Len(x) : x[i] \notin T, \A i \in 1 .. Len(y) : y[i] \notin T,
         Len(u) > 0, u[1] \in T, Len(v) > 0, v[1] \in T, x \o u = y \o v
  PROVE  x = y /\ u = v
  <1>1. /\ Len(x) \in Nat /\ Len(y) \in Nat /\ Len(u) \in Nat /\ Len(v) \in Nat
        /\ Len(x \o u) = Len(x) + Len(u) /\ Len(y \o v) = Len(y) + Len(v)
        /\ \A i \in 1 .. Len(x) + Len(u) : (x \o u)[i] = IF i <= Len(x) THEN x[i] ELSE u[i - Len(x)]
        /\ \A i \in 1 .. Len(y) + Len(v) : (y \o v)[i] = IF i <= Len(y) THEN y[i] ELSE v[i - Len(y)]
    BY LenProperties, ConcatProperties
  <1> DEFINE z == x \o u
  <1>2. /\ Len(x) + Len(u) = Len(y) + Len(v)
        /\ \A i \in 1 .. Len(x) + Len(u) : z[i] = IF i <= Len(x) THEN x[i] ELSE u[i - Len(x)]
        /\ \A i \in 1 .. Len(x) + Len(u) : z[i] = IF i <= Len(y) THEN y[i] ELSE v[i - Len(y)]
    BY <1>1
  <1> HIDE DEF z
  <1>3. z[Len(x) + 1] = u[1] /\ \A i \in 1 .. Len(x) : z[i] = x[i]
    <2>1. Len(x) + 1 \in 1 .. Len(x) + Len(u) /\ ~(Len(x) + 1 <= Len(x)) /\ (Len(x) + 1) - Len(x) = 1
      BY <1>1
    <2>2. \A i \in 1 .. Len(x) : i \in 1 .. Len(x) + Len(u) /\ i <= Len(x)
      BY <1>1
    <2> QED
      BY <1>2, <2>1, <2>2
  <1>4. z[Len(y) + 1] = v[1] /\ \A i \in 1 .. Len(y) : z[i] = y[i]
    <2>1. Len(y) + 1 \in 1 .. Len(x) + Len(u) /\ ~(Len(y) + 1 <= Len(y)) /\ (Len(y) + 1) - Len(y) = 1
      BY <1>1, <1>2
    <2>2. \A i \in 1 .. Len(y) : i \in 1 .. Len(x) + Len(u) /\ i <= Len(y)
      BY <1>1, <1>2
    <2> QED
      BY <1>2, <2>1, <2>2
  <1>5. ~(Len(x) < Len(y))
    <2> SUFFICES ASSUME Len(x) < Len(y) PROVE FALSE
      OBVIOUS
    <2>1. Len(x) + 1 \in 1 .. Len(y)
      BY <1>1
    <2> QED
      BY <1>3, <1>4, <2>1
  <1>6. ~(Len(y) < Len(x))
    <2> SUFFICES ASSUME Len(y) < Len(x) PROVE FALSE
      OBVIOUS
    <2>1. Len(y) + 1 \in 1 .. Len(x)
      BY <1>1
    <2> QED
      BY <1>3, <1>4, <2>1
  <1>7. x = y
    <2>1. Len(x) = Len(y)
      BY <1>1, <1>5, <1>6
    <2>2. \A i \in 1 .. Len(x) : x[i] = y[i]
      BY <1>3, <1>4, <2>1
    <2> QED
      BY <2>1, <2>2, SeqEqual
  <1>8. u = v
    <2>1. x \o u = x \o v
      BY <1>7
    <2> QED
      BY <2>1, CancelLeft
  <1> QED
    BY <1>7, <1>8

\* FlattenSeq of the first n of some sequences.
Flat(seqs, n) ==
  LET flatten[i \in 1 .. n] == IF i = 1 THEN seqs[i] ELSE flatten[i - 1] \o seqs[i]
  IN flatten

\* The definition by recursion has a solution.
LEMMA FlatExists ==
  ASSUME NEW seqs, NEW k \in Nat
  PROVE  Flat(seqs, k) = [i \in 1 .. k |-> IF i = 1 THEN seqs[i] ELSE Flat(seqs, k)[i - 1] \o seqs[i]]
  <1> DEFINE More(t, i) == t \o seqs[i]
             Is(f, j) == f = [i \in 1 .. j |-> IF i = 1 THEN seqs[i] ELSE More(f[i - 1], i)]
             S == {j \in Nat : \E f : Is(f, j)}
  <1>1. 0 \in S
    <2>1. Is([i \in 1 .. 0 |-> 0], 0)
      <3>1. 1 .. 0 = {}
        OBVIOUS
      <3> HIDE DEF More
      <3> QED
        BY <3>1
    <2> HIDE DEF Is
    <2> QED
      BY <2>1
  <1>2. ASSUME NEW j \in Nat, j \in S PROVE j + 1 \in S
    <2>1. PICK f : Is(f, j)
      BY <1>2
    <2> DEFINE g == [i \in 1 .. j + 1 |->
                       IF i = j + 1 THEN (IF i = 1 THEN seqs[i] ELSE More(f[j], i)) ELSE f[i]]
    <2> HIDE DEF More
    <2>2. \A i \in 1 .. j : g[i] = f[i] /\ f[i] = IF i = 1 THEN seqs[i] ELSE More(f[i - 1], i)
      BY <2>1
    <2>3. ASSUME NEW i \in 1 .. j + 1
          PROVE  g[i] = IF i = 1 THEN seqs[i] ELSE More(g[i - 1], i)
      <3>1. CASE i = j + 1
        <4>1. i - 1 = j /\ (i # 1 => j \in 1 .. j)
          BY <3>1
        <4>2. g[i] = IF i = 1 THEN seqs[i] ELSE More(f[j], i)
          BY <3>1
        <4> HIDE DEF g
        <4> QED
          BY <2>2, <3>1, <4>1, <4>2
      <3>2. CASE i # j + 1
        <4>1. i \in 1 .. j /\ (i # 1 => i - 1 \in 1 .. j)
          BY <3>2
        <4> HIDE DEF g
        <4> QED
          BY <2>2, <4>1
      <3> QED
        BY <3>1, <3>2
    <2>4. g = [i \in 1 .. j + 1 |-> g[i]]
      OBVIOUS
    <2>5. Is(g, j + 1)
      <3> HIDE DEF g
      <3> QED
        BY <2>3, <2>4
    <2> HIDE DEF g, Is
    <2> QED
      BY <2>5
  <1>3. \E f : Is(f, k)
    <2>1. k \in S
      <3> HIDE DEF S
      <3> QED
        BY <1>1, <1>2, InductionOverSet
    <2> QED
      BY <2>1
  <1> QED
    BY <1>3, Zenon DEF Flat

LEMMA FlatSteps ==
  ASSUME NEW seqs, Len(seqs) \in Nat \ {0}
  PROVE  /\ Keys!FlattenSeq(seqs) = Flat(seqs, Len(seqs))[Len(seqs)]
         /\ Flat(seqs, Len(seqs))[1] = seqs[1]
         /\ \A i \in Nat \ {0} : i < Len(seqs) =>
              Flat(seqs, Len(seqs))[i + 1] = Flat(seqs, Len(seqs))[i] \o seqs[i + 1]
  <1> DEFINE n == Len(seqs)
             f == Flat(seqs, n)
  <1>1. f = [i \in 1 .. n |-> IF i = 1 THEN seqs[i] ELSE f[i - 1] \o seqs[i]]
    BY FlatExists
  <1>2. Keys!FlattenSeq(seqs) = f[n]
    BY DEF Keys!FlattenSeq, Flat
  <1>3. n \in Nat \ {0}
    OBVIOUS
  <1> HIDE DEF f, n
  <1>4. f[1] = seqs[1]
    BY <1>1, <1>3
  <1>5. ASSUME NEW i \in Nat \ {0}, i < n PROVE f[i + 1] = f[i] \o seqs[i + 1]
    <2>1. i + 1 \in 1 .. n /\ i + 1 # 1 /\ (i + 1) - 1 = i
      BY <1>3, <1>5
    <2> QED
      BY <1>1, <2>1
  <1> QED
    BY <1>2, <1>4, <1>5 DEF f, n

LEMMA ConcatType ==
  ASSUME NEW s \in Seq(Symbol), NEW t \in Seq(Symbol) PROVE s \o t \in Seq(Symbol)
  BY ConcatProperties

\* These are operators, so that a step can cite one case and not set off others.
ThreeAssociate(s, t, u) == (s \o t) \o u = s \o (t \o u)
FourAssociate(s, t, u, v) == ((s \o t) \o u) \o v = s \o (t \o (u \o v))

LEMMA ConcatThree ==
  ASSUME NEW s \in Seq(Symbol), NEW t \in Seq(Symbol), NEW u \in Seq(Symbol)
  PROVE  ThreeAssociate(s, t, u)
  BY ConcatAssociative DEF ThreeAssociate

LEMMA ConcatFour ==
  ASSUME NEW s \in Seq(Symbol), NEW t \in Seq(Symbol), NEW u \in Seq(Symbol), NEW v \in Seq(Symbol)
  PROVE  FourAssociate(s, t, u, v)
  <1> DEFINE st == s \o t
             uv == u \o v
  <1>1. st \in Seq(Symbol) /\ uv \in Seq(Symbol)
    BY ConcatType
  <1> HIDE DEF st, uv
  <1>2. ThreeAssociate(s, t, uv) /\ ThreeAssociate(st, u, v)
    BY <1>1, ConcatThree
  <1> QED
    BY <1>2, Zenon DEF ThreeAssociate, FourAssociate, st, uv

\* A text between separators follows on the texts before it.
FourJoined(p, c, h, d) ==
  LET bar == <<Keys!Bar>> IN p \o (bar \o (c \o (bar \o (h \o (bar \o d)))))

LEMMA JoinedFour ==
  ASSUME NEW p \in Seq(Symbol), NEW c \in Seq(Symbol), NEW h \in Seq(Symbol), NEW d \in Seq(Symbol)
  PROVE  Keys!Joined(<<p, c, h, d>>, Keys!Bar) = FourJoined(p, c, h, d)
  <1> DEFINE texts == <<p, c, h, d>>
             bar == <<Keys!Bar>>
             seqs == [i \in DOMAIN texts |-> IF i = 1 THEN texts[i] ELSE bar \o texts[i]]
             f == Flat(seqs, Len(seqs))
  <1>1. bar \in Seq(Symbol)
    BY SymbolFacts, OneOfSeq
  <1>2. DOMAIN texts = 1 .. 4 /\ texts[1] = p /\ texts[2] = c /\ texts[3] = h /\ texts[4] = d
    OBVIOUS
  <1>3. Keys!Joined(texts, Keys!Bar) = Keys!FlattenSeq(seqs)
    BY DEF Keys!Joined
  <1> HIDE DEF bar, texts
  <1>4. seqs[1] = p /\ seqs[2] = bar \o c /\ seqs[3] = bar \o h /\ seqs[4] = bar \o d
    <2>1. 1 \in 1 .. 4 /\ 2 \in 1 .. 4 /\ 3 \in 1 .. 4 /\ 4 \in 1 .. 4 /\ 2 # 1 /\ 3 # 1 /\ 4 # 1
      OBVIOUS
    <2> QED
      BY <1>2, <2>1, Zenon
  <1>5. Len(seqs) = 4
    <2>1. DOMAIN seqs = 1 .. 4
      BY <1>2
    <2> HIDE DEF seqs
    <2> QED
      BY <2>1
  <1> HIDE DEF seqs
  <1>6. /\ Keys!FlattenSeq(seqs) = f[Len(seqs)] /\ f[1] = seqs[1]
        /\ \A i \in Nat \ {0} : i < Len(seqs) => f[i + 1] = f[i] \o seqs[i + 1]
    <2>1. Len(seqs) \in Nat \ {0}
      BY <1>5
    <2> QED
      BY <2>1, FlatSteps, Zenon
  <1> HIDE DEF f
  <1>7. f[2] = f[1] \o seqs[2] /\ f[3] = f[2] \o seqs[3] /\ f[4] = f[3] \o seqs[4]
    <2>1. /\ 1 \in Nat \ {0} /\ 2 \in Nat \ {0} /\ 3 \in Nat \ {0} /\ 1 < 4 /\ 2 < 4 /\ 3 < 4
          /\ 1 + 1 = 2 /\ 2 + 1 = 3 /\ 3 + 1 = 4
      OBVIOUS
    <2>2. /\ f[1 + 1] = f[1] \o seqs[1 + 1] /\ f[2 + 1] = f[2] \o seqs[2 + 1]
          /\ f[3 + 1] = f[3] \o seqs[3 + 1]
      BY <1>5, <1>6, <2>1, Zenon
    <2> QED
      BY <2>1, <2>2, Zenon
  <1>8. Keys!Joined(texts, Keys!Bar) = ((p \o (bar \o c)) \o (bar \o h)) \o (bar \o d)
    BY <1>3, <1>4, <1>5, <1>6, <1>7, Zenon
  <1> DEFINE bc == bar \o c
             bh == bar \o h
             bd == bar \o d
             tail == h \o bd
  <1>9. /\ bc \in Seq(Symbol) /\ bh \in Seq(Symbol) /\ bd \in Seq(Symbol) /\ tail \in Seq(Symbol)
        /\ bh \o bd \in Seq(Symbol)
    BY <1>1, ConcatType
  <1>10. bh \o bd = bar \o tail
    <2> HIDE DEF bd
    <2>1. ThreeAssociate(bar, h, bd)
      BY <1>1, <1>9, ConcatThree
    <2> QED
      BY <2>1, Zenon DEF ThreeAssociate
  <1>11. bc \o (bh \o bd) = bar \o (c \o (bh \o bd))
    <2> HIDE DEF bh, bd
    <2> DEFINE rest == bh \o bd
    <2>1. rest \in Seq(Symbol)
      BY <1>9
    <2> HIDE DEF rest
    <2>2. ThreeAssociate(bar, c, rest)
      BY <1>1, <2>1, ConcatThree
    <2> QED
      BY <2>2, Zenon DEF ThreeAssociate, rest
  <1>12. ((p \o bc) \o bh) \o bd = p \o (bc \o (bh \o bd))
    <2>1. bc \in Seq(Symbol) /\ bh \in Seq(Symbol) /\ bd \in Seq(Symbol)
      BY <1>9
    <2> HIDE DEF bc, bh, bd
    <2>2. FourAssociate(p, bc, bh, bd)
      BY <2>1, ConcatFour
    <2> QED
      BY <2>2, Zenon DEF FourAssociate
  <1> QED
    BY <1>8, <1>10, <1>11, <1>12, Zenon DEF texts, bar, FourJoined

\* What the text of a header has before its value.
Before(i) ==
  IF i = 1 THEN Header[i] \o <<Keys!Is>> ELSE <<Keys!And>> \o (Header[i] \o <<Keys!Is>>)

Values == [DOMAIN Header -> Seq(Symbol)]
CleanValues(v) == \A i \in DOMAIN Header : \A j \in 1 .. Len(v[i]) : v[i][j] \notin Separator

LEMMA BeforeFacts ==
  ASSUME Keys!ConstantsAssumption, NEW i \in DOMAIN Header
  PROVE  /\ Header[i] \o <<Keys!Is>> \in Seq(Symbol) /\ Before(i) \in Seq(Symbol)
         /\ i # 1 => \A u \in Seq(Symbol) : Opens(Before(i) \o u)
  <1>1. Header[i] \in Seq(Symbol)
    <2>1. Header[i] \in Seq(Character)
      BY LenProperties, ElementOfSeq DEF Keys!ConstantsAssumption
    <2>2. Character \subseteq Symbol
      BY DEF Symbol
    <2> QED
      BY <2>1, <2>2, SeqMonotonic
  <1>2. <<Keys!Is>> \in Seq(Symbol) /\ <<Keys!And>> \in Seq(Symbol)
    BY SymbolFacts, OneOfSeq
  <1> DEFINE named == Header[i] \o <<Keys!Is>>
  <1>3. named \in Seq(Symbol)
    BY <1>1, <1>2, ConcatProperties
  <1>4. <<Keys!And>> \o named \in Seq(Symbol)
    BY <1>2, <1>3, ConcatProperties
  <1>5. ASSUME i # 1, NEW u \in Seq(Symbol) PROVE Opens(Before(i) \o u)
    <2>1. Before(i) = <<Keys!And>> \o named
      BY <1>5 DEF Before
    <2> HIDE DEF named
    <2>2. /\ Len(<<Keys!And>>) = 1 /\ <<Keys!And>>[1] = Keys!And
          /\ Len(named) \in Nat /\ Len(u) \in Nat
      BY <1>3, LenProperties
    <2>3. /\ Len(Before(i)) = 1 + Len(named) /\ Before(i)[1] = Keys!And
      BY <1>2, <1>3, <2>1, <2>2, ConcatProperties
    <2>4. /\ Len(Before(i) \o u) = Len(Before(i)) + Len(u)
          /\ (Before(i) \o u)[1] = Before(i)[1]
      BY <1>4, <2>1, <2>2, <2>3, ConcatProperties
    <2> QED
      BY <2>2, <2>3, <2>4 DEF Opens, Separator
  <1> QED
    BY <1>3, <1>4, <1>5 DEF Before

\* The texts of the headers, each with its value, as FlattenSeq gets them.
Texts(v) ==
  LET named == [i \in DOMAIN Header |-> Header[i] \o <<Keys!Is>> \o v[i]]
  IN [i \in DOMAIN named |-> IF i = 1 THEN named[i] ELSE <<Keys!And>> \o named[i]]

LEMMA TextsFacts ==
  ASSUME Keys!ConstantsAssumption, NEW v \in Values
  PROVE  /\ Keys!HeaderValues(v) = Keys!FlattenSeq(Texts(v))
         /\ Len(Header) \in Nat /\ DOMAIN Header = 1 .. Len(Header) /\ Len(Texts(v)) = Len(Header)
         /\ \A i \in DOMAIN Header : v[i] \in Seq(Symbol) /\ Texts(v)[i] = Before(i) \o v[i]
         /\ Len(Header) = 0 => Keys!HeaderValues(v) = <<>>
  <1>1. Len(Header) \in Nat /\ DOMAIN Header = 1 .. Len(Header)
    BY LenProperties DEF Keys!ConstantsAssumption
  <1>2. Keys!HeaderValues(v) = Keys!FlattenSeq(Texts(v))
    BY DEF Keys!HeaderValues, Keys!Joined, Texts
  <1>3. ASSUME NEW i \in DOMAIN Header
        PROVE  v[i] \in Seq(Symbol) /\ Texts(v)[i] = Before(i) \o v[i]
    <2> DEFINE named == Header[i] \o <<Keys!Is>>
    <2>1. v[i] \in Seq(Symbol) /\ named \in Seq(Symbol)
      BY BeforeFacts DEF Values
    <2>2. Texts(v)[i] = IF i = 1 THEN named \o v[i] ELSE <<Keys!And>> \o (named \o v[i])
      BY DEF Texts
    <2>3. Before(i) = IF i = 1 THEN named ELSE <<Keys!And>> \o named
      BY DEF Before
    <2>4. <<Keys!And>> \in Seq(Symbol)
      BY SymbolFacts, OneOfSeq
    <2> HIDE DEF named
    <2>5. ThreeAssociate(<<Keys!And>>, named, v[i])
      BY <2>1, <2>4, ConcatThree
    <2> QED
      BY <2>1, <2>2, <2>3, <2>5 DEF ThreeAssociate
  <1>4. Len(Texts(v)) = Len(Header)
    <2>1. DOMAIN Texts(v) = 1 .. Len(Header)
      BY <1>1 DEF Texts
    <2> QED
      BY <1>1, <2>1
  <1>5. ASSUME Len(Header) = 0 PROVE Keys!HeaderValues(v) = <<>>
    <2>1. Keys!HeaderValues(v) = Texts(v)
      BY <1>2, <1>4, <1>5 DEF Keys!FlattenSeq
    <2>2. Texts(v) = [i \in {} |-> 0]
      <3>1. DOMAIN Header = {}
        BY <1>1, <1>5
      <3> QED
        BY <3>1 DEF Texts
    <2> QED
      BY <2>1, <2>2
  <1> QED
    BY <1>1, <1>2, <1>3, <1>4, <1>5

\* A header with the value a before u reads as one with the value b before t.
SameText(i, a, u, b, t) == (Before(i) \o a) \o u = (Before(i) \o b) \o t
SameParts(a, u, b, t) == a = b /\ u = t

\* What a header adds to the texts before it comes apart again.
LEMMA HeaderApart ==
  ASSUME Keys!ConstantsAssumption, NEW v \in Values, NEW w \in Values, CleanValues(v), CleanValues(w),
         NEW i \in DOMAIN Header, NEW u \in Seq(Symbol), NEW t \in Seq(Symbol), Opens(u), Opens(t),
         SameText(i, v[i], u, w[i], t)
  PROVE  SameParts(v[i], u, w[i], t)
  <1> DEFINE a == v[i]
             b == w[i]
             before == Before(i)
  <1>1. a \in Seq(Symbol) /\ b \in Seq(Symbol) /\ before \in Seq(Symbol)
    BY BeforeFacts, TextsFacts
  <1>2. /\ \A j \in 1 .. Len(a) : a[j] \notin Separator
        /\ \A j \in 1 .. Len(b) : b[j] \notin Separator
    BY DEF CleanValues
  <1>3. Len(u) > 0 /\ u[1] \in Separator /\ Len(t) > 0 /\ t[1] \in Separator
    BY DEF Opens
  <1>4. (before \o a) \o u = (before \o b) \o t
    BY DEF SameText
  <1> HIDE DEF a, b, before
  <1> DEFINE x == a \o u
             y == b \o t
  <1>5. x \in Seq(Symbol) /\ y \in Seq(Symbol)
    BY <1>1, ConcatType
  <1>6. (before \o a) \o u = before \o x /\ (before \o b) \o t = before \o y
    <2>1. ThreeAssociate(before, a, u) /\ ThreeAssociate(before, b, t)
      BY <1>1, ConcatThree
    <2> QED
      BY <2>1, Zenon DEF ThreeAssociate
  <1>7. before \o x = before \o y
    BY <1>4, <1>6
  <1>8. x = y
    <2> HIDE DEF x, y
    <2> QED
      BY <1>1, <1>5, <1>7, CancelLeft
  <1>9. a \o u = b \o t
    BY <1>8
  <1>10. a = b /\ u = t
    BY <1>1, <1>2, <1>3, <1>9, SplitOnce, ZenonT(60)
  <1> QED
    BY <1>10 DEF a, b, SameParts

\* A header after the first one opens with a separator.
LEMMA HeaderOpens ==
  ASSUME Keys!ConstantsAssumption, NEW i \in DOMAIN Header, i # 1,
         NEW a \in Seq(Symbol), NEW x \in Seq(Symbol)
  PROVE  Opens((Before(i) \o a) \o x) /\ (Before(i) \o a) \o x \in Seq(Symbol)
  <1> DEFINE before == Before(i)
             ax == a \o x
  <1>1. before \in Seq(Symbol) /\ ax \in Seq(Symbol)
    BY BeforeFacts, ConcatType
  <1>2. Opens(before \o ax)
    <2> HIDE DEF ax
    <2> QED
      BY <1>1, BeforeFacts
  <1>3. (before \o a) \o x = before \o ax
    <2> HIDE DEF before
    <2>1. ThreeAssociate(before, a, x)
      BY <1>1, ConcatThree
    <2> QED
      BY <2>1, Zenon DEF ThreeAssociate
  <1>4. before \o ax \in Seq(Symbol)
    <2> HIDE DEF before, ax
    <2> QED
      BY <1>1, ConcatType
  <1> QED
    BY <1>2, <1>3, <1>4, Zenon

\* If two texts of the first headers come apart, so do those with one header more.
ApartAt(v, w, k, f, g) ==
  /\ f \in Seq(Symbol) /\ g \in Seq(Symbol)
  /\ \A x, y \in Seq(Symbol) : Opens(x) /\ Opens(y) /\ f \o x = g \o y =>
       x = y /\ \A i \in 1 .. k : v[i] = w[i]

LEMMA ApartMore ==
  ASSUME Keys!ConstantsAssumption, NEW v \in Values, NEW w \in Values, CleanValues(v), CleanValues(w),
         NEW k \in Nat, k # 0, k + 1 \in DOMAIN Header, NEW f, NEW g, ApartAt(v, w, k, f, g)
  PROVE  ApartAt(v, w, k + 1, f \o (Before(k + 1) \o v[k + 1]), g \o (Before(k + 1) \o w[k + 1]))
  <1> DEFINE j == k + 1
             a == Before(j) \o v[j]
             b == Before(j) \o w[j]
  <1>1. /\ v[j] \in Seq(Symbol) /\ w[j] \in Seq(Symbol) /\ Before(j) \in Seq(Symbol)
        /\ j \in DOMAIN Header /\ j # 1 /\ \A i \in 1 .. j : i = j \/ i \in 1 .. k
    BY BeforeFacts, TextsFacts
  <1> HIDE DEF j
  <1>2. a \in Seq(Symbol) /\ b \in Seq(Symbol)
    BY <1>1, ConcatType
  <1>3. f \in Seq(Symbol) /\ g \in Seq(Symbol)
    BY DEF ApartAt
  <1>4. f \o a \in Seq(Symbol) /\ g \o b \in Seq(Symbol)
    <2> HIDE DEF a, b
    <2> QED
      BY <1>2, <1>3, ConcatType
  <1>5. ASSUME NEW x \in Seq(Symbol), NEW y \in Seq(Symbol), Opens(x), Opens(y),
               (f \o a) \o x = (g \o b) \o y
        PROVE  x = y /\ \A i \in 1 .. j : v[i] = w[i]
    <2> DEFINE ax == a \o x
               by == b \o y
    <2>1. Opens(ax) /\ Opens(by) /\ ax \in Seq(Symbol) /\ by \in Seq(Symbol)
      BY <1>1, HeaderOpens
    <2>2. (f \o a) \o x = f \o ax /\ (g \o b) \o y = g \o by
      <3> HIDE DEF a, b
      <3>1. ThreeAssociate(f, a, x) /\ ThreeAssociate(g, b, y)
        BY <1>2, <1>3, <1>5, ConcatThree
      <3> QED
        BY <3>1, Zenon DEF ThreeAssociate
    <2>3. f \o ax = g \o by
      BY <1>5, <2>2, Zenon
    <2>4. ax = by /\ \A i \in 1 .. k : v[i] = w[i]
      <3> HIDE DEF ax, by
      <3> QED
        BY <2>1, <2>3 DEF ApartAt
    <2>5. v[j] = w[j] /\ x = y
      <3>1. SameText(j, v[j], x, w[j], y)
        BY <2>4, Zenon DEF SameText
      <3>2. SameParts(v[j], x, w[j], y)
        BY <1>1, <1>5, <3>1, HeaderApart
      <3> QED
        BY <3>2 DEF SameParts
    <2> QED
      BY <1>1, <2>4, <2>5, Zenon
  <1> HIDE DEF a, b
  <1>6. ApartAt(v, w, j, f \o a, g \o b)
    BY <1>4, <1>5, Zenon DEF ApartAt
  <1> QED
    BY <1>6 DEF j, a, b

SameHeaders(v, u, w, t) == Keys!HeaderValues(v) \o u = Keys!HeaderValues(w) \o t

\* The varying headers of a key can be read back, and what follows on them.
LEMMA HeadersApart ==
  ASSUME Keys!ConstantsAssumption, NEW v \in Values, NEW w \in Values, CleanValues(v), CleanValues(w),
         NEW u \in Seq(Symbol), NEW t \in Seq(Symbol), Opens(u), Opens(t), SameHeaders(v, u, w, t)
  PROVE  SameParts(v, u, w, t)
  <1> DEFINE n == Len(Header)
             f == Flat(Texts(v), Len(Texts(v)))
             g == Flat(Texts(w), Len(Texts(w)))
             S == {k \in Nat : k < n => ApartAt(v, w, k + 1, f[k + 1], g[k + 1])}
  <1>1. /\ n \in Nat /\ DOMAIN Header = 1 .. n /\ Len(Texts(v)) = n /\ Len(Texts(w)) = n
        /\ Keys!HeaderValues(v) = Keys!FlattenSeq(Texts(v))
        /\ Keys!HeaderValues(w) = Keys!FlattenSeq(Texts(w))
    BY TextsFacts
  <1>2. \A i \in 1 .. n : /\ v[i] \in Seq(Symbol) /\ Texts(v)[i] = Before(i) \o v[i]
                          /\ w[i] \in Seq(Symbol) /\ Texts(w)[i] = Before(i) \o w[i]
    BY <1>1, TextsFacts, Zenon
  <1>3. v = [i \in 1 .. n |-> v[i]] /\ w = [i \in 1 .. n |-> w[i]]
    BY <1>1 DEF Values
  <1>4. CASE n = 0
    <2>1. Keys!HeaderValues(v) = <<>> /\ Keys!HeaderValues(w) = <<>>
      BY <1>4, TextsFacts
    <2>2. u = t
      BY <2>1, ConcatEmptySeq DEF SameHeaders
    <2>3. 1 .. n = {}
      BY <1>4
    <2> QED
      BY <1>3, <2>2, <2>3 DEF SameParts
  <1>5. CASE n # 0
    <2>1. n \in Nat \ {0} /\ 1 \in 1 .. n /\ n - 1 \in Nat /\ n - 1 < n /\ (n - 1) + 1 = n
      BY <1>1, <1>5
    <2>2. /\ Len(Texts(v)) \in Nat \ {0} /\ Len(Texts(w)) \in Nat \ {0}
      BY <1>1, <2>1, Zenon
    <2>3. /\ Keys!FlattenSeq(Texts(v)) = f[Len(Texts(v))] /\ f[1] = Texts(v)[1]
          /\ \A i \in Nat \ {0} : i < Len(Texts(v)) => f[i + 1] = f[i] \o Texts(v)[i + 1]
      BY <2>2, FlatSteps, Zenon
    <2>4. /\ Keys!FlattenSeq(Texts(w)) = g[Len(Texts(w))] /\ g[1] = Texts(w)[1]
          /\ \A i \in Nat \ {0} : i < Len(Texts(w)) => g[i + 1] = g[i] \o Texts(w)[i + 1]
      BY <2>2, FlatSteps, Zenon
    <2> HIDE DEF f, g, n
    <2>5. 0 \in S
      <3>1. v[1] \in Seq(Symbol) /\ w[1] \in Seq(Symbol) /\ Before(1) \in Seq(Symbol)
        BY <1>1, <1>2, <2>1, BeforeFacts
      <3>2. f[1] = Before(1) \o v[1] /\ g[1] = Before(1) \o w[1]
        BY <1>2, <2>1, <2>3, <2>4, Zenon
      <3>3. f[1] \in Seq(Symbol) /\ g[1] \in Seq(Symbol)
        BY <3>1, <3>2, ConcatType
      <3>4. ASSUME NEW x \in Seq(Symbol), NEW y \in Seq(Symbol), Opens(x), Opens(y),
                   f[1] \o x = g[1] \o y
            PROVE  x = y /\ v[1] = w[1]
        <4>1. SameText(1, v[1], x, w[1], y)
          BY <3>2, <3>4, Zenon DEF SameText
        <4>2. 1 \in DOMAIN Header
          BY <1>1, <2>1, Zenon
        <4>3. SameParts(v[1], x, w[1], y)
          BY <3>4, <4>1, <4>2, HeaderApart
        <4> QED
          BY <4>3 DEF SameParts
      <3>5. \A i \in 1 .. 1 : i = 1
        OBVIOUS
      <3>6. ApartAt(v, w, 1, f[1], g[1])
        BY <3>3, <3>4, <3>5, Zenon DEF ApartAt
      <3>7. 0 + 1 = 1 /\ 0 \in Nat
        OBVIOUS
      <3> QED
        BY <3>6, <3>7, Zenon
    <2>6. ASSUME NEW k \in Nat, k \in S PROVE k + 1 \in S
      <3> DEFINE j == k + 1
      <3>1. j \in Nat \ {0} /\ j \in Nat /\ j # 0
        OBVIOUS
      <3>2. ASSUME j < n PROVE ApartAt(v, w, j + 1, f[j + 1], g[j + 1])
        <4>1. k < n /\ j + 1 \in 1 .. n
          BY <1>1, <3>2
        <4>2. ApartAt(v, w, j, f[j], g[j])
          BY <2>6, <4>1
        <4> HIDE DEF j
        <4>3. /\ f[j + 1] = f[j] \o (Before(j + 1) \o v[j + 1])
              /\ g[j + 1] = g[j] \o (Before(j + 1) \o w[j + 1])
          BY <1>1, <1>2, <2>3, <2>4, <3>1, <3>2, <4>1, Zenon
        <4>4. ApartAt(v, w, j + 1, f[j] \o (Before(j + 1) \o v[j + 1]),
                                   g[j] \o (Before(j + 1) \o w[j + 1]))
          BY <1>1, <3>1, <4>1, <4>2, ApartMore, Zenon
        <4> QED
          BY <4>3, <4>4, Zenon
      <3> HIDE DEF j
      <3>3. j \in S
        BY <3>1, <3>2, Zenon
      <3> QED
        BY <3>3 DEF j
    <2>7. ApartAt(v, w, n, f[n], g[n])
      <3> DEFINE m == n - 1
      <3>1. m \in S
        <4> HIDE DEF S, m
        <4>1. m \in Nat
          BY <2>1 DEF m
        <4> QED
          BY <2>5, <2>6, <4>1, InductionOverSet
      <3>2. m + 1 = n /\ m < n
        BY <2>1
      <3> HIDE DEF m
      <3> QED
        BY <3>1, <3>2, Zenon
    <2>8. f[n] \o u = g[n] \o t
      BY <1>1, <2>3, <2>4, Zenon DEF SameHeaders
    <2>9. u = t /\ \A i \in 1 .. n : v[i] = w[i]
      BY <2>7, <2>8, Zenon DEF ApartAt
    <2> QED
      BY <1>3, <2>9 DEF SameParts
  <1> QED
    BY <1>4, <1>5

\* What Clean says of a request, in symbols.
LEMMA RequestTypes ==
  ASSUME Keys!ConstantsAssumption, NEW q \in Keys!Request
  PROVE  /\ q.path \in Seq(Symbol) /\ q.identity \in Seq(Symbol)
         /\ q.query \in Seq(QueryItem) /\ q.headers \in Values
  <1>1. /\ q.path \in Path /\ q.identity \in Identity /\ q.query \in QueryItems
        /\ q.headers \in [DOMAIN Header -> HeaderValue]
    BY DEF Keys!Request
  <1>2. Seq(Character) \subseteq Seq(Symbol)
    <2>1. Character \subseteq Symbol
      BY DEF Symbol
    <2> QED
      BY <2>1, SeqMonotonic
  <1>3. /\ Path \subseteq Seq(Symbol) /\ HeaderValue \subseteq Seq(Symbol)
        /\ Identity \subseteq Seq(Symbol) /\ QueryItems \subseteq Seq(QueryItem)
    BY <1>2, Zenon DEF Keys!ConstantsAssumption, QueryItem
  <1>4. q.headers \in Values
    BY <1>1, <1>3 DEF Values
  <1> QED
    BY <1>1, <1>3, <1>4, Zenon

LEMMA CleanRequest ==
  ASSUME NEW q \in Keys!Request, Keys!Clean(q)
  PROVE  (\A i \in 1 .. Len(q.path) : q.path[i] # Keys!Bar) /\ CleanValues(q.headers)
  <1>1. CleanValues(q.headers)
    BY DEF Keys!Clean, Keys!Contains, CleanValues, Separator
  <1>2. \A i \in 1 .. Len(q.path) : q.path[i] # Keys!Bar
    BY DEF Keys!Clean, Keys!Contains
  <1> QED
    BY <1>1, <1>2

\* The headers joined one after the other.
UpTo(v) == Flat(Texts(v), Len(Header))

LEMMA UpToFacts ==
  ASSUME Keys!ConstantsAssumption, NEW v \in Values, Len(Header) # 0
  PROVE  /\ Keys!HeaderValues(v) = UpTo(v)[Len(Header)] /\ UpTo(v)[1] = Texts(v)[1]
         /\ \A k \in Nat \ {0} : k < Len(Header) => UpTo(v)[k + 1] = UpTo(v)[k] \o Texts(v)[k + 1]
         /\ \A k \in 1 .. Len(Header) : Texts(v)[k] \in Seq(Symbol) /\ UpTo(v)[k] \in Seq(Symbol)
  <1> DEFINE n == Len(Header)
             f == UpTo(v)
             S == {k \in Nat : k < n => f[k + 1] \in Seq(Symbol)}
  <1>1. /\ n \in Nat /\ DOMAIN Header = 1 .. n /\ Len(Texts(v)) = n
        /\ Keys!HeaderValues(v) = Keys!FlattenSeq(Texts(v))
    BY TextsFacts
  <1>2. ASSUME NEW i \in 1 .. n PROVE Texts(v)[i] \in Seq(Symbol)
    <2>1. v[i] \in Seq(Symbol) /\ Before(i) \in Seq(Symbol) /\ Texts(v)[i] = Before(i) \o v[i]
      BY <1>1, <1>2, TextsFacts, BeforeFacts
    <2> QED
      BY <2>1, ConcatType
  <1>3. n \in Nat \ {0} /\ 1 \in 1 .. n
    BY <1>1
  <1>4. /\ Keys!FlattenSeq(Texts(v)) = f[n] /\ f[1] = Texts(v)[1]
        /\ \A i \in Nat \ {0} : i < n => f[i + 1] = f[i] \o Texts(v)[i + 1]
    <2>1. Len(Texts(v)) \in Nat \ {0}
      BY <1>1, <1>3, Zenon
    <2> QED
      <3> DEFINE t == Texts(v)
                 h == Flat(t, Len(t))
      <3>1. /\ Keys!FlattenSeq(t) = h[Len(t)] /\ h[1] = t[1]
            /\ \A i \in Nat \ {0} : i < Len(t) => h[i + 1] = h[i] \o t[i + 1]
        BY <2>1, FlatSteps, Zenon
      <3>2. h = f /\ Len(t) = n
        BY <1>1, Zenon DEF UpTo
      <3> HIDE DEF h, f, t, n
      <3>3. /\ Keys!FlattenSeq(t) = f[n] /\ f[1] = t[1]
            /\ \A i \in Nat \ {0} : i < n => f[i + 1] = f[i] \o t[i + 1]
        BY <3>1, <3>2, Zenon
      <3> QED
        BY <3>3, Zenon DEF t
  <1> HIDE DEF f, n
  <1>5. 0 \in S
    BY <1>2, <1>3, <1>4
  <1>6. ASSUME NEW k \in Nat, k \in S PROVE k + 1 \in S
    <2> DEFINE j == k + 1
    <2>1. j \in Nat \ {0} /\ j \in Nat
      OBVIOUS
    <2>2. ASSUME j < n PROVE f[j + 1] \in Seq(Symbol)
      <3>1. k < n /\ j + 1 \in 1 .. n
        BY <1>1, <2>2
      <3>2. f[j] \in Seq(Symbol)
        BY <1>6, <3>1
      <3> HIDE DEF j
      <3>3. f[j + 1] = f[j] \o Texts(v)[j + 1]
        BY <1>4, <2>1, <2>2, Zenon
      <3>4. Texts(v)[j + 1] \in Seq(Symbol)
        BY <1>2, <3>1
      <3> QED
        BY <3>2, <3>3, <3>4, ConcatType, Zenon
    <2> HIDE DEF j
    <2>3. j \in S
      BY <2>1, <2>2, Zenon
    <2> QED
      BY <2>3 DEF j
  <1>7. ASSUME NEW k \in 1 .. n PROVE f[k] \in Seq(Symbol)
    <2> DEFINE m == k - 1
    <2>1. m \in Nat /\ m + 1 = k /\ m < n
      BY <1>1
    <2> HIDE DEF m
    <2>2. m \in S
      <3> HIDE DEF S
      <3> QED
        BY <1>5, <1>6, <2>1, InductionOverSet
    <2> QED
      BY <2>1, <2>2, Zenon
  <1> QED
    BY <1>1, <1>2, <1>4, <1>7, Zenon DEF f, n

LEMMA HeaderValuesType ==
  ASSUME Keys!ConstantsAssumption, NEW v \in Values
  PROVE  Keys!HeaderValues(v) \in Seq(Symbol)
  <1>1. CASE Len(Header) = 0
    <2>1. Keys!HeaderValues(v) = <<>>
      BY <1>1, TextsFacts, Zenon
    <2> QED
      BY <2>1
  <1>2. CASE Len(Header) # 0
    <2>1. Len(Header) \in 1 .. Len(Header)
      BY <1>2, TextsFacts
    <2> QED
      BY <1>2, <2>1, UpToFacts
  <1> QED
    BY <1>1, <1>2

\* Headers with any values, all but one of them the same, make the same text only if that
\* one is the same as well: what is before it and after it cancels.
LEMMA OneHeader ==
  ASSUME Keys!ConstantsAssumption, NEW v \in Values, NEW w \in Values, NEW i \in DOMAIN Header,
         \A j \in DOMAIN Header : j # i => v[j] = w[j],
         Keys!HeaderValues(v) = Keys!HeaderValues(w)
  PROVE  v = w
  <1> DEFINE n == Len(Header)
             f == UpTo(v)
             g == UpTo(w)
             a == Texts(v)
             b == Texts(w)
             Same == v[i] = w[i]
             Agrees(k) == /\ k < i => f[k] = g[k]
                          /\ i <= k /\ f[k] = g[k] => Same
             S == {k \in Nat : k < n => Agrees(k + 1)}
  <1>1. /\ n \in Nat \ {0} /\ DOMAIN Header = 1 .. n /\ i \in 1 .. n /\ 1 \in 1 .. n
        /\ n - 1 \in Nat /\ n - 1 < n /\ (n - 1) + 1 = n
    BY TextsFacts
  <1>2. \A k \in 1 .. n : /\ a[k] \in Seq(Symbol) /\ f[k] \in Seq(Symbol)
                           /\ b[k] \in Seq(Symbol) /\ g[k] \in Seq(Symbol)
    BY <1>1, UpToFacts
  <1>3. /\ Keys!HeaderValues(v) = f[n] /\ f[1] = a[1]
        /\ \A k \in Nat \ {0} : k < n => f[k + 1] = f[k] \o a[k + 1]
    BY <1>1, UpToFacts, Zenon
  <1>4. /\ Keys!HeaderValues(w) = g[n] /\ g[1] = b[1]
        /\ \A k \in Nat \ {0} : k < n => g[k + 1] = g[k] \o b[k + 1]
    BY <1>1, UpToFacts, Zenon
  <1>5. ASSUME NEW k \in 1 .. n, k # i PROVE a[k] = b[k]
    <2>1. a[k] = Before(k) \o v[k] /\ b[k] = Before(k) \o w[k] /\ v[k] = w[k]
      BY <1>1, <1>5, TextsFacts, Zenon
    <2> QED
      BY <2>1, Zenon
  <1>6. ASSUME a[i] = b[i] PROVE Same
    <2>1. Before(i) \o v[i] = Before(i) \o w[i]
      BY <1>6, TextsFacts, Zenon
    <2>2. Before(i) \in Seq(Symbol) /\ v[i] \in Seq(Symbol) /\ w[i] \in Seq(Symbol)
      BY BeforeFacts, TextsFacts, Zenon
    <2> QED
      BY <2>1, <2>2, CancelLeft, Zenon
  <1> HIDE DEF f, g, n, a, b, Same
  <1>7. 0 \in S
    <2>1. CASE i = 1
      <3>1. f[1] = g[1] => Same
        BY <1>3, <1>4, <1>6, <2>1, Zenon
      <3> QED
        BY <2>1, <3>1
    <2>2. CASE i # 1
      <3>1. f[1] = g[1] /\ ~(i <= 1)
        BY <1>1, <1>3, <1>4, <1>5, <2>2
      <3> QED
        BY <3>1
    <2> QED
      BY <2>1, <2>2
  <1>8. ASSUME NEW k \in Nat, k \in S PROVE k + 1 \in S
    <2> DEFINE j == k + 1
               next == j + 1
    <2>1. j \in Nat \ {0} /\ j \in Nat
      OBVIOUS
    <2>2. ASSUME j < n PROVE Agrees(next)
      <3>1. k < n /\ j \in 1 .. n /\ next \in 1 .. n
        BY <1>1, <2>2
      <3>2. Agrees(j)
        BY <1>8, <3>1
      <3>3. f[next] = f[j] \o a[next] /\ g[next] = g[j] \o b[next]
        BY <1>3, <1>4, <2>1, <2>2, Zenon
      <3>4. /\ f[j] \in Seq(Symbol) /\ a[next] \in Seq(Symbol)
            /\ g[j] \in Seq(Symbol) /\ b[next] \in Seq(Symbol)
        BY <1>2, <3>1, Zenon
      <3>5. CASE next < i
        <4>1. j < i /\ next # i /\ ~(i <= next)
          BY <1>1, <3>5
        <4>2. f[j] = g[j] /\ a[next] = b[next]
          BY <1>5, <3>1, <3>2, <4>1, Zenon
        <4>3. f[next] = g[next]
          BY <3>3, <4>2, Zenon
        <4> QED
          BY <4>1, <4>3, Zenon
      <3>6. CASE next = i
        <4>1. j < i /\ ~(next < i)
          BY <1>1, <3>6
        <4>2. f[j] = g[j]
          BY <3>2, <4>1, Zenon
        <4> HIDE DEF next, j
        <4>3. ASSUME f[next] = g[next] PROVE Same
          <5>1. f[j] \o a[next] = f[j] \o b[next]
            BY <3>3, <4>2, <4>3, Zenon
          <5>2. a[next] = b[next]
            BY <3>4, <5>1, CancelLeft, Zenon
          <5> QED
            BY <1>6, <3>6, <5>2, Zenon
        <4> QED
          BY <4>1, <4>3, Zenon
      <3>7. CASE i < next
        <4>1. i <= j /\ next # i /\ ~(next < i)
          BY <1>1, <3>7
        <4> HIDE DEF next, j
        <4>2. ASSUME f[next] = g[next] PROVE Same
          <5>1. a[next] = b[next]
            BY <1>5, <3>1, <4>1, Zenon
          <5>2. f[j] \o a[next] = g[j] \o a[next]
            BY <3>3, <4>2, <5>1, Zenon
          <5>3. f[j] = g[j]
            BY <3>4, <5>2, CancelRight, Zenon
          <5> QED
            BY <3>2, <4>1, <5>3, Zenon
        <4> QED
          BY <4>1, <4>2, Zenon
      <3> QED
        BY <1>1, <3>1, <3>5, <3>6, <3>7
    <2> QED
      BY <2>1, <2>2
  <1>9. Agrees(n)
    <2> DEFINE m == n - 1
    <2>1. m \in S
      <3> HIDE DEF S, m
      <3>1. m \in Nat
        BY <1>1 DEF m
      <3> QED
        BY <1>7, <1>8, <3>1, InductionOverSet
    <2>2. m + 1 = n /\ m < n
      BY <1>1
    <2> HIDE DEF m
    <2>3. \A k : k = m + 1 => Agrees(k)
      BY <2>1, <2>2
    <2> HIDE DEF Agrees
    <2> QED
      BY <2>2, <2>3, Zenon
  <1>10. Same
    <2>1. i <= n
      BY <1>1
    <2>2. f[n] = g[n]
      BY <1>3, <1>4, Zenon
    <2> QED
      BY <1>9, <2>1, <2>2, Zenon
  <1>11. \A j \in 1 .. n : v[j] = w[j]
    BY <1>1, <1>10 DEF Same
  <1>12. v = [j \in 1 .. n |-> v[j]] /\ w = [j \in 1 .. n |-> w[j]]
    BY <1>1 DEF Values
  <1> QED
    BY <1>11, <1>12

\* After a separator a text opens with it.
LEMMA BarOpens ==
  ASSUME NEW u \in Seq(Symbol)
  PROVE  LET t == <<Keys!Bar>> \o u
         IN t \in Seq(Symbol) /\ Len(t) > 0 /\ t[1] = Keys!Bar /\ Opens(t)
  <1> DEFINE bar == <<Keys!Bar>>
  <1>1. bar \in Seq(Symbol) /\ Len(bar) = 1 /\ bar[1] = Keys!Bar
    BY SymbolFacts, OneOfSeq
  <1> HIDE DEF bar
  <1>2. Len(u) \in Nat /\ bar \o u \in Seq(Symbol) /\ Len(bar \o u) = 1 + Len(u)
        /\ (bar \o u)[1] = Keys!Bar
    BY <1>1, ConcatProperties, LenProperties
  <1> QED
    BY <1>2 DEF bar, Opens, Separator

\* Up to the first separator, and after it.
LEMMA SplitAtBar ==
  ASSUME NEW x \in Seq(Symbol), NEW y \in Seq(Symbol), NEW u \in Seq(Symbol), NEW v \in Seq(Symbol),
         \A i \in 1 .. Len(x) : x[i] # Keys!Bar, \A i \in 1 .. Len(y) : y[i] # Keys!Bar,
         x \o (<<Keys!Bar>> \o u) = y \o (<<Keys!Bar>> \o v)
  PROVE  x = y /\ u = v
  <1> DEFINE bar == <<Keys!Bar>>
             a == bar \o u
             b == bar \o v
  <1>1. /\ a \in Seq(Symbol) /\ Len(a) > 0 /\ a[1] = Keys!Bar
        /\ b \in Seq(Symbol) /\ Len(b) > 0 /\ b[1] = Keys!Bar
    BY BarOpens
  <1>2. bar \in Seq(Symbol)
    BY SymbolFacts, OneOfSeq
  <1>3. x = y /\ a = b
    <2> DEFINE T == {Keys!Bar}
    <2>1. /\ \A i \in 1 .. Len(x) : x[i] \notin T
          /\ \A i \in 1 .. Len(y) : y[i] \notin T
          /\ a[1] \in T /\ b[1] \in T
      BY <1>1
    <2>2. x \o a = y \o b
      OBVIOUS
    <2> HIDE DEF T, a, b
    <2> QED
      BY <1>1, <2>1, <2>2, SplitOnce, ZenonT(60)
  <1>4. u = v
    <2>1. bar \o u = bar \o v
      BY <1>3
    <2> HIDE DEF bar
    <2> QED
      BY <1>2, <2>1, CancelLeft
  <1> QED
    BY <1>3, <1>4

\* The parts of a key from the headers, and from the query.
FromHeaders(q) == Keys!HeaderValues(q.headers) \o (<<Keys!Bar>> \o q.identity)
FromQuery(q) == Keys!CanonicalQuery(q.query) \o (<<Keys!Bar>> \o FromHeaders(q))

LEMMA KeyIsJoined ==
  ASSUME Keys!ConstantsAssumption, NEW q \in Keys!Request
  PROVE  /\ Keys!BuildCacheKey(q) = q.path \o (<<Keys!Bar>> \o FromQuery(q))
         /\ FromHeaders(q) \in Seq(Symbol) /\ FromQuery(q) \in Seq(Symbol)
         /\ Keys!CanonicalQuery(q.query) \in Seq(Symbol)
         /\ \A i \in 1 .. Len(Keys!CanonicalQuery(q.query)) : Keys!CanonicalQuery(q.query)[i] # Keys!Bar
  <1> DEFINE bar == <<Keys!Bar>>
             canonical == Keys!CanonicalQuery(q.query)
             values == Keys!HeaderValues(q.headers)
             end == bar \o q.identity
  <1>1. /\ q.path \in Seq(Symbol) /\ q.identity \in Seq(Symbol)
        /\ q.query \in Seq(QueryItem) /\ q.headers \in Values
    BY RequestTypes, Zenon
  <1>2. canonical \in Seq(Symbol) /\ \A i \in 1 .. Len(canonical) : canonical[i] # Keys!Bar
    <2>1. canonical \in Seq(QueryItem)
      BY <1>1, CanonicalFacts
    <2>2. QueryItem \subseteq Symbol
      BY DEF Symbol
    <2> HIDE DEF canonical
    <2>3. canonical \in Seq(Symbol)
      BY <2>1, <2>2, SeqMonotonic
    <2> QED
      BY <2>1, <2>3, ElementOfSeq, SymbolFacts
  <1>3. values \in Seq(Symbol)
    BY <1>1, HeaderValuesType
  <1>4. end \in Seq(Symbol)
    BY <1>1, BarOpens
  <1>5. FromHeaders(q) \in Seq(Symbol)
    <2> HIDE DEF values, end
    <2>1. values \o end \in Seq(Symbol)
      BY <1>3, <1>4, ConcatType
    <2> QED
      BY <2>1, Zenon DEF FromHeaders, values, end
  <1>6. FromQuery(q) \in Seq(Symbol)
    <2> DEFINE rest == bar \o FromHeaders(q)
    <2>1. rest \in Seq(Symbol)
      BY <1>5, BarOpens
    <2> HIDE DEF canonical, rest
    <2>2. canonical \o rest \in Seq(Symbol)
      BY <1>2, <2>1, ConcatType
    <2> QED
      BY <2>2, Zenon DEF FromQuery, canonical, rest
  <1>7. Keys!BuildCacheKey(q) = q.path \o (bar \o FromQuery(q))
    <2> HIDE DEF canonical, values
    <2>1. Keys!BuildCacheKey(q) = Keys!Joined(<<q.path, canonical, values, q.identity>>, Keys!Bar)
      BY Zenon DEF Keys!BuildCacheKey, canonical, values
    <2>2. FourJoined(q.path, canonical, values, q.identity) = q.path \o (bar \o FromQuery(q))
      BY Zenon DEF FourJoined, FromQuery, FromHeaders, canonical, values
    <2> HIDE DEF bar
    <2>3. Keys!Joined(<<q.path, canonical, values, q.identity>>, Keys!Bar)
          = FourJoined(q.path, canonical, values, q.identity)
      BY <1>1, <1>2, <1>3, JoinedFour
    <2> QED
      BY <2>1, <2>2, <2>3, Zenon
  <1> QED
    BY <1>2, <1>5, <1>6, <1>7, Zenon

\* A separator cancels.
LEMMA CancelBar ==
  ASSUME NEW u \in Seq(Symbol), NEW v \in Seq(Symbol), <<Keys!Bar>> \o u = <<Keys!Bar>> \o v
  PROVE  u = v
  <1> DEFINE bar == <<Keys!Bar>>
  <1>1. bar \in Seq(Symbol) /\ bar \o u = bar \o v
    BY SymbolFacts, OneOfSeq
  <1> HIDE DEF bar
  <1> QED
    BY <1>1, CancelLeft

\* In the query nothing is left unescaped that separates, so that it ends at its end.
LEMMA QueryApart ==
  ASSUME Keys!ConstantsAssumption, NEW p \in Keys!Request, NEW q \in Keys!Request,
         FromQuery(p) = FromQuery(q)
  PROVE  p.query \in Keys!Arranged(q.query) /\ FromHeaders(p) = FromHeaders(q)
  <1> DEFINE c == Keys!CanonicalQuery(p.query)
             d == Keys!CanonicalQuery(q.query)
             u == FromHeaders(p)
             v == FromHeaders(q)
  <1>1. /\ c \in Seq(Symbol) /\ d \in Seq(Symbol) /\ u \in Seq(Symbol) /\ v \in Seq(Symbol)
        /\ \A i \in 1 .. Len(c) : c[i] # Keys!Bar
        /\ \A i \in 1 .. Len(d) : d[i] # Keys!Bar
    BY KeyIsJoined, Zenon
  <1>2. c \o (<<Keys!Bar>> \o u) = d \o (<<Keys!Bar>> \o v)
    BY Zenon DEF FromQuery
  <1>3. c = d /\ u = v
    <2> HIDE DEF c, d, u, v
    <2> QED
      BY <1>1, <1>2, SplitAtBar, ZenonT(60)
  <1>4. p.query \in Seq(QueryItem) /\ q.query \in Seq(QueryItem)
    BY RequestTypes, Zenon
  <1> QED
    BY <1>3, <1>4, SameCanonical, Zenon

LEMMA IdentityApart ==
  ASSUME Keys!ConstantsAssumption, NEW p \in Keys!Request, NEW q \in Keys!Request,
         FromHeaders(p) = FromHeaders(q), p.headers = q.headers
  PROVE  p.identity = q.identity
  <1> DEFINE h == Keys!HeaderValues(q.headers)
             u == <<Keys!Bar>> \o p.identity
             v == <<Keys!Bar>> \o q.identity
  <1>1. p.identity \in Seq(Symbol) /\ q.identity \in Seq(Symbol) /\ q.headers \in Values
    BY RequestTypes, Zenon
  <1>2. u \in Seq(Symbol) /\ v \in Seq(Symbol)
    BY <1>1, BarOpens
  <1>3. h \in Seq(Symbol)
    BY <1>1, HeaderValuesType
  <1>4. h \o u = h \o v
    BY Zenon DEF FromHeaders
  <1>5. u = v
    <2> HIDE DEF h, u, v
    <2> QED
      BY <1>2, <1>3, <1>4, CancelLeft, Zenon
  <1> QED
    BY <1>1, <1>5, CancelBar

\* A key can be read back: two requests without separators where none is escaped have one
\* only if their parts agree.
LEMMA KeyApart ==
  ASSUME Keys!ConstantsAssumption, NEW p \in Keys!Request, NEW q \in Keys!Request,
         Keys!Clean(p), Keys!Clean(q), Keys!BuildCacheKey(p) = Keys!BuildCacheKey(q)
  PROVE  Keys!Agree(p, q)
  <1> DEFINE pe == <<Keys!Bar>> \o p.identity
             qe == <<Keys!Bar>> \o q.identity
             u == FromQuery(p)
             v == FromQuery(q)
  <1>1. /\ p.path \in Seq(Symbol) /\ q.path \in Seq(Symbol)
        /\ p.identity \in Seq(Symbol) /\ q.identity \in Seq(Symbol)
        /\ p.headers \in Values /\ q.headers \in Values
    BY RequestTypes, Zenon
  <1>2. /\ CleanValues(p.headers) /\ CleanValues(q.headers)
        /\ \A i \in 1 .. Len(p.path) : p.path[i] # Keys!Bar
        /\ \A i \in 1 .. Len(q.path) : q.path[i] # Keys!Bar
    BY CleanRequest, Zenon
  <1>3. u \in Seq(Symbol) /\ v \in Seq(Symbol)
    BY KeyIsJoined, Zenon
  <1>4. p.path \o (<<Keys!Bar>> \o u) = q.path \o (<<Keys!Bar>> \o v)
    BY KeyIsJoined, Zenon
  <1>5. p.path = q.path /\ u = v
    <2> HIDE DEF u, v
    <2> QED
      BY <1>1, <1>2, <1>3, <1>4, SplitAtBar, ZenonT(60)
  <1>6. p.query \in Keys!Arranged(q.query) /\ FromHeaders(p) = FromHeaders(q)
    BY <1>5, QueryApart, Zenon
  <1>7. pe \in Seq(Symbol) /\ Opens(pe) /\ qe \in Seq(Symbol) /\ Opens(qe)
    BY <1>1, BarOpens
  <1>8. p.headers = q.headers
    <2>1. SameHeaders(p.headers, pe, q.headers, qe)
      BY <1>6, Zenon DEF SameHeaders, FromHeaders
    <2> HIDE DEF pe, qe
    <2>2. SameParts(p.headers, pe, q.headers, qe)
      BY <1>1, <1>2, <1>7, <2>1, HeadersApart
    <2> QED
      BY <2>2 DEF SameParts
  <1>9. p.identity = q.identity
    BY <1>6, <1>8, IdentityApart, Zenon
  <1> QED
    BY <1>5, <1>6, <1>8, <1>9, Zenon DEF Keys!Agree

\* For one path what follows it in the key agrees, whatever characters it holds.
LEMMA SamePath ==
  ASSUME Keys!ConstantsAssumption, NEW p \in Keys!Request, NEW q \in Keys!Request,
         Keys!BuildCacheKey(p) = Keys!BuildCacheKey(q), p.path = q.path
  PROVE  p.query \in Keys!Arranged(q.query) /\ FromHeaders(p) = FromHeaders(q)
  <1> DEFINE u == FromQuery(p)
             v == FromQuery(q)
             a == <<Keys!Bar>> \o u
             b == <<Keys!Bar>> \o v
  <1>1. u \in Seq(Symbol) /\ v \in Seq(Symbol) /\ q.path \in Seq(Symbol)
    BY KeyIsJoined, RequestTypes, Zenon
  <1>2. a \in Seq(Symbol) /\ b \in Seq(Symbol)
    <2> HIDE DEF u, v
    <2> QED
      BY <1>1, BarOpens
  <1>3. q.path \o a = q.path \o b
    BY KeyIsJoined, Zenon
  <1>4. a = b
    <2> HIDE DEF a, b
    <2> QED
      BY <1>1, <1>2, <1>3, CancelLeft, Zenon
  <1>5. u = v
    <2> HIDE DEF u, v
    <2> QED
      BY <1>1, <1>4, CancelBar, Zenon
  <1> QED
    BY <1>5, QueryApart, Zenon

\* Requests of one key that differ in the path only do not differ.
LEMMA PathApart ==
  ASSUME Keys!ConstantsAssumption, NEW p \in Keys!Request, NEW q \in Keys!Request,
         Keys!BuildCacheKey(p) = Keys!BuildCacheKey(q),
         p.headers = q.headers, p.identity = q.identity, p.query \in Keys!Arranged(q.query)
  PROVE  p.path = q.path
  <1> DEFINE u == FromQuery(q)
             a == <<Keys!Bar>> \o u
  <1>1. /\ p.path \in Seq(Symbol) /\ q.path \in Seq(Symbol) /\ u \in Seq(Symbol)
        /\ p.query \in Seq(QueryItem) /\ q.query \in Seq(QueryItem)
    BY KeyIsJoined, RequestTypes, Zenon
  <1>2. a \in Seq(Symbol)
    <2> HIDE DEF u
    <2> QED
      BY <1>1, BarOpens
  <1>3. Keys!CanonicalQuery(p.query) = Keys!CanonicalQuery(q.query)
    BY <1>1, SameCanonical, Zenon
  <1>4. FromQuery(p) = u
    <2>1. FromHeaders(p) = FromHeaders(q)
      BY Zenon DEF FromHeaders
    <2> QED
      BY <1>3, <2>1, Zenon DEF FromQuery
  <1>5. p.path \o a = q.path \o a
    <2>1. /\ Keys!BuildCacheKey(p) = p.path \o (<<Keys!Bar>> \o FromQuery(p))
          /\ Keys!BuildCacheKey(q) = q.path \o (<<Keys!Bar>> \o FromQuery(q))
      BY KeyIsJoined, Zenon
    <2> QED
      BY <1>4, <2>1, Zenon
  <1> HIDE DEF a
  <1> QED
    BY <1>1, <1>2, <1>5, CancelRight, Zenon

\* Nor do those that differ in one header only.
LEMMA OneHeaderApart ==
  ASSUME Keys!ConstantsAssumption, NEW p \in Keys!Request, NEW q \in Keys!Request,
         Keys!BuildCacheKey(p) = Keys!BuildCacheKey(q), p.path = q.path, p.identity = q.identity,
         NEW i \in DOMAIN Header, \A j \in DOMAIN Header : j # i => p.headers[j] = q.headers[j]
  PROVE  p.headers = q.headers
  <1> DEFINE u == Keys!HeaderValues(p.headers)
             v == Keys!HeaderValues(q.headers)
             e == <<Keys!Bar>> \o q.identity
  <1>1. q.identity \in Seq(Symbol) /\ p.headers \in Values /\ q.headers \in Values
    BY RequestTypes, Zenon
  <1>2. u \in Seq(Symbol) /\ v \in Seq(Symbol)
    BY <1>1, HeaderValuesType
  <1>3. e \in Seq(Symbol)
    BY <1>1, BarOpens
  <1>4. FromHeaders(p) = FromHeaders(q)
    BY SamePath, Zenon
  <1>5. u \o e = v \o e
    BY <1>4, Zenon DEF FromHeaders
  <1>6. u = v
    <2> HIDE DEF u, v, e
    <2> QED
      BY <1>2, <1>3, <1>5, CancelRight, Zenon
  <1> QED
    BY <1>1, <1>6, OneHeader, Zenon

\* One difference between two requests is in their keys, whatever characters they hold.
LEMMA OneDifference ==
  ASSUME Keys!ConstantsAssumption, NEW p \in Keys!Request, NEW q \in Keys!Request,
         Keys!BuildCacheKey(p) = Keys!BuildCacheKey(q)
  PROVE  /\ p.path = q.path /\ p.headers = q.headers => Keys!Agree(p, q)
         /\ Keys!Agree([p EXCEPT !.path = q.path], q) => Keys!Agree(p, q)
         /\ \A i \in DOMAIN Header :
              Keys!Agree([p EXCEPT !.headers[i] = q.headers[i]], q) => Keys!Agree(p, q)
  <1>1. ASSUME p.path = q.path, p.headers = q.headers PROVE Keys!Agree(p, q)
    <2>1. p.query \in Keys!Arranged(q.query) /\ FromHeaders(p) = FromHeaders(q)
      BY <1>1, SamePath, Zenon
    <2>2. p.identity = q.identity
      BY <1>1, <2>1, IdentityApart, Zenon
    <2> QED
      BY <1>1, <2>1, <2>2, Zenon DEF Keys!Agree
  <1>2. ASSUME Keys!Agree([p EXCEPT !.path = q.path], q) PROVE Keys!Agree(p, q)
    <2>1. p.headers = q.headers /\ p.identity = q.identity /\ p.query \in Keys!Arranged(q.query)
      <3>1. LET r == [p EXCEPT !.path = q.path]
            IN r.headers = p.headers /\ r.identity = p.identity /\ r.query = p.query
        BY DEF Keys!Request
      <3> QED
        BY <1>2, <3>1, Zenon DEF Keys!Agree
    <2>2. p.path = q.path
      BY <2>1, PathApart, Zenon
    <2> QED
      BY <2>1, <2>2, Zenon DEF Keys!Agree
  <1>3. ASSUME NEW i \in DOMAIN Header, Keys!Agree([p EXCEPT !.headers[i] = q.headers[i]], q)
        PROVE  Keys!Agree(p, q)
    <2> DEFINE r == [p EXCEPT !.headers[i] = q.headers[i]]
    <2>1. r.path = p.path /\ r.identity = p.identity /\ r.query = p.query
      BY DEF Keys!Request
    <2>2. p.headers \in Values
      BY RequestTypes, Zenon
    <2>3. r.headers = [p.headers EXCEPT ![i] = q.headers[i]]
      BY DEF Keys!Request
    <2>4. \A j \in DOMAIN Header : j # i => r.headers[j] = p.headers[j]
      BY <2>2, <2>3 DEF Values
    <2>5. Keys!Agree(r, q)
      BY <1>3
    <2> HIDE DEF r
    <2>6. r.path = q.path /\ r.headers = q.headers /\ r.identity = q.identity
          /\ r.query \in Keys!Arranged(q.query)
      BY <2>5, Zenon DEF Keys!Agree
    <2>7. \A j \in DOMAIN Header : j # i => p.headers[j] = q.headers[j]
      BY <2>4, <2>6
    <2>8. p.path = q.path /\ p.identity = q.identity /\ p.query \in Keys!Arranged(q.query)
      BY <2>1, <2>6
    <2>9. p.headers = q.headers
      BY <2>7, <2>8, OneHeaderApart, Zenon
    <2> QED
      BY <2>8, <2>9, Zenon DEF Keys!Agree
  <1> QED
    BY <1>1, <1>2, <1>3

\* A key does not tell in which order a query has its items.
LEMMA KeyIsStable ==
  ASSUME Keys!ConstantsAssumption, NEW p \in Keys!Request, NEW q \in Keys!Request,
         p.query \in Keys!Arranged(q.query), [p EXCEPT !.query = q.query] = q
  PROVE  Keys!BuildCacheKey(p) = Keys!BuildCacheKey(q)
  <1>1. p.path = q.path /\ p.headers = q.headers /\ p.identity = q.identity
    BY DEF Keys!Request
  <1>2. p.query \in Seq(QueryItem) /\ q.query \in Seq(QueryItem)
    BY DEF Keys!Request, Keys!ConstantsAssumption, QueryItem
  <1>3. Keys!CanonicalQuery(p.query) = Keys!CanonicalQuery(q.query)
    BY <1>2, SameCanonical
  <1> QED
    BY <1>1, <1>3, Zenon DEF Keys!BuildCacheKey

(***************************************************************************)
(* CacheKeys: the invariant.                                               *)
(***************************************************************************)

\* A request is answered from the store if and only if its key is that of the response.
KeysInv ==
  /\ stored \in Keys!Request /\ request \in Keys!Request
  /\ answer \in {"none", "stored", "own"}
  /\ answer = "stored" => Keys!BuildCacheKey(request) = Keys!BuildCacheKey(stored)
  /\ answer = "own" => Keys!BuildCacheKey(request) # Keys!BuildCacheKey(stored)

LEMMA KeysProperties ==
  ASSUME Keys!ConstantsAssumption, KeysInv PROVE part = "keys" => KeysAreFaithful
  <1>1. Keys!SharedOnlyEqual
    BY KeyApart, Zenon DEF KeysInv, Keys!SharedOnlyEqual
  <1>2. Keys!OneDifferenceIsSeen
    BY OneDifference, Zenon DEF KeysInv, Keys!OneDifferenceIsSeen
  <1>3. Keys!OrderIsNothing
    BY KeyIsStable DEF KeysInv, Keys!OrderIsNothing
  <1> QED
    BY <1>1, <1>2, <1>3 DEF KeysAreFaithful

LEMMA KeysInit ==
  ASSUME Keys!Init PROVE KeysInv
  BY DEF Keys!Init, KeysInv

LEMMA KeysNext ==
  ASSUME KeysInv, [Keys!Next]_(Keys!vars) PROVE KeysInv'
  <1>1. ASSUME NEW q \in Keys!Request, Keys!Ask(q) PROVE KeysInv'
    <2>1. stored' = stored /\ request' = q
      BY <1>1 DEF Keys!Ask
    <2>2. answer' = IF Keys!BuildCacheKey(q) = Keys!BuildCacheKey(stored) THEN "stored" ELSE "own"
      BY <1>1 DEF Keys!Ask
    <2>3. /\ Keys!BuildCacheKey(request)' = Keys!BuildCacheKey(q)
          /\ Keys!BuildCacheKey(stored)' = Keys!BuildCacheKey(stored)
      BY <2>1
    <2> QED
      BY <2>1, <2>2, <2>3 DEF KeysInv
  <1>2. ASSUME Keys!Store PROVE KeysInv'
    BY <1>2 DEF Keys!Store, KeysInv
  <1>3. ASSUME UNCHANGED Keys!vars PROVE KeysInv'
    <2>1. stored' = stored /\ request' = request /\ answer' = answer
      BY <1>3 DEF Keys!vars
    <2>2. /\ Keys!BuildCacheKey(request)' = Keys!BuildCacheKey(request)
          /\ Keys!BuildCacheKey(stored)' = Keys!BuildCacheKey(stored)
      BY <2>1
    <2> QED
      BY <2>1, <2>2 DEF KeysInv
  <1> QED
    BY <1>1, <1>2, <1>3 DEF Keys!Next

\* A request is answered from the store if and only if its key is that of the response.
THEOREM KeysInvariant ==
  ASSUME Keys!ConstantsAssumption
  PROVE  Keys!Spec => [](KeysInv)
  <1>1. Keys!Init => KeysInv
    BY KeysInit
  <1>2. KeysInv /\ [Keys!Next]_(Keys!vars) => (KeysInv)'
    BY KeysNext
  <1> QED
    BY <1>1, <1>2, PTL DEF Keys!Spec

\* A behaviour of Data is one of CacheKeys from its start, or never.
LEMMA DataIsKeys ==
  /\ Spec /\ part = "keys" => Keys!Spec
  /\ Spec /\ ~(part = "keys") => []~(part = "keys")
  <1>1. Init /\ part = "keys" => Keys!Init
    BY DEF Init
  <1>2. [Next]_vars =>
          /\ part = "keys" => (part = "keys")' /\ [Keys!Next]_(Keys!vars)
          /\ ~(part = "keys") => ~(part = "keys")'
    BY DEF Next, vars, Keys!vars
  <1> QED
    BY <1>1, <1>2, PTL DEF Spec, Keys!Spec

\* Cache, for texts of any length.  Without separators in path and header values, requests
\* share a response only if all that build_cache_key is made of is equal.  With any
\* characters, those of one path and the same headers do not share it with another query
\* or identity, nor do those that differ in the path or in one header only, and requests
\* that differ only in the order of the query's items do share it.
THEOREM KeysAreFaithfulHolds == Spec => []KeysAreFaithful
  <1>1. Keys!ConstantsAssumption
    BY PartsAssumption
  <1>2. Keys!Spec => [](KeysInv)
    BY <1>1, KeysInvariant
  <1>3. /\ KeysInv => KeysAreFaithful
        /\ ~(part = "keys") => KeysAreFaithful
    BY <1>1, KeysProperties DEF KeysAreFaithful
  <1> QED
    BY <1>2, <1>3, DataIsKeys, PTL

================================================================================
