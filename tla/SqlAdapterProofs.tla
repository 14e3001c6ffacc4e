---------------------------- MODULE SqlAdapterProofs ----------------------------
(* Theorems about SqlAdapter, for every set of tasks and instances, pool and budget. *)
EXTENDS SqlAdapter, SequenceTheorems, FiniteSetTheorems, TLAPS

(***************************************************************************)
(* The inductive invariant.                                                *)
(***************************************************************************)

\* A task is inside of a block of the instance; how many of them.
InBlock(t, i) == \E n \in 1 .. Len(stack[t]) : stack[t][n].inst = i
Blocks(t, i) == {n \in 1 .. Len(stack[t]) : stack[t][n].inst = i}
Opening(t, i) == pc[t] = "await" /\ call[t].goal = "begin" /\ call[t].inst = i

\* A task uses an instance: it awaits a call of it, or is inside of its block.
Busy(t, i) == call[t].inst = i \/ InBlock(t, i)

\* An instance has a connection of its own, a task one of an HTTP transaction.
Owns(i) == sql[i].borrowed = None /\ sql[i].conn # None
Returns(t) == pc[t] = "release" /\ call[t].goal = "http"
Scoped(t) == HttpConnections(t) \cup (IF Returns(t) THEN {call[t].conn} ELSE {})

\* What a task awaits.
CallInv(t) ==
  /\ pc[t] = "ready" => call[t] = NoCall
  /\ pc[t] = "acquire" =>
       /\ call[t].goal \in {"statement", "begin", "http"} /\ call[t].conn = None
       /\ HttpConnections(t) = {}
       /\ IF call[t].goal = "http" THEN call[t].inst = NoInstance
          ELSE /\ call[t].inst \in Private[t]
               /\ sql[call[t].inst].conn = None /\ sql[call[t].inst].borrowed = None
  /\ pc[t] = "await" =>
       /\ call[t].goal \in {"statement", "begin", "end"}
       /\ call[t].inst \in Instance
       /\ sql[call[t].inst].conn = call[t].conn /\ call[t].conn # None
       /\ HttpConnections(t) # {} =>
            call[t].goal = "statement" /\ sql[call[t].inst].borrowed = call[t].conn
       /\ call[t].goal = "end" =>
            /\ Inside(t, "own") /\ Last(stack[t]).inst = call[t].inst
            /\ Last(stack[t]).conn = call[t].conn
  /\ pc[t] = "release" =>
       /\ HttpConnections(t) = {}
       /\ \/ call[t].goal = "http" /\ call[t].inst = NoInstance /\ call[t].conn # None
          \/ /\ call[t].goal = "release" /\ call[t].inst \in Private[t]
             /\ sql[call[t].inst].conn = call[t].conn /\ call[t].conn # None
             /\ sql[call[t].inst].borrowed = None /\ sql[call[t].inst].depth = 0

\* Standalone blocks are outside of the HTTP transaction, joined ones inside, and its
\* callbacks run when it is over.  A child task is in no block and awaits nothing.
ShapeInv(t) ==
  /\ \A n \in 1 .. Len(stack[t]) : \A m \in 1 .. n - 1 :
       stack[t][m].kind = "own" \/ (stack[t][n].kind = "joined" /\ stack[t][m].kind # "callbacks")
  /\ Inside(t, "callbacks") => pc[t] = "ready"
  /\ t \in Child => pc[t] = "ready" /\ stack[t] = <<>>

\* The connection of each block is the instance's, and lent.
FrameInv(t) ==
  \A n \in 1 .. Len(stack[t]) :
    LET f == stack[t][n] IN
    /\ f.kind = "own" =>
         /\ f.inst \in Private[t] /\ f.conn \in live
         /\ sql[f.inst].conn = f.conn /\ sql[f.inst].borrowed = None
    /\ f.kind = "joined" =>
         /\ f.inst \in Instance /\ f.conn \in HttpConnections(t)
         /\ sql[f.inst].conn = f.conn /\ sql[f.inst].borrowed = f.conn
    /\ f.kind = "http" => f.inst = NoInstance /\ f.conn \in live
    /\ f.kind = "callbacks" => f.inst = NoInstance

\* The fields of an instance while a task uses it.
UseInv(t, i) ==
  Busy(t, i) =>
    /\ i \in Private[t] \cup Shared
    /\ sql[i].borrowed # None =>
         sql[i].conn = sql[i].borrowed /\ sql[i].borrowed \in HttpConnections(t)
    /\ i \in Shared => sql[i].borrowed # None
    /\ sql[i].depth = Cardinality(Blocks(t, i)) + (IF Opening(t, i) THEN 1 ELSE 0)

TaskInv(t) == CallInv(t) /\ ShapeInv(t) /\ FrameInv(t) /\ \A i \in Instance : UseInv(t, i)

\* One task at a time uses an instance.
OneUser ==
  \A t \in Task : \A u \in Task \ {t} : \A i \in Instance : ~(Busy(t, i) /\ Busy(u, i))

\* An instance that nobody uses has left every block and scope, and what it may still
\* hold is no connection any more.
IdleInv ==
  \A i \in Instance : (\A t \in Task : ~Busy(t, i)) =>
    sql[i].depth = 0 /\ sql[i].borrowed = None /\ sql[i].conn \notin live

\* No connection has two owners; numbers are of connections that were lent.
DistinctInv ==
  /\ \A i \in Instance : \A j \in Instance \ {i} :
       Owns(i) /\ Owns(j) => sql[i].conn # sql[j].conn
  /\ \A i \in Instance : \A t \in Task : Owns(i) => sql[i].conn \notin Scoped(t)
  /\ \A t \in Task : \A u \in Task \ {t} : Scoped(t) \cap Scoped(u) = {}
NumberInv ==
  /\ \A i \in Instance : sql[i].conn <= issued
  /\ \A t \in Task : \A c \in Scoped(t) : c \in 1 .. issued
  /\ live \subseteq 1 .. issued

\* Every connection that was lent has an owner that is in use.
HeldInv ==
  \A c \in live :
    \/ \E t \in Task : c \in Scoped(t)
    \/ \E t \in Task : \E i \in Instance : Busy(t, i) /\ Owns(i) /\ sql[i].conn = c

SqlInv ==
  /\ \A t \in Task : TaskInv(t)
  /\ OneUser /\ IdleInv /\ DistinctInv /\ NumberInv /\ HeldInv

USE DEF None

(***************************************************************************)
(* Stacks: what is seen of one when a block is entered or left.            *)
(***************************************************************************)

LEMMA StackFacts ==
  ASSUME TypeOK, NEW t \in Task
  PROVE  /\ stack[t] \in Seq(Frame) /\ Len(stack[t]) \in Nat
         /\ stack[t] = <<>> <=> Len(stack[t]) = 0
         /\ \A n \in 1 .. Len(stack[t]) : stack[t][n] \in Frame
         /\ \A c : c \in HttpConnections(t) <=>
              \E n \in 1 .. Len(stack[t]) : stack[t][n].kind = "http" /\ stack[t][n].conn = c
         /\ \A i : IsFiniteSet(Blocks(t, i)) /\ Cardinality(Blocks(t, i)) \in Nat
         /\ \A i : InBlock(t, i) <=> Cardinality(Blocks(t, i)) > 0
  <1>1. /\ stack[t] \in Seq(Frame) /\ Len(stack[t]) \in Nat
        /\ DOMAIN stack[t] = 1 .. Len(stack[t])
        /\ stack[t] = <<>> <=> Len(stack[t]) = 0
        /\ \A n \in 1 .. Len(stack[t]) : stack[t][n] \in Frame
    BY DEF TypeOK
  <1>2. ASSUME NEW c
        PROVE  c \in HttpConnections(t) <=>
                 \E n \in 1 .. Len(stack[t]) : stack[t][n].kind = "http" /\ stack[t][n].conn = c
    BY <1>1 DEF HttpConnections, Frames, ToSet
  <1>3. ASSUME NEW i
        PROVE  /\ IsFiniteSet(Blocks(t, i)) /\ Cardinality(Blocks(t, i)) \in Nat
               /\ InBlock(t, i) <=> Cardinality(Blocks(t, i)) > 0
    <2>1. Blocks(t, i) \subseteq 1 .. Len(stack[t]) /\ IsFiniteSet(1 .. Len(stack[t]))
      BY <1>1, FS_Interval DEF Blocks
    <2>2. IsFiniteSet(Blocks(t, i))
      BY <2>1, FS_Subset
    <2>3. Cardinality(Blocks(t, i)) \in Nat
          /\ (Cardinality(Blocks(t, i)) = 0 <=> Blocks(t, i) = {})
      BY <2>2, FS_CardinalityType, FS_EmptySet
    <2>4. InBlock(t, i) <=> Blocks(t, i) # {}
      BY DEF InBlock, Blocks
    <2> QED
      BY <2>2, <2>3, <2>4
  <1> QED
    BY <1>1, <1>2, <1>3

\* A block is entered.
LEMMA PushFacts ==
  ASSUME TypeOK, NEW t \in Task, NEW kind \in {"joined", "own", "http", "callbacks"},
         NEW i \in Instance \cup {NoInstance}, NEW c \in Nat, Push(t, kind, i, c)
  PROVE  /\ stack' \in [Task -> Seq(Frame)]
         /\ \A u \in Task \ {t} : stack'[u] = stack[u]
         /\ Len(stack'[t]) = Len(stack[t]) + 1 /\ stack'[t] # <<>>
         /\ \A n \in 1 .. Len(stack[t]) : stack'[t][n] = stack[t][n]
         /\ stack'[t][Len(stack'[t])] = [kind |-> kind, inst |-> i, conn |-> c]
         /\ Last(stack'[t]) = [kind |-> kind, inst |-> i, conn |-> c]
         /\ HttpConnections(t)' = HttpConnections(t) \cup (IF kind = "http" THEN {c} ELSE {})
         /\ \A j : InBlock(t, j)' <=> InBlock(t, j) \/ j = i
         /\ \A j : Cardinality(Blocks(t, j)') =
                     Cardinality(Blocks(t, j)) + (IF j = i THEN 1 ELSE 0)
  <1> DEFINE f == [kind |-> kind, inst |-> i, conn |-> c]
             n == Len(stack[t])
  <1>1. f \in Frame /\ f.kind = kind /\ f.inst = i /\ f.conn = c
    BY DEF Frame
  <1> HIDE DEF f
  <1>2. stack' = [stack EXCEPT ![t] = Append(stack[t], f)]
    BY DEF Push, f
  <1>3. /\ stack' \in [Task -> Seq(Frame)] /\ stack'[t] = Append(stack[t], f)
        /\ \A u \in Task \ {t} : stack'[u] = stack[u]
    BY <1>1, <1>2, AppendProperties DEF TypeOK
  <1>4. stack[t] \in Seq(Frame) /\ n \in Nat
    BY StackFacts
  <1>5. /\ Len(stack'[t]) = n + 1 /\ stack'[t] # <<>>
        /\ \A m \in 1 .. n : stack'[t][m] = stack[t][m]
        /\ stack'[t][n + 1] = f /\ Last(stack'[t]) = f
        /\ DOMAIN stack'[t] = 1 .. n + 1
    BY <1>1, <1>3, <1>4, AppendProperties DEF Last
  <1>6. \A m : m \in 1 .. n + 1 <=> m \in 1 .. n \/ m = n + 1
    BY <1>4
  <1>7. \A d : d \in HttpConnections(t)' <=> d \in HttpConnections(t) \/ (kind = "http" /\ d = c)
    <2>1. \A d : d \in HttpConnections(t)' <=>
            \E m \in 1 .. n + 1 : stack'[t][m].kind = "http" /\ stack'[t][m].conn = d
      BY <1>5 DEF HttpConnections, Frames, ToSet
    <2>2. \A d : d \in HttpConnections(t) <=>
            \E m \in 1 .. n : stack[t][m].kind = "http" /\ stack[t][m].conn = d
      BY StackFacts
    <2>3. ASSUME NEW d
          PROVE  (\E m \in 1 .. n + 1 : stack'[t][m].kind = "http" /\ stack'[t][m].conn = d)
                 <=> \/ \E m \in 1 .. n : stack[t][m].kind = "http" /\ stack[t][m].conn = d
                     \/ kind = "http" /\ d = c
      <3> HIDE DEF n
      <3> QED
        BY <1>1, <1>5, <1>6
    <2> QED
      BY <2>1, <2>2, <2>3
  <1>8. ASSUME NEW j
        PROVE  /\ InBlock(t, j)' <=> InBlock(t, j) \/ j = i
               /\ Cardinality(Blocks(t, j)') =
                    Cardinality(Blocks(t, j)) + (IF j = i THEN 1 ELSE 0)
    <2>1. InBlock(t, j)' <=> InBlock(t, j) \/ j = i
      BY <1>1, <1>5, <1>6 DEF InBlock
    <2>2. CASE j = i
      <3>1. Blocks(t, j)' = Blocks(t, j) \cup {n + 1} /\ n + 1 \notin Blocks(t, j)
        BY <1>1, <1>4, <1>5, <1>6, <2>2 DEF Blocks
      <3>2. IsFiniteSet(Blocks(t, j))
        BY StackFacts
      <3> QED
        BY <2>1, <2>2, <3>1, <3>2, FS_AddElement
    <2>3. CASE j # i
      <3>1. Blocks(t, j)' = Blocks(t, j)
        BY <1>1, <1>5, <1>6, <2>3 DEF Blocks
      <3> QED
        BY <2>1, <2>3, <3>1, StackFacts
    <2> QED
      BY <2>2, <2>3
  <1>9. HttpConnections(t)' = HttpConnections(t) \cup (IF kind = "http" THEN {c} ELSE {})
    BY <1>7
  <1> QED
    BY <1>3, <1>5, <1>8, <1>9 DEF f

\* The innermost block is left.
LEMMA PopFacts ==
  ASSUME TypeOK, NEW t \in Task, stack[t] # <<>>, Pop(t)
  PROVE  /\ stack' \in [Task -> Seq(Frame)]
         /\ \A u \in Task \ {t} : stack'[u] = stack[u]
         /\ Len(stack'[t]) = Len(stack[t]) - 1 /\ Len(stack[t]) \in Nat \ {0}
         /\ \A n \in 1 .. Len(stack'[t]) : stack'[t][n] = stack[t][n]
         /\ Last(stack[t]) = stack[t][Len(stack[t])] /\ Last(stack[t]) \in Frame
         /\ HttpConnections(t) =
              HttpConnections(t)' \cup
                (IF Last(stack[t]).kind = "http" THEN {Last(stack[t]).conn} ELSE {})
         /\ \A j : InBlock(t, j) <=> InBlock(t, j)' \/ j = Last(stack[t]).inst
         /\ \A j : Cardinality(Blocks(t, j)') =
                     Cardinality(Blocks(t, j)) - (IF j = Last(stack[t]).inst THEN 1 ELSE 0)
  <1> DEFINE f == Last(stack[t])
             n == Len(stack[t])
  <1>1. stack[t] \in Seq(Frame) /\ n \in Nat /\ n > 0
    BY StackFacts
  <1>2. f = stack[t][n] /\ f \in Frame
    BY <1>1, StackFacts DEF Last
  <1>3. /\ Front(stack[t]) \in Seq(Frame) /\ Len(Front(stack[t])) = n - 1
        /\ \A m \in 1 .. n - 1 : Front(stack[t])[m] = stack[t][m]
    BY <1>1, SubSeqProperties DEF Front
  <1>4. /\ stack' \in [Task -> Seq(Frame)] /\ stack'[t] = Front(stack[t])
        /\ \A u \in Task \ {t} : stack'[u] = stack[u]
    BY <1>3 DEF Pop, TypeOK
  <1>5. /\ Len(stack'[t]) = n - 1 /\ DOMAIN stack'[t] = 1 .. n - 1
        /\ \A m \in 1 .. n - 1 : stack'[t][m] = stack[t][m]
    BY <1>3, <1>4
  <1> HIDE DEF f
  <1>6. \A m : m \in 1 .. n <=> m \in 1 .. n - 1 \/ m = n
    BY <1>1
  <1>7. \A d : d \in HttpConnections(t) <=>
                 d \in HttpConnections(t)' \/ (f.kind = "http" /\ d = f.conn)
    <2>1. \A d : d \in HttpConnections(t)' <=>
            \E m \in 1 .. n - 1 : stack'[t][m].kind = "http" /\ stack'[t][m].conn = d
      BY <1>5 DEF HttpConnections, Frames, ToSet
    <2>2. \A d : d \in HttpConnections(t) <=>
            \E m \in 1 .. n : stack[t][m].kind = "http" /\ stack[t][m].conn = d
      BY StackFacts
    <2>3. ASSUME NEW d
          PROVE  (\E m \in 1 .. n : stack[t][m].kind = "http" /\ stack[t][m].conn = d)
                 <=> \/ \E m \in 1 .. n - 1 : stack'[t][m].kind = "http" /\ stack'[t][m].conn = d
                     \/ f.kind = "http" /\ d = f.conn
      <3> HIDE DEF n
      <3> QED
        BY <1>2, <1>5, <1>6
    <2> QED
      BY <2>1, <2>2, <2>3
  <1>8. ASSUME NEW j
        PROVE  /\ InBlock(t, j) <=> InBlock(t, j)' \/ j = f.inst
               /\ Cardinality(Blocks(t, j)') =
                    Cardinality(Blocks(t, j)) - (IF j = f.inst THEN 1 ELSE 0)
    <2>1. InBlock(t, j) <=> InBlock(t, j)' \/ j = f.inst
      BY <1>2, <1>5, <1>6 DEF InBlock
    <2>2. CASE j = f.inst
      <3>1. Blocks(t, j)' = Blocks(t, j) \ {n} /\ n \in Blocks(t, j)
        BY <1>1, <1>2, <1>5, <1>6, <2>2 DEF Blocks
      <3>2. IsFiniteSet(Blocks(t, j))
        BY StackFacts
      <3> QED
        BY <2>1, <2>2, <3>1, <3>2, FS_RemoveElement
    <2>3. CASE j # f.inst
      <3>1. Blocks(t, j)' = Blocks(t, j)
        BY <1>1, <1>2, <1>5, <1>6, <2>3 DEF Blocks
      <3> QED
        BY <2>1, <2>3, <3>1, StackFacts
    <2> QED
      BY <2>2, <2>3
  <1>9. HttpConnections(t) = HttpConnections(t)' \cup (IF f.kind = "http" THEN {f.conn} ELSE {})
    BY <1>7
  <1> QED
    BY <1>1, <1>2, <1>4, <1>5, <1>8, <1>9 DEF f

\* Nothing is entered or left.
LEMMA StackKept ==
  ASSUME NEW t \in Task, stack'[t] = stack[t]
  PROVE  /\ HttpConnections(t)' = HttpConnections(t)
         /\ \A kind : Inside(t, kind)' <=> Inside(t, kind)
         /\ \A i : (InBlock(t, i)' <=> InBlock(t, i)) /\ Blocks(t, i)' = Blocks(t, i)
  BY DEF HttpConnections, Frames, Inside, InBlock, Blocks

(***************************************************************************)
(* What a step of one task leaves of the invariant for the others.         *)
(***************************************************************************)

\* The task changes an instance, or begins to use one, that nobody else uses.
Local(t) ==
  /\ \A u \in Task \ {t} : pc'[u] = pc[u] /\ call'[u] = call[u] /\ stack'[u] = stack[u]
  /\ \A j \in Instance :
       sql'[j] = sql[j] \/ \A u \in Task \ {t} : ~Busy(u, j)
  /\ \A j \in Instance :
       Busy(t, j)' => Busy(t, j) \/ \A u \in Task \ {t} : ~Busy(u, j)

\* A connection is the task's, or that of an instance which it uses.
Has(t, c) ==
  c \in Scoped(t) \/ \E i \in Instance : Busy(t, i) /\ Owns(i) /\ sql[i].conn = c

\* Nothing is lent or returned, one connection is lent, or one of the task's returned.
PoolStep(t) ==
  \/ live' = live /\ issued' = issued
  \/ issued' = issued + 1 /\ live' = live \cup {issued'}
  \/ issued' = issued /\ \E c : Has(t, c) /\ live' = live \ {c}

\* Owners stay or stop being owners; a new connection has one owner: an instance, or
\* the task.
Owners(t) ==
  \E new \in Instance \cup {NoInstance} :
    /\ \A j \in Instance : Owns(j)' =>
         IF j = new THEN issued' = issued + 1 /\ sql'[j].conn = issued'
                    ELSE Owns(j) /\ sql'[j].conn = sql[j].conn
    /\ \A c \in Scoped(t)' :
         c \in Scoped(t) \/ (new = NoInstance /\ issued' = issued + 1 /\ c = issued')

\* Instances get no connection from elsewhere, none of the task's is forgotten, and
\* what the task stops using is clean.
Cares(t) ==
  /\ \A j \in Instance : \/ sql'[j].conn \in {sql[j].conn, None, issued'}
                         \/ sql'[j].conn \in Scoped(t)
  /\ \A c \in live' : c \notin live \/ Has(t, c) => Has(t, c)'
  /\ \A j \in Instance : ~Busy(t, j)' /\ (Busy(t, j) \/ sql'[j] # sql[j]) =>
       sql'[j].depth = 0 /\ sql'[j].borrowed = None /\ sql'[j].conn \notin live'

LEMMA OthersSame ==
  ASSUME NEW t \in Task, Local(t), NEW u \in Task \ {t}
  PROVE  /\ pc'[u] = pc[u] /\ call'[u] = call[u] /\ stack'[u] = stack[u]
         /\ HttpConnections(u)' = HttpConnections(u) /\ Scoped(u)' = Scoped(u)
         /\ \A kind : Inside(u, kind)' <=> Inside(u, kind)
         /\ \A i : /\ InBlock(u, i)' <=> InBlock(u, i)
                   /\ Blocks(u, i)' = Blocks(u, i)
                   /\ Busy(u, i)' <=> Busy(u, i)
                   /\ Opening(u, i)' <=> Opening(u, i)
         /\ \A j \in Instance : Busy(u, j) => sql'[j] = sql[j]
  <1>1. pc'[u] = pc[u] /\ call'[u] = call[u] /\ stack'[u] = stack[u]
    BY DEF Local
  <1>2. /\ HttpConnections(u)' = HttpConnections(u)
        /\ \A kind : Inside(u, kind)' <=> Inside(u, kind)
        /\ \A i : (InBlock(u, i)' <=> InBlock(u, i)) /\ Blocks(u, i)' = Blocks(u, i)
    BY <1>1, StackKept
  <1>3. Scoped(u)' = Scoped(u)
    BY <1>1, <1>2 DEF Scoped, Returns
  <1>4. \A i : (Busy(u, i)' <=> Busy(u, i)) /\ (Opening(u, i)' <=> Opening(u, i))
    BY <1>1, <1>2 DEF Busy, Opening
  <1>5. \A j \in Instance : Busy(u, j) => sql'[j] = sql[j]
    BY DEF Local
  <1> QED
    BY <1>1, <1>2, <1>3, <1>4, <1>5

\* What a block of another task holds on to stays lent.
LEMMA OthersLent ==
  ASSUME TypeOK, SqlInv, NEW t \in Task, PoolStep(t), NEW u \in Task \ {t}
  PROVE  /\ \A c \in HttpConnections(u) : c \in live => c \in live'
         /\ \A j \in Instance : Busy(u, j) /\ Owns(j) /\ sql[j].conn \in live =>
              sql[j].conn \in live'
  <1>1. CASE live \subseteq live'
    BY <1>1
  <1>2. CASE \E c : Has(t, c) /\ live' = live \ {c}
    <2>1. PICK c : Has(t, c) /\ live' = live \ {c}
      BY <1>2
    <2>2. c \notin HttpConnections(u)
      BY <2>1 DEF Has, SqlInv, DistinctInv, Scoped
    <2>3. ASSUME NEW j \in Instance, Busy(u, j), Owns(j)
          PROVE  sql[j].conn # c
      BY <2>1, <2>3 DEF Has, SqlInv, DistinctInv, OneUser
    <2> QED
      BY <2>1, <2>2, <2>3
  <1> QED
    BY <1>1, <1>2 DEF PoolStep

LEMMA PrivateFacts ==
  ASSUME NEW t \in Task
  PROVE  /\ Private[t] \subseteq Instance /\ Shared \subseteq Instance
         /\ NoInstance \notin Instance
         /\ \A u \in Task \ {t} : Private[t] \cap Private[u] = {}
         /\ Private[t] \cap Shared = {}
  BY ConstantsAssumption

LEMMA OthersKept ==
  ASSUME TypeOK, SqlInv, NEW t \in Task, Local(t), PoolStep(t), NEW u \in Task \ {t}
  PROVE  TaskInv(u)'
  <1>1. TaskInv(u)
    BY DEF SqlInv
  <1>2. /\ pc'[u] = pc[u] /\ call'[u] = call[u] /\ stack'[u] = stack[u]
        /\ HttpConnections(u)' = HttpConnections(u)
        /\ \A kind : Inside(u, kind)' <=> Inside(u, kind)
        /\ \A i : /\ Blocks(u, i)' = Blocks(u, i)
                  /\ Busy(u, i)' <=> Busy(u, i)
                  /\ Opening(u, i)' <=> Opening(u, i)
        /\ \A j \in Instance : Busy(u, j) => sql'[j] = sql[j]
    BY OthersSame
  <1>3. Private[u] \subseteq Instance /\ NoInstance \notin Instance
    BY PrivateFacts
  <1>4. CallInv(u)'
    <2>1. call[u].inst \in Instance => sql'[call[u].inst] = sql[call[u].inst]
      BY <1>2 DEF Busy
    <2> QED
      BY <1>1, <1>2, <1>3, <2>1 DEF TaskInv, CallInv
  <1>5. ShapeInv(u)'
    BY <1>1, <1>2 DEF TaskInv, ShapeInv
  <1>6. FrameInv(u)'
    <2> SUFFICES ASSUME NEW n \in 1 .. Len(stack[u])
                 PROVE  LET f == stack[u][n] IN
                    /\ f.kind = "own" =>
                         /\ f.inst \in Private[u] /\ f.conn \in live'
                         /\ sql'[f.inst].conn = f.conn /\ sql'[f.inst].borrowed = None
                    /\ f.kind = "joined" =>
                         /\ f.inst \in Instance /\ f.conn \in HttpConnections(u)
                         /\ sql'[f.inst].conn = f.conn /\ sql'[f.inst].borrowed = f.conn
                    /\ f.kind = "http" => f.inst = NoInstance /\ f.conn \in live'
                    /\ f.kind = "callbacks" => f.inst = NoInstance
      BY <1>2 DEF FrameInv
    <2> DEFINE f == stack[u][n]
    <2>1. /\ f.kind = "own" =>
               /\ f.inst \in Private[u] /\ f.conn \in live
               /\ sql[f.inst].conn = f.conn /\ sql[f.inst].borrowed = None
          /\ f.kind = "joined" =>
               /\ f.inst \in Instance /\ f.conn \in HttpConnections(u)
               /\ sql[f.inst].conn = f.conn /\ sql[f.inst].borrowed = f.conn
          /\ f.kind = "http" => f.inst = NoInstance /\ f.conn \in live
          /\ f.kind = "callbacks" => f.inst = NoInstance
      BY <1>1 DEF TaskInv, FrameInv
    <2>2. f.inst \in Instance => Busy(u, f.inst) /\ sql'[f.inst] = sql[f.inst]
      BY <1>2 DEF Busy, InBlock
    <2>3. f.kind = "own" => f.conn \in live'
      <3>1. f.kind = "own" => f.inst \in Instance /\ Owns(f.inst)
        BY <1>3, <2>1 DEF Owns, SqlInv, NumberInv
      <3> QED
        BY <2>1, <2>2, <3>1, OthersLent
    <2>4. f.kind = "http" => f.conn \in live'
      <3>1. f.kind = "http" => f.conn \in HttpConnections(u)
        BY StackFacts
      <3> QED
        BY <2>1, <3>1, OthersLent
    <2> HIDE DEF f
    <2>5. /\ f.kind = "own" =>
               /\ f.inst \in Private[u] /\ f.conn \in live'
               /\ sql'[f.inst].conn = f.conn /\ sql'[f.inst].borrowed = None
          /\ f.kind = "joined" =>
               /\ f.inst \in Instance /\ f.conn \in HttpConnections(u)
               /\ sql'[f.inst].conn = f.conn /\ sql'[f.inst].borrowed = f.conn
          /\ f.kind = "http" => f.inst = NoInstance /\ f.conn \in live'
          /\ f.kind = "callbacks" => f.inst = NoInstance
      BY <1>3, <2>1, <2>2, <2>3, <2>4
    <2> QED
      BY <2>5 DEF f
  <1>7. \A i \in Instance : UseInv(u, i)'
    BY <1>1, <1>2 DEF TaskInv, UseInv
  <1> QED
    BY <1>4, <1>5, <1>6, <1>7 DEF TaskInv

\* A step of one task keeps the invariant if it keeps the task's part of it.
LEMMA StepKeeps ==
  ASSUME TypeOK, SqlInv, NEW t \in Task, Local(t), PoolStep(t), Owners(t), Cares(t),
         TaskInv(t)'
  PROVE  SqlInv'
  <1>1. \A u \in Task : TaskInv(u)'
    BY OthersKept
  <1>2. \A u \in Task \ {t} :
          /\ Scoped(u)' = Scoped(u)
          /\ \A i : Busy(u, i)' <=> Busy(u, i)
          /\ \A j \in Instance : Busy(u, j) => sql'[j] = sql[j]
    BY OthersSame
  <1>3. /\ issued \in Nat /\ issued' \in {issued, issued + 1}
        /\ live' \subseteq live \cup {issued + 1} /\ live \subseteq 1 .. issued
        /\ live' # live => live' = live \cup {issued'} \/ live' \subseteq live
    BY DEF TypeOK, PoolStep, SqlInv, NumberInv
  <1>4. /\ \A i \in Instance : sql[i].conn \in Nat /\ sql[i].conn <= issued
        /\ \A u \in Task : \A c \in Scoped(u) : c \in 1 .. issued
    BY DEF TypeOK, SQL, SqlInv, NumberInv
  <1>5. OneUser'
    BY <1>2 DEF SqlInv, OneUser, Local
  <1>6. IdleInv'
    <2> SUFFICES ASSUME NEW j \in Instance, \A u \in Task : ~Busy(u, j)'
                 PROVE  sql'[j].depth = 0 /\ sql'[j].borrowed = None /\ sql'[j].conn \notin live'
      BY DEF IdleInv
    <2>1. CASE Busy(t, j) \/ sql'[j] # sql[j]
      BY <2>1 DEF Cares
    <2>2. CASE ~Busy(t, j) /\ sql'[j] = sql[j]
      <3>1. \A u \in Task : ~Busy(u, j)
        BY <1>2, <2>2
      <3>2. sql[j].depth = 0 /\ sql[j].borrowed = None /\ sql[j].conn \notin live
        BY <3>1 DEF SqlInv, IdleInv
      <3> QED
        BY <1>3, <1>4, <2>2, <3>2
    <2> QED
      BY <2>1, <2>2
  <1>7. PICK new \in Instance \cup {NoInstance} :
          /\ \A j \in Instance : Owns(j)' =>
               IF j = new THEN issued' = issued + 1 /\ sql'[j].conn = issued'
                          ELSE Owns(j) /\ sql'[j].conn = sql[j].conn
          /\ \A c \in Scoped(t)' :
               c \in Scoped(t) \/ (new = NoInstance /\ issued' = issued + 1 /\ c = issued')
    BY DEF Owners
  <1>8. DistinctInv'
    <2>1. ASSUME NEW i \in Instance, NEW j \in Instance \ {i}, Owns(i)', Owns(j)'
          PROVE  sql'[i].conn # sql'[j].conn
      BY <1>3, <1>4, <1>7, <2>1 DEF SqlInv, DistinctInv
    <2>2. ASSUME NEW i \in Instance, NEW u \in Task, Owns(i)'
          PROVE  sql'[i].conn \notin Scoped(u)'
      <3>1. Owns(i) => sql[i].conn \notin Scoped(u)
        BY DEF SqlInv, DistinctInv
      <3>2. i \in Instance /\ NoInstance \notin Instance
        BY ConstantsAssumption
      <3>3. CASE u = t
        BY <1>3, <1>4, <1>7, <2>2, <3>1, <3>2, <3>3
      <3>4. CASE u # t
        BY <1>2, <1>3, <1>4, <1>7, <2>2, <3>1, <3>4
      <3> QED
        BY <3>3, <3>4
    <2>3. ASSUME NEW u \in Task, NEW v \in Task \ {u}
          PROVE  Scoped(u)' \cap Scoped(v)' = {}
      <3>1. Scoped(u) \cap Scoped(v) = {}
        BY DEF SqlInv, DistinctInv
      <3>2. CASE u # t /\ v # t
        BY <1>2, <3>1, <3>2
      <3>3. CASE u = t
        BY <1>2, <1>3, <1>4, <1>7, <3>1, <3>3
      <3>4. CASE v = t
        BY <1>2, <1>3, <1>4, <1>7, <3>1, <3>4
      <3> QED
        BY <3>2, <3>3, <3>4
    <2> QED
      BY <2>1, <2>2, <2>3 DEF DistinctInv
  <1>9. NumberInv'
    <2>1. \A i \in Instance : sql'[i].conn <= issued'
      BY <1>3, <1>4 DEF Cares
    <2>2. \A u \in Task : \A c \in Scoped(u)' : c \in 1 .. issued'
      BY <1>2, <1>3, <1>4, <1>7
    <2>3. live' \subseteq 1 .. issued'
      BY <1>3 DEF PoolStep
    <2> QED
      BY <2>1, <2>2, <2>3 DEF NumberInv
  <1>10. HeldInv'
    <2> SUFFICES ASSUME NEW c \in live' PROVE \E u \in Task : Has(u, c)'
      BY DEF HeldInv, Has
    <2>1. CASE c \notin live \/ Has(t, c)
      BY <2>1 DEF Cares
    <2>2. CASE c \in live /\ ~Has(t, c)
      <3>1. PICK u \in Task \ {t} : Has(u, c)
        BY <2>2 DEF SqlInv, HeldInv, Has
      <3>2. Has(u, c)'
        BY <1>2, <3>1 DEF Has, Owns
      <3> QED
        BY <3>2
    <2> QED
      BY <2>1, <2>2
  <1> QED
    BY <1>1, <1>5, <1>6, <1>8, <1>9, <1>10 DEF SqlInv

(***************************************************************************)
(* What the invariant says of a task before its step.                      *)
(***************************************************************************)

LEMMA GotoFacts ==
  ASSUME TypeOK, NEW t \in Task, NEW label \in {"ready", "acquire", "await", "release"},
         NEW c \in Call, Goto(t, label, c)
  PROVE  /\ pc' \in [Task -> {"ready", "acquire", "await", "release"}]
         /\ call' \in [Task -> Call]
         /\ pc'[t] = label /\ call'[t] = c
         /\ \A u \in Task \ {t} : pc'[u] = pc[u] /\ call'[u] = call[u]
  BY DEF TypeOK, Goto

LEMMA NoCallFacts ==
  /\ NoCall \in Call /\ NoCall.goal = "none" /\ NoCall.inst = NoInstance /\ NoCall.conn = None
  /\ NoCall.inst \notin Instance
  BY ConstantsAssumption DEF NoCall, Call, Goal

LEMMA SqlUpdate ==
  ASSUME TypeOK, NEW i \in Instance, NEW x \in SQL, sql' = [sql EXCEPT ![i] = x]
  PROVE  /\ sql' \in [Instance -> SQL] /\ sql'[i] = x
         /\ \A j \in Instance \ {i} : sql'[j] = sql[j]
  BY DEF TypeOK

\* The parts of the invariant that are about one task, one by one.
LEMMA TaskFacts ==
  ASSUME TypeOK, SqlInv, NEW t \in Task
  PROVE  /\ CallInv(t) /\ ShapeInv(t) /\ FrameInv(t)
         /\ \A i \in Instance : UseInv(t, i)
         /\ call[t] \in Call
         /\ \A i \in Instance : sql[i] \in SQL
         /\ live \subseteq 1 .. issued /\ issued \in Nat
  BY DEF SqlInv, TaskInv, TypeOK, NumberInv

\* A task has at most one HTTP transaction, of a connection that is lent.
LEMMA HttpFacts ==
  ASSUME TypeOK, SqlInv, NEW t \in Task
  PROVE  /\ \A c \in HttpConnections(t) : c \in live /\ c \in Nat /\ c # None
         /\ \A c, d \in HttpConnections(t) : c = d
  <1>1. /\ ShapeInv(t) /\ FrameInv(t) /\ live \subseteq 1 .. issued /\ issued \in Nat
        /\ Len(stack[t]) \in Nat
        /\ \A c : c \in HttpConnections(t) <=>
             \E n \in 1 .. Len(stack[t]) : stack[t][n].kind = "http" /\ stack[t][n].conn = c
    BY TaskFacts, StackFacts
  <1>2. \A c \in HttpConnections(t) : c \in live
    BY <1>1 DEF FrameInv
  <1>3. ASSUME NEW c \in HttpConnections(t), NEW d \in HttpConnections(t)
        PROVE  c = d
    <2>1. PICK m \in 1 .. Len(stack[t]) : stack[t][m].kind = "http" /\ stack[t][m].conn = c
      BY <1>1
    <2>2. PICK n \in 1 .. Len(stack[t]) : stack[t][n].kind = "http" /\ stack[t][n].conn = d
      BY <1>1
    <2>3. ~(m < n)
      <3>1. m < n => m \in 1 .. n - 1
        BY <1>1
      <3> QED
        BY <1>1, <2>1, <2>2, <3>1 DEF ShapeInv
    <2>4. ~(n < m)
      <3>1. n < m => n \in 1 .. m - 1
        BY <1>1
      <3> QED
        BY <1>1, <2>1, <2>2, <3>1 DEF ShapeInv
    <2> QED
      BY <1>1, <2>1, <2>2, <2>3, <2>4
  <1>4. \A c \in live : c \in Nat /\ c # None
    BY <1>1
  <1> QED
    BY <1>2, <1>3, <1>4

\* A task outside of its HTTP transactions is inside of standalone blocks only.
LEMMA AllOwn ==
  ASSUME TypeOK, SqlInv, NEW t \in Task, HttpConnections(t) = {}, ~Inside(t, "callbacks"),
         NEW n \in 1 .. Len(stack[t])
  PROVE  stack[t][n].kind = "own"
  <1>1. /\ ShapeInv(t) /\ FrameInv(t) /\ Len(stack[t]) \in Nat /\ stack[t] # <<>>
        /\ stack[t][n] \in Frame
        /\ stack[t][n].kind # "http"
    <2>1. stack[t][n].kind = "http" => stack[t][n].conn \in HttpConnections(t)
      BY StackFacts
    <2> QED
      BY <2>1, TaskFacts, StackFacts
  <1>2. stack[t][n].kind # "joined"
    BY <1>1 DEF FrameInv
  <1>3. stack[t][n].kind # "callbacks"
    <2>1. CASE n = Len(stack[t])
      BY <1>1, <2>1 DEF Inside, Last
    <2>2. CASE n < Len(stack[t])
      <3>1. n \in 1 .. Len(stack[t]) - 1 /\ Len(stack[t]) \in 1 .. Len(stack[t])
        BY <1>1, <2>2
      <3> QED
        BY <1>1, <3>1 DEF ShapeInv
    <2> QED
      BY <1>1, <2>1, <2>2
  <1> QED
    BY <1>1, <1>2, <1>3 DEF Frame

\* A standalone block is outside of every HTTP transaction.
LEMMA OwnOutside ==
  ASSUME TypeOK, SqlInv, NEW t \in Task,
         stack[t] # <<>> /\ Last(stack[t]).kind \in {"own", "http", "callbacks"}
  PROVE  /\ \A n \in 1 .. Len(stack[t]) - 1 : stack[t][n].kind = "own"
         /\ Last(stack[t]).kind # "http" => HttpConnections(t) = {}
  <1>1. /\ ShapeInv(t) /\ Len(stack[t]) \in Nat /\ Len(stack[t]) > 0
        /\ \A c : c \in HttpConnections(t) <=>
             \E n \in 1 .. Len(stack[t]) : stack[t][n].kind = "http" /\ stack[t][n].conn = c
    BY TaskFacts, StackFacts
  <1>2. stack[t][Len(stack[t])].kind # "joined"
    BY DEF Last
  <1>3. \A n \in 1 .. Len(stack[t]) - 1 : stack[t][n].kind = "own"
    BY <1>1, <1>2 DEF ShapeInv
  <1>4. \A n \in 1 .. Len(stack[t]) :
          n \in 1 .. Len(stack[t]) - 1 \/ n = Len(stack[t])
    BY <1>1
  <1> QED
    BY <1>1, <1>3, <1>4 DEF Last

\* The frame of a block on an instance, and what the instance holds then.
LEMMA BlockFacts ==
  ASSUME TypeOK, SqlInv, NEW t \in Task, NEW i \in Instance, InBlock(t, i)
  PROVE  \/ /\ Owns(i) /\ sql[i].conn \in live /\ i \in Private[t]
            /\ \E n \in 1 .. Len(stack[t]) : stack[t][n].kind = "own"
         \/ sql[i].conn \in HttpConnections(t) /\ sql[i].borrowed = sql[i].conn
  <1>1. PICK n \in 1 .. Len(stack[t]) : stack[t][n].inst = i
    BY DEF InBlock
  <1>2. FrameInv(t) /\ live \subseteq 1 .. issued /\ stack[t][n] \in Frame /\ issued \in Nat
    BY TaskFacts, StackFacts
  <1>3. stack[t][n].kind \in {"own", "joined"}
    BY <1>1, <1>2, ConstantsAssumption DEF FrameInv, Frame
  <1> QED
    BY <1>1, <1>2, <1>3 DEF FrameInv, Owns

\* A task that is not refused has the instance for itself; it has left no block of
\* an instance that is not its own for the time being.
LEMMA UseFacts ==
  ASSUME TypeOK, SqlInv, NEW t \in Task, NEW i \in Instance, Uses(t, i), Ready(t),
         ~Refuses(t, i)
  PROVE  /\ t \notin Child /\ ~Inside(t, "callbacks")
         /\ ScopeConnection(t) = HttpConnections(t)
         /\ HttpConnections(t) = {} => i \in Private[t] /\ sql[i].borrowed = None
         /\ i \in Private[t] \cup Shared
         /\ \A u \in Task \ {t} : ~Busy(u, i)
         /\ sql[i].depth = Cardinality(Blocks(t, i))
         /\ call[t] = NoCall
  <1>1. /\ t \notin Child /\ ~Inside(t, "callbacks")
        /\ ScopeConnection(t) = HttpConnections(t)
        /\ sql[i].borrowed \in {None} \cup HttpConnections(t)
    BY DEF Refuses, CurrentScopeRaises, ScopeConnection
  <1>2. /\ HttpConnections(t) = {} => i \in Private[t] /\ sql[i].borrowed = None
        /\ i \in Private[t] \cup Shared
    BY <1>1 DEF Uses, Refuses
  <1>3. \A u \in Task \ {t} : ~Busy(u, i)
    <2> SUFFICES ASSUME NEW u \in Task \ {t}, Busy(u, i) PROVE FALSE
      OBVIOUS
    <2>1. UseInv(u, i)
      BY TaskFacts
    <2>2. i \in Shared /\ i \notin Private[t]
      BY <1>2, <2>1, PrivateFacts DEF UseInv
    <2>3. sql[i].borrowed # None /\ sql[i].borrowed \in HttpConnections(u)
      BY <2>1, <2>2 DEF UseInv
    <2>4. HttpConnections(t) \cap HttpConnections(u) = {}
      BY DEF SqlInv, DistinctInv, Scoped
    <2> QED
      BY <1>1, <2>3, <2>4
  <1>4. call[t] = NoCall
    BY TaskFacts DEF CallInv, Ready
  <1>5. sql[i].depth = Cardinality(Blocks(t, i))
    <2>1. CASE Busy(t, i)
      <3>1. UseInv(t, i) /\ ~Opening(t, i) /\ sql[i] \in SQL
        BY TaskFacts DEF Opening, Ready
      <3> QED
        BY <2>1, <3>1, StackFacts DEF UseInv
    <2>2. CASE ~Busy(t, i)
      <3>1. \A u \in Task : ~Busy(u, i)
        BY <1>3, <2>2
      <3>2. sql[i].depth = 0
        BY <3>1 DEF SqlInv, IdleInv
      <3> QED
        BY <2>2, <3>2, StackFacts DEF Busy
    <2> QED
      BY <2>1, <2>2
  <1> QED
    BY <1>1, <1>2, <1>3, <1>4, <1>5

\* The connection at hand is the HTTP transaction's, or the one that the instance has;
\* a block of the instance is on it.
LEMMA AtHandFacts ==
  ASSUME TypeOK, SqlInv, NEW t \in Task, NEW i \in Instance, Uses(t, i), Ready(t),
         ~Refuses(t, i), NEW c \in AtHand(t, i)
  PROVE  /\ c \in Nat /\ c # None
         /\ \/ HttpConnections(t) = {} /\ sql[i].conn = c /\ Owns(i)
            \/ c \in HttpConnections(t) /\ ~Owns(i)
         /\ InBlock(t, i) =>
              /\ sql[i].conn = c
              /\ sql[i].borrowed = IF ScopeConnection(t) = {} THEN None ELSE c
  <1>1. /\ ScopeConnection(t) = HttpConnections(t)
        /\ HttpConnections(t) = {} => i \in Private[t] /\ sql[i].borrowed = None
        /\ sql[i] \in SQL
    BY UseFacts, TaskFacts
  <1>2. CASE HttpConnections(t) = {}
    <2>1. c = sql[i].conn /\ c # None
      BY <1>1, <1>2 DEF AtHand
    <2> QED
      BY <1>1, <1>2, <2>1 DEF Owns, SQL
  <1>3. CASE HttpConnections(t) # {}
    <2>1. c \in HttpConnections(t) /\ sql[i].conn \in {None} \cup HttpConnections(t)
      BY <1>1, <1>3 DEF AtHand, Refuses
    <2>2. c \in Nat /\ c # None /\ \A d \in HttpConnections(t) : d = c
      BY <2>1, HttpFacts
    <2>3. ~Owns(i)
      BY <2>1 DEF SqlInv, DistinctInv, Scoped, Owns
    <2>4. InBlock(t, i) => sql[i].conn = c /\ sql[i].borrowed = c
      BY <2>2, <2>3, BlockFacts
    <2> QED
      BY <1>1, <1>3, <2>1, <2>2, <2>3, <2>4
  <1> QED
    BY <1>2, <1>3

(***************************************************************************)
(* The steps that leave instances and pool alone.                          *)
(***************************************************************************)

\* Nothing changes but exceptions and the count of operations.
LEMMA SameKeeps ==
  ASSUME SqlInv, UNCHANGED <<pc, call, stack, sql, live, issued>>
  PROVE  SqlInv'
  <1>1. ASSUME NEW t \in Task
        PROVE  /\ HttpConnections(t)' = HttpConnections(t) /\ Scoped(t)' = Scoped(t)
               /\ \A kind : Inside(t, kind)' <=> Inside(t, kind)
               /\ \A i : /\ Blocks(t, i)' = Blocks(t, i)
                         /\ Busy(t, i)' <=> Busy(t, i)
                         /\ Opening(t, i)' <=> Opening(t, i)
    BY StackKept DEF Scoped, Returns, Busy, Opening
  <1>2. \A i : Owns(i)' <=> Owns(i)
    BY DEF Owns
  <1>3. ASSUME NEW t \in Task
        PROVE  TaskInv(t)'
    <2>1. TaskInv(t)
      BY DEF SqlInv
    <2>2. CallInv(t)' /\ ShapeInv(t)'
      BY <1>1, <2>1 DEF TaskInv, CallInv, ShapeInv
    <2>3. FrameInv(t)'
      BY <1>1, <2>1 DEF TaskInv, FrameInv
    <2>4. \A i \in Instance : UseInv(t, i)'
      BY <1>1, <2>1 DEF TaskInv, UseInv
    <2> QED
      BY <2>2, <2>3, <2>4 DEF TaskInv
  <1>4. OneUser' /\ IdleInv'
    BY <1>1 DEF SqlInv, OneUser, IdleInv
  <1>5. DistinctInv' /\ NumberInv'
    BY <1>1, <1>2 DEF SqlInv, DistinctInv, NumberInv
  <1>6. HeldInv'
    BY <1>1, <1>2 DEF SqlInv, HeldInv
  <1> QED
    BY <1>3, <1>4, <1>5, <1>6 DEF SqlInv

LEMMA StepFacts ==
  ASSUME TypeOK, NEW t \in Task, Step(t)
  PROVE  steps' \in [Task -> Nat] /\ Ready(t)
  <1>1. steps[t] + 1 \in Nat
    BY DEF TypeOK
  <1> QED
    BY <1>1 DEF Step, TypeOK

\* An exception is raised or caught.
LEMMA ExceptionKeeps ==
  ASSUME TypeOK, SqlInv, NEW t \in Task, (\E i \in Instance : Refused(t, i)) \/ Catch(t)
  PROVE  TypeOK' /\ SqlInv'
  <1>1. UNCHANGED <<pc, call, stack, sql, live, issued>>
    BY DEF Refused, Catch, poolVars
  <1>2. exc' \in [Task -> BOOLEAN] /\ steps' \in [Task -> Nat]
    BY StepFacts DEF Refused, Catch, TypeOK
  <1> QED
    BY <1>1, <1>2, SameKeeps DEF TypeOK

\* A step that changes what its task awaits, and no instance and no connection.
LEMMA QuietFacts ==
  ASSUME TypeOK, SqlInv, NEW t \in Task, UNCHANGED <<sql, live, issued>>,
         \A u \in Task \ {t} : pc'[u] = pc[u] /\ call'[u] = call[u] /\ stack'[u] = stack[u],
         \A j \in Instance : Busy(t, j)' => Busy(t, j) \/ \A u \in Task \ {t} : ~Busy(u, j),
         Scoped(t)' = Scoped(t),
         \A j \in Instance : Busy(t, j) /\ ~Busy(t, j)' =>
           sql[j].depth = 0 /\ sql[j].borrowed = None /\ sql[j].conn = None,
         TaskInv(t)'
  PROVE  SqlInv'
  <1>1. \A j : Owns(j)' <=> Owns(j)
    BY DEF Owns
  <1>2. Local(t) /\ PoolStep(t)
    BY DEF Local, PoolStep
  <1>3. Owners(t)
    BY <1>1, ConstantsAssumption DEF Owners
  <1>4. None \notin live
    BY DEF SqlInv, NumberInv
  <1>5. Cares(t)
    BY <1>1, <1>4 DEF Cares, Has, Owns
  <1> QED
    BY <1>2, <1>3, <1>5, StepKeeps

\* The task waits for the pool: for a statement, for a block, or for an HTTP
\* transaction.
LEMMA WaitKeeps ==
  ASSUME TypeOK, SqlInv, NEW t \in Task,
         \/ EnterHttp(t)
         \/ \E i \in Instance : \E goal \in {"statement", "begin"} : WaitForPool(t, i, goal)
  PROVE  TypeOK' /\ SqlInv'
  <1>1. PICK c \in Call :
          /\ Goto(t, "acquire", c)
          /\ HttpConnections(t) = {} /\ t \notin Child /\ ~Inside(t, "callbacks")
          /\ c.goal \in {"statement", "begin", "http"} /\ c.conn = None
          /\ IF c.goal = "http" THEN c.inst = NoInstance
             ELSE /\ c.inst \in Private[t]
                  /\ sql[c.inst].conn = None /\ sql[c.inst].borrowed = None
                  /\ \A u \in Task \ {t} : ~Busy(u, c.inst)
                  /\ sql[c.inst].depth = Cardinality(Blocks(t, c.inst))
    <2>1. CASE EnterHttp(t)
      <3> DEFINE c == [NoCall EXCEPT !.goal = "http"]
      <3>1. c \in Call /\ c.goal = "http" /\ c.conn = None /\ c.inst = NoInstance
        BY DEF NoCall, Call, Goal
      <3>2. HttpConnections(t) = {} /\ t \notin Child /\ ~Inside(t, "callbacks")
        BY <2>1 DEF EnterHttp, CurrentScopeRaises, ScopeConnection
      <3> QED
        BY <2>1, <3>1, <3>2 DEF EnterHttp
    <2>2. ASSUME NEW i \in Instance, NEW goal \in {"statement", "begin"}, WaitForPool(t, i, goal)
          PROVE  \E c \in Call :
            /\ Goto(t, "acquire", c)
            /\ HttpConnections(t) = {} /\ t \notin Child /\ ~Inside(t, "callbacks")
            /\ c.goal \in {"statement", "begin"} /\ c.conn = None
            /\ c.inst \in Private[t]
            /\ sql[c.inst].conn = None /\ sql[c.inst].borrowed = None
            /\ \A u \in Task \ {t} : ~Busy(u, c.inst)
            /\ sql[c.inst].depth = Cardinality(Blocks(t, c.inst))
      <3> DEFINE c == [goal |-> goal, inst |-> i, conn |-> None]
      <3>1. c \in Call /\ c.goal = goal /\ c.conn = None /\ c.inst = i
        BY DEF Call, Goal
      <3>2. /\ Uses(t, i) /\ Ready(t) /\ ~Refuses(t, i) /\ AtHand(t, i) = {}
            /\ Goto(t, "acquire", c)
        BY <2>2 DEF WaitForPool, Step
      <3>3. /\ t \notin Child /\ ~Inside(t, "callbacks")
            /\ ScopeConnection(t) = HttpConnections(t)
            /\ HttpConnections(t) = {} => i \in Private[t] /\ sql[i].borrowed = None
            /\ \A u \in Task \ {t} : ~Busy(u, i)
            /\ sql[i].depth = Cardinality(Blocks(t, i))
        BY <3>2, UseFacts
      <3>4. HttpConnections(t) = {} /\ sql[i].conn = None
        BY <3>2, <3>3 DEF AtHand
      <3> HIDE DEF c
      <3> QED
        BY <3>1, <3>2, <3>3, <3>4
    <2>3. CASE \E i \in Instance : \E goal \in {"statement", "begin"} : WaitForPool(t, i, goal)
      BY <2>2, <2>3
    <2> QED
      BY <2>1, <2>3
  <1>2. /\ Ready(t) /\ call[t] = NoCall /\ UNCHANGED <<stack, exc, sql, live, issued>>
        /\ steps' \in [Task -> Nat]
    BY TaskFacts, StepFacts DEF EnterHttp, WaitForPool, Ready, CallInv, poolVars
  <1>3. /\ pc' \in [Task -> {"ready", "acquire", "await", "release"}]
        /\ call' \in [Task -> Call]
        /\ pc'[t] = "acquire" /\ call'[t] = c
        /\ \A u \in Task \ {t} : pc'[u] = pc[u] /\ call'[u] = call[u]
    BY <1>1, GotoFacts
  <1>4. TypeOK'
    BY <1>2, <1>3 DEF TypeOK
  <1>5. /\ HttpConnections(t)' = HttpConnections(t)
        /\ \A kind : Inside(t, kind)' <=> Inside(t, kind)
        /\ \A i : (InBlock(t, i)' <=> InBlock(t, i)) /\ Blocks(t, i)' = Blocks(t, i)
    BY <1>2, StackKept
  <1>6. /\ \A i \in Instance : Busy(t, i) <=> InBlock(t, i)
        /\ \A i \in Instance : Busy(t, i)' <=> InBlock(t, i) \/ i = c.inst
        /\ \A i \in Instance : ~Opening(t, i) /\ ~Opening(t, i)'
        /\ Scoped(t)' = Scoped(t)
    BY <1>2, <1>3, <1>5, NoCallFacts DEF Busy, Opening, Scoped, Returns, Ready
  <1>7. /\ CallInv(t) /\ ShapeInv(t) /\ FrameInv(t)
        /\ \A i \in Instance : UseInv(t, i)
        /\ Private[t] \subseteq Instance /\ NoInstance \notin Instance
        /\ Private[t] \cap Shared = {}
    BY TaskFacts, PrivateFacts
  <1>8. CallInv(t)'
    BY <1>1, <1>2, <1>3, <1>5 DEF CallInv
  <1>9. ShapeInv(t)'
    BY <1>1, <1>2, <1>3, <1>5, <1>7 DEF ShapeInv
  <1>10. FrameInv(t)'
    BY <1>2, <1>5, <1>7 DEF FrameInv
  <1>11. \A i \in Instance : UseInv(t, i)'
    <2> SUFFICES ASSUME NEW i \in Instance, Busy(t, i)' PROVE UseInv(t, i)'
      BY DEF UseInv
    <2>1. CASE InBlock(t, i)
      BY <1>2, <1>5, <1>6, <1>7, <2>1 DEF UseInv
    <2>2. CASE i = c.inst /\ c.goal # "http"
      BY <1>1, <1>2, <1>5, <1>6, <1>7, <2>2, StackFacts DEF UseInv
    <2> QED
      BY <1>1, <1>6, <1>7, <2>1, <2>2
  <1>12. \A j \in Instance : Busy(t, j)' => Busy(t, j) \/ \A u \in Task \ {t} : ~Busy(u, j)
    BY <1>1, <1>6, <1>7
  <1> QED
    BY <1>2, <1>3, <1>4, <1>6, <1>8, <1>9, <1>10, <1>11, <1>12, QuietFacts DEF TaskInv

\* No connection could be had.
LEMMA AcquireFailsKeeps ==
  ASSUME TypeOK, SqlInv, NEW t \in Task, AcquireFails(t)
  PROVE  TypeOK' /\ SqlInv'
  <1>1. /\ pc[t] = "acquire" /\ Goto(t, "ready", NoCall)
        /\ UNCHANGED <<stack, steps, sql, live, issued>> /\ exc' \in [Task -> BOOLEAN]
    BY DEF AcquireFails, poolVars, TypeOK
  <1>2. /\ pc' \in [Task -> {"ready", "acquire", "await", "release"}]
        /\ call' \in [Task -> Call]
        /\ pc'[t] = "ready" /\ call'[t] = NoCall
        /\ \A u \in Task \ {t} : pc'[u] = pc[u] /\ call'[u] = call[u]
    BY <1>1, GotoFacts, NoCallFacts
  <1>3. TypeOK'
    BY <1>1, <1>2 DEF TypeOK
  <1>4. /\ HttpConnections(t)' = HttpConnections(t)
        /\ \A kind : Inside(t, kind)' <=> Inside(t, kind)
        /\ \A i : (InBlock(t, i)' <=> InBlock(t, i)) /\ Blocks(t, i)' = Blocks(t, i)
    BY <1>1, StackKept
  <1>5. /\ \A i \in Instance : Busy(t, i)' <=> InBlock(t, i)
        /\ \A i \in Instance : ~Opening(t, i) /\ ~Opening(t, i)'
        /\ Scoped(t)' = Scoped(t)
    BY <1>1, <1>2, <1>4, NoCallFacts DEF Busy, Opening, Scoped, Returns
  <1>6. /\ CallInv(t) /\ ShapeInv(t) /\ FrameInv(t)
        /\ \A i \in Instance : UseInv(t, i) /\ sql[i] \in SQL
    BY TaskFacts
  <1>7. CallInv(t)' /\ ShapeInv(t)' /\ FrameInv(t)'
    BY <1>1, <1>2, <1>4, <1>6 DEF CallInv, ShapeInv, FrameInv
  <1>8. \A i \in Instance : UseInv(t, i)'
    BY <1>1, <1>4, <1>5, <1>6 DEF UseInv, Busy
  <1>9. ASSUME NEW j \in Instance, Busy(t, j), ~InBlock(t, j)
        PROVE  sql[j].depth = 0 /\ sql[j].borrowed = None /\ sql[j].conn = None
    <2>1. j = call[t].inst /\ Cardinality(Blocks(t, j)) = 0
      BY <1>9, StackFacts DEF Busy
    <2>2. sql[j].depth = Cardinality(Blocks(t, j))
      BY <1>5, <1>6, <1>9, <2>1 DEF UseInv
    <2> QED
      BY <1>1, <1>6, <2>1, <2>2, ConstantsAssumption DEF CallInv
  <1>10. \A j \in Instance : Busy(t, j)' => Busy(t, j)
    BY <1>5 DEF Busy
  <1> QED
    BY <1>1, <1>2, <1>3, <1>5, <1>7, <1>8, <1>9, <1>10, QuietFacts DEF TaskInv

\* A standalone block ends, on the connection that it was begun on.
LEMMA LeaveOwnKeeps ==
  ASSUME TypeOK, SqlInv, NEW t \in Task, LeaveOwn(t)
  PROVE  TypeOK' /\ SqlInv'
  <1> DEFINE f == Last(stack[t])
             c == [goal |-> "end", inst |-> f.inst, conn |-> f.conn]
  <1>1. /\ pc[t] = "ready" /\ stack[t] # <<>> /\ f.kind = "own" /\ Goto(t, "await", c)
        /\ UNCHANGED <<stack, exc, steps, sql, live, issued>>
    BY DEF LeaveOwn, Ready, Inside, poolVars
  <1>2. f = stack[t][Len(stack[t])] /\ Len(stack[t]) \in 1 .. Len(stack[t]) /\ f \in Frame
    BY <1>1, StackFacts DEF Last
  <1>3. /\ f.inst \in Private[t] /\ f.conn \in live /\ f.conn # None
        /\ sql[f.inst].conn = f.conn /\ sql[f.inst].borrowed = None
        /\ InBlock(t, f.inst) /\ f.inst \in Instance
    BY <1>1, <1>2, TaskFacts, PrivateFacts DEF FrameInv, InBlock
  <1>4. HttpConnections(t) = {}
    BY <1>1, OwnOutside
  <1>5. c \in Call /\ c.goal = "end" /\ c.inst = f.inst /\ c.conn = f.conn
    BY <1>2 DEF Call, Goal, Frame
  <1> HIDE DEF c
  <1>6. /\ pc' \in [Task -> {"ready", "acquire", "await", "release"}]
        /\ call' \in [Task -> Call]
        /\ pc'[t] = "await" /\ call'[t] = c
        /\ \A u \in Task \ {t} : pc'[u] = pc[u] /\ call'[u] = call[u]
    BY <1>1, <1>5, GotoFacts
  <1>7. TypeOK'
    BY <1>1, <1>6 DEF TypeOK
  <1>8. /\ HttpConnections(t)' = HttpConnections(t)
        /\ \A kind : Inside(t, kind)' <=> Inside(t, kind)
        /\ \A i : (InBlock(t, i)' <=> InBlock(t, i)) /\ Blocks(t, i)' = Blocks(t, i)
    BY <1>1, StackKept
  <1>9. /\ CallInv(t) /\ ShapeInv(t) /\ FrameInv(t) /\ call[t] = NoCall
        /\ \A i \in Instance : UseInv(t, i)
    BY <1>1, TaskFacts DEF CallInv
  <1>10. /\ \A i \in Instance : Busy(t, i)' <=> Busy(t, i)
         /\ \A i \in Instance : ~Opening(t, i) /\ ~Opening(t, i)'
         /\ Scoped(t)' = Scoped(t)
    BY <1>1, <1>3, <1>5, <1>6, <1>8, <1>9, NoCallFacts DEF Busy, Opening, Scoped, Returns
  <1>11. CallInv(t)'
    BY <1>1, <1>3, <1>4, <1>5, <1>6, <1>8 DEF CallInv, Inside
  <1>12. ShapeInv(t)' /\ FrameInv(t)'
    BY <1>1, <1>6, <1>8, <1>9 DEF ShapeInv, FrameInv, Inside
  <1>13. \A i \in Instance : UseInv(t, i)'
    BY <1>1, <1>8, <1>9, <1>10 DEF UseInv
  <1> QED
    BY <1>1, <1>6, <1>7, <1>10, <1>11, <1>12, <1>13, QuietFacts DEF TaskInv

\* The HTTP transaction, or its callbacks, are over.
LEMMA LeaveHttpKeeps ==
  ASSUME TypeOK, SqlInv, NEW t \in Task, LeaveHttp(t) \/ CallbacksEnd(t)
  PROVE  TypeOK' /\ SqlInv'
  <1> DEFINE f == Last(stack[t])
             n == Len(stack[t])
  <1>1. /\ pc[t] = "ready" /\ stack[t] # <<>> /\ Pop(t)
        /\ f.kind \in {"http", "callbacks"}
        /\ UNCHANGED <<steps, sql, live, issued>> /\ exc' \in [Task -> BOOLEAN]
    BY DEF LeaveHttp, CallbacksEnd, Ready, Inside, poolVars, TypeOK
  <1>2. /\ stack' \in [Task -> Seq(Frame)]
        /\ \A u \in Task \ {t} : stack'[u] = stack[u]
        /\ Len(stack'[t]) = n - 1 /\ n \in Nat \ {0}
        /\ \A m \in 1 .. n - 1 : stack'[t][m] = stack[t][m]
        /\ f = stack[t][n] /\ f \in Frame
        /\ HttpConnections(t) =
              HttpConnections(t)' \cup (IF f.kind = "http" THEN {f.conn} ELSE {})
        /\ \A j : InBlock(t, j) <=> InBlock(t, j)' \/ j = f.inst
        /\ \A j : Cardinality(Blocks(t, j)') =
                    Cardinality(Blocks(t, j)) - (IF j = f.inst THEN 1 ELSE 0)
    BY <1>1, PopFacts
  <1>3. /\ CallInv(t) /\ ShapeInv(t) /\ FrameInv(t) /\ call[t] = NoCall
        /\ \A i \in Instance : UseInv(t, i)
        /\ NoInstance \notin Instance /\ live \subseteq 1 .. issued
        /\ \A i : Cardinality(Blocks(t, i)) \in Nat
        /\ Private[t] \subseteq Instance
    BY <1>1, TaskFacts, PrivateFacts, StackFacts DEF CallInv
  <1>4. /\ \A m \in 1 .. n - 1 : stack[t][m].kind = "own"
        /\ n \in 1 .. n
    BY <1>1, <1>2, OwnOutside
  <1>5. f.inst = NoInstance /\ (f.kind = "http" => f.conn \in live /\ f.conn # None)
    BY <1>1, <1>2, <1>3, <1>4 DEF FrameInv
  <1>6. HttpConnections(t)' = {}
    <2>1. \A d : d \in HttpConnections(t)' =>
            \E m \in DOMAIN stack'[t] : stack'[t][m].kind = "http"
      BY DEF HttpConnections, Frames, ToSet
    <2>2. DOMAIN stack'[t] = 1 .. n - 1
      BY <1>2
    <2> QED
      BY <1>2, <1>4, <2>1, <2>2
  <1>7. PICK c \in Call, label \in {"ready", "release"} :
          /\ Goto(t, label, c)
          /\ \/ f.kind = "http" /\ label = "release" /\ c.goal = "http" /\ c.conn = f.conn
             \/ f.kind = "callbacks" /\ label = "ready" /\ c = NoCall
          /\ c.goal # "begin" /\ c.inst = NoInstance
    <2>1. CASE LeaveHttp(t)
      <3> DEFINE c == [goal |-> "http", inst |-> NoInstance, conn |-> f.conn]
      <3>1. c \in Call /\ c.goal = "http" /\ c.conn = f.conn /\ c.inst = NoInstance
        BY <1>2 DEF Call, Goal, Frame
      <3> QED
        BY <2>1, <3>1 DEF LeaveHttp, Inside
    <2>2. CASE CallbacksEnd(t)
      <3>1. Goto(t, "ready", NoCall)
        BY <1>1, <1>3, <2>2 DEF CallbacksEnd, Goto, TypeOK
      <3> QED
        BY <2>2, <3>1, NoCallFacts DEF CallbacksEnd, Inside
    <2> QED
      BY <2>1, <2>2
  <1>8. /\ pc' \in [Task -> {"ready", "acquire", "await", "release"}]
        /\ call' \in [Task -> Call]
        /\ pc'[t] = label /\ call'[t] = c
        /\ \A u \in Task \ {t} : pc'[u] = pc[u] /\ call'[u] = call[u]
    BY <1>7, GotoFacts
  <1>9. TypeOK'
    BY <1>1, <1>2, <1>8 DEF TypeOK
  <1> HIDE DEF f, n
  <1>10. /\ \A i \in Instance : Busy(t, i)' <=> Busy(t, i)
         /\ \A i \in Instance : ~Opening(t, i) /\ ~Opening(t, i)'
         /\ \A i \in Instance : Cardinality(Blocks(t, i)') = Cardinality(Blocks(t, i))
    BY <1>1, <1>2, <1>3, <1>5, <1>7, <1>8, NoCallFacts DEF Busy, Opening
  <1>11. Scoped(t)' = Scoped(t)
    BY <1>1, <1>2, <1>6, <1>7, <1>8, NoCallFacts DEF Scoped, Returns
  <1>12. CallInv(t)'
    BY <1>1, <1>5, <1>6, <1>7, <1>8 DEF CallInv
  <1>13. ShapeInv(t)'
    <2>1. ~Inside(t, "callbacks")'
      <3>1. stack'[t] # <<>> => Len(stack'[t]) \in 1 .. n - 1
        BY <1>2 DEF n
      <3> QED
        BY <1>2, <1>4, <3>1 DEF Inside, Last
    <2>2. t \notin Child
      BY <1>1, <1>3 DEF ShapeInv
    <2> QED
      BY <1>2, <1>4, <2>1, <2>2 DEF ShapeInv
  <1>14. FrameInv(t)'
    <2>1. \A m \in 1 .. n - 1 :
            /\ stack[t][m].kind = "own" /\ stack[t][m].inst \in Private[t]
            /\ stack[t][m].conn \in live /\ sql[stack[t][m].inst].conn = stack[t][m].conn
            /\ sql[stack[t][m].inst].borrowed = None
      BY <1>2, <1>3, <1>4 DEF FrameInv, n
    <2> QED
      BY <1>1, <1>2, <2>1 DEF FrameInv
  <1>15. ASSUME NEW i \in Instance
         PROVE  UseInv(t, i)'
    <2>1. Busy(t, i) => sql[i].borrowed = None
      <3>1. Busy(t, i) => InBlock(t, i)'
        BY <1>2, <1>3, <1>5, NoCallFacts DEF Busy
      <3>2. InBlock(t, i)' => \E m \in 1 .. n - 1 : stack[t][m].inst = i
        BY <1>2 DEF InBlock
      <3> QED
        BY <1>2, <1>3, <1>4, <3>1, <3>2 DEF FrameInv, n
    <2> QED
      BY <1>1, <1>3, <1>10, <2>1 DEF UseInv
  <1> QED
    BY <1>1, <1>2, <1>8, <1>9, <1>10, <1>11, <1>12, <1>13, <1>14, <1>15, QuietFacts DEF TaskInv

(***************************************************************************)
(* The steps that give an instance its connection.                         *)
(***************************************************************************)

LEMMA AttachFacts ==
  ASSUME TypeOK, SqlInv, NEW t \in Task, NEW i \in Instance, NEW c \in Nat,
         NEW goal \in {"statement", "begin"}, Attach(t, i, c, goal)
  PROVE  /\ sql' \in [Instance -> SQL]
         /\ \A j \in Instance \ {i} : sql'[j] = sql[j]
         /\ sql'[i].conn = c
         /\ sql'[i].borrowed = IF ScopeConnection(t) = {} THEN None ELSE c
         /\ sql'[i].depth = sql[i].depth + (IF goal = "begin" THEN 1 ELSE 0)
  <1> DEFINE b == IF ScopeConnection(t) = {} THEN None ELSE c
             d == DepthAfter(i, goal)
             x == [conn |-> c, borrowed |-> b, depth |-> d]
  <1>1. sql[i] \in SQL
    BY TaskFacts
  <1>2. d \in Nat /\ b \in Nat /\ d = sql[i].depth + (IF goal = "begin" THEN 1 ELSE 0)
    BY <1>1 DEF DepthAfter, SQL
  <1>3. sql' = [sql EXCEPT ![i] = x]
    BY DEF Attach
  <1> HIDE DEF b, d
  <1>4. x \in SQL /\ x.conn = c /\ x.borrowed = b /\ x.depth = d
    BY <1>2 DEF SQL
  <1> HIDE DEF x
  <1>5. /\ sql' \in [Instance -> SQL] /\ sql'[i] = x
        /\ \A j \in Instance \ {i} : sql'[j] = sql[j]
    BY <1>3, <1>4, SqlUpdate
  <1> QED
    BY <1>2, <1>4, <1>5 DEF b

\* A statement or a block begins with the connection at hand.
LEMMA AttachOwners ==
  ASSUME TypeOK, SqlInv, NEW t \in Task, NEW i \in Instance, Uses(t, i), Ready(t),
         ~Refuses(t, i), NEW c \in AtHand(t, i), NEW goal \in {"statement", "begin"},
         Attach(t, i, c, goal), UNCHANGED <<live, issued>>,
         \A u \in Task \ {t} : pc'[u] = pc[u] /\ call'[u] = call[u] /\ stack'[u] = stack[u],
         \A j \in Instance : Busy(t, j)' <=> Busy(t, j) \/ j = i,
         Scoped(t)' = Scoped(t), TaskInv(t)'
  PROVE  SqlInv'
  <1>1. /\ \A u \in Task \ {t} : ~Busy(u, i)
        /\ ScopeConnection(t) = HttpConnections(t)
    BY UseFacts
  <1>2. /\ c \in Nat /\ c # None
        /\ \/ HttpConnections(t) = {} /\ sql[i].conn = c /\ Owns(i)
           \/ c \in HttpConnections(t) /\ ~Owns(i)
    BY AtHandFacts
  <1>3. /\ \A j \in Instance \ {i} : sql'[j] = sql[j]
        /\ sql'[i].conn = c
        /\ sql'[i].borrowed = IF ScopeConnection(t) = {} THEN None ELSE c
    BY <1>2, AttachFacts
  <1>4. \A j \in Instance : (Owns(j)' <=> Owns(j)) /\ (Owns(j) => sql'[j].conn = sql[j].conn)
    BY <1>1, <1>2, <1>3 DEF Owns
  <1>5. Local(t) /\ PoolStep(t)
    BY <1>1, <1>3 DEF Local, PoolStep
  <1>6. Owners(t)
    <2>1. NoInstance \notin Instance
      BY ConstantsAssumption
    <2> QED
      BY <1>4, <2>1 DEF Owners
  <1>7. Cares(t)
    <2>1. HttpConnections(t) \subseteq Scoped(t)
      BY DEF Scoped
    <2>2. \A d : Has(t, d) => Has(t, d)'
      BY <1>4 DEF Has
    <2> QED
      BY <1>2, <1>3, <2>1, <2>2 DEF Cares
  <1> QED
    BY <1>5, <1>6, <1>7, StepKeeps

\* A statement is sent, or the BEGIN of a block.
LEMMA AwaitKeeps ==
  ASSUME TypeOK, SqlInv, NEW t \in Task, NEW i \in Instance,
         Uses(t, i), Step(t), ~Refuses(t, i), NEW c \in AtHand(t, i),
         NEW goal \in {"statement", "begin"}, Attach(t, i, c, goal),
         Goto(t, "await", [goal |-> goal, inst |-> i, conn |-> c]),
         goal = "begin" => ScopeConnection(t) = {},
         UNCHANGED <<stack, exc, poolVars>>
  PROVE  TypeOK' /\ SqlInv'
  <1> DEFINE k == [goal |-> goal, inst |-> i, conn |-> c]
  <1>1. Ready(t) /\ steps' \in [Task -> Nat] /\ UNCHANGED <<stack, exc, live, issued>>
    BY StepFacts DEF poolVars
  <1>2. /\ t \notin Child /\ ~Inside(t, "callbacks")
        /\ ScopeConnection(t) = HttpConnections(t)
        /\ HttpConnections(t) = {} => i \in Private[t] /\ sql[i].borrowed = None
        /\ i \in Private[t] \cup Shared
        /\ sql[i].depth = Cardinality(Blocks(t, i))
        /\ call[t] = NoCall
    BY <1>1, UseFacts
  <1>3. /\ c \in Nat /\ c # None
        /\ \/ HttpConnections(t) = {} /\ sql[i].conn = c /\ Owns(i)
           \/ c \in HttpConnections(t) /\ ~Owns(i)
        /\ InBlock(t, i) =>
              /\ sql[i].conn = c
              /\ sql[i].borrowed = IF ScopeConnection(t) = {} THEN None ELSE c
    BY <1>1, AtHandFacts
  <1>4. /\ sql' \in [Instance -> SQL]
        /\ \A j \in Instance \ {i} : sql'[j] = sql[j]
        /\ sql'[i].conn = c
        /\ sql'[i].borrowed = IF ScopeConnection(t) = {} THEN None ELSE c
        /\ sql'[i].depth = sql[i].depth + (IF goal = "begin" THEN 1 ELSE 0)
    BY <1>3, AttachFacts
  <1>5. k \in Call /\ k.goal = goal /\ k.inst = i /\ k.conn = c
    BY <1>3 DEF Call, Goal
  <1> HIDE DEF k
  <1>6. /\ pc' \in [Task -> {"ready", "acquire", "await", "release"}]
        /\ call' \in [Task -> Call]
        /\ pc'[t] = "await" /\ call'[t] = k
        /\ \A u \in Task \ {t} : pc'[u] = pc[u] /\ call'[u] = call[u]
    BY <1>5, GotoFacts DEF k
  <1>7. TypeOK'
    BY <1>1, <1>4, <1>6 DEF TypeOK
  <1>8. /\ HttpConnections(t)' = HttpConnections(t)
        /\ \A kind : Inside(t, kind)' <=> Inside(t, kind)
        /\ \A j : (InBlock(t, j)' <=> InBlock(t, j)) /\ Blocks(t, j)' = Blocks(t, j)
    BY <1>1, StackKept
  <1>9. /\ \A j \in Instance : Busy(t, j) <=> InBlock(t, j)
        /\ \A j \in Instance : Busy(t, j)' <=> InBlock(t, j) \/ j = i
        /\ \A j \in Instance : ~Opening(t, j) /\ (Opening(t, j)' <=> goal = "begin" /\ j = i)
        /\ Scoped(t)' = Scoped(t)
    BY <1>1, <1>2, <1>5, <1>6, <1>8, NoCallFacts DEF Busy, Opening, Scoped, Returns, Ready
  <1>10. /\ ShapeInv(t) /\ FrameInv(t)
         /\ \A j \in Instance : UseInv(t, j)
         /\ Private[t] \subseteq Instance /\ Private[t] \cap Shared = {}
         /\ \A j : Cardinality(Blocks(t, j)) \in Nat
    BY TaskFacts, PrivateFacts, StackFacts
  <1>11. CallInv(t)'
    BY <1>2, <1>3, <1>4, <1>5, <1>6, <1>8 DEF CallInv
  <1>12. ShapeInv(t)'
    BY <1>1, <1>2, <1>6, <1>8, <1>10 DEF ShapeInv
  <1>13. FrameInv(t)'
    <2>1. \A j \in Instance : InBlock(t, j) =>
            sql'[j].conn = sql[j].conn /\ sql'[j].borrowed = sql[j].borrowed
      BY <1>3, <1>4
    <2>2. \A n \in 1 .. Len(stack[t]) : InBlock(t, stack[t][n].inst)
      BY DEF InBlock
    <2> QED
      BY <1>1, <1>8, <1>10, <2>1, <2>2 DEF FrameInv
  <1>14. ASSUME NEW j \in Instance
         PROVE  UseInv(t, j)'
    <2>1. CASE j = i
      BY <1>2, <1>3, <1>4, <1>8, <1>9, <1>10, <2>1 DEF UseInv
    <2>2. CASE j # i
      BY <1>4, <1>8, <1>9, <1>10, <2>2 DEF UseInv
    <2> QED
      BY <2>1, <2>2
  <1>15. TaskInv(t)'
    BY <1>11, <1>12, <1>13, <1>14 DEF TaskInv
  <1> QED
    BY <1>1, <1>6, <1>7, <1>9, <1>15, AttachOwners

\* A block joins the HTTP transaction.
LEMMA JoinKeeps ==
  ASSUME TypeOK, SqlInv, NEW t \in Task, NEW i \in Instance,
         Uses(t, i), Step(t), ~Refuses(t, i), NEW c \in AtHand(t, i),
         Attach(t, i, c, "begin"), Push(t, "joined", i, c), ScopeConnection(t) # {},
         UNCHANGED <<pc, call, exc, poolVars>>
  PROVE  TypeOK' /\ SqlInv'
  <1> DEFINE n == Len(stack[t])
  <1>1. Ready(t) /\ steps' \in [Task -> Nat] /\ UNCHANGED <<pc, call, exc, live, issued>>
    BY StepFacts DEF poolVars
  <1>2. /\ t \notin Child /\ ~Inside(t, "callbacks")
        /\ ScopeConnection(t) = HttpConnections(t)
        /\ i \in Private[t] \cup Shared
        /\ sql[i].depth = Cardinality(Blocks(t, i))
        /\ call[t] = NoCall
    BY <1>1, UseFacts
  <1>3. /\ c \in Nat /\ c # None /\ c \in HttpConnections(t)
        /\ InBlock(t, i) => sql[i].conn = c /\ sql[i].borrowed = c
    BY <1>1, <1>2, AtHandFacts
  <1>4. /\ sql' \in [Instance -> SQL]
        /\ \A j \in Instance \ {i} : sql'[j] = sql[j]
        /\ sql'[i].conn = c /\ sql'[i].borrowed = c /\ sql'[i].depth = sql[i].depth + 1
    BY <1>3, AttachFacts
  <1>5. /\ stack' \in [Task -> Seq(Frame)]
        /\ \A u \in Task \ {t} : stack'[u] = stack[u]
        /\ Len(stack'[t]) = n + 1 /\ stack'[t] # <<>>
        /\ \A m \in 1 .. n : stack'[t][m] = stack[t][m]
        /\ stack'[t][n + 1] = [kind |-> "joined", inst |-> i, conn |-> c]
        /\ Last(stack'[t]) = [kind |-> "joined", inst |-> i, conn |-> c]
        /\ HttpConnections(t)' = HttpConnections(t)
        /\ \A j : InBlock(t, j)' <=> InBlock(t, j) \/ j = i
        /\ \A j : Cardinality(Blocks(t, j)') =
                     Cardinality(Blocks(t, j)) + (IF j = i THEN 1 ELSE 0)
    BY <1>3, PushFacts
  <1>6. TypeOK'
    BY <1>1, <1>4, <1>5 DEF TypeOK
  <1>7. /\ \A j \in Instance : Busy(t, j) <=> InBlock(t, j)
        /\ \A j \in Instance : Busy(t, j)' <=> InBlock(t, j) \/ j = i
        /\ \A j \in Instance : ~Opening(t, j) /\ ~Opening(t, j)'
        /\ Scoped(t)' = Scoped(t)
    BY <1>1, <1>2, <1>5, NoCallFacts DEF Busy, Opening, Scoped, Returns, Ready
  <1>8. /\ CallInv(t) /\ ShapeInv(t) /\ FrameInv(t)
        /\ \A j \in Instance : UseInv(t, j)
        /\ Private[t] \subseteq Instance /\ n \in Nat
        /\ \A j : Cardinality(Blocks(t, j)) \in Nat
    BY TaskFacts, PrivateFacts, StackFacts
  <1>9. CallInv(t)'
    BY <1>1, <1>8 DEF CallInv, Ready
  <1>10. ShapeInv(t)'
    <2>1. \A m \in 1 .. n : stack[t][m].kind # "callbacks"
      <3>1. stack[t] # <<>> <=> n > 0
        BY StackFacts
      <3>2. \A m \in 1 .. n : m \in 1 .. n - 1 \/ m = n
        BY <1>8
      <3>3. n > 0 => stack[t][n].kind # "callbacks"
        BY <1>2, <3>1 DEF Inside, Last
      <3>4. ASSUME NEW m \in 1 .. n - 1 PROVE stack[t][m].kind # "callbacks"
        <4>1. n \in 1 .. n
          BY <1>8
        <4> QED
          BY <1>8, <4>1 DEF ShapeInv
      <3> QED
        BY <1>8, <3>2, <3>3, <3>4
    <2>2. \A m \in 1 .. n + 1 : m \in 1 .. n \/ m = n + 1
      BY <1>8
    <2>3. ASSUME NEW k \in 1 .. n + 1, NEW m \in 1 .. k - 1
          PROVE  \/ stack'[t][m].kind = "own"
                 \/ stack'[t][k].kind = "joined" /\ stack'[t][m].kind # "callbacks"
      <3>1. m \in 1 .. n
        BY <1>8
      <3>2. CASE k = n + 1
        BY <1>5, <2>1, <3>1, <3>2
      <3>3. CASE k \in 1 .. n
        <4>1. stack'[t][m] = stack[t][m] /\ stack'[t][k] = stack[t][k]
          BY <1>5, <3>1, <3>3
        <4>2. \/ stack[t][m].kind = "own"
              \/ stack[t][k].kind = "joined" /\ stack[t][m].kind # "callbacks"
          BY <1>8, <3>3 DEF ShapeInv
        <4> QED
          BY <4>1, <4>2
      <3> QED
        BY <2>2, <3>2, <3>3
    <2>4. ~Inside(t, "callbacks")' /\ pc'[t] = "ready"
      BY <1>1, <1>5 DEF Inside, Ready
    <2> QED
      BY <1>2, <1>5, <2>3, <2>4 DEF ShapeInv
  <1>11. FrameInv(t)'
    <2>1. \A j \in Instance : InBlock(t, j) =>
            sql'[j].conn = sql[j].conn /\ sql'[j].borrowed = sql[j].borrowed
      BY <1>3, <1>4
    <2>2. \A m \in 1 .. n : InBlock(t, stack[t][m].inst)
      BY DEF InBlock
    <2>3. \A m \in 1 .. n + 1 : m \in 1 .. n \/ m = n + 1
      BY <1>8
    <2> HIDE DEF n
    <2>4. \A m \in 1 .. n :
            LET f == stack[t][m] IN
            /\ f.kind = "own" =>
                 /\ f.inst \in Private[t] /\ f.conn \in live
                 /\ sql'[f.inst].conn = f.conn /\ sql'[f.inst].borrowed = None
            /\ f.kind = "joined" =>
                 /\ f.inst \in Instance /\ f.conn \in HttpConnections(t)
                 /\ sql'[f.inst].conn = f.conn /\ sql'[f.inst].borrowed = f.conn
            /\ f.kind = "http" => f.inst = NoInstance /\ f.conn \in live
            /\ f.kind = "callbacks" => f.inst = NoInstance
      BY <1>8, <2>1, <2>2 DEF FrameInv, n
    <2> QED
      BY <1>1, <1>3, <1>4, <1>5, <2>3, <2>4 DEF FrameInv
  <1>12. ASSUME NEW j \in Instance
         PROVE  UseInv(t, j)'
    <2>1. CASE j = i
      BY <1>2, <1>3, <1>4, <1>5, <1>7, <1>8, <2>1 DEF UseInv
    <2>2. CASE j # i
      BY <1>4, <1>5, <1>7, <1>8, <2>2 DEF UseInv
    <2> QED
      BY <2>1, <2>2
  <1>13. TaskInv(t)'
    BY <1>9, <1>10, <1>11, <1>12 DEF TaskInv
  <1>14. \A u \in Task \ {t} : pc'[u] = pc[u] /\ call'[u] = call[u] /\ stack'[u] = stack[u]
    BY <1>1, <1>5
  <1> QED
    BY <1>1, <1>6, <1>7, <1>13, <1>14, AttachOwners

\* The pool lends a connection to an HTTP transaction.
LEMMA AcquiredHttpKeeps ==
  ASSUME TypeOK, SqlInv, NEW t \in Task, Acquired(t), call[t].goal = "http"
  PROVE  TypeOK' /\ SqlInv'
  <1> DEFINE n == Len(stack[t])
             new == issued + 1
  <1>1. /\ pc[t] = "acquire" /\ issued' = new /\ live' = live \cup {new}
        /\ Push(t, "http", NoInstance, new) /\ Goto(t, "ready", NoCall)
        /\ UNCHANGED <<sql, exc, steps>>
    BY DEF Acquired
  <1>2. /\ CallInv(t) /\ ShapeInv(t) /\ FrameInv(t)
        /\ \A j \in Instance : UseInv(t, j) /\ sql[j] \in SQL
        /\ Private[t] \subseteq Instance /\ NoInstance \notin Instance /\ n \in Nat
        /\ live \subseteq 1 .. issued /\ issued \in Nat /\ new \in Nat
    BY TaskFacts, PrivateFacts, StackFacts
  <1>3. /\ HttpConnections(t) = {} /\ t \notin Child /\ ~Inside(t, "callbacks")
        /\ call[t].inst = NoInstance
    BY <1>1, <1>2 DEF CallInv, ShapeInv
  <1>4. \A m \in 1 .. n : stack[t][m].kind = "own"
    BY <1>3, AllOwn
  <1> HIDE DEF new
  <1>5. /\ stack' \in [Task -> Seq(Frame)]
        /\ \A u \in Task \ {t} : stack'[u] = stack[u]
        /\ Len(stack'[t]) = n + 1 /\ stack'[t] # <<>>
        /\ \A m \in 1 .. n : stack'[t][m] = stack[t][m]
        /\ stack'[t][n + 1] = [kind |-> "http", inst |-> NoInstance, conn |-> new]
        /\ Last(stack'[t]) = [kind |-> "http", inst |-> NoInstance, conn |-> new]
        /\ HttpConnections(t)' = {new}
        /\ \A j \in Instance : InBlock(t, j)' <=> InBlock(t, j)
        /\ \A j \in Instance : Cardinality(Blocks(t, j)') = Cardinality(Blocks(t, j))
    BY <1>1, <1>2, <1>3, PushFacts, StackFacts
  <1>6. /\ pc' \in [Task -> {"ready", "acquire", "await", "release"}]
        /\ call' \in [Task -> Call]
        /\ pc'[t] = "ready" /\ call'[t] = NoCall
        /\ \A u \in Task \ {t} : pc'[u] = pc[u] /\ call'[u] = call[u]
    BY <1>1, NoCallFacts, GotoFacts
  <1>7. TypeOK'
    <2>1. live' \in SUBSET Nat /\ issued' \in Nat
      BY <1>1, <1>2 DEF TypeOK
    <2> QED
      BY <1>1, <1>5, <1>6, <2>1 DEF TypeOK
  <1>8. /\ \A j \in Instance : Busy(t, j)' <=> Busy(t, j)
        /\ \A j \in Instance : Busy(t, j) <=> InBlock(t, j)
        /\ \A j \in Instance : ~Opening(t, j) /\ ~Opening(t, j)'
        /\ Scoped(t) = {} /\ Scoped(t)' = {new}
    BY <1>1, <1>2, <1>3, <1>5, <1>6, NoCallFacts DEF Busy, Opening, Scoped, Returns
  <1>9. \A m \in 1 .. n + 1 : m \in 1 .. n \/ m = n + 1
    BY <1>2
  <1>10. CallInv(t)'
    BY <1>6 DEF CallInv
  <1>11. ShapeInv(t)'
    <2>1. \A k \in 1 .. n + 1 : \A m \in 1 .. k - 1 : m \in 1 .. n
      BY <1>2
    <2> QED
      BY <1>3, <1>4, <1>5, <1>6, <2>1 DEF ShapeInv
  <1>12. FrameInv(t)'
    <2>1. \A m \in 1 .. n :
            /\ stack[t][m].kind = "own" /\ stack[t][m].inst \in Private[t]
            /\ stack[t][m].conn \in live /\ sql[stack[t][m].inst].conn = stack[t][m].conn
            /\ sql[stack[t][m].inst].borrowed = None
      BY <1>2, <1>4 DEF FrameInv
    <2> HIDE DEF n
    <2> QED
      BY <1>1, <1>5, <1>9, <2>1 DEF FrameInv
  <1>13. ASSUME NEW j \in Instance
         PROVE  UseInv(t, j)'
    BY <1>1, <1>2, <1>3, <1>5, <1>8 DEF UseInv
  <1>14. TaskInv(t)'
    BY <1>10, <1>11, <1>12, <1>13 DEF TaskInv
  <1>15. \A j : Owns(j)' <=> Owns(j)
    BY <1>1 DEF Owns
  <1>16. Local(t) /\ PoolStep(t)
    BY <1>1, <1>5, <1>6, <1>8 DEF Local, PoolStep, new
  <1>17. Owners(t)
    BY <1>1, <1>2, <1>8, <1>15 DEF Owners, new
  <1>18. Cares(t)
    <2>1. \A d \in live' : d \notin live => d \in Scoped(t)'
      BY <1>1, <1>8
    <2>2. \A d : Has(t, d) => Has(t, d)'
      BY <1>1, <1>8, <1>15 DEF Has
    <2> QED
      BY <1>1, <1>8, <2>1, <2>2 DEF Cares, Has
  <1> QED
    BY <1>7, <1>14, <1>16, <1>17, <1>18, StepKeeps

\* It lends one to an instance.
LEMMA AcquiredInstanceKeeps ==
  ASSUME TypeOK, SqlInv, NEW t \in Task, Acquired(t), NEW goal, goal = call[t].goal,
         goal # "http", NEW i, i = call[t].inst, NEW new, new = issued + 1
  PROVE  TypeOK' /\ SqlInv'
  <1> DEFINE k == [call[t] EXCEPT !.conn = new]
  <1>1. /\ pc[t] = "acquire" /\ issued' = new /\ live' = live \cup {new}
        /\ Attach(t, i, new, goal) /\ Goto(t, "await", k)
        /\ UNCHANGED <<stack, exc, steps>>
    BY DEF Acquired
  <1>2. /\ CallInv(t) /\ ShapeInv(t) /\ FrameInv(t) /\ call[t] \in Call
        /\ \A j \in Instance : UseInv(t, j) /\ sql[j] \in SQL
        /\ Private[t] \subseteq Instance /\ NoInstance \notin Instance
        /\ Private[t] \cap Shared = {}
        /\ live \subseteq 1 .. issued /\ issued \in Nat /\ new \in Nat /\ new # None
    BY TaskFacts, PrivateFacts
  <1>3. /\ HttpConnections(t) = {} /\ t \notin Child /\ ~Inside(t, "callbacks")
        /\ i \in Private[t] /\ i \in Instance /\ goal \in {"statement", "begin"}
        /\ sql[i].conn = None /\ sql[i].borrowed = None /\ call[t].conn = None
    BY <1>1, <1>2 DEF CallInv, ShapeInv
  <1>4. ScopeConnection(t) = {}
    BY <1>3 DEF ScopeConnection
  <1>5. k \in Call /\ k.goal = goal /\ k.inst = i /\ k.conn = new
    BY <1>2 DEF Call
  <1> HIDE DEF k
  <1>6. /\ sql' \in [Instance -> SQL]
        /\ \A j \in Instance \ {i} : sql'[j] = sql[j]
        /\ sql'[i].conn = new /\ sql'[i].borrowed = None
        /\ sql'[i].depth = sql[i].depth + (IF goal = "begin" THEN 1 ELSE 0)
    BY <1>1, <1>2, <1>3, <1>4, AttachFacts
  <1>7. /\ pc' \in [Task -> {"ready", "acquire", "await", "release"}]
        /\ call' \in [Task -> Call]
        /\ pc'[t] = "await" /\ call'[t] = k
        /\ \A u \in Task \ {t} : pc'[u] = pc[u] /\ call'[u] = call[u]
    BY <1>1, <1>5, GotoFacts
  <1>8. TypeOK'
    <2>1. live' \in SUBSET Nat /\ issued' \in Nat
      BY <1>1, <1>2 DEF TypeOK
    <2> QED
      BY <1>1, <1>6, <1>7, <2>1 DEF TypeOK
  <1>9. /\ HttpConnections(t)' = HttpConnections(t)
        /\ \A kind : Inside(t, kind)' <=> Inside(t, kind)
        /\ \A j : (InBlock(t, j)' <=> InBlock(t, j)) /\ Blocks(t, j)' = Blocks(t, j)
    BY <1>1, StackKept
  <1>10. /\ \A j \in Instance : Busy(t, j)' <=> Busy(t, j)
         /\ Busy(t, i)
         /\ \A j \in Instance : ~Opening(t, j) /\ (Opening(t, j)' <=> goal = "begin" /\ j = i)
         /\ Scoped(t)' = Scoped(t)
    BY <1>1, <1>5, <1>7, <1>9 DEF Busy, Opening, Scoped, Returns
  <1>11. ~InBlock(t, i)
    BY <1>2, <1>3, BlockFacts DEF Owns
  <1>12. CallInv(t)'
    BY <1>2, <1>3, <1>5, <1>6, <1>7, <1>9 DEF CallInv
  <1>13. ShapeInv(t)'
    BY <1>1, <1>2, <1>3, <1>7, <1>9 DEF ShapeInv
  <1>14. FrameInv(t)'
    <2>1. \A n \in 1 .. Len(stack[t]) : stack[t][n].inst # i
      BY <1>11 DEF InBlock
    <2> QED
      BY <1>1, <1>2, <1>6, <1>9, <2>1 DEF FrameInv
  <1>15. ASSUME NEW j \in Instance
         PROVE  UseInv(t, j)'
    <2>1. CASE j = i
      <3>1. sql[i].depth = Cardinality(Blocks(t, i)) + 0 /\ Cardinality(Blocks(t, i)) \in Nat
        BY <1>2, <1>3, <1>10, StackFacts DEF UseInv
      <3>2. /\ Opening(t, i)' <=> goal = "begin"
            /\ i \in Private[t] /\ i \notin Shared
            /\ Blocks(t, i)' = Blocks(t, i)
        BY <1>2, <1>3, <1>9, <1>10
      <3>3. sql'[i].depth = Cardinality(Blocks(t, i)') + (IF Opening(t, i)' THEN 1 ELSE 0)
        BY <1>6, <3>1, <3>2
      <3> QED
        BY <1>6, <2>1, <3>2, <3>3 DEF UseInv
    <2>2. CASE j # i
      BY <1>2, <1>6, <1>9, <1>10, <2>2 DEF UseInv
    <2> QED
      BY <2>1, <2>2
  <1>16. TaskInv(t)'
    BY <1>12, <1>13, <1>14, <1>15 DEF TaskInv
  <1>17. \A u \in Task \ {t} : ~Busy(u, i)
    BY <1>3, <1>10 DEF SqlInv, OneUser
  <1>18. Local(t) /\ PoolStep(t)
    BY <1>1, <1>6, <1>7, <1>10, <1>17 DEF Local, PoolStep
  <1>19. /\ Owns(i)' /\ ~Owns(i)
         /\ \A j \in Instance \ {i} : Owns(j)' <=> Owns(j)
    <2>1. new # None /\ sql[i].conn = None
      BY <1>2, <1>3
    <2>2. Owns(i)' /\ ~Owns(i)
      BY <1>6, <2>1 DEF Owns
    <2>3. \A j \in Instance \ {i} : Owns(j)' <=> Owns(j)
      BY <1>6 DEF Owns
    <2> QED
      BY <2>2, <2>3
  <1>20. Owners(t)
    <2>1. /\ \A j \in Instance : Owns(j)' =>
               IF j = i THEN issued' = issued + 1 /\ sql'[j].conn = issued'
                        ELSE Owns(j) /\ sql'[j].conn = sql[j].conn
          /\ \A c \in Scoped(t)' : c \in Scoped(t)
      BY <1>1, <1>6, <1>10, <1>19
    <2> QED
      BY <1>3, <2>1 DEF Owners
  <1>21. Cares(t)
    <2>1. Has(t, new)'
      BY <1>3, <1>6, <1>10, <1>19 DEF Has
    <2>2. \A d : Has(t, d) => Has(t, d)'
      BY <1>6, <1>10, <1>19 DEF Has
    <2> QED
      BY <1>1, <1>6, <1>10, <2>1, <2>2 DEF Cares
  <1> QED
    BY <1>8, <1>16, <1>18, <1>20, <1>21, StepKeeps

\* BEGIN is answered.
LEMMA BeginReturnsKeeps ==
  ASSUME TypeOK, SqlInv, NEW t \in Task, BeginReturns(t)
  PROVE  TypeOK' /\ SqlInv'
  <1> DEFINE n == Len(stack[t])
             i == call[t].inst
             c == call[t].conn
  <1>1. /\ pc[t] = "await" /\ call[t].goal = "begin" /\ c \in live
        /\ Push(t, "own", i, c) /\ Goto(t, "ready", NoCall)
        /\ UNCHANGED <<exc, steps, sql, live, issued>>
    BY DEF BeginReturns, Awaits, poolVars
  <1>2. /\ CallInv(t) /\ ShapeInv(t) /\ FrameInv(t) /\ call[t] \in Call
        /\ \A j \in Instance : UseInv(t, j) /\ sql[j] \in SQL
        /\ Private[t] \subseteq Instance /\ NoInstance \notin Instance /\ n \in Nat
        /\ live \subseteq 1 .. issued /\ issued \in Nat
    BY TaskFacts, PrivateFacts, StackFacts
  <1>3. /\ HttpConnections(t) = {} /\ t \notin Child /\ ~Inside(t, "callbacks")
        /\ i \in Instance /\ sql[i].conn = c /\ c # None /\ c \in Nat
    BY <1>1, <1>2 DEF CallInv, ShapeInv, Call
  <1>4. /\ Busy(t, i) /\ i \in Private[t] /\ sql[i].borrowed = None
        /\ sql[i].depth = Cardinality(Blocks(t, i)) + 1
    BY <1>1, <1>2, <1>3 DEF UseInv, Busy, Opening
  <1>5. \A m \in 1 .. n : stack[t][m].kind = "own"
    BY <1>3, AllOwn
  <1> HIDE DEF i, c
  <1>6. /\ stack' \in [Task -> Seq(Frame)]
        /\ \A u \in Task \ {t} : stack'[u] = stack[u]
        /\ Len(stack'[t]) = n + 1 /\ stack'[t] # <<>>
        /\ \A m \in 1 .. n : stack'[t][m] = stack[t][m]
        /\ stack'[t][n + 1] = [kind |-> "own", inst |-> i, conn |-> c]
        /\ Last(stack'[t]) = [kind |-> "own", inst |-> i, conn |-> c]
        /\ HttpConnections(t)' = HttpConnections(t)
        /\ \A j : InBlock(t, j)' <=> InBlock(t, j) \/ j = i
        /\ \A j : Cardinality(Blocks(t, j)') =
                     Cardinality(Blocks(t, j)) + (IF j = i THEN 1 ELSE 0)
    BY <1>1, <1>3, PushFacts
  <1>7. /\ pc' \in [Task -> {"ready", "acquire", "await", "release"}]
        /\ call' \in [Task -> Call]
        /\ pc'[t] = "ready" /\ call'[t] = NoCall
        /\ \A u \in Task \ {t} : pc'[u] = pc[u] /\ call'[u] = call[u]
    BY <1>1, NoCallFacts, GotoFacts
  <1>8. TypeOK'
    BY <1>1, <1>6, <1>7 DEF TypeOK
  <1>9. /\ \A j \in Instance : Busy(t, j)' <=> Busy(t, j)
        /\ \A j \in Instance : (Opening(t, j) <=> j = i) /\ ~Opening(t, j)'
        /\ Scoped(t)' = Scoped(t)
    BY <1>1, <1>2, <1>3, <1>6, <1>7, NoCallFacts DEF Busy, Opening, Scoped, Returns, i
  <1>10. \A m \in 1 .. n + 1 : m \in 1 .. n \/ m = n + 1
    BY <1>2
  <1>11. CallInv(t)'
    BY <1>7 DEF CallInv
  <1>12. ShapeInv(t)'
    <2>1. \A k \in 1 .. n + 1 : \A m \in 1 .. k - 1 : m \in 1 .. n
      BY <1>2
    <2> QED
      BY <1>3, <1>5, <1>6, <1>7, <2>1 DEF ShapeInv
  <1>13. FrameInv(t)'
    <2>1. \A m \in 1 .. n :
            /\ stack[t][m].kind = "own" /\ stack[t][m].inst \in Private[t]
            /\ stack[t][m].conn \in live /\ sql[stack[t][m].inst].conn = stack[t][m].conn
            /\ sql[stack[t][m].inst].borrowed = None
      BY <1>2, <1>5 DEF FrameInv
    <2> HIDE DEF n
    <2> QED
      BY <1>1, <1>3, <1>4, <1>6, <1>10, <2>1 DEF FrameInv, c
  <1>14. ASSUME NEW j \in Instance
         PROVE  UseInv(t, j)'
    <2>1. sql[j].depth = Cardinality(Blocks(t, j)) + (IF j = i THEN 1 ELSE 0) =>
            sql[j].depth = Cardinality(Blocks(t, j)') + 0
      BY <1>6, StackFacts
    <2> QED
      BY <1>1, <1>2, <1>6, <1>9, <2>1 DEF UseInv
  <1>15. TaskInv(t)'
    BY <1>11, <1>12, <1>13, <1>14 DEF TaskInv
  <1> QED
    BY <1>1, <1>6, <1>7, <1>8, <1>9, <1>15, QuietFacts

(***************************************************************************)
(* The steps that let go of a connection.                                  *)
(***************************************************************************)

\* What release leaves: detached and idle, in an outer block, or returning its own.
LEMMA ReleaseFacts ==
  ASSUME TypeOK, SqlInv, NEW t \in Task, NEW i \in Instance, NEW depth \in Nat,
         Release(t, i, depth)
  PROVE  /\ sql' \in [Instance -> SQL]
         /\ \A j \in Instance \ {i} : sql'[j] = sql[j]
         /\ pc' \in [Task -> {"ready", "acquire", "await", "release"}]
         /\ call' \in [Task -> Call]
         /\ \A u \in Task \ {t} : pc'[u] = pc[u] /\ call'[u] = call[u]
         /\ sql'[i].depth = depth
         /\ \/ /\ depth = 0 /\ sql[i].borrowed # None
               /\ sql'[i].conn = None /\ sql'[i].borrowed = None
               /\ pc'[t] = "ready" /\ call'[t] = NoCall
            \/ /\ depth > 0
               /\ sql'[i].conn = sql[i].conn /\ sql'[i].borrowed = sql[i].borrowed
               /\ pc'[t] = "ready" /\ call'[t] = NoCall
            \/ /\ depth = 0 /\ sql[i].borrowed = None
               /\ sql'[i].conn = sql[i].conn /\ sql'[i].borrowed = sql[i].borrowed
               /\ pc'[t] = "release" /\ call'[t].goal = "release"
               /\ call'[t].inst = i /\ call'[t].conn = sql[i].conn
  <1> DEFINE x == [sql[i] EXCEPT !.depth = depth]
             k == [goal |-> "release", inst |-> i, conn |-> sql[i].conn]
  <1>1. sql[i] \in SQL
    BY TaskFacts
  <1>2. /\ x \in SQL /\ x.depth = depth /\ x.conn = sql[i].conn /\ x.borrowed = sql[i].borrowed
        /\ Detached \in SQL /\ Detached.depth = 0
        /\ Detached.conn = None /\ Detached.borrowed = None
        /\ k \in Call /\ k.goal = "release" /\ k.inst = i /\ k.conn = sql[i].conn
    BY <1>1 DEF SQL, Detached, Call, Goal
  <1>3. CASE depth = 0 /\ sql[i].borrowed # None
    <2>1. sql' = [sql EXCEPT ![i] = Detached] /\ Goto(t, "ready", NoCall)
      BY <1>3 DEF Release
    <2> HIDE DEF x, k
    <2> QED
      BY <1>2, <1>3, <2>1, SqlUpdate, GotoFacts, NoCallFacts
  <1>4. CASE ~(depth = 0 /\ sql[i].borrowed # None)
    <2>1. /\ sql' = [sql EXCEPT ![i] = x]
          /\ IF depth > 0 THEN Goto(t, "ready", NoCall) ELSE Goto(t, "release", k)
      BY <1>4 DEF Release
    <2> HIDE DEF x, k
    <2>2. /\ sql' \in [Instance -> SQL] /\ sql'[i] = x
          /\ \A j \in Instance \ {i} : sql'[j] = sql[j]
      BY <1>2, <2>1, SqlUpdate
    <2>3. CASE depth > 0
      BY <1>2, <2>1, <2>2, <2>3, GotoFacts, NoCallFacts
    <2>4. CASE ~(depth > 0)
      <3>1. depth = 0 /\ Goto(t, "release", k)
        BY <2>1, <2>4
      <3> QED
        BY <1>2, <1>4, <2>2, <3>1, GotoFacts
    <2> QED
      BY <2>3, <2>4
  <1> QED
    BY <1>3, <1>4

\* A statement ends, or a block: the instance is released, once all of its blocks are
\* left.
LEMMA ReleaseKeeps ==
  ASSUME TypeOK, SqlInv, NEW t \in Task, NEW i \in Instance, NEW depth \in Nat,
         Release(t, i, depth), UNCHANGED <<live, issued>>,
         pc[t] \in {"ready", "await"}, t \notin Child,
         Busy(t, i), \A j \in Instance \ {i} : call[t].inst # j,
         HttpConnections(t) # {} => sql[i].borrowed # None,
         sql[i].borrowed = None => sql[i].conn # None,
         \A u \in Task \ {t} : stack'[u] = stack[u],
         Len(stack'[t]) \in Nat, Len(stack'[t]) <= Len(stack[t]),
         \A n \in 1 .. Len(stack'[t]) : stack'[t][n] = stack[t][n],
         ~Inside(t, "callbacks")', HttpConnections(t)' = HttpConnections(t),
         \A j \in Instance : InBlock(t, j)' <=> Cardinality(Blocks(t, j)') > 0,
         \A j \in Instance \ {i} : Cardinality(Blocks(t, j)') = Cardinality(Blocks(t, j)),
         Cardinality(Blocks(t, i)') = depth
  PROVE  SqlInv'
  <1>1. /\ sql' \in [Instance -> SQL]
        /\ \A j \in Instance \ {i} : sql'[j] = sql[j]
        /\ \A u \in Task \ {t} : pc'[u] = pc[u] /\ call'[u] = call[u]
        /\ sql'[i].depth = depth
        /\ \/ /\ depth = 0 /\ sql[i].borrowed # None
              /\ sql'[i].conn = None /\ sql'[i].borrowed = None
              /\ pc'[t] = "ready" /\ call'[t] = NoCall
           \/ /\ depth > 0
              /\ sql'[i].conn = sql[i].conn /\ sql'[i].borrowed = sql[i].borrowed
              /\ pc'[t] = "ready" /\ call'[t] = NoCall
           \/ /\ depth = 0 /\ sql[i].borrowed = None
              /\ sql'[i].conn = sql[i].conn /\ sql'[i].borrowed = sql[i].borrowed
              /\ pc'[t] = "release" /\ call'[t].goal = "release"
              /\ call'[t].inst = i /\ call'[t].conn = sql[i].conn
    BY ReleaseFacts
  <1>2. /\ CallInv(t) /\ ShapeInv(t) /\ FrameInv(t)
        /\ \A j \in Instance : UseInv(t, j) /\ sql[j] \in SQL
        /\ Private[t] \subseteq Instance /\ NoInstance \notin Instance
        /\ live \subseteq 1 .. issued /\ None \notin live
        /\ Len(stack[t]) \in Nat
        /\ \A j : InBlock(t, j) <=> Cardinality(Blocks(t, j)) > 0
    BY TaskFacts, PrivateFacts, StackFacts
  <1>3. /\ InBlock(t, i)' <=> depth > 0
        /\ \A j \in Instance \ {i} : InBlock(t, j)' <=> InBlock(t, j)
    BY <1>2
  <1>4. /\ Busy(t, i)' <=> ~(depth = 0 /\ sql[i].borrowed # None)
        /\ \A j \in Instance \ {i} : Busy(t, j)' <=> Busy(t, j)
        /\ \A j \in Instance : ~Opening(t, j)'
        /\ \A j \in Instance \ {i} : ~Opening(t, j)
        /\ Scoped(t)' = Scoped(t)
    BY <1>1, <1>3, NoCallFacts DEF Busy, Opening, Scoped, Returns
  <1>5. CallInv(t)'
    <2>1. CASE depth = 0 /\ sql[i].borrowed = None
      <3>1. i \in Private[t] /\ HttpConnections(t) = {}
        BY <1>2, <2>1 DEF UseInv
      <3> QED
        BY <1>1, <2>1, <3>1 DEF CallInv
    <2>2. CASE pc'[t] = "ready" /\ call'[t] = NoCall
      BY <2>2 DEF CallInv
    <2> QED
      BY <1>1, <2>1, <2>2
  <1>6. ShapeInv(t)'
    <2>1. \A n \in 1 .. Len(stack'[t]) : n \in 1 .. Len(stack[t])
      BY <1>2
    <2>2. \A n \in 1 .. Len(stack'[t]) : \A m \in 1 .. n - 1 : m \in 1 .. Len(stack'[t])
      OBVIOUS
    <2>3. ASSUME NEW n \in 1 .. Len(stack'[t]), NEW m \in 1 .. n - 1
          PROVE  \/ stack'[t][m].kind = "own"
                 \/ stack'[t][n].kind = "joined" /\ stack'[t][m].kind # "callbacks"
      <3>1. stack'[t][m] = stack[t][m] /\ stack'[t][n] = stack[t][n]
        BY <2>2
      <3> QED
        BY <1>2, <2>1, <3>1 DEF ShapeInv
    <2> QED
      BY <2>3 DEF ShapeInv
  <1>7. FrameInv(t)'
    <2>1. \A n \in 1 .. Len(stack'[t]) :
            n \in 1 .. Len(stack[t]) /\ InBlock(t, stack[t][n].inst)'
      BY <1>2 DEF InBlock
    <2>2. \A j \in Instance : InBlock(t, j)' =>
            sql'[j].conn = sql[j].conn /\ sql'[j].borrowed = sql[j].borrowed
      BY <1>1, <1>3
    <2>3. ASSUME NEW n \in 1 .. Len(stack'[t])
          PROVE  LET f == stack'[t][n] IN
            /\ f.kind = "own" =>
                 /\ f.inst \in Private[t] /\ f.conn \in live
                 /\ sql'[f.inst].conn = f.conn /\ sql'[f.inst].borrowed = None
            /\ f.kind = "joined" =>
                 /\ f.inst \in Instance /\ f.conn \in HttpConnections(t)
                 /\ sql'[f.inst].conn = f.conn /\ sql'[f.inst].borrowed = f.conn
            /\ f.kind = "http" => f.inst = NoInstance /\ f.conn \in live
            /\ f.kind = "callbacks" => f.inst = NoInstance
      <3> DEFINE f == stack[t][n]
      <3>1. stack'[t][n] = f /\ (f.inst \in Instance => InBlock(t, f.inst)')
        BY <2>1
      <3>2. /\ f.kind = "own" =>
                 /\ f.inst \in Private[t] /\ f.conn \in live
                 /\ sql[f.inst].conn = f.conn /\ sql[f.inst].borrowed = None
            /\ f.kind = "joined" =>
                 /\ f.inst \in Instance /\ f.conn \in HttpConnections(t)
                 /\ sql[f.inst].conn = f.conn /\ sql[f.inst].borrowed = f.conn
            /\ f.kind = "http" => f.inst = NoInstance /\ f.conn \in live
            /\ f.kind = "callbacks" => f.inst = NoInstance
        BY <1>2, <2>1 DEF FrameInv
      <3>3. f.inst \in Instance =>
              sql'[f.inst].conn = sql[f.inst].conn /\ sql'[f.inst].borrowed = sql[f.inst].borrowed
        BY <2>1, <2>2
      <3> HIDE DEF f
      <3> QED
        BY <1>2, <3>1, <3>2, <3>3
    <2> QED
      BY <2>3 DEF FrameInv
  <1>8. ASSUME NEW j \in Instance
        PROVE  UseInv(t, j)'
    <2>1. CASE j = i
      BY <1>1, <1>2, <1>4, <2>1 DEF UseInv, SQL
    <2>2. CASE j # i
      BY <1>1, <1>2, <1>4, <2>2 DEF UseInv
    <2> QED
      BY <2>1, <2>2
  <1>9. TaskInv(t)'
    BY <1>5, <1>6, <1>7, <1>8 DEF TaskInv
  <1>10. \A u \in Task \ {t} : ~Busy(u, i)
    BY DEF SqlInv, OneUser
  <1>11. Local(t) /\ PoolStep(t)
    BY <1>1, <1>4, <1>10 DEF Local, PoolStep
  <1>12. \A j \in Instance : /\ Owns(j)' => Owns(j) /\ sql'[j].conn = sql[j].conn
                             /\ Owns(j) => Owns(j)' /\ sql'[j].conn = sql[j].conn
    BY <1>1 DEF Owns
  <1>13. Owners(t)
    BY <1>2, <1>4, <1>12 DEF Owners
  <1>14. Cares(t)
    <2>1. \A d : Has(t, d) => Has(t, d)'
      BY <1>4, <1>12 DEF Has, Owns
    <2> QED
      BY <1>1, <1>2, <1>4, <2>1 DEF Cares
  <1> QED
    BY <1>9, <1>11, <1>13, <1>14, StepKeeps

\* A block of an instance is left.
LEMMA PopBlockFacts ==
  ASSUME TypeOK, SqlInv, NEW t \in Task, stack[t] # <<>>, Pop(t),
         Last(stack[t]).kind \in {"joined", "own"}, NEW i, i = Last(stack[t]).inst
  PROVE  /\ i \in Instance /\ InBlock(t, i) /\ t \notin Child
         /\ stack' \in [Task -> Seq(Frame)]
         /\ \A u \in Task \ {t} : stack'[u] = stack[u]
         /\ Len(stack'[t]) \in Nat /\ Len(stack'[t]) <= Len(stack[t])
         /\ \A n \in 1 .. Len(stack'[t]) : stack'[t][n] = stack[t][n]
         /\ ~Inside(t, "callbacks")' /\ HttpConnections(t)' = HttpConnections(t)
         /\ \A j \in Instance : InBlock(t, j)' <=> Cardinality(Blocks(t, j)') > 0
         /\ \A j \in Instance \ {i} : Cardinality(Blocks(t, j)') = Cardinality(Blocks(t, j))
         /\ Cardinality(Blocks(t, i)') = Cardinality(Blocks(t, i)) - 1
         /\ Cardinality(Blocks(t, i)) \in Nat \ {0}
         /\ sql[i].conn # None
         /\ HttpConnections(t) # {} => sql[i].borrowed # None
         /\ Last(stack[t]).kind = "joined" => sql[i].borrowed # None
  <1> DEFINE n == Len(stack[t])
             f == stack[t][n]
  <1>1. /\ stack' \in [Task -> Seq(Frame)]
        /\ \A u \in Task \ {t} : stack'[u] = stack[u]
        /\ Len(stack'[t]) = n - 1 /\ n \in Nat \ {0}
        /\ \A m \in 1 .. n - 1 : stack'[t][m] = stack[t][m]
        /\ Last(stack[t]) = f /\ f \in Frame
        /\ HttpConnections(t) =
              HttpConnections(t)' \cup (IF f.kind = "http" THEN {f.conn} ELSE {})
        /\ \A j : InBlock(t, j) <=> InBlock(t, j)' \/ j = f.inst
        /\ \A j : Cardinality(Blocks(t, j)') =
                    Cardinality(Blocks(t, j)) - (IF j = f.inst THEN 1 ELSE 0)
    BY PopFacts
  <1>2. /\ ShapeInv(t) /\ FrameInv(t) /\ Private[t] \subseteq Instance
        /\ \A j : Cardinality(Blocks(t, j)) \in Nat
        /\ \A j : InBlock(t, j) <=> Cardinality(Blocks(t, j)) > 0
        /\ n \in 1 .. n
        /\ \A c \in HttpConnections(t) : c # None
        /\ live \subseteq 1 .. issued
    BY <1>1, TaskFacts, PrivateFacts, StackFacts, HttpFacts
  <1>3. /\ f.kind = "own" =>
             /\ f.inst \in Private[t] /\ f.conn \in live
             /\ sql[f.inst].conn = f.conn /\ sql[f.inst].borrowed = None
        /\ f.kind = "joined" =>
             /\ f.inst \in Instance /\ f.conn \in HttpConnections(t)
             /\ sql[f.inst].conn = f.conn /\ sql[f.inst].borrowed = f.conn
    BY <1>2 DEF FrameInv
  <1>4. i = f.inst /\ f.kind \in {"joined", "own"}
    BY <1>1
  <1> HIDE DEF f
  <1>5. i \in Instance /\ sql[i].conn # None
    BY <1>2, <1>3, <1>4
  <1>6. f.kind = "own" => HttpConnections(t) = {}
    BY <1>1, OwnOutside
  <1>7. HttpConnections(t)' = HttpConnections(t)
    BY <1>1, <1>4
  <1>8. ~Inside(t, "callbacks")'
    <2>1. stack'[t] # <<>> => n - 1 \in 1 .. n - 1
      BY <1>1
    <2>2. n - 1 \in 1 .. n - 1 => stack[t][n - 1].kind # "callbacks"
      BY <1>2 DEF ShapeInv
    <2> QED
      BY <1>1, <2>1, <2>2 DEF Inside, Last
  <1>9. \A j \in Instance : InBlock(t, j)' <=> Cardinality(Blocks(t, j)') > 0
    <2> DEFINE k == n - 1
    <2>0. k \in Int /\ Len(stack'[t]) = k
      BY <1>1
    <2> HIDE DEF k
    <2>1. /\ IsFiniteSet(1 .. k)
          /\ \A j : Blocks(t, j)' \subseteq 1 .. k
      BY <2>0, FS_Interval DEF Blocks
    <2>2. ASSUME NEW j
          PROVE  /\ IsFiniteSet(Blocks(t, j)') /\ Cardinality(Blocks(t, j)') \in Nat
                 /\ Cardinality(Blocks(t, j)') = 0 <=> Blocks(t, j)' = {}
      BY <2>1, FS_Subset, FS_CardinalityType, FS_EmptySet
    <2>3. \A j : InBlock(t, j)' <=> Blocks(t, j)' # {}
      BY DEF InBlock, Blocks
    <2> QED
      BY <2>2, <2>3
  <1>10. t \notin Child
    BY <1>2 DEF ShapeInv
  <1> QED
    BY <1>1, <1>2, <1>3, <1>4, <1>5, <1>6, <1>7, <1>8, <1>9, <1>10

\* The end of a joined block, and of the await of a standalone one's COMMIT or ROLLBACK.
LEMMA LeaveBlockKeeps ==
  ASSUME TypeOK, SqlInv, NEW t \in Task, LeaveJoined(t) \/ BlockEnds(t),
         NEW i, i = Last(stack[t]).inst, NEW depth, depth = sql[i].depth - 1
  PROVE  TypeOK' /\ SqlInv'
  <1>1. /\ CallInv(t) /\ NoInstance \notin Instance
        /\ \A j \in Instance : UseInv(t, j)
    BY TaskFacts, ConstantsAssumption
  <1>2. /\ stack[t] # <<>> /\ Last(stack[t]).kind \in {"joined", "own"} /\ Pop(t)
        /\ \/ pc[t] = "ready" /\ call[t] = NoCall
           \/ pc[t] = "await" /\ call[t].goal = "end" /\ call[t].inst = i
        /\ Release(t, i, depth)
        /\ UNCHANGED <<steps, live, issued>>
        /\ exc' \in [Task -> BOOLEAN]
    <2>1. CASE LeaveJoined(t)
      BY <1>1, <2>1 DEF LeaveJoined, Ready, Inside, CallInv, poolVars, TypeOK
    <2>2. CASE BlockEnds(t)
      BY <1>1, <2>2 DEF BlockEnds, Awaits, Inside, CallInv, Outcome, poolVars, TypeOK
    <2> QED
      BY <2>1, <2>2
  <1>3. /\ i \in Instance /\ InBlock(t, i) /\ t \notin Child
        /\ stack' \in [Task -> Seq(Frame)]
        /\ \A u \in Task \ {t} : stack'[u] = stack[u]
        /\ Len(stack'[t]) \in Nat /\ Len(stack'[t]) <= Len(stack[t])
        /\ \A n \in 1 .. Len(stack'[t]) : stack'[t][n] = stack[t][n]
        /\ ~Inside(t, "callbacks")' /\ HttpConnections(t)' = HttpConnections(t)
        /\ \A j \in Instance : InBlock(t, j)' <=> Cardinality(Blocks(t, j)') > 0
        /\ \A j \in Instance \ {i} : Cardinality(Blocks(t, j)') = Cardinality(Blocks(t, j))
        /\ Cardinality(Blocks(t, i)') = Cardinality(Blocks(t, i)) - 1
        /\ Cardinality(Blocks(t, i)) \in Nat \ {0}
        /\ sql[i].conn # None
        /\ HttpConnections(t) # {} => sql[i].borrowed # None
    BY <1>2, PopBlockFacts
  <1>4. Busy(t, i) /\ \A j \in Instance \ {i} : call[t].inst # j
    BY <1>2, <1>3, NoCallFacts DEF Busy
  <1>5. ~Opening(t, i)
    BY <1>2 DEF Opening
  <1>6. sql[i].depth = Cardinality(Blocks(t, i)) + 0
    BY <1>1, <1>3, <1>4, <1>5 DEF UseInv
  <1>7. depth \in Nat /\ Cardinality(Blocks(t, i)') = depth
    BY <1>3, <1>6
  <1>8. /\ sql' \in [Instance -> SQL]
        /\ pc' \in [Task -> {"ready", "acquire", "await", "release"}]
        /\ call' \in [Task -> Call]
    BY <1>2, <1>3, <1>7, ReleaseFacts
  <1>9. TypeOK'
    BY <1>2, <1>3, <1>8 DEF TypeOK
  <1>10. SqlInv'
    BY <1>2, <1>3, <1>4, <1>7, ReleaseKeeps
  <1> QED
    BY <1>9, <1>10

\* A statement is answered, or BEGIN fails.
LEMMA CallEndsKeeps ==
  ASSUME TypeOK, SqlInv, NEW t \in Task, StatementEnds(t) \/ BeginFails(t),
         NEW i, i = call[t].inst
  PROVE  TypeOK' /\ SqlInv'
  <1>1. /\ CallInv(t) /\ ShapeInv(t)
        /\ \A j \in Instance : UseInv(t, j) /\ sql[j] \in SQL
        /\ \A j : Cardinality(Blocks(t, j)) \in Nat /\ Len(stack[t]) \in Nat
        /\ \A j : InBlock(t, j) <=> Cardinality(Blocks(t, j)) > 0
    BY TaskFacts, StackFacts
  <1>2. PICK depth :
        /\ pc[t] = "await" /\ Release(t, i, depth)
        /\ UNCHANGED <<stack, steps, live, issued>> /\ exc' \in [Task -> BOOLEAN]
        /\ \/ call[t].goal = "statement" /\ depth = sql[i].depth
           \/ call[t].goal = "begin" /\ depth = sql[i].depth - 1
    <2>1. CASE StatementEnds(t)
      BY <2>1 DEF StatementEnds, Awaits, Outcome, poolVars, TypeOK
    <2>2. CASE BeginFails(t)
      BY <2>2 DEF BeginFails, Awaits, poolVars, TypeOK
    <2> QED
      BY <2>1, <2>2
  <1>3. /\ i \in Instance /\ sql[i].conn = call[t].conn /\ sql[i].conn # None
        /\ HttpConnections(t) # {} => sql[i].borrowed # None
        /\ t \notin Child /\ ~Inside(t, "callbacks")
        /\ Busy(t, i) /\ \A j \in Instance \ {i} : call[t].inst # j
    BY <1>1, <1>2 DEF CallInv, ShapeInv, Busy
  <1>4. /\ HttpConnections(t)' = HttpConnections(t)
        /\ \A kind : Inside(t, kind)' <=> Inside(t, kind)
        /\ \A j : (InBlock(t, j)' <=> InBlock(t, j)) /\ Blocks(t, j)' = Blocks(t, j)
    BY <1>2, StackKept
  <1>5. depth \in Nat /\ Cardinality(Blocks(t, i)') = depth
    <2>1. Opening(t, i) <=> call[t].goal = "begin"
      BY <1>2 DEF Opening
    <2>2. sql[i].depth = Cardinality(Blocks(t, i)) + (IF Opening(t, i) THEN 1 ELSE 0)
      BY <1>1, <1>3 DEF UseInv
    <2>3. Blocks(t, i)' = Blocks(t, i) /\ Cardinality(Blocks(t, i)) \in Nat
      BY <1>1, <1>4
    <2>4. depth = Cardinality(Blocks(t, i))
      BY <1>2, <2>1, <2>2, <2>3
    <2> QED
      BY <2>3, <2>4
  <1>6. /\ sql' \in [Instance -> SQL]
        /\ pc' \in [Task -> {"ready", "acquire", "await", "release"}]
        /\ call' \in [Task -> Call]
    BY <1>2, <1>3, <1>5, ReleaseFacts
  <1>7. TypeOK'
    BY <1>2, <1>6 DEF TypeOK
  <1>8. /\ \A u \in Task \ {t} : stack'[u] = stack[u]
        /\ Len(stack'[t]) \in Nat /\ Len(stack'[t]) <= Len(stack[t])
        /\ \A n \in 1 .. Len(stack'[t]) : stack'[t][n] = stack[t][n]
        /\ ~Inside(t, "callbacks")'
        /\ \A j \in Instance : InBlock(t, j)' <=> Cardinality(Blocks(t, j)') > 0
        /\ \A j \in Instance \ {i} : Cardinality(Blocks(t, j)') = Cardinality(Blocks(t, j))
    BY <1>1, <1>2, <1>3, <1>4
  <1>9. SqlInv'
    BY <1>2, <1>3, <1>4, <1>5, <1>8, ReleaseKeeps
  <1> QED
    BY <1>7, <1>9

\* The pool takes the connection back, or the return of it fails; the callbacks of an
\* HTTP transaction may follow.
LEMMA ReturnKeeps ==
  ASSUME TypeOK, SqlInv, NEW t \in Task, ReleaseReturns(t) \/ ReleaseFails(t),
         NEW i, i = call[t].inst, NEW c, c = call[t].conn
  PROVE  TypeOK' /\ SqlInv'
  <1> DEFINE n == Len(stack[t])
  <1>1. /\ CallInv(t) /\ ShapeInv(t) /\ FrameInv(t) /\ n \in Nat
        /\ \A j \in Instance : UseInv(t, j) /\ sql[j] \in SQL
        /\ live \subseteq 1 .. issued /\ issued \in Nat
        /\ \A j : InBlock(t, j) <=> Cardinality(Blocks(t, j)) > 0
        /\ \A j : Cardinality(Blocks(t, j)) \in Nat
        /\ Private[t] \subseteq Instance /\ NoInstance \notin Instance
    BY TaskFacts, StackFacts, PrivateFacts
  <1>2. /\ pc[t] = "release" /\ HttpConnections(t) = {} /\ c # None
        /\ i \in Instance =>
             /\ call[t].goal = "release"
             /\ sql[i].conn = c /\ sql[i].borrowed = None /\ sql[i].depth = 0
        /\ i \notin Instance => call[t].goal = "http" /\ i = NoInstance
        /\ t \notin Child /\ ~Inside(t, "callbacks")
    BY <1>1 DEF ReleaseReturns, ReleaseFails, CallInv, ShapeInv
  <1>3. \A m \in 1 .. n : stack[t][m].kind = "own"
    BY <1>2, AllOwn
  <1>4. /\ pc' \in [Task -> {"ready", "acquire", "await", "release"}]
        /\ call' \in [Task -> Call]
        /\ pc'[t] = "ready" /\ call'[t] = NoCall
        /\ \A u \in Task \ {t} : pc'[u] = pc[u] /\ call'[u] = call[u]
    BY NoCallFacts, GotoFacts DEF ReleaseReturns, ReleaseFails
  <1>5. live' = live \ {c} /\ issued' = issued /\ steps' = steps /\ exc' \in [Task -> BOOLEAN]
    BY DEF ReleaseReturns, ReleaseFails, TypeOK
  <1>6. /\ sql' \in [Instance -> SQL]
        /\ \A j \in Instance \ {i} : sql'[j] = sql[j]
        /\ i \in Instance =>
             /\ sql'[i].depth = 0 /\ sql'[i].borrowed = None
             /\ sql'[i].conn \in {None, c}
    <2>1. CASE UNCHANGED sql
      BY <1>2, <2>1 DEF TypeOK
    <2>2. CASE i \in Instance /\ sql' = [sql EXCEPT ![i].conn = None]
      BY <1>1, <1>2, <2>2 DEF TypeOK, SQL
    <2> QED
      BY <1>2, <2>1, <2>2 DEF ReleaseReturns, ReleaseFails, Forget
  <1>7. /\ stack' \in [Task -> Seq(Frame)]
        /\ \A u \in Task \ {t} : stack'[u] = stack[u]
        /\ \A m \in 1 .. n : stack'[t][m] = stack[t][m]
        /\ HttpConnections(t)' = {}
        /\ \A j \in Instance : /\ InBlock(t, j)' <=> InBlock(t, j)
                               /\ Cardinality(Blocks(t, j)') = Cardinality(Blocks(t, j))
        /\ \/ Len(stack'[t]) = n
           \/ /\ Len(stack'[t]) = n + 1
              /\ stack'[t][n + 1].kind = "callbacks" /\ stack'[t][n + 1].inst = NoInstance
    <2>1. CASE UNCHANGED stack
      BY <1>2, <2>1, StackKept DEF TypeOK
    <2>2. CASE Push(t, "callbacks", NoInstance, None)
      <3>1. PICK none \in Nat : none = None
        OBVIOUS
      <3>2. Push(t, "callbacks", NoInstance, none)
        BY <2>2, <3>1
      <3>3. /\ stack' \in [Task -> Seq(Frame)]
            /\ \A u \in Task \ {t} : stack'[u] = stack[u]
            /\ Len(stack'[t]) = Len(stack[t]) + 1
            /\ \A m \in 1 .. Len(stack[t]) : stack'[t][m] = stack[t][m]
            /\ stack'[t][Len(stack'[t])] =
                 [kind |-> "callbacks", inst |-> NoInstance, conn |-> none]
            /\ HttpConnections(t)' = HttpConnections(t)
            /\ \A j : InBlock(t, j)' <=> InBlock(t, j) \/ j = NoInstance
            /\ \A j : Cardinality(Blocks(t, j)') =
                        Cardinality(Blocks(t, j)) + (IF j = NoInstance THEN 1 ELSE 0)
        BY <3>2, PushFacts
      <3> QED
        BY <1>1, <1>2, <3>3
    <2> QED
      BY <2>1, <2>2 DEF ReleaseReturns, ReleaseFails
  <1> HIDE DEF n
  <1>8. \A j \in Instance : /\ Busy(t, j)' <=> InBlock(t, j)
                            /\ ~Opening(t, j)' /\ ~Opening(t, j)
                            /\ Busy(t, j) <=> InBlock(t, j) \/ j = i
    BY <1>2, <1>4, <1>7, NoCallFacts DEF Busy, Opening
  <1>9. i \in Instance => Owns(i) /\ ~InBlock(t, i)
    BY <1>1, <1>2, <1>8 DEF Owns, UseInv
  <1>10. Scoped(t)' = {} /\ Scoped(t) \subseteq {c} /\ (i \notin Instance => c \in Scoped(t))
    BY <1>2, <1>4, <1>7 DEF Scoped, Returns
  <1>11. \A j \in Instance \ {i} : Owns(j) => sql[j].conn # c
    BY <1>2, <1>9, <1>10 DEF SqlInv, DistinctInv
  <1>12. TypeOK'
    BY <1>1, <1>4, <1>5, <1>6, <1>7 DEF TypeOK
  <1>13. Local(t)
    <2>1. \A u \in Task \ {t} : i \in Instance => ~Busy(u, i)
      BY <1>8 DEF SqlInv, OneUser
    <2>2. \A j \in Instance : sql'[j] = sql[j] \/ \A u \in Task \ {t} : ~Busy(u, j)
      BY <1>6, <2>1
    <2> QED
      BY <1>4, <1>7, <1>8, <2>2 DEF Local
  <1>14. PoolStep(t)
    <2>1. Has(t, c)
      BY <1>2, <1>8, <1>9, <1>10 DEF Has
    <2> QED
      BY <1>5, <2>1 DEF PoolStep
  <1>15. Owners(t)
    <2>1. \A j \in Instance : Owns(j)' => Owns(j) /\ sql'[j].conn = sql[j].conn
      BY <1>2, <1>6, <1>9 DEF Owns
    <2> QED
      BY <1>1, <1>10, <2>1 DEF Owners
  <1>16. Cares(t)
    <2>1. \A j \in Instance : sql'[j].conn \in {sql[j].conn, None}
      BY <1>2, <1>6
    <2>2. ASSUME NEW d \in live', d \notin live \/ Has(t, d)
          PROVE  Has(t, d)'
      <3>1. d # c /\ Has(t, d)
        BY <1>5, <2>2
      <3>2. PICK j \in Instance : Busy(t, j) /\ Owns(j) /\ sql[j].conn = d
        BY <1>10, <3>1 DEF Has
      <3>3. j # i
        BY <1>2, <3>1, <3>2
      <3>4. Busy(t, j)' /\ sql'[j] = sql[j]
        BY <1>6, <1>8, <3>2, <3>3
      <3> QED
        BY <3>2, <3>4 DEF Has, Owns
    <2>3. ASSUME NEW j \in Instance, ~Busy(t, j)', Busy(t, j) \/ sql'[j] # sql[j]
          PROVE  sql'[j].depth = 0 /\ sql'[j].borrowed = None /\ sql'[j].conn \notin live'
      <3>1. j = i
        BY <1>6, <1>8, <2>3
      <3>2. None \notin live' /\ c \notin live'
        BY <1>1, <1>5
      <3> QED
        BY <1>6, <3>1, <3>2
    <2> QED
      BY <2>1, <2>2, <2>3 DEF Cares
  <1>17. TaskInv(t)'
    <2>1. CallInv(t)'
      BY <1>4 DEF CallInv
    <2>2. ShapeInv(t)'
      <3>1. \A m \in 1 .. Len(stack'[t]) : \A k \in 1 .. m - 1 : stack'[t][k].kind = "own"
        BY <1>1, <1>3, <1>7
      <3> QED
        BY <1>2, <1>4, <3>1 DEF ShapeInv
    <2>3. FrameInv(t)'
      <3>1. ASSUME NEW m \in 1 .. n
            PROVE  /\ stack[t][m].inst \in Private[t] /\ stack[t][m].conn \in live'
                   /\ sql'[stack[t][m].inst].conn = stack[t][m].conn
                   /\ sql'[stack[t][m].inst].borrowed = None
        <4> DEFINE f == stack[t][m]
        <4>1. /\ f.inst \in Private[t] /\ f.conn \in live
              /\ sql[f.inst].conn = f.conn /\ sql[f.inst].borrowed = None
          BY <1>1, <1>3 DEF FrameInv, n
        <4>2. InBlock(t, f.inst)
          BY DEF InBlock, n
        <4> HIDE DEF f
        <4>3. f.inst \in Instance /\ f.inst # i /\ Owns(f.inst)
          BY <1>1, <1>9, <4>1, <4>2 DEF Owns
        <4> QED
          BY <1>5, <1>6, <1>11, <4>1, <4>3 DEF f
      <3>2. \A m \in 1 .. Len(stack'[t]) :
              m \in 1 .. n \/ (m = n + 1 /\ stack'[t][m].kind = "callbacks"
                                         /\ stack'[t][m].inst = NoInstance)
        BY <1>1, <1>7
      <3> QED
        BY <1>3, <1>7, <3>1, <3>2 DEF FrameInv
    <2>4. ASSUME NEW j \in Instance
          PROVE  UseInv(t, j)'
      <3>1. CASE ~InBlock(t, j)
        BY <1>8, <3>1 DEF UseInv
      <3>2. CASE InBlock(t, j)
        <4>1. sql'[j] = sql[j] /\ UseInv(t, j) /\ Busy(t, j)
          BY <1>1, <1>6, <1>8, <1>9, <3>2
        <4> QED
          BY <1>2, <1>7, <1>8, <4>1 DEF UseInv
      <3> QED
        BY <3>1, <3>2
    <2> QED
      BY <2>1, <2>2, <2>3, <2>4 DEF TaskInv
  <1>18. SqlInv'
    BY <1>13, <1>14, <1>15, <1>16, <1>17, StepKeeps
  <1> QED
    BY <1>12, <1>18

(***************************************************************************)
(* The theorems.                                                           *)
(***************************************************************************)

LEMMA SqlInit ==
  Init => TypeOK /\ SqlInv
  <1> SUFFICES ASSUME Init PROVE TypeOK /\ SqlInv
    OBVIOUS
  <1>1. /\ \A t \in Task : /\ pc[t] = "ready" /\ call[t] = NoCall /\ stack[t] = <<>>
                           /\ exc[t] = FALSE /\ steps[t] = 0
        /\ \A i \in Instance : sql[i] = Detached
        /\ live = {} /\ issued = 0
    BY DEF Init
  <1>2. Detached \in SQL /\ Detached.conn = 0 /\ Detached.borrowed = 0 /\ Detached.depth = 0
    BY DEF Detached, SQL
  <1>3. TypeOK
    <2>1. NoCall \in Call /\ <<>> \in Seq(Frame)
      BY NoCallFacts
    <2> QED
      BY <1>2, <2>1 DEF Init, TypeOK
  <1>4. ASSUME NEW t \in Task
        PROVE  /\ Len(stack[t]) = 0 /\ HttpConnections(t) = {} /\ Scoped(t) = {}
               /\ ~Inside(t, "callbacks")
               /\ \A i \in Instance : ~Busy(t, i)
    <2>1. Len(stack[t]) = 0 /\ ~Inside(t, "callbacks")
      BY <1>1 DEF Inside
    <2>2. HttpConnections(t) = {}
      BY <1>3, <2>1, StackFacts
    <2>3. Scoped(t) = {}
      BY <1>1, <2>2 DEF Scoped, Returns
    <2>4. \A i \in Instance : ~Busy(t, i)
      BY <1>1, <2>1, NoCallFacts DEF Busy, InBlock
    <2> QED
      BY <2>1, <2>2, <2>3, <2>4
  <1>5. \A t \in Task : TaskInv(t)
    BY <1>1, <1>4 DEF TaskInv, CallInv, ShapeInv, FrameInv, UseInv
  <1>6. \A i \in Instance : ~Owns(i)
    BY <1>1, <1>2 DEF Owns
  <1>7. OneUser /\ IdleInv
    BY <1>1, <1>2, <1>4 DEF OneUser, IdleInv
  <1>8. DistinctInv /\ NumberInv /\ HeldInv
    BY <1>1, <1>2, <1>4, <1>6 DEF DistinctInv, NumberInv, HeldInv
  <1> QED
    BY <1>3, <1>5, <1>7, <1>8 DEF SqlInv

LEMMA SqlNext ==
  TypeOK /\ SqlInv /\ [Next]_vars => TypeOK' /\ SqlInv'
  <1> SUFFICES ASSUME TypeOK, SqlInv, [Next]_vars PROVE TypeOK' /\ SqlInv'
    OBVIOUS
  <1>1. CASE UNCHANGED vars
    <2>1. UNCHANGED <<pc, call, stack, exc, steps, sql, live, issued>>
      BY <1>1 DEF vars, taskVars, poolVars
    <2> QED
      BY <2>1, SameKeeps DEF TypeOK
  <1>2. ASSUME NEW t \in Task, Operation(t)
        PROVE  TypeOK' /\ SqlInv'
    <2>1. CASE EnterHttp(t)
      BY <2>1, WaitKeeps
    <2>2. ASSUME NEW i \in Instance, Refused(t, i)
          PROVE  TypeOK' /\ SqlInv'
      BY <2>2, ExceptionKeeps
    <2>3. ASSUME NEW i \in Instance, Execute(t, i)
          PROVE  TypeOK' /\ SqlInv'
      BY <2>3, AwaitKeeps DEF Execute
    <2>4. ASSUME NEW i \in Instance, OpenBlock(t, i)
          PROVE  TypeOK' /\ SqlInv'
      <3>1. PICK c \in AtHand(t, i) :
              /\ Attach(t, i, c, "begin")
              /\ IF ScopeConnection(t) # {}
                   THEN Push(t, "joined", i, c) /\ UNCHANGED <<pc, call>>
                   ELSE /\ Goto(t, "await", [goal |-> "begin", inst |-> i, conn |-> c])
                        /\ UNCHANGED stack
        BY <2>4 DEF OpenBlock
      <3>2. Uses(t, i) /\ Step(t) /\ ~Refuses(t, i) /\ UNCHANGED <<exc, poolVars>>
        BY <2>4 DEF OpenBlock
      <3>3. CASE ScopeConnection(t) # {}
        BY <3>1, <3>2, <3>3, JoinKeeps
      <3>4. CASE ScopeConnection(t) = {}
        BY <3>1, <3>2, <3>4, AwaitKeeps
      <3> QED
        BY <3>3, <3>4
    <2>5. ASSUME NEW i \in Instance, NEW goal \in {"statement", "begin"}, WaitForPool(t, i, goal)
          PROVE  TypeOK' /\ SqlInv'
      BY <2>5, WaitKeeps
    <2> QED
      BY <1>2, <2>1, <2>2, <2>3, <2>4, <2>5 DEF Operation
  <1>3. ASSUME NEW t \in Task, Progress(t)
        PROVE  TypeOK' /\ SqlInv'
    <2>1. CASE Acquired(t)
      <3>1. CASE call[t].goal = "http"
        BY <2>1, <3>1, AcquiredHttpKeeps
      <3>2. CASE call[t].goal # "http"
        BY <2>1, <3>2, AcquiredInstanceKeeps
      <3> QED
        BY <3>1, <3>2
    <2>2. CASE StatementEnds(t) \/ BeginFails(t)
      BY <2>2, CallEndsKeeps
    <2>3. CASE BeginReturns(t)
      BY <2>3, BeginReturnsKeeps
    <2>4. CASE BlockEnds(t) \/ LeaveJoined(t)
      BY <2>4, LeaveBlockKeeps
    <2>5. CASE LeaveOwn(t)
      BY <2>5, LeaveOwnKeeps
    <2>6. CASE LeaveHttp(t) \/ CallbacksEnd(t)
      BY <2>6, LeaveHttpKeeps
    <2>7. CASE ReleaseReturns(t)
      BY <2>7, ReturnKeeps
    <2> QED
      BY <1>3, <2>1, <2>2, <2>3, <2>4, <2>5, <2>6, <2>7 DEF Progress
  <1>4. ASSUME NEW t \in Task, AcquireFails(t) \/ ReleaseFails(t) \/ Catch(t)
        PROVE  TypeOK' /\ SqlInv'
    BY <1>4, AcquireFailsKeeps, ReturnKeeps, ExceptionKeeps
  <1> QED
    BY <1>1, <1>2, <1>3, <1>4 DEF Next, Finished

\* The inductive invariant holds in every state, for every set of tasks and instances:
\* sql/__init__.py keeps each instance and the pool of one mind about its connection.
THEOREM SqlInvariant == Spec => [](TypeOK /\ SqlInv)
  <1> QED
    BY SqlInit, SqlNext, PTL DEF Spec

\* A connection of the stack, seen as the properties see it.
LEMMA FramesFacts ==
  ASSUME TypeOK, NEW t \in Task
  PROVE  /\ \A kind : \A f \in Frames(t, kind) :
              f.kind = kind /\ \E n \in 1 .. Len(stack[t]) : f = stack[t][n]
         /\ \A n \in 1 .. Len(stack[t]) : stack[t][n] \in ToSet(stack[t])
         /\ \A i : Busy(t, i) <=> call[t].inst = i \/ \E f \in ToSet(stack[t]) : f.inst = i
  <1>1. DOMAIN stack[t] = 1 .. Len(stack[t])
    BY DEF TypeOK
  <1> QED
    BY <1>1 DEF Frames, ToSet, Busy, InBlock

\* get_connection (sql/__init__.py): a call in an HTTP transaction is on the
\* transaction's connection; child tasks and post-commit callbacks make none.
THEOREM ScopedStaysHomeHolds == Spec => []ScopedStaysHome
  <1>1. TypeOK /\ SqlInv => ScopedStaysHome
    <2> SUFFICES ASSUME TypeOK, SqlInv, NEW t \in Task, pc[t] = "await"
                 PROVE  /\ t \notin Child /\ ~Inside(t, "callbacks")
                        /\ HttpConnections(t) # {} => call[t].conn \in HttpConnections(t)
      BY DEF ScopedStaysHome
    <2>1. CallInv(t) /\ ShapeInv(t) /\ \A i \in Instance : UseInv(t, i)
      BY TaskFacts
    <2>2. Busy(t, call[t].inst) /\ call[t].inst \in Instance
      BY <2>1 DEF CallInv, Busy
    <2>3. HttpConnections(t) # {} => call[t].conn \in HttpConnections(t)
      BY <2>1, <2>2 DEF CallInv, UseInv
    <2> QED
      BY <2>1, <2>3 DEF ShapeInv
  <1> QED
    BY <1>1, SqlInvariant, PTL

\* No two tasks await a call on one connection that is lent, whatever instances they
\* share: an instance has one user, and a connection one owner.
THEOREM SequentialUseHolds == Spec => []SequentialUse
  <1>1. TypeOK /\ SqlInv => SequentialUse
    <2> SUFFICES ASSUME TypeOK, SqlInv, NEW t \in Task, NEW u \in Task \ {t},
                        pc[t] = "await", pc[u] = "await"
                 PROVE  call[t].conn # call[u].conn
      BY DEF SequentialUse
    <2>1. ASSUME NEW v \in Task, pc[v] = "await"
          PROVE  /\ call[v].inst \in Instance /\ Busy(v, call[v].inst)
                 /\ sql[call[v].inst].conn = call[v].conn
                 /\ Owns(call[v].inst) \/ call[v].conn \in Scoped(v)
      <3>1. CallInv(v) /\ \A i \in Instance : UseInv(v, i)
        BY TaskFacts
      <3>2. call[v].inst \in Instance /\ Busy(v, call[v].inst)
        BY <2>1, <3>1 DEF CallInv, Busy
      <3>3. sql[call[v].inst].conn = call[v].conn /\ call[v].conn # None
        BY <2>1, <3>1 DEF CallInv
      <3>4. sql[call[v].inst].borrowed # None => call[v].conn \in HttpConnections(v)
        BY <3>1, <3>2, <3>3 DEF UseInv
      <3> QED
        BY <3>2, <3>3, <3>4 DEF Owns, Scoped
    <2>2. call[t].inst # call[u].inst
      BY <2>1 DEF SqlInv, OneUser
    <2> QED
      BY <2>1, <2>2 DEF SqlInv, DistinctInv
  <1> QED
    BY <1>1, SqlInvariant, PTL

\* release detaches from a borrowed connection and never returns it: the owner has it
\* until http_transaction ends.
THEOREM OwnerKeepsConnectionHolds == Spec => []OwnerKeepsConnection
  <1>1. TypeOK /\ SqlInv => OwnerKeepsConnection
    BY HttpFacts DEF OwnerKeepsConnection
  <1> QED
    BY <1>1, SqlInvariant, PTL

\* SQL.transaction() keeps one connection from its beginning to its end, and the
\* instance knows that it is in a block.
THEOREM BlockKeepsConnectionHolds == Spec => []BlockKeepsConnection
  <1>1. TypeOK /\ SqlInv => BlockKeepsConnection
    <2> SUFFICES ASSUME TypeOK, SqlInv, NEW t \in Task,
                        NEW f \in Frames(t, "own") \cup Frames(t, "joined")
                 PROVE  f.conn \in live /\ sql[f.inst].conn = f.conn /\ sql[f.inst].depth > 0
      BY DEF BlockKeepsConnection
    <2>1. PICK n \in 1 .. Len(stack[t]) : f = stack[t][n] /\ f.kind \in {"own", "joined"}
      BY FramesFacts
    <2>2. FrameInv(t) /\ \A i \in Instance : UseInv(t, i)
      BY TaskFacts
    <2>3. /\ f.inst \in Instance /\ sql[f.inst].conn = f.conn
          /\ f.conn \in live \/ f.conn \in HttpConnections(t)
      BY <2>1, <2>2, PrivateFacts DEF FrameInv
    <2>4. f.conn \in live
      BY <2>3, HttpFacts
    <2>5. InBlock(t, f.inst) /\ Busy(t, f.inst)
      BY <2>1 DEF InBlock, Busy
    <2>6. Cardinality(Blocks(t, f.inst)) \in Nat /\ Cardinality(Blocks(t, f.inst)) > 0
      BY <2>5, StackFacts
    <2>7. sql[f.inst].depth =
            Cardinality(Blocks(t, f.inst)) + (IF Opening(t, f.inst) THEN 1 ELSE 0)
      BY <2>2, <2>3, <2>5 DEF UseInv
    <2> QED
      BY <2>3, <2>4, <2>6, <2>7
  <1> QED
    BY <1>1, SqlInvariant, PTL

\* Instances and pool agree at every await, on every path of failure: what the pool
\* has lent is held by somebody who will return it, and an instance that nobody uses
\* has left every block and scope.
THEOREM InstancesSoundHolds == Spec => []InstancesSound
  <1>1. TypeOK /\ SqlInv => InstancesSound
    <2> SUFFICES ASSUME TypeOK, SqlInv PROVE NothingLost /\ IdleInstanceIsClean
      BY DEF InstancesSound
    <2>1. \A i \in Instance : InUse(i) <=> \E t \in Task : Busy(t, i)
      BY FramesFacts DEF InUse
    <2>2. NothingLost
      <3> SUFFICES ASSUME NEW c \in live
                   PROVE  \/ \E i \in Instance : InUse(i) /\ c = sql[i].conn
                          \/ \E t \in Task : c \in HttpConnections(t) \cup {call[t].conn}
        BY DEF NothingLost
      <3>1. CASE \E t \in Task : c \in Scoped(t)
        BY <3>1 DEF Scoped
      <3>2. CASE \E t \in Task : \E i \in Instance : Busy(t, i) /\ Owns(i) /\ sql[i].conn = c
        BY <2>1, <3>2
      <3> QED
        BY <3>1, <3>2 DEF SqlInv, HeldInv
    <2>3. IdleInstanceIsClean
      BY <2>1 DEF IdleInstanceIsClean, SqlInv, IdleInv
    <2> QED
      BY <2>2, <2>3
  <1> QED
    BY <1>1, SqlInvariant, PTL

================================================================================
