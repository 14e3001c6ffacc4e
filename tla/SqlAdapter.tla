------------------------------ MODULE SqlAdapter ------------------------------
(***************************************************************************)
(* The connection that an SQL instance of aiohttp_boilerplate/sql caches:  *)
(* get_connection, execute, transaction and release, for tasks with and    *)
(* without an HTTP transaction.                                            *)
(*                                                                         *)
(* An instance used in an HTTP transaction borrows the owner's connection  *)
(* and detaches from it; elsewhere it takes one from the pool and returns  *)
(* it, at once or at the end of its outermost transaction().  As in        *)
(* HttpTransaction a step runs from one await to the next.  What COMMIT    *)
(* and ROLLBACK do to the data is that module's subject, where a           *)
(* connection goes is this one's.                                          *)
(*                                                                         *)
(* A connection is the proxy that pool.acquire returned, a fresh number:   *)
(* a proxy that went back is dead, whoever still holds it (asyncpg,        *)
(* external).                                                              *)
(***************************************************************************)
EXTENDS Naturals, Sequences, SequencesExt, FiniteSets

CONSTANTS
  Task,        \* asyncio tasks
  Child,       \* those that inherited the scope of another task
  Parent,      \* that other task
  Nested,      \* tasks that may open an HTTP transaction in an SQL transaction
  Instance,    \* SQL instances
  Private,     \* the instances that a task made for itself
  Shared,      \* models made before the requests, for use in HTTP transactions
  NoInstance,  \* no instance: the connection is http_transaction's own
  PoolSize,    \* connections of the pool
  Budget       \* bound: operations per task

ASSUME ConstantsAssumption ==
  /\ Child \subseteq Task /\ Nested \subseteq Task \ Child
  /\ Parent \in [Child -> Task \ Child]
  /\ Private \in [Task -> SUBSET Instance] /\ Shared \subseteq Instance
  /\ \A t, u \in Task : t # u => Private[t] \cap Private[u] = {}
  /\ \A t \in Task : Private[t] \cap Shared = {}
  /\ NoInstance \notin Instance
  /\ PoolSize \in Nat \ {0}
  /\ Budget \in [Task -> Nat]

VARIABLES
  pc,      \* "ready", or what the task awaits: the pool or a call
  call,    \* the call a task awaits: its goal, instance and connection
  stack,   \* the transactions a task is inside of, innermost last
  exc,     \* is an exception propagating in the task
  steps,   \* operations the task began (bounded by Budget)
  sql,     \* the fields _conn, _borrowed_scope and _transaction_depth
  live,    \* connections that the pool has lent
  issued   \* how many it ever lent: the last one's number

taskVars == <<pc, call, stack, exc, steps>>
poolVars == <<live, issued>>
vars == <<taskVars, sql, poolVars>>

None == 0
Goal == {"none", "statement", "begin", "end", "release", "http"}
Call == [goal : Goal, inst : Instance \cup {NoInstance}, conn : Nat]
\* "joined" and "own" are SQL.transaction() with and without an HTTP scope.
Frame == [kind : {"joined", "own", "http", "callbacks"},
          inst : Instance \cup {NoInstance}, conn : Nat]
SQL == [conn : Nat, borrowed : Nat, depth : Nat]

Detached == [conn |-> None, borrowed |-> None, depth |-> 0]
NoCall == [goal |-> "none", inst |-> NoInstance, conn |-> None]

Init ==
  /\ pc = [t \in Task |-> "ready"]
  /\ call = [t \in Task |-> NoCall]
  /\ stack = [t \in Task |-> <<>>]
  /\ exc = [t \in Task |-> FALSE]
  /\ steps = [t \in Task |-> 0]
  /\ sql = [i \in Instance |-> Detached]
  /\ live = {}
  /\ issued = 0

--------------------------------------------------------------------------------
(* What a task sees.                                                       *)

Inside(t, kind) == stack[t] # <<>> /\ Last(stack[t]).kind = kind
Frames(t, kind) == {f \in ToSet(stack[t]) : f.kind = kind}
HttpConnections(t) == {f.conn : f \in Frames(t, "http")}

\* The connection of the active scope in the task's context, if there is one.
ScopeConnection(t) == HttpConnections(IF t \in Child THEN Parent[t] ELSE t)

\* Mutant of CurrentScopeRaises: the lifecycle is not compared.
CurrentScopeRaises_AnyLifecycle(t) == t \in Child

\* Mutant of CurrentScopeRaises: the task is not compared.
CurrentScopeRaises_AnyTask(t) ==
  Inside(t, "callbacks") \/ (t \in Child /\ ScopeConnection(t) = {})

\* current_scope: the context holds a scope that is over, or another task's.
CurrentScopeRaises(t) == Inside(t, "callbacks") \/ t \in Child

\* Mutant of Refuses: a cached connection may differ from the scope's.
Refuses_NoConflict(t, i) ==
  \/ CurrentScopeRaises(t)
  \/ sql[i].borrowed \notin {None} \cup ScopeConnection(t)

\* get_connection raises: the instance holds another scope's connection, or
\* one that is not the scope's.
Refuses(t, i) ==
  \/ CurrentScopeRaises(t)
  \/ sql[i].borrowed \notin {None} \cup ScopeConnection(t)
  \/ ScopeConnection(t) # {} /\ sql[i].conn \notin {None} \cup ScopeConnection(t)

\* The connection that get_connection has at hand: the scope's, or the cached.
AtHand(t, i) ==
  IF ScopeConnection(t) # {} THEN ScopeConnection(t) ELSE {sql[i].conn} \ {None}

Uses(t, i) ==
  \/ i \in Private[t]
  \/ i \in Shared /\ (ScopeConnection(t) # {} \/ CurrentScopeRaises(t))

--------------------------------------------------------------------------------
(* Steps of a task.                                                        *)

Goto(t, label, c) ==
  pc' = [pc EXCEPT ![t] = label] /\ call' = [call EXCEPT ![t] = c]
Ready(t) == pc[t] = "ready"
Step(t) ==
  /\ Ready(t) /\ ~exc[t] /\ steps[t] < Budget[t]
  /\ steps' = [steps EXCEPT ![t] = @ + 1]
Push(t, kind, i, c) ==
  stack' = [stack EXCEPT ![t] = Append(@, [kind |-> kind, inst |-> i, conn |-> c])]
Pop(t) == stack' = [stack EXCEPT ![t] = Front(@)]
Awaits(t, goals) == pc[t] = "await" /\ call[t].goal \in goals

\* get_connection, when it raises: before the try of its callers.
Refused(t, i) ==
  /\ Uses(t, i) /\ Step(t) /\ Refuses(t, i)
  /\ exc' = [exc EXCEPT ![t] = TRUE]
  /\ UNCHANGED <<pc, call, stack, sql, poolVars>>

\* get_connection, when the pool has to lend a connection first.
WaitForPool(t, i, goal) ==
  /\ Uses(t, i) /\ Step(t) /\ ~Refuses(t, i) /\ AtHand(t, i) = {}
  /\ Goto(t, "acquire", [goal |-> goal, inst |-> i, conn |-> None])
  /\ UNCHANGED <<stack, exc, sql, poolVars>>

\* transaction() counts itself once it has a connection, before BEGIN.
DepthAfter(i, goal) == IF goal = "begin" THEN sql[i].depth + 1 ELSE sql[i].depth

\* The instance now has connection c, borrowed when there is a scope.
Attach(t, i, c, goal) ==
  sql' = [sql EXCEPT ![i] =
    [conn |-> c, borrowed |-> IF ScopeConnection(t) = {} THEN None ELSE c,
     depth |-> DepthAfter(i, goal)]]

\* execute and select, with a connection at hand.
Execute(t, i) ==
  /\ Uses(t, i) /\ Step(t) /\ ~Refuses(t, i)
  /\ \E c \in AtHand(t, i) :
       /\ Attach(t, i, c, "statement")
       /\ Goto(t, "await", [goal |-> "statement", inst |-> i, conn |-> c])
  /\ UNCHANGED <<stack, exc, poolVars>>

\* transaction(), with a connection at hand: joined, or BEGIN (or a savepoint).
OpenBlock(t, i) ==
  /\ Uses(t, i) /\ Step(t) /\ ~Refuses(t, i)
  /\ \E c \in AtHand(t, i) :
       /\ Attach(t, i, c, "begin")
       /\ IF ScopeConnection(t) # {}
            THEN Push(t, "joined", i, c) /\ UNCHANGED <<pc, call>>
            ELSE /\ Goto(t, "await", [goal |-> "begin", inst |-> i, conn |-> c])
                 /\ UNCHANGED stack
  /\ UNCHANGED <<exc, poolVars>>

\* http_transaction of a task without a scope.
EnterHttp(t) ==
  /\ Step(t) /\ ~CurrentScopeRaises(t) /\ ScopeConnection(t) = {}
  /\ stack[t] = <<>> \/ t \in Nested
  /\ Goto(t, "acquire", [NoCall EXCEPT !.goal = "http"])
  /\ UNCHANGED <<stack, exc, sql, poolVars>>

\* pool.acquire returns a connection.
Acquired(t) ==
  /\ pc[t] = "acquire" /\ Cardinality(live) < PoolSize
  /\ issued' = issued + 1 /\ live' = live \cup {issued'}
  /\ IF call[t].goal = "http"
       THEN /\ Push(t, "http", NoInstance, issued')
            /\ Goto(t, "ready", NoCall) /\ UNCHANGED sql
       ELSE /\ Attach(t, call[t].inst, issued', call[t].goal)
            /\ Goto(t, "await", [call[t] EXCEPT !.conn = issued']) /\ UNCHANGED stack
  /\ UNCHANGED <<exc, steps>>

\* pool.acquire raises, or the task is cancelled in the pool's queue.
AcquireFails(t) ==
  /\ pc[t] = "acquire"
  /\ exc' = [exc EXCEPT ![t] = TRUE] /\ Goto(t, "ready", NoCall)
  /\ UNCHANGED <<stack, steps, sql, poolVars>>

\* Mutant of Release: the depth is not tested.
Release_AnyDepth(t, i, depth) ==
  IF sql[i].borrowed # None
    THEN sql' = [sql EXCEPT ![i] = [Detached EXCEPT !.depth = depth]] /\ Goto(t, "ready", NoCall)
    ELSE /\ sql' = [sql EXCEPT ![i].depth = depth]
         /\ Goto(t, "release", [goal |-> "release", inst |-> i, conn |-> sql[i].conn])

\* Mutant of Release: an owned connection is let go as a borrowed one is.
Release_Detaches(t, i, depth) ==
  /\ sql' = [sql EXCEPT ![i] = IF depth = 0 THEN Detached ELSE [@ EXCEPT !.depth = depth]]
  /\ Goto(t, "ready", NoCall)

\* Mutant of Release: a borrowed connection is returned as an owned one is.
Release_Borrowed(t, i, depth) ==
  /\ sql' = [sql EXCEPT ![i].depth = depth]
  /\ IF depth > 0
       THEN Goto(t, "ready", NoCall)
       ELSE Goto(t, "release", [goal |-> "release", inst |-> i, conn |-> sql[i].conn])

\* release, after the depth became what it is: nothing inside a transaction(),
\* detach from a borrowed connection, await the pool for an owned one.  (The
\* scope is that of the get_connection before: the getter cannot raise.)
Release(t, i, depth) ==
  IF depth = 0 /\ sql[i].borrowed # None
    THEN sql' = [sql EXCEPT ![i] = Detached] /\ Goto(t, "ready", NoCall)
    ELSE /\ sql' = [sql EXCEPT ![i].depth = depth]
         /\ IF depth > 0
              THEN Goto(t, "ready", NoCall)
              ELSE Goto(t, "release", [goal |-> "release", inst |-> i, conn |-> sql[i].conn])

\* A call succeeds only on a connection that did not go back to the pool.
Outcome(t) ==
  \/ call[t].conn \in live /\ UNCHANGED exc
  \/ exc' = [exc EXCEPT ![t] = TRUE]

\* The statement of execute or select is answered, fails or is cancelled.
StatementEnds(t) ==
  /\ Awaits(t, {"statement"}) /\ Outcome(t)
  /\ Release(t, call[t].inst, sql[call[t].inst].depth)
  /\ UNCHANGED <<stack, steps, poolVars>>

\* BEGIN is answered: the block is open.
BeginReturns(t) ==
  /\ Awaits(t, {"begin"}) /\ call[t].conn \in live
  /\ Push(t, "own", call[t].inst, call[t].conn) /\ Goto(t, "ready", NoCall)
  /\ UNCHANGED <<exc, steps, sql, poolVars>>

\* Mutant of BeginFails: the finally does not cover BEGIN.
BeginFails_NoFinally(t) ==
  /\ Awaits(t, {"begin"})
  /\ exc' = [exc EXCEPT ![t] = TRUE] /\ Goto(t, "ready", NoCall)
  /\ UNCHANGED <<stack, steps, sql, poolVars>>

\* BEGIN fails: the finally of transaction().
BeginFails(t) ==
  /\ Awaits(t, {"begin"})
  /\ exc' = [exc EXCEPT ![t] = TRUE]
  /\ Release(t, call[t].inst, sql[call[t].inst].depth - 1)
  /\ UNCHANGED <<stack, steps, poolVars>>

\* A joined block ends: its finally.
LeaveJoined(t) ==
  /\ Ready(t) /\ Inside(t, "joined")
  /\ Pop(t)
  /\ LET i == Last(stack[t]).inst IN Release(t, i, sql[i].depth - 1)
  /\ UNCHANGED <<exc, steps, poolVars>>

\* A standalone block ends: COMMIT or ROLLBACK (or its savepoint's) is sent.
LeaveOwn(t) ==
  /\ Ready(t) /\ Inside(t, "own")
  /\ Goto(t, "await", [goal |-> "end", inst |-> Last(stack[t]).inst,
                       conn |-> Last(stack[t]).conn])
  /\ UNCHANGED <<stack, exc, steps, sql, poolVars>>

\* It is answered, fails or is cancelled: the finally of transaction().
BlockEnds(t) ==
  /\ Awaits(t, {"end"}) /\ Outcome(t)
  /\ Pop(t)
  /\ Release(t, call[t].inst, sql[call[t].inst].depth - 1)
  /\ UNCHANGED <<steps, poolVars>>

\* http_transaction ends: the scope is over, then the connection goes back.
LeaveHttp(t) ==
  /\ Ready(t) /\ Inside(t, "http")
  /\ Pop(t)
  /\ Goto(t, "release", [goal |-> "http", inst |-> NoInstance, conn |-> Last(stack[t]).conn])
  /\ UNCHANGED <<exc, steps, sql, poolVars>>

\* self.conn = None after the await of pool.release.
Forget(t) ==
  IF call[t].goal = "http" THEN UNCHANGED sql
  ELSE sql' = [sql EXCEPT ![call[t].inst].conn = None]

\* pool.release returns, at once when the connection is dead.  The callbacks of
\* a transaction that was committed follow.
ReleaseReturns(t) ==
  /\ pc[t] = "release"
  /\ live' = live \ {call[t].conn}
  /\ Forget(t) /\ Goto(t, "ready", NoCall)
  /\ \/ UNCHANGED stack
     \/ call[t].goal = "http" /\ ~exc[t] /\ Push(t, "callbacks", NoInstance, None)
  /\ UNCHANGED <<exc, steps, issued>>

\* pool.release raises or is cancelled.  The pool detached the connection first
\* and completes the return itself; the instance still holds it.
ReleaseFails(t) ==
  /\ pc[t] = "release" /\ call[t].conn \in live
  /\ live' = live \ {call[t].conn}
  /\ exc' = [exc EXCEPT ![t] = TRUE] /\ Goto(t, "ready", NoCall)
  /\ UNCHANGED <<stack, steps, sql, issued>>

\* The callbacks have run; what they raised was logged.
CallbacksEnd(t) ==
  /\ Ready(t) /\ Inside(t, "callbacks")
  /\ Pop(t) /\ exc' = [exc EXCEPT ![t] = FALSE]
  /\ UNCHANGED <<pc, call, steps, sql, poolVars>>

\* The application catches an exception.
Catch(t) ==
  /\ Ready(t) /\ exc[t]
  /\ exc' = [exc EXCEPT ![t] = FALSE]
  /\ UNCHANGED <<pc, call, stack, steps, sql, poolVars>>

--------------------------------------------------------------------------------
Operation(t) ==
  \/ EnterHttp(t)
  \/ \E i \in Instance :
       \/ Refused(t, i) \/ Execute(t, i) \/ OpenBlock(t, i)
       \/ \E goal \in {"statement", "begin"} : WaitForPool(t, i, goal)

\* What a task does of itself once it has begun an operation.
Progress(t) ==
  \/ Acquired(t) \/ StatementEnds(t) \/ BeginReturns(t) \/ BeginFails(t) \/ BlockEnds(t)
  \/ LeaveJoined(t) \/ LeaveOwn(t) \/ LeaveHttp(t) \/ ReleaseReturns(t) \/ CallbacksEnd(t)

Idle(t) == Ready(t) /\ stack[t] = <<>> /\ ~exc[t]
Finished == (\A t \in Task : Idle(t) /\ steps[t] = Budget[t]) /\ UNCHANGED vars

Next ==
  \/ \E t \in Task :
       Operation(t) \/ Progress(t) \/ AcquireFails(t) \/ ReleaseFails(t) \/ Catch(t)
  \/ Finished

Spec == Init /\ [][Next]_vars

\* Every await is answered and every block is left; nobody owes an operation,
\* a failure of the pool or a handler of exceptions.
Fairness == \A t \in Task : WF_vars(Progress(t))
FairSpec == Spec /\ Fairness

--------------------------------------------------------------------------------
(* Properties.                                                             *)

TypeOK ==
  /\ pc \in [Task -> {"ready", "acquire", "await", "release"}]
  /\ call \in [Task -> Call]
  /\ stack \in [Task -> Seq(Frame)]
  /\ exc \in [Task -> BOOLEAN]
  /\ steps \in [Task -> Nat]
  /\ sql \in [Instance -> SQL]
  /\ live \in SUBSET Nat
  /\ issued \in Nat

\* A call in an HTTP transaction runs on that transaction's connection, also
\* of an instance whose own SQL.transaction() is open around it; child tasks and
\* callbacks make no call at all.
ScopedStaysHome ==
  \A t \in Task : pc[t] = "await" =>
    /\ t \notin Child /\ ~Inside(t, "callbacks")
    /\ HttpConnections(t) # {} => call[t].conn \in HttpConnections(t)

\* asyncpg allows one call at a time on a connection: no two tasks await one on
\* the same, whatever instances they share.
SequentialUse ==
  \A t, u \in Task :
    pc[t] = "await" /\ pc[u] = "await" /\ call[t].conn \in live
      => t = u \/ call[t].conn # call[u].conn

\* Borrowers detach and never release the owner's connection: the owner has it
\* until it ends the transaction itself.
OwnerKeepsConnection == \A t \in Task : HttpConnections(t) \subseteq live

\* SQL.transaction() keeps one connection from its beginning to its end, whatever
\* its body and the other users of the instance do.
BlockKeepsConnection ==
  \A t \in Task : \A f \in Frames(t, "own") \cup Frames(t, "joined") :
    f.conn \in live /\ sql[f.inst].conn = f.conn /\ sql[f.inst].depth > 0

InUse(i) ==
  \E t \in Task : call[t].inst = i \/ \E f \in ToSet(stack[t]) : f.inst = i

\* No connection is lost: whatever the pool has lent is held by an instance in
\* use, by an HTTP transaction or by the call that returns it.
NothingLost ==
  live \subseteq
    {sql[i].conn : i \in {j \in Instance : InUse(j)}} \cup
    UNION {HttpConnections(t) \cup {call[t].conn} : t \in Task}

\* An instance that nobody is using has left every transaction and scope, and
\* is free to be used in another.
IdleInstanceIsClean ==
  \A i \in Instance : ~InUse(i) => sql[i].depth = 0 /\ sql[i].borrowed = None

\* Instances and pool agree about the connections at every await, on every path of
\* failure through release and the blocks.
InstancesSound == TypeOK /\ NothingLost /\ IdleInstanceIsClean

\* Every connection that was lent is returned for good in the end: a task that
\* holds one needs no other.
ConnectionsReturn == <>[](live = {})

\* docs/migration-0.11.md says that model and SQL operations in an HTTP
\* transaction borrow its connection, including models created before the
\* request: an instance that nobody is using is not refused there.  Not so once
\* a release of it failed: it still holds the dead connection.
PrecreatedModelsBorrow ==
  \A t \in Task, i \in Instance :
    Uses(t, i) /\ t \notin Child /\ HttpConnections(t) # {} /\ ~InUse(i) => ~Refuses(t, i)

================================================================================
