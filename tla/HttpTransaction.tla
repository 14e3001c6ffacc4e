---------------------------- MODULE HttpTransaction ----------------------------
(***************************************************************************)
(* The whole-request database transaction of                               *)
(* aiohttp_boilerplate/transactions.py: http_transaction and what a        *)
(* request handler, a child task of it and an on_commit callback may do    *)
(* with the request's TransactionScope.                                    *)
(*                                                                         *)
(* A step is the code that runs from the resumption of one await to the    *)
(* next: asyncio switches tasks nowhere else.  Every await on the database *)
(* or on the pool is a place where the owner is suspended (pc), where      *)
(* child tasks of the request run, and where a failure or a cancellation   *)
(* may be what the await returns.                                          *)
(*                                                                         *)
(* The asyncpg pool and the server are external: a connection's session    *)
(* is idle, in an open transaction, in an aborted one, or "indoubt" (the   *)
(* client gave up waiting for the answer to COMMIT).                       *)
(***************************************************************************)
EXTENDS Naturals, Sequences, SequencesExt

CONSTANTS
  Request,        \* requests that reach the transaction boundary
  Connection,     \* connections of the application pool
  NoRequest,      \* holder of a connection that is in the pool
  NoConnection,   \* connection of a request that has no scope yet
  Budget          \* bound: operations that each request's handler performs

ASSUME ConstantsAssumption ==
  /\ NoRequest \notin Request
  /\ NoConnection \notin Connection
  /\ Budget \in [Request -> Nat]

VARIABLES
  pc,         \* where the owner task of a request is suspended or running
  scope,      \* the TransactionScope of a request
  committed,  \* the owner's local variable of that name
  exc,        \* the exception that the handler's code is propagating
  stack,      \* the context managers the handler is inside of, innermost last
  steps,      \* operations performed by the handler (bounded by Budget)
  child,      \* has the handler spawned a child task
  cursor,     \* how many callbacks have been called
  reply,      \* what http_transaction gave to its caller
  sent,       \* has a task of the request prepared a response itself
  session,    \* the pool's and the server's state of a connection
  durable,    \* the writes that PostgreSQL has committed
  published,  \* the writes that a callback has announced
  work,       \* history: the writes the handler counts on
  torn        \* history: the writes of joined commands that failed

ownerVars   == <<pc, committed, cursor, reply>>
handlerVars == <<exc, stack, steps, child>>
dbVars      == <<session, durable>>
historyVars == <<work, torn>>
vars == <<ownerVars, handlerVars, dbVars, historyVars, scope, sent, published>>

\* A write is named by its request and the operation that made it.
Write == Request \X Nat
Writes(r) == {r} \X (1 .. Budget[r])

Label == {"acquire", "start", "handler", "probe", "commit", "rollback",
          "release", "callbacks", "done"}
Lifecycle == {"none", "active", "finishing", "expired", "callbacks"}
TransactionScope ==
  [conn : Connection \cup {NoConnection}, lifecycle : Lifecycle,
   rollbackOnly : BOOLEAN, violation : BOOLEAN, callbacks : Seq(Write)]

\* A frame remembers what its context manager saved (flag, mark), the server's
\* savepoint (pending) and, for the history variables, the work at its entry.
Joined == {"command", "view"}
Frame ==
  [kind : Joined \cup {"savepoint"}, flag : BOOLEAN, mark : Nat,
   pending : SUBSET Write, work : SUBSET Write]

Session ==
  [holder : Request \cup {NoRequest}, state : {"free", "held", "returning"},
   tx : {"idle", "open", "aborted", "indoubt"}, pending : SUBSET Write]

FreeSession ==
  [holder |-> NoRequest, state |-> "free", tx |-> "idle", pending |-> {}]

Init ==
  /\ pc = [r \in Request |-> "acquire"]
  /\ scope = [r \in Request |->
                [conn |-> NoConnection, lifecycle |-> "none", rollbackOnly |-> FALSE,
                 violation |-> FALSE, callbacks |-> <<>>]]
  /\ committed = [r \in Request |-> FALSE]
  /\ exc = [r \in Request |-> "none"]
  /\ stack = [r \in Request |-> <<>>]
  /\ steps = [r \in Request |-> 0]
  /\ child = [r \in Request |-> FALSE]
  /\ cursor = [r \in Request |-> 0]
  /\ reply = [r \in Request |-> "none"]
  /\ sent = [r \in Request |-> FALSE]
  /\ session = [c \in Connection |-> FreeSession]
  /\ durable = {}
  /\ published = {}
  /\ work = [r \in Request |-> {}]
  /\ torn = {}

--------------------------------------------------------------------------------
(* Helpers.                                                                *)

Sess(r) == session[scope[r].conn]
SetSession(r, s) == session' = [session EXCEPT ![scope[r].conn] = s]
InTransaction(r) == Sess(r).tx \in {"open", "aborted"}

\* Code of this role is running: the handler's own, a callback's, or that of a
\* child task, which inherits the scope and may outlive the request.
Running(r, role) ==
  IF role = "child"
    THEN child[r]
    ELSE \/ pc[r] = "handler" /\ exc[r] = "none"
         \/ pc[r] = "callbacks" /\ cursor[r] < Len(scope[r].callbacks)

\* Mutant of CurrentScope: the task is not compared.
CurrentScope_AnyTask(r, role) == scope[r].lifecycle = "active"

\* Mutant of CurrentScope: the lifecycle is not compared.
CurrentScope_AnyLifecycle(r, role) == role = "owner"

\* current_scope: the scope is usable by this task, here and now.
CurrentScope(r, role) == scope[r].lifecycle = "active" /\ role = "owner"

\* Mutant of Protected: preparation is allowed while COMMIT is in flight.
Protected_ActiveOnly(r) == scope[r].lifecycle = "active"

\* _protect_preparation raises.
Protected(r) == scope[r].lifecycle \in {"active", "finishing"}

InHandler(r) == pc[r] = "handler" /\ Running(r, "owner") /\ CurrentScope(r, "owner")
Step(r) == steps[r] < Budget[r] /\ steps' = [steps EXCEPT ![r] = @ + 1]

Top(r) == Last(stack[r])
Inside(r, kinds) == stack[r] # <<>> /\ Top(r).kind \in kinds
Push(r, kind) ==
  stack' = [stack EXCEPT ![r] =
    Append(@, [kind |-> kind, flag |-> scope[r].rollbackOnly,
               mark |-> Len(scope[r].callbacks),
               pending |-> Sess(r).pending, work |-> work[r]])]
Pop(r) == stack' = [stack EXCEPT ![r] = Front(@)]

RollbackOnly(r) == scope' = [scope EXCEPT ![r].rollbackOnly = TRUE]
Throw(r, kind) == exc' = [exc EXCEPT ![r] = kind]
Goto(r, label) == pc' = [pc EXCEPT ![r] = label]

--------------------------------------------------------------------------------
(* The owner, up to the handler (http_transaction, lines 219-243).         *)

Acquire(r) ==
  /\ pc[r] = "acquire"
  /\ \E c \in Connection :
       /\ session[c].state = "free"
       /\ session' = [session EXCEPT ![c].holder = r, ![c].state = "held"]
       /\ scope' = [scope EXCEPT ![r].conn = c, ![r].lifecycle = "active"]
  /\ Goto(r, "start")
  /\ UNCHANGED <<committed, cursor, reply, handlerVars, historyVars, durable, sent, published>>

\* The pool is closing, cannot connect, or the waiting request is cancelled.
AcquireFails(r) ==
  /\ pc[r] = "acquire"
  /\ reply' = [reply EXCEPT ![r] = "error"]
  /\ Goto(r, "done")
  /\ UNCHANGED <<committed, cursor, handlerVars, historyVars, dbVars, scope, sent, published>>

StartReturns(r) ==
  /\ pc[r] = "start"
  /\ SetSession(r, [Sess(r) EXCEPT !.tx = "open"])
  /\ Goto(r, "handler")
  /\ UNCHANGED <<committed, cursor, reply, handlerVars, historyVars, scope, durable, sent, published>>

\* The finally block: expire the scope, then await pool.release.
Finally(r, s) ==
  /\ scope' = [scope EXCEPT ![r].lifecycle = "expired"]
  /\ SetSession(r, [s EXCEPT !.state = "returning"])
  /\ Goto(r, "release")

\* Mutant of StartFails: BEGIN is awaited outside of the try statement.
StartFails_NoFinally(r) ==
  /\ pc[r] = "start"
  /\ reply' = [reply EXCEPT ![r] = "error"]
  /\ Goto(r, "done")
  /\ UNCHANGED <<committed, cursor, handlerVars, dbVars, historyVars, scope, sent, published>>

\* BEGIN fails or is cancelled, perhaps after it reached the server.  The
\* asyncpg Transaction is then in its failed state, where rollback() raises at
\* once and is suppressed.
StartFails(r) ==
  /\ pc[r] = "start"
  /\ \E tx \in {"idle", "open"} : Finally(r, [Sess(r) EXCEPT !.tx = tx])
  /\ UNCHANGED <<committed, cursor, reply, handlerVars, historyVars, durable, sent, published>>

--------------------------------------------------------------------------------
(* The handler and the tasks it spawns.                                    *)

SpawnChild(r) ==
  /\ InHandler(r) /\ ~child[r] /\ Step(r)
  /\ child' = [child EXCEPT ![r] = TRUE]
  /\ UNCHANGED <<ownerVars, exc, stack, dbVars, historyVars, scope, sent, published>>

\* A statement of a task that current_scope admits, on the scope's connection.
Execute(r, role) ==
  /\ Running(r, role) /\ CurrentScope(r, role) /\ Step(r)
  /\ Sess(r).tx = "open"
  /\ LET w == <<r, steps'[r]>>
     IN  /\ SetSession(r, [Sess(r) EXCEPT !.pending = @ \cup {w}])
         /\ work' = [work EXCEPT ![r] = @ \cup {w}]
  /\ UNCHANGED <<ownerVars, exc, stack, child, durable, torn, scope, sent, published>>

\* A statement that the server rejects aborts the transaction; in an aborted
\* transaction it rejects every statement.
ExecuteFails(r) ==
  /\ InHandler(r) /\ Step(r) /\ InTransaction(r)
  /\ SetSession(r, [Sess(r) EXCEPT !.tx = "aborted"])
  /\ Throw(r, "error")
  /\ UNCHANGED <<ownerVars, stack, child, durable, historyVars, scope, sent, published>>

\* on_commit: announce a write once it is committed.
OnCommit(r, role, w) ==
  /\ Running(r, role) /\ CurrentScope(r, role) /\ Step(r)
  /\ w \in work[r]
  /\ scope' = [scope EXCEPT ![r].callbacks = Append(@, w)]
  /\ UNCHANGED <<ownerVars, exc, stack, child, dbVars, historyVars, sent, published>>

\* Preparing a response inside the transaction raises, and dooms it.
PrepareRefused(r, role) ==
  /\ Running(r, role) /\ Protected(r)
  /\ ~(scope[r].rollbackOnly /\ scope[r].violation) \/ role = "owner"
  /\ scope' = [scope EXCEPT ![r].rollbackOnly = TRUE, ![r].violation = TRUE]
  /\ IF role = "owner" THEN Step(r) /\ Throw(r, "error") ELSE UNCHANGED <<steps, exc>>
  /\ UNCHANGED <<ownerVars, stack, child, dbVars, historyVars, sent, published>>

\* Outside of it the original prepare runs and bytes leave the process.
PrepareAllowed(r, role) ==
  /\ Running(r, role) /\ ~Protected(r) /\ ~sent[r]
  /\ sent' = [sent EXCEPT ![r] = TRUE]
  /\ UNCHANGED <<ownerVars, handlerVars, dbVars, historyVars, scope, published>>

\* Handler code raises: an application error, an HTTPException with status
\* >= 400 or a cancellation ("error"), or one with a lower status ("redirect").
Raise(r, kind) ==
  /\ InHandler(r) /\ Step(r)
  /\ Throw(r, kind)
  /\ UNCHANGED <<ownerVars, stack, child, dbVars, historyVars, scope, sent, published>>

\* Handler code catches what it is propagating.
Catch(r) ==
  /\ pc[r] = "handler" /\ exc[r] # "none" /\ Step(r)
  /\ Throw(r, "none")
  /\ UNCHANGED <<ownerVars, stack, child, dbVars, historyVars, scope, sent, published>>

--------------------------------------------------------------------------------
(* Context managers the handler is inside of.                              *)

\* A joined command (joined_transaction: SQL.transaction and the batch
\* helpers) or a view's http_transaction inside the middleware's.
EnterJoined(r, kind) ==
  /\ InHandler(r) /\ Step(r)
  /\ Push(r, kind)
  /\ UNCHANGED <<ownerVars, exc, child, dbVars, historyVars, scope, sent, published>>

LeaveJoined(r) ==
  /\ InHandler(r) /\ Inside(r, Joined)
  /\ Pop(r)
  /\ UNCHANGED <<ownerVars, exc, steps, child, dbVars, historyVars, scope, sent, published>>

\* What the failed frame wrote and the server has not discarded.
Tear(r) == torn' = torn \cup (Sess(r).pending \ Top(r).pending)

\* The joined view's response has a status >= 400.
LeaveViewFailed(r) ==
  /\ InHandler(r) /\ Inside(r, {"view"})
  /\ RollbackOnly(r) /\ Tear(r) /\ Pop(r)
  /\ UNCHANGED <<ownerVars, exc, steps, child, dbVars, work, sent, published>>

\* Mutant of UnwindJoined: a failed joined command leaves the flag alone.
UnwindJoined_Forgives(r) ==
  /\ pc[r] = "handler" /\ exc[r] # "none" /\ Inside(r, Joined)
  /\ ~(exc[r] = "redirect" /\ Top(r).kind = "view")
  /\ Tear(r) /\ Pop(r)
  /\ UNCHANGED <<ownerVars, exc, steps, child, dbVars, scope, work, sent, published>>

\* An exception leaves a joined frame.
UnwindJoined(r) ==
  /\ pc[r] = "handler" /\ exc[r] # "none" /\ Inside(r, Joined)
  /\ ~(exc[r] = "redirect" /\ Top(r).kind = "view")
  /\ RollbackOnly(r) /\ Tear(r) /\ Pop(r)
  /\ UNCHANGED <<ownerVars, exc, steps, child, dbVars, work, sent, published>>

\* _dispatch of the joined view turns a redirect into an ordinary response.
UnwindRedirect(r) ==
  /\ pc[r] = "handler" /\ exc[r] = "redirect" /\ Inside(r, {"view"})
  /\ Throw(r, "none") /\ Pop(r)
  /\ UNCHANGED <<ownerVars, steps, child, dbVars, historyVars, scope, sent, published>>

EnterSavepoint(r) ==
  /\ InHandler(r) /\ Step(r)
  /\ Sess(r).tx = "open"
  /\ Push(r, "savepoint")
  /\ UNCHANGED <<ownerVars, exc, child, dbVars, historyVars, scope, sent, published>>

\* SAVEPOINT is rejected (always, in an aborted transaction) or interrupted.
EnterSavepointFails(r) ==
  /\ InHandler(r) /\ Step(r) /\ InTransaction(r)
  /\ \E tx \in {Sess(r).tx, "aborted"} : SetSession(r, [Sess(r) EXCEPT !.tx = tx])
  /\ RollbackOnly(r) /\ Throw(r, "error")
  /\ UNCHANGED <<ownerVars, stack, child, durable, historyVars, sent, published>>

LeaveSavepoint(r) ==
  /\ InHandler(r) /\ Inside(r, {"savepoint"})
  /\ Sess(r).tx = "open"
  /\ Pop(r)
  /\ UNCHANGED <<ownerVars, exc, steps, child, dbVars, historyVars, scope, sent, published>>

\* RELEASE SAVEPOINT is rejected or interrupted.
LeaveSavepointFails(r) ==
  /\ InHandler(r) /\ Inside(r, {"savepoint"}) /\ InTransaction(r)
  /\ \E tx \in {Sess(r).tx, "aborted"} : SetSession(r, [Sess(r) EXCEPT !.tx = tx])
  /\ RollbackOnly(r) /\ Throw(r, "error") /\ Pop(r)
  /\ UNCHANGED <<ownerVars, steps, child, durable, historyVars, sent, published>>

\* ROLLBACK TO SAVEPOINT, which also revives an aborted transaction.
ToSavepoint(r) == [Sess(r) EXCEPT !.tx = "open", !.pending = Top(r).pending]

\* Mutant of UnwindSavepoint: the callbacks registered since are kept.
UnwindSavepoint_KeepsCallbacks(r) ==
  /\ pc[r] = "handler" /\ exc[r] # "none" /\ Inside(r, {"savepoint"})
  /\ InTransaction(r)
  /\ SetSession(r, ToSavepoint(r))
  /\ scope' = [scope EXCEPT ![r].rollbackOnly = Top(r).flag]
  /\ work' = [work EXCEPT ![r] = Top(r).work]
  /\ Pop(r)
  /\ UNCHANGED <<ownerVars, exc, steps, child, durable, torn, sent, published>>

\* Mutant of UnwindSavepoint: one callback too many is discarded.
UnwindSavepoint_OffByOne(r) ==
  /\ pc[r] = "handler" /\ exc[r] # "none" /\ Inside(r, {"savepoint"})
  /\ InTransaction(r)
  /\ SetSession(r, ToSavepoint(r))
  /\ scope' = [scope EXCEPT ![r].rollbackOnly = Top(r).flag,
                            ![r].callbacks = SubSeq(@, 1, Top(r).mark - 1)]
  /\ work' = [work EXCEPT ![r] = Top(r).work]
  /\ Pop(r)
  /\ UNCHANGED <<ownerVars, exc, steps, child, durable, torn, sent, published>>

\* An exception leaves a recovery savepoint: roll back to it, restore the flag
\* and discard the callbacks registered since.
UnwindSavepoint(r) ==
  /\ pc[r] = "handler" /\ exc[r] # "none" /\ Inside(r, {"savepoint"})
  /\ InTransaction(r)
  /\ SetSession(r, ToSavepoint(r))
  /\ scope' = [scope EXCEPT ![r].rollbackOnly = Top(r).flag,
                            ![r].callbacks = SubSeq(@, 1, Top(r).mark)]
  /\ work' = [work EXCEPT ![r] = Top(r).work]
  /\ Pop(r)
  /\ UNCHANGED <<ownerVars, exc, steps, child, durable, torn, sent, published>>

\* Mutant of UnwindSavepointFails: a failed rollback leaves the flag alone.
UnwindSavepointFails_Forgives(r) ==
  /\ pc[r] = "handler" /\ exc[r] # "none" /\ Inside(r, {"savepoint"})
  /\ InTransaction(r)
  /\ \E s \in {Sess(r), ToSavepoint(r)} : SetSession(r, s)
  /\ Throw(r, "error") /\ Pop(r)
  /\ UNCHANGED <<ownerVars, steps, child, durable, scope, historyVars, sent, published>>

\* ... which fails or is interrupted, perhaps after the server obeyed.
UnwindSavepointFails(r) ==
  /\ pc[r] = "handler" /\ exc[r] # "none" /\ Inside(r, {"savepoint"})
  /\ InTransaction(r)
  /\ \E s \in {Sess(r), ToSavepoint(r)} : SetSession(r, s)
  /\ RollbackOnly(r) /\ Throw(r, "error") /\ Pop(r)
  /\ UNCHANGED <<ownerVars, steps, child, durable, historyVars, sent, published>>

--------------------------------------------------------------------------------
(* The owner, from the handler's end to the pool (lines 243-262).          *)

\* The handler is over: nothing of it is left to propagate.
HandlerEnds(r) ==
  /\ pc[r] = "handler" /\ stack[r] = <<>>
  /\ exc' = [exc EXCEPT ![r] = "none"]
  /\ UNCHANGED <<committed, cursor, reply, stack, steps, child, dbVars, historyVars,
                 scope, sent, published>>

\* It returned an unprepared buffered response with a status < 400, perhaps
\* as an exception, and nothing forbids the commit: await SELECT 1.
HandlerSucceeds(r) ==
  /\ exc[r] # "error"
  /\ ~scope[r].rollbackOnly /\ ~scope[r].violation
  /\ Goto(r, "probe")
  /\ HandlerEnds(r)

\* It returned such a response, but the scope is rollback-only.
HandlerRefused(r) ==
  /\ exc[r] # "error"
  /\ scope[r].rollbackOnly \/ scope[r].violation
  /\ Goto(r, "rollback")
  /\ HandlerEnds(r)

\* It raised, or returned a status >= 400 or a response that is not buffered.
HandlerFails(r) ==
  /\ exc[r] # "redirect"
  /\ Goto(r, "rollback")
  /\ HandlerEnds(r)

\* Mutant of ProbeReturns: COMMIT without SELECT 1.
ProbeReturns_NoSelect(r) ==
  /\ pc[r] = "probe"
  /\ scope' = [scope EXCEPT ![r].lifecycle = "finishing"]
  /\ Goto(r, "commit")
  /\ UNCHANGED <<committed, cursor, reply, handlerVars, dbVars, historyVars, sent, published>>

\* SELECT 1 succeeds only in a transaction that is not aborted.
ProbeReturns(r) ==
  /\ pc[r] = "probe" /\ Sess(r).tx = "open"
  /\ scope' = [scope EXCEPT ![r].lifecycle = "finishing"]
  /\ Goto(r, "commit")
  /\ UNCHANGED <<committed, cursor, reply, handlerVars, dbVars, historyVars, sent, published>>

ProbeFails(r) ==
  /\ pc[r] = "probe"
  /\ Goto(r, "rollback")
  /\ UNCHANGED <<committed, cursor, reply, handlerVars, dbVars, historyVars, scope, sent, published>>

Ended(s) == [s EXCEPT !.tx = "idle", !.pending = {}]

\* What COMMIT makes durable: nothing of an aborted transaction, which the
\* server rolls back without an error.
Committable(r) == IF Sess(r).tx = "aborted" THEN {} ELSE Sess(r).pending

CommitReturns(r) ==
  /\ pc[r] = "commit"
  /\ durable' = durable \cup Committable(r)
  /\ committed' = [committed EXCEPT ![r] = TRUE]
  /\ Finally(r, Ended(Sess(r)))
  /\ UNCHANGED <<cursor, reply, handlerVars, historyVars, sent, published>>

\* COMMIT is rejected (a deferred constraint): the server has rolled back.
CommitFails(r) ==
  /\ pc[r] = "commit"
  /\ Finally(r, Ended(Sess(r)))
  /\ UNCHANGED <<committed, cursor, reply, handlerVars, historyVars, durable, sent, published>>

\* The owner is cancelled, or loses the connection, while COMMIT is in flight.
CommitInterrupted(r) ==
  /\ pc[r] = "commit"
  /\ Finally(r, [Sess(r) EXCEPT !.tx = "indoubt"])
  /\ UNCHANGED <<committed, cursor, reply, handlerVars, historyVars, durable, sent, published>>

RollbackReturns(r) ==
  /\ pc[r] = "rollback"
  /\ Finally(r, Ended(Sess(r)))
  /\ UNCHANGED <<committed, cursor, reply, handlerVars, historyVars, durable, sent, published>>

\* Mutant of RollbackFails: the failure escapes without the finally block.
RollbackFails_NoFinally(r) ==
  /\ pc[r] = "rollback"
  /\ reply' = [reply EXCEPT ![r] = "error"]
  /\ Goto(r, "done")
  /\ UNCHANGED <<committed, cursor, handlerVars, historyVars, dbVars, scope, sent, published>>

\* ROLLBACK fails or is interrupted: the transaction is the pool's to end.
RollbackFails(r) ==
  /\ pc[r] = "rollback"
  /\ Finally(r, Sess(r))
  /\ UNCHANGED <<committed, cursor, reply, handlerVars, historyVars, durable, sent, published>>

\* Mutant of ReleaseReturns: callbacks run whatever the outcome.
ReleaseReturns_AlwaysCallbacks(r) ==
  /\ pc[r] = "release" /\ Sess(r).holder # r
  /\ scope' = [scope EXCEPT ![r].lifecycle = "callbacks"]
  /\ Goto(r, "callbacks")
  /\ UNCHANGED <<committed, cursor, reply, handlerVars, dbVars, historyVars, sent, published>>

\* pool.release returns once the pool has the connection back.
ReleaseReturns(r) ==
  /\ pc[r] = "release" /\ Sess(r).holder # r
  /\ IF committed[r]
       THEN /\ scope' = [scope EXCEPT ![r].lifecycle = "callbacks"]
            /\ Goto(r, "callbacks")
            /\ UNCHANGED reply
       ELSE /\ reply' = [reply EXCEPT ![r] = "error"]
            /\ Goto(r, "done")
            /\ UNCHANGED scope
  /\ UNCHANGED <<committed, cursor, handlerVars, dbVars, historyVars, sent, published>>

\* pool.release raises (the reset of the connection failed) or is cancelled
\* (asyncpg shields the reset, which goes on without the owner).
ReleaseRaises(r) ==
  /\ pc[r] = "release"
  /\ reply' = [reply EXCEPT ![r] = "error"]
  /\ Goto(r, "done")
  /\ UNCHANGED <<committed, cursor, handlerVars, dbVars, historyVars, scope, sent, published>>

--------------------------------------------------------------------------------
(* The callbacks, after release (lines 263-277).  A callback's failure, or *)
(* a cancellation while it is awaited, is logged and swallowed.            *)

NextCallback(r) ==
  /\ pc[r] = "callbacks" /\ cursor[r] < Len(scope[r].callbacks)
  /\ cursor' = [cursor EXCEPT ![r] = @ + 1]
  /\ UNCHANGED <<pc, committed, reply, handlerVars, dbVars, historyVars, scope, sent>>

CallbackRuns(r) ==
  /\ NextCallback(r)
  /\ published' = published \cup {scope[r].callbacks[cursor[r] + 1]}

CallbackFails(r) == NextCallback(r) /\ UNCHANGED published

CallbacksEnd(r) ==
  /\ pc[r] = "callbacks" /\ cursor[r] = Len(scope[r].callbacks)
  /\ scope' = [scope EXCEPT ![r].lifecycle = "expired"]
  /\ reply' = [reply EXCEPT ![r] = "success"]
  /\ Goto(r, "done")
  /\ UNCHANGED <<committed, cursor, handlerVars, dbVars, historyVars, sent, published>>

--------------------------------------------------------------------------------
(* The pool and the server (asyncpg, PostgreSQL).                          *)

\* The server finishes a COMMIT that the client no longer waits for.
ServerCommits(c) ==
  /\ session[c].tx = "indoubt"
  /\ durable' = durable \cup session[c].pending
  /\ session' = [session EXCEPT ![c] = Ended(@)]
  /\ UNCHANGED <<ownerVars, handlerVars, historyVars, scope, sent, published>>

\* The pool's reset rolls back what is still open and frees the connection.
PoolResets(c) ==
  /\ session[c].state = "returning"
  /\ session' = [session EXCEPT ![c] = FreeSession]
  /\ UNCHANGED <<ownerVars, handlerVars, historyVars, durable, scope, sent, published>>

--------------------------------------------------------------------------------
Role == {"owner", "child"}

OwnerStep(r) ==
  \/ Acquire(r) \/ StartReturns(r) \/ StartFails(r)
  \/ HandlerSucceeds(r) \/ HandlerRefused(r) \/ HandlerFails(r)
  \/ ProbeReturns(r) \/ ProbeFails(r)
  \/ CommitReturns(r) \/ CommitFails(r) \/ CommitInterrupted(r)
  \/ RollbackReturns(r) \/ RollbackFails(r)
  \/ ReleaseReturns(r)
  \/ CallbackRuns(r) \/ CallbackFails(r) \/ CallbacksEnd(r)

HandlerStep(r) ==
  \/ SpawnChild(r) \/ ExecuteFails(r) \/ Catch(r)
  \/ \E kind \in {"error", "redirect"} : Raise(r, kind)
  \/ \E kind \in Joined : EnterJoined(r, kind)
  \/ LeaveJoined(r) \/ LeaveViewFailed(r) \/ UnwindJoined(r) \/ UnwindRedirect(r)
  \/ EnterSavepoint(r) \/ EnterSavepointFails(r)
  \/ LeaveSavepoint(r) \/ LeaveSavepointFails(r)
  \/ UnwindSavepoint(r) \/ UnwindSavepointFails(r)

TaskStep(r) ==
  \E role \in Role :
    \/ Execute(r, role)
    \/ \E w \in Writes(r) : OnCommit(r, role, w)
    \/ PrepareRefused(r, role) \/ PrepareAllowed(r, role)

\* Given up while it waits for the pool, on either side of the transaction.
Interrupted(r) == AcquireFails(r) \/ ReleaseRaises(r)

Finished == (\A r \in Request : pc[r] = "done") /\ UNCHANGED vars

Next ==
  \/ \E r \in Request : OwnerStep(r) \/ HandlerStep(r) \/ TaskStep(r) \/ Interrupted(r)
  \/ \E c \in Connection : ServerCommits(c) \/ PoolResets(c)
  \/ Finished

Spec == Init /\ [][Next]_vars

\* Every await of a request is answered and its handler goes on; nobody owes
\* it a cancellation.  The pool resets what it was given back.
Fairness ==
  /\ \A r \in Request : WF_vars(OwnerStep(r) \/ HandlerStep(r) \/ TaskStep(r))
  /\ \A c \in Connection : WF_vars(PoolResets(c))

FairSpec == Spec /\ Fairness

--------------------------------------------------------------------------------
(* Properties.                                                             *)

TypeOK ==
  /\ pc \in [Request -> Label]
  /\ scope \in [Request -> TransactionScope]
  /\ committed \in [Request -> BOOLEAN]
  /\ exc \in [Request -> {"none", "error", "redirect"}]
  /\ stack \in [Request -> Seq(Frame)]
  /\ steps \in [Request -> Nat]
  /\ child \in [Request -> BOOLEAN]
  /\ cursor \in [Request -> Nat]
  /\ reply \in [Request -> {"none", "success", "error"}]
  /\ sent \in [Request -> BOOLEAN]
  /\ session \in [Connection -> Session]
  /\ durable \in SUBSET Write
  /\ published \in SUBSET Write
  /\ work \in [Request -> SUBSET Write]
  /\ torn \in SUBSET Write

\* Once it has acquired, and until it is over, a request has a connection.
Connected ==
  \A r \in Request : pc[r] \notin {"acquire", "done"} => scope[r].conn \in Connection

\* What a savepoint remembers of the callbacks is a prefix of them, and the
\* frames around it remember a shorter one.
Marks ==
  \A r \in Request : \A i \in 1 .. Len(stack[r]) :
    /\ stack[r][i].mark <= Len(scope[r].callbacks)
    /\ \A j \in 1 .. i : stack[r][j].mark <= stack[r][i].mark

\* The type invariant, with what keeps it inductive.
TypeInv == TypeOK /\ Connected /\ Marks

Durable(r) == {w \in durable : w[1] = r}

\* A connection only ever carries work of the request that holds it: neither a
\* callback nor a child task that outlives its request reaches the connection
\* after the pool has lent it to another request.
OwnWorkOnly ==
  \A c \in Connection : \A w \in session[c].pending : w[1] = session[c].holder

\* A request's transaction is atomic: what is durable of it is nothing, or all
\* the work its handler counts on when it ended, and nothing that a recovery
\* savepoint rolled back.
AllOrNothing == \A r \in Request : Durable(r) # {} => Durable(r) = work[r]

\* The client is told success only when all that work is durable, in particular
\* not after PostgreSQL aborted the transaction and the handler swallowed it.
SuccessIsDurable ==
  \A r \in Request : committed[r] \/ reply[r] = "success" => work[r] \subseteq durable

\* What a failed joined command or view wrote never becomes durable, even when
\* the handler caught the failure, unless a savepoint had taken it back.
TornIsNeverDurable == torn \cap durable = {}

\* A callback announces only committed writes: none of a request that rolled
\* back, none that a recovery savepoint discarded.
PublishedIsDurable == published \subseteq durable

\* Work enters a transaction only from its handler: none while the owner has
\* its own statement in flight, between the rollback-only check and COMMIT.
NoWriteAfterHandler ==
  [][\A r \in Request :
       ~(Writes(r) \cap UNION {session'[c].pending : c \in Connection}
           \subseteq UNION {session[c].pending : c \in Connection})
       => pc[r] = "handler"]_vars

\* Once a task of the request has sent response bytes itself, the request no
\* longer commits: only a COMMIT that was interrupted in flight may still end.
ResponseSettlesOutcome ==
  [][\A r \in Request :
       sent[r] /\ Durable(r)' # Durable(r) => Sess(r).tx = "indoubt"]_vars

\* Every request is answered, however few connections there are.
EveryRequestAnswered == \A r \in Request : <>(pc[r] = "done")

\* Every connection goes back to the pool, on every path.
ConnectionsReturn ==
  \A c \in Connection : session[c].state # "free" ~> session[c].state = "free"

\* http_transaction keeps the promise of AtomicRequest: the database is its
\* store, the callbacks that ran are its announcements.
Atomic == INSTANCE AtomicRequest WITH store <- durable, announced <- published

ImplementsAtomicRequest == Atomic!Spec

--------------------------------------------------------------------------------
(* What the documentation says and the code does not keep.                 *)

\* docs/migration-0.11.md says that the owner runs the callbacks once after
\* commit, release and cleanup: a request that committed and is over has called
\* all of them.  Not so when pool.release raises or is cancelled.
CommittedIsAnnounced ==
  \A r \in Request :
    committed[r] /\ pc[r] = "done" => cursor[r] = Len(scope[r].callbacks)

\* It says that nothing restores the right to commit after a response was
\* prepared early: COMMIT is not sent once the violation is recorded.  Not so
\* when a child task prepares while the owner awaits SELECT 1.
ViolationForbidsCommit ==
  [][\A r \in Request :
       scope[r].violation /\ pc[r] # "commit" => pc'[r] # "commit"]_vars

================================================================================
