------------------------------- MODULE CrudViews -------------------------------
(***************************************************************************)
(* CreateView._post and UpdateView._patch of aiohttp_boilerplate/views     *)
(* with their hooks, under each transaction boundary: none, the view's own *)
(* (views/atomic.py), the middleware's (middleware/transactions.py), both. *)
(*                                                                         *)
(* What a command writes is a set of marks: its before hook's, its own     *)
(* insert or update's, its hook's in the transaction, its after hook's.    *)
(* Requests of one command are retries of a client that carry its key: the *)
(* application's perform_create or perform_update looks the key up and, if *)
(* it is there, sets `replayed` instead of writing.  The key is unique in  *)
(* the database.  Every update is of one record, read in on_start.         *)
(*                                                                         *)
(* A statement outside every transaction takes a connection for as long as *)
(* it runs: one step.  The engine of a boundary is that of HttpTransaction *)
(* seen from outside: all is committed or nothing is.                      *)
(***************************************************************************)
EXTENDS Naturals, FiniteSets

CONSTANTS
  Request,     \* requests, each of one command
  Command,     \* identities of commands
  Views,       \* the views that may serve a request
  PoolSize,    \* connections of the pool
  NoWriter     \* who wrote the record before the first request

\* guarded: the update's `where` names the version that on_start read.
\* helper: the hook in the transaction uses another model than the view's.
View == [kind : {"create", "update"}, boundary : SUBSET {"view", "middleware"},
         guarded : BOOLEAN, helper : BOOLEAN]

ASSUME ConstantsAssumption ==
  /\ IsFiniteSet(Request) /\ NoWriter \notin Request
  /\ Views \subseteq View /\ \A v \in Views : v.guarded => v.kind = "update"
  /\ PoolSize \in Nat \ {0}

VARIABLES
  view,     \* the view of a request
  command,  \* the command of a request
  req,      \* a request: where it is and what its local variables hold
  pending,  \* marks of its open transaction
  durable,  \* marks that are committed, with the request that wrote them
  writer,   \* who committed the record last
  free      \* idle connections of the pool

vars == <<view, command, req, pending, durable, writer, free>>

Mark == {"before", "main", "hook", "after"}
Label == {"acquire", "load", "before", "open", "lookup", "write", "hook", "helper",
          "commit", "after", "reply", "leave", "middlewares", "respond", "done"}
Outcome == {"success", "unchanged", "substituted", "refused", "failed"}
Good == {"success", "unchanged", "substituted"}

Req == [pc : Label, outcome : Outcome, replayed : BOOLEAN,
        rollbackOnly : BOOLEAN,  \* TransactionScope.rollback_only
        broken : BOOLEAN,        \* history: an error has left the block or a joined view
        doubt : BOOLEAN,         \* history: its COMMIT was lost with its answer
        base : Request \cup {NoWriter}]

\* A request whose method the middleware or the view has selected.
Atomic(r) == view[r].boundary # {}

Init ==
  /\ view \in [Request -> Views]
  /\ command \in [Request -> Command]
  /\ req = [r \in Request |->
       [pc |-> IF Atomic(r) THEN "acquire" ELSE "load", outcome |-> "success",
        replayed |-> FALSE, rollbackOnly |-> FALSE, broken |-> FALSE, doubt |-> FALSE, base |-> NoWriter]]
  /\ pending = [r \in Request |-> {}]
  /\ durable = {}
  /\ writer = NoWriter
  /\ free = PoolSize

At(r, label) == req[r].pc = label
Goto(r, label) == req' = [req EXCEPT ![r].pc = label]
GotoWith(r, label, outcome) == req' = [req EXCEPT ![r].pc = label, ![r].outcome = outcome]
Static == UNCHANGED <<view, command>>

\* A statement: in the request's transaction, or on a connection of its own.
Writes(r, mark) ==
  IF Atomic(r)
    THEN pending' = [pending EXCEPT ![r] = @ \cup {mark}] /\ UNCHANGED <<durable, writer, free>>
    ELSE /\ free > 0 /\ durable' = durable \cup {<<r, mark>>}
         /\ UNCHANGED <<pending, writer, free>>

CommitWork(r) ==
  /\ durable' = durable \cup ({r} \X pending[r])
  /\ writer' = IF "main" \in pending[r] /\ view[r].kind = "update" THEN r ELSE writer
  /\ pending' = [pending EXCEPT ![r] = {}]
  /\ free' = free + 1

\* Mutant of RollBack: the connection is not returned.
RollBack_Leaks(r) ==
  pending' = [pending EXCEPT ![r] = {}] /\ UNCHANGED <<durable, writer, free>>

\* Mutant of RollBack: the connection is returned in its transaction.
RollBack_Unended(r) == free' = free + 1 /\ UNCHANGED <<pending, durable, writer>>

RollBack(r) ==
  /\ pending' = [pending EXCEPT ![r] = {}]
  /\ free' = free + 1
  /\ UNCHANGED <<durable, writer>>

\* http_transaction takes the connection of the whole request.
Acquire(r) ==
  /\ At(r, "acquire") /\ free > 0 /\ free' = free - 1
  /\ Goto(r, "load")
  /\ Static /\ UNCHANGED <<pending, durable, writer>>

\* on_start reads the record; the body is read and validated.
Load(r) ==
  /\ At(r, "load") /\ (Atomic(r) \/ free > 0)
  /\ req' = [req EXCEPT ![r].pc = "before", ![r].base = writer]
  /\ Static /\ UNCHANGED <<pending, durable, writer, free>>

\* A malformed, invalid or empty body is refused.
Refuse(r) ==
  /\ At(r, "load") /\ GotoWith(r, "leave", "refused")
  /\ Static /\ UNCHANGED <<pending, durable, writer, free>>

\* before_create, before_update.
Before(r) ==
  /\ At(r, "before") /\ Writes(r, "before") /\ Goto(r, "open") /\ Static

\* before_update returns an empty mapping: there is nothing to write.
NoUpdate(r) ==
  /\ At(r, "before") /\ view[r].kind = "update" /\ GotoWith(r, "leave", "unchanged")
  /\ Static /\ UNCHANGED <<pending, durable, writer, free>>

\* obj.sql.transaction() joins the boundary, or takes a connection.
Open(r) ==
  /\ At(r, "open") /\ Goto(r, "lookup")
  /\ IF Atomic(r) THEN free' = free ELSE free > 0 /\ free' = free - 1
  /\ Static /\ UNCHANGED <<pending, durable, writer>>

\* The key of the command is in the database.
Known(r) == \E q \in Request : command[q] = command[r] /\ <<q, "main">> \in durable

\* The application looks for a prior result; a replay skips the write.
Lookup(r) ==
  /\ At(r, "lookup")
  /\ req' = [req EXCEPT ![r].pc = IF Known(r) THEN "commit" ELSE "write",
                        ![r].replayed = Known(r)]
  /\ Static /\ UNCHANGED <<pending, durable, writer, free>>

\* Mutant of BlockFails: joined_transaction does not catch what leaves the block.
BlockFails_Forgets(r, outcome) ==
  /\ req' = [req EXCEPT ![r].pc = "leave", ![r].outcome = outcome, ![r].broken = TRUE]
  /\ IF Atomic(r) THEN UNCHANGED <<pending, durable, writer, free>> ELSE RollBack(r)

\* An exception leaves the block: standalone, the transaction is rolled back and
\* its connection returned; joined, the scope is rollback-only.
BlockFails(r, outcome) ==
  /\ req' = [req EXCEPT ![r].pc = "leave", ![r].outcome = outcome,
               ![r].broken = TRUE, ![r].rollbackOnly = Atomic(r)]
  /\ IF Atomic(r) THEN UNCHANGED <<pending, durable, writer, free>> ELSE RollBack(r)

\* PostgreSQL lets a writer of the record, or of the key, wait for another.
Blocked(r) ==
  \E q \in Request \ {r} :
    /\ "main" \in pending[q]
    /\ command[q] = command[r] \/ (view[q].kind = "update" /\ view[r].kind = "update")

\* The rows that the update's scope matches: none if the version has changed.
Matches(r) == view[r].guarded => req[r].base = writer

\* Mutant of Write: the number of updated rows is not looked at.
Write_Anyway(r) ==
  /\ At(r, "write") /\ ~Blocked(r) /\ Static
  /\ IF Known(r) THEN BlockFails(r, "failed")
     ELSE /\ pending' = [pending EXCEPT ![r] = @ \cup {"main"}] /\ Goto(r, "hook")
          /\ UNCHANGED <<durable, writer, free>>

\* The insert or update; the key of a retry that has committed meanwhile is a
\* unique violation, an update of no row is not found.
Write(r) ==
  /\ At(r, "write") /\ ~Blocked(r) /\ Static
  /\ IF Known(r) THEN BlockFails(r, "failed")
     ELSE IF view[r].kind = "update" /\ ~Matches(r) THEN BlockFails(r, "refused")
     ELSE /\ pending' = [pending EXCEPT ![r] = @ \cup {"main"}] /\ Goto(r, "hook")
          /\ UNCHANGED <<durable, writer, free>>

\* Mutant of Hook: the view's model does not use the connection of its block.
Hook_Elsewhere(r) ==
  /\ At(r, "hook") /\ free > 0
  /\ durable' = durable \cup {<<r, "hook">>} /\ Goto(r, "commit")
  /\ Static /\ UNCHANGED <<pending, writer, free>>

\* after_*_in_transaction writes with the view's model, or with any in a boundary.
Hook(r) ==
  /\ At(r, "hook") /\ (view[r].helper => Atomic(r))
  /\ pending' = [pending EXCEPT ![r] = @ \cup {"hook"}] /\ Goto(r, "commit")
  /\ Static /\ UNCHANGED <<durable, writer, free>>

\* Another model's statement is on a connection of its own, with its own commit.
HelperHook(r) ==
  /\ At(r, "hook") /\ view[r].helper /\ ~Atomic(r) /\ free > 0
  /\ durable' = durable \cup {<<r, "hook">>} /\ Goto(r, "commit")
  /\ Static /\ UNCHANGED <<pending, writer, free>>

\* Mutant of CloseBlock: the hooks of a replay run.
CloseBlock_Reruns(r) ==
  /\ At(r, "commit") /\ Goto(r, "after") /\ Static
  /\ IF Atomic(r) THEN UNCHANGED <<pending, durable, writer, free>> ELSE CommitWork(r)

\* The block ends; standalone, with COMMIT and the release of the connection.
CloseBlock(r) ==
  /\ At(r, "commit") /\ Goto(r, IF req[r].replayed THEN "reply" ELSE "after") /\ Static
  /\ IF Atomic(r) THEN UNCHANGED <<pending, durable, writer, free>> ELSE CommitWork(r)

\* The statement or the hook fails inside of the block.
BlockRaises(r) ==
  /\ req[r].pc \in {"lookup", "write", "hook"} 
  /\ BlockFails(r, "failed") /\ Static

\* The connection is lost in COMMIT, which the server has performed or not.
CommitInDoubt(r, label) ==
  /\ req' = [req EXCEPT ![r].pc = label, ![r].outcome = "failed", ![r].doubt = TRUE]
  /\ CommitWork(r) \/ RollBack(r)

BlockInDoubt(r) ==
  /\ At(r, "commit") /\ ~Atomic(r) /\ CommitInDoubt(r, "leave") /\ Static

\* after_create, after_update.
After(r) ==
  /\ At(r, "after") /\ Writes(r, "after") /\ Goto(r, "reply") /\ Static

\* get_data and the encoding of the response.
Reply(r) ==
  /\ At(r, "reply") /\ GotoWith(r, "leave", "success")
  /\ Static /\ UNCHANGED <<pending, durable, writer, free>>

\* A hook outside of the block, or the encoding, raises.
Raise(r) ==
  /\ req[r].pc \in {"before", "after", "reply"} /\ GotoWith(r, "leave", "failed")
  /\ Static /\ UNCHANGED <<pending, durable, writer, free>>

\* An override of the public handler, or an application middleware, answers with
\* success instead of an error.
Substitute(r) ==
  /\ req[r].pc \in {"leave", "middlewares"} /\ req[r].outcome \notin Good
  /\ GotoWith(r, req[r].pc, "substituted")
  /\ Static /\ UNCHANGED <<pending, durable, writer, free>>

\* Mutant of EndBoundary: the status is not looked at.
EndBoundary_Commits(r, label) ==
  /\ Static
  /\ IF ~req[r].rollbackOnly
       THEN CommitWork(r) /\ Goto(r, label)
       ELSE RollBack(r) /\ GotoWith(r, label, "failed")

\* Mutant of EndBoundary: an error of the last statements is suppressed.
EndBoundary_Suppresses(r, label) == Static /\ RollBack(r) /\ Goto(r, label)

\* http_transaction commits a good answer (or fails to) unless the scope is
\* rollback-only, and rolls back an error.
EndBoundary(r, label) ==
  /\ Static
  /\ \/ /\ req[r].outcome \in Good /\ ~req[r].rollbackOnly
        /\ (CommitWork(r) /\ Goto(r, label)) \/ CommitInDoubt(r, label)
     \/ /\ req[r].outcome \in Good /\ req[r].rollbackOnly
        /\ RollBack(r) /\ GotoWith(r, label, "failed")
     \/ req[r].outcome \notin Good /\ RollBack(r) /\ Goto(r, label)

\* The dispatch of the view is over: its transaction ends here if it owns one;
\* joined, its error makes the scope rollback-only.
LeaveView(r) ==
  LET joined == view[r].boundary = {"view", "middleware"}
      error == req[r].outcome \notin Good
  IN /\ At(r, "leave")
     /\ IF view[r].boundary = {"view"} THEN EndBoundary(r, "middlewares")
        ELSE /\ req' = [req EXCEPT ![r].pc = "middlewares",
                   ![r].rollbackOnly = @ \/ (joined /\ error),
                   ![r].broken = @ \/ (joined /\ error)]
             /\ Static /\ UNCHANGED <<pending, durable, writer, free>>

\* The application's middlewares are left, with the answer or with an error.
LeaveMiddlewares(r) ==
  /\ At(r, "middlewares")
  /\ \E outcome \in {req[r].outcome, "failed"} : GotoWith(r, "respond", outcome)
  /\ Static /\ UNCHANGED <<pending, durable, writer, free>>

\* The transaction middleware is left.
Respond(r) ==
  /\ At(r, "respond")
  /\ IF "middleware" \in view[r].boundary THEN EndBoundary(r, "done")
     ELSE Goto(r, "done") /\ Static /\ UNCHANGED <<pending, durable, writer, free>>

Step(r) ==
  \/ Acquire(r) \/ Load(r) \/ Before(r) \/ Open(r) \/ Lookup(r) \/ Write(r) \/ Hook(r)
  \/ HelperHook(r) \/ CloseBlock(r) \/ After(r) \/ Reply(r) \/ LeaveView(r)
  \/ LeaveMiddlewares(r) \/ Respond(r)

Answered == \A r \in Request : At(r, "done")
Finished == Answered /\ UNCHANGED vars

Next ==
  \/ \E r \in Request :
       Step(r) \/ Refuse(r) \/ NoUpdate(r) \/ BlockRaises(r) \/ Raise(r) \/ Substitute(r)
       \/ BlockInDoubt(r)
  \/ Finished

Spec == Init /\ [][Next]_vars

\* Every await is answered and every hook returns; errors need not happen.
FairSpec == Spec /\ \A r \in Request : WF_vars(Step(r))

--------------------------------------------------------------------------------
(* Properties.                                                             *)

TypeOK ==
  /\ view \in [Request -> Views]
  /\ command \in [Request -> Command]
  /\ req \in [Request -> Req]
  /\ pending \in [Request -> SUBSET Mark]
  /\ durable \subseteq Request \X Mark
  /\ writer \in Request \cup {NoWriter}
  /\ free \in 0 .. PoolSize

Stored(r, mark) == <<r, mark>> \in durable
Escapes(r) == view[r].helper /\ ~Atomic(r)

\* What the hook in the transaction writes is committed with the insert or update
\* or not at all, under every boundary: it uses the view's model, or a boundary.
HookWithWrite ==
  \A r \in Request : ~Escapes(r) => (Stored(r, "hook") <=> Stored(r, "main"))

\* When the owner of the transaction is left with an error, nothing of the request is
\* durable, of its before and after hooks neither.  An error that has left a block or a
\* joined view is final, whatever the code around it answers instead: what the block
\* wrote never becomes durable.
FailureLeavesNothing ==
  \A r \in Request : ~req[r].doubt =>
    /\ req[r].broken => ~Stored(r, "main")
    /\ /\ req[r].outcome \notin Good
       /\ \/ "middleware" \in view[r].boundary /\ At(r, "done")
          \/ view[r].boundary = {"view"} /\ At(r, "middlewares")
       => \A mark \in Mark : ~Stored(r, mark)

\* 200 and 201 are answered only if the command is in the database, by this
\* request or by the one it replays.
SuccessIsStored ==
  \A r \in Request : At(r, "done") /\ req[r].outcome = "success" => Known(r)

\* Retries of a command, also side by side and after a lost COMMIT, apply it
\* once, and the hooks after the write run for the request that applied it.
AppliedOnce ==
  \A r \in Request :
    /\ Stored(r, "main") =>
         \A q \in Request \ {r} : command[q] = command[r] => ~Stored(q, "main")
    /\ Stored(r, "after") => Stored(r, "main")

\* Of the updates that name the version they read, one per version takes effect:
\* no such update is lost to another.
GuardedNotLost ==
  \A r, q \in Request :
    /\ r # q /\ view[r].guarded /\ view[q].guarded
    /\ Stored(r, "main") /\ Stored(q, "main")
    => req[r].base # req[q].base

\* Every request is answered; the client of a command need not wait for ever.
EveryRequestAnswered == <>Answered

\* The pool has its connections back when the last request is answered, whichever
\* error has left which owner.
ConnectionsReturned == Answered => free = PoolSize

\* Between any two steps no more connections are out than the pool has, and all of them
\* are back in the end.
CommandsReturn == TypeOK /\ ConnectionsReturned

================================================================================
