------------------------------ MODULE AppResources ------------------------------
(***************************************************************************)
(* The resources of an application: create_app, its two cleanup contexts   *)
(* (aiohttp_boilerplate/bootstrap/web_app.py) and the life that web_app()  *)
(* of bootstrap/__init__.py gives them with aiohttp's AppRunner.           *)
(*                                                                         *)
(* aiohttp enters the contexts in order, keeps those that it has entered   *)
(* and leaves them in the reverse order, also when a later one has failed. *)
(* The application's tasks module may add a context after the library's.   *)
(***************************************************************************)
EXTENDS Naturals, Sequences, SequencesExt

CONSTANTS
  MaxRequests  \* requests that are served at once

ConstantsAssumption == MaxRequests \in Nat

VARIABLES
  cfg,       \* the arguments of create_app, and whether there is a tasks context
  phase,
  state,     \* a resource: "none" before it is created, "open" or "closed"
  closes,    \* how many times it has been closed
  key,       \* resources that the application's keys name
  exits,     \* contexts that aiohttp has entered
  left,      \* contexts whose generator has finished
  cursor,    \* the exit that the cleanup has come to
  active,    \* requests with a running handler
  cancelled  \* handlers that the end of the shutdown timeout has cancelled

vars == <<cfg, phase, state, closes, key, exits, left, cursor, active, cancelled>>

Resource == {"pool", "session"}
Context == Resource \cup {"tasks"}
Phase == {"create", "raised", "startup", "serving", "draining", "cleanup", "ended"}

\* Injected resources are open; take_ownership is for them.
Init ==
  /\ cfg \in [injected : SUBSET Resource, take : BOOLEAN, tasks : BOOLEAN]
  /\ phase = "create"
  /\ state = [r \in Resource |-> IF r \in cfg.injected THEN "open" ELSE "none"]
  /\ closes = [r \in Resource |-> 0]
  /\ key = {} /\ exits = <<>> /\ left = {} /\ cursor = 0
  /\ active = 0 /\ cancelled = 0

Owned(r) == r \in cfg.injected => cfg.take

\* Middlewares, tasks, routes, OpenAPI and CORS are set up: any of them may raise.
CreateApp ==
  /\ phase = "create" /\ phase' = "startup"
  /\ key' = cfg.injected
  /\ UNCHANGED <<cfg, state, closes, exits, left, cursor, active, cancelled>>

CreateAppRaises ==
  /\ phase = "create" /\ phase' = "raised"
  /\ UNCHANGED <<cfg, state, closes, key, exits, left, cursor, active, cancelled>>

Contexts == <<"pool", "session">> \o (IF cfg.tasks THEN <<"tasks">> ELSE <<>>)
Remaining == Len(exits) < Len(Contexts)
NextContext == Contexts[Len(exits) + 1]

\* database_context, auth_context or the application's own, up to its yield.
Enter ==
  /\ phase = "startup" /\ Remaining
  /\ exits' = Append(exits, NextContext)
  /\ IF NextContext \in Resource
       THEN state' = [state EXCEPT ![NextContext] = "open"] /\ key' = key \cup {NextContext}
       ELSE UNCHANGED <<state, key>>
  /\ UNCHANGED <<cfg, phase, closes, left, cursor, active, cancelled>>

\* The cleanup of what was entered: AppRunner.cleanup() in the finally of web_app.
StartCleanup == phase' = "cleanup" /\ cursor' = Len(exits)

\* The resource cannot be created, or the tasks context fails.
EnterRaises ==
  /\ phase = "startup" /\ Remaining /\ NextContext \notin cfg.injected
  /\ StartCleanup
  /\ UNCHANGED <<cfg, state, closes, key, exits, left, active, cancelled>>

Close(r) == state' = [state EXCEPT ![r] = "closed"] /\ closes' = [closes EXCEPT ![r] = @ + 1]

\* A new resource's assignment to the application raises (a warning that is an
\* error): its finally closes it, and aiohttp never enters it.
PublishRaises ==
  /\ phase = "startup" /\ Remaining /\ NextContext \in Resource \ key
  /\ StartCleanup /\ Close(NextContext)
  /\ UNCHANGED <<cfg, key, exits, left, active, cancelled>>

Serve ==
  /\ phase = "startup" /\ ~Remaining /\ phase' = "serving"
  /\ UNCHANGED <<cfg, state, closes, key, exits, left, cursor, active, cancelled>>

Request ==
  /\ phase = "serving" /\ active < MaxRequests /\ active' = active + 1
  /\ UNCHANGED <<cfg, phase, state, closes, key, exits, left, cursor, cancelled>>

Respond ==
  /\ active > 0 /\ active' = active - 1
  /\ UNCHANGED <<cfg, phase, state, closes, key, exits, left, cursor, cancelled>>

\* SIGINT or SIGTERM: the site is closed.
Stop ==
  /\ phase = "serving" /\ phase' = "draining"
  /\ UNCHANGED <<cfg, state, closes, key, exits, left, cursor, active, cancelled>>

\* Mutant of Drained: the cleanup does not wait for the requests.
Drained_AtOnce ==
  /\ phase = "draining" /\ StartCleanup
  /\ UNCHANGED <<cfg, state, closes, key, exits, left, active, cancelled>>

\* The requests are answered, or their handlers cancelled after shutdown_timeout.
Drained ==
  /\ phase = "draining" /\ StartCleanup
  /\ active' = 0 /\ cancelled' = cancelled + active
  /\ UNCHANGED <<cfg, state, closes, key, exits, left>>

\* A cancelled handler has rolled back and returned its connection.
CancelledEnds ==
  /\ cancelled > 0 /\ cancelled' = cancelled - 1
  /\ UNCHANGED <<cfg, phase, state, closes, key, exits, left, cursor, active>>

\* Mutant of Leave: close is called whenever the cleanup comes by.
Leave_Again(c) ==
  /\ left' = left \cup {c}
  /\ IF c \in Resource /\ Owned(c)
       THEN (c = "pool" => active + cancelled = 0) /\ Close(c)
       ELSE UNCHANGED <<state, closes>>

\* The generator goes on after its yield; one that has finished does nothing.
\* close() of the pool waits for its connections.
Leave(c) ==
  /\ left' = left \cup {c}
  /\ IF c \in Resource \ left /\ Owned(c)
       THEN (c = "pool" => active + cancelled = 0) /\ Close(c)
       ELSE UNCHANGED <<state, closes>>

\* Mutant of Exit: an error of one context ends the cleanup.
Exit_StopsAtError ==
  /\ phase = "cleanup" /\ cursor > 0
  /\ Leave(exits[cursor])
  /\ cursor' \in {0, cursor - 1}
  /\ UNCHANGED <<cfg, phase, key, exits, active, cancelled>>

\* Mutant of Exit: the contexts are left in the order in which they were entered.
Exit_Forward ==
  /\ phase = "cleanup" /\ cursor > 0
  /\ Leave(exits[Len(exits) + 1 - cursor])
  /\ cursor' = cursor - 1
  /\ UNCHANGED <<cfg, phase, key, exits, active, cancelled>>

\* The last entered context is left; an error of its close() is collected and the
\* cleanup goes on.
Exit ==
  /\ phase = "cleanup" /\ cursor > 0
  /\ Leave(exits[cursor])
  /\ cursor' = cursor - 1
  /\ UNCHANGED <<cfg, phase, key, exits, active, cancelled>>

End ==
  /\ phase = "cleanup" /\ cursor = 0 /\ phase' = "ended"
  /\ UNCHANGED <<cfg, state, closes, key, exits, left, cursor, active, cancelled>>

\* runner.cleanup() is called once more.
CleanupAgain ==
  /\ phase = "ended" /\ StartCleanup
  /\ UNCHANGED <<cfg, state, closes, key, exits, left, active, cancelled>>

Progress == CreateApp \/ Enter \/ Serve \/ Respond \/ Drained \/ CancelledEnds \/ Exit \/ End
Next == Progress \/ CreateAppRaises \/ EnterRaises \/ PublishRaises \/ Request \/ Stop \/ CleanupAgain

Spec == Init /\ [][Next]_vars

\* aiohttp drives start-up and cleanup; requests and their cancellation end.  No
\* request and no signal has to come.
FairSpec == Spec /\ WF_vars(Enter) /\ WF_vars(Drained) /\ WF_vars(CancelledEnds)
                 /\ WF_vars(Exit) /\ WF_vars(End)

--------------------------------------------------------------------------------
(* Properties.                                                             *)

TypeOK ==
  /\ cfg \in [injected : SUBSET Resource, take : BOOLEAN, tasks : BOOLEAN]
  /\ phase \in Phase
  /\ state \in [Resource -> {"none", "open", "closed"}]
  /\ closes \in [Resource -> Nat]
  /\ key \subseteq Resource /\ left \subseteq Context
  /\ exits \in Seq(Context)
  /\ cursor \in 0 .. Len(exits)
  /\ active \in 0 .. MaxRequests /\ cancelled \in 0 .. MaxRequests

\* Whatever fails in start-up or cleanup, and however often the cleanup is run, a
\* resource is closed once at most, and one that the caller keeps is not closed.
ClosedOnceByOwner ==
  \A r \in Resource : closes[r] <= (IF Owned(r) THEN 1 ELSE 0)

\* "Every owned successful creation closes once" (docs/adr/0002): after the cleanup
\* no resource that the application has created is open.
CreationsAreClosed ==
  phase = "ended" => \A r \in Resource \ cfg.injected : state[r] # "open"

\* A running handler, and the application's own context from its entry to its exit,
\* find every resource open under its key; a cancelled one can still return its
\* connection to the pool.
UsedWhileOpen ==
  /\ active > 0 \/ ("tasks" \in ToSet(exits) /\ "tasks" \notin left) =>
       \A r \in Resource : state[r] = "open" /\ r \in key
  /\ cancelled > 0 => (Owned("pool") => state["pool"] = "open")

CleaningUp == phase \in {"draining", "cleanup"}
CleanedUp ==
  phase = "ended" /\ \A r \in Resource : Owned(r) /\ r \in left => state[r] = "closed"

\* The end of serving, and a start-up that fails, release every created resource.
CleanupEnds == CleaningUp ~> CleanedUp

================================================================================
