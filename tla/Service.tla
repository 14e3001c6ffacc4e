--------------------------------- MODULE Service ---------------------------------
(***************************************************************************)
(* The parts of the library whose progress matters (what a service is      *)
(* started with, what a request passes, a create or an update) and the     *)
(* configuration; they share no state: a behaviour of this module is a     *)
(* behaviour of one of them.                                               *)
(*   config     Config                                                     *)
(*   app        AppResources                                               *)
(*   path       RequestPath                                                *)
(*   commands   CrudViews                                                  *)
(* Constants and variables are those of the parts, under their own names;  *)
(* parts with a variable of the same name use the same one.  The variables *)
(* of the other parts are 0.                                               *)
(***************************************************************************)
EXTENDS Integers, Sequences

CONSTANTS
  Numbers, Flags, Origins, Lists, Urls, Envs, AppConfigs,  \* config
  MaxRequests,                                             \* app
  Requests,                                                \* path and commands
  GivenIds, User, Credentials, Payloads, Absent,           \* path
  Command, Views, PoolSize, NoWriter                       \* commands

VARIABLES
  part,                                               \* the part of this behaviour
  cfg, view, pc,                                      \* of two parts each
  env, app, conf,                                     \* config
  phase, state, closes, key, exits, left, cursor, active, cancelled,   \* app
  headers, context, log, records, sessions, accepted, result,          \* path
  command, req, pending, durable, writer, free                         \* commands

config == <<env, app, conf>>
resources == <<phase, state, closes, key, exits, left, cursor, active, cancelled>>
path == <<headers, context, log, records, sessions, accepted, result>>
commands == <<command, req, pending, durable, writer, free>>

vars == <<part, cfg, view, pc, config, resources, path, commands>>

Conf == INSTANCE Config
App == INSTANCE AppResources
Path == INSTANCE RequestPath WITH Request <- Requests
Crud == INSTANCE CrudViews WITH Request <- Requests

ASSUME PartsAssumption ==
  /\ Conf!ConstantsAssumption /\ App!ConstantsAssumption
  /\ Path!ConstantsAssumption /\ Crud!ConstantsAssumption

--------------------------------------------------------------------------------

NoConfig == env = 0 /\ app = 0 /\ conf = 0
NoResources ==
  /\ phase = 0 /\ state = 0 /\ closes = 0 /\ key = 0 /\ exits = 0 /\ left = 0
  /\ cursor = 0 /\ active = 0 /\ cancelled = 0
NoPath ==
  /\ headers = 0 /\ context = 0 /\ log = 0 /\ records = 0 /\ sessions = 0
  /\ accepted = 0 /\ result = 0
NoCommands == command = 0 /\ req = 0 /\ pending = 0 /\ durable = 0 /\ writer = 0 /\ free = 0

Init ==
  \/ part = "config" /\ Conf!Init /\ cfg = 0 /\ view = 0 /\ NoResources /\ NoPath /\ NoCommands
  \/ part = "app" /\ App!Init /\ view = 0 /\ pc = 0 /\ NoConfig /\ NoPath /\ NoCommands
  \/ part = "path" /\ Path!Init /\ NoConfig /\ NoResources /\ NoCommands
  \/ part = "commands" /\ Crud!Init /\ cfg = 0 /\ pc = 0 /\ NoConfig /\ NoResources /\ NoPath

Next ==
  \/ part = "config" /\ Conf!Next /\ UNCHANGED <<part, cfg, view, resources, path, commands>>
  \/ part = "app" /\ App!Next /\ UNCHANGED <<part, view, pc, config, path, commands>>
  \/ part = "path" /\ Path!Next /\ UNCHANGED <<part, config, resources, commands>>
  \/ part = "commands" /\ Crud!Next /\ UNCHANGED <<part, cfg, pc, config, resources, path>>

Spec == Init /\ [][Next]_vars

\* The fairness of AppResources, CrudViews and RequestPath.
InApp(A) == part = "app" /\ A /\ UNCHANGED <<part, view, pc, config, path, commands>>
FairSpec ==
  /\ Spec
  /\ WF_vars(InApp(App!Enter)) /\ WF_vars(InApp(App!Drained))
  /\ WF_vars(InApp(App!CancelledEnds)) /\ WF_vars(InApp(App!Exit)) /\ WF_vars(InApp(App!End))
  /\ \A r \in Requests :
       /\ WF_vars(part = "path" /\ Path!Step(r) /\ UNCHANGED <<part, config, resources, commands>>)
       /\ WF_vars(part = "commands" /\ Crud!Step(r)
                    /\ UNCHANGED <<part, cfg, pc, config, resources, path>>)

--------------------------------------------------------------------------------
(* The properties of the parts, which their modules state one by one.      *)

\* What load_config accepts fits together, takes an empty setting for an unset one and
\* the application's module before the environment, and is the same when made again.
ConfigIsSound ==
  part = "config" => /\ Conf!AcceptedIsConsistent /\ Conf!EmptyIsUnset
                     /\ Conf!ApplicationWins /\ Conf!RebuildKeeps

\* Whatever fails in start-up or cleanup: resources are closed once at most, by their
\* owner only, and after it nothing that the application created is open; handlers and
\* the application's context find every resource open.
ResourcesAreOwned ==
  part = "app" => /\ App!TypeOK /\ App!ClosedOnceByOwner
                  /\ App!CreationsAreClosed /\ App!UsedWhileOpen

\* The end of serving, and a start-up that fails, release what was created.
CleanupEnds == (part = "app" /\ App!CleaningUp) ~> (part = "app" /\ App!CleanedUp)

\* Requests side by side have their own identifier, log and identity: no answer or
\* record names another request, nor a user whom the service has not accepted, and no
\* handler runs for one; errors do not show their details, and sessions are closed.
RequestsAreApart ==
  part = "path" => /\ Path!TypeOK /\ Path!AnsweredWithOwnId /\ Path!RecordsAreOwn
                   /\ Path!IdentityIsAccepted /\ Path!InternalsAreHidden
                   /\ Path!OwnSessionsAreClosed

\* Every request is answered unless its client goes away, also if the
\* authentication service never answers.
EveryRequestEnds == <>(part = "path" => Path!Ended)

\* Creates and updates side by side are answered: three connections are enough for
\* two of them with hooks that take another one.
EveryRequestAnswered == <>(part = "commands" => Crud!Answered)

================================================================================
