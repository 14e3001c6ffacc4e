# A TLA+ verification of aiohttp_boilerplate

`aiohttp_boilerplate` is a library for aiohttp services backed by asyncpg. Its
core promise is the atomic HTTP request: one database transaction for a whole
request, owned by one task, shared by middleware, views, models and raw SQL
helpers, with callbacks after the commit. This directory holds the TLA+ models
of the library, the TLC configurations that check them and the TLAPS proofs.

## 1. Inventory

| Part (source) | State it keeps | Operations | Interacts with |
| --- | --- | --- | --- |
| HTTP transaction engine (`transactions.py`) | per request a `TransactionScope`: connection, task, lifecycle, `rollback_only`, `response_violation`, callbacks; a context variable and a request key that point at it | `http_transaction` (own or join), `current_scope`, `acquire_connection`, `joined_transaction`, `recovery_savepoint`, `on_commit`, the response-preparation guard | the asyncpg pool and server; middleware and views call it; child tasks inherit its context |
| Atomic boundary (`middleware/transactions.py`, `views/atomic.py`) | configured methods | decide whether a request, or a view's dispatch, runs in `http_transaction` | engine, configuration |
| SQL adapter (`sql/__init__.py`) | per instance: cached connection, borrowed scope, transaction depth, last query | `get_connection`, `release`, `transaction`, `execute` and the statement builders | engine, pool |
| Models (`models/__init__.py`) | in-memory `data` of a record | `select`, `insert`, `update`, `delete`, batch forms, JSONB variants, write scopes | SQL adapter |
| CRUD views (`views/create.py`, `update.py`, `options.py`, `retrieve.py`, `list.py`) | the request's data, a replay flag | hooks before, in and after the transaction, conditional update, listing | models, schemas, engine |
| Response cache (`views/mixins.py`) | entries with an expiry, per application | `_cached_call` | views |
| Request context (`views/request.py`, `middleware/logger_to_request.py`) | per-request id, identity, adapter of legacy attributes | install, replace, read | auth, cache, log |
| Middleware chain (`middleware/*`) | none | request id and log, JSON errors, header erasure, transaction, application middlewares | all of the request path |
| Bootstrap and resources (`bootstrap/*`, `dbpool/*`) | pool and client sessions, opened and closed by cleanup contexts | `create_app`, `_resource_contexts`, CORS set-up | configuration |
| Configuration (`config/__init__.py`) | immutable settings | environment and mapping loading, validation | bootstrap |
| Auth (`auth/__init__.py`) | none | token validation | request context |
| Schemas (`schemas/*`, parts of `views/options.py`) | none | join aliases, output shaping | list and retrieve views |
| Logging (`logging/*`), test utilities, examples | formatting only | | none |

### What is hard here

* asyncio switches tasks at every `await`. Child tasks inherit the scope and run
  while their owner is suspended in BEGIN, SELECT 1, COMMIT, ROLLBACK or
  `pool.release`, and may outlive the request.
* Every await may fail or be cancelled: a COMMIT with an unknown outcome, a
  rollback that fails, a release that raises.
* A handler may swallow a failure. PostgreSQL then has an aborted transaction
  (COMMIT would roll back silently), or the owner has half a joined command.
* Recovery savepoints nest, and restore flags and callbacks to what they were.
* One-slot pools: an owner that leaks its connection stops the application.
* SQL instances cache a connection, and may be shared by tasks.
* Post-commit hooks can fail after the data is durable; caches compute a value
  before they store it; start-up may fail half-way.

### What makes each part correct

* Engine: atomicity; a success answer and a callback only for durable work;
  failed joined commands never durable; work only from the owner's handler, on a
  connection it holds; every connection goes back; every request is answered.
* SQL adapter: a statement runs on the connection of the task that issued it;
  nothing is leaked or released twice as long as one instance serves one
  operation at a time.
* CRUD views: hooks run on the right side of the commit, with every boundary
  (none, middleware, view); a standalone view holds at most the connections it
  needs; replayed commands skip the hooks.
* Cache: an entry is never served after its time; which stale values it may
  serve.
* Resources: what start-up opened is closed once, in reverse order, also when a
  later step fails.
* Request context and authentication: an answer, a log record and an identity
  belong to one request, also when requests interleave.
* Configuration: what is accepted fits together and is the same when made again.
* Reading and writing data: a column's value comes back under its own field; a
  statement's placeholder stands for its own value; a record in memory is its
  row, or there is a reason why not; pages cover a list.

## 2. Modules

| Module | Part of the code | Checked by | Proved |
| --- | --- | --- | --- |
| `HttpTransaction` | handlers, child tasks, pool, server | `http_one_request`, `http_contention` | every safety invariant and both action properties |
| `AtomicRequest` | what the engine promises, abstractly | refinement in `http_contention` | the refinement, `ImplementsAtomicRequestHolds` |
| `SqlAdapter` | SQL instances, tasks, scopes, pool | `sql_shared`, `sql_nested` | every invariant, from `SqlInv` |
| `CrudViews` | create and update, hooks, boundaries, retries | `crud_boundaries`, `service` | every invariant, from `CrudInv` |
| `ResponseCache` | concurrent requests and a clock | `response_cache` | every invariant, from `CacheInv` |
| `AppResources` | start-up, serving, clean-up | `service` | `ResourcesAreOwned`, from `AppInv` |
| `RequestPath` | request context, authentication, error middlewares | `service` | `RequestsAreApart`, from `PathInv` |
| `Config` | loading, merging, validating, rebuilding settings | `service` | `ConfigIsSound`, from `ConfInv` |
| `SchemaRows` | columns and joins of a schema, objects of rows | `request_data` | out of reach: recursive |
| `ListPages` | limit, offset, order, count | `request_data` | `ListIsWalked`, from `PagesInv` |
| `CacheKeys` | the text of a cache key | `request_data` | `KeysAreFaithful`, from `KeysInv` |
| `ModelRecord` | one `Manager` and its row | `request_data` | `RecordIsItsRow`, from `RecordInv` |
| `SqlStatements` | names, placeholders and bound values | `request_data` | `ValuesInPlace`, from `StatementsInv` |
| `RequestBody` | `get_request_data`, `get_schema_data`, Header fields | `request_data` | `BodyLoads`, from `BodyInv` |
| `SchemaRequests` | schema requests and CORS preflights | `request_data` | `BrowsersAreServed`, from `SchemaInv` |
| `Data`, `Service` | sums of the parts from `ListPages`, and from `AppResources` and `CrudViews`, on | `request_data`, `service` | as their parts |

The engine and the adapter compose tasks, scopes and the pool in one module
each. The views are over a boundary that they see from outside (all is committed
or nothing is), which is what `AtomicRequest` says of the engine. The other
parts share no variable of the program: `Data` and `Service` are sums of them. A
behaviour of a sum is a behaviour of one part (`part` says which; the variables
of the others are 0), its constants are those of the parts, and a property of a
sum is `part = ... =>` the properties of that part's module. `MC_Data` and
`MC_Service` give the constants their values; `MC_Data` adds `SchemaRows`, whose
operators are recursive, so that no theorem can be about a module with it.
Deadlock is not checked in the sums: a read, a walk through a list or a loaded
configuration ends. The parts whose requests could wait for one another
(`RequestPath`, `CrudViews`) have liveness properties, `EveryRequestEnds` and
`EveryRequestAnswered`, which a deadlock of theirs would violate.

## 3. The engine: `HttpTransaction`

**Granularity.** A step runs from the resumption of one `await` to the next. The
owner of a request is at `pc`: `acquire` (await `pool.acquire`, line 234),
`start` (242), `handler` (243), `probe` (SELECT 1, 249), `commit` (251),
`rollback` (245 or 256), `release` (262), `callbacks` (263-276), `done`.
`scope` is the `TransactionScope`; `exc` is the exception that the handler's
code is propagating, `stack` the context managers it is inside of: joined
commands (`joined_transaction`), a joined view (`http_transaction` under the
middleware's) and recovery savepoints. A handler is any program of at most
`Budget[r]` operations: statements that succeed or fail, `on_commit`, entering
and leaving a context manager, raising, catching, preparing a response,
spawning a child task. Leaving frames is free, so every handler ends.

**Server and pool (external).** A connection's `session` has a holder, a state
in the pool and the server's transaction: `idle`, `open`, `aborted`, or
`indoubt` when the owner left during COMMIT. COMMIT of an aborted transaction
makes nothing durable and raises nothing. `pool.release` resets the session in
the background (asyncpg shields it), so a cancelled owner can be gone first.
An asyncpg `Transaction` whose BEGIN or COMMIT failed is in its failed state,
where `rollback()` raises at once and is suppressed: those paths go straight to
the release.

**History variables.** `work[r]` is what the handler counts on: the writes that
succeeded, without those of savepoints it saw rolled back. `torn` is what failed
joined commands had written. No guard reads them, except that a callback
announces a write of `work`.

**Abstractions.** Data is a write's name. HTTP statuses are "success",
"failure". HTTPException below 400 is the exception `redirect`. Using a scope
with another pool or request raises like any other error. Cancelled awaits of
the handler are its `Raise`. Callbacks may use the scope (and are refused) or
prepare a response (and are not).

### Runs

| Run | Instance | Shows |
| --- | --- | --- |
| `http_one_request` | one request, six operations, one connection | `TypeInv`, `AllOrNothing`, `SuccessIsDurable`, `TornIsNeverDurable`, `PublishedIsDurable`, `NoWriteAfterHandler`, `ResponseSettlesOutcome`. Six operations hold two nested savepoints around a failed joined command, or a savepoint with a write, a callback and a failed rollback inside another |
| `http_contention` | two requests, one connection, three and one operations | `OwnWorkOnly`: a callback of the first cannot reach the connection when the second holds it; `SafetyInv`, the inductive invariant of the proofs; `ImplementsAtomicRequest`: the refinement with two requests; under `FairSpec` also `EveryRequestAnswered` and `ConnectionsReturn`: with one connection, a path that keeps it stops the other request |
| `http_release_loses_callbacks` | as the first | violation of `CommittedIsAnnounced`, see findings |
| `http_violation_commits` | as the first | violation of `ViolationForbidsCommit`, see findings |

**Fairness.** Weak fairness of a request's own steps: every await on the
database or the pool is answered and the handler terminates. That is what
asyncio and asyncpg give as long as the server answers. Cancellations and
`pool.acquire` failures have no fairness: a request stuck in the pool's queue is
not rescued by its client giving up. Weak fairness of the pool's reset. Requests
are finitely many, so weak fairness of `Acquire` is enough.

## 4. The SQL adapter: `SqlAdapter`

An instance of `SQL` caches a connection in `_conn`, remembers the scope that
lent it in `_borrowed_scope` and counts the `transaction()` blocks it is in:
`sql[i]` is these three fields. `stack` holds the transactions a task is inside
of: `own` and `joined` blocks of `SQL.transaction()`, an `http` transaction, its
`callbacks`. `pc` is `acquire`, `await` (of the call in `call`) or `release`
when the task is suspended, `ready` when its code runs.

| Code | Model |
| --- | --- |
| `conn` getter, checks of `get_connection` (86-114) | `CurrentScopeRaises`, `Refuses`, `Refused` |
| `get_connection` (113-124) | `AtHand` (the scope's connection, or the cached one), `Attach`; else `WaitForPool`, `Acquired`, `AcquireFails` |
| `execute`, `select` (175-250) | `Execute`, `StatementEnds` |
| `transaction` (158-173) | `OpenBlock`, `BeginReturns`, `BeginFails`, `LeaveJoined`, `LeaveOwn`, `BlockEnds` |
| `release` (148-156) | `Release`, `ReleaseReturns`, `ReleaseFails`, `Forget` |

Connections are numbered as the pool lends them. asyncpg (external) detaches a
proxy before `pool.release` awaits anything: the connection is dead at once and
a second release of it does nothing. That is why an instance with a stale
connection fails one standalone statement and is well again, and why it is
refused in an HTTP transaction, where the check comes before the statement. A
release that failed frees its slot at once here; `HttpTransaction` has the
reset in the background.

`http_transaction` appears as its connection: `EnterHttp`, `LeaveHttp`,
`CallbacksEnd`. The scope of a task is the `http` frame it is in, that of a child
task is its parent's (or one that is over, which raises as well).

An instance that a task made serves that task, in and out of HTTP transactions.
A `Shared` one, made before the requests, is used in HTTP transactions only:
outside them the class asks for one operation at a time, and two tasks would
lose a connection.

| Run | Instance | Shows |
| --- | --- | --- |
| `sql_shared` | two requests and a child task of one, a model each and one in common; four, two and one operations, pool of two | `ScopedStaysHome`, `SequentialUse`, `OwnerKeepsConnection`: four operations are HTTP transaction, block, statement in it and one more, while the other request does the same to the shared model |
| `sql_nested` | a task with two models and six operations, another task with one of each, pool of three | `BlockKeepsConnection` and `InstancesSound` (types, `NothingLost`, `IdleInstanceIsClean`), with blocks in blocks and HTTP transactions in blocks; `ConnectionsReturn`: the first task may hold the whole pool, the second waits for it |
| `sql_stale_release` | two tasks, a model each and one in common, three operations each, pool of one | violation of `PrecreatedModelsBorrow`, see findings |

In `sql_nested` the pool has as many connections as the nesting task can hold,
so that it can always go on. With fewer it waits for itself, which no text of the
repository excludes and the code does not prevent; the hazard is listed.

**Fairness.** As for the engine: every await is answered and every block is
left (`Progress`). No fairness of new operations, of failures of the pool or of
exception handlers. Tasks do finitely many operations, so waiting for the pool
needs weak fairness only.

## 5. The response cache: `ResponseCache`, `CacheKeys`

`ResponseCache` has one action per outcome of `_cached_call`: `Hit`, `Miss`,
`Bypass`, then `Reads` (the operation reads its data), `Returns` or `Fails`;
`Tick` is the loop's clock. A value is who computed it and when it was read, so
that a property can tell whose and how old a response is. `began` is the local
variable `now` of the code. An expired entry that is popped and one that never
was are `Absent`. A key is the record of the parts that `build_cache_key` joins.
Whether the method is safe and whether the query bypasses the cache are part of
the resource (`Volatile`).

`response_cache` runs three requests, each with either of two identities or
none, for a cacheable and a volatile resource, TTL 2, clock to 3. Two requests
that miss and one that hits are enough for an older response to replace a newer
one; three ticks let an entry expire. Requests and identities are symmetric.
`ServedWithinTTL`, `SharedOnlyAlike` and `BypassIsPrivate` hold. The cache may go
back in time: a client may see a newer response, then an older one, within the
TTL. ADR 0006 promises no more.

`CacheKeys` says when the joined text may be taken for the record.
`KeysAreFaithful` has three parts, about two requests:

* `SharedOnlyEqual`: they share a key only if they agree in all that it is made of,
  provided that the path and the varying headers hold no `|` and header values no
  `&` (`Clean`). The code escapes the query only, and without either proviso the
  same instance has two requests with one key.
* `OneDifferenceIsSeen`, with any characters: for one path and the same varying
  headers, another query or identity is another key, and so is another path, or
  another value of one header, alone. What is left, and can collide, are requests
  that differ in several parts at once and hold separators in path or headers.
* `OrderIsNothing`, with any characters: they share a key when only the order of
  query items differs; repeated parameters keep all their values, sorted.

A text is a sequence of characters; `urlencode` escapes what separates, so that an
item of the query is a character of its own. `Sorted` is an arrangement in order.
The texts of the instance hold the separators `|`, `&` and `=` wherever two keys
could meet, in the path as well.

## 6. Creates and updates: `CrudViews`

`req[r].pc` is where a request is in `CreateView._post` or
`UpdateView._patch`: `acquire` (a boundary's connection), `load` (`on_start`, the
body), `before`, `open` (`obj.sql.transaction()`), `lookup` and `write`
(`perform_create`, `perform_update`), `hook` (`after_*_in_transaction`), `commit`,
`after`, `reply`, then the layers around the view: `leave` (the view's own
boundary, `views/atomic.py`), `middlewares` (the application's), `respond` (the
transaction middleware). What a request writes is one mark per place; `pending`
and `durable` are sets of them. `Command` is what a client retries: the
application's `perform_*` looks the key up and sets `replayed`, and the database
keeps the key unique (both external). `CommitInDoubt` is a COMMIT whose
connection is lost, with either outcome.

| Run | Instance | Shows |
| --- | --- | --- |
| `crud_boundaries` | two requests of two commands (so also a retry beside its first), creates and updates, all four boundaries, guarded by a version or not, and a create whose hook has a model of its own; pool of three | `HookWithWrite`, `FailureLeavesNothing`, `SuccessIsStored`, `AppliedOnce`, `GuardedNotLost`, `CommandsReturn` (types, `ConnectionsReturned`); deadlock is checked |
| `service`, part `commands` | two requests, hook with a model of its own, outside of any boundary or (creates only) in the middleware's; pool of three | `EveryRequestAnswered` |

Two requests are a writer and the one it races; a third adds no new pair.
Outside of a boundary a hook with another model takes a second connection while
the block holds one: with as many connections as such commands everyone may
wait on everyone, which is why `service` has one more. What that hook writes is
committed on its own and stays when the block is rolled back; `HookWithWrite`
exempts it by `Escapes`. Fairness is of `Step(r)`: awaits are answered and hooks
return, errors need not happen.

## 7. What a service is started with, and what a request passes: `Service`

**`AppResources`.** `CreateApp`, the entries and exits of the cleanup contexts
(`_resource_contexts` and the application's `tasks` context), serving, SIGTERM,
draining, and cleanup, once or again. aiohttp's `AppRunner` and
`cleanup_ctx` are external: entered in order, left in reverse order, an error of
one exit is collected. `close()` of the pool waits for the connections of
handlers that were cancelled. `ResourcesAreOwned` is `TypeOK`,
`ClosedOnceByOwner`, `CreationsAreClosed` and `UsedWhileOpen`. Every way to inject
either resource or both, with or without `take_ownership`, and two requests.
Fairness: aiohttp drives start-up and cleanup and requests end; no request and
no signal has to come. `CleanupEnds` follows.

**`RequestPath`.** Two requests interleave at their awaits: the authentication
service, `check_permission`, the handler. `context` and `log` are the two keys
that `install_request_context` sets, `view` the logger that a view keeps from its
construction, `records` every log record with its request. `Stamp`, `JsonErrors`
and `EraseHeaderServer` are the three middlewares on the way out. The requests
may send the same identifier or none, and none, one or two credential headers;
the service accepts (with or without an identity), rejects, fails or never
answers. `RequestsAreApart` is `TypeOK`, `AnsweredWithOwnId`, `RecordsAreOwn`,
`IdentityIsAccepted`, `InternalsAreHidden` and `OwnSessionsAreClosed`.
`EveryRequestEnds` needs fairness of `Step(r)`, which has the session's timeout
but not the service's answer.

**`Config`.** `Load` is `load_config`: `EnvValues` reads, `Merged` lets
`<app_dir>.config` override, `FromMapping` makes and validates an `AppConfig`;
`Compat` is the mapping that an `AppConfig` shows, from which `Rebuild` makes
one again. CORS settings are flat, in a mapping of their own (`CorsSettings`), or a
`CorsConfig`, which is taken as it is (`CorsOf`); `AuthUrl` is the check of
`AUTH_URL`. One setting stands for all that are treated alike; its texts are on
both sides of each bound, malformed, empty and missing. `ConfigIsSound` is
`AcceptedIsConsistent`, `EmptyIsUnset`, `ApplicationWins` and `RebuildKeeps`.
`ApplicationWins` is about every key that the application gives: its own keys, the
groups and the settings in upper case hold what it gave; the names in lower case
have no effect (section 9). The required settings vary alone, the optional ones in
groups that are validated together: settings of different groups do not meet in
the code.

## 8. What a request reads and writes: `Data`

| Module | Correspondence | Instance | Property |
| --- | --- | --- | --- |
| `SchemaRows` | `Visit` is the traversal that builds columns and joins with one alias counter, `Object` the nested objects of a row, `Dump` what the schema makes of them | every pair of fields of a table, joins of up to two levels around plain columns, up to two rows | `RowsAreAnswered`: `SelectedIsAnswered`, `FoundIsAnswered`, `ColumnsApart` |
| `ListPages` | `get_limit`, `get_offset`, `get_order`, the page and its count, each read by its own statement; others insert or delete a row between them; the client walks by offset | three rows of two ranks, pages of up to two, every kind of parameter | `ListIsWalked`: `WalkComplete` (while nobody writes and with a total order, which the client has to ask for), `PageFits`, `BadQueryIsRefused` |
| `CacheKeys` | section 5 | | `KeysAreFaithful` |
| `ModelRecord` | an action per public method of `Manager`, with `_write_scope`; `Other` is another session; `home`, `excuse` and `wrote` are history | two ids, two values, six calls: a load, a write, a rollback and a second write, with room for another session | `RecordIsItsRow`: `WritesStayHome`, `MemoryIsRow` |
| `SqlStatements` | `combine_bound_values`, `Unique`, `prepare_where` and each builder; a call is one step | up to two names in each place, some of which equal the library's own or what its suffixes make | `ValuesInPlace`: `PlaceholdersMatch`, `OwnIdInScope` |
| `RequestBody` | `get_request_data` and `get_schema_data` in any order, `request_data` is text, then value | one body field, one header field, a foreign key, every kind of JSON | `BodyLoads`: `LoadRefuses`, `LoadedAgain`, `HeaderFieldsFromHeaders`, `ErrorKept` |
| `SchemaRequests` | `options()`, its CORS headers, aiohttp-cors (external), a browser that sends a preflight first | two origins, every set of methods, every request | `BrowsersAreServed`: `PromiseKept`, `OriginOnce`, `SchemaAvailable` |

A unit test has one call; these have all orders of calls and all clashes of names
within the bounds. Ids and values of `ModelRecord` are symmetric.
`schema_attributes` is the same module with a column that has another name in
the database, and violates `SelectedIsAnswered`, see findings; in `request_data`
names and columns agree.

## 9. Findings

* `transactions.py:262`: an exception or a cancellation of `pool.release` after
  COMMIT skips every callback and turns the answer into an error
  (`http_release_loses_callbacks`).
* `transactions.py:247-251`: the violation flag is read before SELECT 1 is
  awaited; a child task that prepares a response during that await records the
  violation, and COMMIT is sent all the same. No bytes leave the process
  (`http_violation_commits`).
* `sql/__init__.py:155`: after a failed `pool.release` the instance keeps the dead
  connection, and the next HTTP transaction refuses the instance
  (`sql_stale_release`).
* `views/options.py:449`: a field with `attribute` is selected under its name and
  looked up under its attribute, so it is answered with null
  (`schema_attributes`).

Observed while modelling, without a run of their own:

* What a hook writes with another model outlives the rollback of a standalone
  transaction (`views/create.py:56,88`).
* Whether the id is among the selected columns is a test on their text
  (`views/retrieve.py:30`): with a column such as `identity` it is not selected
  and an existing row is a 404.
* Lower-case keys of `<app_dir>.config` such as `auth_url` have no effect and are
  missing in the mapping, although `docs/migration-0.9.md:20` promises that merged
  values remain available: `load_config` sets the upper-case name, which is read
  first (`config/__init__.py:470`), and the other one is no extra (494-525). The
  second half of `ApplicationWins` states it as it is.
* With `cors: CorsConfig()` in `<app_dir>.config` a DOMAIN is accepted without
  origins (`config/__init__.py:457`), which is refused everywhere else (339-342).
  `AcceptedIsConsistent` makes that exception.
* Injected resources taken with `take_ownership` stay open when start-up fails
  before their context is entered (`bootstrap/web_app.py:165`,
  `docs/migration-0.9.md:4`).
* A task that holds a connection and takes another one, such as a standalone create
  whose hook uses another model, can wait for a pool whose connections are all held
  by its like (`sql/__init__.py:120`). No property excludes it, and the runs have a
  connection to spare.
* Pages of a list that others change meanwhile repeat or miss rows, and a count may
  not be that of its page (`views/list.py:149`): nothing promises otherwise.
* Requests that differ in several parts and hold separators in path or headers can
  have one cache key (`views/mixins.py:35`, section 5).
* A stream that the handler prepared keeps its Server header
  (`middleware/defaults.py:13,19`).
* The preflight of `GET ?schema=1` is refused for views without a GET handler
  (`views/options.py:88`, `README.md:52`).
* Expired entries of the cache are dropped only when their key is asked for
  (`views/mixins.py:113`).
* Two tasks that use one SQL instance at once outside of HTTP transactions lose a
  connection (`sql/__init__.py:120`); the class asks for one at a time.
* A second `get_request_data(to_json=True)` raises TypeError
  (`views/options.py:56`); `LoadedAgain` and `ErrorKept` exclude it.

## 10. What is proved

All theorems hold for every value of the constants that satisfies
`ConstantsAssumption` of the module they are about (`PartsAssumption` of a sum is
that of each part): any finite or infinite sets
of requests, tasks and instances (`CrudViews` needs finitely many requests, its
pool is a count), pools of any size, budgets and views of any kind. The
assumptions say what the code takes for granted. Some of them are not only types:

* `CrudViews`: a view that is guarded by a version is an update (there is no
  version to name before the row exists);
* `RequestPath`: "no identifier" is not an identifier, neither one that is given
  nor a fresh one (`middleware/logger_to_request.py:18`: an empty header counts as
  none, a fresh identifier is the text of a UUID);
* `Config`: an origin's canonical form is its own canonical form
  (`config/__init__.py:244-276`), and what `<app_dir>.config` gives a setting is of
  a type that its parser takes: a text, a number, a flag, a list of origins or
  nothing, a mapping for a group, and a mapping, nothing or a `CorsConfig` that its
  constructor has parsed for `cors`. An application that gives a port as a list is
  outside of the model and of the theorem;
* `CacheKeys`: a text has characters, an item of a query has a name and a value.

**Types of the engine** (`HttpTransactionProofs`). `TypeCorrect` is
`Spec => []TypeInv`. `TypeOK` alone is not inductive: `del callbacks[checkpoint:]`
is well formed only if the checkpoint is not beyond the list. `TypeInv` adds
`Connected` (a request has a connection from its acquisition to its end) and
`Marks` (the checkpoints of the frames grow with their depth and stay within the
callback list).

**Safety of the engine** (`HttpTransactionInductive`, `HttpTransactionProofs`).
`Safety` is `Spec => []SafetyInv`, and `OwnWorkOnly`, `AllOrNothing`,
`SuccessIsDurable`, `TornIsNeverDurable` and `PublishedIsDurable` are read off it.
None of the five is inductive: each speaks of the outcome and says nothing of
the states on the way. `SafetyInv` adds what the code relies on there:

* `LifecycleInv`: which lifecycle of the scope goes with each `pc`;
* `HoldInv`: a request between acquisition and release holds its connection's
  session, alone, and a session is in a transaction only where the owner has
  begun one and not ended it;
* `WorkInv`: what the server has pending and what the handler counts on
  agree, as long as the request may commit;
* `FrameInv`: the same for what every open frame remembers, so that a rollback to
  a savepoint restores the agreement;
* `FreshInv`: operations not yet performed have written nothing, so a new write
  is not among the torn ones;
* `OutcomeInv`: what is durable, published and answered, given `pc`;
* `SessionInv`: sessions that no request owns carry no work.

The proof has one lemma per action. A step of one request leaves the invariants
of the others alone (`LocalStep`, `StepKeepsSafety`); what is left is its own
part, with shared lemmas for steps inside the handler, steps that only move the
owner, the `finally` of `http_transaction`, and the pool and the server. The
invariant is also checked by TLC, in `http_contention`.

**Steps of the engine, and what it implements** (`HttpTransactionRefinement`).
The action properties and the refinement need the order of a request's steps,
which no safety property speaks of. `ProgressInv` (in `HttpTransactionInductive`)
has it: nobody is answered before `done`; no bytes leave and no callback runs
before the transaction is over; what a connection carries, and what is
registered, are operations that the handler has performed. With `SafetyInv`:

* `NoWriteAfterHandlerHolds`: only `Execute` in a handler adds to what a connection
  carries, every other action leaves it or takes from it (`PendingStep`);
* `ResponseSettlesOutcomeHolds`: what is durable changes in a COMMIT of an owner
  at `commit`, who has sent nothing, or in one that the owner has left in doubt;
* `ImplementsAtomicRequestHolds`: initial states map to initial states
  (`RefinementInit`) and a step to a step of `AtomicRequest` or a stutter
  (`RefinementStep`): COMMIT, also one that ends late, is `CommitRefines`, an
  answer is `SucceedRefines` or `FailRefines`, a callback is `AnnounceRefines`, and
  the steps of handlers, child tasks and the pool leave the abstract variables
  alone.

**The cache** (`ResponseCacheProofs`). `CacheInvariant` follows a value from its
operation to the store and to the responses: a request reads after it looked up
(`ReadInv`); an entry was produced for its key by a cacheable request and
expires within `TTL` of its reading (`EntryInv`); a response was produced by the
request itself or by one with the same key (`AnswerInv`). The four properties
and the types follow; the run checks the three of them that relate requests.

**The SQL adapter** (`SqlAdapterProofs`). `SqlInvariant` is
`Spec => [](TypeOK /\ SqlInv)`; `ScopedStaysHome`, `SequentialUse`,
`OwnerKeepsConnection`, `BlockKeepsConnection` and `InstancesSound` are read off
it. The properties speak of connections in use; the code keeps them by three
fields per instance, and what those mean depends on who uses the instance. So:

* `TaskInv`, per task: what it awaits (`CallInv`), in which order the kinds of
  its blocks can be nested (`ShapeInv`), that each block's connection is its
  instance's and lent (`FrameInv`), and that `depth` of an instance counts the
  blocks of its user (`UseInv`);
* `OneUser`: a task that uses an instance is the only one. For a shared instance
  it is the code that sees to it: two requests may call it, and the second is
  refused while the first one's scope is remembered;
* `IdleInv`: an instance without a user has no block and no scope, and a
  connection that it still names is a dead one;
* `DistinctInv`, `NumberInv`: owned connections, of instances and of HTTP
  transactions, are all different, and numbers are of connections lent so far;
* `HeldInv`: every lent connection has an owner that is in use.

`SequentialUse` follows from `OneUser` and `DistinctInv`, `NothingLost` from
`HeldInv`. Each action has its lemma; shared ones say what a step of one task
leaves of the others, and what entering and leaving a block does to a stack.

**Creates and updates** (`CrudViewsProofs`). `CrudInvariant` is
`Spec => [](TypeOK /\ CrudInv)`. `CrudInv` has, per request, which of its writes
are pending or durable at each `pc` (`PlaceInv`, `PendingInv`, `StoredInv`) and
what a success still relies on while the layers around the view are left
(`AnswerInv`). `ClaimInv` is what makes `AppliedOnce` inductive: a command is
claimed by a pending write already, not only by a durable one, and there is one
claim per command. `VersionInv` does it for `GuardedNotLost`: a guarded update
whose write is pending has read the record's present version. `PoolInv` counts
the requests that hold a connection; `ConnectionsReturned` follows, and with the
types `CommandsReturn`.

**Start-up, requests, configuration** (`ServiceProofs`). The theorems are about
`Service` with any constants: `Spec => []ResourcesAreOwned`, `[]RequestsAreApart`
and `[]ConfigIsSound`. A behaviour of the sum is one of its part from the first
state on (`ServiceIsApp`, `ServiceIsPath`, `ServiceIsConfig`), and for each part
there is an inductive invariant:

* `AppInv`: the contexts entered are a beginning of their order (`ExitsInv`),
  those left an end of them, with the cursor of the cleanup between the two
  (`LeftInv`); whether a resource is open, and how often it was closed, follows
  from both and from who owns it (`ResourceInv`), also through failing exits and
  a second cleanup; `KeyInv` and `RequestInv` relate the application's keys and
  the running handlers to it.
* `PathInv` follows a request: identifier and user of its context at each `pc`,
  the same in the view's logger, and what the middlewares can still find in a
  result on its way out (`Pending`: details only where they will be taken away).
* `ConfInv`: what is loaded is a function of the environment and the application,
  and is kept by a rebuild. That is the hard half of `RebuildKeeps`: each setting
  of the compatibility mapping must be read back as what it was, an empty one as
  unset. Origins are deduplicated and made canonical, and a second time changes
  nothing, by induction over the list (`SeenExists`), in a `CorsConfig` of the
  application as well (`CorsConfigFacts`). `ApplicationWins` compares what is parsed
  with and without the environment: a setting that is given is looked up before any
  other one (`Holds`, `CorsHolds`), and what is parsed is the same without the names
  in lower case (`SameParsed`).

**Lists, records, bodies, schemas** (`DataProofs`), about `Data` with any
constants:

* `ListIsWalked` from `PagesInv`: as long as nobody writes and the order is total,
  the pages so far are the beginning of the list. There is one order only: a
  row's place is the number of the rows before it. `PageFits` and
  `BadQueryIsRefused` are proved for every interleaving of writes.
* `RecordIsItsRow` from `RecordInv`, which adds `KnowsItsRow`: the id that
  `_write_scope` adds to a predicate is that of the row the data came from, unless
  an update of the id itself has let them part. No bound on the calls is used.
* `BodyLoads` from `BodyInv`: until a call asked for JSON, `request_data` is nothing
  or the body's text, so that a second load starts from what the first one did.
* `BrowsersAreServed` from `SchemaInv`: the answer is that of the last request, and
  what was promised is still so.

**Statements and keys** (`StatementsProofs`), about `Data` too:

* `ValuesInPlace` from `StatementsInv`. `combine_bound_values` keeps a value's place
  for any number of columns and parameters that share names: `Unique` finds a
  free name among finitely many that are taken, and the steps of the loop, by
  induction, add at the end and overwrite nothing (`StepsExist`).
* `KeysAreFaithful` from `KeysInv`: an answer is from the store if and only if the
  keys are equal. `KeyApart` reads the key of a `Clean` request back: a text
  without a separator that is followed by one ends there (`SplitOnce`); the
  headers follow by induction over `cache_vary_headers` (`HeadersApart`), and the
  identity is the rest. With any characters, what is equal at either end of two
  keys cancels, the query comes apart as it is escaped (`QueryApart`), and so
  `OneDifference` is seen; for one header, what is before and behind it cancels,
  by induction over the headers (`OneHeader`). `SameCanonical` says that the
  sorted query stands for its items with their repetitions: every query can be put
  in order (`SortedExists`, an item's place is the number of those that are not
  after it), and in one way (`SortedIsUnique`, by the pigeonhole principle).

**Induction.** The library's induction theorems take an operator and are out of
the provers' reach. The proofs use induction over a set instead
(`InductionOverSet`, from the least element of a set of naturals), also for the
existence of the recursive functions in the model: it gives a function for each
length of the list (`StepsExist`, `SeenExists`, `FlatExists`), and the definition
is then what its equation says.

**What the proofs changed.** The arms of a CASE in `Load` of `RequestBody`
overlapped, so that TLC's choice among them and the model's meaning were not the
same thing; they are a chain now, in the order of the code.
`AcceptedIsConsistent` speaks of the CORS settings after they are merged.
`CacheKeys` sorts with an operator of its own, as the library's is defined by
TLC and has nothing to expand.

**Only model-checked.** Liveness (`EveryRequestAnswered` of both modules,
`EveryRequestEnds`, `CleanupEnds`, both `ConnectionsReturn`), which is out of reach
of the prover. `RowsAreAnswered`: `SchemaRows` visits nested schemas recursively,
and no theorem can be stated in a module that reaches a recursive operator.

**Not modelled.** `console_app`, the codecs of `dbpool` and its dummy pool; the
contents of JSON schemas, of `_fields` and of validation metadata; conversions
and validators of single field values; formatting of logs, errors and bodies;
names that contain `__`; deprecated aliases; the test utilities and the
examples. None of them keeps state over an await; the reasons per component are
in `PROJECT.json`.
