----------------------------- MODULE ResponseCache -----------------------------
(***************************************************************************)
(* CacheMixin._cached_call of aiohttp_boilerplate/views/mixins.py: the     *)
(* requests of one application share a store of responses that expire.     *)
(*                                                                         *)
(* The operation of a miss is awaited, so requests for the same key may    *)
(* compute it side by side and store in any order.  A value stands for     *)
(* the request that computed it and the time at which it read its data.    *)
(* The text of a key is abstracted to the parts that it is built from.     *)
(* What a request awaits before it looks up (skip_page, cache_identity)    *)
(* reads nothing of the cache and is left out.                             *)
(***************************************************************************)
EXTENDS Naturals

CONSTANTS
  Request,     \* requests of one application
  Resource,    \* namespace, method, path, query and varying headers
  Volatile,    \* those with an unsafe method, a skip or a random order
  Identity,    \* what cache_identity may return
  NoIdentity,  \* cache_identity is not set, or returns None
  TTL,         \* cache_ttl
  NoRequest,   \* who computed a value that is not there
  MaxTime      \* bound: the clock's last value

ASSUME ConstantsAssumption ==
  /\ Volatile \subseteq Resource
  /\ NoIdentity \notin Identity
  /\ NoRequest \notin Request
  /\ TTL \in Nat
  /\ MaxTime \in Nat

VARIABLES
  now,     \* the event loop's clock
  pc,      \* "idle", "operation" (awaited), "done" or "failed"
  ask,     \* what a request asks for
  began,   \* the local variable now: the clock when the request looked up
  value,   \* what its operation has read
  store,   \* _CACHE_STORES of the application
  answer   \* the value a request was answered with, when, and was it a hit

vars == <<now, pc, ask, began, value, store, answer>>

Ask == [resource : Resource, identity : Identity \cup {NoIdentity}]
Value == [by : Request \cup {NoRequest}, at : Nat]
Entry == [expires : Nat, value : Value]
Answer == [value : Value, at : Nat, hit : BOOLEAN]

Nothing == [by |-> NoRequest, at |-> 0]
Absent == [expires |-> 0, value |-> Nothing]
Unanswered == [value |-> Nothing, at |-> 0, hit |-> FALSE]

\* Mutant of Cacheable: the method and the query are not looked at.
Cacheable_Volatile(r) == ask[r].identity # NoIdentity

\* A request with an identity, a safe method and no bypass.
Cacheable(r) == ask[r].identity # NoIdentity /\ ask[r].resource \notin Volatile

\* Mutant of CacheKey: the identity is not part of the key.
CacheKey_Anyone(r) == [ask[r] EXCEPT !.identity = NoIdentity]

\* build_cache_key.
CacheKey(r) == ask[r]

Init ==
  /\ now = 0
  /\ pc = [r \in Request |-> "idle"]
  /\ ask \in [Request -> Ask]
  /\ began = [r \in Request |-> 0]
  /\ value = [r \in Request |-> Nothing]
  /\ store = [k \in Ask |-> Absent]
  /\ answer = [r \in Request |-> Unanswered]

Goto(r, label) == pc' = [pc EXCEPT ![r] = label]
Respond(r, v, hit) ==
  answer' = [answer EXCEPT ![r] = [value |-> v, at |-> now, hit |-> hit]]

\* An entry that has not expired is the response.
Hit(r) ==
  /\ pc[r] = "idle" /\ Cacheable(r)
  /\ store[CacheKey(r)].expires > now
  /\ Respond(r, store[CacheKey(r)].value, TRUE) /\ Goto(r, "done")
  /\ UNCHANGED <<now, ask, began, value, store>>

\* An entry that has expired is dropped, and the operation awaited.
Miss(r) ==
  /\ pc[r] = "idle" /\ Cacheable(r)
  /\ ~(store[CacheKey(r)].expires > now)
  /\ store' = [store EXCEPT ![CacheKey(r)] = Absent]
  /\ began' = [began EXCEPT ![r] = now] /\ Goto(r, "operation")
  /\ UNCHANGED <<now, ask, value, answer>>

\* Neither looked up nor stored.
Bypass(r) ==
  /\ pc[r] = "idle" /\ ~Cacheable(r)
  /\ Goto(r, "operation")
  /\ UNCHANGED <<now, ask, began, value, store, answer>>

\* The operation reads its data (the first it reads).
Reads(r) ==
  /\ pc[r] = "operation" /\ value[r] = Nothing
  /\ value' = [value EXCEPT ![r] = [by |-> r, at |-> now]]
  /\ UNCHANGED <<now, pc, ask, began, store, answer>>

\* Mutant of Expiry: the clock is read after the operation.
Expiry_Late(r) == now + TTL

\* An entry lives from the lookup on, not from the answer of the operation.
Expiry(r) == began[r] + TTL

\* The operation returns: a cacheable response replaces what is stored.
Returns(r) ==
  /\ pc[r] = "operation" /\ value[r] # Nothing
  /\ Respond(r, value[r], FALSE) /\ Goto(r, "done")
  /\ store' = IF Cacheable(r)
                THEN [store EXCEPT ![CacheKey(r)] =
                        [expires |-> Expiry(r), value |-> value[r]]]
                ELSE store
  /\ UNCHANGED <<now, ask, began, value>>

\* The operation raises or is cancelled.
Fails(r) ==
  /\ pc[r] = "operation" /\ Goto(r, "failed")
  /\ UNCHANGED <<now, ask, began, value, store, answer>>

Tick ==
  /\ now < MaxTime /\ now' = now + 1
  /\ UNCHANGED <<pc, ask, began, value, store, answer>>

Finished ==
  now = MaxTime /\ (\A r \in Request : pc[r] \in {"done", "failed"}) /\ UNCHANGED vars

Next ==
  \/ \E r \in Request :
       Hit(r) \/ Miss(r) \/ Bypass(r) \/ Reads(r) \/ Returns(r) \/ Fails(r)
  \/ Tick
  \/ Finished

Spec == Init /\ [][Next]_vars

--------------------------------------------------------------------------------
(* Properties.                                                             *)

TypeOK ==
  /\ now \in Nat
  /\ pc \in [Request -> {"idle", "operation", "done", "failed"}]
  /\ ask \in [Request -> Ask]
  /\ began \in [Request -> Nat]
  /\ value \in [Request -> Value]
  /\ store \in [Ask -> Entry]
  /\ answer \in [Request -> Answer]

\* A response from the cache is younger than cache_ttl, counted from the moment
\* its data was read, however long the operation took and in whatever order the
\* requests that computed it stored.
ServedWithinTTL ==
  \A r \in Request : answer[r].hit => answer[r].at < answer[r].value.at + TTL

\* A response was computed for a request that asked for the same, on behalf of
\* the same identity.
SharedOnlyAlike ==
  \A r, q \in Request : answer[r].value.by = q => ask[q] = ask[r]

\* Without an identity, or for a resource that bypasses the cache.
Private(r) == ask[r].identity = NoIdentity \/ ask[r].resource \in Volatile

\* Mutations, random order, skip and requests without an identity bypass the
\* cache: what they are answered they computed themselves, and nobody else is
\* answered with it.
BypassIsPrivate ==
  \A r, q \in Request :
    answer[r].value.by = q /\ (Private(r) \/ Private(q)) => r = q

\* A response is that of an operation that returned: what a failed one had read
\* is served to nobody.
ServedIsComplete ==
  \A r \in Request : pc[r] = "done" =>
    \E q \in Request : answer[r].value = value[q] /\ value[q].by = q /\ pc[q] = "done"

================================================================================
