----------------------------- MODULE AtomicRequest -----------------------------
(***************************************************************************)
(* What a whole-request transaction promises its request, the database and *)
(* whoever listens to its callbacks, whatever happens in between: the      *)
(* request's writes become durable in one step or not at all, they are     *)
(* announced only once they are durable, and the answer is a success only  *)
(* when nothing more can become durable.  After an error the outcome may   *)
(* be unknown (an interrupted COMMIT), but nothing was announced.          *)
(***************************************************************************)
EXTENDS Naturals

CONSTANTS
  Request,
  Budget      \* how many writes a request may make

VARIABLES
  store,      \* the durable writes
  reply,      \* the answer to each request
  announced   \* the writes that callbacks have announced

avars == <<store, reply, announced>>

Writes(r) == {r} \X (1 .. Budget[r])
Stored(r) == store \cap Writes(r)

Init ==
  /\ store = {}
  /\ reply = [r \in Request |-> "none"]
  /\ announced = {}

\* All the work W of the request becomes durable, once.
Commit(r) ==
  /\ Stored(r) = {} /\ reply[r] # "success"
  /\ \E W \in SUBSET Writes(r) : store' = store \cup W
  /\ UNCHANGED <<reply, announced>>

Announce(r) ==
  /\ reply[r] = "none"
  /\ \E w \in Stored(r) : announced' = announced \cup {w}
  /\ UNCHANGED <<store, reply>>

Succeed(r) ==
  /\ reply[r] = "none"
  /\ reply' = [reply EXCEPT ![r] = "success"]
  /\ UNCHANGED <<store, announced>>

Fail(r) ==
  /\ reply[r] = "none" /\ announced \cap Writes(r) = {}
  /\ reply' = [reply EXCEPT ![r] = "error"]
  /\ UNCHANGED <<store, announced>>

Next == \E r \in Request : Commit(r) \/ Announce(r) \/ Succeed(r) \/ Fail(r)

Spec == Init /\ [][Next]_avars

================================================================================
