-------------------------- MODULE MC_HttpTransaction --------------------------
(* Instances of HttpTransaction for TLC: who runs, and how long a handler is. *)
EXTENDS HttpTransactionInductive

CONSTANTS r1, r2

\* One request with a handler of six operations: a failed command inside a
\* savepoint that is rolled back, with work and callbacks before and after.
LongHandler == [r \in {r1} |-> 6]

\* Two requests on one connection, the first long enough to write, register a
\* callback and use the scope again when the second may hold the connection.
Contention == (r1 :> 3) @@ (r2 :> 1)

================================================================================
