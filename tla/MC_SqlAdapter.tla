----------------------------- MODULE MC_SqlAdapter -----------------------------
(* Instances of SqlAdapter for TLC: who uses what, and for how long.       *)
EXTENDS SqlAdapter, TLC

CONSTANTS t1, t2, kid, m1, m2, shared

\* Two requests with a model each and one in common; kid is a child task of
\* the first.
Tasks == {t1, t2, kid}
Children == {kid}
ParentOf == kid :> t1
OwnModels == (t1 :> {m1}) @@ (t2 :> {m2}) @@ (kid :> {})

\* Long enough for the first to use the shared model in a block of its HTTP
\* transaction while the others use it too.
SharedUse == (t1 :> 4) @@ (t2 :> 2) @@ (kid :> 1)

\* A task with two models of its own, which opens everything in everything and so
\* may hold the whole pool, and another that waits for it.
NoParent == [t \in {} |-> t1]
TwoModels == (t1 :> {m1, m2}) @@ (t2 :> {shared})
Deep == (t1 :> 6) @@ (t2 :> 1)

\* Two tasks without blocks inside one another.
Pair == {t1, t2}
Apart == (t1 :> {m1}) @@ (t2 :> {m2})
Short == (t1 :> 3) @@ (t2 :> 3)

================================================================================
