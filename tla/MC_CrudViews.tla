----------------------------- MODULE MC_CrudViews -----------------------------
(* Instances of CrudViews for TLC: every create and update that the two    *)
(* sets allow, and a create whose hook takes a connection of its own;      *)
(* requests are not told apart.                                            *)
EXTENDS CrudViews, TLC

CONSTANTS r1, r2, c1, c2, Boundaries, Guards

Plain(kind, guards) == [kind : {kind}, boundary : Boundaries, guarded : guards, helper : {FALSE}]

MCViews == Plain("create", {FALSE}) \cup Plain("update", Guards)
             \cup {[kind |-> "create", boundary |-> {}, guarded |-> FALSE, helper |-> TRUE]}

Alike == Permutations(Request) \cup Permutations(Command)

================================================================================
