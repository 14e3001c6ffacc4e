--------------------------- MODULE MC_ResponseCache ---------------------------
(* Instances of ResponseCache for TLC: requests with either identity or    *)
(* none, for a page that is cached and for one in a random order.  Nothing *)
(* tells two requests or two identities apart: the properties are          *)
(* invariants, so permuting them is sound.                                 *)
EXTENDS ResponseCache, TLC

CONSTANTS r1, r2, r3, page, random, alice, bob

Alike == Permutations({r1, r2, r3}) \cup Permutations({alice, bob})

================================================================================
