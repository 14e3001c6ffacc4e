------------------------------- MODULE ServiceProofs -------------------------------
(***************************************************************************)
(* Theorems about the parts of Service: how the application's resources are *)
(* opened and closed, for every way to give it resources and any number of *)
(* requests, and how requests pass through it, for every set of requests,  *)
(* users and credentials.                                                  *)
(***************************************************************************)
EXTENDS Service, SequenceTheorems, WellFoundedInduction, TLAPS

(***************************************************************************)
(* AppResources: the inductive invariant.                                  *)
(***************************************************************************)

Entered(c) == \E n \in 1 .. Len(exits) : exits[n] = c

\* Contexts are entered in their order, all of them before requests are served.
ExitsInv ==
  /\ Len(exits) <= Len(App!Contexts)
  /\ \A n \in 1 .. Len(exits) : exits[n] = App!Contexts[n]
  /\ phase \in {"create", "raised"} => exits = <<>>
  /\ phase \in {"serving", "draining"} => Len(exits) = Len(App!Contexts)

\* Only the cleanup leaves contexts, the last entered first: what it has passed is left.
LeftInv ==
  /\ phase \notin {"cleanup", "ended"} => left = {} /\ cursor = 0
  /\ phase = "ended" => cursor = 0
  /\ phase \in {"cleanup", "ended"} => \A n \in cursor + 1 .. Len(exits) : exits[n] \in left
  /\ \A n \in 1 .. Len(exits) : \A m \in 1 .. n - 1 : exits[m] \in left => exits[n] \in left

\* A resource is open from the entry of its context until its owner leaves that; one
\* whose context was not entered is as it was given, or its creation has failed.
ResourceInv(r) ==
  IF Entered(r)
    THEN IF r \in left /\ App!Owned(r) THEN state[r] = "closed" /\ closes[r] = 1
                                   ELSE state[r] = "open" /\ closes[r] = 0
    ELSE \/ closes[r] = 0 /\ state[r] = (IF r \in cfg.injected THEN "open" ELSE "none")
         \/ /\ closes[r] = 1 /\ state[r] = "closed" /\ r \notin cfg.injected
            /\ phase \in {"cleanup", "ended"}

\* The application's keys name what was injected and what was created.
KeyInv ==
  phase \notin {"create", "raised"} =>
    \A r \in App!Resource : r \in key <=> r \in cfg.injected \/ Entered(r)

\* Handlers run while requests are served, and a pool is closed when none does.
RequestInv ==
  /\ active > 0 => phase \in {"serving", "draining"}
  /\ cancelled > 0 => phase \in {"cleanup", "ended"}
  /\ cancelled > 0 => Entered("pool") /\ (App!Owned("pool") => "pool" \notin left)

AppInv ==
  /\ ExitsInv /\ LeftInv /\ KeyInv /\ RequestInv
  /\ \A r \in App!Resource : ResourceInv(r)

(***************************************************************************)
(* AppResources: what its operators give.                                  *)
(***************************************************************************)

LEMMA NameFacts ==
  /\ App!Resource = {"pool", "session"} /\ App!Context = {"pool", "session", "tasks"}
  BY DEF App!Resource, App!Context

LEMMA ContextFacts ==
  /\ Len(App!Contexts) \in {2, 3} /\ App!Contexts[1] = "pool" /\ App!Contexts[2] = "session"
  /\ Len(App!Contexts) = 3 => App!Contexts[3] = "tasks"
  /\ \A n \in 1 .. Len(App!Contexts) : App!Contexts[n] \in App!Context
  /\ \A m, n \in 1 .. Len(App!Contexts) : App!Contexts[m] = App!Contexts[n] => m = n
  <1>1. CASE cfg.tasks
    <2>1. App!Contexts = <<"pool", "session">> \o <<"tasks">>
      BY <1>1 DEF App!Contexts
    <2>2. /\ Len(App!Contexts) = 3 /\ App!Contexts[1] = "pool" /\ App!Contexts[2] = "session"
          /\ App!Contexts[3] = "tasks"
      BY <2>1
    <2> QED
      BY <2>2, NameFacts
  <1>2. CASE ~cfg.tasks
    <2>1. App!Contexts = <<"pool", "session">> \o <<>>
      BY <1>2 DEF App!Contexts
    <2>2. Len(App!Contexts) = 2 /\ App!Contexts[1] = "pool" /\ App!Contexts[2] = "session"
      BY <2>1
    <2> QED
      BY <2>2, NameFacts
  <1> QED
    BY <1>1, <1>2

LEMMA ExitFacts ==
  ASSUME App!TypeOK, ExitsInv
  PROVE  /\ Len(exits) \in Nat /\ Len(exits) <= Len(App!Contexts) /\ exits \in Seq(App!Context)
         /\ \A n \in 1 .. Len(exits) : exits[n] \in App!Context
         /\ \A m, n \in 1 .. Len(exits) : exits[m] = exits[n] => m = n
         /\ Len(exits) = Len(App!Contexts) => \A r \in App!Resource : Entered(r)
         /\ Entered("tasks") => Len(exits) = Len(App!Contexts)
  <1>1. /\ Len(exits) \in Nat /\ Len(exits) <= Len(App!Contexts) /\ exits \in Seq(App!Context)
        /\ \A n \in 1 .. Len(exits) : exits[n] \in App!Context
    BY DEF App!TypeOK, ExitsInv
  <1>2. \A n \in 1 .. Len(exits) : n \in 1 .. Len(App!Contexts) /\ exits[n] = App!Contexts[n]
    BY <1>1, ContextFacts DEF ExitsInv
  <1>3. \A m, n \in 1 .. Len(exits) : exits[m] = exits[n] => m = n
    BY <1>2, ContextFacts
  <1>4. Len(exits) = Len(App!Contexts) => \A r \in App!Resource : Entered(r)
    <2>1. Len(exits) = Len(App!Contexts) => exits[1] = "pool" /\ exits[2] = "session"
                                        /\ 1 \in 1 .. Len(exits) /\ 2 \in 1 .. Len(exits)
      BY <1>2, ContextFacts
    <2> QED
      BY <2>1, NameFacts DEF Entered
  <1>5. Entered("tasks") => Len(exits) = Len(App!Contexts)
    BY <1>1, <1>2, ContextFacts DEF Entered
  <1> QED
    BY <1>1, <1>3, <1>4, <1>5

\* No context is entered or left.
LEMMA SameExits ==
  ASSUME UNCHANGED <<cfg, exits>>
  PROVE  /\ \A c : Entered(c)' <=> Entered(c)
         /\ \A r : App!Owned(r)' <=> App!Owned(r)
         /\ App!Contexts' = App!Contexts
  BY DEF Entered, App!Owned, App!Contexts

(***************************************************************************)
(* The steps.                                                              *)
(***************************************************************************)

\* Start-up and service, up to the cleanup: contexts and resources stay as they are.
LEMMA PhaseKeeps ==
  ASSUME App!ConstantsAssumption, App!TypeOK, AppInv,
         \/ App!CreateApp \/ App!CreateAppRaises \/ App!Serve \/ App!Request \/ App!Respond \/ App!Stop
         \/ App!Drained \/ App!CancelledEnds \/ App!EnterRaises \/ App!End \/ App!CleanupAgain
  PROVE  App!TypeOK' /\ AppInv'
  <1> USE DEF App!StartCleanup
  <1>1. UNCHANGED <<cfg, state, closes, exits, left>>
    BY DEF App!CreateApp, App!CreateAppRaises, App!Serve, App!Request, App!Respond, App!Stop,
           App!Drained,
           App!CancelledEnds, App!EnterRaises, App!End, App!CleanupAgain
  <1>2. /\ \A c : Entered(c)' <=> Entered(c)
        /\ \A r : App!Owned(r)' <=> App!Owned(r)
        /\ App!Contexts' = App!Contexts
    BY <1>1, SameExits
  <1>3. /\ Len(exits) \in Nat
        /\ Len(exits) = Len(App!Contexts) => \A r \in App!Resource : Entered(r)
        /\ "pool" \in App!Resource
        /\ MaxRequests \in Nat /\ active \in Nat /\ cancelled \in Nat
        /\ active <= MaxRequests /\ cancelled <= MaxRequests
    BY ExitFacts, NameFacts DEF AppInv, App!TypeOK, App!ConstantsAssumption
  <1>4. /\ phase' \in App!Phase /\ cursor' \in 0 .. Len(exits)
        /\ phase \in {"create", "raised"} <=>
             phase' \in {"create", "raised"} \/ (phase = "create" /\ phase' = "startup")
        /\ phase' \in {"serving", "draining"} =>
             phase \in {"serving", "draining"} \/ Len(exits) >= Len(App!Contexts)
        /\ phase \in {"cleanup", "ended"} => phase' \in {"cleanup", "ended"}
        /\ phase' \notin {"cleanup", "ended"} => cursor' = cursor
        /\ phase' \in {"cleanup", "ended"} =>
             \/ cursor' = Len(exits)
             \/ phase \in {"cleanup", "ended"} /\ cursor' = cursor
        /\ phase' = "ended" => cursor' = 0
    BY <1>3 DEF App!Phase, App!TypeOK, AppInv, LeftInv, App!Remaining, App!CreateApp,
                App!CreateAppRaises,
                App!Serve, App!Request, App!Respond, App!Stop, App!Drained,
                App!CancelledEnds, App!EnterRaises, App!End,
                App!CleanupAgain
  <1>5. ExitsInv'
    BY <1>1, <1>2, <1>3, <1>4 DEF AppInv, ExitsInv
  <1>6. LeftInv'
    <2>1. LeftInv
      BY DEF AppInv
    <2>2. phase' \notin {"cleanup", "ended"} => left' = {} /\ cursor' = 0
      BY <1>1, <1>4, <2>1 DEF LeftInv
    <2>3. ASSUME phase' \in {"cleanup", "ended"}, NEW n \in cursor' + 1 .. Len(exits)
          PROVE  exits[n] \in left
      <3>1. cursor' # Len(exits)
        BY <1>3
      <3>2. phase \in {"cleanup", "ended"} /\ cursor' = cursor
        BY <1>4, <2>3, <3>1
      <3> QED
        BY <2>1, <2>3, <3>2 DEF LeftInv
    <2>4. \A n \in 1 .. Len(exits) : \A m \in 1 .. n - 1 : exits[m] \in left => exits[n] \in left
      BY <2>1 DEF LeftInv
    <2> QED
      BY <1>1, <1>4, <2>2, <2>3, <2>4 DEF LeftInv
  <1>7. KeyInv' /\ key' \subseteq App!Resource
    <2>1. CASE App!CreateApp
      BY <1>1, <1>2, <2>1 DEF App!CreateApp, KeyInv, AppInv, ExitsInv, Entered, App!TypeOK
    <2>2. CASE ~App!CreateApp
      <3>1. key' = key /\ (phase' \notin {"create", "raised"} => phase \notin {"create", "raised"})
        BY <2>2 DEF App!CreateApp, App!CreateAppRaises, App!Serve, App!Request, App!Respond,
                    App!Stop, App!Drained,
                    App!CancelledEnds, App!EnterRaises, App!End, App!CleanupAgain
      <3> QED
        BY <1>1, <1>2, <3>1 DEF KeyInv, AppInv, App!TypeOK
    <2> QED
      BY <2>1, <2>2
  <1>8. RequestInv' /\ active' \in 0 .. MaxRequests /\ cancelled' \in 0 .. MaxRequests
    <2>1. RequestInv /\ phase \in App!Phase
          /\ (phase \in {"serving", "draining"} => left = {} /\ Len(exits) = Len(App!Contexts))
      BY DEF AppInv, LeftInv, ExitsInv, App!TypeOK
    <2> QED
      BY <1>1, <1>2, <1>3, <2>1
      DEF RequestInv, App!Phase, App!CreateApp, App!CreateAppRaises, App!Serve, App!Request,
          App!Respond, App!Stop,
          App!Drained,
                App!CancelledEnds, App!EnterRaises, App!End, App!CleanupAgain
  <1>9. \A r \in App!Resource : ResourceInv(r)'
    BY <1>1, <1>2, <1>4 DEF AppInv, ResourceInv
  <1>10. App!TypeOK'
    BY <1>1, <1>4, <1>7, <1>8 DEF App!TypeOK
  <1> QED
    BY <1>5, <1>6, <1>7, <1>8, <1>9, <1>10 DEF AppInv

\* The next context is entered: a resource of its is open and has its key.
LEMMA EnterKeeps ==
  ASSUME App!ConstantsAssumption, App!TypeOK, AppInv, App!Enter
  PROVE  App!TypeOK' /\ AppInv'
  <1> DEFINE n == Len(exits) + 1
             c == App!NextContext
  <1>1. /\ phase = "startup" /\ left = {} /\ cursor = 0 /\ Len(exits) < Len(App!Contexts)
        /\ UNCHANGED <<cfg, phase, closes, left, cursor, active, cancelled>>
        /\ active = 0 /\ cancelled = 0
    BY DEF App!Enter, App!Remaining, AppInv, LeftInv, RequestInv, App!TypeOK
  <1>2. /\ Len(exits) \in Nat /\ exits \in Seq(App!Context) /\ n \in 1 .. Len(App!Contexts)
        /\ c = App!Contexts[n] /\ c \in App!Context
    BY <1>1, ExitFacts, ContextFacts DEF AppInv, App!NextContext
  <1>3. exits' = Append(exits, c)
    BY DEF App!Enter
  <1> HIDE DEF c
  <1>4. /\ exits' \in Seq(App!Context) /\ Len(exits') = n /\ exits'[n] = c
        /\ \A m \in 1 .. Len(exits) : exits'[m] = exits[m]
    BY <1>2, <1>3, AppendProperties
  <1>5. App!Contexts' = App!Contexts /\ \A r : App!Owned(r)' <=> App!Owned(r)
    BY <1>1 DEF App!Contexts, App!Owned
  <1>6. \A x : Entered(x)' <=> Entered(x) \/ x = c
    BY <1>2, <1>4 DEF Entered
  <1>7. ~Entered(c)
    <2>1. \A m \in 1 .. Len(exits) : m \in 1 .. Len(App!Contexts) /\ exits[m] = App!Contexts[m] /\ m # n
      BY <1>1, <1>2 DEF AppInv, ExitsInv
    <2> QED
      BY <1>2, <2>1, ContextFacts DEF Entered
  <1>8. /\ state' \in [App!Resource -> {"none", "open", "closed"}]
        /\ key' \subseteq App!Resource
        /\ \A r \in App!Resource : state'[r] = IF r = c THEN "open" ELSE state[r]
        /\ \A r \in App!Resource : r \in key' <=> r \in key \/ r = c
    <2>1. CASE c \in App!Resource
      <3>1. state' = [state EXCEPT ![c] = "open"] /\ key' = key \cup {c}
        BY <2>1 DEF App!Enter, c
      <3> QED
        BY <2>1, <3>1 DEF App!TypeOK
    <2>2. CASE c \notin App!Resource
      <3>1. UNCHANGED <<state, key>>
        BY <2>2 DEF App!Enter, c
      <3> QED
        BY <2>2, <3>1 DEF App!TypeOK
    <2> QED
      BY <2>1, <2>2
  <1>9. App!TypeOK'
    BY <1>1, <1>2, <1>4, <1>8 DEF App!TypeOK
  <1>10. ExitsInv'
    <2>1. \A m \in 1 .. n : m \in 1 .. Len(exits) \/ m = n
      BY <1>2
    <2> QED
      BY <1>1, <1>2, <1>4, <1>5, <2>1 DEF AppInv, ExitsInv
  <1>11. LeftInv'
    BY <1>1 DEF LeftInv
  <1>12. KeyInv'
    BY <1>1, <1>6, <1>8 DEF AppInv, KeyInv
  <1>13. RequestInv'
    BY <1>1 DEF RequestInv
  <1>14. ASSUME NEW r \in App!Resource
         PROVE  ResourceInv(r)'
    <2>1. ResourceInv(r)
      BY DEF AppInv
    <2> QED
      BY <1>1, <1>5, <1>6, <1>7, <1>8, <2>1 DEF ResourceInv
  <1> QED
    BY <1>9, <1>10, <1>11, <1>12, <1>13, <1>14 DEF AppInv

\* A new resource cannot be published: it is closed, and its context not entered.
LEMMA PublishKeeps ==
  ASSUME App!ConstantsAssumption, App!TypeOK, AppInv, App!PublishRaises
  PROVE  App!TypeOK' /\ AppInv'
  <1> DEFINE c == App!NextContext
  <1>1. /\ phase = "startup" /\ phase' = "cleanup" /\ left = {} /\ cursor' = Len(exits)
        /\ UNCHANGED <<cfg, key, exits, left, active, cancelled>>
        /\ c \in App!Resource \ key /\ active = 0 /\ cancelled = 0 /\ Len(exits) \in Nat
    BY ExitFacts DEF App!PublishRaises, App!StartCleanup, AppInv, LeftInv, RequestInv, App!TypeOK
  <1>2. state' = [state EXCEPT ![c] = "closed"] /\ closes' = [closes EXCEPT ![c] = @ + 1]
    BY DEF App!PublishRaises, App!Close
  <1> HIDE DEF c
  <1>3. /\ \A x : Entered(x)' <=> Entered(x)
        /\ \A r : App!Owned(r)' <=> App!Owned(r)
        /\ App!Contexts' = App!Contexts
    BY <1>1, SameExits
  <1>4. c \notin cfg.injected /\ ~Entered(c)
    BY <1>1 DEF AppInv, KeyInv
  <1>5. closes[c] = 0
    BY <1>1, <1>4 DEF AppInv, ResourceInv
  <1>6. /\ state' \in [App!Resource -> {"none", "open", "closed"}] /\ closes' \in [App!Resource -> Nat]
        /\ state'[c] = "closed" /\ closes'[c] = 1
        /\ \A r \in App!Resource \ {c} : state'[r] = state[r] /\ closes'[r] = closes[r]
    BY <1>1, <1>2, <1>5 DEF App!TypeOK
  <1>7. App!TypeOK'
    BY <1>1, <1>6 DEF App!TypeOK, App!Phase
  <1>8. ExitsInv' /\ LeftInv' /\ KeyInv' /\ RequestInv'
    BY <1>1, <1>3 DEF AppInv, ExitsInv, LeftInv, KeyInv, RequestInv
  <1>9. ASSUME NEW r \in App!Resource
        PROVE  ResourceInv(r)'
    BY <1>1, <1>3, <1>4, <1>6 DEF AppInv, ResourceInv
  <1> QED
    BY <1>7, <1>8, <1>9 DEF AppInv

\* The cleanup leaves the context that it has come to.
LEMMA ExitKeeps ==
  ASSUME App!ConstantsAssumption, App!TypeOK, AppInv, App!Exit
  PROVE  App!TypeOK' /\ AppInv'
  <1> DEFINE c == exits[cursor]
  <1>1. /\ phase = "cleanup" /\ cursor \in 1 .. Len(exits) /\ cursor' = cursor - 1
        /\ UNCHANGED <<cfg, phase, key, exits, active, cancelled>>
        /\ active = 0 /\ cancelled \in Nat
    BY DEF App!Exit, AppInv, RequestInv, App!TypeOK
  <1>2. /\ left' = left \cup {c}
        /\ IF c \in App!Resource \ left /\ App!Owned(c)
             THEN /\ c = "pool" => active + cancelled = 0
                  /\ state' = [state EXCEPT ![c] = "closed"]
                  /\ closes' = [closes EXCEPT ![c] = @ + 1]
             ELSE UNCHANGED <<state, closes>>
    BY DEF App!Exit, App!Leave, App!Close
  <1>3. /\ \A x : Entered(x)' <=> Entered(x)
        /\ \A r : App!Owned(r)' <=> App!Owned(r)
        /\ App!Contexts' = App!Contexts
    BY <1>1, SameExits
  <1>4. c \in App!Context /\ Entered(c) /\ Len(exits) \in Nat
    BY <1>1, ExitFacts DEF AppInv, Entered
  <1>5. LeftInv'
    <2>1. LeftInv /\ \A m, n \in 1 .. Len(exits) : exits[m] = exits[n] => m = n
      BY ExitFacts DEF AppInv
    <2>2. \A n \in cursor' + 1 .. Len(exits) : n = cursor \/ n \in cursor + 1 .. Len(exits)
      BY <1>1, <1>4
    <2>3. \A n \in cursor' + 1 .. Len(exits) : exits[n] \in left'
      BY <1>1, <1>2, <2>1, <2>2 DEF LeftInv
    <2>4. ASSUME NEW n \in 1 .. Len(exits), NEW m \in 1 .. n - 1, exits[m] \in left'
          PROVE  exits[n] \in left'
      <3>1. CASE exits[m] \in left
        BY <1>2, <2>1, <3>1 DEF LeftInv
      <3>2. CASE exits[m] = c
        <4>1. m = cursor
          BY <1>1, <1>4, <2>1, <3>2
        <4>2. n \in cursor' + 1 .. Len(exits)
          BY <1>1, <1>4, <4>1
        <4> QED
          BY <2>3, <4>2
      <3> QED
        BY <1>2, <2>4, <3>1, <3>2
    <2> QED
      BY <1>1, <2>3, <2>4 DEF LeftInv
  <1> HIDE DEF c
  <1>6. ExitsInv' /\ KeyInv'
    BY <1>1, <1>3 DEF AppInv, ExitsInv, KeyInv
  <1>7. RequestInv'
    <2>1. RequestInv
      BY DEF AppInv
    <2>2. cancelled > 0 /\ App!Owned("pool") => "pool" \notin left'
      BY <1>1, <1>2, <2>1, NameFacts DEF RequestInv
    <2> QED
      BY <1>1, <1>3, <2>1, <2>2 DEF RequestInv
  <1>8. ASSUME NEW r \in App!Resource
        PROVE  ResourceInv(r)'
    <2>1. ResourceInv(r)
      BY DEF AppInv
    <2>2. CASE c \in App!Resource \ left /\ App!Owned(c)
      <3>1. closes[c] = 0
        BY <1>4, <2>2 DEF AppInv, ResourceInv
      <3>2. /\ state'[c] = "closed" /\ closes'[c] = 1
            /\ r # c => state'[r] = state[r] /\ closes'[r] = closes[r]
        BY <1>2, <2>2, <3>1 DEF App!TypeOK
      <3> QED
        BY <1>1, <1>2, <1>3, <1>4, <2>1, <2>2, <3>2 DEF ResourceInv
    <2>3. CASE ~(c \in App!Resource \ left /\ App!Owned(c))
      <3>1. state'[r] = state[r] /\ closes'[r] = closes[r]
        BY <1>2, <2>3
      <3>2. r = c => r \in left \/ ~App!Owned(r)
        BY <2>3
      <3>3. r \in left' <=> r \in left \/ r = c
        BY <1>2
      <3>4. r \in left' /\ App!Owned(r) <=> r \in left /\ App!Owned(r)
        BY <3>2, <3>3
      <3> QED
        BY <1>1, <1>3, <2>1, <3>1, <3>4 DEF ResourceInv
    <2> QED
      BY <2>2, <2>3
  <1>9. App!TypeOK'
    <2>1. state' \in [App!Resource -> {"none", "open", "closed"}] /\ closes' \in [App!Resource -> Nat]
      <3>1. /\ state \in [App!Resource -> {"none", "open", "closed"}]
            /\ closes \in [App!Resource -> Nat]
        BY DEF App!TypeOK
      <3>2. \/ UNCHANGED <<state, closes>>
            \/ /\ state' = [state EXCEPT ![c] = "closed"]
               /\ closes' = [closes EXCEPT ![c] = @ + 1]
        BY <1>2
      <3> QED
        BY <3>1, <3>2
    <2>2. left' \subseteq App!Context
      BY <1>2, <1>4 DEF App!TypeOK
    <2> QED
      BY <1>1, <1>4, <2>1, <2>2 DEF App!TypeOK
  <1> QED
    BY <1>5, <1>6, <1>7, <1>8, <1>9 DEF AppInv

(***************************************************************************)
(* AppResources: the theorems.                                             *)
(***************************************************************************)

LEMMA AppInit ==
  ASSUME App!ConstantsAssumption, App!Init
  PROVE  App!TypeOK /\ AppInv
  <1>1. /\ Len(exits) = 0 /\ exits \in Seq(App!Context) /\ phase = "create" /\ left = {}
        /\ cursor = 0 /\ active = 0 /\ cancelled = 0 /\ key = {}
        /\ \A r \in App!Resource : /\ closes[r] = 0
                               /\ state[r] = IF r \in cfg.injected THEN "open" ELSE "none"
    BY DEF App!Init
  <1>2. \A c : ~Entered(c)
    BY <1>1 DEF Entered
  <1>3. App!TypeOK
    BY <1>1 DEF App!Init, App!TypeOK, App!Phase, App!ConstantsAssumption
  <1>4. AppInv
    BY <1>1, <1>2, ContextFacts
    DEF App!Init, AppInv, ExitsInv, LeftInv, KeyInv, RequestInv, ResourceInv
  <1> QED
    BY <1>3, <1>4

LEMMA AppNext ==
  ASSUME App!ConstantsAssumption, App!TypeOK, AppInv, [App!Next]_(App!vars)
  PROVE  App!TypeOK' /\ AppInv'
  <1>1. CASE UNCHANGED App!vars
    <2>1. UNCHANGED <<cfg, phase, state, closes, key, exits, left, cursor, active, cancelled>>
      BY <1>1 DEF App!vars
    <2>2. /\ \A c : Entered(c)' <=> Entered(c)
          /\ \A r : App!Owned(r)' <=> App!Owned(r)
          /\ App!Contexts' = App!Contexts
      BY <2>1, SameExits
    <2>3. App!TypeOK'
      BY <2>1 DEF App!TypeOK
    <2>4. AppInv'
      BY <2>1, <2>2 DEF AppInv, ExitsInv, LeftInv, KeyInv, RequestInv, ResourceInv
    <2> QED
      BY <2>3, <2>4
  <1> QED
    BY <1>1, PhaseKeeps, EnterKeeps, PublishKeeps, ExitKeeps DEF App!Next, App!Progress

\* The inductive invariant: contexts and resources go together, from create_app to
\* the end of the cleanup (aiohttp_boilerplate/bootstrap/web_app.py).
THEOREM AppInvariant ==
  ASSUME App!ConstantsAssumption PROVE App!Spec => [](App!TypeOK /\ AppInv)
  <1>1. App!Init => App!TypeOK /\ AppInv
    BY AppInit
  <1>2. App!TypeOK /\ AppInv /\ [App!Next]_(App!vars) => App!TypeOK' /\ AppInv'
    BY AppNext
  <1> QED
    BY <1>1, <1>2, PTL DEF App!Spec

\* database_context and auth_context: whatever fails and however often the cleanup is
\* run, a resource is closed once at most, and never one that the caller keeps.
THEOREM ClosedOnceByOwnerHolds ==
  ASSUME App!ConstantsAssumption PROVE App!Spec => []App!ClosedOnceByOwner
  <1>1. App!TypeOK /\ AppInv => App!ClosedOnceByOwner
    BY DEF AppInv, ResourceInv, App!ClosedOnceByOwner, App!Owned
  <1> QED
    BY <1>1, AppInvariant, PTL

\* After the cleanup no resource that the application has created is open.
THEOREM CreationsAreClosedHolds ==
  ASSUME App!ConstantsAssumption PROVE App!Spec => []App!CreationsAreClosed
  <1>1. App!TypeOK /\ AppInv => App!CreationsAreClosed
    <2> SUFFICES ASSUME App!TypeOK, AppInv, phase = "ended", NEW r \in App!Resource \ cfg.injected
                 PROVE  state[r] # "open"
      BY DEF App!CreationsAreClosed
    <2>1. Entered(r) => r \in left
      BY DEF AppInv, LeftInv, Entered
    <2> QED
      BY <2>1 DEF AppInv, ResourceInv, App!Owned
  <1> QED
    BY <1>1, AppInvariant, PTL

\* A running handler, and the application's own context until its exit, find every
\* resource open under its key; a cancelled handler can still return its connection.
THEOREM UsedWhileOpenHolds ==
  ASSUME App!ConstantsAssumption PROVE App!Spec => []App!UsedWhileOpen
  <1>1. App!TypeOK /\ AppInv => App!UsedWhileOpen
    <2> SUFFICES ASSUME App!TypeOK, AppInv PROVE App!UsedWhileOpen
      OBVIOUS
    <2>1. App!ToSet(exits) = {exits[n] : n \in 1 .. Len(exits)}
      BY DEF App!TypeOK, App!ToSet
    <2>2. ASSUME active > 0
          PROVE  \A r \in App!Resource : Entered(r) /\ r \notin left
      BY <2>2, ExitFacts DEF AppInv, RequestInv, ExitsInv, LeftInv
    <2>3. ASSUME "tasks" \in App!ToSet(exits), "tasks" \notin left
          PROVE  \A r \in App!Resource : Entered(r) /\ r \notin left
      <3>1. Entered("tasks")
        BY <2>1, <2>3 DEF Entered
      <3>2. /\ Len(exits) = Len(App!Contexts) /\ \A r \in App!Resource : Entered(r)
        BY <3>1, ExitFacts DEF AppInv
      <3>3. /\ Len(exits) = 3 /\ exits[1] = "pool" /\ exits[2] = "session" /\ exits[3] = "tasks"
        <4>1. \A n \in 1 .. Len(exits) : exits[n] = App!Contexts[n]
          BY DEF AppInv, ExitsInv
        <4>2. PICK n \in 1 .. Len(exits) : exits[n] = "tasks"
          BY <3>1 DEF Entered
        <4> QED
          BY <3>2, <4>1, <4>2, ContextFacts
      <3>4. "pool" \notin left /\ "session" \notin left
        BY <2>3, <3>3 DEF AppInv, LeftInv
      <3> QED
        BY <3>2, <3>4, NameFacts
    <2>4. \A r \in App!Resource : Entered(r) /\ r \notin left => state[r] = "open" /\ r \in key
      <3>1. ASSUME NEW r \in App!Resource, Entered(r) PROVE phase \notin {"create", "raised"}
        BY <3>1 DEF Entered, AppInv, ExitsInv
      <3> QED
        BY <3>1 DEF AppInv, ResourceInv, KeyInv
    <2>5. cancelled > 0 => (App!Owned("pool") => state["pool"] = "open")
      BY <2>4, NameFacts DEF AppInv, RequestInv
    <2> QED
      BY <2>2, <2>3, <2>4, <2>5 DEF App!UsedWhileOpen
  <1> QED
    BY <1>1, AppInvariant, PTL

(***************************************************************************)
(* AppResources as a part.                                                 *)
(***************************************************************************)

\* A behaviour of Service is one of AppResources from its start, or never.
LEMMA ServiceIsApp ==
  /\ Spec /\ part = "app" => App!Spec
  /\ Spec /\ ~(part = "app") => []~(part = "app")
  <1>1. Init /\ part = "app" => App!Init
    BY DEF Init
  <1>2. [Next]_vars =>
          (part = "app" => (part = "app")' /\ [App!Next]_(App!vars)) /\ (~(part = "app") => ~(part = "app")')
    BY DEF Next, vars, resources, App!vars
  <1> QED
    BY <1>1, <1>2, PTL DEF Spec, App!Spec

\* create_app and its cleanup contexts: whatever fails in start-up or cleanup, resources
\* are closed once at most and by their owner, nothing that was created stays open, and
\* handlers and the application's context find every resource open.
THEOREM ResourcesAreOwnedHolds == Spec => []ResourcesAreOwned
  <1>1. App!ConstantsAssumption
    BY PartsAssumption
  <1>2. App!Spec => /\ [](App!TypeOK /\ AppInv) /\ []App!ClosedOnceByOwner
                    /\ []App!CreationsAreClosed /\ []App!UsedWhileOpen
    BY <1>1, AppInvariant, ClosedOnceByOwnerHolds, CreationsAreClosedHolds, UsedWhileOpenHolds
  <1>3. /\ App!TypeOK /\ AppInv /\ App!ClosedOnceByOwner /\ App!CreationsAreClosed
             /\ App!UsedWhileOpen => ResourcesAreOwned
        /\ ~(part = "app") => ResourcesAreOwned
    BY DEF ResourcesAreOwned
  <1> QED
    BY <1>2, <1>3, ServiceIsApp, PTL

(***************************************************************************)
(* RequestPath: the inductive invariant.                                   *)
(***************************************************************************)

\* A request has its own identifier from the first middleware on; nobody is
\* accepted, and nobody is in its context, before the service has answered.
ContextInv(r) ==
  /\ ~Path!At(r, "arrive") => context[r].id = Path!RequestId(r)
  /\ pc[r] \in {"arrive", "construct", "auth", "upstream"} =>
       context[r].user = Absent /\ accepted[r] = {}
  /\ pc[r] \in {"permission", "handle"} => accepted[r] = {context[r].user}
  /\ context[r].user \in {Absent} \cup accepted[r]
  /\ context[r].user # Absent => headers[r].credentials # <<>> /\ context[r].user = Path!Sent(r)

\* The view's logger is of the same request, and names no user.
ViewInv(r) ==
  pc[r] \in {"auth", "upstream", "permission", "handle"} =>
    view[r].id = Path!RequestId(r) /\ view[r].user = Absent

\* What the middlewares find: an internal error with details is one that they will
\* take them from, and a stream has been given the identifier already.
Pending(x, id) ==
  /\ x.kind # "none"
  /\ x.kind = "stream" => x.id = id
  /\ x.kind \in {"json", "response", "stream"} /\ x.details => x.status < 500

\* What they answer.
Answered(x, id) ==
  /\ x.id = id
  /\ x.status >= 500 => ~x.details \/ x.kind = "own json"

ResultInv(r) ==
  /\ Path!At(r, "answer") => Pending(result[r], Path!RequestId(r))
  /\ Path!At(r, "done") => Answered(result[r], Path!RequestId(r))

RecordInv(record) ==
  /\ record.context.id = Path!RequestId(record.request)
  /\ record.context.user \in {Absent} \cup accepted[record.request]

PathInv ==
  /\ context = log
  /\ \A r \in Requests : /\ ContextInv(r) /\ ViewInv(r) /\ ResultInv(r)
                         /\ sessions[r] => Path!At(r, "upstream")
  /\ \A record \in records : RecordInv(record)

(***************************************************************************)
(* RequestPath: what its operators give.                                   *)
(***************************************************************************)

Kind == Path!Raised \cup {"response", "stream", "none"}
Status == {200, 400, 403, 404, 500, 502, 503}
Identifier == GivenIds \cup Requests \cup {Absent}

LEMMA ResultIs ==
  Path!Result = [kind : Kind, status : Status, details : BOOLEAN, id : Identifier, server : BOOLEAN]
  BY DEF Path!Result, Kind, Status, Identifier

LEMMA ResultFields ==
  ASSUME NEW x \in Path!Result
  PROVE  /\ x.kind \in Kind /\ x.status \in Status /\ x.details \in BOOLEAN
         /\ x.id \in Identifier /\ x.server \in BOOLEAN
  BY ResultIs

LEMMA StatusFacts ==
  /\ 200 \in Status /\ 403 \in Status /\ 404 \in Status /\ 500 \in Status
  /\ 502 \in Status /\ 503 \in Status
  /\ Status \subseteq Nat
  BY DEF Status

LEMMA KindFacts ==
  /\ "json" \in Kind /\ "http" \in Kind /\ "response" \in Kind /\ "none" \in Kind
  /\ \A kind \in Kind :
       kind \in {"json", "own json", "http", "crash", "response", "stream", "none"}
  /\ Absent \in Identifier
  BY DEF Kind, Path!Raised, Identifier

LEMMA NothingFacts ==
  /\ Path!Nothing \in Path!Result /\ Path!Nothing.kind = "none" /\ Path!Nothing.details = FALSE
  <1>1. "none" \in Kind /\ 200 \in Status /\ Absent \in Identifier
    BY KindFacts, StatusFacts
  <1> QED
    BY <1>1, ResultIs DEF Path!Nothing

\* An exception that the application has not prepared for becomes an empty 500.
LEMMA CrashFacts ==
  ASSUME NEW x \in Path!Result, NEW y, y = [x EXCEPT !.kind = "response", !.status = 500]
  PROVE  y \in Path!Result /\ y.kind = "response" /\ y.details = x.details
  <1>1. "response" \in Kind /\ 500 \in Status
    BY KindFacts, StatusFacts
  <1>2. y = [kind |-> "response", status |-> 500, details |-> x.details,
             id |-> x.id, server |-> x.server]
    BY ResultIs
  <1>3. x.details \in BOOLEAN /\ x.id \in Identifier /\ x.server \in BOOLEAN
    BY ResultFields
  <1> QED
    BY <1>1, <1>2, <1>3, ResultIs

\* The 404 of the router, which no code of the project raises, is a result too.
NotFound == [Path!Nothing EXCEPT !.kind = "http", !.status = 404, !.details = TRUE]

LEMMA NotFoundFacts ==
  NotFound \in Path!Result /\ NotFound.kind = "http"
  <1> DEFINE x == Path!Nothing
  <1>1. "http" \in Kind /\ 404 \in Status
    BY KindFacts, StatusFacts
  <1>2. x \in Path!Result
    BY NothingFacts
  <1>3. NotFound = [x EXCEPT !.kind = "http", !.status = 404, !.details = TRUE]
    BY Zenon DEF NotFound
  <1> HIDE DEF x
  <1> QED
    BY <1>1, <1>2, <1>3, ResultIs

LEMMA JsonErrorFacts ==
  ASSUME NEW status \in Status
  PROVE  /\ Path!JsonError(status) \in Path!Result /\ Path!JsonError(status).kind = "json"
         /\ Path!JsonError(status).status = status
         /\ Path!JsonError(status).details => status < 500
  <1> DEFINE d == status < 500
  <1>1. d \in BOOLEAN /\ (d => status < 500)
    OBVIOUS
  <1>2. Path!JsonError(status) = [Path!Nothing EXCEPT !.kind = "json", !.status = status, !.details = d]
    BY DEF Path!JsonError
  <1> HIDE DEF d
  <1>3. "json" \in Kind
    BY KindFacts
  <1> QED
    BY <1>1, <1>2, <1>3, NothingFacts, ResultIs

\* The answer that leaves the middlewares has the identifier, and an internal error
\* with details is the application's own.
LEMMA AnswerFacts ==
  ASSUME NEW x \in Path!Result, NEW id \in Identifier, Pending(x, id),
         NEW y, y = Path!Stamp(Path!JsonErrors(Path!EraseHeaderServer(x)), id)
  PROVE  y \in Path!Result /\ Answered(y, id)
  <1>1. PICK e \in Path!Result :
          /\ e = Path!EraseHeaderServer(x)
          /\ e.kind = x.kind /\ e.status = x.status /\ e.details = x.details /\ e.id = x.id
    <2>1. CASE x.kind \in {"stream", "crash"}
      BY <2>1 DEF Path!EraseHeaderServer
    <2>2. CASE x.kind \notin {"stream", "crash"}
      <3>1. Path!EraseHeaderServer(x) = [x EXCEPT !.server = FALSE]
        BY <2>2 DEF Path!EraseHeaderServer
      <3> QED
        BY <3>1, ResultIs
    <2> QED
      BY <2>1, <2>2
  <1>2. PICK j \in Path!Result :
          /\ j = Path!JsonErrors(e)
          /\ j.kind = "stream" => j.id = id
          /\ j.status >= 500 => ~j.details \/ j.kind = "own json"
    <2>1. e.status \in Status /\ e.details \in BOOLEAN /\ e.kind \in Kind
      BY ResultFields
    <2>2. e.status \in Nat
      BY <2>1, StatusFacts
    <2>3. "response" \in Kind /\ 500 \in Status
      BY KindFacts, StatusFacts
    <2>4. CASE e.kind = "http"
      <3> DEFINE d == e.status < 500
      <3>1. d \in BOOLEAN /\ (d => ~(e.status >= 500))
        BY <2>2
      <3>2. Path!JsonErrors(e) = [e EXCEPT !.kind = "response", !.details = d]
        BY <2>4 DEF Path!JsonErrors
      <3> HIDE DEF d
      <3>3. /\ Path!JsonErrors(e) \in Path!Result /\ Path!JsonErrors(e).kind = "response"
            /\ Path!JsonErrors(e).status = e.status /\ Path!JsonErrors(e).details = d
        BY <2>3, <3>1, <3>2, ResultIs
      <3> QED
        BY <2>2, <3>1, <3>3
    <2>5. CASE e.kind = "crash"
      <3>1. Path!JsonErrors(e) = [Path!Nothing EXCEPT !.kind = "response", !.status = 500]
        BY <2>5 DEF Path!JsonErrors
      <3>2. PICK n \in Path!Result : n = Path!Nothing
        BY NothingFacts
      <3>3. Path!JsonErrors(e) = [n EXCEPT !.kind = "response", !.status = 500]
        BY <3>1, <3>2
      <3>4. /\ Path!JsonErrors(e) \in Path!Result /\ Path!JsonErrors(e).kind = "response"
            /\ Path!JsonErrors(e).details = n.details
        BY <3>3, CrashFacts
      <3> QED
        BY <3>2, <3>4, NothingFacts
    <2>6. CASE e.kind \notin {"http", "crash"}
      <3>1. Path!JsonErrors(e) = e
        BY <2>6 DEF Path!JsonErrors
      <3>2. e.kind \in {"json", "own json", "response", "stream"}
        BY <1>1, <2>1, <2>6, KindFacts DEF Pending
      <3>3. e.kind = "stream" => e.id = id
        BY <1>1 DEF Pending
      <3>4. e.kind \in {"json", "response", "stream"} /\ e.details => e.status < 500
        BY <1>1 DEF Pending
      <3>5. e.status < 500 => ~(e.status >= 500)
        BY <2>2
      <3>6. e.status >= 500 => ~e.details \/ e.kind = "own json"
        BY <3>2, <3>4, <3>5
      <3> QED
        BY <3>1, <3>3, <3>6
    <2> QED
      BY <2>4, <2>5, <2>6
  <1>3. y = Path!Stamp(j, id)
    BY <1>1, <1>2
  <1>4. CASE j.kind = "stream"
    BY <1>2, <1>3, <1>4 DEF Path!Stamp, Answered
  <1>5. CASE j.kind = "response"
    <2>1. y = [j EXCEPT !.id = id, !.server = FALSE]
      BY <1>3, <1>5 DEF Path!Stamp
    <2>2. /\ y \in Path!Result /\ y.id = id /\ y.status = j.status /\ y.details = j.details
          /\ y.kind = j.kind
      BY <2>1, ResultIs
    <2> QED
      BY <1>2, <2>2 DEF Answered
  <1>6. CASE j.kind \notin {"stream", "response"}
    <2>1. y = [j EXCEPT !.id = id]
      BY <1>3, <1>6 DEF Path!Stamp
    <2>2. /\ y \in Path!Result /\ y.id = id /\ y.status = j.status /\ y.details = j.details
          /\ y.kind = j.kind
      BY <2>1, ResultIs
    <2> QED
      BY <1>2, <2>2 DEF Answered
  <1> QED
    BY <1>4, <1>5, <1>6

\* The identifiers and users that a request may get.
LEMMA RequestFacts ==
  ASSUME Path!ConstantsAssumption, Path!TypeOK, NEW r \in Requests
  PROVE  /\ Path!RequestId(r) \in GivenIds \cup Requests
         /\ Path!Sent(r) \in User \cup {Absent}
         /\ headers[r].credentials = <<>> => Path!Sent(r) = Absent
         /\ headers[r].credentials # <<>> => Path!Sent(r) = headers[r].credentials[1]
         /\ \A payload : Path!Identity(payload, Path!Sent(r)) \in {Absent, Path!Sent(r)}
  <1>1. headers[r] \in [id : GivenIds \cup {Absent}, credentials : Credentials]
    BY DEF Path!TypeOK
  <1>2. headers[r].credentials \in Seq(User)
    BY <1>1 DEF Path!ConstantsAssumption
  <1>3. headers[r].credentials # <<>> =>
          /\ Head(headers[r].credentials) = headers[r].credentials[1]
          /\ Head(headers[r].credentials) \in User
    BY <1>2
  <1> QED
    BY <1>1, <1>3 DEF Path!RequestId, Path!Sent, Path!Identity

LEMMA PathTypes ==
  Path!TypeOK <=>
    /\ cfg \in [url : BOOLEAN, own : BOOLEAN]
    /\ headers \in [Requests -> [id : GivenIds \cup {Absent}, credentials : Credentials]]
    /\ context \in [Requests -> Path!Context] /\ log \in [Requests -> Path!Context]
    /\ view \in [Requests -> Path!Context]
    /\ \A r \in Requests : pc[r] # "arrive" => context[r].id # Absent
    /\ records \subseteq [request : Requests, context : Path!Context]
    /\ sessions \in [Requests -> BOOLEAN]
    /\ accepted \in [Requests -> SUBSET (User \cup {Absent})]
    /\ result \in [Requests -> Path!Result]
    /\ pc \in [Requests -> Path!Label]
  BY DEF Path!TypeOK, Path!At

LEMMA GotoFacts ==
  ASSUME Path!TypeOK, NEW r \in Requests, NEW label \in Path!Label, Path!Goto(r, label)
  PROVE  /\ pc' \in [Requests -> Path!Label] /\ pc'[r] = label
         /\ \A q \in Requests \ {r} : pc'[q] = pc[q]
  BY DEF Path!TypeOK, Path!Goto

LEMMA RaiseFacts ==
  ASSUME Path!TypeOK, NEW r \in Requests, NEW error \in Path!Result, Path!Raise(r, error)
  PROVE  /\ pc' \in [Requests -> Path!Label] /\ pc'[r] = "answer"
         /\ result' \in [Requests -> Path!Result] /\ result'[r] = error
         /\ \A q \in Requests \ {r} : pc'[q] = pc[q] /\ result'[q] = result[q]
  BY DEF Path!TypeOK, Path!Raise, Path!Goto, Path!Label

LEMMA LogFacts ==
  ASSUME Path!TypeOK, NEW r \in Requests, NEW logger \in [Requests -> Path!Context],
         Path!Log(r, logger)
  PROVE  /\ records' \subseteq [request : Requests, context : Path!Context]
         /\ \A record \in records' :
              record \in records \/ (record.request = r /\ record.context = logger[r])
  <1>1. records \subseteq [request : Requests, context : Path!Context]
    BY PathTypes
  <1> QED
    BY <1>1 DEF Path!Log

(***************************************************************************)
(* A step of one request keeps the invariant of the others.                *)
(***************************************************************************)

LEMMA StepKeeps ==
  ASSUME Path!ConstantsAssumption, Path!TypeOK, PathInv, NEW r \in Requests,
         UNCHANGED <<cfg, headers>>, context' = log',
         pc' \in [Requests -> Path!Label], context' \in [Requests -> Path!Context],
         view' \in [Requests -> Path!Context], sessions' \in [Requests -> BOOLEAN],
         accepted' \in [Requests -> SUBSET (User \cup {Absent})], result' \in [Requests -> Path!Result],
         records' \subseteq [request : Requests, context : Path!Context],
         \A q \in Requests \ {r} :
           /\ pc'[q] = pc[q] /\ context'[q] = context[q] /\ view'[q] = view[q]
           /\ sessions'[q] = sessions[q] /\ accepted'[q] = accepted[q]
           /\ result'[q] = result[q],
         ContextInv(r)', ViewInv(r)', ResultInv(r)', sessions'[r] => pc'[r] = "upstream",
         accepted[r] \subseteq accepted'[r],
         \A record \in records' :
           \/ record \in records
           \/ /\ record.request = r /\ record.context.id = Path!RequestId(r)
              /\ record.context.user \in {Absent} \cup accepted'[r]
  PROVE  Path!TypeOK' /\ PathInv'
  <1>1. \A q : Path!RequestId(q)' = Path!RequestId(q) /\ Path!Sent(q)' = Path!Sent(q)
    BY DEF Path!RequestId, Path!Sent
  <1>2. ASSUME NEW q \in Requests \ {r}
        PROVE  /\ ContextInv(q)' /\ ViewInv(q)' /\ ResultInv(q)'
               /\ sessions'[q] => pc'[q] = "upstream"
    <2>1. /\ ContextInv(q) /\ ViewInv(q) /\ ResultInv(q)
          /\ sessions[q] => pc[q] = "upstream"
      BY DEF PathInv, Path!At
    <2>2. /\ pc'[q] = pc[q] /\ context'[q] = context[q] /\ view'[q] = view[q]
          /\ sessions'[q] = sessions[q] /\ accepted'[q] = accepted[q]
          /\ result'[q] = result[q]
      OBVIOUS
    <2>3. ContextInv(q)'
      BY <1>1, <2>1, <2>2 DEF ContextInv, Path!At
    <2>4. ViewInv(q)'
      BY <1>1, <2>1, <2>2 DEF ViewInv
    <2>5. ResultInv(q)'
      <3>1. (Path!At(q, "answer")' <=> Path!At(q, "answer")) /\ (Path!At(q, "done")' <=> Path!At(q, "done"))
        BY <2>2 DEF Path!At
      <3> QED
        BY <1>1, <2>1, <2>2, <3>1 DEF ResultInv
    <2> QED
      BY <2>1, <2>2, <2>3, <2>4, <2>5
  <1>3. ASSUME NEW record \in records'
        PROVE  RecordInv(record)'
    <2>1. CASE record \in records
      <3>1. RecordInv(record) /\ record.request \in Requests
        BY <2>1 DEF PathInv
      <3>2. accepted[record.request] \subseteq accepted'[record.request]
        BY <3>1
      <3> QED
        BY <1>1, <3>1, <3>2 DEF RecordInv
    <2>2. CASE record \notin records
      BY <1>1, <2>2 DEF RecordInv
    <2> QED
      BY <2>1, <2>2
  <1>4. PathInv'
    BY <1>2, <1>3 DEF PathInv, Path!At
  <1>5. ASSUME NEW q \in Requests, pc'[q] # "arrive"
        PROVE  context'[q].id # Absent
    <2>1. context'[q].id = Path!RequestId(q)
      BY <1>1, <1>4, <1>5 DEF PathInv, ContextInv, Path!At
    <2> QED
      BY <2>1, RequestFacts DEF Path!ConstantsAssumption
  <1>6. Path!TypeOK'
    BY <1>5 DEF Path!TypeOK, Path!At
  <1> QED
    BY <1>4, <1>6

\* A step that leaves identity and identifier alone.
LEMMA QuietKeeps ==
  ASSUME Path!ConstantsAssumption, Path!TypeOK, PathInv, NEW r \in Requests,
         NEW label \in Path!Label,
         UNCHANGED <<cfg, headers, context, log, accepted>>,
         ~Path!At(r, "arrive"), label # "arrive",
         label \in {"construct", "auth", "upstream"} => pc[r] \in {"construct", "auth"},
         label \in {"permission", "handle"} => pc[r] \in {"permission", "handle"},
         pc' \in [Requests -> Path!Label], pc'[r] = label,
         view' \in [Requests -> Path!Context], sessions' \in [Requests -> BOOLEAN],
         result' \in [Requests -> Path!Result],
         records' \subseteq [request : Requests, context : Path!Context],
         \A q \in Requests \ {r} :
           /\ pc'[q] = pc[q] /\ view'[q] = view[q]
           /\ sessions'[q] = sessions[q] /\ result'[q] = result[q],
         ViewInv(r)', ResultInv(r)', sessions'[r] => label = "upstream",
         \A record \in records' :
           \/ record \in records
           \/ record.request = r /\ record.context \in {log[r], view[r]}
                /\ (record.context = view[r] => pc[r] = "handle" \/ view[r] = log[r])
  PROVE  Path!TypeOK' /\ PathInv'
  <1>1. Path!RequestId(r)' = Path!RequestId(r) /\ Path!Sent(r)' = Path!Sent(r)
    BY DEF Path!RequestId, Path!Sent
  <1>2. ContextInv(r) /\ ViewInv(r) /\ context = log
    BY DEF PathInv
  <1>3. ContextInv(r)'
    BY <1>1, <1>2 DEF ContextInv, Path!At
  <1>4. log[r].id = Path!RequestId(r) /\ log[r].user \in {Absent} \cup accepted[r]
    BY <1>2 DEF ContextInv
  <1>5. pc[r] = "handle" => view[r].id = Path!RequestId(r) /\ view[r].user = Absent
    BY <1>2 DEF ViewInv
  <1>6. context' \in [Requests -> Path!Context]
        /\ accepted' \in [Requests -> SUBSET (User \cup {Absent})]
    BY PathTypes
  <1>7. \A record \in records' :
          \/ record \in records
          \/ /\ record.request = r /\ record.context.id = Path!RequestId(r)
             /\ record.context.user \in {Absent} \cup accepted'[r]
    BY <1>4, <1>5
  <1> QED
    BY <1>2, <1>3, <1>6, <1>7, StepKeeps

\* One that ends in an error or an answer, or in nothing.
LEMMA RaiseKeeps ==
  ASSUME Path!ConstantsAssumption, Path!TypeOK, PathInv, NEW r \in Requests,
         NEW error \in Path!Result,
         Path!Raise(r, error), Pending(error, Path!RequestId(r)),
         UNCHANGED <<cfg, headers, context, log, view, accepted>>, ~Path!At(r, "arrive"),
         Path!EndSession(r) \/ (UNCHANGED sessions /\ ~Path!At(r, "upstream")),
         UNCHANGED records \/ Path!Log(r, log) \/ (Path!Log(r, view) /\ Path!At(r, "handle"))
  PROVE  Path!TypeOK' /\ PathInv'
  <1>1. /\ pc' \in [Requests -> Path!Label] /\ pc'[r] = "answer"
        /\ result' \in [Requests -> Path!Result] /\ result'[r] = error
        /\ \A q \in Requests \ {r} : pc'[q] = pc[q] /\ result'[q] = result[q]
    BY RaiseFacts
  <1>2. /\ log \in [Requests -> Path!Context] /\ view \in [Requests -> Path!Context]
        /\ records \subseteq [request : Requests, context : Path!Context]
        /\ sessions \in [Requests -> BOOLEAN]
    BY PathTypes
  <1>3. /\ sessions' \in [Requests -> BOOLEAN] /\ ~sessions'[r]
        /\ \A q \in Requests \ {r} : sessions'[q] = sessions[q]
    BY <1>2 DEF Path!EndSession, PathInv
  <1>4. /\ records' \subseteq [request : Requests, context : Path!Context]
        /\ \A record \in records' :
             \/ record \in records
             \/ record.request = r /\ record.context \in {log[r], view[r]}
                  /\ (record.context = view[r] => pc[r] = "handle" \/ view[r] = log[r])
    <2>1. CASE UNCHANGED records
      BY <1>2, <2>1
    <2>2. CASE Path!Log(r, log)
      BY <1>2, <2>2, LogFacts
    <2>3. CASE Path!Log(r, view) /\ Path!At(r, "handle")
      BY <1>2, <2>3, LogFacts DEF Path!At
    <2> QED
      BY <2>1, <2>2, <2>3
  <1>5. Path!RequestId(r)' = Path!RequestId(r)
    BY DEF Path!RequestId
  <1>6. ViewInv(r)' /\ ResultInv(r)'
    BY <1>1, <1>5 DEF ViewInv, ResultInv, Path!At
  <1> QED
    BY <1>1, <1>2, <1>3, <1>4, <1>6, QuietKeeps DEF Path!Label

(***************************************************************************)
(* The steps.                                                              *)
(***************************************************************************)

LEMMA ArriveKeeps ==
  ASSUME Path!ConstantsAssumption, Path!TypeOK, PathInv, NEW r \in Requests, Path!Arrive(r)
  PROVE  Path!TypeOK' /\ PathInv'
  <1> DEFINE c == [id |-> Path!RequestId(r), user |-> Absent]
  <1>1. c \in Path!Context /\ c.id = Path!RequestId(r) /\ c.user = Absent
    BY RequestFacts DEF Path!Context
  <1>2. /\ context' = [context EXCEPT ![r] = c] /\ log' = [log EXCEPT ![r] = c]
        /\ pc[r] = "arrive"
        /\ UNCHANGED <<cfg, headers, view, records, sessions, accepted, result>>
    BY PathTypes DEF Path!Arrive, Path!Install, Path!At
  <1> HIDE DEF c
  <1>3. /\ context' \in [Requests -> Path!Context] /\ context' = log' /\ context'[r] = c
        /\ \A q \in Requests \ {r} : context'[q] = context[q]
    BY <1>1, <1>2, PathTypes DEF PathInv
  <1>4. /\ pc' \in [Requests -> Path!Label] /\ pc'[r] = "construct"
        /\ \A q \in Requests \ {r} : pc'[q] = pc[q]
    BY GotoFacts DEF Path!Arrive, Path!Label
  <1>5. Path!RequestId(r)' = Path!RequestId(r)
    BY <1>2 DEF Path!RequestId
  <1>6. /\ accepted[r] = {} /\ ~sessions[r]
    BY <1>2 DEF PathInv, ContextInv, Path!At
  <1>7. ContextInv(r)' /\ ViewInv(r)' /\ ResultInv(r)'
    BY <1>1, <1>2, <1>3, <1>4, <1>5, <1>6 DEF ContextInv, ViewInv, ResultInv, Path!At
  <1>8. /\ view' \in [Requests -> Path!Context] /\ sessions' \in [Requests -> BOOLEAN]
        /\ accepted' \in [Requests -> SUBSET (User \cup {Absent})]
        /\ result' \in [Requests -> Path!Result]
        /\ records' \subseteq [request : Requests, context : Path!Context]
    BY <1>2, PathTypes
  <1> QED
    BY <1>2, <1>3, <1>4, <1>6, <1>7, <1>8, StepKeeps

\* The view is made, and asks the authentication service.
LEMMA AskKeeps ==
  ASSUME Path!ConstantsAssumption, Path!TypeOK, PathInv, NEW r \in Requests,
         Path!Construct(r) \/ Path!AskService(r)
  PROVE  Path!TypeOK' /\ PathInv'
  <1>1. /\ log \in [Requests -> Path!Context] /\ view \in [Requests -> Path!Context]
        /\ records \subseteq [request : Requests, context : Path!Context]
        /\ sessions \in [Requests -> BOOLEAN] /\ cfg.own \in BOOLEAN
        /\ result \in [Requests -> Path!Result]
    BY PathTypes
  <1>2. ContextInv(r) /\ ViewInv(r) /\ context = log /\ (sessions[r] => Path!At(r, "upstream"))
    BY DEF PathInv
  <1>3. Path!RequestId(r)' = Path!RequestId(r)
    BY DEF Path!RequestId, Path!Construct, Path!AskService
  <1>4. CASE Path!Construct(r)
    <2>1. /\ pc' \in [Requests -> Path!Label] /\ pc'[r] = "auth" /\ pc[r] = "construct"
          /\ \A q \in Requests \ {r} : pc'[q] = pc[q]
          /\ UNCHANGED <<cfg, headers, context, log, records, sessions, accepted, result>>
      BY <1>4, GotoFacts DEF Path!Construct, Path!Label, Path!At
    <2>2. /\ view' \in [Requests -> Path!Context] /\ view'[r] = log[r]
          /\ \A q \in Requests \ {r} : view'[q] = view[q]
      BY <1>1, <1>4 DEF Path!Construct
    <2>3. ViewInv(r)' /\ ResultInv(r)' /\ ~sessions'[r]
      BY <1>2, <1>3, <2>1, <2>2 DEF ViewInv, ResultInv, ContextInv, Path!At
    <2> QED
      BY <1>1, <2>1, <2>2, <2>3, QuietKeeps DEF Path!Label, Path!At
  <1>5. CASE Path!AskService(r)
    <2>1. /\ pc' \in [Requests -> Path!Label] /\ pc'[r] = "upstream" /\ pc[r] = "auth"
          /\ \A q \in Requests \ {r} : pc'[q] = pc[q]
          /\ UNCHANGED <<cfg, headers, context, log, view, accepted, result>>
      BY <1>5, GotoFacts DEF Path!AskService, Path!Label, Path!At
    <2>2. /\ sessions' \in [Requests -> BOOLEAN]
          /\ \A q \in Requests \ {r} : sessions'[q] = sessions[q]
      BY <1>1, <1>5 DEF Path!AskService
    <2>3. /\ records' \subseteq [request : Requests, context : Path!Context]
          /\ \A record \in records' :
               record \in records \/ (record.request = r /\ record.context = log[r])
      BY <1>1, <1>5, LogFacts DEF Path!AskService
    <2>4. ViewInv(r)' /\ ResultInv(r)'
      BY <1>2, <1>3, <2>1 DEF ViewInv, ResultInv, Path!At
    <2> QED
      BY <1>1, <2>1, <2>2, <2>3, <2>4, QuietKeeps DEF Path!Label, Path!At
  <1> QED
    BY <1>4, <1>5

\* The service does not accept, does not answer, or there is no route or no service.
LEMMA ErrorKeeps ==
  ASSUME Path!ConstantsAssumption, Path!TypeOK, PathInv, NEW r \in Requests,
         Path!NoRoute(r) \/ Path!NoAuthUrl(r) \/ Path!ServiceError(r) \/ Path!Timeout(r)
  PROVE  Path!TypeOK' /\ PathInv'
  <1>1. \A status \in Status : /\ Path!JsonError(status) \in Path!Result
                               /\ Pending(Path!JsonError(status), Path!RequestId(r))
    BY JsonErrorFacts DEF Pending
  <1>2. {403, 502, 503} \subseteq Status
    BY DEF Status
  <1>3. CASE Path!NoRoute(r)
    <2>1. Pending(NotFound, Path!RequestId(r))
      BY NotFoundFacts DEF Pending
    <2>2. /\ Path!Raise(r, NotFound) /\ pc[r] = "construct"
          /\ UNCHANGED <<cfg, headers, context, log, view, records, sessions, accepted>>
      BY <1>3 DEF Path!NoRoute, Path!At, NotFound
    <2> QED
      BY <2>1, <2>2, NotFoundFacts, RaiseKeeps DEF Path!At
  <1>4. CASE Path!NoAuthUrl(r)
    <2>1. /\ Path!Raise(r, Path!JsonError(503)) /\ Path!Log(r, log) /\ pc[r] = "auth"
          /\ UNCHANGED <<cfg, headers, context, log, view, sessions, accepted>>
      BY <1>4 DEF Path!NoAuthUrl, Path!At
    <2> QED
      BY <1>1, <1>2, <2>1, RaiseKeeps DEF Path!At
  <1>5. CASE Path!ServiceError(r) \/ Path!Timeout(r)
    <2>1. PICK status \in {403, 502, 503} : Path!Raise(r, Path!JsonError(status))
      BY <1>5 DEF Path!ServiceError, Path!Timeout
    <2>2. /\ pc[r] = "upstream" /\ Path!EndSession(r)
          /\ UNCHANGED <<cfg, headers, context, log, view, records, accepted>>
      BY <1>5 DEF Path!ServiceError, Path!Timeout, Path!At
    <2> QED
      BY <1>1, <1>2, <2>1, <2>2, RaiseKeeps DEF Path!At
  <1> QED
    BY <1>3, <1>4, <1>5

\* The service accepts: context and logger get the identity.
LEMMA AcceptKeeps ==
  ASSUME Path!ConstantsAssumption, Path!TypeOK, PathInv, NEW r \in Requests, Path!Accept(r)
  PROVE  Path!TypeOK' /\ PathInv'
  <1>1. PICK user \in {Absent, Path!Sent(r)} :
          /\ Path!Install(r, [context[r] EXCEPT !.user = user])
          /\ accepted' = [accepted EXCEPT ![r] = {user}]
    <2>1. PICK payload \in Payloads :
            LET user == Path!Identity(payload, Path!Sent(r))
            IN /\ Path!Install(r, [context[r] EXCEPT !.user = user])
               /\ accepted' = [accepted EXCEPT ![r] = {user}]
      BY DEF Path!Accept
    <2> QED
      BY <2>1, RequestFacts
  <1>2. /\ ContextInv(r) /\ ViewInv(r) /\ context = log
        /\ pc[r] = "upstream" /\ context[r] \in Path!Context
        /\ UNCHANGED <<cfg, headers, view, records, result>>
    BY PathTypes DEF PathInv, Path!Accept, Path!At
  <1> DEFINE c == [context[r] EXCEPT !.user = user]
  <1>3. user \in User \cup {Absent}
    BY RequestFacts
  <1>4. c \in Path!Context /\ c.id = context[r].id /\ c.user = user
    BY <1>2, <1>3 DEF Path!Context
  <1>5. context' = [context EXCEPT ![r] = c] /\ log' = [log EXCEPT ![r] = c]
    BY <1>1 DEF Path!Install
  <1> HIDE DEF c
  <1>6. /\ context' \in [Requests -> Path!Context] /\ context' = log' /\ context'[r] = c
        /\ \A q \in Requests \ {r} : context'[q] = context[q]
    BY <1>2, <1>4, <1>5, PathTypes
  <1>7. /\ accepted' \in [Requests -> SUBSET (User \cup {Absent})] /\ accepted'[r] = {user}
        /\ \A q \in Requests \ {r} : accepted'[q] = accepted[q]
    BY <1>1, <1>3, PathTypes
  <1>8. /\ pc' \in [Requests -> Path!Label] /\ pc'[r] = "permission"
        /\ \A q \in Requests \ {r} : pc'[q] = pc[q]
    BY GotoFacts DEF Path!Accept, Path!Label
  <1>9. /\ sessions' \in [Requests -> BOOLEAN] /\ ~sessions'[r]
        /\ \A q \in Requests \ {r} : sessions'[q] = sessions[q]
    BY PathTypes DEF Path!Accept, Path!EndSession
  <1>10. Path!RequestId(r)' = Path!RequestId(r) /\ Path!Sent(r)' = Path!Sent(r)
    BY <1>2 DEF Path!RequestId, Path!Sent
  <1>11. ContextInv(r)'
    <2>1. user # Absent => headers[r].credentials # <<>> /\ user = Path!Sent(r)
      BY RequestFacts
    <2> QED
      BY <1>2, <1>4, <1>6, <1>7, <1>8, <1>10, <2>1 DEF ContextInv, Path!At
  <1>12. ViewInv(r)' /\ ResultInv(r)'
    BY <1>2, <1>8, <1>10 DEF ViewInv, ResultInv, Path!At
  <1>13. /\ view' \in [Requests -> Path!Context] /\ result' \in [Requests -> Path!Result]
         /\ records' \subseteq [request : Requests, context : Path!Context]
    BY <1>2, PathTypes
  <1>14. accepted[r] = {}
    BY <1>2 DEF ContextInv
  <1> QED
    BY <1>2, <1>6, <1>7, <1>8, <1>9, <1>11, <1>12, <1>13, <1>14, StepKeeps

\* The client goes away.
LEMMA CancelKeeps ==
  ASSUME Path!ConstantsAssumption, Path!TypeOK, PathInv, NEW r \in Requests, Path!Cancel(r)
  PROVE  Path!TypeOK' /\ PathInv'
  <1>1. /\ pc' \in [Requests -> Path!Label] /\ pc'[r] = "gone" /\ ~Path!At(r, "arrive")
        /\ \A q \in Requests \ {r} : pc'[q] = pc[q]
        /\ UNCHANGED <<cfg, headers, context, log, view, records, accepted, result>>
    BY GotoFacts DEF Path!Cancel, Path!Label, Path!At
  <1>2. /\ sessions' \in [Requests -> BOOLEAN] /\ ~sessions'[r]
        /\ \A q \in Requests \ {r} : sessions'[q] = sessions[q]
    BY PathTypes DEF Path!Cancel, Path!EndSession
  <1>3. ViewInv(r)' /\ ResultInv(r)'
    BY <1>1 DEF ViewInv, ResultInv, Path!At
  <1>4. /\ view' \in [Requests -> Path!Context] /\ result' \in [Requests -> Path!Result]
        /\ records' \subseteq [request : Requests, context : Path!Context]
    BY <1>1, PathTypes
  <1> QED
    BY <1>1, <1>2, <1>3, <1>4, QuietKeeps DEF Path!Label

\* The permission is checked.
LEMMA PermitKeeps ==
  ASSUME Path!ConstantsAssumption, Path!TypeOK, PathInv, NEW r \in Requests, Path!Permit(r)
  PROVE  Path!TypeOK' /\ PathInv'
  <1>1. /\ pc[r] = "permission" /\ Path!Log(r, log)
        /\ UNCHANGED <<cfg, headers, context, log, view, sessions, accepted>>
    BY DEF Path!Permit, Path!At
  <1>2. CASE Path!Raise(r, Path!JsonError(403))
    <2>1. Path!JsonError(403) \in Path!Result /\ Pending(Path!JsonError(403), Path!RequestId(r))
      BY JsonErrorFacts DEF Pending, Status
    <2> QED
      BY <1>1, <1>2, <2>1, RaiseKeeps DEF Path!At
  <1>3. CASE Path!Goto(r, "handle") /\ UNCHANGED result
    <2>1. /\ pc' \in [Requests -> Path!Label] /\ pc'[r] = "handle"
          /\ \A q \in Requests \ {r} : pc'[q] = pc[q]
      BY <1>3, GotoFacts DEF Path!Label
    <2>2. /\ records' \subseteq [request : Requests, context : Path!Context]
          /\ \A record \in records' :
               record \in records \/ (record.request = r /\ record.context = log[r])
      BY <1>1, LogFacts, PathTypes
    <2>3. Path!RequestId(r)' = Path!RequestId(r) /\ ViewInv(r)
      BY <1>1 DEF Path!RequestId, PathInv
    <2>4. ViewInv(r)' /\ ResultInv(r)' /\ ~sessions'[r]
      BY <1>1, <2>1, <2>3 DEF ViewInv, ResultInv, Path!At, PathInv
    <2>5. /\ view' \in [Requests -> Path!Context] /\ result' \in [Requests -> Path!Result]
          /\ sessions' \in [Requests -> BOOLEAN]
      BY <1>1, <1>3, PathTypes
    <2> QED
      BY <1>1, <1>3, <2>1, <2>2, <2>4, <2>5, QuietKeeps DEF Path!Label, Path!At
  <1> QED
    BY <1>2, <1>3 DEF Path!Permit

\* The handler returns or raises.
LEMMA HandleKeeps ==
  ASSUME Path!ConstantsAssumption, Path!TypeOK, PathInv, NEW r \in Requests, Path!Handle(r)
  PROVE  Path!TypeOK' /\ PathInv'
  <1>1. /\ pc[r] = "handle" /\ Path!Log(r, view)
        /\ UNCHANGED <<cfg, headers, context, log, view, sessions, accepted>>
        /\ context[r].id = Path!RequestId(r)
    BY DEF Path!Handle, Path!At, PathInv, ContextInv
  <1>2. PICK error \in Path!Result : Path!Raise(r, error) /\ Pending(error, Path!RequestId(r))
    <2>1. PICK kind \in Path!Raised \cup {"response", "stream"}, status \in {200, 400, 500} :
            /\ (status = 200) <=> (kind \in {"response", "stream"})
            /\ kind = "crash" => status = 500
            /\ Path!Raise(r, [Path!Nothing EXCEPT !.kind = kind, !.status = status,
                           !.details = kind \in {"own json", "http", "crash"}
                                       \/ (kind = "json" /\ status < 500),
                           !.id = IF kind = "stream" THEN context[r].id ELSE Absent])
      BY Zenon DEF Path!Handle
    <2> DEFINE d == kind \in {"own json", "http", "crash"} \/ (kind = "json" /\ status < 500)
               i == IF kind = "stream" THEN context[r].id ELSE Absent
               error == [Path!Nothing EXCEPT !.kind = kind, !.status = status, !.details = d, !.id = i]
    <2>2. /\ d \in BOOLEAN
          /\ d /\ kind \in {"json", "response", "stream"} => status < 500
      OBVIOUS
    <2>3. i \in Identifier /\ (kind = "stream" => i = Path!RequestId(r))
      BY <1>1, RequestFacts DEF Identifier
    <2> HIDE DEF d, i
    <2>4. kind \in Kind /\ kind # "none" /\ status \in Status
      <3>1. kind \in {"json", "own json", "http", "crash", "response", "stream"}
        BY DEF Path!Raised
      <3>2. kind \in Kind
        BY DEF Kind
      <3>3. kind # "none"
        BY <3>1
      <3>4. status \in Status
        BY DEF Status
      <3> QED
        BY <3>2, <3>3, <3>4
    <2>5. /\ error \in Path!Result /\ error.kind = kind /\ error.status = status
          /\ error.details = d /\ error.id = i
      BY <2>2, <2>3, <2>4, NothingFacts, ResultIs
    <2>6. Path!Raise(r, error)
      BY <2>1 DEF d, i
    <2> HIDE DEF error
    <2>7. Pending(error, Path!RequestId(r))
      BY <2>2, <2>3, <2>4, <2>5 DEF Pending
    <2> QED
      BY <2>5, <2>6, <2>7
  <1> QED
    BY <1>1, <1>2, RaiseKeeps DEF Path!At

\* The middlewares are left.
LEMMA AnswerKeeps ==
  ASSUME Path!ConstantsAssumption, Path!TypeOK, PathInv, NEW r \in Requests, Path!Answer(r)
  PROVE  Path!TypeOK' /\ PathInv'
  <1>1. /\ pc[r] = "answer" /\ Path!Goto(r, "done")
        /\ UNCHANGED <<cfg, headers, context, log, view, sessions, accepted>>
    BY DEF Path!Answer, Path!At
  <1>2. /\ result[r] \in Path!Result /\ Pending(result[r], Path!RequestId(r))
        /\ context[r].id = Path!RequestId(r) /\ Path!RequestId(r) \in Identifier
    BY <1>1, RequestFacts, PathTypes DEF PathInv, ResultInv, ContextInv, Path!At, Identifier
  <1> DEFINE y == Path!Stamp(Path!JsonErrors(Path!EraseHeaderServer(result[r])), context[r].id)
  <1>3. y \in Path!Result /\ Answered(y, Path!RequestId(r))
    BY <1>2, AnswerFacts
  <1>4. result' = [result EXCEPT ![r] = y]
    BY DEF Path!Answer
  <1> HIDE DEF y
  <1>5. /\ pc' \in [Requests -> Path!Label] /\ pc'[r] = "done"
        /\ \A q \in Requests \ {r} : pc'[q] = pc[q]
    BY <1>1, GotoFacts DEF Path!Label
  <1>6. /\ result' \in [Requests -> Path!Result] /\ result'[r] = y
        /\ \A q \in Requests \ {r} : result'[q] = result[q]
    BY <1>3, <1>4, PathTypes
  <1>7. /\ records' \subseteq [request : Requests, context : Path!Context]
        /\ \A record \in records' :
             record \in records \/ (record.request = r /\ record.context = log[r])
    BY LogFacts, PathTypes DEF Path!Answer
  <1>8. Path!RequestId(r)' = Path!RequestId(r)
    BY <1>1 DEF Path!RequestId
  <1>9. ViewInv(r)' /\ ResultInv(r)' /\ ~sessions'[r]
    BY <1>1, <1>3, <1>5, <1>6, <1>8 DEF ViewInv, ResultInv, PathInv, Path!At
  <1>10. view' \in [Requests -> Path!Context] /\ sessions' \in [Requests -> BOOLEAN]
    BY <1>1, PathTypes
  <1>11. \A record \in records' :
           \/ record \in records
           \/ record.request = r /\ record.context \in {log[r], view[r]}
                /\ (record.context = view[r] => pc[r] = "handle" \/ view[r] = log[r])
    BY <1>7
  <1> QED
    BY <1>1, <1>5, <1>6, <1>7, <1>9, <1>10, <1>11, QuietKeeps DEF Path!Label, Path!At

(***************************************************************************)
(* RequestPath: the theorems.                                              *)
(***************************************************************************)

LEMMA PathInit ==
  ASSUME Path!ConstantsAssumption, Path!Init
  PROVE  Path!TypeOK /\ PathInv
  <1>1. Path!NoContext \in Path!Context /\ Path!NoContext.id = Absent /\ Path!NoContext.user = Absent
    BY DEF Path!NoContext, Path!Context
  <1>2. Path!TypeOK
    BY <1>1, NothingFacts DEF Path!Init, Path!TypeOK, Path!At, Path!Label
  <1>3. PathInv
    BY <1>1 DEF Path!Init, PathInv, ContextInv, ViewInv, ResultInv, Path!At
  <1> QED
    BY <1>2, <1>3

LEMMA PathNext ==
  ASSUME Path!ConstantsAssumption, Path!TypeOK, PathInv, [Path!Next]_(Path!vars)
  PROVE  Path!TypeOK' /\ PathInv'
  <1>1. CASE UNCHANGED Path!vars
    BY <1>1 DEF Path!vars, Path!TypeOK, PathInv, ContextInv, ViewInv, ResultInv, RecordInv, Path!At,
                Path!RequestId, Path!Sent
  <1>2. ASSUME NEW r \in Requests, Path!Step(r)
        PROVE  Path!TypeOK' /\ PathInv'
    BY <1>2, ArriveKeeps, AskKeeps, ErrorKeeps, PermitKeeps, HandleKeeps, AnswerKeeps DEF Path!Step
  <1>3. ASSUME NEW r \in Requests, Path!Accept(r) \/ Path!ServiceError(r) \/ Path!Cancel(r)
        PROVE  Path!TypeOK' /\ PathInv'
    BY <1>3, AcceptKeeps, ErrorKeeps, CancelKeeps
  <1> QED
    BY <1>1, <1>2, <1>3 DEF Path!Next, Path!Finished

\* The inductive invariant: each request has its own context, logger and result, from
\* the first middleware (aiohttp_boilerplate/middleware) to its answer.
THEOREM PathInvariant ==
  ASSUME Path!ConstantsAssumption PROVE Path!Spec => [](Path!TypeOK /\ PathInv)
  <1>1. Path!Init => Path!TypeOK /\ PathInv
    BY PathInit
  <1>2. Path!TypeOK /\ PathInv /\ [Path!Next]_(Path!vars) => Path!TypeOK' /\ PathInv'
    BY PathNext
  <1> QED
    BY <1>1, <1>2, PTL DEF Path!Spec

\* logger_to_request: every answer, an error of whatever layer too, carries the
\* identifier of its own request.
THEOREM AnsweredWithOwnIdHolds ==
  ASSUME Path!ConstantsAssumption PROVE Path!Spec => []Path!AnsweredWithOwnId
  <1>1. Path!TypeOK /\ PathInv => Path!AnsweredWithOwnId
    BY DEF PathInv, ResultInv, Answered, Path!AnsweredWithOwnId, Path!RequestId
  <1> QED
    BY <1>1, PathInvariant, PTL

\* install_request_context: no log record names another request's identifier or user,
\* nor a user whom the authentication service has not yet accepted.
THEOREM RecordsAreOwnHolds ==
  ASSUME Path!ConstantsAssumption PROVE Path!Spec => []Path!RecordsAreOwn
  <1>1. Path!TypeOK /\ PathInv => Path!RecordsAreOwn
    BY DEF PathInv, RecordInv, Path!RecordsAreOwn, Path!RequestId
  <1> QED
    BY <1>1, PathInvariant, PTL

\* Auth.auth_user: the permission check and the handler run only for an identity that
\* the service has accepted, the owner of the first of the request's credentials.
THEOREM IdentityIsAcceptedHolds ==
  ASSUME Path!ConstantsAssumption PROVE Path!Spec => []Path!IdentityIsAccepted
  <1>1. Path!ConstantsAssumption /\ Path!TypeOK /\ PathInv => Path!IdentityIsAccepted
    BY RequestFacts DEF PathInv, ContextInv, Path!IdentityIsAccepted
  <1> QED
    BY <1>1, PathInvariant, PTL

\* json_error_middleware: an internal error is answered without its details, unless
\* the application wrote the JSON body itself.
THEOREM InternalsAreHiddenHolds ==
  ASSUME Path!ConstantsAssumption PROVE Path!Spec => []Path!InternalsAreHidden
  <1>1. Path!TypeOK /\ PathInv => Path!InternalsAreHidden
    BY DEF PathInv, ResultInv, Answered, Path!InternalsAreHidden
  <1> QED
    BY <1>1, PathInvariant, PTL

\* validate_token: the session that it made for itself is closed on every way out.
THEOREM OwnSessionsAreClosedHolds ==
  ASSUME Path!ConstantsAssumption PROVE Path!Spec => []Path!OwnSessionsAreClosed
  <1>1. Path!TypeOK /\ PathInv => Path!OwnSessionsAreClosed
    BY DEF PathInv, Path!OwnSessionsAreClosed
  <1> QED
    BY <1>1, PathInvariant, PTL

(***************************************************************************)
(* RequestPath as a part.                                                  *)
(***************************************************************************)

\* A behaviour of Service is one of RequestPath from its start, or never.
LEMMA ServiceIsPath ==
  /\ Spec /\ part = "path" => Path!Spec
  /\ Spec /\ ~(part = "path") => []~(part = "path")
  <1>1. Init /\ part = "path" => Path!Init
    BY DEF Init
  <1>2. [Next]_vars => /\ part = "path" => (part = "path")' /\ [Path!Next]_(Path!vars)
                       /\ ~(part = "path") => ~(part = "path")'
    BY DEF Next, vars, path, Path!vars
  <1> QED
    BY <1>1, <1>2, PTL DEF Spec, Path!Spec

\* The middlewares, Auth and the views: requests side by side keep their own identifier,
\* log, identity and session, and errors hide their details, whatever each of them sends
\* and whatever the authentication service answers.
THEOREM RequestsAreApartHolds == Spec => []RequestsAreApart
  <1>1. Path!ConstantsAssumption
    BY PartsAssumption
  <1>2. Path!Spec => /\ [](Path!TypeOK /\ PathInv) /\ []Path!AnsweredWithOwnId
                     /\ []Path!RecordsAreOwn /\ []Path!IdentityIsAccepted
                     /\ []Path!InternalsAreHidden /\ []Path!OwnSessionsAreClosed
    BY <1>1, PathInvariant, AnsweredWithOwnIdHolds, RecordsAreOwnHolds,
       IdentityIsAcceptedHolds, InternalsAreHiddenHolds, OwnSessionsAreClosedHolds
  <1>3. /\ Path!TypeOK /\ PathInv /\ Path!AnsweredWithOwnId /\ Path!RecordsAreOwn
             /\ Path!IdentityIsAccepted /\ Path!InternalsAreHidden /\ Path!OwnSessionsAreClosed
           => RequestsAreApart
        /\ ~(part = "path") => RequestsAreApart
    BY DEF RequestsAreApart
  <1> QED
    BY <1>2, <1>3, ServiceIsPath, PTL

(***************************************************************************)
(* Induction on natural numbers, over a set instead of a predicate.        *)
(***************************************************************************)

\* A set of natural numbers that is not empty has a least element.
LEMMA LeastOfNaturals ==
  ASSUME NEW T \in SUBSET Nat, T # {}
  PROVE  \E x \in T : \A y \in T : x <= y
  <1> DEFINE R == {p \in Nat \X Nat : p[1] < p[2]}
  <1>1. IsWellFoundedOn(R, Nat)
    BY NatLessThanWellFounded DEF OpToRel
  <1>2. \A x, y \in Nat : <<y, x>> \in R <=> y < x
    OBVIOUS
  <1> HIDE DEF R
  <1>3. PICK x \in T : \A y \in T : <<y, x>> \notin R
    BY <1>1, WFMin
  <1>4. ASSUME NEW y \in T PROVE x <= y
    <2>1. x \in Nat /\ y \in Nat /\ <<y, x>> \notin R
      BY <1>3
    <2>2. ~(y < x)
      BY <1>2, <2>1
    <2> QED
      BY <2>1, <2>2
  <1> QED
    BY <1>4

LEMMA InductionOverSet ==
  ASSUME NEW S, 0 \in S, \A n \in Nat : n \in S => n + 1 \in S
  PROVE  Nat \subseteq S
  <1> SUFFICES ASSUME Nat \ S # {} PROVE FALSE
    OBVIOUS
  <1>1. PICK n \in Nat \ S : \A m \in Nat \ S : n <= m
    BY LeastOfNaturals
  <1>2. n # 0 /\ n - 1 \in Nat /\ n - 1 \notin Nat \ S
    BY <1>1
  <1>3. (n - 1) + 1 \in S
    BY <1>2
  <1> QED
    BY <1>1, <1>3

(***************************************************************************)
(* Config: what its operators give.                                        *)
(***************************************************************************)

LEMMA ConfigSet == ASSUME NEW S PROVE Conf!ToSet(S) = {S[i] : i \in DOMAIN S}
  BY DEF Conf!ToSet

\* Exact origins in their canonical form, each of them once.
Canonical(s) ==
  /\ s \in Seq(DOMAIN Origins)
  /\ \A i \in DOMAIN s : Origins[s[i]] = s[i]
  /\ \A i, j \in DOMAIN s : i # j => s[i] # s[j]

\* The loop of canonicalize_origins.
NextSeen(s, o) == IF Origins[o] \in Conf!ToSet(s) THEN s ELSE Append(s, Origins[o])

Seen(given) ==
  LET seen[n \in 0 .. Len(given)] ==
        IF n = 0 THEN <<>>
        ELSE IF Origins[given[n]] \in Conf!ToSet(seen[n - 1]) THEN seen[n - 1]
        ELSE Append(seen[n - 1], Origins[given[n]])
  IN seen

\* The definition by recursion has a solution.
LEMMA SeenExists ==
  ASSUME NEW given, Len(given) \in Nat
  PROVE  Seen(given) = [n \in 0 .. Len(given) |->
                          IF n = 0 THEN <<>> ELSE NextSeen(Seen(given)[n - 1], given[n])]
  <1> DEFINE Added(s, n) == NextSeen(s, given[n])
             Is(f, k) == f = [n \in 0 .. k |-> IF n = 0 THEN <<>> ELSE Added(f[n - 1], n)]
             S == {k \in Nat : \E f : Is(f, k)}
  <1>1. 0 \in S
    <2>1. Is([n \in 0 .. 0 |-> <<>>], 0)
      OBVIOUS
    <2> QED
      BY <2>1
  <1>2. ASSUME NEW k \in Nat, k \in S PROVE k + 1 \in S
    <2>1. PICK f : Is(f, k)
      BY <1>2
    <2> DEFINE g == [n \in 0 .. k + 1 |-> IF n = k + 1 THEN Added(f[k], k + 1) ELSE f[n]]
    <2> HIDE DEF Added
    <2>2. \A n \in 0 .. k : g[n] = f[n] /\ f[n] = IF n = 0 THEN <<>> ELSE Added(f[n - 1], n)
      BY <2>1
    <2>3. ASSUME NEW n \in 0 .. k + 1
          PROVE  g[n] = IF n = 0 THEN <<>> ELSE Added(g[n - 1], n)
      <3>1. CASE n = k + 1
        <4>1. n - 1 = k /\ k \in 0 .. k /\ n # 0
          BY <3>1
        <4> QED
          BY <2>2, <3>1, <4>1
      <3>2. CASE n # k + 1
        <4>1. n \in 0 .. k /\ (n # 0 => n - 1 \in 0 .. k)
          BY <3>2
        <4> QED
          BY <2>2, <4>1
      <3> QED
        BY <3>1, <3>2
    <2>4. g = [n \in 0 .. k + 1 |-> g[n]]
      OBVIOUS
    <2>5. Is(g, k + 1)
      <3> HIDE DEF g
      <3> QED
        BY <2>3, <2>4
    <2> HIDE DEF g, Is
    <2> QED
      BY <2>5
  <1>3. \E f : Is(f, Len(given))
    <2>1. Len(given) \in S
      <3> HIDE DEF S
      <3> QED
        BY <1>1, <1>2, InductionOverSet
    <2> QED
      BY <2>1
  <1> QED
    BY <1>3, Zenon DEF Seen, NextSeen

\* A step of the loop: the origins stay canonical, and one that is new comes last.
LEMMA NextSeenFacts ==
  ASSUME NEW s, Canonical(s), NEW o \in DOMAIN Origins, Conf!ConstantsAssumption
  PROVE  /\ Canonical(NextSeen(s, o)) /\ Len(NextSeen(s, o)) > 0
         /\ (\A i \in DOMAIN s : s[i] # Origins[o]) =>
              /\ Len(NextSeen(s, o)) = Len(s) + 1 /\ NextSeen(s, o)[Len(s) + 1] = Origins[o]
              /\ \A i \in DOMAIN s : NextSeen(s, o)[i] = s[i]
  <1>1. s \in Seq(DOMAIN Origins) /\ Len(s) \in Nat /\ DOMAIN s = 1 .. Len(s)
    BY LenProperties DEF Canonical
  <1>2. /\ Origins[o] \in DOMAIN Origins
        /\ Origins[Origins[o]] = Origins[o]
    BY DEF Conf!ConstantsAssumption
  <1>3. CASE Origins[o] \in Conf!ToSet(s)
    <2>1. NextSeen(s, o) = s
      BY <1>3 DEF NextSeen
    <2>2. PICK i \in DOMAIN s : s[i] = Origins[o]
      BY <1>3, ConfigSet
    <2>3. Len(s) > 0
      BY <1>1, <2>2
    <2> QED
      BY <2>1, <2>2, <2>3
  <1>4. CASE Origins[o] \notin Conf!ToSet(s)
    <2> DEFINE t == Append(s, Origins[o])
    <2>1. NextSeen(s, o) = t
      BY <1>4 DEF NextSeen
    <2>2. \A i \in DOMAIN s : s[i] # Origins[o]
      BY <1>4, ConfigSet
    <2>3. /\ t \in Seq(DOMAIN Origins) /\ Len(t) = Len(s) + 1 /\ DOMAIN t = 1 .. Len(s) + 1
          /\ t[Len(s) + 1] = Origins[o] /\ \A i \in DOMAIN s : t[i] = s[i]
      BY <1>1, <1>2, AppendProperties
    <2> HIDE DEF t
    <2>4. ASSUME NEW i \in DOMAIN t PROVE i = Len(s) + 1 \/ i \in DOMAIN s
      BY <1>1, <2>3
    <2>5. Canonical(t)
      BY <1>1, <1>2, <2>2, <2>3, <2>4 DEF Canonical
    <2> QED
      BY <1>1, <2>1, <2>3, <2>5
  <1> QED
    BY <1>3, <1>4

\* canonicalize_origins gives canonical origins, none only for none, and leaves canonical
\* ones as they are.
LEMMA SeenFacts ==
  ASSUME Conf!ConstantsAssumption, NEW given \in Seq(DOMAIN Origins)
  PROVE  LET s == Seen(given)[Len(given)]
         IN /\ Canonical(s) /\ (given # <<>> => s # <<>>)
            /\ Canonical(given) => s = given
  <1> DEFINE f == Seen(given)
             k == Len(given)
             Holds(s, n) == /\ Canonical(s) /\ (n > 0 => Len(s) > 0)
                            /\ Canonical(given) => Len(s) = n /\ \A i \in 1 .. n : s[i] = given[i]
             S == {n \in Nat : n <= k => Holds(f[n], n)}
  <1>1. k \in Nat /\ DOMAIN given = 1 .. k
    BY LenProperties
  <1>2. f = [n \in 0 .. k |-> IF n = 0 THEN <<>> ELSE NextSeen(f[n - 1], given[n])]
    BY <1>1, SeenExists
  <1> HIDE DEF f
  <1>3. f[0] = <<>> /\ \A n \in Nat : n + 1 <= k => f[n + 1] = NextSeen(f[n], given[n + 1])
    <2>1. 0 \in 0 .. k /\ \A n \in Nat : n + 1 <= k => n + 1 \in 0 .. k /\ (n + 1) - 1 = n /\ n + 1 # 0
      BY <1>1
    <2> QED
      BY <1>2, <2>1
  <1>4. 0 \in S
    <2>1. Canonical(<<>>) /\ Len(<<>>) = 0
      BY DEF Canonical
    <2> QED
      BY <1>3, <2>1
  <1>5. ASSUME NEW n \in Nat, n \in S PROVE n + 1 \in S
    <2> SUFFICES ASSUME n + 1 <= k PROVE Holds(f[n + 1], n + 1)
      OBVIOUS
    <2> DEFINE s == f[n]
               t == NextSeen(s, given[n + 1])
    <2>1. Holds(s, n) /\ f[n + 1] = t
      BY <1>1, <1>3, <1>5
    <2>2. n + 1 \in DOMAIN given /\ given[n + 1] \in DOMAIN Origins
      BY <1>1, ElementOfSeq
    <2> HIDE DEF s, t
    <2>3. /\ Canonical(t) /\ Len(t) > 0
          /\ (\A i \in DOMAIN s : s[i] # Origins[given[n + 1]]) =>
               /\ Len(t) = Len(s) + 1 /\ t[Len(s) + 1] = Origins[given[n + 1]]
               /\ \A i \in DOMAIN s : t[i] = s[i]
      BY <2>1, <2>2, NextSeenFacts DEF t
    <2>4. ASSUME Canonical(given)
          PROVE  Len(t) = n + 1 /\ \A i \in 1 .. n + 1 : t[i] = given[i]
      <3>1. Origins[given[n + 1]] = given[n + 1]
        BY <2>2, <2>4 DEF Canonical
      <3>2. Len(s) = n /\ DOMAIN s = 1 .. n /\ \A i \in 1 .. n : s[i] = given[i]
        BY <2>1, <2>4, LenProperties DEF Canonical
      <3>3. \A i \in 1 .. n : given[i] # given[n + 1]
        BY <1>1, <2>2, <2>4 DEF Canonical
      <3>4. Len(t) = n + 1 /\ t[n + 1] = given[n + 1] /\ \A i \in 1 .. n : t[i] = given[i]
        BY <2>3, <3>1, <3>2, <3>3
      <3> QED
        BY <3>4
    <2> QED
      BY <2>1, <2>3, <2>4
  <1>6. Holds(f[k], k)
    <2>1. k \in S
      <3> HIDE DEF S
      <3> QED
        BY <1>1, <1>4, <1>5, InductionOverSet
    <2> QED
      BY <1>1, <2>1
  <1>7. given # <<>> => k > 0
    BY <1>1, EmptySeq
  <1>8. ASSUME Canonical(given) PROVE f[k] = given
    <2>1. f[k] \in Seq(DOMAIN Origins) /\ Len(f[k]) = k /\ \A i \in 1 .. k : f[k][i] = given[i]
      BY <1>6, <1>8 DEF Canonical
    <2> QED
      BY <1>1, <2>1, SeqEqual
  <1>9. f[k] # <<>> \/ Len(f[k]) = 0
    OBVIOUS
  <1> QED
    BY <1>6, <1>7, <1>8, <1>9 DEF f

\* Values of different types differ.
LEMMA ValueFacts ==
  /\ \A x : /\ Conf!Text(x)[1] = "text" /\ Conf!Text(x)[2] = x
            /\ Conf!IntV(x)[1] = "int" /\ Conf!IntV(x)[2] = x
            /\ Conf!BoolV(x)[1] = "bool"
            /\ Conf!Map(x)[1] = "map" /\ Conf!Map(x)[2] = x
            /\ Conf!Tuple(x)[1] = "tuple" /\ Conf!Tuple(x)[2] = x
            /\ Conf!CorsConfig(x)[1] = "cors" /\ Conf!CorsConfig(x)[2] = x
  /\ Conf!None[1] = "none" /\ Conf!Bad[1] = "bad"
  BY DEF Conf!Text, Conf!IntV, Conf!BoolV, Conf!Map, Conf!Tuple, Conf!None, Conf!Bad,
     Conf!CorsConfig

LEMMA PlainFacts ==
  /\ \A s : Conf!Plain(Conf!Text(s)) /\ Conf!Plain(Conf!BoolV(s))
  /\ \A n \in Int : Conf!Plain(Conf!IntV(n))
  /\ Conf!Plain(Conf!None)
  /\ \A v : Conf!Plain(v) => /\ (v[1] = "int") => (v[2] \in Int /\ v = Conf!IntV(v[2]))
                             /\ (v[1] = "tuple") => Conf!IsSequence(v[2])
  <1>1. \A s : Conf!Plain(Conf!Text(s)) /\ Conf!Plain(Conf!BoolV(s))
    BY DEF Conf!Plain, Conf!Text, Conf!BoolV
  <1>2. \A v : Conf!Plain(v) => /\ (v[1] = "int") => (v[2] \in Int /\ v = Conf!IntV(v[2]))
                                /\ (v[1] = "tuple") => Conf!IsSequence(v[2])
    BY ValueFacts DEF Conf!Plain
  <1> QED
    BY <1>1, <1>2, ValueFacts DEF Conf!Plain

\* _as_int: a number that is not below the minimum, which is parsed again as itself.
LEMMA AsIntFacts ==
  ASSUME Conf!ConstantsAssumption, NEW v, Conf!Plain(v), NEW minimum \in Int
  PROVE  /\ \/ Conf!AsInt(v, minimum) = Conf!Bad
            \/ \E n \in Int : Conf!AsInt(v, minimum) = Conf!IntV(n) /\ n >= minimum
         /\ \A n \in Int : n >= minimum => Conf!AsInt(Conf!IntV(n), minimum) = Conf!IntV(n)
  <1> DEFINE n == IF v[1] = "text" /\ v[2] \in DOMAIN Numbers THEN Conf!IntV(Numbers[v[2]])
                  ELSE IF v[1] = "int" THEN v ELSE Conf!Bad
  <1>1. n = Conf!Bad \/ (n[2] \in Int /\ n = Conf!IntV(n[2]))
    BY PlainFacts, ValueFacts DEF Conf!ConstantsAssumption
  <1>2. Conf!AsInt(v, minimum) = IF n[1] = "int" /\ n[2] >= minimum THEN n ELSE Conf!Bad
    BY DEF Conf!AsInt
  <1>3. ASSUME NEW m \in Int, m >= minimum
        PROVE  Conf!AsInt(Conf!IntV(m), minimum) = Conf!IntV(m)
    BY <1>3, ValueFacts DEF Conf!AsInt
  <1> HIDE DEF n
  <1> QED
    BY <1>1, <1>2, <1>3

LEMMA AsBoolFacts ==
  ASSUME NEW v, Conf!AsBool(v) # Conf!Bad PROVE Conf!AsBool(Conf!AsBool(v)) = Conf!AsBool(v)
  <1>1. Conf!AsBool(v)[1] = "bool"
    BY ValueFacts DEF Conf!AsBool
  <1>2. \A w : w[1] = "bool" => Conf!AsBool(w) = w
    BY DEF Conf!AsBool
  <1> QED
    BY <1>1, <1>2

LEMMA CsvFacts ==
  /\ Conf!ConstantsAssumption => \A v : Conf!Plain(v) => Conf!IsSequence(Conf!Csv(v))
  /\ \A s : Conf!Csv(Conf!Tuple(s)) = s
  <1>1. ASSUME Conf!ConstantsAssumption, NEW v, Conf!Plain(v) PROVE Conf!IsSequence(Conf!Csv(v))
    <2>1. CASE v[1] = "text"
      <3>1. /\ Conf!IsSequence(<<>>) /\ Conf!IsSequence(<<v[2]>>)
            /\ v[2] \in DOMAIN Lists => Conf!IsSequence(Lists[v[2]])
        BY <1>1 DEF Conf!ConstantsAssumption, Conf!IsSequence
      <3>2. Conf!Csv(v) = IF v[2] = "" THEN <<>>
                          ELSE IF v[2] \in DOMAIN Lists THEN Lists[v[2]] ELSE <<v[2]>>
        BY <2>1 DEF Conf!Csv
      <3> QED
        BY <3>1, <3>2
    <2>2. CASE v[1] = "tuple"
      <3>1. Conf!Csv(v) = v[2]
        BY <2>2 DEF Conf!Csv
      <3> QED
        BY <1>1, <2>2, <3>1, PlainFacts
    <2>3. CASE v[1] # "text" /\ v[1] # "tuple"
      <3>1. Conf!Csv(v) = <<>>
        BY <2>3 DEF Conf!Csv
      <3> QED
        BY <3>1 DEF Conf!IsSequence
    <2> QED
      BY <2>1, <2>2, <2>3
  <1>2. \A s : Conf!Csv(Conf!Tuple(s)) = s
    BY ValueFacts DEF Conf!Csv
  <1> QED
    BY <1>1, <1>2

LEMMA CanonicalizeFacts ==
  ASSUME Conf!ConstantsAssumption, NEW v, Conf!IsSequence(Conf!Csv(v)),
         Conf!CanonicalizeOrigins(v) # Conf!Bad
  PROVE  /\ \E s : /\ Conf!CanonicalizeOrigins(v) = Conf!Tuple(s)
                   /\ Canonical(s) /\ (Conf!Csv(v) # <<>> => s # <<>>)
         /\ Canonical(Conf!Csv(v)) => Conf!CanonicalizeOrigins(v) = Conf!Tuple(Conf!Csv(v))
  <1> DEFINE given == Conf!Csv(v)
  <1>1. Conf!CanonicalizeOrigins(v) =
          IF \E o \in Conf!ToSet(given) : o \notin DOMAIN Origins THEN Conf!Bad
          ELSE Conf!Tuple(Seen(given)[Len(given)])
    BY DEF Conf!CanonicalizeOrigins, Seen
  <1> HIDE DEF given
  <1>2. \A i \in DOMAIN given : given[i] \in DOMAIN Origins
    BY <1>1, ConfigSet
  <1>3. Conf!CanonicalizeOrigins(v) = Conf!Tuple(Seen(given)[Len(given)])
    BY <1>1
  <1>4. given \in Seq(DOMAIN Origins)
    <2>1. Len(given) \in Nat /\ given = [i \in 1 .. Len(given) |-> given[i]]
      BY DEF given, Conf!IsSequence
    <2>2. \A i \in 1 .. Len(given) : given[i] \in DOMAIN Origins
      BY <1>2, <2>1
    <2> QED
      BY <2>1, <2>2
  <1> QED
    BY <1>2, <1>3, <1>4, SeenFacts DEF given

LEMMA CanonicalStays ==
  ASSUME Conf!ConstantsAssumption, NEW s, Canonical(s)
  PROVE  Conf!CanonicalizeOrigins(Conf!Tuple(s)) = Conf!Tuple(s)
  <1> DEFINE v == Conf!Tuple(s)
  <1>1. Conf!Csv(v) = s
    BY CsvFacts
  <1>2. Conf!CanonicalizeOrigins(v) =
          IF \E o \in Conf!ToSet(s) : o \notin DOMAIN Origins THEN Conf!Bad
          ELSE Conf!Tuple(Seen(s)[Len(s)])
    BY <1>1 DEF Conf!CanonicalizeOrigins, Seen
  <1>3. ~\E o \in Conf!ToSet(s) : o \notin DOMAIN Origins
    BY ConfigSet, ElementOfSeq DEF Canonical
  <1>4. Seen(s)[Len(s)] = s
    BY SeenFacts DEF Canonical
  <1> QED
    BY <1>2, <1>3, <1>4

LEMMA OverFacts ==
  ASSUME NEW new, NEW old
  PROVE  /\ DOMAIN Conf!Over(new, old) = DOMAIN new \cup DOMAIN old
         /\ \A k \in DOMAIN new : Conf!Over(new, old)[k] = new[k]
         /\ \A k \in DOMAIN old \ DOMAIN new : Conf!Over(new, old)[k] = old[k]
  BY DEF Conf!Over

\* The numbers of a group, which are parsed again as themselves.
LEMMA IntsFacts ==
  ASSUME Conf!ConstantsAssumption, NEW map, \A k \in DOMAIN map : Conf!Plain(map[k]),
         NEW minimum, \A k : Conf!Get(minimum, k, 0) \in Int,
         \A k \in DOMAIN map : Conf!Ints(map, minimum)[k] # Conf!Bad
  PROVE  LET r == Conf!Ints(map, minimum)
         IN /\ DOMAIN r = DOMAIN map
            /\ \A k \in DOMAIN map :
                 \E n \in Int : /\ r[k] = Conf!IntV(n) /\ n >= Conf!Get(minimum, k, 0)
                                /\ k = "port" => n <= 65535
            /\ Conf!Ints(r, minimum) = r
  <1> DEFINE r == Conf!Ints(map, minimum)
             low(k) == Conf!Get(minimum, k, 0)
             parsed(v, k) == LET n == Conf!AsInt(v, low(k))
                             IN IF k = "port" /\ n[1] = "int" /\ n[2] > 65535 THEN Conf!Bad ELSE n
  <1>1. r = [k \in DOMAIN map |-> parsed(map[k], k)]
    BY DEF Conf!Ints
  <1>2. ASSUME NEW k \in DOMAIN map
        PROVE  \E n \in Int : /\ r[k] = Conf!IntV(n) /\ n >= low(k) /\ (k = "port" => n <= 65535)
                              /\ parsed(Conf!IntV(n), k) = Conf!IntV(n)
    <2>1. r[k] = parsed(map[k], k) /\ r[k] # Conf!Bad /\ Conf!Plain(map[k])
      BY <1>1
    <2>2. low(k) \in Int
      OBVIOUS
    <2> HIDE DEF r, low
    <2>3. PICK n \in Int : Conf!AsInt(map[k], low(k)) = Conf!IntV(n) /\ n >= low(k)
      BY <2>1, <2>2, AsIntFacts
    <2>4. Conf!AsInt(Conf!IntV(n), low(k)) = Conf!IntV(n)
      BY <2>1, <2>2, <2>3, AsIntFacts
    <2>5. ~(k = "port" /\ n > 65535)
      BY <2>1, <2>3, ValueFacts
    <2>6. r[k] = Conf!IntV(n) /\ parsed(Conf!IntV(n), k) = Conf!IntV(n)
      BY <2>1, <2>3, <2>4, <2>5, ValueFacts
    <2> QED
      BY <2>3, <2>5, <2>6
  <1>3. DOMAIN r = DOMAIN map
    BY <1>1
  <1>4. Conf!Ints(r, minimum) = [k \in DOMAIN r |-> parsed(r[k], k)]
    BY DEF Conf!Ints
  <1>5. r = [k \in DOMAIN map |-> r[k]]
    BY <1>1
  <1> HIDE DEF r, parsed, low
  <1>6. \A k \in DOMAIN map : parsed(r[k], k) = r[k]
    BY <1>2
  <1>7. Conf!Ints(r, minimum) = r
    BY <1>3, <1>4, <1>5, <1>6
  <1> QED
    BY <1>2, <1>3, <1>7 DEF r, low

\* The settings with one value.
Single == Conf!Known \ (Conf!Group \cup {"cors"})

PlainBut(values) == \A k \in DOMAIN values : k \in Single => Conf!Plain(values[k])

\* Canonical origins, and some if there is a DOMAIN.
IsCors(cors, domain) ==
  /\ \E s : cors.origins = Conf!Tuple(s) /\ Canonical(s) /\ (domain => s # <<>>)
  /\ cors.max_age = Conf!None \/ \E n \in Nat : cors.max_age = Conf!IntV(n)
  /\ cors = [origins |-> cors.origins, max_age |-> cors.max_age]

\* A maximum age that parses is none or a natural number, and parses again as itself.
LEMMA AgeFacts ==
  ASSUME Conf!ConstantsAssumption, NEW age
  PROVE  LET parsed(a) == IF a = Conf!None THEN Conf!None ELSE Conf!AsInt(a, 0)
         IN /\ Conf!Plain(age) /\ parsed(age) # Conf!Bad =>
                 parsed(age) = Conf!None \/ \E n \in Nat : parsed(age) = Conf!IntV(n)
            /\ (age = Conf!None \/ \E n \in Nat : age = Conf!IntV(n)) =>
                 parsed(age) = age /\ age # Conf!Text("")
  <1> DEFINE parsed(a) == IF a = Conf!None THEN Conf!None ELSE Conf!AsInt(a, 0)
  <1>1. ASSUME Conf!Plain(age), parsed(age) # Conf!Bad
        PROVE  parsed(age) = Conf!None \/ \E n \in Nat : parsed(age) = Conf!IntV(n)
    <2>1. Conf!AsInt(age, 0) = Conf!Bad \/ \E n \in Int : Conf!AsInt(age, 0) = Conf!IntV(n) /\ n >= 0
      BY <1>1, AsIntFacts
    <2>2. \A n \in Int : n >= 0 => n \in Nat
      OBVIOUS
    <2> QED
      BY <1>1, <2>1, <2>2
  <1>2. ASSUME NEW n \in Nat, age = Conf!IntV(n) PROVE parsed(age) = age /\ age # Conf!Text("")
    <2>1. age[1] = "int"
      BY <1>2, ValueFacts
    <2>2. age # Conf!None /\ age # Conf!Text("")
      BY <2>1, ValueFacts
    <2>3. n \in Int /\ n >= 0 /\ 0 \in Int /\ Conf!Plain(Conf!None)
      BY PlainFacts
    <2>4. Conf!AsInt(age, 0) = age
      BY <1>2, <2>3, AsIntFacts
    <2> QED
      BY <2>2, <2>4
  <1>3. ASSUME age = Conf!None PROVE parsed(age) = age /\ age # Conf!Text("")
    BY <1>3, ValueFacts
  <1> QED
    BY <1>1, <1>2, <1>3

\* The CORS settings: canonical origins, of which there are some if there is a DOMAIN.
LEMMA CorsFacts ==
  ASSUME Conf!ConstantsAssumption, NEW values, PlainBut(values),
         Conf!Cors(values).origins # Conf!Bad, Conf!Cors(values).max_age # Conf!Bad
  PROVE  IsCors(Conf!Cors(values), Conf!HasDomain(values))
  <1> DEFINE c == Conf!Cors(values)
             origins == Conf!GetEither(values, "CORS_ALLOWED_ORIGINS", "cors_allowed_origins", Conf!Text(""))
             given == Conf!GetEither(values, "CORS_MAX_AGE", "cors_max_age", Conf!None)
             age == IF given = Conf!Text("") THEN Conf!None ELSE given
             domain == {Conf!Get(values, "DOMAIN", Conf!Text("")),
                        Conf!Get(values, "domain", Conf!Text(""))} # {Conf!Text("")}
  <1>1. c = [origins |-> IF domain /\ Conf!Csv(origins) = <<>> THEN Conf!Bad
                         ELSE Conf!CanonicalizeOrigins(origins),
             max_age |-> IF age = Conf!None THEN Conf!None ELSE Conf!AsInt(age, 0)]
    BY DEF Conf!Cors, Conf!CorsFields
  <1>2. \A k \in Single : \A d : Conf!Plain(d) => Conf!Plain(Conf!Get(values, k, d))
    BY DEF PlainBut, Conf!Get
  <1>3. Conf!Plain(origins) /\ Conf!Plain(given)
    <2>1. Conf!Plain(Conf!Text("")) /\ Conf!Plain(Conf!None)
      BY PlainFacts
    <2> QED
      BY <1>2, <2>1 DEF Conf!GetEither, Single, Conf!Group, Conf!Known
  <1>4. Conf!HasDomain(values) => domain
    BY DEF Conf!HasDomain
  <1> HIDE DEF c, origins, given, domain
  <1>5. Conf!Plain(age)
    BY <1>3, PlainFacts
  <1> HIDE DEF age
  <1>6. c = [origins |-> c.origins, max_age |-> c.max_age]
    BY <1>1
  <1>7. c.origins # Conf!Bad /\ c.max_age # Conf!Bad
    BY DEF c
  <1>8. /\ c.origins = Conf!CanonicalizeOrigins(origins) /\ ~(domain /\ Conf!Csv(origins) = <<>>)
        /\ c.max_age = IF age = Conf!None THEN Conf!None ELSE Conf!AsInt(age, 0)
    BY <1>1, <1>7
  <1>9. \E s : c.origins = Conf!Tuple(s) /\ Canonical(s) /\ (Conf!Csv(origins) # <<>> => s # <<>>)
    BY <1>3, <1>7, <1>8, CsvFacts, CanonicalizeFacts
  <1>10. c.max_age = Conf!None \/ \E n \in Nat : c.max_age = Conf!IntV(n)
    BY <1>5, <1>7, <1>8, AgeFacts
  <1> QED
    BY <1>4, <1>6, <1>8, <1>9, <1>10 DEF c, IsCors

\* What a CorsConfig holds is what the parser of the settings would have made.
LEMMA CorsConfigFacts ==
  ASSUME Conf!ConstantsAssumption, NEW v, Conf!IsCorsConfig(v),
         v[2].origins # Conf!Bad, v[2].max_age # Conf!Bad
  PROVE  IsCors(v[2], FALSE)
  <1> DEFINE c == v[2]
  <1>1. /\ c.origins[1] = "tuple" /\ Conf!Plain(c.origins) /\ Conf!Plain(c.max_age)
        /\ c = Conf!CorsFields(c.origins, c.max_age)
    BY DEF Conf!IsCorsConfig
  <1> HIDE DEF c
  <1>2. c = [origins |-> Conf!CanonicalizeOrigins(c.origins),
             max_age |-> IF c.max_age = Conf!None THEN Conf!None ELSE Conf!AsInt(c.max_age, 0)]
    BY <1>1 DEF Conf!CorsFields
  <1>3. /\ c.origins = Conf!CanonicalizeOrigins(c.origins)
        /\ c.max_age = (IF c.max_age = Conf!None THEN Conf!None ELSE Conf!AsInt(c.max_age, 0))
        /\ c = [origins |-> c.origins, max_age |-> c.max_age]
    BY <1>2
  <1>4. c.origins # Conf!Bad /\ c.max_age # Conf!Bad
    BY DEF c
  <1>5. \E s : c.origins = Conf!Tuple(s) /\ Canonical(s)
    BY <1>1, <1>3, <1>4, CsvFacts, CanonicalizeFacts
  <1>6. c.max_age = Conf!None \/ \E n \in Nat : c.max_age = Conf!IntV(n)
    BY <1>1, <1>3, <1>4, AgeFacts
  <1> QED
    BY <1>3, <1>5, <1>6 DEF c, IsCors

\* Parsed CORS settings are parsed again as themselves.
LEMMA CorsStay ==
  ASSUME Conf!ConstantsAssumption, NEW values, NEW s, Canonical(s), NEW age,
         age = Conf!None \/ \E n \in Nat : age = Conf!IntV(n),
         "CORS_ALLOWED_ORIGINS" \in DOMAIN values, values["CORS_ALLOWED_ORIGINS"] = Conf!Tuple(s),
         "CORS_MAX_AGE" \in DOMAIN values, values["CORS_MAX_AGE"] = age,
         "DOMAIN" \notin DOMAIN values, "domain" \notin DOMAIN values
  PROVE  Conf!Cors(values) = [origins |-> Conf!Tuple(s), max_age |-> age]
  <1>1. /\ Conf!GetEither(values, "CORS_ALLOWED_ORIGINS", "cors_allowed_origins", Conf!Text("")) = Conf!Tuple(s)
        /\ Conf!GetEither(values, "CORS_MAX_AGE", "cors_max_age", Conf!None) = age
        /\ Conf!Get(values, "DOMAIN", Conf!Text("")) = Conf!Text("")
        /\ Conf!Get(values, "domain", Conf!Text("")) = Conf!Text("")
    BY DEF Conf!GetEither, Conf!Get
  <1>2. age # Conf!Text("") /\ (IF age = Conf!None THEN Conf!None ELSE Conf!AsInt(age, 0)) = age
    BY AgeFacts
  <1>3. Conf!CanonicalizeOrigins(Conf!Tuple(s)) = Conf!Tuple(s)
    BY CanonicalStays
  <1> QED
    BY <1>1, <1>2, <1>3 DEF Conf!Cors, Conf!CorsFields

\* Settings as load_config merges them.
Settings(values) ==
  \A k \in DOMAIN values :
    /\ k \in Conf!Group =>
         values[k] = Conf!Map(values[k][2]) /\ \A j \in DOMAIN values[k][2] : Conf!Plain(values[k][2][j])
    /\ k = "cors" => Conf!IsMapping(values[k]) \/ Conf!IsCorsConfig(values[k]) \/ values[k] = Conf!None
    /\ k \in Single => Conf!Plain(values[k])

LEMMA GroupFacts ==
  ASSUME NEW values, Settings(values), NEW k \in Conf!Group
  PROVE  LET g == Conf!Get(values, k, Conf!Map(<<>>))[2]
         IN \A j \in DOMAIN g : Conf!Plain(g[j])
  <1>1. Conf!Map(<<>>)[2] = <<>> /\ DOMAIN <<>> = {}
    BY ValueFacts
  <1> QED
    BY <1>1 DEF Settings, Conf!Get

LEMMA SettingFacts ==
  ASSUME NEW values, Settings(values), NEW k \in Single, NEW d, Conf!Plain(d)
  PROVE  Conf!Plain(Conf!Get(values, k, d))
  BY DEF Settings, Conf!Get

LEMMA CorsSettingsFacts ==
  ASSUME NEW values, Settings(values) PROVE PlainBut(Conf!CorsSettings(values))
  <1> DEFINE nested == Conf!Get(values, "cors", Conf!None)
             map == nested[2]
  <1>1. PlainBut(values)
    BY DEF Settings, PlainBut
  <1>2. Conf!CorsSettings(values) = IF nested[1] = "map" THEN Conf!Over(map, values) ELSE values
    BY DEF Conf!CorsSettings
  <1>3. CASE nested[1] # "map"
    BY <1>1, <1>2, <1>3
  <1>4. CASE nested[1] = "map"
    <2>1. Conf!IsMapping(nested)
      <3>1. nested # Conf!None
        BY <1>4, ValueFacts
      <3>2. "cors" \in DOMAIN values /\ nested = values["cors"]
        BY <3>1 DEF Conf!Get
      <3> QED
        BY <1>4, <3>1, <3>2 DEF Settings, Conf!IsCorsConfig
    <2>2. \A j \in DOMAIN map : Conf!Plain(map[j])
      BY <2>1 DEF Conf!IsMapping
    <2> HIDE DEF map
    <2> DEFINE settings == Conf!Over(map, values)
    <2>3. /\ DOMAIN settings = DOMAIN map \cup DOMAIN values
          /\ \A k \in DOMAIN map : settings[k] = map[k]
          /\ \A k \in DOMAIN values \ DOMAIN map : settings[k] = values[k]
      BY OverFacts
    <2> HIDE DEF settings
    <2>4. PlainBut(settings)
      BY <1>1, <2>2, <2>3 DEF PlainBut
    <2> QED
      BY <1>2, <1>4, <2>4 DEF settings
  <1> QED
    BY <1>3, <1>4

LEMMA CorsOfFacts ==
  ASSUME Conf!ConstantsAssumption, NEW values, Settings(values),
         Conf!CorsOf(values).origins # Conf!Bad, Conf!CorsOf(values).max_age # Conf!Bad
  PROVE  IsCors(Conf!CorsOf(values), Conf!ParsesCors(values) /\ Conf!HasDomain(Conf!CorsSettings(values)))
  <1> DEFINE nested == Conf!Get(values, "cors", Conf!None)
             settings == Conf!CorsSettings(values)
  <1>1. /\ Conf!CorsOf(values) = IF nested[1] = "cors" THEN nested[2] ELSE Conf!Cors(settings)
        /\ Conf!ParsesCors(values) <=> nested[1] # "cors"
    BY DEF Conf!CorsOf, Conf!ParsesCors
  <1>2. CASE nested[1] # "cors"
    <2>1. PlainBut(settings)
      BY CorsSettingsFacts
    <2> HIDE DEF nested, settings
    <2>2. IsCors(Conf!Cors(settings), Conf!HasDomain(settings))
      BY <1>1, <1>2, <2>1, CorsFacts
    <2> QED
      BY <1>1, <1>2, <2>2 DEF IsCors, settings
  <1>3. CASE nested[1] = "cors"
    <2>1. Conf!IsCorsConfig(nested)
      <3>1. nested # Conf!None
        BY <1>3, ValueFacts
      <3>2. "cors" \in DOMAIN values /\ nested = values["cors"]
        BY <3>1 DEF Conf!Get
      <3> QED
        BY <1>3, <3>1, <3>2 DEF Settings, Conf!IsMapping
    <2> HIDE DEF nested
    <2>2. IsCors(nested[2], FALSE)
      BY <1>1, <1>3, <2>1, CorsConfigFacts
    <2> QED
      BY <1>1, <1>3, <2>2 DEF IsCors
  <1> QED
    BY <1>2, <1>3

\* A URL that is accepted is accepted again.
LEMMA AuthUrlFacts ==
  ASSUME NEW v, Conf!AuthUrl(v) # Conf!Bad
  PROVE  /\ Conf!AuthUrl(v) = v /\ Conf!AuthUrl(Conf!AuthUrl(v)) = Conf!AuthUrl(v)
         /\ v = Conf!Text("") \/ v[2] \in Urls
  BY DEF Conf!AuthUrl

\* The least that the numbers of the groups may be.
WebLow == [port |-> 1]
PostgresLow == [port |-> 1, min_size |-> 0, max_size |-> 1]

LEMMA LowFacts ==
  /\ \A k : Conf!Get(WebLow, k, 0) \in Int /\ Conf!Get(PostgresLow, k, 0) \in Int
  /\ Conf!Get(WebLow, "port", 0) = 1 /\ Conf!Get(PostgresLow, "port", 0) = 1
  /\ Conf!Get(PostgresLow, "min_size", 0) = 0 /\ Conf!Get(PostgresLow, "max_size", 0) = 1
  BY DEF WebLow, PostgresLow, Conf!Get

LEMMA ParsedFields ==
  ASSUME NEW values
  PROVE  LET c == Conf!Parsed(values)
         IN /\ c = [web_run |-> c.web_run, postgres |-> c.postgres,
                    cache_disabled |-> c.cache_disabled, auth_url |-> c.auth_url,
                    auth_timeout_total |-> c.auth_timeout_total, cors |-> c.cors, extras |-> c.extras]
            /\ c.web_run = Conf!Ints(Conf!Get(values, "web_run", Conf!Map(<<>>))[2], WebLow)
            /\ c.postgres = Conf!Ints(Conf!Get(values, "postgres", Conf!Map(<<>>))[2], PostgresLow)
            /\ c.cache_disabled = Conf!AsBool(Conf!Get(values, "AIOCACHE_DISABLE", Conf!BoolV(FALSE)))
            /\ c.auth_url = Conf!AuthUrl(Conf!GetEither(values, "AUTH_URL", "auth_url", Conf!Text("")))
            /\ c.auth_timeout_total =
                 Conf!AsInt(Conf!Get(values, "AUTH_TIMEOUT_TOTAL", Conf!IntV(10)), 1)
            /\ c.cors = Conf!CorsOf(values)
            /\ c.extras = [k \in DOMAIN values \ Conf!Known |-> values[k]]
  BY DEF Conf!Parsed, WebLow, PostgresLow

\* Numbers in their range, which are parsed again as themselves.
IsGroup(numbers, low) ==
  /\ \A k \in DOMAIN numbers :
       \E n \in Int : /\ numbers[k] = Conf!IntV(n) /\ n >= Conf!Get(low, k, 0)
                      /\ k = "port" => n <= 65535
  /\ Conf!Ints(numbers, low) = numbers

IsTimeout(t) == (\E n \in Int : t = Conf!IntV(n) /\ n >= 1) /\ Conf!AsInt(t, 1) = t

IsUrl(u) == (u = Conf!Text("") \/ u[2] \in Urls) /\ Conf!AuthUrl(u) = u

\* What an accepted configuration's parts are.
LEMMA AcceptedFacts ==
  ASSUME Conf!ConstantsAssumption, NEW values, Settings(values),
         NEW c, c = Conf!Parsed(values), Conf!Bad \notin Conf!Parts(c)
  PROVE  /\ IsGroup(c.web_run, WebLow) /\ IsGroup(c.postgres, PostgresLow)
         /\ Conf!AsBool(c.cache_disabled) = c.cache_disabled
         /\ IsTimeout(c.auth_timeout_total) /\ IsUrl(c.auth_url)
         /\ IsCors(c.cors, Conf!ParsesCors(values) /\ Conf!HasDomain(Conf!CorsSettings(values)))
  <1> DEFINE web == Conf!Get(values, "web_run", Conf!Map(<<>>))[2]
             postgres == Conf!Get(values, "postgres", Conf!Map(<<>>))[2]
             timeout == Conf!Get(values, "AUTH_TIMEOUT_TOTAL", Conf!IntV(10))
             flag == Conf!Get(values, "AIOCACHE_DISABLE", Conf!BoolV(FALSE))
             url == Conf!GetEither(values, "AUTH_URL", "auth_url", Conf!Text(""))
  <1>1. /\ c.web_run = Conf!Ints(web, WebLow) /\ c.postgres = Conf!Ints(postgres, PostgresLow)
        /\ c.cache_disabled = Conf!AsBool(flag)
        /\ c.auth_timeout_total = Conf!AsInt(timeout, 1) /\ c.cors = Conf!CorsOf(values)
        /\ c.auth_url = Conf!AuthUrl(url)
    BY ParsedFields
  <1>2. (\A j \in DOMAIN web : Conf!Plain(web[j])) /\ (\A j \in DOMAIN postgres : Conf!Plain(postgres[j]))
    BY GroupFacts DEF Conf!Group
  <1>3. Conf!Plain(timeout)
    <2>1. Conf!Plain(Conf!IntV(10)) /\ "AUTH_TIMEOUT_TOTAL" \in Single
      BY PlainFacts DEF Single, Conf!Group, Conf!Known
    <2> QED
      BY <2>1, SettingFacts
  <1> HIDE DEF web, postgres, timeout, flag, url
  <1>4. IsUrl(c.auth_url)
    <2>1. c.auth_url # Conf!Bad
      BY DEF Conf!Parts
    <2> QED
      BY <1>1, <2>1, AuthUrlFacts DEF IsUrl
  <1>5. /\ \A k \in DOMAIN c.web_run : c.web_run[k] # Conf!Bad
        /\ \A k \in DOMAIN c.postgres : c.postgres[k] # Conf!Bad
        /\ c.cache_disabled # Conf!Bad /\ c.auth_timeout_total # Conf!Bad
        /\ c.cors.origins # Conf!Bad /\ c.cors.max_age # Conf!Bad
    BY DEF Conf!Parts
  <1>6. DOMAIN c.web_run = DOMAIN web /\ DOMAIN c.postgres = DOMAIN postgres
    BY <1>1 DEF Conf!Ints
  <1>7. IsGroup(c.web_run, WebLow)
    BY <1>1, <1>2, <1>5, <1>6, LowFacts, IntsFacts DEF IsGroup
  <1>8. IsGroup(c.postgres, PostgresLow)
    BY <1>1, <1>2, <1>5, <1>6, LowFacts, IntsFacts DEF IsGroup
  <1>9. Conf!AsBool(c.cache_disabled) = c.cache_disabled
    BY <1>1, <1>5, AsBoolFacts
  <1>10. IsTimeout(c.auth_timeout_total)
    <2>1. 1 \in Int
      OBVIOUS
    <2> QED
      BY <1>1, <1>3, <1>5, <2>1, AsIntFacts DEF IsTimeout
  <1>11. IsCors(c.cors, Conf!ParsesCors(values) /\ Conf!HasDomain(Conf!CorsSettings(values)))
    BY <1>1, <1>5, CorsOfFacts
  <1> QED
    BY <1>4, <1>7, <1>8, <1>9, <1>10, <1>11

\* The mapping that a configuration is.
LEMMA CompatFacts ==
  ASSUME NEW c, DOMAIN c.extras \cap Conf!Known = {}
  PROVE  LET m == Conf!Compat(c)
         IN /\ m["web_run"] = Conf!Map(c.web_run) /\ m["postgres"] = Conf!Map(c.postgres)
            /\ m["AIOCACHE_DISABLE"] = c.cache_disabled /\ m["AUTH_URL"] = c.auth_url
            /\ m["AUTH_TIMEOUT_TOTAL"] = c.auth_timeout_total
            /\ m["CORS_ALLOWED_ORIGINS"] = c.cors.origins /\ m["CORS_MAX_AGE"] = c.cors.max_age
            /\ \A k \in DOMAIN c.extras : m[k] = c.extras[k]
            /\ DOMAIN m = {"web_run", "postgres", "AIOCACHE_DISABLE", "AUTH_URL", "AUTH_TIMEOUT_TOTAL",
                           "CORS_ALLOWED_ORIGINS", "CORS_MAX_AGE"} \cup DOMAIN c.extras
            /\ DOMAIN m \ Conf!Known = DOMAIN c.extras
            /\ m = [k \in DOMAIN m |-> m[k]]
  <1> DEFINE first == [web_run |-> Conf!Map(c.web_run), postgres |-> Conf!Map(c.postgres),
                       AIOCACHE_DISABLE |-> c.cache_disabled, AUTH_URL |-> c.auth_url,
                       AUTH_TIMEOUT_TOTAL |-> c.auth_timeout_total,
                       CORS_ALLOWED_ORIGINS |-> c.cors.origins, CORS_MAX_AGE |-> c.cors.max_age]
             m == Conf!Over(first, c.extras)
  <1>1. Conf!Compat(c) = m
    BY DEF Conf!Compat
  <1>2. m = [k \in DOMAIN m |-> m[k]]
    BY DEF Conf!Over
  <1>3. /\ DOMAIN first = {"web_run", "postgres", "AIOCACHE_DISABLE", "AUTH_URL", "AUTH_TIMEOUT_TOTAL",
                           "CORS_ALLOWED_ORIGINS", "CORS_MAX_AGE"}
        /\ first["web_run"] = Conf!Map(c.web_run) /\ first["postgres"] = Conf!Map(c.postgres)
        /\ first["AIOCACHE_DISABLE"] = c.cache_disabled /\ first["AUTH_URL"] = c.auth_url
        /\ first["AUTH_TIMEOUT_TOTAL"] = c.auth_timeout_total
        /\ first["CORS_ALLOWED_ORIGINS"] = c.cors.origins /\ first["CORS_MAX_AGE"] = c.cors.max_age
    OBVIOUS
  <1> HIDE DEF first
  <1>4. /\ DOMAIN m = DOMAIN first \cup DOMAIN c.extras
        /\ \A k \in DOMAIN first : m[k] = first[k]
        /\ \A k \in DOMAIN c.extras \ DOMAIN first : m[k] = c.extras[k]
    BY OverFacts
  <1> HIDE DEF m
  <1>5. DOMAIN first \subseteq Conf!Known
    BY <1>3 DEF Conf!Known
  <1>6. DOMAIN m \ Conf!Known = DOMAIN c.extras /\ \A k \in DOMAIN c.extras : m[k] = c.extras[k]
    BY <1>4, <1>5
  <1>7. \A k \in DOMAIN first : m[k] = first[k]
    BY <1>4
  <1>8. /\ m["web_run"] = Conf!Map(c.web_run) /\ m["postgres"] = Conf!Map(c.postgres)
        /\ m["AIOCACHE_DISABLE"] = c.cache_disabled /\ m["AUTH_URL"] = c.auth_url
        /\ m["AUTH_TIMEOUT_TOTAL"] = c.auth_timeout_total
        /\ m["CORS_ALLOWED_ORIGINS"] = c.cors.origins /\ m["CORS_MAX_AGE"] = c.cors.max_age
    BY <1>3, <1>7
  <1> QED
    BY <1>1, <1>2, <1>3, <1>4, <1>6, <1>8

\* A configuration is the same when made again from the mapping that it is.
LEMMA RebuildFacts ==
  ASSUME Conf!ConstantsAssumption, NEW values, Settings(values),
         NEW c, c = Conf!FromMapping(values), c # Conf!Rejected
  PROVE  Conf!FromMapping(Conf!Compat(c)) = c
  <1> DEFINE m == Conf!Compat(c)
             d == Conf!Parsed(m)
  <1>1. /\ c = Conf!Parsed(values) /\ Conf!Bad \notin Conf!Parts(c) /\ Conf!SizesFit(c.postgres)
    BY DEF Conf!FromMapping
  <1>2. /\ IsGroup(c.web_run, WebLow) /\ IsGroup(c.postgres, PostgresLow)
        /\ Conf!AsBool(c.cache_disabled) = c.cache_disabled
        /\ IsTimeout(c.auth_timeout_total) /\ Conf!AuthUrl(c.auth_url) = c.auth_url
        /\ \E domain : IsCors(c.cors, domain)
    BY <1>1, AcceptedFacts DEF IsUrl
  <1>3. c.extras = [k \in DOMAIN values \ Conf!Known |-> values[k]]
    BY <1>1, ParsedFields
  <1>4. /\ DOMAIN c.extras \cap Conf!Known = {} /\ c.extras = [k \in DOMAIN c.extras |-> c.extras[k]]
    BY <1>3
  <1>5. /\ m["web_run"] = Conf!Map(c.web_run) /\ m["postgres"] = Conf!Map(c.postgres)
        /\ m["AIOCACHE_DISABLE"] = c.cache_disabled /\ m["AUTH_URL"] = c.auth_url
        /\ m["AUTH_TIMEOUT_TOTAL"] = c.auth_timeout_total
        /\ m["CORS_ALLOWED_ORIGINS"] = c.cors.origins /\ m["CORS_MAX_AGE"] = c.cors.max_age
        /\ \A k \in DOMAIN c.extras : m[k] = c.extras[k]
        /\ {"web_run", "postgres", "AIOCACHE_DISABLE", "AUTH_URL", "AUTH_TIMEOUT_TOTAL",
            "CORS_ALLOWED_ORIGINS", "CORS_MAX_AGE"} \subseteq DOMAIN m
        /\ DOMAIN m \ Conf!Known = DOMAIN c.extras
        /\ m = [k \in DOMAIN m |-> m[k]]
        /\ "cors" \notin DOMAIN m /\ "DOMAIN" \notin DOMAIN m /\ "domain" \notin DOMAIN m
    <2>1. \A k \in {"cors", "DOMAIN", "domain"} : k \notin DOMAIN c.extras
      BY <1>4 DEF Conf!Known
    <2> QED
      BY <1>4, <2>1, CompatFacts
  <1> HIDE DEF m
  <1>6. /\ Conf!Get(m, "web_run", Conf!Map(<<>>))[2] = c.web_run
        /\ Conf!Get(m, "postgres", Conf!Map(<<>>))[2] = c.postgres
        /\ Conf!Get(m, "AIOCACHE_DISABLE", Conf!BoolV(FALSE)) = c.cache_disabled
        /\ Conf!GetEither(m, "AUTH_URL", "auth_url", Conf!Text("")) = c.auth_url
        /\ Conf!Get(m, "AUTH_TIMEOUT_TOTAL", Conf!IntV(10)) = c.auth_timeout_total
    BY <1>5, ValueFacts DEF Conf!Get, Conf!GetEither
  <1>7. Conf!CorsOf(m) = c.cors
    <2>1. Conf!CorsOf(m) = Conf!Cors(m)
      <3>1. Conf!Get(m, "cors", Conf!None)[1] = "none"
        BY <1>5, ValueFacts DEF Conf!Get
      <3> QED
        BY <3>1 DEF Conf!CorsOf, Conf!CorsSettings
    <2>2. PICK s : c.cors.origins = Conf!Tuple(s) /\ Canonical(s)
      BY <1>2 DEF IsCors
    <2>3. c.cors.max_age = Conf!None \/ \E n \in Nat : c.cors.max_age = Conf!IntV(n)
      BY <1>2 DEF IsCors
    <2>4. c.cors = [origins |-> c.cors.origins, max_age |-> c.cors.max_age]
      BY <1>2 DEF IsCors
    <2>5. Conf!Cors(m) = [origins |-> Conf!Tuple(s), max_age |-> c.cors.max_age]
      BY <1>5, <2>2, <2>3, CorsStay
    <2> QED
      BY <2>1, <2>2, <2>4, <2>5
  <1>8. d.extras = c.extras
    <2>1. d.extras = [k \in DOMAIN m \ Conf!Known |-> m[k]]
      BY ParsedFields
    <2> QED
      BY <1>4, <1>5, <2>1
  <1>9. /\ d.web_run = c.web_run /\ d.postgres = c.postgres /\ d.cache_disabled = c.cache_disabled
        /\ d.auth_url = c.auth_url /\ d.auth_timeout_total = c.auth_timeout_total /\ d.cors = c.cors
    <2>1. /\ Conf!Ints(c.web_run, WebLow) = c.web_run
          /\ Conf!Ints(c.postgres, PostgresLow) = c.postgres
          /\ Conf!AsInt(c.auth_timeout_total, 1) = c.auth_timeout_total
      BY <1>2 DEF IsGroup, IsTimeout
    <2>2. /\ d.web_run = Conf!Ints(Conf!Get(m, "web_run", Conf!Map(<<>>))[2], WebLow)
          /\ d.postgres = Conf!Ints(Conf!Get(m, "postgres", Conf!Map(<<>>))[2], PostgresLow)
          /\ d.cache_disabled = Conf!AsBool(Conf!Get(m, "AIOCACHE_DISABLE", Conf!BoolV(FALSE)))
          /\ d.auth_url = Conf!AuthUrl(Conf!GetEither(m, "AUTH_URL", "auth_url", Conf!Text("")))
          /\ d.auth_timeout_total = Conf!AsInt(Conf!Get(m, "AUTH_TIMEOUT_TOTAL", Conf!IntV(10)), 1)
          /\ d.cors = Conf!CorsOf(m)
      BY ParsedFields
    <2> HIDE DEF d
    <2> QED
      BY <1>2, <1>6, <1>7, <2>1, <2>2
  <1>10. d = c
    <2>1. c = [web_run |-> c.web_run, postgres |-> c.postgres,
               cache_disabled |-> c.cache_disabled, auth_url |-> c.auth_url,
               auth_timeout_total |-> c.auth_timeout_total, cors |-> c.cors, extras |-> c.extras]
      BY <1>1, ParsedFields
    <2>2. d = [web_run |-> d.web_run, postgres |-> d.postgres,
               cache_disabled |-> d.cache_disabled, auth_url |-> d.auth_url,
               auth_timeout_total |-> d.auth_timeout_total, cors |-> d.cors, extras |-> d.extras]
      BY ParsedFields
    <2> HIDE DEF d
    <2> QED
      BY <1>8, <1>9, <2>1, <2>2
  <1> QED
    BY <1>1, <1>10 DEF Conf!FromMapping, m

\* What load_config reads from the environment.
LEMMA EnvFacts ==
  ASSUME Conf!ConstantsAssumption, NEW e, Conf!Readable(Conf!EnvValues(e))
  PROVE  Settings(Conf!EnvValues(e))
  <1> DEFINE fits(v) == Conf!Plain(v) \/ v = Conf!Bad
             port == Conf!Number(Conf!Read(e, "PORT", Conf!Bad))
             most == Conf!Number(Conf!Read(e, "DB_MAX_CONNECTIONS", Conf!Bad))
             least == Conf!Number(Conf!Read(e, "DB_MIN_CONNECTIONS", Conf!IntV(2)))
             flag == Conf!Flag(Conf!Read(e, "AIOCACHE_DISABLE", Conf!BoolV(FALSE)))
             url == Conf!Read(e, "AUTH_URL", Conf!Text(""))
             timeout == Conf!Number(Conf!Read(e, "AUTH_TIMEOUT_TOTAL", Conf!IntV(10)))
             origins == Conf!Read(e, "CORS_ALLOWED_ORIGINS", Conf!Text(""))
             age == Conf!Number(Conf!Read(e, "CORS_MAX_AGE", Conf!None))
             web == [port |-> port]
             postgres == [max_size |-> most, min_size |-> least]
             first == [web_run |-> Conf!Map(web), postgres |-> Conf!Map(postgres),
                       AIOCACHE_DISABLE |-> flag, AUTH_URL |-> url, AUTH_TIMEOUT_TOTAL |-> timeout,
                       CORS_ALLOWED_ORIGINS |-> origins, CORS_MAX_AGE |-> age]
             last_ == [k \in DOMAIN e \cap {"DOMAIN"} |-> Conf!Text(e[k])]
             values == Conf!EnvValues(e)
  <1>1. values = Conf!Over(first, last_)
    BY DEF Conf!EnvValues
  <1>2. ASSUME NEW n, NEW d, fits(d) PROVE fits(Conf!Read(e, n, d))
    BY <1>2, PlainFacts DEF Conf!Read
  <1>3. ASSUME NEW v, fits(v) PROVE fits(Conf!Number(v)) /\ fits(Conf!Flag(v))
    <2>1. ASSUME v[1] = "text" PROVE Conf!Plain(v)
      BY <1>3, <2>1, ValueFacts
    <2>2. 0 - 1000000 \in Int
      OBVIOUS
    <2>3. ASSUME v[1] = "text" PROVE fits(Conf!AsInt(v, 0 - 1000000))
      BY <2>1, <2>2, <2>3, AsIntFacts, PlainFacts
    <2>4. ASSUME v[1] = "text" PROVE fits(Conf!AsBool(v))
      BY <2>4, PlainFacts DEF Conf!AsBool
    <2> QED
      BY <1>3, <2>3, <2>4 DEF Conf!Number, Conf!Flag
  <1>4. /\ fits(Conf!Bad) /\ fits(Conf!IntV(2)) /\ fits(Conf!IntV(10)) /\ fits(Conf!None)
        /\ fits(Conf!Text("")) /\ fits(Conf!BoolV(FALSE))
    <2>1. 2 \in Int /\ 10 \in Int
      OBVIOUS
    <2>2. /\ Conf!Plain(Conf!IntV(2)) /\ Conf!Plain(Conf!IntV(10)) /\ Conf!Plain(Conf!None)
          /\ Conf!Plain(Conf!Text("")) /\ Conf!Plain(Conf!BoolV(FALSE))
      BY <2>1, PlainFacts, Zenon
    <2> QED
      BY <2>2, Zenon
  <1> HIDE DEF fits
  <1>5. /\ fits(port) /\ fits(most) /\ fits(least) /\ fits(flag) /\ fits(url)
        /\ fits(timeout) /\ fits(origins) /\ fits(age)
    BY <1>2, <1>3, <1>4
  <1>6. \A k \in DOMAIN last_ : k = "DOMAIN" /\ Conf!Plain(last_[k])
    <2>1. \A k \in DOMAIN last_ : k = "DOMAIN" /\ last_[k] = Conf!Text(e[k])
      OBVIOUS
    <2> HIDE DEF last_
    <2> QED
      BY <2>1, PlainFacts
  <1> HIDE DEF port, most, least, flag, url, timeout, origins, age
  <1>7. /\ DOMAIN web = {"port"} /\ web["port"] = port
        /\ DOMAIN postgres = {"max_size", "min_size"}
        /\ postgres["max_size"] = most /\ postgres["min_size"] = least
    OBVIOUS
  <1> HIDE DEF web, postgres
  <1>8. /\ DOMAIN first = {"web_run", "postgres", "AIOCACHE_DISABLE", "AUTH_URL", "AUTH_TIMEOUT_TOTAL",
                           "CORS_ALLOWED_ORIGINS", "CORS_MAX_AGE"}
        /\ first["web_run"] = Conf!Map(web) /\ first["postgres"] = Conf!Map(postgres)
        /\ first["AIOCACHE_DISABLE"] = flag /\ first["AUTH_URL"] = url
        /\ first["AUTH_TIMEOUT_TOTAL"] = timeout
        /\ first["CORS_ALLOWED_ORIGINS"] = origins /\ first["CORS_MAX_AGE"] = age
    OBVIOUS
  <1> HIDE DEF first, last_
  <1>9. /\ DOMAIN values = DOMAIN first \cup DOMAIN last_
        /\ \A k \in DOMAIN first : values[k] = first[k]
        /\ \A k \in DOMAIN last_ \ DOMAIN first : values[k] = last_[k]
    <2>1. /\ DOMAIN Conf!Over(first, last_) = DOMAIN first \cup DOMAIN last_
          /\ \A k \in DOMAIN first : Conf!Over(first, last_)[k] = first[k]
          /\ \A k \in DOMAIN last_ \ DOMAIN first : Conf!Over(first, last_)[k] = last_[k]
      BY OverFacts
    <2> QED
      BY <1>1, <2>1, Zenon
  <1>10. /\ \A k \in DOMAIN values : values[k] # Conf!Bad
         /\ \A k \in DOMAIN values["web_run"][2] : values["web_run"][2][k] # Conf!Bad
         /\ \A k \in DOMAIN values["postgres"][2] : values["postgres"][2][k] # Conf!Bad
    BY DEF Conf!Readable
  <1> HIDE DEF values
  <1>11. /\ \A k \in DOMAIN web : Conf!Plain(web[k])
         /\ \A k \in DOMAIN postgres : Conf!Plain(postgres[k])
    <2>1. values["web_run"] = Conf!Map(web) /\ values["postgres"] = Conf!Map(postgres)
      BY <1>8, <1>9
    <2>2. /\ \A k \in DOMAIN web : web[k] # Conf!Bad
          /\ \A k \in DOMAIN postgres : postgres[k] # Conf!Bad
      BY <1>10, <2>1, ValueFacts
    <2> QED
      BY <1>5, <1>7, <2>2 DEF fits
  <1>12. ASSUME NEW k \in DOMAIN first
         PROVE  /\ k \in Conf!Group => /\ first[k] = Conf!Map(first[k][2])
                                       /\ \A j \in DOMAIN first[k][2] : Conf!Plain(first[k][2][j])
                /\ k \notin Conf!Group => Conf!Plain(first[k])
    <2>1. CASE k \in {"web_run", "postgres"}
      BY <1>8, <1>11, <2>1, ValueFacts DEF Conf!Group
    <2>2. CASE k \notin {"web_run", "postgres"}
      <3>1. first[k] # Conf!Bad
        BY <1>9, <1>10
      <3>2. k \notin Conf!Group
        BY <1>8, <2>2 DEF Conf!Group
      <3>3. fits(first[k])
        BY <1>5, <1>8, <2>2
      <3> QED
        BY <3>1, <3>2, <3>3 DEF fits
    <2> QED
      BY <2>1, <2>2
  <1>13. Settings(values)
    <2> SUFFICES ASSUME NEW k \in DOMAIN values
                 PROVE  /\ k \in Conf!Group =>
                             /\ values[k] = Conf!Map(values[k][2])
                             /\ \A j \in DOMAIN values[k][2] : Conf!Plain(values[k][2][j])
                        /\ k \notin Conf!Group => Conf!Plain(values[k])
                        /\ k # "cors"
      BY DEF Settings, Single
    <2>1. CASE k \in DOMAIN first
      <3>1. values[k] = first[k] /\ k # "cors"
        BY <1>8, <1>9, <2>1
      <3> QED
        BY <1>12, <2>1, <3>1
    <2>2. CASE k \notin DOMAIN first
      <3>1. k = "DOMAIN" /\ values[k] = last_[k] /\ Conf!Plain(last_[k])
        BY <1>6, <1>9, <2>2
      <3> QED
        BY <3>1 DEF Conf!Group
    <2> QED
      BY <2>1, <2>2
  <1> QED
    BY <1>13 DEF values

\* The configuration of an environment and an application.
ConfInv ==
  /\ app \in AppConfigs /\ pc \in {"load", "loaded"}
  /\ pc = "loaded" => conf = Conf!Loaded(env)

LEMMA MergedFacts ==
  ASSUME Conf!ConstantsAssumption, app \in AppConfigs, NEW e, Conf!Readable(Conf!EnvValues(e))
  PROVE  Settings(Conf!Merged(e))
  <1> DEFINE values == Conf!EnvValues(e)
             merged == Conf!Merged(e)
  <1>1. Settings(values)
    BY EnvFacts
  <1>2. Settings(app)
    BY DEF Settings, Single, Conf!ConstantsAssumption, Conf!IsMapping
  <1>3. merged = Conf!Over(app, values)
    BY DEF Conf!Merged
  <1> HIDE DEF values, merged
  <1>4. /\ DOMAIN merged = DOMAIN app \cup DOMAIN values
        /\ \A k \in DOMAIN app : merged[k] = app[k]
        /\ \A k \in DOMAIN values \ DOMAIN app : merged[k] = values[k]
    <2>1. /\ DOMAIN Conf!Over(app, values) = DOMAIN app \cup DOMAIN values
          /\ \A k \in DOMAIN app : Conf!Over(app, values)[k] = app[k]
          /\ \A k \in DOMAIN values \ DOMAIN app : Conf!Over(app, values)[k] = values[k]
      BY OverFacts
    <2> QED
      BY <1>3, <2>1, Zenon
  <1>5. Settings(merged)
    BY <1>1, <1>2, <1>4 DEF Settings
  <1> QED
    BY <1>5 DEF merged

LEMMA LoadedFacts ==
  ASSUME Conf!ConstantsAssumption, app \in AppConfigs, NEW e, Conf!Loaded(e) # Conf!Rejected
  PROVE  /\ Conf!Readable(Conf!EnvValues(e)) /\ Settings(Conf!Merged(e))
         /\ Conf!Loaded(e) = Conf!FromMapping(Conf!Merged(e))
         /\ Conf!Loaded(e) = Conf!Parsed(Conf!Merged(e))
         /\ Conf!Bad \notin Conf!Parts(Conf!Loaded(e)) /\ Conf!SizesFit(Conf!Loaded(e).postgres)
  <1>1. Conf!Readable(Conf!EnvValues(e)) /\ Conf!Loaded(e) = Conf!FromMapping(Conf!Merged(e))
    BY DEF Conf!Loaded
  <1>2. Settings(Conf!Merged(e))
    BY <1>1, MergedFacts
  <1>3. /\ Conf!Loaded(e) = Conf!Parsed(Conf!Merged(e))
        /\ Conf!Bad \notin Conf!Parts(Conf!Loaded(e)) /\ Conf!SizesFit(Conf!Loaded(e).postgres)
    BY <1>1 DEF Conf!FromMapping
  <1> QED
    BY <1>1, <1>2, <1>3

LEMMA ConfInit == ASSUME Conf!Init PROVE ConfInv
  BY DEF Conf!Init, ConfInv

LEMMA ConfNext ==
  ASSUME Conf!ConstantsAssumption, ConfInv, [Conf!Next]_(Conf!vars) PROVE ConfInv'
  <1>1. CASE UNCHANGED Conf!vars
    <2>1. UNCHANGED <<env, app, conf, pc>>
      BY <1>1 DEF Conf!vars
    <2>2. Conf!Loaded(env)' = Conf!Loaded(env)
      BY <2>1 DEF Conf!Loaded, Conf!Merged
    <2> QED
      BY <2>1, <2>2 DEF ConfInv
  <1>2. CASE Conf!Load
    <2>1. UNCHANGED <<env, app>> /\ pc' = "loaded" /\ conf' = Conf!Loaded(env)
      BY <1>2 DEF Conf!Load
    <2>2. Conf!Loaded(env)' = Conf!Loaded(env)
      BY <2>1 DEF Conf!Loaded, Conf!Merged
    <2> QED
      BY <2>1, <2>2 DEF ConfInv
  <1>3. CASE Conf!Rebuild
    <2>1. /\ UNCHANGED <<env, app, pc>> /\ pc = "loaded" /\ conf # Conf!Rejected
          /\ conf' = Conf!FromMapping(Conf!Compat(conf))
      BY <1>3 DEF Conf!Rebuild
    <2>2. conf = Conf!Loaded(env) /\ app \in AppConfigs
      BY <2>1 DEF ConfInv
    <2>3. conf = Conf!FromMapping(Conf!Merged(env)) /\ Settings(Conf!Merged(env))
      BY <2>1, <2>2, LoadedFacts
    <2>4. conf' = conf
      BY <2>1, <2>3, RebuildFacts
    <2>5. Conf!Loaded(env)' = Conf!Loaded(env)
      BY <2>1 DEF Conf!Loaded, Conf!Merged
    <2> QED
      BY <2>1, <2>2, <2>4, <2>5 DEF ConfInv
  <1> QED
    BY <1>1, <1>2, <1>3 DEF Conf!Next

LEMMA Rebuilt == ASSUME Conf!ConstantsAssumption, ConfInv PROVE Conf!RebuildKeeps
  <1> SUFFICES ASSUME Conf!Accepted PROVE Conf!FromMapping(Conf!Compat(conf)) = conf
    BY DEF Conf!RebuildKeeps
  <1>1. conf = Conf!Loaded(env) /\ conf # Conf!Rejected /\ app \in AppConfigs
    BY DEF ConfInv, Conf!Accepted
  <1> QED
    BY <1>1, LoadedFacts, RebuildFacts

LEMMA PortFacts ==
  ASSUME NEW g, NEW low, IsGroup(g, low), Conf!Get(low, "port", 0) = 1 PROVE Conf!PortInRange(g)
  <1> SUFFICES ASSUME "port" \in DOMAIN g PROVE g["port"][2] >= 1 /\ g["port"][2] <= 65535
    BY DEF Conf!PortInRange
  <1>1. PICK n \in Int : g["port"] = Conf!IntV(n) /\ n >= 1 /\ n <= 65535
    BY DEF IsGroup
  <1> QED
    BY <1>1, ValueFacts

LEMMA Consistent == ASSUME Conf!ConstantsAssumption, ConfInv PROVE Conf!AcceptedIsConsistent
  <1> DEFINE merged == Conf!Merged(env)
             domain == Conf!ParsesCors(merged) /\ Conf!HasDomain(Conf!CorsSettings(merged))
             web == conf.web_run
             postgres == conf.postgres
             origins == conf.cors.origins[2]
  <1> SUFFICES ASSUME Conf!Accepted
               PROVE  /\ Conf!PortInRange(web) /\ Conf!PortInRange(postgres)
                      /\ Conf!SizesInOrder(postgres)
                      /\ conf.auth_url = Conf!Text("") \/ conf.auth_url[2] \in Urls
                      /\ conf.auth_timeout_total[2] > 0
                      /\ Conf!Exact(origins)
                      /\ domain => origins # <<>>
    BY DEF Conf!AcceptedIsConsistent
  <1>1. conf = Conf!Loaded(env) /\ conf # Conf!Rejected /\ app \in AppConfigs
    BY DEF ConfInv, Conf!Accepted
  <1>2. /\ Settings(merged) /\ conf = Conf!Parsed(merged)
        /\ Conf!Bad \notin Conf!Parts(conf) /\ Conf!SizesFit(postgres)
    BY <1>1, LoadedFacts
  <1>3. /\ IsGroup(web, WebLow) /\ IsGroup(postgres, PostgresLow) /\ IsUrl(conf.auth_url)
        /\ IsTimeout(conf.auth_timeout_total) /\ IsCors(conf.cors, domain)
    BY <1>2, AcceptedFacts
  <1> HIDE DEF domain, web, postgres, origins
  <1>4. Conf!PortInRange(web) /\ Conf!PortInRange(postgres)
    BY <1>3, LowFacts, PortFacts
  <1>5. Conf!SizesInOrder(postgres)
    <2> SUFFICES ASSUME "max_size" \in DOMAIN postgres
                 PROVE  /\ postgres["max_size"][2] >= 1
                        /\ "min_size" \in DOMAIN postgres =>
                             postgres["min_size"][2] \in 0 .. postgres["max_size"][2]
      BY DEF Conf!SizesInOrder
    <2>1. PICK n \in Int : postgres["max_size"] = Conf!IntV(n) /\ n >= 1
      BY <1>3, LowFacts DEF IsGroup
    <2>2. ASSUME "min_size" \in DOMAIN postgres
          PROVE  postgres["min_size"][2] \in 0 .. postgres["max_size"][2]
      <3>1. PICK k \in Int : postgres["min_size"] = Conf!IntV(k) /\ k >= 0
        BY <1>3, <2>2, LowFacts DEF IsGroup
      <3>2. postgres["min_size"][2] <= postgres["max_size"][2]
        BY <1>2, <2>2 DEF Conf!SizesFit, Conf!Get
      <3> QED
        BY <2>1, <3>1, <3>2, ValueFacts
    <2>3. postgres["max_size"][2] >= 1
      BY <2>1, ValueFacts
    <2> QED
      BY <2>2, <2>3
  <1>6. conf.auth_timeout_total[2] > 0
    BY <1>3, ValueFacts DEF IsTimeout
  <1>7. PICK s : conf.cors.origins = Conf!Tuple(s) /\ Canonical(s) /\ (domain => s # <<>>)
    BY <1>3 DEF IsCors
  <1>8. origins = s
    BY <1>7, ValueFacts DEF origins
  <1>9. Conf!Exact(origins) /\ (domain => origins # <<>>)
    BY <1>7, <1>8 DEF Canonical, Conf!Exact
  <1> QED
    BY <1>3, <1>4, <1>5, <1>6, <1>9 DEF IsUrl

\* The keys of what load_config reads from the environment.
EnvKeys == {"web_run", "postgres", "AIOCACHE_DISABLE", "AUTH_URL", "AUTH_TIMEOUT_TOTAL",
            "CORS_ALLOWED_ORIGINS", "CORS_MAX_AGE"}

LEMMA EnvKeysFacts ==
  ASSUME NEW e PROVE DOMAIN Conf!EnvValues(e) = EnvKeys \cup (DOMAIN e \cap {"DOMAIN"})
  BY DEF Conf!EnvValues, Conf!Over, EnvKeys

\* Settings in upper case, as load_config always has them, hide those in lower case.
LEMMA UpperFirst ==
  ASSUME NEW v, NEW upper, upper \in DOMAIN v, NEW lower, NEW d
  PROVE  Conf!GetEither(v, upper, lower, d) = v[upper]
  BY DEF Conf!GetEither, Conf!Get

\* One mapping holds what another one holds.
Holds(v, w) == \A k \in DOMAIN w : k \in DOMAIN v /\ v[k] = w[k]

\* The application's values are in the merged ones, CORS settings as well.
LEMMA MergedHolds ==
  ASSUME NEW v, "cors" \notin DOMAIN v
  PROVE  LET merged == Conf!Over(app, v)
         IN /\ Holds(merged, app)
            /\ Conf!Get(merged, "cors", Conf!None) = Conf!Get(app, "cors", Conf!None)
            /\ Holds(Conf!CorsSettings(merged), Conf!CorsSettings(app))
  <1> DEFINE merged == Conf!Over(app, v)
             nested == Conf!Get(app, "cors", Conf!None)
             map == nested[2]
  <1>1. /\ DOMAIN merged = DOMAIN app \cup DOMAIN v
        /\ \A k \in DOMAIN app : merged[k] = app[k]
        /\ \A k \in DOMAIN v \ DOMAIN app : merged[k] = v[k]
    BY OverFacts
  <1> HIDE DEF merged
  <1>2. Holds(merged, app)
    BY <1>1 DEF Holds
  <1>3. Conf!Get(merged, "cors", Conf!None) = nested
    BY <1>1 DEF Conf!Get
  <1>4. /\ Conf!CorsSettings(merged) = IF nested[1] = "map" THEN Conf!Over(map, merged) ELSE merged
        /\ Conf!CorsSettings(app) = IF nested[1] = "map" THEN Conf!Over(map, app) ELSE app
    BY <1>3 DEF Conf!CorsSettings
  <1>5. Holds(Conf!Over(map, merged), Conf!Over(map, app))
    <2> HIDE DEF map
    <2> DEFINE a == Conf!Over(map, merged)
               b == Conf!Over(map, app)
    <2>1. /\ DOMAIN a = DOMAIN map \cup DOMAIN merged
          /\ \A k \in DOMAIN map : a[k] = map[k]
          /\ \A k \in DOMAIN merged \ DOMAIN map : a[k] = merged[k]
      BY OverFacts
    <2>2. /\ DOMAIN b = DOMAIN map \cup DOMAIN app
          /\ \A k \in DOMAIN map : b[k] = map[k]
          /\ \A k \in DOMAIN app \ DOMAIN map : b[k] = app[k]
      BY OverFacts
    <2> HIDE DEF a, b
    <2>3. Holds(a, b)
      BY <1>2, <2>1, <2>2 DEF Holds
    <2> QED
      BY <2>3 DEF a, b
  <1>6. Holds(Conf!CorsSettings(merged), Conf!CorsSettings(app))
    <2> HIDE DEF map, nested
    <2>1. CASE nested[1] = "map"
      BY <1>4, <1>5, <2>1
    <2>2. CASE nested[1] # "map"
      BY <1>2, <1>4, <2>2
    <2> QED
      BY <2>1, <2>2
  <1> QED
    BY <1>2, <1>3, <1>6 DEF merged

\* Settings that parse do so as well without what others add to them.
LEMMA CorsHolds ==
  ASSUME NEW v, NEW w, Holds(v, w), Conf!Cors(v).origins # Conf!Bad
  PROVE  /\ "CORS_ALLOWED_ORIGINS" \in DOMAIN w => Conf!Cors(v).origins = Conf!Cors(w).origins
         /\ "CORS_MAX_AGE" \in DOMAIN w => Conf!Cors(v).max_age = Conf!Cors(w).max_age
  <1> DEFINE origins(x) ==
               Conf!GetEither(x, "CORS_ALLOWED_ORIGINS", "cors_allowed_origins", Conf!Text(""))
             given(x) == Conf!GetEither(x, "CORS_MAX_AGE", "cors_max_age", Conf!None)
             age(x) == IF given(x) = Conf!Text("") THEN Conf!None ELSE given(x)
             domain(x) == {Conf!Get(x, "DOMAIN", Conf!Text("")),
                           Conf!Get(x, "domain", Conf!Text(""))} # {Conf!Text("")}
  <1>1. \A x : Conf!Cors(x) =
          [origins |-> IF domain(x) /\ Conf!Csv(origins(x)) = <<>> THEN Conf!Bad
                       ELSE Conf!CanonicalizeOrigins(origins(x)),
           max_age |-> IF age(x) = Conf!None THEN Conf!None ELSE Conf!AsInt(age(x), 0)]
    <2> TAKE x
    <2> DEFINE parsed == Conf!CorsFields(origins(x), age(x))
    <2>1. parsed = [origins |-> Conf!CanonicalizeOrigins(origins(x)),
                    max_age |-> IF age(x) = Conf!None THEN Conf!None ELSE Conf!AsInt(age(x), 0)]
      BY DEF Conf!CorsFields
    <2>2. Conf!Cors(x) = [parsed EXCEPT !.origins =
                            IF domain(x) /\ Conf!Csv(origins(x)) = <<>> THEN Conf!Bad ELSE @]
      BY DEF Conf!Cors
    <2> HIDE DEF parsed, origins, age, domain
    <2> QED
      BY <2>1, <2>2
  <1>2. domain(w) => domain(v)
    BY DEF Conf!Get, Holds
  <1>3. ASSUME "CORS_ALLOWED_ORIGINS" \in DOMAIN w PROVE origins(v) = origins(w)
    BY <1>3, UpperFirst DEF Holds
  <1>4. ASSUME "CORS_MAX_AGE" \in DOMAIN w PROVE given(v) = given(w)
    BY <1>4, UpperFirst DEF Holds
  <1> HIDE DEF origins, given, domain
  <1>5. /\ Conf!Cors(v).origins = IF domain(v) /\ Conf!Csv(origins(v)) = <<>> THEN Conf!Bad
                                  ELSE Conf!CanonicalizeOrigins(origins(v))
        /\ Conf!Cors(w).origins = IF domain(w) /\ Conf!Csv(origins(w)) = <<>> THEN Conf!Bad
                                  ELSE Conf!CanonicalizeOrigins(origins(w))
        /\ Conf!Cors(v).max_age = IF age(v) = Conf!None THEN Conf!None ELSE Conf!AsInt(age(v), 0)
        /\ Conf!Cors(w).max_age = IF age(w) = Conf!None THEN Conf!None ELSE Conf!AsInt(age(w), 0)
    BY <1>1
  <1> QED
    BY <1>2, <1>3, <1>4, <1>5

\* What is made of the settings depends neither on a DOMAIN that is empty nor on the names
\* in lower case of settings that are there in upper case.
LEMMA SameParsed ==
  ASSUME NEW v, NEW w, EnvKeys \subseteq DOMAIN v, EnvKeys \subseteq DOMAIN w,
         \A k : k \notin Conf!LowerCase \cup {"DOMAIN"} => (k \in DOMAIN v <=> k \in DOMAIN w),
         \A k \in DOMAIN v : k \notin Conf!LowerCase \cup {"DOMAIN"} => v[k] = w[k],
         Conf!Get(v, "DOMAIN", Conf!Text("")) = Conf!Get(w, "DOMAIN", Conf!Text(""))
  PROVE  Conf!Parsed(v) = Conf!Parsed(w)
  <1> DEFINE Hidden == Conf!LowerCase \cup {"DOMAIN"}
  <1>1. \A k, d : k \notin Hidden => Conf!Get(v, k, d) = Conf!Get(w, k, d)
    BY DEF Conf!Get
  <1>2. [k \in DOMAIN v \ Conf!Known |-> v[k]] = [k \in DOMAIN w \ Conf!Known |-> w[k]]
    <2>1. DOMAIN v \ Conf!Known = DOMAIN w \ Conf!Known /\ \A k \in DOMAIN v \ Conf!Known : v[k] = w[k]
      BY DEF Conf!Known, Conf!LowerCase
    <2> QED
      BY <2>1
  <1>3. /\ "CORS_ALLOWED_ORIGINS" \notin Hidden /\ "CORS_MAX_AGE" \notin Hidden
        /\ "AUTH_URL" \notin Hidden /\ "cors" \notin Hidden /\ "domain" \notin Hidden
        /\ "web_run" \notin Hidden /\ "postgres" \notin Hidden /\ "AIOCACHE_DISABLE" \notin Hidden
        /\ "AUTH_TIMEOUT_TOTAL" \notin Hidden
    BY DEF Conf!LowerCase
  <1>4. "CORS_ALLOWED_ORIGINS" \in EnvKeys /\ "CORS_MAX_AGE" \in EnvKeys /\ "AUTH_URL" \in EnvKeys
    BY DEF EnvKeys
  <1>5. ASSUME NEW a, NEW b, EnvKeys \subseteq DOMAIN a, EnvKeys \subseteq DOMAIN b,
               \A k, d : k \notin Hidden => Conf!Get(a, k, d) = Conf!Get(b, k, d),
               Conf!Get(a, "DOMAIN", Conf!Text("")) = Conf!Get(b, "DOMAIN", Conf!Text(""))
        PROVE  Conf!Cors(a) = Conf!Cors(b)
    <2> HIDE DEF Hidden
    <2>1. /\ a["CORS_ALLOWED_ORIGINS"] = b["CORS_ALLOWED_ORIGINS"]
          /\ a["CORS_MAX_AGE"] = b["CORS_MAX_AGE"]
      <3>1. /\ Conf!Get(a, "CORS_ALLOWED_ORIGINS", 0) = Conf!Get(b, "CORS_ALLOWED_ORIGINS", 0)
            /\ Conf!Get(a, "CORS_MAX_AGE", 0) = Conf!Get(b, "CORS_MAX_AGE", 0)
        BY <1>3, <1>5
      <3> QED
        BY <1>4, <1>5, <3>1 DEF Conf!Get
    <2>2. /\ Conf!GetEither(a, "CORS_ALLOWED_ORIGINS", "cors_allowed_origins", Conf!Text("")) =
               Conf!GetEither(b, "CORS_ALLOWED_ORIGINS", "cors_allowed_origins", Conf!Text(""))
          /\ Conf!GetEither(a, "CORS_MAX_AGE", "cors_max_age", Conf!None) =
               Conf!GetEither(b, "CORS_MAX_AGE", "cors_max_age", Conf!None)
      BY <1>4, <1>5, <2>1 DEF Conf!GetEither, Conf!Get
    <2>3. Conf!Get(a, "domain", Conf!Text("")) = Conf!Get(b, "domain", Conf!Text(""))
      BY <1>3, <1>5
    <2> QED
      BY <1>5, <2>2, <2>3 DEF Conf!Cors
  <1>6. Conf!Get(v, "cors", Conf!None) = Conf!Get(w, "cors", Conf!None)
    BY <1>1, <1>3
  <1> HIDE DEF Hidden
  <1>7. Conf!Cors(v) = Conf!Cors(w)
    BY <1>1, <1>5
  <1>8. ASSUME NEW new PROVE Conf!Cors(Conf!Over(new, v)) = Conf!Cors(Conf!Over(new, w))
    <2>1. EnvKeys \subseteq DOMAIN Conf!Over(new, v) /\ EnvKeys \subseteq DOMAIN Conf!Over(new, w)
      BY OverFacts
    <2>2. ASSUME NEW k, NEW d, Conf!Get(v, k, d) = Conf!Get(w, k, d)
          PROVE  Conf!Get(Conf!Over(new, v), k, d) = Conf!Get(Conf!Over(new, w), k, d)
      <3>1. Conf!Get(Conf!Over(new, v), k, d) = IF k \in DOMAIN new THEN new[k] ELSE Conf!Get(v, k, d)
        BY DEF Conf!Get, Conf!Over
      <3>2. Conf!Get(Conf!Over(new, w), k, d) = IF k \in DOMAIN new THEN new[k] ELSE Conf!Get(w, k, d)
        BY DEF Conf!Get, Conf!Over
      <3>3. CASE k \in DOMAIN new
        <4>1. Conf!Get(Conf!Over(new, v), k, d) = new[k]
          BY <3>1, <3>3
        <4>2. Conf!Get(Conf!Over(new, w), k, d) = new[k]
          BY <3>2, <3>3
        <4> QED
          BY <4>1, <4>2
      <3> QED
        BY <2>2, <3>1, <3>2, <3>3
    <2> DEFINE a == Conf!Over(new, v)
               b == Conf!Over(new, w)
    <2>3. \A k, d : k \notin Hidden => Conf!Get(a, k, d) = Conf!Get(b, k, d)
      BY <1>1, <2>2, Zenon
    <2>4. Conf!Get(a, "DOMAIN", Conf!Text("")) = Conf!Get(b, "DOMAIN", Conf!Text(""))
      BY <2>2, Zenon
    <2>5. EnvKeys \subseteq DOMAIN a /\ EnvKeys \subseteq DOMAIN b
      BY <2>1
    <2> HIDE DEF a, b
    <2>6. Conf!Cors(a) = Conf!Cors(b)
      BY <1>5, <2>3, <2>4, <2>5, Zenon
    <2> QED
      BY <2>6 DEF a, b
  <1>9. Conf!Get(v, "cors", Conf!None)[1] = "map" =>
          Conf!Cors(Conf!CorsSettings(v)) = Conf!Cors(Conf!CorsSettings(w))
    BY <1>6, <1>8 DEF Conf!CorsSettings
  <1>10. Conf!CorsOf(v) = Conf!CorsOf(w)
    BY <1>6, <1>7, <1>9 DEF Conf!CorsOf, Conf!CorsSettings
  <1>11. /\ Conf!Get(v, "web_run", Conf!Map(<<>>)) = Conf!Get(w, "web_run", Conf!Map(<<>>))
         /\ Conf!Get(v, "postgres", Conf!Map(<<>>)) = Conf!Get(w, "postgres", Conf!Map(<<>>))
         /\ Conf!Get(v, "AIOCACHE_DISABLE", Conf!BoolV(FALSE)) =
              Conf!Get(w, "AIOCACHE_DISABLE", Conf!BoolV(FALSE))
         /\ Conf!GetEither(v, "AUTH_URL", "auth_url", Conf!Text("")) =
              Conf!GetEither(w, "AUTH_URL", "auth_url", Conf!Text(""))
         /\ Conf!Get(v, "AUTH_TIMEOUT_TOTAL", Conf!IntV(10)) =
              Conf!Get(w, "AUTH_TIMEOUT_TOTAL", Conf!IntV(10))
    <2> DEFINE flag == Conf!BoolV(FALSE)
    <2> HIDE DEF flag
    <2>1. Conf!Get(v, "AIOCACHE_DISABLE", flag) = Conf!Get(w, "AIOCACHE_DISABLE", flag)
      BY <1>1, <1>3
    <2>2. v["AUTH_URL"] = w["AUTH_URL"]
      <3>1. Conf!Get(v, "AUTH_URL", 0) = Conf!Get(w, "AUTH_URL", 0)
        BY <1>1, <1>3
      <3> QED
        BY <1>4, <3>1 DEF Conf!Get
    <2>3. Conf!GetEither(v, "AUTH_URL", "auth_url", Conf!Text("")) =
            Conf!GetEither(w, "AUTH_URL", "auth_url", Conf!Text(""))
      BY <1>4, <2>2, UpperFirst
    <2> QED
      BY <1>1, <1>3, <2>1, <2>3 DEF flag
  <1> QED
    BY <1>2, <1>10, <1>11 DEF Conf!Parsed

LEMMA Wins == ASSUME Conf!ConstantsAssumption, ConfInv PROVE Conf!ApplicationWins
  <1> DEFINE v == Conf!EnvValues(env)
             merged == Conf!Over(app, v)
             own == [k \in DOMAIN app \ Conf!LowerCase |-> app[k]]
             without == Conf!Over(own, v)
             c == Conf!Parsed(merged)
             d == Conf!Parsed(app)
  <1> SUFFICES ASSUME Conf!Accepted
               PROVE  /\ \A k \in Conf!Given(app) : Conf!Compat(conf)[k] = Conf!Compat(d)[k]
                      /\ conf = Conf!FromMapping(without)
    BY DEF Conf!ApplicationWins
  <1>1. conf = Conf!Loaded(env) /\ conf # Conf!Rejected /\ app \in AppConfigs
    BY DEF ConfInv, Conf!Accepted
  <1>2. /\ conf = c /\ conf = Conf!FromMapping(merged)
        /\ Conf!Bad \notin Conf!Parts(c)
    BY <1>1, LoadedFacts DEF Conf!Merged
  <1>3. DOMAIN v = EnvKeys \cup (DOMAIN env \cap {"DOMAIN"})
    BY EnvKeysFacts
  <1> HIDE DEF v
  <1>4. "cors" \notin DOMAIN v /\ \A k \in Conf!LowerCase : k \notin DOMAIN v
    BY <1>3 DEF EnvKeys, Conf!LowerCase
  <1>5. /\ DOMAIN merged = DOMAIN app \cup DOMAIN v
        /\ \A k \in DOMAIN app : merged[k] = app[k]
        /\ \A k \in DOMAIN v \ DOMAIN app : merged[k] = v[k]
    BY OverFacts
  <1>6. /\ Holds(merged, app)
        /\ Conf!Get(merged, "cors", Conf!None) = Conf!Get(app, "cors", Conf!None)
        /\ Holds(Conf!CorsSettings(merged), Conf!CorsSettings(app))
    BY <1>4, MergedHolds
  <1>7. conf = Conf!FromMapping(without)
    <2>1. DOMAIN own = DOMAIN app \ Conf!LowerCase /\ \A k \in DOMAIN own : own[k] = app[k]
      OBVIOUS
    <2> HIDE DEF own, merged
    <2>2. /\ DOMAIN without = DOMAIN own \cup DOMAIN v
          /\ \A k \in DOMAIN own : without[k] = own[k]
          /\ \A k \in DOMAIN v \ DOMAIN own : without[k] = v[k]
      BY OverFacts
    <2> HIDE DEF without
    <2>3. EnvKeys \subseteq DOMAIN merged /\ EnvKeys \subseteq DOMAIN without
      BY <1>3, <1>5, <2>2
    <2>4. \A k : k \notin Conf!LowerCase => /\ k \in DOMAIN merged <=> k \in DOMAIN without
                                            /\ k \in DOMAIN merged => merged[k] = without[k]
      BY <1>5, <2>1, <2>2
    <2>5. Conf!Get(merged, "DOMAIN", Conf!Text("")) = Conf!Get(without, "DOMAIN", Conf!Text(""))
      <3>1. "DOMAIN" \notin Conf!LowerCase
        BY DEF Conf!LowerCase
      <3> QED
        BY <2>4, <3>1 DEF Conf!Get
    <2>6. Conf!Parsed(merged) = Conf!Parsed(without)
      BY <2>3, <2>4, <2>5, SameParsed
    <2> QED
      BY <1>2, <2>6 DEF Conf!FromMapping
  <1> HIDE DEF merged, without, own
  <1>8. ASSUME NEW k \in Conf!Given(app) PROVE Conf!Compat(c)[k] = Conf!Compat(d)[k]
    <2> DEFINE settings == Conf!CorsSettings(merged)
               given == Conf!CorsSettings(app)
               nested == Conf!Get(app, "cors", Conf!None)
    <2>1. /\ c.extras = [j \in DOMAIN merged \ Conf!Known |-> merged[j]]
          /\ d.extras = [j \in DOMAIN app \ Conf!Known |-> app[j]]
          /\ c.cors = Conf!CorsOf(merged) /\ d.cors = Conf!CorsOf(app)
      BY ParsedFields
    <2>2. /\ DOMAIN c.extras \cap Conf!Known = {} /\ DOMAIN d.extras \cap Conf!Known = {}
      BY <2>1
    <2>3. \A x \in {c, d} :
            LET m == Conf!Compat(x)
            IN /\ m["web_run"] = Conf!Map(x.web_run) /\ m["postgres"] = Conf!Map(x.postgres)
               /\ m["AIOCACHE_DISABLE"] = x.cache_disabled /\ m["AUTH_URL"] = x.auth_url
               /\ m["AUTH_TIMEOUT_TOTAL"] = x.auth_timeout_total
               /\ m["CORS_ALLOWED_ORIGINS"] = x.cors.origins /\ m["CORS_MAX_AGE"] = x.cors.max_age
               /\ \A j \in DOMAIN x.extras : m[j] = x.extras[j]
      BY <2>2, CompatFacts
    <2>4. /\ k \in DOMAIN app \ Conf!Known
             \/ k \in DOMAIN app \cap {"web_run", "postgres", "AIOCACHE_DISABLE", "AUTH_URL", "AUTH_TIMEOUT_TOTAL"}
             \/ /\ k \in {"CORS_ALLOWED_ORIGINS", "CORS_MAX_AGE"}
                /\ nested[1] # "cors" => k \in DOMAIN given
      BY DEF Conf!Given, Conf!ParsesCors
    <2>5. CASE k \in DOMAIN app \ Conf!Known
      <3>1. k \in DOMAIN merged \ Conf!Known /\ merged[k] = app[k]
        BY <1>5, <2>5
      <3>2. k \in DOMAIN c.extras /\ c.extras[k] = merged[k] /\ k \in DOMAIN d.extras /\ d.extras[k] = app[k]
        BY <2>1, <2>5, <3>1
      <3> HIDE DEF c, d
      <3> QED
        BY <2>3, <3>1, <3>2
    <2>6. CASE k \in DOMAIN app \cap {"web_run", "postgres", "AIOCACHE_DISABLE", "AUTH_URL", "AUTH_TIMEOUT_TOTAL"}
      <3>1. k \in DOMAIN merged /\ merged[k] = app[k]
        BY <1>5, <2>6
      <3>2. \A x : Conf!Get(merged, k, x) = app[k] /\ Conf!Get(app, k, x) = app[k]
        BY <2>6, <3>1 DEF Conf!Get
      <3>3. \A l, x : /\ Conf!GetEither(merged, k, l, x) = app[k]
                      /\ Conf!GetEither(app, k, l, x) = app[k]
        BY <2>6, <3>1, UpperFirst
      <3>4. /\ k = "web_run" => c.web_run = d.web_run
            /\ k = "postgres" => c.postgres = d.postgres
            /\ k = "AIOCACHE_DISABLE" => c.cache_disabled = d.cache_disabled
            /\ k = "AUTH_URL" => c.auth_url = d.auth_url
            /\ k = "AUTH_TIMEOUT_TOTAL" => c.auth_timeout_total = d.auth_timeout_total
        <4> DEFINE flag == Conf!BoolV(FALSE)
        <4> HIDE DEF c, d, flag
        <4>1. \A x \in {merged, app} :
                LET p == Conf!Parsed(x)
                IN /\ p.web_run = Conf!Ints(Conf!Get(x, "web_run", Conf!Map(<<>>))[2], WebLow)
                   /\ p.postgres = Conf!Ints(Conf!Get(x, "postgres", Conf!Map(<<>>))[2], PostgresLow)
                   /\ p.cache_disabled = Conf!AsBool(Conf!Get(x, "AIOCACHE_DISABLE", flag))
                   /\ p.auth_url = Conf!AuthUrl(Conf!GetEither(x, "AUTH_URL", "auth_url", Conf!Text("")))
                   /\ p.auth_timeout_total =
                        Conf!AsInt(Conf!Get(x, "AUTH_TIMEOUT_TOTAL", Conf!IntV(10)), 1)
          BY ParsedFields DEF flag
        <4> QED
          BY <3>2, <3>3, <4>1 DEF c, d
      <3> HIDE DEF c, d
      <3> QED
        BY <2>3, <2>6, <3>4
    <2>7. CASE /\ k \in {"CORS_ALLOWED_ORIGINS", "CORS_MAX_AGE"}
               /\ nested[1] # "cors" => k \in DOMAIN given
      <3>1. /\ c.cors = IF nested[1] = "cors" THEN nested[2] ELSE Conf!Cors(settings)
            /\ d.cors = IF nested[1] = "cors" THEN nested[2] ELSE Conf!Cors(given)
        BY <1>6, <2>1 DEF Conf!CorsOf
      <3>2. c.cors.origins # Conf!Bad
        BY <1>2 DEF Conf!Parts
      <3> HIDE DEF c, d, nested, settings, given
      <3>3. /\ k = "CORS_ALLOWED_ORIGINS" => c.cors.origins = d.cors.origins
            /\ k = "CORS_MAX_AGE" => c.cors.max_age = d.cors.max_age
        <4>1. CASE nested[1] = "cors"
          BY <3>1, <4>1
        <4>2. CASE nested[1] # "cors"
          <5>1. Holds(settings, given)
            BY <1>6 DEF settings, given
          <5>2. c.cors = Conf!Cors(settings) /\ d.cors = Conf!Cors(given) /\ k \in DOMAIN given
            BY <2>7, <3>1, <4>2
          <5>3. /\ "CORS_ALLOWED_ORIGINS" \in DOMAIN given =>
                     Conf!Cors(settings).origins = Conf!Cors(given).origins
                /\ "CORS_MAX_AGE" \in DOMAIN given =>
                     Conf!Cors(settings).max_age = Conf!Cors(given).max_age
            BY <3>2, <5>1, <5>2, CorsHolds
          <5> QED
            BY <5>2, <5>3
        <4> QED
          BY <4>1, <4>2
      <3> QED
        BY <2>3, <2>7, <3>3
    <2> QED
      BY <2>4, <2>5, <2>6, <2>7
  <1> QED
    BY <1>2, <1>7, <1>8

\* An empty variable reads as one that there is not.
LEMMA EnvWithout ==
  ASSUME NEW e, NEW f, f = [name \in {n \in DOMAIN e : e[n] # ""} |-> e[name]]
  PROVE  LET v == Conf!EnvValues(e)
             w == Conf!EnvValues(f)
         IN /\ \A k : k # "DOMAIN" => (k \in DOMAIN v <=> k \in DOMAIN w)
            /\ \A k \in DOMAIN v : k # "DOMAIN" => v[k] = w[k]
            /\ Conf!Get(v, "DOMAIN", Conf!Text("")) = Conf!Get(w, "DOMAIN", Conf!Text(""))
            /\ "DOMAIN" \in DOMAIN v => v["DOMAIN"] = Conf!Text(e["DOMAIN"])
            /\ "DOMAIN" \in DOMAIN w => w["DOMAIN"] = Conf!Text(f["DOMAIN"])
            /\ "web_run" \in DOMAIN v /\ "postgres" \in DOMAIN v
  <1> DEFINE first(x) ==
               [web_run |-> Conf!Map([port |-> Conf!Number(Conf!Read(x, "PORT", Conf!Bad))]),
                postgres |-> Conf!Map([
                  max_size |-> Conf!Number(Conf!Read(x, "DB_MAX_CONNECTIONS", Conf!Bad)),
                  min_size |-> Conf!Number(Conf!Read(x, "DB_MIN_CONNECTIONS", Conf!IntV(2)))]),
                AIOCACHE_DISABLE |-> Conf!Flag(Conf!Read(x, "AIOCACHE_DISABLE", Conf!BoolV(FALSE))),
                AUTH_URL |-> Conf!Read(x, "AUTH_URL", Conf!Text("")),
                AUTH_TIMEOUT_TOTAL |-> Conf!Number(Conf!Read(x, "AUTH_TIMEOUT_TOTAL", Conf!IntV(10))),
                CORS_ALLOWED_ORIGINS |-> Conf!Read(x, "CORS_ALLOWED_ORIGINS", Conf!Text("")),
                CORS_MAX_AGE |-> Conf!Number(Conf!Read(x, "CORS_MAX_AGE", Conf!None))]
             domain(x) == [k \in DOMAIN x \cap {"DOMAIN"} |-> Conf!Text(x[k])]
             r == first(e)
             v == Conf!EnvValues(e)
             w == Conf!EnvValues(f)
  <1>1. v = Conf!Over(first(e), domain(e)) /\ w = Conf!Over(first(f), domain(f))
    BY DEF Conf!EnvValues
  <1>2. \A n, d : Conf!Read(e, n, d) = Conf!Read(f, n, d)
    BY DEF Conf!Read
  <1>3. first(f) = r
    <2> DEFINE flag == Conf!BoolV(FALSE)
    <2> HIDE DEF flag
    <2>1. Conf!Read(e, "AIOCACHE_DISABLE", flag) = Conf!Read(f, "AIOCACHE_DISABLE", flag)
      BY <1>2
    <2>2. /\ Conf!Read(e, "PORT", Conf!Bad) = Conf!Read(f, "PORT", Conf!Bad)
          /\ Conf!Read(e, "DB_MAX_CONNECTIONS", Conf!Bad) = Conf!Read(f, "DB_MAX_CONNECTIONS", Conf!Bad)
          /\ Conf!Read(e, "DB_MIN_CONNECTIONS", Conf!IntV(2))
               = Conf!Read(f, "DB_MIN_CONNECTIONS", Conf!IntV(2))
          /\ Conf!Read(e, "AUTH_URL", Conf!Text("")) = Conf!Read(f, "AUTH_URL", Conf!Text(""))
          /\ Conf!Read(e, "AUTH_TIMEOUT_TOTAL", Conf!IntV(10))
               = Conf!Read(f, "AUTH_TIMEOUT_TOTAL", Conf!IntV(10))
          /\ Conf!Read(e, "CORS_ALLOWED_ORIGINS", Conf!Text(""))
               = Conf!Read(f, "CORS_ALLOWED_ORIGINS", Conf!Text(""))
          /\ Conf!Read(e, "CORS_MAX_AGE", Conf!None) = Conf!Read(f, "CORS_MAX_AGE", Conf!None)
      BY <1>2
    <2> QED
      BY <2>1, <2>2, Zenon DEF flag
  <1>4. DOMAIN r = {"web_run", "postgres", "AIOCACHE_DISABLE", "AUTH_URL", "AUTH_TIMEOUT_TOTAL",
                    "CORS_ALLOWED_ORIGINS", "CORS_MAX_AGE"}
    OBVIOUS
  <1>5. /\ DOMAIN domain(e) \subseteq {"DOMAIN"} /\ DOMAIN domain(f) \subseteq {"DOMAIN"}
        /\ "DOMAIN" \in DOMAIN domain(e) <=> "DOMAIN" \in DOMAIN e
        /\ "DOMAIN" \in DOMAIN domain(f) <=> "DOMAIN" \in DOMAIN e /\ e["DOMAIN"] # ""
        /\ "DOMAIN" \in DOMAIN domain(e) => domain(e)["DOMAIN"] = Conf!Text(e["DOMAIN"])
        /\ "DOMAIN" \in DOMAIN domain(f) =>
             domain(f)["DOMAIN"] = Conf!Text(e["DOMAIN"]) /\ f["DOMAIN"] = e["DOMAIN"]
    OBVIOUS
  <1> DEFINE de == domain(e)
             df == domain(f)
  <1> HIDE DEF r, first, domain
  <1>6. v = Conf!Over(r, de) /\ w = Conf!Over(r, df)
    BY <1>1, <1>3 DEF r
  <1> HIDE DEF v, w, de, df
  <1>7. /\ DOMAIN v = DOMAIN r \cup DOMAIN de /\ DOMAIN w = DOMAIN r \cup DOMAIN df
        /\ \A k \in DOMAIN r : v[k] = r[k] /\ w[k] = r[k]
        /\ \A k \in DOMAIN de \ DOMAIN r : v[k] = de[k]
        /\ \A k \in DOMAIN df \ DOMAIN r : w[k] = df[k]
    <2>1. /\ DOMAIN Conf!Over(r, de) = DOMAIN r \cup DOMAIN de
          /\ \A k \in DOMAIN r : Conf!Over(r, de)[k] = r[k]
          /\ \A k \in DOMAIN de \ DOMAIN r : Conf!Over(r, de)[k] = de[k]
      BY OverFacts
    <2>2. /\ DOMAIN Conf!Over(r, df) = DOMAIN r \cup DOMAIN df
          /\ \A k \in DOMAIN r : Conf!Over(r, df)[k] = r[k]
          /\ \A k \in DOMAIN df \ DOMAIN r : Conf!Over(r, df)[k] = df[k]
      BY OverFacts
    <2> QED
      BY <1>6, <2>1, <2>2, Zenon
  <1>8. "DOMAIN" \notin DOMAIN r
    BY <1>4
  <1>9. /\ \A k : k # "DOMAIN" => (k \in DOMAIN v <=> k \in DOMAIN w)
        /\ \A k \in DOMAIN v : k # "DOMAIN" => v[k] = w[k]
    BY <1>5, <1>7 DEF de, df
  <1>10. /\ "DOMAIN" \in DOMAIN v <=> "DOMAIN" \in DOMAIN e
         /\ "DOMAIN" \in DOMAIN v => v["DOMAIN"] = Conf!Text(e["DOMAIN"])
         /\ "DOMAIN" \in DOMAIN w <=> "DOMAIN" \in DOMAIN e /\ e["DOMAIN"] # ""
         /\ "DOMAIN" \in DOMAIN w => w["DOMAIN"] = Conf!Text(e["DOMAIN"]) /\ f["DOMAIN"] = e["DOMAIN"]
    BY <1>5, <1>7, <1>8 DEF de, df
  <1>11. Conf!Get(v, "DOMAIN", Conf!Text("")) = Conf!Get(w, "DOMAIN", Conf!Text(""))
    BY <1>10 DEF Conf!Get
  <1>12. "web_run" \in DOMAIN v /\ "postgres" \in DOMAIN v
    BY <1>4, <1>7
  <1> QED
    BY <1>9, <1>10, <1>11, <1>12 DEF v, w

LEMMA Unset == ASSUME Conf!ConstantsAssumption, ConfInv PROVE Conf!EmptyIsUnset
  <1> DEFINE e == env
             f == [name \in {n \in DOMAIN env : env[n] # ""} |-> env[name]]
             v == Conf!EnvValues(e)
             w == Conf!EnvValues(f)
  <1> SUFFICES ASSUME pc = "loaded"
               PROVE  /\ conf = Conf!Loaded(f)
                      /\ Conf!Accepted => /\ Conf!Get(e, "PORT", "") # ""
                                           /\ Conf!Get(e, "DB_MAX_CONNECTIONS", "") # ""
    BY DEF Conf!EmptyIsUnset
  <1>1. conf = Conf!Loaded(e) /\ app \in AppConfigs
    BY DEF ConfInv
  <1>2. /\ \A k : k # "DOMAIN" => (k \in DOMAIN v <=> k \in DOMAIN w)
        /\ \A k \in DOMAIN v : k # "DOMAIN" => v[k] = w[k]
        /\ Conf!Get(v, "DOMAIN", Conf!Text("")) = Conf!Get(w, "DOMAIN", Conf!Text(""))
        /\ "DOMAIN" \in DOMAIN v => v["DOMAIN"] = Conf!Text(e["DOMAIN"])
        /\ "DOMAIN" \in DOMAIN w => w["DOMAIN"] = Conf!Text(f["DOMAIN"])
        /\ "web_run" \in DOMAIN v /\ "postgres" \in DOMAIN v
    BY EnvWithout
  <1> HIDE DEF v, w
  <1>3. Conf!Readable(v) <=> Conf!Readable(w)
    <2>1. v["web_run"] = w["web_run"] /\ v["postgres"] = w["postgres"]
      BY <1>2
    <2>2. (\A k \in DOMAIN v : v[k] # Conf!Bad) <=> (\A k \in DOMAIN w : w[k] # Conf!Bad)
      <3>1. /\ "DOMAIN" \in DOMAIN v => v["DOMAIN"] # Conf!Bad
            /\ "DOMAIN" \in DOMAIN w => w["DOMAIN"] # Conf!Bad
        <4>1. \A x : Conf!Text(x) # Conf!Bad
          BY ValueFacts
        <4> QED
          BY <1>2, <4>1
      <3> QED
        BY <1>2, <3>1
    <2> QED
      BY <2>1, <2>2 DEF Conf!Readable
  <1>4. Conf!FromMapping(Conf!Merged(e)) = Conf!FromMapping(Conf!Merged(f))
    <2> DEFINE mv == Conf!Merged(e)
               mw == Conf!Merged(f)
    <2>1. mv = Conf!Over(app, v) /\ mw = Conf!Over(app, w)
      BY DEF Conf!Merged, v, w
    <2>2. /\ DOMAIN Conf!Over(app, v) = DOMAIN app \cup DOMAIN v
          /\ \A k \in DOMAIN app : Conf!Over(app, v)[k] = app[k]
          /\ \A k \in DOMAIN v \ DOMAIN app : Conf!Over(app, v)[k] = v[k]
      BY OverFacts
    <2>3. /\ DOMAIN Conf!Over(app, w) = DOMAIN app \cup DOMAIN w
          /\ \A k \in DOMAIN app : Conf!Over(app, w)[k] = app[k]
          /\ \A k \in DOMAIN w \ DOMAIN app : Conf!Over(app, w)[k] = w[k]
      BY OverFacts
    <2> HIDE DEF mv, mw
    <2>4. /\ DOMAIN mv = DOMAIN app \cup DOMAIN v /\ DOMAIN mw = DOMAIN app \cup DOMAIN w
          /\ \A k \in DOMAIN app : mv[k] = app[k] /\ mw[k] = app[k]
          /\ \A k \in DOMAIN v \ DOMAIN app : mv[k] = v[k]
          /\ \A k \in DOMAIN w \ DOMAIN app : mw[k] = w[k]
      BY <2>1, <2>2, <2>3, Zenon
    <2>5. \A k : k # "DOMAIN" => (k \in DOMAIN mv <=> k \in DOMAIN mw)
      BY <1>2, <2>4
    <2>6. \A k \in DOMAIN mv : k # "DOMAIN" => mv[k] = mw[k]
      <3>1. ASSUME NEW k \in DOMAIN mv, k # "DOMAIN" PROVE mv[k] = mw[k]
        <4>1. CASE k \in DOMAIN app
          BY <2>4, <4>1
        <4>2. CASE k \notin DOMAIN app
          <5>1. k \in DOMAIN v \ DOMAIN app /\ k \in DOMAIN w \ DOMAIN app
            BY <1>2, <2>4, <3>1, <4>2
          <5> QED
            BY <1>2, <2>4, <3>1, <5>1
        <4> QED
          BY <4>1, <4>2
      <3> QED
        BY <3>1
    <2>7. Conf!Get(mv, "DOMAIN", Conf!Text("")) = Conf!Get(mw, "DOMAIN", Conf!Text(""))
      BY <1>2, <2>4 DEF Conf!Get
    <2>8. Conf!Parsed(mv) = Conf!Parsed(mw)
      <3>1. EnvKeys \subseteq DOMAIN mv /\ EnvKeys \subseteq DOMAIN mw
        BY <2>4, EnvKeysFacts DEF v, w
      <3> QED
        BY <2>5, <2>6, <2>7, <3>1, SameParsed
    <2> QED
      BY <2>8 DEF Conf!FromMapping, mv, mw
  <1>5. Conf!Loaded(e) = Conf!Loaded(f)
    BY <1>3, <1>4 DEF Conf!Loaded, v, w
  <1>6. ASSUME Conf!Accepted
        PROVE  Conf!Get(e, "PORT", "") # "" /\ Conf!Get(e, "DB_MAX_CONNECTIONS", "") # ""
    <2>1. conf # Conf!Rejected
      BY <1>6 DEF Conf!Accepted
    <2>2. Settings(v)
      BY <1>1, <2>1, LoadedFacts, EnvFacts DEF v
    <2>3. Conf!Readable(v)
      BY <1>1, <2>1, LoadedFacts DEF v
    <2> DEFINE port == Conf!Number(Conf!Read(e, "PORT", Conf!Bad))
               most == Conf!Number(Conf!Read(e, "DB_MAX_CONNECTIONS", Conf!Bad))
    <2>4. port # Conf!Bad /\ most # Conf!Bad
      <3> DEFINE least == Conf!Number(Conf!Read(e, "DB_MIN_CONNECTIONS", Conf!IntV(2)))
                 web == [port |-> port]
                 postgres == [max_size |-> most, min_size |-> least]
      <3>1. v["web_run"] = Conf!Map(web) /\ v["postgres"] = Conf!Map(postgres)
        BY DEF v, Conf!EnvValues, Conf!Over
      <3> HIDE DEF port, most, least
      <3>2. /\ "port" \in DOMAIN web /\ web["port"] = port
            /\ "max_size" \in DOMAIN postgres /\ postgres["max_size"] = most
        OBVIOUS
      <3> HIDE DEF web, postgres
      <3>3. /\ \A k \in DOMAIN web : web[k] # Conf!Bad
            /\ \A k \in DOMAIN postgres : postgres[k] # Conf!Bad
        BY <2>3, <3>1, ValueFacts DEF Conf!Readable
      <3> QED
        BY <3>2, <3>3
    <2>5. Conf!Number(Conf!Bad) = Conf!Bad
      BY ValueFacts DEF Conf!Number
    <2>6. ASSUME NEW n, Conf!Get(e, n, "") = "" PROVE Conf!Read(e, n, Conf!Bad) = Conf!Bad
      BY <2>6 DEF Conf!Get, Conf!Read
    <2> QED
      BY <2>4, <2>5, <2>6
  <1> QED
    BY <1>1, <1>5, <1>6

\* What is loaded is what the environment and the application give, on every way to
\* make a configuration again.
THEOREM ConfigInvariant ==
  ASSUME Conf!ConstantsAssumption PROVE Conf!Spec => []ConfInv
  <1>1. Conf!Init => ConfInv
    BY ConfInit
  <1>2. ConfInv /\ [Conf!Next]_(Conf!vars) => ConfInv'
    BY ConfNext
  <1> QED
    BY <1>1, <1>2, PTL DEF Conf!Spec

\* A behaviour of Service is one of Config from its start, or never.
LEMMA ServiceIsConfig ==
  /\ Spec /\ part = "config" => Conf!Spec
  /\ Spec /\ ~(part = "config") => []~(part = "config")
  <1>1. Init /\ part = "config" => Conf!Init
    BY DEF Init
  <1>2. [Next]_vars =>
          /\ part = "config" => (part = "config")' /\ [Conf!Next]_(Conf!vars)
          /\ ~(part = "config") => ~(part = "config")'
    BY DEF Next, vars, config, Conf!vars
  <1> QED
    BY <1>1, <1>2, PTL DEF Spec, Conf!Spec

\* load_config and AppConfig, for every environment and application module, with CORS
\* settings flat, nested or as a CorsConfig: what is accepted fits together (with origins
\* in place of a DOMAIN only where no CorsConfig hides it), an empty setting is an unset
\* one, every key that the application's module gives holds what it gave, except the ones
\* in lower case, which have no effect, and a configuration is the same when made again
\* from the mapping that it is.
THEOREM ConfigIsSoundHolds == Spec => []ConfigIsSound
  <1>1. Conf!ConstantsAssumption
    BY PartsAssumption
  <1>2. Conf!Spec => []ConfInv
    BY <1>1, ConfigInvariant
  <1>3. /\ ConfInv => ConfigIsSound
        /\ ~(part = "config") => ConfigIsSound
    BY <1>1, Consistent, Unset, Wins, Rebuilt DEF ConfigIsSound
  <1> QED
    BY <1>2, <1>3, ServiceIsConfig, PTL

================================================================================
