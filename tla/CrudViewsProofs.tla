---------------------------- MODULE CrudViewsProofs ----------------------------
(* Theorems about CrudViews, for every set of requests, commands, views and pool. *)
EXTENDS CrudViews, FiniteSetTheorems, TLAPS

(***************************************************************************)
(* The inductive invariant.                                                *)
(***************************************************************************)

\* Until its command is over, no error has left a block or a joined view.
Working == {"acquire", "load", "before", "open", "lookup", "write", "hook",
            "commit", "after", "reply"}
Leaving == {"leave", "middlewares", "respond", "done"}

\* The transaction of a request is over: it has been committed or rolled back.
Over(r) ==
  IF "middleware" \in view[r].boundary
    THEN At(r, "done")
    ELSE req[r].pc \in {"middlewares", "respond", "done"}

\* A request has a connection: that of its boundary, or that of its command.
Holds(r) ==
  IF Atomic(r)
    THEN ~At(r, "acquire") /\ ~Over(r)
    ELSE req[r].pc \in {"lookup", "write", "hook", "commit"}

Update(r) == view[r].kind = "update"

\* The local variables of a request follow its place in the code.
PlaceInv(r) ==
  /\ At(r, "acquire") => Atomic(r)
  /\ req[r].pc \in Working \cup Leaving
  /\ req[r].pc \in Working => ~req[r].broken
  /\ Atomic(r) /\ req[r].broken => req[r].rollbackOnly
  /\ req[r].replayed => req[r].pc \in {"commit", "reply"} \cup Leaving /\ Known(r)

\* What the open transaction has written so far.
PendingInv(r) ==
  /\ ~Holds(r) => pending[r] = {}
  /\ req[r].pc \in {"acquire", "load", "before", "open", "lookup", "write"} =>
       pending[r] \subseteq {"before"}
  /\ req[r].pc \in {"hook", "commit"} => req[r].replayed \/ "main" \in pending[r]
  /\ req[r].pc \in {"after", "reply"} /\ Atomic(r) =>
       req[r].replayed \/ "main" \in pending[r]
  /\ ~Escapes(r) /\ ~req[r].broken /\ ~At(r, "hook") =>
       ("main" \in pending[r] <=> "hook" \in pending[r])
  /\ "after" \in pending[r] => "main" \in pending[r]

\* What is durable of the request.
StoredInv(r) ==
  /\ Atomic(r) /\ ~Over(r) => \A mark \in Mark : ~Stored(r, mark)
  /\ req[r].pc \in {"acquire", "load", "before", "open", "lookup", "write", "hook", "commit"} =>
       ~Stored(r, "main")
  /\ req[r].pc \in {"after", "reply"} /\ ~Atomic(r) =>
       req[r].replayed \/ Stored(r, "main")
  /\ ~Escapes(r) => (Stored(r, "main") <=> Stored(r, "hook"))
  /\ Stored(r, "after") => Stored(r, "main")
  /\ req[r].broken => ~Stored(r, "main")

\* What the answer says of it.
AnswerInv(r) ==
  /\ req[r].pc \in Leaving /\ req[r].outcome = "success" =>
       Known(r) \/ "main" \in pending[r]
  /\ /\ ~req[r].doubt /\ req[r].outcome \notin Good
     /\ \/ "middleware" \in view[r].boundary /\ At(r, "done")
        \/ view[r].boundary = {"view"} /\ At(r, "middlewares")
     => \A mark \in Mark : ~Stored(r, mark)

RequestInv(r) == PlaceInv(r) /\ PendingInv(r) /\ StoredInv(r) /\ AnswerInv(r)

Claims(r) == "main" \in pending[r] \/ Stored(r, "main")

\* One request of a command has written it, and one update of the record is open.
ClaimInv(r, q) ==
  /\ command[r] = command[q] => ~(Claims(r) /\ Claims(q))
  /\ Update(r) /\ Update(q) => ~("main" \in pending[r] /\ "main" \in pending[q])

\* The version of the record that a request has read: a committed one, the present
\* one while the update that names it is open, a past one when it is durable.
VersionInv(r) ==
  /\ req[r].base # NoWriter => Stored(req[r].base, "main")
  /\ view[r].guarded /\ "main" \in pending[r] => req[r].base = writer
  /\ view[r].guarded /\ Stored(r, "main") => req[r].base # writer

Holders == {r \in Request : Holds(r)}

\* The pool has every connection that no request holds.
PoolInv == free = PoolSize - Cardinality(Holders)

CrudInv ==
  /\ \A r \in Request : RequestInv(r) /\ VersionInv(r)
  /\ \A r \in Request : \A q \in Request \ {r} : ClaimInv(r, q)
  /\ writer # NoWriter => Stored(writer, "main")
  /\ GuardedNotLost
  /\ PoolInv

(***************************************************************************)
(* What a step of one request leaves of the invariant for the others.      *)
(***************************************************************************)

\* A step of request r changes its own variables only.
Local(r) ==
  /\ view' = view /\ command' = command
  /\ req' \in [Request -> Req] /\ pending' \in [Request -> SUBSET Mark]
  /\ \A q \in Request \ {r} : req'[q] = req[q] /\ pending'[q] = pending[q]
  /\ durable \subseteq durable' /\ durable' \ durable \subseteq {r} \X Mark

\* It opens a write if none of its command is open or durable and, an update, if no
\* other update is open and the record has the version that it names.
MayOpen(r) ==
  /\ \A q \in Request \ {r} :
       /\ command[q] = command[r] => ~Claims(q)
       /\ Update(q) /\ Update(r) => "main" \notin pending[q]
  /\ view[r].guarded => req[r].base = writer

\* It reads the record before it writes, and becomes its last writer when what it
\* has open becomes durable.
Versions(r) ==
  /\ \/ req'[r].base = req[r].base
     \/ req'[r].base = writer /\ ~Claims(r)' /\ writer' = writer
  /\ "main" \in pending'[r] => writer' = writer /\ ("main" \in pending[r] \/ MayOpen(r))
  /\ Stored(r, "main")' => Stored(r, "main") \/ "main" \in pending[r]
  /\ \/ writer' = writer
        /\ (Stored(r, "main")' => Stored(r, "main") \/ ~Update(r))
     \/ writer' = r /\ "main" \in pending[r] /\ Stored(r, "main")' /\ Update(r)

\* It takes a connection of the pool, returns one, or neither.
Connection(r) ==
  \/ free' = free /\ (Holds(r)' <=> Holds(r))
  \/ free > 0 /\ free' = free - 1 /\ ~Holds(r) /\ Holds(r)'
  \/ free' = free + 1 /\ Holds(r) /\ ~Holds(r)'

LEMMA ViewFacts ==
  ASSUME TypeOK, NEW r \in Request
  PROVE  /\ view[r] \in View /\ req[r] \in Req /\ pending[r] \in SUBSET Mark
         /\ view[r].guarded => Update(r)
         /\ view[r].boundary = {"view"} <=> Atomic(r) /\ "middleware" \notin view[r].boundary
         /\ "middleware" \in view[r].boundary => Atomic(r)
  <1>1. view[r] \in Views /\ req[r] \in Req /\ pending[r] \in SUBSET Mark
    BY DEF TypeOK
  <1>2. view[r] \in View /\ (view[r].guarded => view[r].kind = "update")
    BY <1>1, ConstantsAssumption
  <1>3. view[r].boundary \in SUBSET {"view", "middleware"}
    BY <1>2 DEF View
  <1> QED
    BY <1>1, <1>2, <1>3 DEF Update, Atomic

LEMMA StoredOthers ==
  ASSUME NEW r \in Request, Local(r), NEW q \in Request, NEW mark
  PROVE  /\ Stored(q, mark) => Stored(q, mark)'
         /\ q # r => (Stored(q, mark)' <=> Stored(q, mark))
  BY DEF Local, Stored

LEMMA KnownKept ==
  ASSUME NEW r \in Request, Local(r), NEW q \in Request, Known(q)
  PROVE  Known(q)'
  BY DEF Local, Known

LEMMA OthersKept ==
  ASSUME TypeOK, NEW r \in Request, Local(r), NEW q \in Request \ {r}, RequestInv(q)
  PROVE  RequestInv(q)'
  <1>1. req'[q] = req[q] /\ pending'[q] = pending[q] /\ view'[q] = view[q]
    BY DEF Local
  <1>2. \A mark : Stored(q, mark)' <=> Stored(q, mark)
    BY StoredOthers
  <1>3. Known(q) => Known(q)'
    BY KnownKept
  <1>4. /\ Atomic(q)' <=> Atomic(q)
        /\ Over(q)' <=> Over(q)
        /\ Holds(q)' <=> Holds(q)
        /\ Escapes(q)' <=> Escapes(q)
        /\ \A label : At(q, label)' <=> At(q, label)
    BY <1>1 DEF Atomic, Over, Holds, Escapes, At
  <1>5. PlaceInv(q)'
    BY <1>1, <1>3, <1>4 DEF RequestInv, PlaceInv
  <1>6. PendingInv(q)'
    BY <1>1, <1>4 DEF RequestInv, PendingInv
  <1>7. StoredInv(q)'
    BY <1>1, <1>2, <1>4 DEF RequestInv, StoredInv
  <1>8. AnswerInv(q)'
    BY <1>1, <1>2, <1>3, <1>4 DEF RequestInv, AnswerInv
  <1> QED
    BY <1>5, <1>6, <1>7, <1>8 DEF RequestInv

\* What is open is not durable yet.
LEMMA OpenIsNotStored ==
  ASSUME NEW r \in Request, RequestInv(r), "main" \in pending[r]
  PROVE  ~Stored(r, "main") /\ Holds(r)
  <1>1. Holds(r)
    BY DEF RequestInv, PendingInv
  <1>2. CASE Atomic(r)
    BY <1>1, <1>2 DEF RequestInv, StoredInv, Holds, Mark
  <1>3. CASE ~Atomic(r)
    BY <1>1, <1>3 DEF RequestInv, StoredInv, Holds
  <1> QED
    BY <1>1, <1>2, <1>3

LEMMA ClaimsKept ==
  ASSUME TypeOK, CrudInv, NEW r \in Request, Local(r), Versions(r)
  PROVE  \A p \in Request : \A q \in Request \ {p} : ClaimInv(p, q)'
  <1>1. /\ view' = view /\ command' = command
        /\ \A q \in Request : Update(q)' <=> Update(q)
    BY DEF Local, Update
  <1>2. ASSUME NEW q \in Request \ {r}
        PROVE  (Claims(q)' <=> Claims(q)) /\ pending'[q] = pending[q]
    BY StoredOthers DEF Local, Claims
  <1>3. ASSUME NEW q \in Request \ {r}
        PROVE  ClaimInv(r, q)' /\ ClaimInv(q, r)'
    <2>1. ClaimInv(r, q)
      BY DEF CrudInv
    <2>2. Claims(r)' => Claims(r) \/ MayOpen(r)
      BY DEF Claims, Versions
    <2>3. "main" \in pending'[r] => "main" \in pending[r] \/ MayOpen(r)
      BY DEF Versions
    <2> QED
      BY <1>1, <1>2, <2>1, <2>2, <2>3 DEF ClaimInv, MayOpen
  <1>4. ASSUME NEW p \in Request \ {r}, NEW q \in Request \ {r}, p # q
        PROVE  ClaimInv(p, q)'
    <2>1. ClaimInv(p, q)
      BY <1>4 DEF CrudInv
    <2> QED
      BY <1>1, <1>2, <2>1 DEF ClaimInv
  <1> QED
    BY <1>3, <1>4

LEMMA VersionsKept ==
  ASSUME TypeOK, CrudInv, NEW r \in Request, Local(r), Versions(r)
  PROVE  /\ \A q \in Request : VersionInv(q)'
         /\ writer' # NoWriter => Stored(writer, "main")'
         /\ GuardedNotLost'
  <1>1. /\ view' = view
        /\ \A q \in Request \ {r} : req'[q] = req[q] /\ pending'[q] = pending[q]
    BY DEF Local
  <1>2. \A q \in Request : Stored(q, "main") => Stored(q, "main")'
    BY StoredOthers
  <1>3. \A q \in Request \ {r} : Stored(q, "main")' <=> Stored(q, "main")
    BY StoredOthers
  <1>4. \A q \in Request :
          /\ VersionInv(q) /\ (view[q].guarded => Update(q))
          /\ req[q].base \in Request \cup {NoWriter} /\ NoWriter \notin Request
          /\ "main" \in pending[q] => ~Stored(q, "main")
    BY ViewFacts, OpenIsNotStored, ConstantsAssumption DEF CrudInv, Req
  <1>5. writer # NoWriter => Stored(writer, "main")
    BY DEF CrudInv
  <1>6. writer \in Request \cup {NoWriter}
    BY DEF TypeOK
  <1>7. writer' = r => ~Stored(r, "main") \/ writer' = writer
    BY <1>4 DEF Versions
  <1>8. writer' # NoWriter => Stored(writer, "main")'
    BY <1>2, <1>5, <1>6 DEF Versions, Stored
  <1>9. ASSUME NEW q \in Request \ {r}
        PROVE  VersionInv(q)'
    <2>1. req'[q].base # NoWriter => Stored(req[q].base, "main")'
      BY <1>1, <1>2, <1>4 DEF VersionInv, Stored
    <2>2. view[q].guarded /\ "main" \in pending[q] => writer' = writer
      <3>1. ClaimInv(q, r)
        BY DEF CrudInv
      <3> QED
        BY <1>4, <3>1 DEF ClaimInv, Versions
    <2>3. view[q].guarded /\ Stored(q, "main") => req[q].base # writer'
      BY <1>4, <1>7 DEF VersionInv, Versions
    <2> QED
      BY <1>1, <1>3, <1>4, <2>1, <2>2, <2>3 DEF VersionInv, Stored
  <1>10. VersionInv(r)'
    <2>1. CASE req'[r].base = req[r].base
      <3>1. req'[r].base # NoWriter => Stored(req[r].base, "main")'
        BY <1>2, <1>4, <2>1 DEF VersionInv, Stored
      <3>2. view[r].guarded /\ "main" \in pending'[r] => req[r].base = writer'
        BY <1>4 DEF VersionInv, Versions, MayOpen
      <3>3. view[r].guarded /\ Stored(r, "main")' => req[r].base # writer'
        <4>1. CASE writer' = writer
          BY <1>4, <4>1 DEF VersionInv, Versions
        <4>2. CASE writer' = r /\ "main" \in pending[r]
          BY <1>4, <4>2 DEF VersionInv
        <4> QED
          BY <4>1, <4>2 DEF Versions
      <3> QED
        BY <1>1, <2>1, <3>1, <3>2, <3>3 DEF VersionInv, Stored
    <2>2. CASE req'[r].base = writer /\ ~Claims(r)' /\ writer' = writer
      BY <1>1, <1>8, <2>2 DEF VersionInv, Claims, Stored
    <2> QED
      BY <2>1, <2>2 DEF Versions
  <1>11. GuardedNotLost'
    <2>1. ASSUME NEW q \in Request \ {r}, view[r].guarded, view[q].guarded,
                 Stored(r, "main")', Stored(q, "main")
          PROVE  req'[r].base # req[q].base
      <3>1. Claims(r)' /\ req'[r].base = req[r].base
        BY <2>1 DEF Versions, Claims
      <3>2. CASE Stored(r, "main")
        BY <2>1, <3>1, <3>2 DEF CrudInv, GuardedNotLost
      <3>3. CASE "main" \in pending[r]
        BY <1>4, <2>1, <3>1, <3>3 DEF VersionInv
      <3> QED
        BY <2>1, <3>2, <3>3 DEF Versions
    <2>2. ASSUME NEW p \in Request \ {r}, NEW q \in Request \ {r}, p # q,
                 view[p].guarded, view[q].guarded, Stored(p, "main"), Stored(q, "main")
          PROVE  req[p].base # req[q].base
      BY <2>2 DEF CrudInv, GuardedNotLost
    <2> SUFFICES ASSUME NEW p \in Request, NEW q \in Request, p # q,
                        view[p].guarded, view[q].guarded,
                        Stored(p, "main")', Stored(q, "main")'
                 PROVE  req'[p].base # req'[q].base
      BY <1>1 DEF GuardedNotLost
    <2>3. CASE p = r
      BY <1>1, <1>3, <2>1, <2>3
    <2>4. CASE q = r
      BY <1>1, <1>3, <2>1, <2>4
    <2>5. CASE p # r /\ q # r
      BY <1>1, <1>3, <2>2, <2>5
    <2> QED
      BY <2>3, <2>4, <2>5
  <1> QED
    BY <1>8, <1>9, <1>10, <1>11

LEMMA PoolKept ==
  ASSUME TypeOK, CrudInv, NEW r \in Request, Local(r), Connection(r)
  PROVE  PoolInv' /\ free' \in 0 .. PoolSize
  <1>1. \A q \in Request \ {r} : Holds(q)' <=> Holds(q)
    BY DEF Local, Holds, Over, Atomic, At
  <1>2. IsFiniteSet(Holders) /\ IsFiniteSet(Holders') /\ PoolSize \in Nat
    BY ConstantsAssumption, FS_Subset DEF Holders
  <1>3. Cardinality(Holders) \in Nat /\ Cardinality(Holders') \in Nat
    BY <1>2, FS_CardinalityType
  <1>4. free \in Int /\ free >= 0 /\ free = PoolSize - Cardinality(Holders)
    BY DEF TypeOK, CrudInv, PoolInv
  <1>5. CASE free' = free /\ (Holds(r)' <=> Holds(r))
    <2>1. Holders' = Holders
      BY <1>1, <1>5 DEF Holders
    <2> QED
      BY <1>3, <1>4, <1>5, <2>1, <1>2 DEF PoolInv
  <1>6. CASE free > 0 /\ free' = free - 1 /\ ~Holds(r) /\ Holds(r)'
    <2>1. Holders' = Holders \cup {r} /\ r \notin Holders
      BY <1>1, <1>6 DEF Holders
    <2>2. Cardinality(Holders') = Cardinality(Holders) + 1
      BY <1>2, <2>1, FS_AddElement
    <2> QED
      BY <1>2, <1>3, <1>4, <1>6, <2>2 DEF PoolInv
  <1>7. CASE free' = free + 1 /\ Holds(r) /\ ~Holds(r)'
    <2>1. Holders' = Holders \ {r} /\ r \in Holders
      BY <1>1, <1>7 DEF Holders
    <2>2. Cardinality(Holders') = Cardinality(Holders) - 1
      BY <1>2, <2>1, FS_RemoveElement
    <2> QED
      BY <1>2, <1>3, <1>4, <1>7, <2>2 DEF PoolInv
  <1> QED
    BY <1>5, <1>6, <1>7 DEF Connection

\* A step of one request keeps the invariant if it keeps the request's part of it.
LEMMA StepKeeps ==
  ASSUME TypeOK, CrudInv, NEW r \in Request, Local(r), Versions(r), Connection(r),
         RequestInv(r)'
  PROVE  TypeOK' /\ CrudInv'
  <1>1. \A q \in Request : RequestInv(q)'
    BY OthersKept DEF CrudInv
  <1>2. TypeOK'
    <2>1. durable' \subseteq Request \X Mark /\ writer' \in Request \cup {NoWriter}
      BY DEF TypeOK, Local, Versions
    <2>2. free' \in 0 .. PoolSize
      BY PoolKept
    <2> QED
      BY <2>1, <2>2 DEF TypeOK, Local
  <1>3. CrudInv'
    BY <1>1, ClaimsKept, VersionsKept, PoolKept DEF CrudInv
  <1> QED
    BY <1>2, <1>3

(***************************************************************************)
(* The steps that leave the database alone.                                *)
(***************************************************************************)

Untouched == UNCHANGED <<view, command, pending, durable, writer>>

LEMMA ReqUpdate ==
  ASSUME TypeOK, NEW r \in Request, NEW x \in Req, req' = [req EXCEPT ![r] = x]
  PROVE  /\ req' \in [Request -> Req] /\ req'[r] = x
         /\ \A q \in Request \ {r} : req'[q] = req[q]
  BY DEF TypeOK

LEMMA GotoReq ==
  ASSUME TypeOK, NEW r \in Request, NEW label \in Label, NEW outcome \in Outcome,
         \/ Goto(r, label) /\ outcome = req[r].outcome
         \/ GotoWith(r, label, outcome)
  PROVE  /\ req' \in [Request -> Req]
         /\ \A q \in Request \ {r} : req'[q] = req[q]
         /\ req'[r].pc = label /\ req'[r].outcome = outcome
         /\ req'[r].replayed = req[r].replayed /\ req'[r].rollbackOnly = req[r].rollbackOnly
         /\ req'[r].broken = req[r].broken /\ req'[r].doubt = req[r].doubt
         /\ req'[r].base = req[r].base
  <1> DEFINE x == [req[r] EXCEPT !.pc = label, !.outcome = outcome]
  <1>1. req[r] \in Req
    BY DEF TypeOK
  <1>2. /\ x \in Req /\ x.pc = label /\ x.outcome = outcome
        /\ x.replayed = req[r].replayed /\ x.rollbackOnly = req[r].rollbackOnly
        /\ x.broken = req[r].broken /\ x.doubt = req[r].doubt /\ x.base = req[r].base
    BY <1>1 DEF Req
  <1>3. req' = [req EXCEPT ![r] = x]
    <2>1. CASE Goto(r, label) /\ outcome = req[r].outcome
      <3>1. x = [req[r] EXCEPT !.pc = label]
        BY <1>1, <2>1 DEF Req
      <3> HIDE DEF x
      <3> QED
        BY <2>1, <3>1 DEF Goto
    <2>2. CASE GotoWith(r, label, outcome)
      BY <2>2 DEF GotoWith
    <2> QED
      BY <2>1, <2>2
  <1> HIDE DEF x
  <1> QED
    BY <1>2, <1>3, ReqUpdate

\* What keeps its meaning when the database is left alone.
LEMMA UntouchedFacts ==
  ASSUME TypeOK, NEW r \in Request, Untouched, req' \in [Request -> Req],
         \A q \in Request \ {r} : req'[q] = req[q],
         req'[r].base = req[r].base \/ (req'[r].base = writer /\ ~Claims(r))
  PROVE  /\ Local(r) /\ Versions(r)
         /\ Known(r)' <=> Known(r)
         /\ \A mark : Stored(r, mark)' <=> Stored(r, mark)
         /\ Atomic(r)' <=> Atomic(r)
         /\ Escapes(r)' <=> Escapes(r)
  <1>1. \A mark : Stored(r, mark)' <=> Stored(r, mark)
    BY DEF Untouched, Stored
  <1>2. Local(r)
    BY DEF Untouched, Local, TypeOK
  <1>3. Versions(r)
    BY <1>1 DEF Untouched, Versions, Claims
  <1> QED
    BY <1>1, <1>2, <1>3 DEF Untouched, Known, Atomic, Escapes

\* The invariant of a request, and what follows from it.
LEMMA RequestFacts ==
  ASSUME TypeOK, CrudInv, NEW r \in Request
  PROVE  /\ PlaceInv(r) /\ PendingInv(r) /\ StoredInv(r) /\ AnswerInv(r)
         /\ Stored(r, "main") => Known(r)
         /\ req[r] \in Req
         /\ view[r].boundary = {"view"} <=> Atomic(r) /\ "middleware" \notin view[r].boundary
         /\ "middleware" \in view[r].boundary => Atomic(r)
  BY ViewFacts DEF CrudInv, RequestInv, Stored, Known

\* What a step that only moves the request on does to what its invariant reads.
Moved(r, label, outcome) ==
  /\ req'[r].pc = label /\ req'[r].outcome = outcome
  /\ req'[r].replayed = req[r].replayed /\ req'[r].rollbackOnly = req[r].rollbackOnly
  /\ req'[r].broken = req[r].broken /\ req'[r].doubt = req[r].doubt
  /\ pending'[r] = pending[r] /\ view'[r] = view[r]
  /\ Known(r)' <=> Known(r)
  /\ \A mark : Stored(r, mark)' <=> Stored(r, mark)
  /\ Atomic(r)' <=> Atomic(r)
  /\ Escapes(r)' <=> Escapes(r)

LEMMA MoveFacts ==
  ASSUME TypeOK, CrudInv, NEW r \in Request, Untouched,
         NEW label \in Label, NEW outcome \in Outcome,
         \/ Goto(r, label) /\ outcome = req[r].outcome
         \/ GotoWith(r, label, outcome)
  PROVE  Local(r) /\ Versions(r) /\ Moved(r, label, outcome)
  <1>1. /\ req' \in [Request -> Req]
        /\ \A q \in Request \ {r} : req'[q] = req[q]
        /\ req'[r].pc = label /\ req'[r].outcome = outcome
        /\ req'[r].replayed = req[r].replayed /\ req'[r].rollbackOnly = req[r].rollbackOnly
        /\ req'[r].broken = req[r].broken /\ req'[r].doubt = req[r].doubt
        /\ req'[r].base = req[r].base
    BY GotoReq
  <1>2. /\ Local(r) /\ Versions(r)
        /\ Known(r)' <=> Known(r)
        /\ \A mark : Stored(r, mark)' <=> Stored(r, mark)
        /\ Atomic(r)' <=> Atomic(r)
        /\ Escapes(r)' <=> Escapes(r)
    BY <1>1, UntouchedFacts
  <1> QED
    BY <1>1, <1>2 DEF Untouched, Moved

\* The view is left: with the answer, with an error, or before anything is written.
LEMMA ToLeaveKeeps ==
  ASSUME TypeOK, CrudInv, NEW r \in Request, Reply(r) \/ Raise(r) \/ NoUpdate(r) \/ Refuse(r)
  PROVE  TypeOK' /\ CrudInv'
  <1>1. PICK outcome \in {"success", "failed", "unchanged", "refused"} :
          /\ GotoWith(r, "leave", outcome)
          /\ req[r].pc \in {"load", "before", "after", "reply"}
          /\ outcome = "success" => At(r, "reply")
    BY DEF Reply, Raise, NoUpdate, Refuse, At
  <1>2. Untouched /\ free' = free
    BY DEF Reply, Raise, NoUpdate, Refuse, Static, Untouched
  <1>3. Local(r) /\ Versions(r) /\ Moved(r, "leave", outcome)
    BY <1>1, <1>2, MoveFacts DEF Label, Outcome
  <1>4. /\ PlaceInv(r) /\ PendingInv(r) /\ StoredInv(r) /\ AnswerInv(r)
        /\ Stored(r, "main") => Known(r)
    BY RequestFacts
  <1> USE DEF Moved, Holds, Over, At
  <1>5. PlaceInv(r)'
    BY <1>1, <1>3, <1>4 DEF PlaceInv, Working, Leaving
  <1>6. PendingInv(r)'
    BY <1>1, <1>3, <1>4 DEF PendingInv
  <1>7. StoredInv(r)'
    BY <1>1, <1>3, <1>4 DEF StoredInv
  <1>8. AnswerInv(r)'
    BY <1>1, <1>3, <1>4 DEF AnswerInv, PlaceInv, PendingInv, StoredInv
  <1>9. Connection(r)
    BY <1>1, <1>2, <1>3 DEF Connection
  <1> QED
    BY <1>3, <1>5, <1>6, <1>7, <1>8, <1>9, StepKeeps DEF RequestInv

\* The request takes a connection: that of its boundary or of its command.
LEMMA TakeKeeps ==
  ASSUME TypeOK, CrudInv, NEW r \in Request, Acquire(r) \/ Open(r)
  PROVE  TypeOK' /\ CrudInv'
  <1>1. PICK label \in {"load", "lookup"} :
          /\ Goto(r, label)
          /\ label = "load" => At(r, "acquire") /\ free > 0 /\ free' = free - 1
          /\ label = "lookup" =>
               /\ At(r, "open")
               /\ IF Atomic(r) THEN free' = free ELSE free > 0 /\ free' = free - 1
    BY DEF Acquire, Open
  <1>2. Untouched
    BY DEF Acquire, Open, Static, Untouched
  <1>3. Local(r) /\ Versions(r) /\ Moved(r, label, req[r].outcome)
    BY <1>1, <1>2, RequestFacts, MoveFacts DEF Label, Req
  <1>4. /\ PlaceInv(r) /\ PendingInv(r) /\ StoredInv(r) /\ AnswerInv(r)
        /\ "middleware" \in view[r].boundary => Atomic(r)
    BY RequestFacts
  <1> USE DEF Moved, Holds, Over, At
  <1>5. PlaceInv(r)'
    BY <1>1, <1>3, <1>4 DEF PlaceInv, Working, Leaving
  <1>6. PendingInv(r)'
    BY <1>1, <1>3, <1>4 DEF PendingInv
  <1>7. StoredInv(r)'
    BY <1>1, <1>3, <1>4 DEF StoredInv
  <1>8. AnswerInv(r)'
    BY <1>1, <1>3, <1>4 DEF AnswerInv, Leaving
  <1>9. Connection(r)
    BY <1>1, <1>3, <1>4 DEF Connection, PlaceInv
  <1> QED
    BY <1>3, <1>5, <1>6, <1>7, <1>8, <1>9, StepKeeps DEF RequestInv

\* The block of a joined command ends: nothing is committed yet.
LEMMA CloseJoinedKeeps ==
  ASSUME TypeOK, CrudInv, NEW r \in Request, CloseBlock(r), Atomic(r)
  PROVE  TypeOK' /\ CrudInv'
  <1>1. PICK label \in {"reply", "after"} :
          Goto(r, label) /\ At(r, "commit") /\ (label = "reply" <=> req[r].replayed)
    BY DEF CloseBlock
  <1>2. Untouched /\ free' = free
    BY DEF CloseBlock, Static, Untouched
  <1>3. Local(r) /\ Versions(r) /\ Moved(r, label, req[r].outcome)
    BY <1>1, <1>2, RequestFacts, MoveFacts DEF Label, Req
  <1>4. PlaceInv(r) /\ PendingInv(r) /\ StoredInv(r) /\ AnswerInv(r)
    BY RequestFacts
  <1> USE DEF Moved, Holds, Over, At
  <1>5. PlaceInv(r)'
    BY <1>1, <1>3, <1>4 DEF PlaceInv, Working, Leaving
  <1>6. PendingInv(r)'
    BY <1>1, <1>3, <1>4 DEF PendingInv
  <1>7. StoredInv(r)'
    BY <1>1, <1>3, <1>4 DEF StoredInv
  <1>8. AnswerInv(r)'
    BY <1>1, <1>3, <1>4 DEF AnswerInv, Leaving
  <1>9. Connection(r)
    BY <1>1, <1>2, <1>3 DEF Connection
  <1> QED
    BY <1>3, <1>5, <1>6, <1>7, <1>8, <1>9, StepKeeps DEF RequestInv

\* The answer changes on its way out, or passes a transaction middleware that does
\* not own the request.
LEMMA AnswerKeeps ==
  ASSUME TypeOK, CrudInv, NEW r \in Request,
         \/ Substitute(r) \/ LeaveMiddlewares(r)
         \/ (Respond(r) /\ "middleware" \notin view[r].boundary)
  PROVE  TypeOK' /\ CrudInv'
  <1>1. PICK label \in Leaving, outcome \in Outcome :
          /\ \/ Goto(r, label) /\ outcome = req[r].outcome
             \/ GotoWith(r, label, outcome)
          /\ \/ At(r, label) /\ label \in {"leave", "middlewares"} /\ outcome = "substituted"
             \/ /\ At(r, "middlewares") /\ label = "respond"
                /\ outcome \in {req[r].outcome, "failed"}
             \/ /\ At(r, "respond") /\ label = "done" /\ outcome = req[r].outcome
                /\ "middleware" \notin view[r].boundary
    BY RequestFacts
       DEF Substitute, LeaveMiddlewares, Respond, Leaving, Outcome, Req, At
  <1>2. Untouched /\ free' = free
    BY DEF Substitute, LeaveMiddlewares, Respond, Static, Untouched
  <1>3. Local(r) /\ Versions(r) /\ Moved(r, label, outcome)
    BY <1>1, <1>2, MoveFacts DEF Label, Leaving
  <1>4. /\ PlaceInv(r) /\ PendingInv(r) /\ StoredInv(r) /\ AnswerInv(r)
        /\ view[r].boundary = {"view"} => "middleware" \notin view[r].boundary
        /\ "middleware" \in view[r].boundary => Atomic(r)
    BY RequestFacts
  <1> USE DEF Moved, Holds, Over, At
  <1>5. PlaceInv(r)'
    BY <1>1, <1>3, <1>4 DEF PlaceInv, Working, Leaving
  <1>6. PendingInv(r)'
    BY <1>1, <1>3, <1>4 DEF PendingInv
  <1>7. StoredInv(r)'
    BY <1>1, <1>3, <1>4 DEF StoredInv
  <1>8. AnswerInv(r)'
    BY <1>1, <1>3, <1>4 DEF AnswerInv, Leaving, Good
  <1>9. Connection(r)
    BY <1>1, <1>2, <1>3, <1>4 DEF Connection
  <1> QED
    BY <1>3, <1>5, <1>6, <1>7, <1>8, <1>9, StepKeeps DEF RequestInv

\* The same for a step that sets other variables of the request too.
LEMMA SetFacts ==
  ASSUME TypeOK, CrudInv, NEW r \in Request, Untouched,
         NEW x \in Req, req' = [req EXCEPT ![r] = x],
         x.base = req[r].base \/ (x.base = writer /\ ~Claims(r))
  PROVE  /\ Local(r) /\ Versions(r) /\ req'[r] = x
         /\ pending'[r] = pending[r] /\ view'[r] = view[r]
         /\ Known(r)' <=> Known(r)
         /\ \A mark : Stored(r, mark)' <=> Stored(r, mark)
         /\ Atomic(r)' <=> Atomic(r)
         /\ Escapes(r)' <=> Escapes(r)
  <1>1. /\ req' \in [Request -> Req] /\ req'[r] = x
        /\ \A q \in Request \ {r} : req'[q] = req[q]
    BY ReqUpdate
  <1> QED
    BY <1>1, UntouchedFacts DEF Untouched

\* The record is read before anything is written.
LEMMA LoadKeeps ==
  ASSUME TypeOK, CrudInv, NEW r \in Request, Load(r)
  PROVE  TypeOK' /\ CrudInv'
  <1> DEFINE x == [req[r] EXCEPT !.pc = "before", !.base = writer]
  <1>1. /\ PlaceInv(r) /\ PendingInv(r) /\ StoredInv(r) /\ AnswerInv(r)
        /\ req[r] \in Req /\ req[r].pc = "load"
        /\ "middleware" \in view[r].boundary => Atomic(r)
    BY RequestFacts DEF Load, At
  <1>2. /\ x \in Req /\ x.pc = "before" /\ x.outcome = req[r].outcome
        /\ x.replayed = req[r].replayed /\ x.rollbackOnly = req[r].rollbackOnly
        /\ x.broken = req[r].broken /\ x.doubt = req[r].doubt /\ x.base = writer
    BY <1>1 DEF Req, Label, TypeOK
  <1>3. Untouched /\ free' = free /\ req' = [req EXCEPT ![r] = x]
    BY DEF Load, Static, Untouched
  <1>4. ~Claims(r)
    BY <1>1 DEF Claims, PendingInv, StoredInv
  <1> HIDE DEF x
  <1>5. /\ Local(r) /\ Versions(r) /\ req'[r] = x
        /\ pending'[r] = pending[r] /\ view'[r] = view[r]
        /\ Known(r)' <=> Known(r)
        /\ \A mark : Stored(r, mark)' <=> Stored(r, mark)
        /\ Atomic(r)' <=> Atomic(r)
        /\ Escapes(r)' <=> Escapes(r)
    BY <1>2, <1>3, <1>4, SetFacts
  <1> USE DEF Holds, Over, At
  <1>6. PlaceInv(r)'
    BY <1>1, <1>2, <1>5 DEF PlaceInv, Working, Leaving
  <1>7. PendingInv(r)'
    BY <1>1, <1>2, <1>5 DEF PendingInv
  <1>8. StoredInv(r)'
    BY <1>1, <1>2, <1>5 DEF StoredInv
  <1>9. AnswerInv(r)'
    BY <1>1, <1>2, <1>5 DEF AnswerInv, Leaving
  <1>10. Connection(r)
    BY <1>1, <1>2, <1>3, <1>5 DEF Connection
  <1> QED
    BY <1>5, <1>6, <1>7, <1>8, <1>9, <1>10, StepKeeps DEF RequestInv

\* The application looks for a prior result.
LEMMA LookupKeeps ==
  ASSUME TypeOK, CrudInv, NEW r \in Request, Lookup(r)
  PROVE  TypeOK' /\ CrudInv'
  <1> DEFINE label == IF Known(r) THEN "commit" ELSE "write"
             x == [req[r] EXCEPT !.pc = label, !.replayed = Known(r)]
  <1>1. /\ PlaceInv(r) /\ PendingInv(r) /\ StoredInv(r) /\ AnswerInv(r)
        /\ req[r] \in Req /\ req[r].pc = "lookup"
        /\ "middleware" \in view[r].boundary => Atomic(r)
    BY RequestFacts DEF Lookup, At
  <1>2. Known(r) \in BOOLEAN
    BY DEF Known
  <1>3. /\ x \in Req /\ x.pc = label /\ x.outcome = req[r].outcome
        /\ x.replayed = Known(r) /\ x.rollbackOnly = req[r].rollbackOnly
        /\ x.broken = req[r].broken /\ x.doubt = req[r].doubt /\ x.base = req[r].base
    BY <1>1, <1>2 DEF Req, Label
  <1>4. Untouched /\ free' = free /\ req' = [req EXCEPT ![r] = x]
    BY DEF Lookup, Static, Untouched
  <1> HIDE DEF x
  <1>5. /\ Local(r) /\ Versions(r) /\ req'[r] = x
        /\ pending'[r] = pending[r] /\ view'[r] = view[r]
        /\ Known(r)' <=> Known(r)
        /\ \A mark : Stored(r, mark)' <=> Stored(r, mark)
        /\ Atomic(r)' <=> Atomic(r)
        /\ Escapes(r)' <=> Escapes(r)
    BY <1>3, <1>4, SetFacts
  <1> USE DEF Holds, Over, At
  <1>6. PlaceInv(r)'
    BY <1>1, <1>3, <1>5 DEF PlaceInv, Working, Leaving
  <1>7. PendingInv(r)'
    BY <1>1, <1>3, <1>5 DEF PendingInv
  <1>8. StoredInv(r)'
    BY <1>1, <1>3, <1>5 DEF StoredInv
  <1>9. AnswerInv(r)'
    BY <1>1, <1>3, <1>5 DEF AnswerInv, Leaving
  <1>10. Connection(r)
    BY <1>1, <1>3, <1>4, <1>5 DEF Connection
  <1> QED
    BY <1>5, <1>6, <1>7, <1>8, <1>9, <1>10, StepKeeps DEF RequestInv

\* An error leaves a joined block: the scope is rollback-only.
LEMMA BlockFailsJoinedKeeps ==
  ASSUME TypeOK, CrudInv, NEW r \in Request, NEW outcome \in {"failed", "refused"},
         req[r].pc \in {"lookup", "write", "hook"}, Atomic(r), Static, BlockFails(r, outcome)
  PROVE  TypeOK' /\ CrudInv'
  <1> DEFINE x == [req[r] EXCEPT !.pc = "leave", !.outcome = outcome,
                                 !.broken = TRUE, !.rollbackOnly = TRUE]
  <1>1. /\ PlaceInv(r) /\ PendingInv(r) /\ StoredInv(r) /\ AnswerInv(r)
        /\ req[r] \in Req
        /\ "middleware" \in view[r].boundary => Atomic(r)
    BY RequestFacts
  <1>2. /\ x \in Req /\ x.pc = "leave" /\ x.outcome = outcome
        /\ x.replayed = req[r].replayed /\ x.rollbackOnly = TRUE
        /\ x.broken = TRUE /\ x.doubt = req[r].doubt /\ x.base = req[r].base
    BY <1>1 DEF Req, Label, Outcome
  <1>3. Untouched /\ free' = free /\ req' = [req EXCEPT ![r] = x]
    <2>1. Atomic(r) = TRUE
      BY DEF Atomic
    <2> QED
      BY <2>1 DEF BlockFails, Static, Untouched
  <1> HIDE DEF x
  <1>4. /\ Local(r) /\ Versions(r) /\ req'[r] = x
        /\ pending'[r] = pending[r] /\ view'[r] = view[r]
        /\ Known(r)' <=> Known(r)
        /\ \A mark : Stored(r, mark)' <=> Stored(r, mark)
        /\ Atomic(r)' <=> Atomic(r)
        /\ Escapes(r)' <=> Escapes(r)
    BY <1>2, <1>3, SetFacts
  <1> USE DEF Holds, Over, At
  <1>5. PlaceInv(r)'
    BY <1>1, <1>2, <1>4 DEF PlaceInv, Working, Leaving
  <1>6. PendingInv(r)'
    BY <1>1, <1>2, <1>4 DEF PendingInv
  <1>7. StoredInv(r)'
    BY <1>1, <1>2, <1>4 DEF StoredInv
  <1>8. AnswerInv(r)'
    BY <1>1, <1>2, <1>4 DEF AnswerInv, Leaving, Good
  <1>9. Connection(r)
    BY <1>1, <1>2, <1>3, <1>4 DEF Connection
  <1> QED
    BY <1>4, <1>5, <1>6, <1>7, <1>8, <1>9, StepKeeps DEF RequestInv

\* The view is left inside of another owner's transaction, or of none.
LEMMA LeaveJoinedKeeps ==
  ASSUME TypeOK, CrudInv, NEW r \in Request, LeaveView(r), view[r].boundary # {"view"}
  PROVE  TypeOK' /\ CrudInv'
  <1> DEFINE ends == view[r].boundary = {"view", "middleware"} /\ req[r].outcome \notin Good
             x == [req[r] EXCEPT !.pc = "middlewares", !.rollbackOnly = @ \/ ends,
                                 !.broken = @ \/ ends]
  <1>1. /\ PlaceInv(r) /\ PendingInv(r) /\ StoredInv(r) /\ AnswerInv(r)
        /\ req[r] \in Req /\ req[r].pc = "leave"
        /\ "middleware" \in view[r].boundary <=> Atomic(r)
    BY RequestFacts DEF LeaveView, At
  <1>2. /\ x \in Req /\ x.pc = "middlewares" /\ x.outcome = req[r].outcome
        /\ x.replayed = req[r].replayed /\ x.rollbackOnly = (req[r].rollbackOnly \/ ends)
        /\ x.broken = (req[r].broken \/ ends) /\ x.doubt = req[r].doubt
        /\ x.base = req[r].base
    BY <1>1 DEF Req, Label
  <1>3. Untouched /\ free' = free /\ req' = [req EXCEPT ![r] = x]
    BY DEF LeaveView, Static, Untouched
  <1>4. ends => Atomic(r)
    BY <1>1
  <1> HIDE DEF x, ends
  <1>5. /\ Local(r) /\ Versions(r) /\ req'[r] = x
        /\ pending'[r] = pending[r] /\ view'[r] = view[r]
        /\ Known(r)' <=> Known(r)
        /\ \A mark : Stored(r, mark)' <=> Stored(r, mark)
        /\ Atomic(r)' <=> Atomic(r)
        /\ Escapes(r)' <=> Escapes(r)
    BY <1>2, <1>3, SetFacts
  <1> USE DEF Holds, Over, At
  <1>6. PlaceInv(r)'
    BY <1>1, <1>2, <1>4, <1>5 DEF PlaceInv, Working, Leaving
  <1>7. PendingInv(r)'
    BY <1>1, <1>2, <1>5 DEF PendingInv
  <1>8. StoredInv(r)'
    BY <1>1, <1>2, <1>4, <1>5 DEF StoredInv, Mark
  <1>9. AnswerInv(r)'
    BY <1>1, <1>2, <1>5 DEF AnswerInv, Leaving, Good
  <1>10. Connection(r)
    BY <1>1, <1>2, <1>3, <1>5 DEF Connection
  <1> QED
    BY <1>5, <1>6, <1>7, <1>8, <1>9, <1>10, StepKeeps DEF RequestInv

(***************************************************************************)
(* The steps that write.                                                   *)
(***************************************************************************)

\* A statement in the open transaction of the request.
LEMMA OpenFacts ==
  ASSUME TypeOK, CrudInv, NEW r \in Request, Static, UNCHANGED <<durable, writer>>,
         NEW mark \in Mark, pending' = [pending EXCEPT ![r] = @ \cup {mark}],
         mark = "main" => MayOpen(r),
         NEW label \in Label, Goto(r, label)
  PROVE  /\ Local(r) /\ Versions(r)
         /\ req'[r].pc = label /\ req'[r].outcome = req[r].outcome
         /\ req'[r].replayed = req[r].replayed /\ req'[r].rollbackOnly = req[r].rollbackOnly
         /\ req'[r].broken = req[r].broken /\ req'[r].doubt = req[r].doubt
         /\ pending'[r] = pending[r] \cup {mark} /\ view'[r] = view[r]
         /\ Known(r)' <=> Known(r)
         /\ \A m : Stored(r, m)' <=> Stored(r, m)
         /\ Atomic(r)' <=> Atomic(r)
         /\ Escapes(r)' <=> Escapes(r)
  <1>1. req[r].outcome \in Outcome
    BY RequestFacts DEF Req
  <1>2. /\ req' \in [Request -> Req]
        /\ \A q \in Request \ {r} : req'[q] = req[q]
        /\ req'[r].pc = label /\ req'[r].outcome = req[r].outcome
        /\ req'[r].replayed = req[r].replayed /\ req'[r].rollbackOnly = req[r].rollbackOnly
        /\ req'[r].broken = req[r].broken /\ req'[r].doubt = req[r].doubt
        /\ req'[r].base = req[r].base
    BY <1>1, GotoReq
  <1>3. /\ pending' \in [Request -> SUBSET Mark] /\ pending'[r] = pending[r] \cup {mark}
        /\ \A q \in Request \ {r} : pending'[q] = pending[q]
    BY DEF TypeOK
  <1>4. \A m : Stored(r, m)' <=> Stored(r, m)
    BY DEF Stored
  <1>5. Local(r)
    BY <1>2, <1>3 DEF Local, Static, TypeOK
  <1>6. Versions(r)
    BY <1>2, <1>3, <1>4 DEF Versions
  <1> QED
    BY <1>2, <1>3, <1>4, <1>5, <1>6 DEF Static, Known, Atomic, Escapes

\* A statement on a connection of its own, with its own commit.
LEMMA OwnFacts ==
  ASSUME TypeOK, CrudInv, NEW r \in Request, Static, UNCHANGED <<pending, writer>>,
         NEW mark \in Mark \ {"main"}, durable' = durable \cup {<<r, mark>>},
         NEW label \in Label, Goto(r, label)
  PROVE  /\ Local(r) /\ Versions(r)
         /\ req'[r].pc = label /\ req'[r].outcome = req[r].outcome
         /\ req'[r].replayed = req[r].replayed /\ req'[r].rollbackOnly = req[r].rollbackOnly
         /\ req'[r].broken = req[r].broken /\ req'[r].doubt = req[r].doubt
         /\ pending'[r] = pending[r] /\ view'[r] = view[r]
         /\ Known(r)' <=> Known(r)
         /\ \A m : Stored(r, m)' <=> Stored(r, m) \/ m = mark
         /\ Atomic(r)' <=> Atomic(r)
         /\ Escapes(r)' <=> Escapes(r)
  <1>1. req[r].outcome \in Outcome
    BY RequestFacts DEF Req
  <1>2. /\ req' \in [Request -> Req]
        /\ \A q \in Request \ {r} : req'[q] = req[q]
        /\ req'[r].pc = label /\ req'[r].outcome = req[r].outcome
        /\ req'[r].replayed = req[r].replayed /\ req'[r].rollbackOnly = req[r].rollbackOnly
        /\ req'[r].broken = req[r].broken /\ req'[r].doubt = req[r].doubt
        /\ req'[r].base = req[r].base
    BY <1>1, GotoReq
  <1>3. \A m : Stored(r, m)' <=> (Stored(r, m) \/ m = mark)
    BY DEF Stored
  <1>4. \A q \in Request : <<q, "main">> \in durable' <=> <<q, "main">> \in durable
    OBVIOUS
  <1>5. Local(r)
    BY <1>2 DEF Local, Static, TypeOK
  <1>6. Versions(r)
    BY <1>2, <1>3 DEF Versions
  <1>7. Known(r)' <=> Known(r)
    BY <1>4 DEF Static, Known
  <1> QED
    BY <1>2, <1>3, <1>5, <1>6, <1>7 DEF Static, Atomic, Escapes

\* The insert or update opens when no other of its command is open or durable, no
\* other update is open, and the record has the version that the update names.
LEMMA WriteOpens ==
  ASSUME TypeOK, NEW r \in Request, ~Blocked(r), ~Known(r), Update(r) => Matches(r)
  PROVE  MayOpen(r)
  <1>1. view[r].guarded => req[r].base = writer
    BY ViewFacts DEF Matches
  <1>2. ASSUME NEW q \in Request \ {r}
        PROVE  /\ command[q] = command[r] => ~Claims(q)
               /\ Update(q) /\ Update(r) => "main" \notin pending[q]
    BY DEF Blocked, Known, Claims, Stored, Update
  <1> QED
    BY <1>1, <1>2 DEF MayOpen

\* A hook or the insert or update writes in the open transaction.
LEMMA WriteInKeeps ==
  ASSUME TypeOK, CrudInv, NEW r \in Request,
         \/ Before(r) /\ Atomic(r)
         \/ Write(r) /\ ~Known(r) /\ ~(Update(r) /\ ~Matches(r))
         \/ Hook(r)
         \/ After(r) /\ Atomic(r)
  PROVE  TypeOK' /\ CrudInv'
  <1>1. PICK mark \in Mark, label \in {"open", "hook", "commit", "reply"} :
          /\ pending' = [pending EXCEPT ![r] = @ \cup {mark}] /\ Goto(r, label)
          /\ mark = "main" => MayOpen(r)
          /\ \/ mark = "before" /\ label = "open" /\ req[r].pc = "before" /\ Atomic(r)
             \/ mark = "main" /\ label = "hook" /\ req[r].pc = "write"
             \/ mark = "hook" /\ label = "commit" /\ req[r].pc = "hook"
             \/ mark = "after" /\ label = "reply" /\ req[r].pc = "after" /\ Atomic(r)
    <2>1. CASE Before(r) /\ Atomic(r)
      BY <2>1 DEF Before, Writes, At, Mark
    <2>2. CASE Write(r) /\ ~Known(r) /\ ~(Update(r) /\ ~Matches(r))
      BY <2>2, WriteOpens DEF Write, Update, At, Mark
    <2>3. CASE Hook(r)
      BY <2>3 DEF Hook, At, Mark
    <2>4. CASE After(r) /\ Atomic(r)
      BY <2>4 DEF After, Writes, At, Mark
    <2> QED
      BY <2>1, <2>2, <2>3, <2>4
  <1>2. Static /\ UNCHANGED <<durable, writer>> /\ free' = free
    BY DEF Before, Write, Hook, After, Writes, Update
  <1>3. /\ PlaceInv(r) /\ PendingInv(r) /\ StoredInv(r) /\ AnswerInv(r)
        /\ "middleware" \in view[r].boundary => Atomic(r)
    BY RequestFacts
  <1>4. /\ Local(r) /\ Versions(r)
        /\ req'[r].pc = label /\ req'[r].outcome = req[r].outcome
        /\ req'[r].replayed = req[r].replayed /\ req'[r].rollbackOnly = req[r].rollbackOnly
        /\ req'[r].broken = req[r].broken /\ req'[r].doubt = req[r].doubt
        /\ pending'[r] = pending[r] \cup {mark} /\ view'[r] = view[r]
        /\ Known(r)' <=> Known(r)
        /\ \A m : Stored(r, m)' <=> Stored(r, m)
        /\ Atomic(r)' <=> Atomic(r)
        /\ Escapes(r)' <=> Escapes(r)
    BY <1>1, <1>2, OpenFacts DEF Label
  <1> USE DEF Holds, Over, At
  <1>5. PlaceInv(r)'
    BY <1>1, <1>3, <1>4 DEF PlaceInv, Working, Leaving
  <1>6. PendingInv(r)'
    BY <1>1, <1>3, <1>4 DEF PendingInv, PlaceInv, Leaving
  <1>7. StoredInv(r)'
    BY <1>1, <1>3, <1>4 DEF StoredInv
  <1>8. AnswerInv(r)'
    BY <1>1, <1>3, <1>4 DEF AnswerInv, Leaving
  <1>9. Connection(r)
    BY <1>1, <1>2, <1>3, <1>4 DEF Connection
  <1> QED
    BY <1>4, <1>5, <1>6, <1>7, <1>8, <1>9, StepKeeps DEF RequestInv

\* A hook writes outside of every transaction of its request.
LEMMA WriteOutKeeps ==
  ASSUME TypeOK, CrudInv, NEW r \in Request, Before(r) \/ HelperHook(r) \/ After(r), ~Atomic(r)
  PROVE  TypeOK' /\ CrudInv'
  <1>1. PICK mark \in Mark \ {"main"}, label \in {"open", "commit", "reply"} :
          /\ durable' = durable \cup {<<r, mark>>} /\ Goto(r, label)
          /\ \/ mark = "before" /\ label = "open" /\ req[r].pc = "before"
             \/ mark = "hook" /\ label = "commit" /\ req[r].pc = "hook" /\ Escapes(r)
             \/ mark = "after" /\ label = "reply" /\ req[r].pc = "after"
    <2>1. CASE Before(r)
      BY <2>1 DEF Before, Writes, At, Mark
    <2>2. CASE HelperHook(r)
      BY <2>2 DEF HelperHook, At, Mark, Escapes
    <2>3. CASE After(r)
      BY <2>3 DEF After, Writes, At, Mark
    <2> QED
      BY <2>1, <2>2, <2>3
  <1>2. Static /\ UNCHANGED <<pending, writer>> /\ free' = free
    BY DEF Before, HelperHook, After, Writes
  <1>3. PlaceInv(r) /\ PendingInv(r) /\ StoredInv(r) /\ AnswerInv(r)
    BY RequestFacts
  <1>4. /\ Local(r) /\ Versions(r)
        /\ req'[r].pc = label /\ req'[r].outcome = req[r].outcome
        /\ req'[r].replayed = req[r].replayed /\ req'[r].rollbackOnly = req[r].rollbackOnly
        /\ req'[r].broken = req[r].broken /\ req'[r].doubt = req[r].doubt
        /\ pending'[r] = pending[r] /\ view'[r] = view[r]
        /\ Known(r)' <=> Known(r)
        /\ \A m : Stored(r, m)' <=> Stored(r, m) \/ m = mark
        /\ Atomic(r)' <=> Atomic(r)
        /\ Escapes(r)' <=> Escapes(r)
    BY <1>1, <1>2, OwnFacts DEF Label
  <1> USE DEF Holds, Over, At
  <1>5. PlaceInv(r)'
    BY <1>1, <1>3, <1>4 DEF PlaceInv, Working, Leaving
  <1>6. PendingInv(r)'
    BY <1>1, <1>3, <1>4 DEF PendingInv, PlaceInv, Leaving
  <1>7. StoredInv(r)'
    BY <1>1, <1>3, <1>4 DEF StoredInv, PlaceInv, Leaving
  <1>8. AnswerInv(r)'
    <2>1. "middleware" \notin view[r].boundary /\ view[r].boundary # {"view"}
      BY RequestFacts
    <2> QED
      BY <1>1, <1>3, <1>4, <2>1 DEF AnswerInv, Leaving
  <1>9. Connection(r)
    BY <1>1, <1>2, <1>3, <1>4 DEF Connection
  <1> QED
    BY <1>4, <1>5, <1>6, <1>7, <1>8, <1>9, StepKeeps DEF RequestInv

(***************************************************************************)
(* The steps that end a transaction.                                       *)
(***************************************************************************)

\* The step sets the place, the answer and the history of its request only.
Answers(r, label, outcome) ==
  /\ req' \in [Request -> Req]
  /\ \A q \in Request \ {r} : req'[q] = req[q]
  /\ req'[r].pc = label /\ req'[r].outcome = outcome
  /\ req'[r].replayed = req[r].replayed /\ req'[r].base = req[r].base

LEMMA InDoubtReq ==
  ASSUME TypeOK, NEW r \in Request, NEW label \in Label, CommitInDoubt(r, label)
  PROVE  /\ Answers(r, label, "failed")
         /\ req'[r].rollbackOnly = req[r].rollbackOnly
         /\ req'[r].broken = req[r].broken /\ req'[r].doubt
  <1> DEFINE x == [req[r] EXCEPT !.pc = label, !.outcome = "failed", !.doubt = TRUE]
  <1>1. req[r] \in Req
    BY DEF TypeOK
  <1>2. /\ x \in Req /\ x.pc = label /\ x.outcome = "failed"
        /\ x.replayed = req[r].replayed /\ x.rollbackOnly = req[r].rollbackOnly
        /\ x.broken = req[r].broken /\ x.doubt = TRUE /\ x.base = req[r].base
    BY <1>1 DEF Req, Outcome
  <1>3. req' = [req EXCEPT ![r] = x]
    BY DEF CommitInDoubt
  <1> HIDE DEF x
  <1> QED
    BY <1>2, <1>3, ReqUpdate DEF Answers

LEMMA BlockFailsReq ==
  ASSUME TypeOK, NEW r \in Request, NEW outcome \in {"failed", "refused"},
         BlockFails(r, outcome)
  PROVE  /\ Answers(r, "leave", outcome)
         /\ req'[r].rollbackOnly = Atomic(r)
         /\ req'[r].broken /\ req'[r].doubt = req[r].doubt
  <1> DEFINE x == [req[r] EXCEPT !.pc = "leave", !.outcome = outcome,
                                 !.broken = TRUE, !.rollbackOnly = Atomic(r)]
  <1>1. req[r] \in Req /\ Atomic(r) \in BOOLEAN
    BY DEF TypeOK, Atomic
  <1>2. /\ x \in Req /\ x.pc = "leave" /\ x.outcome = outcome
        /\ x.replayed = req[r].replayed /\ x.rollbackOnly = Atomic(r)
        /\ x.broken = TRUE /\ x.doubt = req[r].doubt /\ x.base = req[r].base
    BY <1>1 DEF Req, Label, Outcome
  <1>3. req' = [req EXCEPT ![r] = x]
    BY DEF BlockFails
  <1> HIDE DEF x
  <1> QED
    BY <1>2, <1>3, ReqUpdate DEF Answers

\* Everything that is open is rolled back.
LEMMA RollBackFacts ==
  ASSUME TypeOK, NEW r \in Request, Static, RollBack(r),
         NEW label, NEW outcome, Answers(r, label, outcome)
  PROVE  /\ Local(r) /\ Versions(r)
         /\ pending'[r] = {} /\ view'[r] = view[r]
         /\ Known(r)' <=> Known(r)
         /\ \A m : Stored(r, m)' <=> Stored(r, m)
         /\ Atomic(r)' <=> Atomic(r)
         /\ Escapes(r)' <=> Escapes(r)
  <1>1. /\ pending' \in [Request -> SUBSET Mark] /\ pending'[r] = {}
        /\ \A q \in Request \ {r} : pending'[q] = pending[q]
        /\ UNCHANGED <<durable, writer>>
    BY DEF TypeOK, RollBack
  <1>2. \A m : Stored(r, m)' <=> Stored(r, m)
    BY <1>1 DEF Stored
  <1>3. Local(r)
    BY <1>1 DEF Local, Static, Answers
  <1>4. Versions(r)
    BY <1>1, <1>2 DEF Versions, Answers
  <1> QED
    BY <1>1, <1>2, <1>3, <1>4 DEF Static, Known, Atomic, Escapes

\* Everything that is open becomes durable.
LEMMA CommitFacts ==
  ASSUME TypeOK, NEW r \in Request, Static, CommitWork(r),
         NEW label, NEW outcome, Answers(r, label, outcome)
  PROVE  /\ Local(r) /\ Versions(r)
         /\ pending'[r] = {} /\ view'[r] = view[r]
         /\ Known(r) \/ "main" \in pending[r] => Known(r)'
         /\ \A m : Stored(r, m)' <=> Stored(r, m) \/ m \in pending[r]
         /\ Atomic(r)' <=> Atomic(r)
         /\ Escapes(r)' <=> Escapes(r)
  <1>1. /\ pending' \in [Request -> SUBSET Mark] /\ pending'[r] = {}
        /\ \A q \in Request \ {r} : pending'[q] = pending[q]
    BY DEF TypeOK, CommitWork
  <1>2. durable' = durable \cup ({r} \X pending[r]) /\ pending[r] \subseteq Mark
    BY DEF TypeOK, CommitWork
  <1>3. \A m : Stored(r, m)' <=> (Stored(r, m) \/ m \in pending[r])
    BY <1>2 DEF Stored
  <1>4. Local(r)
    BY <1>1, <1>2 DEF Local, Static, Answers
  <1>5. Versions(r)
    <2>1. CASE "main" \in pending[r] /\ Update(r)
      <3>1. writer' = r
        BY <2>1 DEF CommitWork, Update
      <3> QED
        BY <1>1, <1>3, <2>1, <3>1 DEF Versions, Answers
    <2>2. CASE ~("main" \in pending[r] /\ Update(r))
      <3>1. writer' = writer
        BY <2>2 DEF CommitWork, Update
      <3> QED
        BY <1>1, <1>3, <2>2, <3>1 DEF Versions, Answers
    <2> QED
      BY <2>1, <2>2
  <1>6. Known(r) \/ "main" \in pending[r] => Known(r)'
    BY <1>2 DEF Static, Known
  <1> QED
    BY <1>1, <1>3, <1>4, <1>5, <1>6 DEF Static, Atomic, Escapes

\* The transaction of a standalone block is committed, with an answer or without.
LEMMA CommitBlockKeeps ==
  ASSUME TypeOK, CrudInv, NEW r \in Request, Static, ~Atomic(r), At(r, "commit"),
         CommitWork(r), NEW label \in {"reply", "after", "leave"}, NEW outcome,
         Answers(r, label, outcome), req'[r].rollbackOnly = req[r].rollbackOnly,
         req'[r].broken = req[r].broken, label = "reply" => req[r].replayed,
         label = "after" => ~req[r].replayed, label = "leave" => outcome = "failed"
  PROVE  TypeOK' /\ CrudInv'
  <1>1. /\ PlaceInv(r) /\ PendingInv(r) /\ StoredInv(r) /\ AnswerInv(r)
        /\ "middleware" \notin view[r].boundary /\ view[r].boundary # {"view"}
    BY RequestFacts
  <1>2. /\ Local(r) /\ Versions(r)
        /\ pending'[r] = {} /\ view'[r] = view[r]
        /\ Known(r) \/ "main" \in pending[r] => Known(r)'
        /\ \A m : Stored(r, m)' <=> Stored(r, m) \/ m \in pending[r]
        /\ Atomic(r)' <=> Atomic(r)
        /\ Escapes(r)' <=> Escapes(r)
    BY CommitFacts
  <1>3. /\ req'[r].pc = label /\ req'[r].outcome = outcome
        /\ req'[r].replayed = req[r].replayed
    BY DEF Answers
  <1> USE DEF Holds, Over, At
  <1>4. PlaceInv(r)'
    BY <1>1, <1>2, <1>3 DEF PlaceInv, Working, Leaving
  <1>5. PendingInv(r)'
    BY <1>1, <1>2, <1>3 DEF PendingInv
  <1>6. StoredInv(r)'
    BY <1>1, <1>2, <1>3 DEF StoredInv, PendingInv, PlaceInv, Working
  <1>7. AnswerInv(r)'
    BY <1>1, <1>2, <1>3 DEF AnswerInv, Leaving
  <1>8. Connection(r)
    BY <1>1, <1>2, <1>3 DEF Connection, CommitWork
  <1> QED
    BY <1>2, <1>4, <1>5, <1>6, <1>7, <1>8, StepKeeps DEF RequestInv

\* It is rolled back.
LEMMA RollBackBlockKeeps ==
  ASSUME TypeOK, CrudInv, NEW r \in Request, Static, ~Atomic(r),
         req[r].pc \in {"lookup", "write", "hook", "commit"}, RollBack(r),
         NEW outcome \in {"failed", "refused"}, Answers(r, "leave", outcome)
  PROVE  TypeOK' /\ CrudInv'
  <1>1. /\ PlaceInv(r) /\ PendingInv(r) /\ StoredInv(r) /\ AnswerInv(r)
        /\ "middleware" \notin view[r].boundary /\ view[r].boundary # {"view"}
    BY RequestFacts
  <1>2. /\ Local(r) /\ Versions(r)
        /\ pending'[r] = {} /\ view'[r] = view[r]
        /\ Known(r)' <=> Known(r)
        /\ \A m : Stored(r, m)' <=> Stored(r, m)
        /\ Atomic(r)' <=> Atomic(r)
        /\ Escapes(r)' <=> Escapes(r)
    BY RollBackFacts
  <1>3. /\ req'[r].pc = "leave" /\ req'[r].outcome = outcome
        /\ req'[r].replayed = req[r].replayed
    BY DEF Answers
  <1> USE DEF Holds, Over, At
  <1>4. PlaceInv(r)'
    BY <1>1, <1>2, <1>3 DEF PlaceInv, Working, Leaving
  <1>5. PendingInv(r)'
    BY <1>1, <1>2, <1>3 DEF PendingInv
  <1>6. StoredInv(r)'
    BY <1>1, <1>2, <1>3 DEF StoredInv
  <1>7. AnswerInv(r)'
    BY <1>1, <1>2, <1>3 DEF AnswerInv, Leaving
  <1>8. Connection(r)
    BY <1>1, <1>2, <1>3 DEF Connection, RollBack
  <1> QED
    BY <1>2, <1>4, <1>5, <1>6, <1>7, <1>8, StepKeeps DEF RequestInv

\* The owner of the request's transaction is left.
Leaves(r, label) ==
  /\ Atomic(r)
  /\ \/ view[r].boundary = {"view"} /\ At(r, "leave") /\ label = "middlewares"
     \/ "middleware" \in view[r].boundary /\ At(r, "respond") /\ label = "done"

\* It commits a good answer, whose command is known then.
LEMMA CommitBoundaryKeeps ==
  ASSUME TypeOK, CrudInv, NEW r \in Request, Static, NEW label, Leaves(r, label),
         CommitWork(r), NEW outcome, Answers(r, label, outcome),
         req[r].outcome \in Good, ~req[r].rollbackOnly,
         req'[r].rollbackOnly = req[r].rollbackOnly, req'[r].broken = req[r].broken,
         outcome = req[r].outcome \/ (outcome = "failed" /\ req'[r].doubt)
  PROVE  TypeOK' /\ CrudInv'
  <1>1. /\ PlaceInv(r) /\ PendingInv(r) /\ StoredInv(r) /\ AnswerInv(r)
        /\ view[r].boundary = {"view"} => "middleware" \notin view[r].boundary
    BY RequestFacts
  <1>2. /\ Local(r) /\ Versions(r)
        /\ pending'[r] = {} /\ view'[r] = view[r]
        /\ Known(r) \/ "main" \in pending[r] => Known(r)'
        /\ \A m : Stored(r, m)' <=> Stored(r, m) \/ m \in pending[r]
        /\ Atomic(r)' <=> Atomic(r)
        /\ Escapes(r)' <=> Escapes(r)
    BY CommitFacts
  <1>3. /\ req'[r].pc = label /\ req'[r].outcome = outcome
        /\ req'[r].replayed = req[r].replayed
    BY DEF Answers
  <1> USE DEF Holds, Over, At, Leaves
  <1>4. PlaceInv(r)'
    BY <1>1, <1>2, <1>3 DEF PlaceInv, Working, Leaving
  <1>5. PendingInv(r)'
    BY <1>1, <1>2, <1>3 DEF PendingInv
  <1>6. StoredInv(r)'
    BY <1>1, <1>2, <1>3 DEF StoredInv, PendingInv, PlaceInv
  <1>7. AnswerInv(r)'
    BY <1>1, <1>2, <1>3 DEF AnswerInv, Leaving, Good
  <1>8. Connection(r)
    BY <1>1, <1>2, <1>3 DEF Connection, CommitWork
  <1> QED
    BY <1>2, <1>4, <1>5, <1>6, <1>7, <1>8, StepKeeps DEF RequestInv

\* It rolls back an error: nothing of the request is durable then.
LEMMA RollBackBoundaryKeeps ==
  ASSUME TypeOK, CrudInv, NEW r \in Request, Static, NEW label, Leaves(r, label),
         RollBack(r), NEW outcome, Answers(r, label, outcome), outcome \notin Good,
         req'[r].rollbackOnly = req[r].rollbackOnly, req'[r].broken = req[r].broken
  PROVE  TypeOK' /\ CrudInv'
  <1>1. /\ PlaceInv(r) /\ PendingInv(r) /\ StoredInv(r) /\ AnswerInv(r)
        /\ view[r].boundary = {"view"} => "middleware" \notin view[r].boundary
    BY RequestFacts
  <1>2. /\ Local(r) /\ Versions(r)
        /\ pending'[r] = {} /\ view'[r] = view[r]
        /\ Known(r)' <=> Known(r)
        /\ \A m : Stored(r, m)' <=> Stored(r, m)
        /\ Atomic(r)' <=> Atomic(r)
        /\ Escapes(r)' <=> Escapes(r)
    BY RollBackFacts
  <1>3. /\ req'[r].pc = label /\ req'[r].outcome = outcome
        /\ req'[r].replayed = req[r].replayed
    BY DEF Answers
  <1> USE DEF Holds, Over, At, Leaves
  <1>4. PlaceInv(r)'
    BY <1>1, <1>2, <1>3 DEF PlaceInv, Working, Leaving
  <1>5. PendingInv(r)'
    BY <1>1, <1>2, <1>3 DEF PendingInv
  <1>6. StoredInv(r)'
    BY <1>1, <1>2, <1>3 DEF StoredInv
  <1>7. AnswerInv(r)'
    BY <1>1, <1>2, <1>3 DEF AnswerInv, StoredInv, Leaving, Good
  <1>8. Connection(r)
    BY <1>1, <1>2, <1>3 DEF Connection, RollBack
  <1> QED
    BY <1>2, <1>4, <1>5, <1>6, <1>7, <1>8, StepKeeps DEF RequestInv

\* http_transaction is left, by whichever way.
LEMMA EndBoundaryKeeps ==
  ASSUME TypeOK, CrudInv, NEW r \in Request, NEW label, Leaves(r, label),
         EndBoundary(r, label)
  PROVE  TypeOK' /\ CrudInv'
  <1>1. Static /\ label \in Label /\ req[r].outcome \in Outcome
    BY RequestFacts DEF EndBoundary, Leaves, Label, Req
  <1>2. ASSUME NEW outcome \in Outcome,
               \/ Goto(r, label) /\ outcome = req[r].outcome
               \/ GotoWith(r, label, outcome)
        PROVE  /\ Answers(r, label, outcome)
               /\ req'[r].rollbackOnly = req[r].rollbackOnly
               /\ req'[r].broken = req[r].broken
    BY <1>1, <1>2, GotoReq DEF Answers
  <1>3. CASE req[r].outcome \in Good /\ ~req[r].rollbackOnly /\ CommitWork(r) /\ Goto(r, label)
    BY <1>1, <1>2, <1>3, CommitBoundaryKeeps
  <1>4. CASE req[r].outcome \in Good /\ ~req[r].rollbackOnly /\ CommitInDoubt(r, label)
    <2>1. /\ Answers(r, label, "failed")
          /\ req'[r].rollbackOnly = req[r].rollbackOnly
          /\ req'[r].broken = req[r].broken /\ req'[r].doubt
      BY <1>1, <1>4, InDoubtReq
    <2>2. CASE CommitWork(r)
      BY <1>1, <1>4, <2>1, <2>2, CommitBoundaryKeeps
    <2>3. CASE RollBack(r)
      BY <1>1, <2>1, <2>3, RollBackBoundaryKeeps DEF Good
    <2> QED
      BY <1>4, <2>2, <2>3 DEF CommitInDoubt
  <1>5. CASE RollBack(r) /\ GotoWith(r, label, "failed")
    <2>1. "failed" \in Outcome /\ "failed" \notin Good
      BY DEF Outcome, Good
    <2> QED
      BY <1>1, <1>2, <1>5, <2>1, RollBackBoundaryKeeps
  <1>6. CASE req[r].outcome \notin Good /\ RollBack(r) /\ Goto(r, label)
    BY <1>1, <1>2, <1>6, RollBackBoundaryKeeps
  <1> QED
    BY <1>3, <1>4, <1>5, <1>6 DEF EndBoundary

\* An error leaves the block.
LEMMA BlockFailsKeeps ==
  ASSUME TypeOK, CrudInv, NEW r \in Request, NEW outcome \in {"failed", "refused"},
         req[r].pc \in {"lookup", "write", "hook"}, Static, BlockFails(r, outcome)
  PROVE  TypeOK' /\ CrudInv'
  <1>1. CASE Atomic(r)
    BY <1>1, BlockFailsJoinedKeeps
  <1>2. CASE ~Atomic(r)
    <2>1. RollBack(r)
      BY <1>2 DEF BlockFails
    <2>2. Answers(r, "leave", outcome)
      BY BlockFailsReq
    <2> QED
      BY <1>2, <2>1, <2>2, RollBackBlockKeeps
  <1> QED
    BY <1>1, <1>2

\* The block ends with COMMIT, whose answer is lost or not.
LEMMA CloseKeeps ==
  ASSUME TypeOK, CrudInv, NEW r \in Request, CloseBlock(r) \/ BlockInDoubt(r)
  PROVE  TypeOK' /\ CrudInv'
  <1>1. Static /\ At(r, "commit") /\ req[r].outcome \in Outcome
    BY RequestFacts DEF CloseBlock, BlockInDoubt, Req
  <1>2. CASE CloseBlock(r) /\ Atomic(r)
    BY <1>2, CloseJoinedKeeps
  <1>3. CASE CloseBlock(r) /\ ~Atomic(r)
    <2>1. PICK label \in {"reply", "after"} :
            Goto(r, label) /\ (label = "reply" <=> req[r].replayed)
      BY <1>3 DEF CloseBlock
    <2>2. /\ Answers(r, label, req[r].outcome)
          /\ req'[r].rollbackOnly = req[r].rollbackOnly
          /\ req'[r].broken = req[r].broken
      BY <1>1, <2>1, GotoReq DEF Answers, Label
    <2>3. CommitWork(r)
      BY <1>3 DEF CloseBlock
    <2> QED
      BY <1>1, <1>3, <2>1, <2>2, <2>3, CommitBlockKeeps
  <1>4. CASE BlockInDoubt(r)
    <2>1. ~Atomic(r) /\ CommitInDoubt(r, "leave")
      BY <1>4 DEF BlockInDoubt
    <2>2. /\ Answers(r, "leave", "failed")
          /\ req'[r].rollbackOnly = req[r].rollbackOnly
          /\ req'[r].broken = req[r].broken
      BY <2>1, InDoubtReq DEF Label
    <2>3. CASE CommitWork(r)
      BY <1>1, <2>1, <2>2, <2>3, CommitBlockKeeps
    <2>4. CASE RollBack(r)
      BY <1>1, <2>1, <2>2, <2>4, RollBackBlockKeeps DEF At
    <2> QED
      BY <2>1, <2>3, <2>4 DEF CommitInDoubt
  <1> QED
    BY <1>2, <1>3, <1>4

(***************************************************************************)
(* Every step keeps the invariant.                                         *)
(***************************************************************************)

LEMMA CrudInit ==
  Init => TypeOK /\ CrudInv
  <1> SUFFICES ASSUME Init PROVE TypeOK /\ CrudInv
    OBVIOUS
  <1>1. ASSUME NEW r \in Request
        PROVE  /\ req[r] = [pc |-> IF Atomic(r) THEN "acquire" ELSE "load",
                            outcome |-> "success", replayed |-> FALSE,
                            rollbackOnly |-> FALSE, broken |-> FALSE, doubt |-> FALSE,
                            base |-> NoWriter]
               /\ pending[r] = {}
               /\ \A mark : ~Stored(r, mark)
    BY DEF Init, Stored
  <1>2. ASSUME NEW r \in Request
        PROVE  /\ req[r].pc = IF Atomic(r) THEN "acquire" ELSE "load"
               /\ req[r].outcome = "success" /\ ~req[r].replayed /\ ~req[r].broken
               /\ req[r].base = NoWriter /\ req[r] \in Req
    <2> DEFINE label == IF Atomic(r) THEN "acquire" ELSE "load"
    <2>1. req[r] = [pc |-> label, outcome |-> "success", replayed |-> FALSE,
                    rollbackOnly |-> FALSE, broken |-> FALSE, doubt |-> FALSE,
                    base |-> NoWriter]
      BY <1>1
    <2>2. label \in {"acquire", "load"}
      OBVIOUS
    <2> HIDE DEF label
    <2>3. req[r] \in Req
      BY <2>1, <2>2 DEF Req, Label, Outcome
    <2> QED
      BY <2>1, <2>3 DEF label
  <1>3. TypeOK
    <2>1. req \in [Request -> Req]
      BY <1>2 DEF Init
    <2> QED
      BY <2>1, ConstantsAssumption DEF TypeOK, Init
  <1>4. \A r \in Request : ~Holds(r)
    BY <1>2, <1>3, ViewFacts DEF Holds, At
  <1>5. PoolInv
    <2>1. Holders = {}
      BY <1>4 DEF Holders
    <2> QED
      BY <2>1, FS_EmptySet, ConstantsAssumption DEF PoolInv, Init
  <1>6. ASSUME NEW r \in Request
        PROVE  RequestInv(r) /\ VersionInv(r)
    <2> USE <1>1, <1>2 DEF At
    <2>1. PlaceInv(r)
      BY DEF PlaceInv, Working
    <2>2. PendingInv(r)
      BY DEF PendingInv
    <2>3. StoredInv(r)
      BY DEF StoredInv
    <2>4. AnswerInv(r)
      BY DEF AnswerInv, Leaving
    <2>5. VersionInv(r)
      BY DEF VersionInv
    <2> QED
      BY <2>1, <2>2, <2>3, <2>4, <2>5 DEF RequestInv
  <1>7. \A r \in Request : ~Claims(r) /\ "main" \notin pending[r] /\ ~Stored(r, "main")
    BY <1>1 DEF Claims
  <1>8. writer = NoWriter
    BY DEF Init
  <1> QED
    BY <1>3, <1>5, <1>6, <1>7, <1>8 DEF CrudInv, ClaimInv, GuardedNotLost

LEMMA CrudNext ==
  TypeOK /\ CrudInv /\ [Next]_vars => TypeOK' /\ CrudInv'
  <1> SUFFICES ASSUME TypeOK, CrudInv, [Next]_vars
               PROVE  TypeOK' /\ CrudInv'
    OBVIOUS
  <1>1. ASSUME NEW r \in Request, Step(r)
        PROVE  TypeOK' /\ CrudInv'
    <2>1. CASE Acquire(r) \/ Open(r)
      BY <2>1, TakeKeeps
    <2>2. CASE Load(r)
      BY <2>2, LoadKeeps
    <2>3. CASE Before(r) \/ After(r)
      BY <2>3, WriteInKeeps, WriteOutKeeps
    <2>4. CASE Lookup(r)
      BY <2>4, LookupKeeps
    <2>5. CASE Write(r)
      <3>1. CASE Known(r)
        BY <2>5, <3>1, BlockFailsKeeps DEF Write, At
      <3>2. CASE ~Known(r) /\ Update(r) /\ ~Matches(r)
        BY <2>5, <3>2, BlockFailsKeeps DEF Write, Update, At
      <3>3. CASE ~Known(r) /\ ~(Update(r) /\ ~Matches(r))
        BY <2>5, <3>3, WriteInKeeps
      <3> QED
        BY <3>1, <3>2, <3>3
    <2>6. CASE Hook(r)
      BY <2>6, WriteInKeeps
    <2>7. CASE HelperHook(r)
      BY <2>7, WriteOutKeeps DEF HelperHook
    <2>8. CASE CloseBlock(r)
      BY <2>8, CloseKeeps
    <2>9. CASE Reply(r)
      BY <2>9, ToLeaveKeeps
    <2>10. CASE LeaveView(r)
      <3>1. CASE view[r].boundary = {"view"}
        BY <2>10, <3>1, EndBoundaryKeeps DEF LeaveView, Leaves, Atomic
      <3>2. CASE view[r].boundary # {"view"}
        BY <2>10, <3>2, LeaveJoinedKeeps
      <3> QED
        BY <3>1, <3>2
    <2>11. CASE LeaveMiddlewares(r)
      BY <2>11, AnswerKeeps
    <2>12. CASE Respond(r)
      <3>1. CASE "middleware" \in view[r].boundary
        BY <2>12, <3>1, RequestFacts, EndBoundaryKeeps DEF Respond, Leaves
      <3>2. CASE "middleware" \notin view[r].boundary
        BY <2>12, <3>2, AnswerKeeps
      <3> QED
        BY <3>1, <3>2
    <2> QED
      BY <1>1, <2>1, <2>2, <2>3, <2>4, <2>5, <2>6, <2>7, <2>8, <2>9, <2>10, <2>11, <2>12
         DEF Step
  <1>2. ASSUME NEW r \in Request, Refuse(r) \/ NoUpdate(r) \/ Raise(r)
        PROVE  TypeOK' /\ CrudInv'
    BY <1>2, ToLeaveKeeps
  <1>3. ASSUME NEW r \in Request, BlockRaises(r)
        PROVE  TypeOK' /\ CrudInv'
    BY <1>3, BlockFailsKeeps DEF BlockRaises
  <1>4. ASSUME NEW r \in Request, Substitute(r)
        PROVE  TypeOK' /\ CrudInv'
    BY <1>4, AnswerKeeps
  <1>5. ASSUME NEW r \in Request, BlockInDoubt(r)
        PROVE  TypeOK' /\ CrudInv'
    BY <1>5, CloseKeeps
  <1>6. CASE UNCHANGED vars
    <2>1. TypeOK'
      BY <1>6 DEF TypeOK, vars
    <2>2. \A r \in Request : /\ RequestInv(r)' <=> RequestInv(r)
                             /\ VersionInv(r)' <=> VersionInv(r)
                             /\ Holds(r)' <=> Holds(r)
      BY <1>6 DEF vars, RequestInv, PlaceInv, PendingInv, StoredInv, AnswerInv, VersionInv,
                  Holds, Over, Atomic, Escapes, Known, Stored, At
    <2>3. \A r, q \in Request : ClaimInv(r, q)' <=> ClaimInv(r, q)
      BY <1>6 DEF vars, ClaimInv, Claims, Stored, Update
    <2>4. PoolInv'
      <3>1. Holders' = Holders
        BY <2>2 DEF Holders
      <3> QED
        BY <1>6, <3>1 DEF vars, CrudInv, PoolInv
    <2>5. GuardedNotLost' /\ (writer' # NoWriter => Stored(writer, "main")')
      BY <1>6 DEF vars, CrudInv, GuardedNotLost, Stored
    <2> QED
      BY <2>1, <2>2, <2>3, <2>4, <2>5 DEF CrudInv
  <1> QED
    BY <1>1, <1>2, <1>3, <1>4, <1>5, <1>6 DEF Next, Finished

(***************************************************************************)
(* The theorems.                                                           *)
(***************************************************************************)

\* Between any two steps of any number of requests, their places, open and durable
\* marks, versions and connections fit together.
THEOREM CrudInvariant == Spec => [](TypeOK /\ CrudInv)
  <1>1. TypeOK /\ CrudInv /\ [Next]_vars => TypeOK' /\ CrudInv'
    BY CrudNext
  <1> QED
    BY <1>1, CrudInit, PTL DEF Spec

\* Every variable keeps its type.
THEOREM TypeCorrect == Spec => []TypeOK
  BY CrudInvariant, PTL

\* What the hook in the transaction writes is committed with the insert or update or
\* not at all, under every boundary that the hook's statement is in.
THEOREM HookWithWriteHolds == Spec => []HookWithWrite
  <1>1. TypeOK /\ CrudInv => HookWithWrite
    BY DEF CrudInv, RequestInv, StoredInv, HookWithWrite
  <1> QED
    BY <1>1, CrudInvariant, PTL

\* An error that leaves the owner of the transaction leaves nothing durable, and one
\* that has left a block or a joined view leaves no insert or update.
THEOREM FailureLeavesNothingHolds == Spec => []FailureLeavesNothing
  <1>1. TypeOK /\ CrudInv => FailureLeavesNothing
    BY DEF CrudInv, RequestInv, StoredInv, AnswerInv, FailureLeavesNothing
  <1> QED
    BY <1>1, CrudInvariant, PTL

\* 200 and 201 are answered only if the command is in the database.
THEOREM SuccessIsStoredHolds == Spec => []SuccessIsStored
  <1>1. TypeOK /\ CrudInv => SuccessIsStored
    <2> SUFFICES ASSUME TypeOK, CrudInv, NEW r \in Request,
                        At(r, "done"), req[r].outcome = "success"
                 PROVE  Known(r)
      BY DEF SuccessIsStored
    <2>1. PendingInv(r) /\ AnswerInv(r)
      BY DEF CrudInv, RequestInv
    <2>2. ~Holds(r)
      BY ViewFacts DEF Holds, Over, At
    <2> QED
      BY <2>1, <2>2 DEF PendingInv, AnswerInv, Leaving, At
  <1> QED
    BY <1>1, CrudInvariant, PTL

\* However many requests carry a command, it is applied once, and the hooks after the
\* write run for the request that applied it.
THEOREM AppliedOnceHolds == Spec => []AppliedOnce
  <1>1. TypeOK /\ CrudInv => AppliedOnce
    BY DEF CrudInv, RequestInv, StoredInv, ClaimInv, Claims, AppliedOnce
  <1> QED
    BY <1>1, CrudInvariant, PTL

\* Of the updates that name the version they read, one per version takes effect.
THEOREM GuardedNotLostHolds == Spec => []GuardedNotLost
  <1>1. TypeOK /\ CrudInv => GuardedNotLost
    BY DEF CrudInv
  <1> QED
    BY <1>1, CrudInvariant, PTL

\* When every request is answered the pool has all of its connections again.
THEOREM ConnectionsReturnedHolds == Spec => []ConnectionsReturned
  <1>1. TypeOK /\ CrudInv => ConnectionsReturned
    <2> SUFFICES ASSUME TypeOK, CrudInv, Answered PROVE free = PoolSize
      BY DEF ConnectionsReturned
    <2>1. \A r \in Request : ~Holds(r)
      BY ViewFacts DEF Answered, Holds, Over, At
    <2>2. Holders = {}
      BY <2>1 DEF Holders
    <2> QED
      BY <2>2, FS_EmptySet, ConstantsAssumption DEF CrudInv, PoolInv, TypeOK
  <1> QED
    BY <1>1, CrudInvariant, PTL

\* The pool never lends more connections than it has, and has all of them in the end.
THEOREM CommandsReturnHolds == Spec => []CommandsReturn
  <1>1. TypeOK /\ ConnectionsReturned => CommandsReturn
    BY DEF CommandsReturn
  <1> QED
    BY <1>1, TypeCorrect, ConnectionsReturnedHolds, PTL

================================================================================
