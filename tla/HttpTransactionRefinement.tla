----------------------- MODULE HttpTransactionRefinement ----------------------
(* The action properties of HttpTransaction, and that it implements AtomicRequest. *)
EXTENDS HttpTransactionProofs

(***************************************************************************)
(* What a step may add to a connection.                                    *)
(***************************************************************************)

Shrinks == \A c \in Connection : session'[c].pending \subseteq session[c].pending

LEMMA SetShrinks ==
  ASSUME TypeOK, NEW r \in Request, scope[r].conn \in Connection,
         NEW s, s.pending \subseteq Sess(r).pending, SetSession(r, s)
  PROVE  Shrinks
  BY DEF TypeOK, SetSession, Sess, Shrinks

LEMMA FinallyShrinks ==
  ASSUME TypeOK, NEW r \in Request, scope[r].conn \in Connection,
         NEW s \in Session, s.pending \subseteq Sess(r).pending, Finally(r, s)
  PROVE  Shrinks
  <1> DEFINE t == [s EXCEPT !.state = "returning"]
  <1>1. t.pending = s.pending
    BY DEF Session
  <1>2. SetSession(r, t)
    BY DEF Finally
  <1> HIDE DEF t
  <1> QED
    BY <1>1, <1>2, SetShrinks

LEMMA OwnerShrinks ==
  ASSUME TypeInv, SafetyInv, NEW r \in Request, OwnerStep(r) \/ Interrupted(r)
  PROVE  Shrinks
  <1> USE DEF dbVars
  <1>0. TypeOK
    BY DEF TypeInv
  <1>1. CASE \/ HandlerSucceeds(r) \/ HandlerRefused(r) \/ HandlerFails(r)
             \/ ProbeReturns(r) \/ ProbeFails(r) \/ ReleaseReturns(r)
             \/ CallbackRuns(r) \/ CallbackFails(r) \/ CallbacksEnd(r) \/ Interrupted(r)
    <2>1. session' = session
      BY <1>1
         DEF HandlerSucceeds, HandlerRefused, HandlerFails, HandlerEnds, ProbeReturns,
             ProbeFails, ReleaseReturns, CallbackRuns, CallbackFails, NextCallback,
             CallbacksEnd, Interrupted, AcquireFails, ReleaseRaises
    <2> QED
      BY <2>1 DEF Shrinks
  <1>2. CASE Acquire(r)
    <2>1. PICK c \in Connection :
            session' = [session EXCEPT ![c].holder = r, ![c].state = "held"]
      BY <1>2 DEF Acquire
    <2>2. session'[c].pending = session[c].pending
      BY <1>0, <2>1 DEF TypeOK, Session
    <2>3. \A d \in Connection \ {c} : session'[d] = session[d]
      BY <1>0, <2>1 DEF TypeOK
    <2> QED
      BY <2>2, <2>3 DEF Shrinks
  <1>3. CASE \/ StartReturns(r) \/ StartFails(r) \/ CommitReturns(r) \/ CommitFails(r)
             \/ CommitInterrupted(r) \/ RollbackReturns(r) \/ RollbackFails(r)
    <2>1. Owning(r)
      BY <1>3 DEF StartReturns, StartFails, CommitReturns, CommitFails, CommitInterrupted,
                  RollbackReturns, RollbackFails, Owning
    <2>2. scope[r].conn \in Connection /\ Sess(r) \in Session
      BY <2>1, HeldSession
    <2>3. \A tx \in {"idle", "open", "aborted", "indoubt"} :
            LET s == [Sess(r) EXCEPT !.tx = tx]
            IN  s \in Session /\ s.pending = Sess(r).pending
      BY <2>2 DEF Session
    <2>4. Ended(Sess(r)) \in Session /\ Ended(Sess(r)).pending \subseteq Sess(r).pending
      BY <2>2 DEF Session, Ended
    <2>5. CASE StartReturns(r)
      BY <1>0, <2>2, <2>3, <2>5, SetShrinks DEF StartReturns
    <2>6. CASE StartFails(r)
      BY <1>0, <2>2, <2>3, <2>6, FinallyShrinks DEF StartFails
    <2>7. CASE CommitInterrupted(r)
      BY <1>0, <2>2, <2>3, <2>7, FinallyShrinks DEF CommitInterrupted
    <2>8. CASE CommitReturns(r) \/ CommitFails(r) \/ RollbackReturns(r)
      BY <1>0, <2>2, <2>4, <2>8, FinallyShrinks DEF CommitReturns, CommitFails, RollbackReturns
    <2>9. CASE RollbackFails(r)
      BY <1>0, <2>2, <2>9, FinallyShrinks DEF RollbackFails
    <2> QED
      BY <1>3, <2>5, <2>6, <2>7, <2>8, <2>9
  <1> QED
    BY <1>1, <1>2, <1>3 DEF OwnerStep

LEMMA HandlerShrinks ==
  ASSUME TypeInv, SafetyInv, NEW r \in Request, HandlerStep(r)
  PROVE  Shrinks
  <1> USE DEF dbVars
  <1>0. pc[r] = "handler"
    BY DEF HandlerStep, SpawnChild, ExecuteFails, Catch, Raise, EnterJoined, LeaveJoined,
           LeaveViewFailed, UnwindJoined, UnwindRedirect, EnterSavepoint, EnterSavepointFails,
           LeaveSavepoint, LeaveSavepointFails, UnwindSavepoint, UnwindSavepointFails, InHandler
  <1>1. /\ TypeOK /\ scope[r].conn \in Connection /\ Sess(r) \in Session
        /\ Sess(r).tx \in {"open", "aborted"} /\ stack[r] \in Seq(Frame) /\ FrameInv(r)
    BY <1>0, HandlerFacts
  <1>2. \A tx \in {"idle", "open", "aborted", "indoubt"} :
          [Sess(r) EXCEPT !.tx = tx].pending = Sess(r).pending
    BY <1>1 DEF Session
  <1>3. CASE \/ ExecuteFails(r) \/ EnterSavepointFails(r) \/ LeaveSavepointFails(r)
    <2>1. \E tx \in {"open", "aborted"} : SetSession(r, [Sess(r) EXCEPT !.tx = tx])
      BY <1>1, <1>3 DEF ExecuteFails, EnterSavepointFails, LeaveSavepointFails
    <2> QED
      BY <1>1, <1>2, <2>1, SetShrinks
  <1>4. CASE UnwindSavepoint(r) \/ UnwindSavepointFails(r)
    <2>1. stack[r] # <<>> /\ Pop(r)
      BY <1>4 DEF UnwindSavepoint, UnwindSavepointFails, Inside
    <2>2. Len(stack[r]) \in 1 .. Len(stack[r]) /\ Top(r) = stack[r][Len(stack[r])]
      BY <1>1, <2>1, PopType
    <2>3. Top(r).pending \subseteq Sess(r).pending
      BY <1>1, <2>2 DEF FrameInv
    <2>4. ToSavepoint(r).pending \subseteq Sess(r).pending
      BY <1>1, <2>3 DEF ToSavepoint, Session
    <2>5. \E s \in {Sess(r), ToSavepoint(r)} : SetSession(r, s)
      BY <1>4 DEF UnwindSavepoint, UnwindSavepointFails
    <2> QED
      BY <1>1, <2>4, <2>5, SetShrinks
  <1>5. CASE \/ SpawnChild(r) \/ Catch(r)
             \/ \E kind \in {"error", "redirect"} : Raise(r, kind)
             \/ \E kind \in Joined : EnterJoined(r, kind)
             \/ LeaveJoined(r) \/ LeaveViewFailed(r) \/ UnwindJoined(r) \/ UnwindRedirect(r)
             \/ EnterSavepoint(r) \/ LeaveSavepoint(r)
    <2>1. session' = session
      BY <1>5 DEF SpawnChild, Catch, Raise, EnterJoined, LeaveJoined, LeaveViewFailed,
                  UnwindJoined, UnwindRedirect, EnterSavepoint, LeaveSavepoint
    <2> QED
      BY <2>1 DEF Shrinks
  <1> QED
    BY <1>3, <1>4, <1>5 DEF HandlerStep

\* A statement is executed by the owner's own task, in its handler.
LEMMA ExecuteAdds ==
  ASSUME TypeInv, SafetyInv, NEW r \in Request, NEW role \in Role, Execute(r, role)
  PROVE  /\ pc[r] = "handler"
         /\ <<r, steps'[r]>> \in Writes(r)
         /\ \A c \in Connection :
              session'[c].pending \subseteq session[c].pending \cup {<<r, steps'[r]>>}
  <1>1. RequestInv(r) /\ TypeOK
    BY DEF SafetyInv, TypeInv
  <1>2. pc[r] = "handler"
    BY <1>1 DEF Execute, Running, CurrentScope, RequestInv, LifecycleInv
  <1>3. scope[r].conn \in Connection /\ Sess(r) \in Session /\ steps[r] \in Nat
    BY <1>2, HandlerFacts
  <1>4. steps'[r] = steps[r] + 1 /\ steps[r] < Budget[r] /\ Budget[r] \in Nat
    BY <1>1, StepOthers, ConstantsAssumption DEF Execute, Step
  <1>5. steps'[r] \in 1 .. Budget[r]
    BY <1>3, <1>4
  <1> DEFINE s == [Sess(r) EXCEPT !.pending = @ \cup {<<r, steps'[r]>>}]
  <1>6. SetSession(r, s)
    BY DEF Execute
  <1>7. s.pending = Sess(r).pending \cup {<<r, steps'[r]>>}
    BY <1>3 DEF Session
  <1> HIDE DEF s
  <1>8. \A c \in Connection :
          session'[c].pending \subseteq session[c].pending \cup {<<r, steps'[r]>>}
    BY <1>1, <1>3, <1>6, <1>7 DEF SetSession, TypeOK, Sess
  <1> QED
    BY <1>2, <1>5, <1>8 DEF Writes

LEMMA PoolShrinks ==
  ASSUME TypeInv, NEW c \in Connection, ServerCommits(c) \/ PoolResets(c)
  PROVE  Shrinks
  <1>1. session[c] \in Session /\ session \in [Connection -> Session]
    BY DEF TypeInv, TypeOK
  <1>2. Ended(session[c]).pending = {} /\ FreeSession.pending = {}
    BY <1>1 DEF Ended, Session, FreeSession
  <1>3. session' \in {[session EXCEPT ![c] = Ended(session[c])], [session EXCEPT ![c] = FreeSession]}
    BY DEF ServerCommits, PoolResets
  <1> QED
    BY <1>1, <1>2, <1>3 DEF Shrinks

\* Only a handler's own statement adds to what a connection carries.
LEMMA PendingStep ==
  ASSUME TypeInv, SafetyInv, [Next]_vars
  PROVE  \/ Shrinks
         \/ \E r \in Request :
              /\ pc[r] = "handler" /\ \E role \in Role : Execute(r, role)
              /\ <<r, steps'[r]>> \in Writes(r)
              /\ \A c \in Connection :
                   session'[c].pending \subseteq session[c].pending \cup {<<r, steps'[r]>>}
  <1>1. CASE UNCHANGED vars
    BY <1>1 DEF vars, dbVars, Shrinks
  <1>2. ASSUME NEW r \in Request, TaskStep(r)
        PROVE  \/ Shrinks
               \/ /\ pc[r] = "handler" /\ \E role \in Role : Execute(r, role)
                  /\ <<r, steps'[r]>> \in Writes(r)
                  /\ \A c \in Connection :
                       session'[c].pending \subseteq session[c].pending \cup {<<r, steps'[r]>>}
    <2>1. PICK role \in Role :
            \/ Execute(r, role)
            \/ \E w \in Writes(r) : OnCommit(r, role, w)
            \/ PrepareRefused(r, role) \/ PrepareAllowed(r, role)
      BY <1>2 DEF TaskStep
    <2>2. CASE ~Execute(r, role)
      <3>1. session' = session
        BY <2>1, <2>2 DEF OnCommit, PrepareRefused, PrepareAllowed, dbVars
      <3> QED
        BY <3>1 DEF Shrinks
    <2> QED
      BY <2>2, ExecuteAdds
  <1> QED
    BY <1>1, <1>2, OwnerShrinks, HandlerShrinks, PoolShrinks DEF Next, Finished

\* Work enters a transaction only from its handler.
THEOREM NoWriteAfterHandlerHolds == Spec => NoWriteAfterHandler
  <1>1. ASSUME TypeInv, SafetyInv, [Next]_vars, NEW q \in Request,
               ~(Writes(q) \cap UNION {session'[c].pending : c \in Connection}
                   \subseteq UNION {session[c].pending : c \in Connection})
        PROVE  pc[q] = "handler"
    <2>1. PICK w \in Writes(q), c \in Connection :
            w \in session'[c].pending /\ w \notin session[c].pending
      BY <1>1
    <2>2. PICK r \in Request : pc[r] = "handler" /\ w = <<r, steps'[r]>>
      BY <1>1, <2>1, PendingStep DEF Shrinks
    <2>3. q = r
      BY <2>1, <2>2 DEF Writes
    <2> QED
      BY <2>2, <2>3
  <1>2. TypeInv /\ SafetyInv /\ [Next]_vars =>
          [\A r \in Request :
             ~(Writes(r) \cap UNION {session'[c].pending : c \in Connection}
                 \subseteq UNION {session[c].pending : c \in Connection})
             => pc[r] = "handler"]_vars
    BY <1>1
  <1> QED
    BY <1>2, TypeCorrect, Safety, PTL DEF Spec, NoWriteAfterHandler

(***************************************************************************)
(* The request's progress.                                                 *)
(***************************************************************************)

LEMMA ProgressKept ==
  ASSUME NEW q \in Request, RequestProgress(q),
         pc'[q] = pc[q], reply'[q] = reply[q], sent'[q] = sent[q],
         child'[q] => child[q] \/ pc[q] # "acquire",
         published' \cap Own(q) = published \cap Own(q),
         \A i \in 1 .. Len(scope'[q].callbacks) : scope'[q].callbacks[i] \in Writes(q)
  PROVE  RequestProgress(q)'
  BY DEF RequestProgress, Own, Writes

LEMMA CallbacksKept ==
  ASSUME NEW q \in Request, RequestProgress(q), scope'[q].callbacks = scope[q].callbacks
  PROVE  \A i \in 1 .. Len(scope'[q].callbacks) : scope'[q].callbacks[i] \in Writes(q)
  BY DEF RequestProgress

\* How an owner moves on.
OwnerMoves(r) ==
  /\ child' = child /\ sent' = sent
  /\ \A q \in Request : scope'[q].callbacks = scope[q].callbacks
  /\ \A q \in Request \ {r} : pc'[q] = pc[q] /\ reply'[q] = reply[q]
  /\ pc'[r] # "acquire"
  /\ pc'[r] # "done" => reply'[r] = reply[r]
  /\ pc[r] # "done"
  /\ pc[r] = "release" => pc'[r] \in {"callbacks", "done"}
  /\ pc[r] = "callbacks" => pc'[r] \in {"callbacks", "done"}
  /\ \/ published' = published
     \/ /\ pc[r] = "callbacks" /\ cursor[r] + 1 \in 1 .. Len(scope[r].callbacks)
        /\ published' = published \cup {scope[r].callbacks[cursor[r] + 1]}

LEMMA OwnerMovesOn ==
  ASSUME TypeInv, SafetyInv, NEW r \in Request, OwnerStep(r) \/ Interrupted(r)
  PROVE  OwnerMoves(r)
  <1> USE DEF ownerVars, handlerVars, dbVars, historyVars
  <1>0. TypeOK
    BY DEF TypeInv
  <1>1. CASE Acquire(r)
    <2>1. PICK c \in Connection :
            scope' = [scope EXCEPT ![r].conn = c, ![r].lifecycle = "active"]
      BY <1>1 DEF Acquire
    <2>2. \A q \in Request : scope'[q].callbacks = scope[q].callbacks
      BY <1>0, <2>1 DEF TypeOK, TransactionScope
    <2>3. pc'[r] = "start" /\ \A q \in Request \ {r} : pc'[q] = pc[q]
      BY <1>0, <1>1, GotoType DEF Acquire, Label
    <2> QED
      BY <1>1, <2>2, <2>3 DEF Acquire, OwnerMoves
  <1>2. CASE AcquireFails(r) \/ ReleaseRaises(r) \/ (ReleaseReturns(r) /\ ~committed[r])
    <2>1. /\ pc[r] \in {"acquire", "release"} /\ Goto(r, "done")
          /\ reply' = [reply EXCEPT ![r] = "error"]
          /\ UNCHANGED <<child, sent, scope, published>>
      BY <1>2 DEF AcquireFails, ReleaseRaises, ReleaseReturns
    <2>2. pc'[r] = "done" /\ \A q \in Request \ {r} : pc'[q] = pc[q]
      BY <1>0, <2>1, GotoType DEF Label
    <2> QED
      BY <1>0, <2>1, <2>2 DEF TypeOK, OwnerMoves
  <1>3. CASE \/ StartReturns(r) \/ HandlerSucceeds(r) \/ HandlerRefused(r) \/ HandlerFails(r)
             \/ ProbeFails(r)
    <2>1. /\ pc[r] \in {"start", "handler", "probe"}
          /\ \E l \in {"handler", "probe", "rollback"} : Goto(r, l)
          /\ UNCHANGED <<child, sent, scope, published, reply>>
      BY <1>3 DEF StartReturns, HandlerSucceeds, HandlerRefused, HandlerFails, HandlerEnds,
                  ProbeFails
    <2>2. pc'[r] \in {"handler", "probe", "rollback"} /\ \A q \in Request \ {r} : pc'[q] = pc[q]
      BY <1>0, <2>1, GotoType DEF Label
    <2> QED
      BY <2>1, <2>2 DEF OwnerMoves
  <1>4. CASE \/ StartFails(r) \/ CommitReturns(r) \/ CommitFails(r) \/ CommitInterrupted(r)
             \/ RollbackReturns(r) \/ RollbackFails(r)
             \/ ProbeReturns(r) \/ (ReleaseReturns(r) /\ committed[r])
    <2>1. /\ pc[r] \in {"start", "probe", "commit", "rollback", "release"}
          /\ \E l \in Lifecycle : scope' = [scope EXCEPT ![r].lifecycle = l]
          /\ \E l \in {"commit", "release", "callbacks"} :
               Goto(r, l) /\ (pc[r] = "release" => l = "callbacks")
          /\ UNCHANGED <<child, sent, published, reply>>
      BY <1>4 DEF StartFails, CommitReturns, CommitFails, CommitInterrupted, RollbackReturns,
                  RollbackFails, Finally, ProbeReturns, ReleaseReturns, Lifecycle
    <2>2. \A q \in Request : scope'[q].callbacks = scope[q].callbacks
      BY <1>0, <2>1, LifecycleType
    <2>3. /\ pc'[r] \in {"commit", "release", "callbacks"}
          /\ pc[r] = "release" => pc'[r] = "callbacks"
          /\ \A q \in Request \ {r} : pc'[q] = pc[q]
      BY <1>0, <2>1, GotoType DEF Label
    <2> QED
      BY <2>1, <2>2, <2>3 DEF OwnerMoves
  <1>5. CASE CallbacksEnd(r)
    <2>1. \A q \in Request : scope'[q].callbacks = scope[q].callbacks
      BY <1>0, <1>5, LifecycleType DEF CallbacksEnd, Lifecycle
    <2>2. pc'[r] = "done" /\ \A q \in Request \ {r} : pc'[q] = pc[q]
      BY <1>0, <1>5, GotoType DEF CallbacksEnd, Label
    <2> QED
      BY <1>0, <1>5, <2>1, <2>2 DEF CallbacksEnd, TypeOK, OwnerMoves
  <1>6. CASE CallbackRuns(r) \/ CallbackFails(r)
    <2>1. /\ pc[r] = "callbacks" /\ cursor[r] < Len(scope[r].callbacks)
          /\ UNCHANGED <<child, sent, scope, reply, pc>>
          /\ \/ published' = published
             \/ published' = published \cup {scope[r].callbacks[cursor[r] + 1]}
      BY <1>6 DEF CallbackRuns, CallbackFails, NextCallback
    <2>2. cursor[r] \in Nat /\ scope[r].callbacks \in Seq(Write)
      BY <1>0 DEF TypeOK, TransactionScope
    <2>3. cursor[r] + 1 \in 1 .. Len(scope[r].callbacks)
      BY <2>1, <2>2
    <2> QED
      BY <2>1, <2>3 DEF OwnerMoves
  <1> QED
    BY <1>1, <1>2, <1>3, <1>4, <1>5, <1>6 DEF OwnerStep, Interrupted

LEMMA OwnerProgress ==
  ASSUME TypeInv, SafetyInv, ProgressInv, NEW r \in Request, OwnerMoves(r),
         NEW q \in Request
  PROVE  RequestProgress(q)'
  <1>1. RequestProgress(q) /\ RequestProgress(r)
    BY DEF ProgressInv
  <1>2. \A i \in 1 .. Len(scope'[q].callbacks) : scope'[q].callbacks[i] \in Writes(q)
    BY <1>1, CallbacksKept DEF OwnerMoves
  <1>3. \/ published' = published
        \/ /\ pc[r] = "callbacks"
           /\ \E w \in Writes(r) : published' = published \cup {w}
    BY <1>1 DEF OwnerMoves, RequestProgress
  <1>4. CASE q # r
    <2>1. \A w \in Writes(r) : w \notin Own(q)
      BY <1>4 DEF Writes, Own
    <2> QED
      BY <1>1, <1>2, <1>3, <1>4, <2>1, ProgressKept DEF OwnerMoves
  <1>5. CASE q = r
    <2>1. /\ pc'[r] # "done" => reply'[r] = "none"
          /\ child'[r] => pc'[r] # "acquire"
          /\ sent'[r] => pc'[r] \in {"release", "callbacks", "done"}
      BY <1>1 DEF OwnerMoves, RequestProgress
    <2>2. published' \cap Own(r) # {} => pc'[r] \in {"callbacks", "done"}
      BY <1>1, <1>3 DEF OwnerMoves, RequestProgress
    <2> QED
      BY <1>2, <1>5, <2>1, <2>2 DEF RequestProgress, Own, Writes
  <1> QED
    BY <1>4, <1>5

LEMMA HandlerProgress ==
  ASSUME TypeInv, SafetyInv, ProgressInv, NEW r \in Request, HandlerStep(r), NEW q \in Request
  PROVE  RequestProgress(q)'
  <1> USE DEF ownerVars, handlerVars, dbVars, historyVars
  <1>0. TypeOK /\ RequestProgress(q)
    BY DEF TypeInv, ProgressInv
  <1>1. /\ pc[r] = "handler"
        /\ UNCHANGED <<pc, reply, sent, published>>
        /\ child' = child \/ SpawnChild(r)
    BY DEF HandlerStep, SpawnChild, ExecuteFails, Catch, Raise, EnterJoined, LeaveJoined,
           LeaveViewFailed, UnwindJoined, UnwindRedirect, EnterSavepoint, EnterSavepointFails,
           LeaveSavepoint, LeaveSavepointFails, UnwindSavepoint, UnwindSavepointFails, InHandler
  <1>2. child'[q] => child[q] \/ pc[q] # "acquire"
    BY <1>0, <1>1 DEF SpawnChild, TypeOK
  <1>3. \A i \in 1 .. Len(scope'[q].callbacks) : scope'[q].callbacks[i] \in Writes(q)
    <2>1. CASE UnwindSavepoint(r)
      <3>1. CASE q = r
        <4>1. /\ Len(scope'[r].callbacks) = Top(r).mark
              /\ Top(r).mark <= Len(scope[r].callbacks)
              /\ \A i \in 1 .. Top(r).mark : scope'[r].callbacks[i] = scope[r].callbacks[i]
          BY <2>1, UnwindScope
        <4>2. Len(scope[r].callbacks) \in Nat
          BY <1>0 DEF TypeOK, TransactionScope
        <4>3. Top(r).mark \in Nat
          <5>1. stack[r] # <<>> /\ Pop(r)
            BY <2>1 DEF UnwindSavepoint, Inside
          <5> QED
            BY <1>0, <5>1, PopType DEF Frame
        <4>4. \A i \in 1 .. Top(r).mark : i \in 1 .. Len(scope[r].callbacks)
          BY <4>1, <4>2, <4>3
        <4> QED
          BY <1>0, <3>1, <4>1, <4>4 DEF RequestProgress
      <3>2. CASE q # r
        BY <1>0, <2>1, <3>2, UnwindScope, CallbacksKept
      <3> QED
        BY <3>1, <3>2
    <2>2. CASE ~UnwindSavepoint(r)
      <3>1. scope' = scope \/ RollbackOnly(r)
        BY <2>2
           DEF HandlerStep, SpawnChild, ExecuteFails, Catch, Raise, EnterJoined, LeaveJoined,
               LeaveViewFailed, UnwindJoined, UnwindRedirect, EnterSavepoint,
               EnterSavepointFails, LeaveSavepoint, LeaveSavepointFails, UnwindSavepointFails
      <3>2. scope'[q].callbacks = scope[q].callbacks
        BY <1>0, <3>1, RollbackOnlyType
      <3> QED
        BY <1>0, <3>2, CallbacksKept
    <2> QED
      BY <2>1, <2>2
  <1> QED
    BY <1>0, <1>1, <1>2, <1>3, ProgressKept

LEMMA TaskProgress ==
  ASSUME TypeInv, SafetyInv, ProgressInv, NEW r \in Request, TaskStep(r), NEW q \in Request
  PROVE  RequestProgress(q)'
  <1> USE DEF ownerVars, handlerVars, dbVars, historyVars
  <1>0. TypeOK /\ RequestProgress(q) /\ RequestProgress(r) /\ RequestInv(r)
    BY DEF TypeInv, ProgressInv, SafetyInv
  <1>1. PICK role \in Role :
          \/ Execute(r, role)
          \/ \E w \in Writes(r) : OnCommit(r, role, w)
          \/ PrepareRefused(r, role) \/ PrepareAllowed(r, role)
    BY DEF TaskStep
  <1>2. UNCHANGED <<pc, reply, published, child>>
    BY <1>1 DEF Execute, OnCommit, PrepareRefused, PrepareAllowed
  <1>3. \A i \in 1 .. Len(scope'[q].callbacks) : scope'[q].callbacks[i] \in Writes(q)
    <2>1. CASE \E w \in Writes(r) : OnCommit(r, role, w)
      <3>1. PICK w \in Writes(r) : OnCommit(r, role, w)
        BY <2>1
      <3>2. /\ \A p \in Request \ {r} : scope'[p] = scope[p]
            /\ Len(scope'[r].callbacks) = Len(scope[r].callbacks) + 1
            /\ Len(scope[r].callbacks) \in Nat
            /\ \A i \in 1 .. Len(scope[r].callbacks) :
                 scope'[r].callbacks[i] = scope[r].callbacks[i]
            /\ scope'[r].callbacks[Len(scope[r].callbacks) + 1] = w
        BY <3>1, OnCommitScope
      <3>3. \A i \in 1 .. Len(scope'[r].callbacks) :
              i \in 1 .. Len(scope[r].callbacks) \/ i = Len(scope[r].callbacks) + 1
        BY <3>2
      <3>4. CASE q = r
        BY <1>0, <3>2, <3>3, <3>4 DEF RequestProgress
      <3>5. CASE q # r
        BY <1>0, <3>2, <3>5, CallbacksKept
      <3> QED
        BY <3>4, <3>5
    <2>2. CASE PrepareRefused(r, role)
      <3> DEFINE s == [scope[r] EXCEPT !.rollbackOnly = TRUE, !.violation = TRUE]
      <3>1. scope[r] \in TransactionScope
        BY <1>0 DEF TypeOK
      <3>2. s \in TransactionScope
        BY <3>1, ScopeEdits
      <3>3. s.callbacks = scope[r].callbacks
        BY <3>1, <3>2 DEF TransactionScope
      <3>4. scope' = [scope EXCEPT ![r] = s]
        BY <2>2 DEF PrepareRefused
      <3> HIDE DEF s
      <3>5. scope'[q].callbacks = scope[q].callbacks
        BY <1>0, <3>2, <3>3, <3>4, ScopeUpdate
      <3> QED
        BY <1>0, <3>5, CallbacksKept
    <2>3. CASE Execute(r, role) \/ PrepareAllowed(r, role)
      BY <1>0, <2>3, CallbacksKept DEF Execute, PrepareAllowed
    <2> QED
      BY <1>1, <2>1, <2>2, <2>3
  <1>4. CASE PrepareAllowed(r, role)
    <2>1. pc[r] \in Label /\ sent' = [sent EXCEPT ![r] = TRUE] /\ sent \in [Request -> BOOLEAN]
      BY <1>0, <1>4 DEF TypeOK, PrepareAllowed
    <2>2. pc[r] \in {"release", "callbacks", "done"}
      <3>1. scope[r].lifecycle \notin {"active", "finishing"}
        BY <1>4 DEF PrepareAllowed, Protected
      <3>2. pc[r] # "acquire"
        BY <1>0, <1>4 DEF PrepareAllowed, Running, RequestProgress
      <3> QED
        BY <1>0, <2>1, <3>1, <3>2 DEF RequestInv, LifecycleInv, Label
    <2>3. sent'[q] => pc'[q] \in {"release", "callbacks", "done"}
      BY <1>0, <1>2, <2>1, <2>2 DEF RequestProgress
    <2> QED
      BY <1>0, <1>2, <1>3, <2>3 DEF RequestProgress, Own, Writes
  <1>5. CASE ~PrepareAllowed(r, role)
    <2>1. sent' = sent
      BY <1>1, <1>5 DEF Execute, OnCommit, PrepareRefused
    <2> QED
      BY <1>0, <1>2, <1>3, <2>1, ProgressKept
  <1> QED
    BY <1>4, <1>5

LEMMA PoolProgress ==
  ASSUME ProgressInv, NEW c \in Connection, ServerCommits(c) \/ PoolResets(c), NEW q \in Request
  PROVE  RequestProgress(q)'
  BY DEF ProgressInv, ServerCommits, PoolResets, ownerVars, handlerVars, RequestProgress,
         Own, Writes

LEMMA ProgressInit == Init => ProgressInv
  <1> SUFFICES ASSUME Init PROVE ProgressInv
    OBVIOUS
  <1>1. \A r \in Request : RequestProgress(r)
    BY DEF Init, RequestProgress
  <1>2. \A c \in Connection : SessionProgress(c)
    BY DEF Init, SessionProgress, FreeSession
  <1> QED
    BY <1>1, <1>2 DEF ProgressInv

LEMMA ProgressStep == TypeInv /\ SafetyInv /\ ProgressInv /\ [Next]_vars => ProgressInv'
  <1> SUFFICES ASSUME TypeInv, SafetyInv, ProgressInv, [Next]_vars PROVE ProgressInv'
    OBVIOUS
  <1>1. ASSUME NEW q \in Request PROVE RequestProgress(q)'
    <2>1. CASE UNCHANGED vars
      BY <1>1, <2>1 DEF vars, ownerVars, handlerVars, ProgressInv, RequestProgress, Own, Writes
    <2>2. CASE Next
      BY <1>1, <2>1, <2>2, OwnerMovesOn, OwnerProgress, HandlerProgress, TaskProgress,
         PoolProgress
         DEF Next, Finished
    <2> QED
      BY <2>1, <2>2
  <1>2. ASSUME NEW c \in Connection PROVE SessionProgress(c)'
    <2>1. SessionProgress(c)
      BY <1>2 DEF ProgressInv
    <2>2. ASSUME NEW w \in session'[c].pending, w \notin session[c].pending
          PROVE  w \in Writes(w[1])
      <3>1. PICK r \in Request : w = <<r, steps'[r]>> /\ w \in Writes(r)
        BY <1>2, <2>2, PendingStep DEF Shrinks
      <3> QED
        BY <3>1
    <2> QED
      BY <2>1, <2>2 DEF SessionProgress, Writes
  <1> QED
    BY <1>1, <1>2 DEF ProgressInv

\* Every request makes its steps in the order its outcome relies on.
THEOREM Progress == Spec => []ProgressInv
  BY TypeCorrect, Safety, ProgressInit, ProgressStep, PTL DEF Spec

(***************************************************************************)
(* The outcome.                                                            *)
(***************************************************************************)

\* What becomes durable is what one COMMIT carries: the owner's, or one that it
\* no longer waits for.
LEMMA DurableStep ==
  ASSUME [Next]_vars
  PROVE  \/ durable' = durable
         \/ \E r \in Request : CommitReturns(r)
         \/ \E c \in Connection : ServerCommits(c)
  <1> USE DEF dbVars
  <1>1. CASE UNCHANGED vars
    BY <1>1 DEF vars
  <1>2. ASSUME NEW r \in Request, OwnerStep(r) \/ Interrupted(r), ~CommitReturns(r)
        PROVE  durable' = durable
    BY <1>2
       DEF OwnerStep, Interrupted, Acquire, AcquireFails, StartReturns, StartFails,
           HandlerSucceeds, HandlerRefused, HandlerFails, HandlerEnds, ProbeReturns, ProbeFails,
           CommitFails, CommitInterrupted, RollbackReturns, RollbackFails, ReleaseReturns,
           ReleaseRaises, CallbackRuns, CallbackFails, NextCallback, CallbacksEnd
  <1>3. ASSUME NEW r \in Request, HandlerStep(r) \/ TaskStep(r)
        PROVE  durable' = durable
    BY <1>3
       DEF HandlerStep, SpawnChild, ExecuteFails, Catch, Raise, EnterJoined, LeaveJoined,
           LeaveViewFailed, UnwindJoined, UnwindRedirect, EnterSavepoint, EnterSavepointFails,
           LeaveSavepoint, LeaveSavepointFails, UnwindSavepoint, UnwindSavepointFails,
           TaskStep, Execute, OnCommit, PrepareRefused, PrepareAllowed
  <1>4. ASSUME NEW c \in Connection, PoolResets(c)
        PROVE  durable' = durable
    BY <1>4 DEF PoolResets
  <1> QED
    BY <1>1, <1>2, <1>3, <1>4 DEF Next, Finished

\* A commit makes the writes of one request durable, all at once.
LEMMA CommitStep ==
  ASSUME TypeInv, SafetyInv, ProgressInv, NEW r \in Request, CommitReturns(r)
  PROVE  /\ Durable(r) = {} /\ reply[r] = "none" /\ ~sent[r]
         /\ \E W \in SUBSET Writes(r) : durable' = durable \cup W
  <1>1. pc[r] = "commit" /\ durable' = durable \cup Committable(r)
    BY DEF CommitReturns
  <1>2. Durable(r) = {} /\ scope[r].conn \in Connection /\ Sess(r).pending \subseteq Own(r)
    BY <1>1, HeldSession DEF Owning
  <1>3. RequestProgress(r) /\ SessionProgress(scope[r].conn)
    BY <1>2 DEF ProgressInv
  <1>4. Committable(r) \subseteq Writes(r)
    BY <1>2, <1>3 DEF Committable, SessionProgress, Sess, Own
  <1> QED
    BY <1>1, <1>2, <1>3, <1>4 DEF RequestProgress

LEMMA LateCommitStep ==
  ASSUME TypeInv, SafetyInv, ProgressInv, NEW c \in Connection, ServerCommits(c)
  PROVE  \E r \in Request :
           /\ scope[r].conn = c /\ session[c].tx = "indoubt"
           /\ Durable(r) = {} /\ reply[r] # "success"
           /\ \E W \in SUBSET Writes(r) : durable' = durable \cup W
  <1>1. session[c].tx = "indoubt" /\ durable' = durable \cup session[c].pending
    BY DEF ServerCommits
  <1>2. SessionInv(c) /\ SessionProgress(c)
    BY DEF SafetyInv, ProgressInv
  <1>3. PICK r \in Request : session[c].holder = r
    BY <1>1, <1>2 DEF SessionInv
  <1>4. scope[r].conn = c /\ ~committed[r] /\ Durable(r) = {} /\ session[c].pending \subseteq Own(r)
    BY <1>1, <1>2, <1>3 DEF SessionInv
  <1>5. reply[r] # "success"
    BY <1>4 DEF SafetyInv, RequestInv, OutcomeInv
  <1>6. session[c].pending \subseteq Writes(r)
    BY <1>2, <1>4 DEF SessionProgress, Own
  <1> QED
    BY <1>1, <1>4, <1>5, <1>6

\* Once response bytes have left the process, only a COMMIT that was already in
\* flight may still change what is durable of the request.
THEOREM ResponseSettlesOutcomeHolds == Spec => ResponseSettlesOutcome
  <1>1. ASSUME TypeInv, SafetyInv, ProgressInv, [Next]_vars,
               NEW r \in Request, sent[r], Durable(r)' # Durable(r)
        PROVE  Sess(r).tx = "indoubt"
    <2>1. durable' # durable
      BY <1>1 DEF Durable
    <2>2. ASSUME NEW q \in Request, NEW W \in SUBSET Writes(q), durable' = durable \cup W
          PROVE  q = r
      <3>1. PICK w : w \in W /\ w[1] = r
        BY <1>1, <2>2 DEF Durable
      <3> QED
        BY <3>1 DEF Writes
    <2>3. CASE \E q \in Request : CommitReturns(q)
      BY <1>1, <2>2, <2>3, CommitStep
    <2>4. CASE \E c \in Connection : ServerCommits(c)
      BY <1>1, <2>2, <2>4, LateCommitStep DEF Sess
    <2> QED
      BY <1>1, <2>1, <2>3, <2>4, DurableStep
  <1>2. TypeInv /\ SafetyInv /\ ProgressInv /\ [Next]_vars =>
          [\A r \in Request :
             sent[r] /\ Durable(r)' # Durable(r) => Sess(r).tx = "indoubt"]_vars
    BY <1>1
  <1> QED
    BY <1>2, TypeCorrect, Safety, Progress, PTL DEF Spec, ResponseSettlesOutcome

(***************************************************************************)
(* The refinement: the steps of HttpTransaction that AtomicRequest sees    *)
(* are a COMMIT, a callback and the two kinds of answer.                   *)
(***************************************************************************)

\* What is durable of a request's writes, as the abstract specification says it.
LEMMA StoredIsDurable ==
  ASSUME NEW r \in Request
  PROVE  /\ Atomic!Writes(r) = Writes(r)
         /\ Atomic!Stored(r) \subseteq Durable(r)
         /\ durable \cap Writes(r) = Atomic!Stored(r)
  BY DEF Atomic!Writes, Writes, Atomic!Stored, Durable

LEMMA RefinementInit == Init => Atomic!Init
  BY DEF Init, Atomic!Init

LEMMA CommitRefines ==
  ASSUME NEW r \in Request, Durable(r) = {}, reply[r] # "success",
         \E W \in SUBSET Writes(r) : durable' = durable \cup W,
         UNCHANGED <<reply, published>>
  PROVE  Atomic!Commit(r)
  BY StoredIsDurable DEF Atomic!Commit

LEMMA FailRefines ==
  ASSUME TypeInv, ProgressInv, NEW r \in Request, pc[r] \notin {"callbacks", "done"},
         reply' = [reply EXCEPT ![r] = "error"], UNCHANGED <<durable, published>>
  PROVE  Atomic!Fail(r)
  <1>1. RequestProgress(r)
    BY DEF ProgressInv
  <1>2. published \in SUBSET Write
    BY DEF TypeInv, TypeOK
  <1>3. Atomic!Writes(r) = Writes(r) /\ \A w \in Writes(r) : w[1] = r
    BY StoredIsDurable DEF Writes
  <1>4. published \cap Atomic!Writes(r) = {}
    BY <1>1, <1>2, <1>3 DEF RequestProgress, Own
  <1> QED
    BY <1>1, <1>4 DEF RequestProgress, Atomic!Fail

LEMMA AnnounceRefines ==
  ASSUME TypeInv, SafetyInv, ProgressInv, NEW r \in Request, CallbackRuns(r)
  PROVE  Atomic!Announce(r)
  <1> DEFINE w == scope[r].callbacks[cursor[r] + 1]
  <1>1. /\ pc[r] = "callbacks" /\ cursor[r] < Len(scope[r].callbacks)
        /\ published' = published \cup {w} /\ UNCHANGED <<reply, durable>>
    BY DEF CallbackRuns, NextCallback, dbVars
  <1>2. RequestProgress(r) /\ RequestInv(r)
    BY DEF ProgressInv, SafetyInv
  <1>3. cursor[r] + 1 \in 1 .. Len(scope[r].callbacks)
    <2>1. cursor[r] \in Nat /\ scope[r].callbacks \in Seq(Write)
      BY DEF TypeInv, TypeOK, TransactionScope
    <2> QED
      BY <1>1, <2>1
  <1>4. w \in Writes(r)
    BY <1>2, <1>3 DEF RequestProgress
  <1>5. w \in durable
    BY <1>1, <1>2, <1>3 DEF RequestInv, WorkInv, OutcomeInv
  <1>6. reply[r] = "none"
    BY <1>1, <1>2 DEF RequestProgress
  <1> HIDE DEF w
  <1> QED
    BY <1>1, <1>4, <1>5, <1>6, StoredIsDurable DEF Atomic!Announce

LEMMA SucceedRefines ==
  ASSUME ProgressInv, NEW r \in Request, CallbacksEnd(r)
  PROVE  Atomic!Succeed(r)
  BY DEF CallbacksEnd, dbVars, ProgressInv, RequestProgress, Atomic!Succeed

LEMMA OwnerRefines ==
  ASSUME TypeInv, SafetyInv, ProgressInv, NEW r \in Request, OwnerStep(r) \/ Interrupted(r)
  PROVE  [Atomic!Next]_(Atomic!avars)
  <1> USE DEF ownerVars, dbVars
  <1>1. CASE CommitReturns(r)
    <2>1. UNCHANGED <<reply, published>>
      BY <1>1 DEF CommitReturns
    <2> QED
      BY <1>1, <2>1, CommitStep, CommitRefines DEF Atomic!Next
  <1>2. CASE AcquireFails(r) \/ ReleaseRaises(r) \/ (ReleaseReturns(r) /\ ~committed[r])
    <2>1. /\ pc[r] \in {"acquire", "release"} /\ reply' = [reply EXCEPT ![r] = "error"]
          /\ UNCHANGED <<durable, published>>
      BY <1>2 DEF AcquireFails, ReleaseRaises, ReleaseReturns
    <2> QED
      BY <2>1, FailRefines DEF Atomic!Next
  <1>3. CASE CallbackRuns(r)
    BY <1>3, AnnounceRefines DEF Atomic!Next
  <1>4. CASE CallbacksEnd(r)
    BY <1>4, SucceedRefines DEF Atomic!Next
  <1>5. CASE \/ Acquire(r) \/ StartReturns(r) \/ StartFails(r)
             \/ HandlerSucceeds(r) \/ HandlerRefused(r) \/ HandlerFails(r)
             \/ ProbeReturns(r) \/ ProbeFails(r) \/ CommitFails(r) \/ CommitInterrupted(r)
             \/ RollbackReturns(r) \/ RollbackFails(r) \/ CallbackFails(r)
             \/ (ReleaseReturns(r) /\ committed[r])
    <2>1. UNCHANGED <<durable, reply, published>>
      BY <1>5
         DEF Acquire, StartReturns, StartFails, HandlerSucceeds, HandlerRefused, HandlerFails,
             HandlerEnds, ProbeReturns, ProbeFails, CommitFails, CommitInterrupted,
             RollbackReturns, RollbackFails, CallbackFails, NextCallback, ReleaseReturns
    <2> QED
      BY <2>1 DEF Atomic!avars
  <1> QED
    BY <1>1, <1>2, <1>3, <1>4, <1>5 DEF OwnerStep, Interrupted

LEMMA RefinementStep ==
  TypeInv /\ SafetyInv /\ ProgressInv /\ [Next]_vars => [Atomic!Next]_(Atomic!avars)
  <1> SUFFICES ASSUME TypeInv, SafetyInv, ProgressInv, [Next]_vars
               PROVE  [Atomic!Next]_(Atomic!avars)
    OBVIOUS
  <1> USE DEF ownerVars, dbVars
  <1>1. CASE UNCHANGED vars
    BY <1>1 DEF vars, Atomic!avars
  <1>2. ASSUME NEW r \in Request, HandlerStep(r) \/ TaskStep(r)
        PROVE  UNCHANGED Atomic!avars
    BY <1>2
       DEF HandlerStep, SpawnChild, ExecuteFails, Catch, Raise, EnterJoined, LeaveJoined,
           LeaveViewFailed, UnwindJoined, UnwindRedirect, EnterSavepoint, EnterSavepointFails,
           LeaveSavepoint, LeaveSavepointFails, UnwindSavepoint, UnwindSavepointFails,
           TaskStep, Execute, OnCommit, PrepareRefused, PrepareAllowed, Atomic!avars
  <1>3. ASSUME NEW c \in Connection, ServerCommits(c)
        PROVE  Atomic!Next
    <2>1. UNCHANGED <<reply, published>>
      BY <1>3 DEF ServerCommits
    <2> QED
      BY <1>3, <2>1, LateCommitStep, CommitRefines DEF Atomic!Next
  <1>4. ASSUME NEW c \in Connection, PoolResets(c)
        PROVE  UNCHANGED Atomic!avars
    BY <1>4 DEF PoolResets, Atomic!avars
  <1> QED
    BY <1>1, <1>2, <1>3, <1>4, OwnerRefines DEF Next, Finished

\* The whole-request transaction keeps the promise of AtomicRequest.
THEOREM ImplementsAtomicRequestHolds == Spec => ImplementsAtomicRequest
  BY TypeCorrect, Safety, Progress, RefinementInit, RefinementStep, PTL
     DEF Spec, ImplementsAtomicRequest, Atomic!Spec

================================================================================
