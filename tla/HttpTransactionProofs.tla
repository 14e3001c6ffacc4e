------------------------- MODULE HttpTransactionProofs -------------------------
(* Theorems about HttpTransaction, for every set of requests, pool and budget. *)
EXTENDS HttpTransactionInductive, SequenceTheorems, TLAPS

USE DEF Role, Joined

(***************************************************************************)
(* Type correctness.                                                       *)
(***************************************************************************)

\* The innermost frame of a non-empty stack and the frames around it.
LEMMA FrontLast ==
  ASSUME NEW S, NEW s \in Seq(S), s # <<>>
  PROVE  /\ Front(s) \in Seq(S)
         /\ Last(s) \in S
         /\ Len(Front(s)) = Len(s) - 1
         /\ \A i \in 1 .. Len(s) - 1 : Front(s)[i] = s[i]
  <1>1. Len(s) \in Nat \ {0} /\ s \in [1 .. Len(s) -> S]
    OBVIOUS
  <1>2. Last(s) \in S
    BY <1>1 DEF Last
  <1>3. Front(s) = SubSeq(s, 1, Len(s) - 1)
    BY DEF Front
  <1>4. 1 \in 1 .. Len(s) + 1 /\ Len(s) - 1 \in 1 - 1 .. Len(s)
    BY <1>1
  <1>5. /\ SubSeq(s, 1, Len(s) - 1) \in Seq(S)
        /\ Len(SubSeq(s, 1, Len(s) - 1)) = Len(s) - 1
        /\ \A i \in 1 .. Len(s) - 1 : SubSeq(s, 1, Len(s) - 1)[i] = s[i]
    BY <1>1, <1>4, SubSeqProperties
  <1> QED
    BY <1>2, <1>3, <1>5

\* del callbacks[mark:] keeps a sequence of the same elements.
LEMMA PrefixType ==
  ASSUME NEW S, NEW s \in Seq(S), NEW n \in Nat, n <= Len(s)
  PROVE  /\ SubSeq(s, 1, n) \in Seq(S)
         /\ Len(SubSeq(s, 1, n)) = n
         /\ \A i \in 1 .. n : SubSeq(s, 1, n)[i] = s[i]
  OBVIOUS

LEMMA TypeInit == Init => TypeInv
  <1> SUFFICES ASSUME Init PROVE TypeInv
    OBVIOUS
  <1>1. scope \in [Request -> TransactionScope]
    BY DEF Init, TransactionScope, Lifecycle
  <1>2. session \in [Connection -> Session]
    BY DEF Init, FreeSession, Session
  <1>3. stack \in [Request -> Seq(Frame)]
    BY DEF Init
  <1>4. TypeOK
    BY <1>1, <1>2, <1>3 DEF Init, TypeOK, Label
  <1>5. Connected
    BY DEF Init, Connected
  <1>6. Marks
    BY DEF Init, Marks
  <1> QED
    BY <1>4, <1>5, <1>6 DEF TypeInv

--------------------------------------------------------------------------------
(* What the updates that the actions are made of do to each variable.      *)

LEMMA GotoType ==
  ASSUME TypeOK, NEW r \in Request, NEW l \in Label, Goto(r, l)
  PROVE  /\ pc' \in [Request -> Label]
         /\ pc'[r] = l
         /\ \A q \in Request \ {r} : pc'[q] = pc[q]
  BY DEF TypeOK, Goto

LEMMA StepType ==
  ASSUME TypeOK, NEW r \in Request, Step(r)
  PROVE  steps' \in [Request -> Nat] /\ steps'[r] = steps[r] + 1
  <1>1. steps \in [Request -> Nat] /\ steps[r] + 1 \in Nat
    BY DEF TypeOK
  <1> QED
    BY <1>1 DEF Step

LEMMA ThrowType ==
  ASSUME TypeOK, NEW r \in Request, NEW e \in {"none", "error", "redirect"}, Throw(r, e)
  PROVE  exc' \in [Request -> {"none", "error", "redirect"}]
  BY DEF TypeOK, Throw

LEMMA SessType ==
  ASSUME TypeInv, NEW r \in Request, pc[r] \notin {"acquire", "done"}
  PROVE  Sess(r) \in Session /\ scope[r].conn \in Connection
  BY DEF TypeInv, TypeOK, Connected, Sess

LEMMA SetSessionType ==
  ASSUME TypeOK, NEW r \in Request, NEW s \in Session, SetSession(r, s)
  PROVE  session' \in [Connection -> Session]
  BY DEF TypeOK, SetSession

\* Every edit that an action makes of a session yields a session.
LEMMA SessionEdits ==
  ASSUME NEW s \in Session
  PROVE  /\ \A tx \in {"idle", "open", "aborted", "indoubt"} : [s EXCEPT !.tx = tx] \in Session
         /\ \A st \in {"free", "held", "returning"} : [s EXCEPT !.state = st] \in Session
         /\ \A W \in SUBSET Write :
              /\ [s EXCEPT !.pending = W] \in Session
              /\ [s EXCEPT !.tx = "open", !.pending = W] \in Session
         /\ \A q \in Request : [s EXCEPT !.holder = q, !.state = "held"] \in Session
         /\ Ended(s) \in Session
         /\ s.pending \in SUBSET Write
  BY DEF Session, Ended

\* Every edit that an action makes of a scope yields a scope.
LEMMA ScopeEdits ==
  ASSUME NEW s \in TransactionScope
  PROVE  /\ [s EXCEPT !.rollbackOnly = TRUE] \in TransactionScope
         /\ [s EXCEPT !.rollbackOnly = TRUE, !.violation = TRUE] \in TransactionScope
         /\ \A l \in Lifecycle : [s EXCEPT !.lifecycle = l] \in TransactionScope
         /\ \A c \in Connection, l \in Lifecycle :
              [s EXCEPT !.conn = c, !.lifecycle = l] \in TransactionScope
         /\ \A cs \in Seq(Write) : [s EXCEPT !.callbacks = cs] \in TransactionScope
         /\ \A b \in BOOLEAN, cs \in Seq(Write) :
              [s EXCEPT !.rollbackOnly = b, !.callbacks = cs] \in TransactionScope
  BY DEF TransactionScope

LEMMA ScopeUpdate ==
  ASSUME TypeOK, NEW r \in Request, NEW s \in TransactionScope,
         scope' = [scope EXCEPT ![r] = s]
  PROVE  /\ scope' \in [Request -> TransactionScope]
         /\ scope'[r] = s
         /\ \A q \in Request \ {r} : scope'[q] = scope[q]
  BY DEF TypeOK

LEMMA RollbackOnlyType ==
  ASSUME TypeOK, NEW r \in Request, RollbackOnly(r)
  PROVE  /\ scope' \in [Request -> TransactionScope]
         /\ \A q \in Request :
              /\ scope'[q].conn = scope[q].conn
              /\ scope'[q].callbacks = scope[q].callbacks
  <1> DEFINE s == [scope[r] EXCEPT !.rollbackOnly = TRUE]
  <1>1. scope[r] \in TransactionScope
    BY DEF TypeOK
  <1>2. s \in TransactionScope /\ s.conn = scope[r].conn /\ s.callbacks = scope[r].callbacks
    <2>1. s \in TransactionScope
      BY <1>1, ScopeEdits
    <2> QED
      BY <1>1, <2>1 DEF TransactionScope
  <1>3. scope' = [scope EXCEPT ![r] = s]
    BY DEF RollbackOnly
  <1> QED
    BY <1>2, <1>3, ScopeUpdate

LEMMA LifecycleType ==
  ASSUME TypeOK, NEW r \in Request, NEW l \in Lifecycle,
         scope' = [scope EXCEPT ![r].lifecycle = l]
  PROVE  /\ scope' \in [Request -> TransactionScope]
         /\ \A q \in Request :
              /\ scope'[q].conn = scope[q].conn
              /\ scope'[q].callbacks = scope[q].callbacks
  <1> DEFINE s == [scope[r] EXCEPT !.lifecycle = l]
  <1>1. scope[r] \in TransactionScope
    BY DEF TypeOK
  <1>2. s \in TransactionScope /\ s.conn = scope[r].conn /\ s.callbacks = scope[r].callbacks
    <2>1. s \in TransactionScope
      BY <1>1, ScopeEdits
    <2> QED
      BY <1>1, <2>1 DEF TransactionScope
  <1>3. scope' = [scope EXCEPT ![r] = s]
    OBVIOUS
  <1> QED
    BY <1>2, <1>3, ScopeUpdate

LEMMA ConnectedKept ==
  ASSUME Connected,
         \A q \in Request : scope'[q].conn = scope[q].conn,
         \A q \in Request : pc[q] \in {"acquire", "done"} => pc'[q] = pc[q] \/ pc'[q] = "done"
  PROVE  Connected'
  BY DEF Connected

LEMMA MarksKept ==
  ASSUME TypeOK, Marks, stack' = stack,
         \A q \in Request : scope'[q].callbacks = scope[q].callbacks
  PROVE  Marks'
  BY DEF Marks

LEMMA FinallyType ==
  ASSUME TypeInv, NEW r \in Request, NEW s \in Session, Finally(r, s),
         pc[r] \notin {"acquire", "done"}
  PROVE  /\ pc' \in [Request -> Label]
         /\ scope' \in [Request -> TransactionScope]
         /\ session' \in [Connection -> Session]
         /\ Connected'
         /\ \A q \in Request : scope'[q].callbacks = scope[q].callbacks
  <1>1. TypeOK /\ Connected
    BY DEF TypeInv
  <1>2. /\ pc' \in [Request -> Label]
        /\ pc'[r] = "release"
        /\ \A q \in Request \ {r} : pc'[q] = pc[q]
    BY <1>1, GotoType DEF Finally, Label
  <1>3. /\ scope' \in [Request -> TransactionScope]
        /\ \A q \in Request :
             /\ scope'[q].conn = scope[q].conn
             /\ scope'[q].callbacks = scope[q].callbacks
    BY <1>1, LifecycleType DEF Finally, Lifecycle
  <1>4. session' \in [Connection -> Session]
    BY <1>1, SessionEdits, SetSessionType DEF Finally
  <1>5. Connected'
    BY <1>1, <1>2, <1>3, ConnectedKept
  <1> QED
    BY <1>2, <1>3, <1>4, <1>5

LEMMA PopType ==
  ASSUME TypeOK, NEW r \in Request, stack[r] # <<>>, Pop(r)
  PROVE  /\ stack' \in [Request -> Seq(Frame)]
         /\ \A q \in Request \ {r} : stack'[q] = stack[q]
         /\ Len(stack'[r]) = Len(stack[r]) - 1
         /\ \A i \in 1 .. Len(stack[r]) - 1 : stack'[r][i] = stack[r][i]
         /\ Top(r) \in Frame
         /\ Top(r) = stack[r][Len(stack[r])]
         /\ Len(stack[r]) \in Nat \ {0}
  <1>1. stack[r] \in Seq(Frame)
    BY DEF TypeOK
  <1>2. stack'[r] = Front(stack[r])
    BY DEF TypeOK, Pop
  <1>3. /\ Front(stack[r]) \in Seq(Frame)
        /\ Last(stack[r]) \in Frame
        /\ Len(Front(stack[r])) = Len(stack[r]) - 1
        /\ \A i \in 1 .. Len(stack[r]) - 1 : Front(stack[r])[i] = stack[r][i]
    BY <1>1, FrontLast
  <1>4. /\ stack' \in [Request -> Seq(Frame)]
        /\ \A q \in Request \ {r} : stack'[q] = stack[q]
    BY <1>3 DEF TypeOK, Pop
  <1>5. Len(stack[r]) \in Nat \ {0}
    BY <1>1
  <1> QED
    BY <1>2, <1>3, <1>4, <1>5 DEF Top, Last

LEMMA PopMarks ==
  ASSUME TypeOK, Marks, NEW r \in Request, stack[r] # <<>>, Pop(r),
         \A q \in Request : scope'[q].callbacks = scope[q].callbacks
  PROVE  Marks'
  <1> SUFFICES ASSUME NEW q \in Request, NEW i \in 1 .. Len(stack'[q])
               PROVE  /\ stack'[q][i].mark <= Len(scope'[q].callbacks)
                      /\ \A j \in 1 .. i : stack'[q][j].mark <= stack'[q][i].mark
    BY DEF Marks
  <1>1. CASE q = r
    <2>1. i \in 1 .. Len(stack[r]) - 1
      BY <1>1, PopType
    <2>2. \A j \in 1 .. i : j \in 1 .. Len(stack[r]) - 1
      BY <2>1
    <2>3. \A j \in 1 .. i : stack'[r][j] = stack[r][j]
      BY <2>2, PopType
    <2>4. i \in 1 .. Len(stack[r]) /\ i \in 1 .. i
      BY <2>1, PopType
    <2>5. /\ stack[r][i].mark <= Len(scope[r].callbacks)
          /\ \A j \in 1 .. i : stack[r][j].mark <= stack[r][i].mark
      BY <2>4 DEF Marks
    <2> QED
      BY <1>1, <2>3, <2>4, <2>5
  <1>2. CASE q # r
    <2>1. stack'[q] = stack[q]
      BY <1>2, PopType
    <2> QED
      BY <2>1 DEF Marks
  <1> QED
    BY <1>1, <1>2

LEMMA PushType ==
  ASSUME TypeInv, NEW r \in Request, pc[r] = "handler",
         NEW kind \in Joined \cup {"savepoint"}, Push(r, kind), UNCHANGED scope
  PROVE  stack' \in [Request -> Seq(Frame)] /\ Marks'
  <1> DEFINE f == [kind |-> kind, flag |-> scope[r].rollbackOnly,
                   mark |-> Len(scope[r].callbacks),
                   pending |-> Sess(r).pending, work |-> work[r]]
  <1>1. TypeOK /\ Marks /\ scope[r] \in TransactionScope /\ stack[r] \in Seq(Frame)
    BY DEF TypeInv, TypeOK
  <1>2. scope[r].rollbackOnly \in BOOLEAN /\ Len(scope[r].callbacks) \in Nat
    BY <1>1 DEF TransactionScope
  <1>3. Sess(r).pending \in SUBSET Write /\ work[r] \in SUBSET Write
    BY <1>1, SessType, SessionEdits DEF TypeOK
  <1>4. f \in Frame
    BY <1>2, <1>3 DEF Frame
  <1>5. stack' = [stack EXCEPT ![r] = Append(stack[r], f)]
    BY DEF Push
  <1>6. /\ stack' \in [Request -> Seq(Frame)]
        /\ stack'[r] = Append(stack[r], f)
        /\ \A q \in Request \ {r} : stack'[q] = stack[q]
    BY <1>1, <1>4, <1>5 DEF TypeOK
  <1>7. /\ Len(stack'[r]) = Len(stack[r]) + 1
        /\ stack'[r][Len(stack[r]) + 1] = f
        /\ \A i \in 1 .. Len(stack[r]) : stack'[r][i] = stack[r][i]
        /\ Len(stack[r]) \in Nat
    BY <1>1, <1>4, <1>6, AppendProperties
  <1>8. ASSUME NEW q \in Request, NEW i \in 1 .. Len(stack'[q])
        PROVE  /\ stack'[q][i].mark <= Len(scope'[q].callbacks)
               /\ \A j \in 1 .. i : stack'[q][j].mark <= stack'[q][i].mark
    <2>1. CASE q # r
      <3>1. stack'[q] = stack[q]
        BY <1>6, <2>1
      <3> QED
        BY <1>1, <1>8, <3>1 DEF Marks
    <2>2. CASE q = r /\ i \in 1 .. Len(stack[r])
      <3>1. \A j \in 1 .. i : j \in 1 .. Len(stack[r])
        BY <2>2, <1>7
      <3> QED
        BY <1>1, <1>7, <2>2, <3>1 DEF Marks
    <2>3. CASE q = r /\ i = Len(stack[r]) + 1
      <3>1. f.mark = Len(scope[r].callbacks) /\ f.mark \in Nat
        BY <1>2
      <3>2. \A j \in 1 .. Len(stack[r]) : stack'[r][j].mark <= f.mark
        BY <1>1, <1>7, <3>1 DEF Marks
      <3>3. stack'[r][i] = f
        BY <1>7, <2>3
      <3>4. \A j \in 1 .. i : j \in 1 .. Len(stack[r]) \/ j = i
        BY <1>7, <2>3
      <3> HIDE DEF f
      <3> QED
        BY <2>3, <3>1, <3>2, <3>3, <3>4
    <2> QED
      BY <1>7, <2>1, <2>2, <2>3
  <1> QED
    BY <1>6, <1>8 DEF Marks

LEMMA UnwindScope ==
  ASSUME TypeInv, NEW r \in Request, UnwindSavepoint(r)
  PROVE  /\ scope' \in [Request -> TransactionScope]
         /\ \A q \in Request : scope'[q].conn = scope[q].conn
         /\ \A q \in Request \ {r} : scope'[q] = scope[q]
         /\ scope'[r].lifecycle = scope[r].lifecycle
         /\ scope'[r].violation = scope[r].violation
         /\ scope'[r].rollbackOnly = Top(r).flag
         /\ Len(scope'[r].callbacks) = Top(r).mark
         /\ Top(r).mark <= Len(scope[r].callbacks)
         /\ \A i \in 1 .. Top(r).mark : scope'[r].callbacks[i] = scope[r].callbacks[i]
  <1> DEFINE n  == Top(r).mark
             cs == SubSeq(scope[r].callbacks, 1, n)
             s  == [scope[r] EXCEPT !.rollbackOnly = Top(r).flag, !.callbacks = cs]
  <1>1. TypeOK /\ Marks /\ scope[r] \in TransactionScope
    BY DEF TypeInv, TypeOK
  <1>2. stack[r] # <<>> /\ Pop(r)
    BY DEF UnwindSavepoint, Inside
  <1>3. /\ Top(r) \in Frame
        /\ Top(r) = stack[r][Len(stack[r])]
        /\ Len(stack[r]) \in 1 .. Len(stack[r])
    BY <1>1, <1>2, PopType
  <1>4. n \in Nat /\ n <= Len(scope[r].callbacks) /\ Top(r).flag \in BOOLEAN
    BY <1>1, <1>3 DEF Frame, Marks
  <1>5. scope[r].callbacks \in Seq(Write)
    BY <1>1 DEF TransactionScope
  <1>6. /\ cs \in Seq(Write)
        /\ Len(cs) = n
        /\ \A i \in 1 .. n : cs[i] = scope[r].callbacks[i]
    BY <1>4, <1>5, PrefixType
  <1>7. /\ s \in TransactionScope
        /\ s.conn = scope[r].conn
        /\ s.lifecycle = scope[r].lifecycle
        /\ s.violation = scope[r].violation
        /\ s.rollbackOnly = Top(r).flag
        /\ s.callbacks = cs
    <2> HIDE DEF cs
    <2>1. s \in TransactionScope
      BY <1>1, <1>4, <1>6, ScopeEdits
    <2> QED
      BY <2>1, <1>1 DEF TransactionScope
  <1>8. scope' = [scope EXCEPT ![r] = s]
    BY DEF UnwindSavepoint
  <1> HIDE DEF s
  <1>9. /\ scope' \in [Request -> TransactionScope]
        /\ scope'[r] = s
        /\ \A q \in Request \ {r} : scope'[q] = scope[q]
    BY <1>1, <1>7, <1>8, ScopeUpdate
  <1> QED
    BY <1>4, <1>6, <1>7, <1>9

LEMMA UnwindMarks ==
  ASSUME TypeInv, NEW r \in Request, UnwindSavepoint(r)
  PROVE  Marks'
  <1>1. TypeOK /\ Marks /\ stack[r] # <<>> /\ Pop(r)
    BY DEF TypeInv, UnwindSavepoint, Inside
  <1> SUFFICES ASSUME NEW q \in Request, NEW i \in 1 .. Len(stack'[q])
               PROVE  /\ stack'[q][i].mark <= Len(scope'[q].callbacks)
                      /\ \A j \in 1 .. i : stack'[q][j].mark <= stack'[q][i].mark
    BY DEF Marks
  <1>2. CASE q = r
    <2>1. /\ i \in 1 .. Len(stack[r]) - 1
          /\ Len(stack[r]) \in 1 .. Len(stack[r])
          /\ Top(r) = stack[r][Len(stack[r])]
      BY <1>1, <1>2, PopType
    <2>2. \A j \in 1 .. i : j \in 1 .. Len(stack[r]) - 1
      BY <2>1
    <2>3. \A j \in 1 .. i : stack'[r][j] = stack[r][j]
      BY <1>1, <2>2, PopType
    <2>4. i \in 1 .. Len(stack[r]) /\ i \in 1 .. i
      BY <2>1
    <2>5. stack[r][i].mark <= Top(r).mark
      BY <1>1, <2>1, <2>4 DEF Marks
    <2>6. \A j \in 1 .. i : stack[r][j].mark <= stack[r][i].mark
      BY <1>1, <2>4 DEF Marks
    <2> QED
      BY <1>2, <2>3, <2>4, <2>5, <2>6, UnwindScope
  <1>3. CASE q # r
    <2>1. stack'[q] = stack[q] /\ scope'[q] = scope[q]
      BY <1>1, <1>3, PopType, UnwindScope
    <2> QED
      BY <1>1, <2>1 DEF Marks
  <1> QED
    BY <1>2, <1>3

LEMMA OnCommitScope ==
  ASSUME TypeInv, NEW r \in Request, NEW role, NEW w \in Writes(r), OnCommit(r, role, w)
  PROVE  /\ scope' \in [Request -> TransactionScope]
         /\ \A q \in Request : scope'[q].conn = scope[q].conn
         /\ \A q \in Request \ {r} : scope'[q] = scope[q]
         /\ \A f \in {"lifecycle", "rollbackOnly", "violation"} : scope'[r][f] = scope[r][f]
         /\ Len(scope'[r].callbacks) = Len(scope[r].callbacks) + 1
         /\ Len(scope[r].callbacks) \in Nat
         /\ \A i \in 1 .. Len(scope[r].callbacks) :
              scope'[r].callbacks[i] = scope[r].callbacks[i]
         /\ scope'[r].callbacks[Len(scope[r].callbacks) + 1] = w
  <1> DEFINE cs == Append(scope[r].callbacks, w)
             s  == [scope[r] EXCEPT !.callbacks = cs]
  <1>1. TypeOK /\ scope[r] \in TransactionScope /\ scope[r].callbacks \in Seq(Write)
    BY DEF TypeInv, TypeOK, TransactionScope
  <1>2. w \in Write
    BY ConstantsAssumption DEF Writes, Write
  <1>3. /\ cs \in Seq(Write)
        /\ Len(cs) = Len(scope[r].callbacks) + 1
        /\ Len(scope[r].callbacks) \in Nat
        /\ \A i \in 1 .. Len(scope[r].callbacks) : cs[i] = scope[r].callbacks[i]
        /\ cs[Len(scope[r].callbacks) + 1] = w
    BY <1>1, <1>2, AppendProperties
  <1>4. scope' = [scope EXCEPT ![r] = s]
    BY DEF OnCommit
  <1> HIDE DEF cs
  <1>5. /\ s \in TransactionScope
        /\ s.conn = scope[r].conn
        /\ \A f \in {"lifecycle", "rollbackOnly", "violation"} : s[f] = scope[r][f]
        /\ s.callbacks = cs
    <2>1. s \in TransactionScope
      BY <1>1, <1>3, ScopeEdits
    <2> QED
      BY <2>1, <1>1 DEF TransactionScope
  <1> HIDE DEF s
  <1>6. /\ scope' \in [Request -> TransactionScope]
        /\ scope'[r] = s
        /\ \A q \in Request \ {r} : scope'[q] = scope[q]
    BY <1>1, <1>4, <1>5, ScopeUpdate
  <1> QED
    BY <1>3, <1>5, <1>6

--------------------------------------------------------------------------------
(* One step per action.                                                    *)

LEMMA OwnerTypeStep ==
  ASSUME TypeInv, NEW r \in Request, OwnerStep(r) \/ Interrupted(r)
  PROVE  TypeInv'
  <1> USE DEF ownerVars, handlerVars, dbVars, historyVars
  <1>0. TypeOK /\ Connected /\ Marks /\ scope[r] \in TransactionScope
    BY DEF TypeInv, TypeOK
  <1>1. CASE Acquire(r)
    <2>1. PICK c \in Connection :
            /\ session' = [session EXCEPT ![c].holder = r, ![c].state = "held"]
            /\ scope' = [scope EXCEPT ![r].conn = c, ![r].lifecycle = "active"]
      BY <1>1 DEF Acquire
    <2> DEFINE s  == [scope[r] EXCEPT !.conn = c, !.lifecycle = "active"]
               ss == [session[c] EXCEPT !.holder = r, !.state = "held"]
    <2>2. s \in TransactionScope /\ s.conn = c /\ s.callbacks = scope[r].callbacks
      <3>1. s \in TransactionScope
        BY <1>0, ScopeEdits DEF Lifecycle
      <3> QED
        BY <1>0, <3>1 DEF TransactionScope
    <2>3. ss \in Session
      BY <1>0, SessionEdits DEF TypeOK
    <2>4. scope' = [scope EXCEPT ![r] = s] /\ session' = [session EXCEPT ![c] = ss]
      BY <2>1
    <2> HIDE DEF s, ss
    <2>5. /\ scope' \in [Request -> TransactionScope]
          /\ scope'[r].conn \in Connection
          /\ \A q \in Request : scope'[q].callbacks = scope[q].callbacks
          /\ \A q \in Request \ {r} : scope'[q] = scope[q]
      BY <1>0, <2>2, <2>4, ScopeUpdate
    <2>6. session' \in [Connection -> Session]
      BY <1>0, <2>3, <2>4 DEF TypeOK
    <2>7. /\ pc' \in [Request -> Label]
          /\ \A q \in Request \ {r} : pc'[q] = pc[q]
      BY <1>0, <1>1, GotoType DEF Acquire, Label
    <2>8. TypeOK'
      BY <1>0, <1>1, <2>5, <2>6, <2>7 DEF Acquire, TypeOK
    <2>9. Connected'
      BY <1>0, <2>5, <2>7 DEF Connected
    <2>10. Marks'
      BY <1>0, <1>1, <2>5, MarksKept DEF Acquire
    <2> QED
      BY <2>8, <2>9, <2>10 DEF TypeInv
  <1>2. CASE AcquireFails(r) \/ ReleaseRaises(r)
    <2>1. /\ pc' \in [Request -> Label]
          /\ pc'[r] = "done"
          /\ \A q \in Request \ {r} : pc'[q] = pc[q]
      BY <1>0, <1>2, GotoType DEF AcquireFails, ReleaseRaises, Label
    <2>2. TypeOK'
      BY <1>0, <1>2, <2>1 DEF AcquireFails, ReleaseRaises, TypeOK
    <2>3. Connected' /\ Marks'
      BY <1>0, <1>2, <2>1, ConnectedKept, MarksKept DEF AcquireFails, ReleaseRaises
    <2> QED
      BY <2>2, <2>3 DEF TypeInv
  <1>3. CASE StartReturns(r)
    <2>1. Sess(r) \in Session
      BY <1>3, SessType DEF StartReturns
    <2>2. session' \in [Connection -> Session]
      BY <1>0, <1>3, <2>1, SessionEdits, SetSessionType DEF StartReturns
    <2>3. /\ pc' \in [Request -> Label]
          /\ \A q \in Request \ {r} : pc'[q] = pc[q]
      BY <1>0, <1>3, GotoType DEF StartReturns, Label
    <2>4. TypeOK'
      BY <1>0, <1>3, <2>2, <2>3 DEF StartReturns, TypeOK
    <2>5. Connected' /\ Marks'
      BY <1>0, <1>3, <2>3, ConnectedKept, MarksKept DEF StartReturns
    <2> QED
      BY <2>4, <2>5 DEF TypeInv
  <1>4. ASSUME \/ StartFails(r) \/ CommitReturns(r) \/ CommitFails(r)
               \/ CommitInterrupted(r) \/ RollbackReturns(r) \/ RollbackFails(r)
        PROVE  TypeInv'
    <2>1. pc[r] \in {"start", "commit", "rollback"}
      BY <1>4 DEF StartFails, CommitReturns, CommitFails, CommitInterrupted,
                  RollbackReturns, RollbackFails
    <2>2. Sess(r) \in Session
      BY <2>1, SessType
    <2>3. \E s \in Session : Finally(r, s)
      BY <1>4, <2>2, SessionEdits
         DEF StartFails, CommitReturns, CommitFails, CommitInterrupted,
             RollbackReturns, RollbackFails
    <2>4. /\ pc' \in [Request -> Label]
          /\ scope' \in [Request -> TransactionScope]
          /\ session' \in [Connection -> Session]
          /\ Connected'
          /\ \A q \in Request : scope'[q].callbacks = scope[q].callbacks
      BY <2>1, <2>3, FinallyType
    <2>5. durable' \in SUBSET Write /\ committed' \in [Request -> BOOLEAN]
      BY <1>0, <1>4, <2>2, SessionEdits
         DEF StartFails, CommitReturns, CommitFails, CommitInterrupted,
             RollbackReturns, RollbackFails, TypeOK, Committable
    <2>6. UNCHANGED <<cursor, reply, handlerVars, historyVars, sent, published>>
      BY <1>4 DEF StartFails, CommitReturns, CommitFails, CommitInterrupted,
                  RollbackReturns, RollbackFails
    <2>7. TypeOK'
      BY <1>0, <2>4, <2>5, <2>6 DEF TypeOK
    <2>8. Marks'
      BY <1>0, <2>4, <2>6, MarksKept
    <2> QED
      BY <2>4, <2>7, <2>8 DEF TypeInv
  <1>5. CASE HandlerSucceeds(r) \/ HandlerRefused(r) \/ HandlerFails(r) \/ ProbeFails(r)
    <2>1. pc[r] \in {"handler", "probe"}
      BY <1>5 DEF HandlerSucceeds, HandlerRefused, HandlerFails, HandlerEnds, ProbeFails
    <2>2. /\ pc' \in [Request -> Label]
          /\ \A q \in Request \ {r} : pc'[q] = pc[q]
      BY <1>0, <1>5, GotoType
         DEF HandlerSucceeds, HandlerRefused, HandlerFails, ProbeFails, Label
    <2>3. UNCHANGED <<committed, cursor, reply, stack, steps, child, dbVars, historyVars,
                      scope, sent, published>>
      BY <1>5 DEF HandlerSucceeds, HandlerRefused, HandlerFails, HandlerEnds, ProbeFails
    <2>4. exc' \in [Request -> {"none", "error", "redirect"}]
      BY <1>0, <1>5
         DEF HandlerSucceeds, HandlerRefused, HandlerFails, HandlerEnds, ProbeFails, TypeOK
    <2>5. TypeOK'
      BY <1>0, <2>2, <2>3, <2>4 DEF TypeOK
    <2>6. Connected' /\ Marks'
      BY <1>0, <2>1, <2>2, <2>3, ConnectedKept, MarksKept
    <2> QED
      BY <2>5, <2>6 DEF TypeInv
  <1>6. CASE ProbeReturns(r) \/ ReleaseReturns(r) \/ CallbacksEnd(r)
    <2>1. pc[r] \in {"probe", "release", "callbacks"}
      BY <1>6 DEF ProbeReturns, ReleaseReturns, CallbacksEnd
    <2>2. /\ pc' \in [Request -> Label]
          /\ \A q \in Request \ {r} : pc'[q] = pc[q]
      BY <1>0, <1>6, GotoType DEF ProbeReturns, ReleaseReturns, CallbacksEnd, Label
    <2>3. /\ scope' \in [Request -> TransactionScope]
          /\ \A q \in Request :
               scope'[q].conn = scope[q].conn /\ scope'[q].callbacks = scope[q].callbacks
      BY <1>0, <1>6, LifecycleType
         DEF ProbeReturns, ReleaseReturns, CallbacksEnd, Lifecycle, TypeOK
    <2>4. /\ UNCHANGED <<committed, cursor, handlerVars, dbVars, historyVars, sent, published>>
          /\ reply' \in [Request -> {"none", "success", "error"}]
      BY <1>0, <1>6 DEF ProbeReturns, ReleaseReturns, CallbacksEnd, TypeOK
    <2>5. TypeOK'
      BY <1>0, <2>2, <2>3, <2>4 DEF TypeOK
    <2>6. Connected' /\ Marks'
      BY <1>0, <2>1, <2>2, <2>3, <2>4, ConnectedKept, MarksKept
    <2> QED
      BY <2>5, <2>6 DEF TypeInv
  <1>7. CASE CallbackRuns(r) \/ CallbackFails(r)
    <2>1. cursor[r] \in Nat /\ cursor[r] < Len(scope[r].callbacks)
      BY <1>0, <1>7 DEF CallbackRuns, CallbackFails, NextCallback, TypeOK
    <2>2. scope[r].callbacks \in Seq(Write)
      BY <1>0 DEF TransactionScope
    <2>3. scope[r].callbacks[cursor[r] + 1] \in Write
      <3>1. cursor[r] + 1 \in 1 .. Len(scope[r].callbacks)
        BY <2>1, <2>2, LenProperties
      <3> QED
        BY <2>2, <3>1, ElementOfSeq
    <2>4. /\ UNCHANGED <<pc, committed, reply, handlerVars, dbVars, historyVars, scope, sent>>
          /\ cursor' = [cursor EXCEPT ![r] = cursor[r] + 1]
          /\ \/ published' = published
             \/ published' = published \cup {scope[r].callbacks[cursor[r] + 1]}
      BY <1>7 DEF CallbackRuns, CallbackFails, NextCallback
    <2>5. cursor[r] + 1 \in Nat /\ published' \in SUBSET Write
      BY <1>0, <2>1, <2>3, <2>4 DEF TypeOK
    <2>6. TypeOK'
      BY <1>0, <2>4, <2>5 DEF TypeOK
    <2>7. Connected' /\ Marks'
      BY <1>0, <2>4, ConnectedKept, MarksKept
    <2> QED
      BY <2>6, <2>7 DEF TypeInv
  <1> QED
    BY <1>1, <1>2, <1>3, <1>4, <1>5, <1>6, <1>7 DEF OwnerStep, Interrupted

LEMMA HandlerTypeStep ==
  ASSUME TypeInv, NEW r \in Request, HandlerStep(r)
  PROVE  TypeInv'
  <1> USE DEF ownerVars, handlerVars, dbVars, historyVars, InHandler, Inside
  <1>0. TypeOK /\ Connected /\ Marks /\ scope[r] \in TransactionScope
    BY DEF TypeInv, TypeOK
  <1>1. CASE SpawnChild(r) \/ Catch(r) \/ \E kind \in {"error", "redirect"} : Raise(r, kind)
    <2>1. /\ UNCHANGED <<ownerVars, stack, dbVars, historyVars, scope, sent, published>>
          /\ steps' \in [Request -> Nat]
          /\ child' \in [Request -> BOOLEAN]
          /\ exc' \in [Request -> {"none", "error", "redirect"}]
      BY <1>0, <1>1, StepType, ThrowType DEF SpawnChild, Catch, Raise, TypeOK
    <2>2. TypeOK'
      BY <1>0, <2>1 DEF TypeOK
    <2>3. Connected' /\ Marks'
      BY <1>0, <2>1, ConnectedKept, MarksKept
    <2> QED
      BY <2>2, <2>3 DEF TypeInv
  <1>2. CASE ExecuteFails(r) \/ EnterSavepointFails(r)
    <2>1. Sess(r) \in Session
      BY <1>2, SessType DEF ExecuteFails, EnterSavepointFails
    <2>2. \E s \in Session : SetSession(r, s)
      <3>1. Sess(r).tx \in {"idle", "open", "aborted", "indoubt"}
        BY <2>1 DEF Session
      <3> QED
        BY <1>2, <2>1, <3>1, SessionEdits DEF ExecuteFails, EnterSavepointFails
    <2>3. session' \in [Connection -> Session]
      BY <1>0, <2>2, SetSessionType
    <2>4. /\ scope' \in [Request -> TransactionScope]
          /\ \A q \in Request :
               scope'[q].conn = scope[q].conn /\ scope'[q].callbacks = scope[q].callbacks
      BY <1>0, <1>2, RollbackOnlyType DEF ExecuteFails, EnterSavepointFails, TypeOK
    <2>5. /\ UNCHANGED <<ownerVars, stack, child, durable, historyVars, sent, published>>
          /\ steps' \in [Request -> Nat]
          /\ exc' \in [Request -> {"none", "error", "redirect"}]
      BY <1>0, <1>2, StepType, ThrowType DEF ExecuteFails, EnterSavepointFails, TypeOK
    <2>6. TypeOK'
      BY <1>0, <2>3, <2>4, <2>5 DEF TypeOK
    <2>7. Connected' /\ Marks'
      BY <1>0, <2>4, <2>5, ConnectedKept, MarksKept
    <2> QED
      BY <2>6, <2>7 DEF TypeInv
  <1>3. CASE EnterSavepoint(r) \/ \E kind \in Joined : EnterJoined(r, kind)
    <2>1. /\ UNCHANGED <<ownerVars, exc, child, dbVars, historyVars, scope, sent, published>>
          /\ pc[r] = "handler"
          /\ steps' \in [Request -> Nat]
          /\ \E kind \in Joined \cup {"savepoint"} : Push(r, kind)
      BY <1>0, <1>3, StepType DEF EnterSavepoint, EnterJoined
    <2>2. stack' \in [Request -> Seq(Frame)] /\ Marks'
      BY <2>1, PushType
    <2>3. TypeOK'
      BY <1>0, <2>1, <2>2 DEF TypeOK
    <2>4. Connected'
      BY <1>0, <2>1, ConnectedKept
    <2> QED
      BY <2>2, <2>3, <2>4 DEF TypeInv
  <1>4. CASE LeaveJoined(r) \/ UnwindRedirect(r) \/ LeaveSavepoint(r)
    <2>1. /\ UNCHANGED <<ownerVars, steps, child, dbVars, historyVars, scope, sent, published>>
          /\ stack[r] # <<>> /\ Pop(r)
          /\ exc' \in [Request -> {"none", "error", "redirect"}]
      BY <1>0, <1>4 DEF LeaveJoined, UnwindRedirect, LeaveSavepoint, Throw, TypeOK
    <2>2. stack' \in [Request -> Seq(Frame)] /\ Marks'
      BY <1>0, <2>1, PopType, PopMarks
    <2>3. TypeOK'
      BY <1>0, <2>1, <2>2 DEF TypeOK
    <2>4. Connected'
      BY <1>0, <2>1, ConnectedKept
    <2> QED
      BY <2>2, <2>3, <2>4 DEF TypeInv
  <1>5. CASE LeaveViewFailed(r) \/ UnwindJoined(r)
    <2>1. /\ UNCHANGED <<ownerVars, exc, steps, child, dbVars, work, sent, published>>
          /\ pc[r] = "handler"
          /\ stack[r] # <<>> /\ Pop(r) /\ RollbackOnly(r) /\ Tear(r)
      BY <1>5 DEF LeaveViewFailed, UnwindJoined
    <2>2. /\ scope' \in [Request -> TransactionScope]
          /\ \A q \in Request :
               scope'[q].conn = scope[q].conn /\ scope'[q].callbacks = scope[q].callbacks
      BY <1>0, <2>1, RollbackOnlyType
    <2>3. stack' \in [Request -> Seq(Frame)] /\ Marks'
      BY <1>0, <2>1, <2>2, PopType, PopMarks
    <2>4. Sess(r).pending \in SUBSET Write
      BY <2>1, SessType, SessionEdits
    <2>5. torn' \in SUBSET Write
      BY <1>0, <2>1, <2>4 DEF Tear, TypeOK
    <2>6. TypeOK'
      BY <1>0, <2>1, <2>2, <2>3, <2>5 DEF TypeOK
    <2>7. Connected'
      BY <1>0, <2>1, <2>2, ConnectedKept
    <2> QED
      BY <2>3, <2>6, <2>7 DEF TypeInv
  <1>6. CASE LeaveSavepointFails(r) \/ UnwindSavepointFails(r)
    <2>1. /\ UNCHANGED <<ownerVars, steps, child, durable, historyVars, sent, published>>
          /\ pc[r] = "handler"
          /\ stack[r] # <<>> /\ Pop(r) /\ RollbackOnly(r)
          /\ exc' \in [Request -> {"none", "error", "redirect"}]
      BY <1>0, <1>6 DEF LeaveSavepointFails, UnwindSavepointFails, Throw, TypeOK
    <2>2. /\ scope' \in [Request -> TransactionScope]
          /\ \A q \in Request :
               scope'[q].conn = scope[q].conn /\ scope'[q].callbacks = scope[q].callbacks
      BY <1>0, <2>1, RollbackOnlyType
    <2>3. stack' \in [Request -> Seq(Frame)] /\ Marks' /\ Top(r) \in Frame
      BY <1>0, <2>1, <2>2, PopType, PopMarks
    <2>4. Sess(r) \in Session /\ Sess(r).tx \in {"idle", "open", "aborted", "indoubt"}
      BY <2>1, SessType DEF Session
    <2>5. Top(r).pending \in SUBSET Write
      BY <2>3 DEF Frame
    <2>6. \E s \in Session : SetSession(r, s)
      BY <1>6, <2>4, <2>5, SessionEdits
         DEF LeaveSavepointFails, UnwindSavepointFails, ToSavepoint
    <2>7. session' \in [Connection -> Session]
      BY <1>0, <2>6, SetSessionType
    <2>8. TypeOK'
      BY <1>0, <2>1, <2>2, <2>3, <2>7 DEF TypeOK
    <2>9. Connected'
      BY <1>0, <2>1, <2>2, ConnectedKept
    <2> QED
      BY <2>3, <2>8, <2>9 DEF TypeInv
  <1>7. CASE UnwindSavepoint(r)
    <2>1. /\ UNCHANGED <<ownerVars, exc, steps, child, durable, torn, sent, published>>
          /\ pc[r] = "handler"
          /\ stack[r] # <<>> /\ Pop(r)
          /\ SetSession(r, ToSavepoint(r))
          /\ work' = [work EXCEPT ![r] = Top(r).work]
      BY <1>7 DEF UnwindSavepoint
    <2>2. stack' \in [Request -> Seq(Frame)] /\ Top(r) \in Frame
      BY <1>0, <2>1, PopType
    <2>3. Top(r).pending \in SUBSET Write /\ Top(r).work \in SUBSET Write
      BY <2>2 DEF Frame
    <2>4. session' \in [Connection -> Session]
      BY <1>0, <2>1, <2>3, SessType, SessionEdits, SetSessionType DEF ToSavepoint
    <2>5. /\ scope' \in [Request -> TransactionScope]
          /\ \A q \in Request : scope'[q].conn = scope[q].conn
      BY <1>7, UnwindScope
    <2>6. TypeOK'
      BY <1>0, <2>1, <2>2, <2>3, <2>4, <2>5 DEF TypeOK
    <2>7. Connected' /\ Marks'
      BY <1>0, <1>7, <2>1, <2>5, ConnectedKept, UnwindMarks
    <2> QED
      BY <2>6, <2>7 DEF TypeInv
  <1> QED
    BY <1>1, <1>2, <1>3, <1>4, <1>5, <1>6, <1>7 DEF HandlerStep

LEMMA TaskTypeStep ==
  ASSUME TypeInv, NEW r \in Request, TaskStep(r)
  PROVE  TypeInv'
  <1> USE DEF ownerVars, handlerVars, dbVars, historyVars
  <1>0. TypeOK /\ Connected /\ Marks /\ scope[r] \in TransactionScope
    BY DEF TypeInv, TypeOK
  <1> PICK role \in Role :
        \/ Execute(r, role)
        \/ \E w \in Writes(r) : OnCommit(r, role, w)
        \/ PrepareRefused(r, role) \/ PrepareAllowed(r, role)
    BY DEF TaskStep
  <1>1. CASE Execute(r, role)
    <2>1. /\ UNCHANGED <<ownerVars, exc, stack, child, durable, torn, scope, sent, published>>
          /\ steps' \in [Request -> Nat]
          /\ steps'[r] \in Nat
          /\ pc[r] \in {"handler", "callbacks"}
      BY <1>0, <1>1 DEF Execute, Step, TypeOK, Running, CurrentScope
    <2>2. <<r, steps'[r]>> \in Write
      BY <2>1 DEF Write
    <2>3. Sess(r) \in Session /\ Sess(r).pending \in SUBSET Write
      BY <2>1, SessType, SessionEdits
    <2>4. [Sess(r) EXCEPT !.pending = @ \cup {<<r, steps'[r]>>}] \in Session
      BY <2>2, <2>3, SessionEdits
    <2>5. session' \in [Connection -> Session]
      BY <1>0, <1>1, <2>4, SetSessionType DEF Execute
    <2>6. work' \in [Request -> SUBSET Write]
      BY <1>0, <1>1, <2>2 DEF Execute, TypeOK
    <2>7. TypeOK'
      BY <1>0, <2>1, <2>5, <2>6 DEF TypeOK
    <2>8. Connected' /\ Marks'
      BY <1>0, <2>1, ConnectedKept, MarksKept
    <2> QED
      BY <2>7, <2>8 DEF TypeInv
  <1>2. CASE \E w \in Writes(r) : OnCommit(r, role, w)
    <2> PICK w \in Writes(r) : OnCommit(r, role, w)
      BY <1>2
    <2>1. /\ UNCHANGED <<ownerVars, exc, stack, child, dbVars, historyVars, sent, published>>
          /\ steps' \in [Request -> Nat]
      BY <1>0, StepType DEF OnCommit
    <2>2. /\ scope' \in [Request -> TransactionScope]
          /\ \A q \in Request : scope'[q].conn = scope[q].conn
          /\ \A q \in Request \ {r} : scope'[q] = scope[q]
          /\ Len(scope'[r].callbacks) = Len(scope[r].callbacks) + 1
          /\ Len(scope[r].callbacks) \in Nat
      BY OnCommitScope
    <2>3. TypeOK'
      BY <1>0, <2>1, <2>2 DEF TypeOK
    <2>4. Marks'
      <3>1. ASSUME NEW q \in Request, NEW i \in 1 .. Len(stack[q])
            PROVE  /\ stack[q][i].mark \in Nat
                   /\ stack[q][i].mark <= Len(scope'[q].callbacks)
        <4>1. stack[q] \in Seq(Frame)
          BY <1>0 DEF TypeOK
        <4>2. stack[q][i].mark \in Nat
          <5>1. stack[q][i] \in Frame
            BY <4>1, ElementOfSeq
          <5> QED
            BY <5>1 DEF Frame
        <4>3. stack[q][i].mark <= Len(scope[q].callbacks)
          BY <1>0 DEF Marks
        <4> QED
          BY <2>2, <4>2, <4>3
      <3> QED
        BY <1>0, <2>1, <3>1 DEF Marks
    <2>5. Connected'
      BY <1>0, <2>1, <2>2, ConnectedKept
    <2> QED
      BY <2>3, <2>4, <2>5 DEF TypeInv
  <1>3. CASE PrepareRefused(r, role)
    <2> DEFINE s == [scope[r] EXCEPT !.rollbackOnly = TRUE, !.violation = TRUE]
    <2>1. /\ s \in TransactionScope
          /\ s.conn = scope[r].conn
          /\ s.callbacks = scope[r].callbacks
      <3>1. s \in TransactionScope
        BY <1>0, ScopeEdits
      <3> QED
        BY <1>0, <3>1 DEF TransactionScope
    <2>2. scope' = [scope EXCEPT ![r] = s]
      BY <1>3 DEF PrepareRefused
    <2> HIDE DEF s
    <2>3. /\ scope' \in [Request -> TransactionScope]
          /\ \A q \in Request :
               scope'[q].conn = scope[q].conn /\ scope'[q].callbacks = scope[q].callbacks
      BY <1>0, <2>1, <2>2, ScopeUpdate
    <2>4. /\ UNCHANGED <<ownerVars, stack, child, dbVars, historyVars, sent, published>>
          /\ steps' \in [Request -> Nat]
          /\ exc' \in [Request -> {"none", "error", "redirect"}]
      BY <1>0, <1>3, StepType, ThrowType DEF PrepareRefused, TypeOK
    <2>5. TypeOK'
      BY <1>0, <2>3, <2>4 DEF TypeOK
    <2>6. Connected' /\ Marks'
      BY <1>0, <2>3, <2>4, ConnectedKept, MarksKept
    <2> QED
      BY <2>5, <2>6 DEF TypeInv
  <1>4. CASE PrepareAllowed(r, role)
    <2>1. TypeOK'
      BY <1>0, <1>4 DEF PrepareAllowed, TypeOK
    <2>2. Connected' /\ Marks'
      BY <1>0, <1>4, ConnectedKept, MarksKept DEF PrepareAllowed
    <2> QED
      BY <2>1, <2>2 DEF TypeInv
  <1> QED
    BY <1>1, <1>2, <1>3, <1>4

LEMMA PoolTypeStep ==
  ASSUME TypeInv, NEW c \in Connection, ServerCommits(c) \/ PoolResets(c)
  PROVE  TypeInv'
  <1> USE DEF ownerVars, handlerVars, dbVars, historyVars
  <1>1. TypeOK /\ Connected /\ Marks /\ session[c] \in Session /\ FreeSession \in Session
    BY DEF TypeInv, TypeOK, FreeSession, Session
  <1>2. /\ Ended(session[c]) \in Session
        /\ session[c].pending \in SUBSET Write
    BY <1>1, SessionEdits
  <1>3. session' \in [Connection -> Session] /\ durable' \in SUBSET Write
    BY <1>1, <1>2 DEF ServerCommits, PoolResets, TypeOK
  <1>4. UNCHANGED <<ownerVars, handlerVars, historyVars, scope, sent, published>>
    BY DEF ServerCommits, PoolResets
  <1>5. TypeOK'
    BY <1>1, <1>3, <1>4 DEF TypeOK
  <1>6. Connected' /\ Marks'
    BY <1>1, <1>4, ConnectedKept, MarksKept
  <1> QED
    BY <1>5, <1>6 DEF TypeInv

LEMMA TypeStep == TypeInv /\ [Next]_vars => TypeInv'
  <1> SUFFICES ASSUME TypeInv, [Next]_vars PROVE TypeInv'
    OBVIOUS
  <1>1. CASE UNCHANGED vars
    BY <1>1 DEF vars, ownerVars, handlerVars, dbVars, historyVars, TypeInv, TypeOK,
                Connected, Marks
  <1>2. CASE Next
    BY <1>1, <1>2, OwnerTypeStep, HandlerTypeStep, TaskTypeStep, PoolTypeStep
       DEF Next, Finished
  <1> QED
    BY <1>1, <1>2

\* Every variable keeps its type, a suspended owner has a connection, and every
\* savepoint remembers a prefix of the callbacks.
THEOREM TypeCorrect == Spec => []TypeInv
  BY TypeInit, TypeStep, PTL DEF Spec

(***************************************************************************)
(* Safety: SafetyInv is inductive, and what follows from it.               *)
(***************************************************************************)

\* A step of request r touches no other request, no connection that another
\* request holds, and no write of another request.
LocalStep(r) ==
  /\ \A q \in Request \ {r} :
       /\ pc'[q] = pc[q] /\ scope'[q] = scope[q] /\ stack'[q] = stack[q]
       /\ work'[q] = work[q] /\ committed'[q] = committed[q] /\ reply'[q] = reply[q]
       /\ steps'[q] = steps[q]
  /\ \A c \in Connection :
       session'[c] # session[c] =>
         c = scope'[r].conn /\ (session[c].state = "free" \/ session[c].holder = r)
  /\ durable \subseteq durable' /\ durable' \ durable \subseteq Own(r)
  /\ torn \subseteq torn' /\ torn' \ torn \subseteq Own(r)

LEMMA OwnDisjoint ==
  ASSUME NEW r \in Request, NEW q \in Request \ {r}
  PROVE  Own(r) \cap Own(q) = {}
  BY DEF Own

LEMMA OthersWrites ==
  ASSUME NEW r \in Request, LocalStep(r), NEW q \in Request \ {r}
  PROVE  /\ Durable(q)' = Durable(q)
         /\ \A W \in SUBSET Own(q) : torn' \cap W = torn \cap W
  <1>1. Own(r) \cap Own(q) = {}
    BY OwnDisjoint
  <1>2. \A W \in SUBSET Own(q) : torn' \cap W = torn \cap W
    BY <1>1 DEF LocalStep
  <1>3. \A w \in Own(r) : w[1] = r
    BY DEF Own
  <1>4. Durable(q)' = Durable(q)
    BY <1>3 DEF LocalStep, Durable
  <1> QED
    BY <1>2, <1>4

LEMMA OthersKept ==
  ASSUME TypeInv, SafetyInv, NEW r \in Request, LocalStep(r), NEW q \in Request \ {r}
  PROVE  RequestInv(q)'
  <1>1. /\ pc'[q] = pc[q] /\ scope'[q] = scope[q] /\ stack'[q] = stack[q]
        /\ work'[q] = work[q] /\ committed'[q] = committed[q] /\ reply'[q] = reply[q]
        /\ steps'[q] = steps[q]
        /\ durable \subseteq durable'
    BY DEF LocalStep
  <1>2. RequestInv(q)
    BY DEF SafetyInv
  <1>3. ASSUME Owning(q) PROVE Sess(q)' = Sess(q)
    <2>1. scope[q].conn \in Connection
      BY <1>3 DEF TypeInv, Connected, Owning
    <2>2. Sess(q).holder = q /\ Sess(q).state = "held"
      BY <1>2, <1>3 DEF RequestInv, HoldInv
    <2>3. session'[scope[q].conn] = session[scope[q].conn]
      BY <2>1, <2>2 DEF LocalStep, Sess
    <2> QED
      BY <1>1, <2>3 DEF Sess
  <1>4. Durable(q)' = Durable(q)
    BY OthersWrites
  <1>5. \A W \in SUBSET Own(q) : torn' \cap W = torn \cap W
    BY OthersWrites
  <1>6. LifecycleInv(q)'
    BY <1>1, <1>2 DEF RequestInv, LifecycleInv
  <1>7. HoldInv(q)'
    BY <1>1, <1>2, <1>3 DEF RequestInv, HoldInv, Owning
  <1>8. WorkInv(q)'
    <2>1. work[q] \in SUBSET Own(q)
      BY <1>2 DEF RequestInv, WorkInv
    <2>2. Owning(q) => (Agree(q)' <=> Agree(q))
      BY <1>1, <1>3, <1>5, <2>1 DEF Agree
    <2> QED
      BY <1>1, <1>2, <2>2 DEF RequestInv, WorkInv, Owning, Own
  <1>9. FrameInv(q)'
    <2>1. CASE pc[q] # "handler"
      <3>1. stack[q] = <<>>
        BY <1>2, <2>1 DEF RequestInv, FrameInv
      <3> QED
        BY <1>1, <3>1 DEF FrameInv
    <2>2. CASE pc[q] = "handler"
      <3>1. Sess(q)' = Sess(q)
        BY <1>3, <2>2 DEF Owning
      <3>2. FrameInv(q)
        BY <1>2 DEF RequestInv
      <3>3. ASSUME NEW i \in 1 .. Len(stack[q]), ~stack[q][i].flag
            PROVE  torn' \cap stack[q][i].pending = {}
        BY <1>5, <3>2, <3>3 DEF FrameInv
      <3> QED
        BY <1>1, <2>2, <3>1, <3>2, <3>3 DEF FrameInv, Own
    <2> QED
      BY <2>1, <2>2
  <1>10. OutcomeInv(q)'
    BY <1>1, <1>2, <1>4 DEF RequestInv, OutcomeInv
  <1>11. FreshInv(q)'
    <2>1. \A w \in torn' : w[1] = q => w \in torn
      BY DEF LocalStep, Own
    <2>2. FreshInv(q)
      BY <1>2 DEF RequestInv
    <2> QED
      BY <1>1, <1>3, <2>1, <2>2 DEF FreshInv, Owning
  <1> QED
    BY <1>6, <1>7, <1>8, <1>9, <1>10, <1>11 DEF RequestInv

LEMMA OtherSessionsKept ==
  ASSUME TypeInv, SafetyInv, NEW r \in Request, LocalStep(r),
         NEW c \in Connection, session'[c] = session[c], session[c].holder # r
  PROVE  SessionInv(c)'
  <1> DEFINE q == session[c].holder
  <1>1. SessionInv(c)
    BY DEF SafetyInv
  <1>2. CASE session[c].state = "free"
    <2>1. session'[c] = FreeSession /\ FreeSession' = FreeSession
      BY <1>1, <1>2 DEF SessionInv, FreeSession
    <2> QED
      BY <2>1 DEF SessionInv, FreeSession
  <1>3. CASE session[c].state # "free"
    <2>1. q \in Request \ {r}
      BY <1>1, <1>3 DEF SessionInv
    <2>2. /\ pc'[q] = pc[q] /\ scope'[q] = scope[q] /\ work'[q] = work[q]
          /\ committed'[q] = committed[q] /\ scope[q].conn = c
      BY <1>1, <1>3, <2>1 DEF LocalStep, SessionInv
    <2>3. Durable(q)' = Durable(q) /\ \A W \in SUBSET Own(q) : torn' \cap W = torn \cap W
      BY <2>1, OthersWrites
    <2>4. work[q] \in SUBSET Own(q)
      BY <2>1 DEF SafetyInv, RequestInv, WorkInv
    <2>5. Agree(q)' <=> Agree(q)
      BY <2>2, <2>3, <2>4 DEF Agree, Sess
    <2>6. session'[c].holder = q
      OBVIOUS
    <2> HIDE DEF q
    <2> QED
      BY <1>1, <1>3, <2>2, <2>3, <2>5, <2>6 DEF SessionInv, Owning, Own, q
  <1> QED
    BY <1>2, <1>3

\* What remains to be shown of a step of request r.
LEMMA StepKeepsSafety ==
  ASSUME TypeInv, SafetyInv, NEW r \in Request, LocalStep(r), RequestInv(r)',
         \A c \in Connection :
           session[c].holder = r \/ session'[c] # session[c] => SessionInv(c)',
         TornIsNeverDurable', PublishedIsDurable'
  PROVE  SafetyInv'
  <1>1. \A q \in Request : RequestInv(q)'
    BY OthersKept
  <1>2. \A c \in Connection : SessionInv(c)'
    BY OtherSessionsKept
  <1> QED
    BY <1>1, <1>2 DEF SafetyInv

--------------------------------------------------------------------------------
(* The connection of the request that takes the step.                      *)

LEMMA HeldSession ==
  ASSUME TypeInv, SafetyInv, NEW r \in Request, Owning(r)
  PROVE  /\ scope[r].conn \in Connection
         /\ Sess(r) \in Session
         /\ Sess(r).holder = r /\ Sess(r).state = "held"
         /\ Sess(r).pending \subseteq Own(r)
         /\ Sess(r).tx # "indoubt"
         /\ Durable(r) = {} /\ ~committed[r]
  <1>1. scope[r].conn \in Connection
    BY DEF TypeInv, Connected, Owning
  <1>2. Sess(r) \in Session
    BY <1>1 DEF TypeInv, TypeOK, Sess
  <1>3. RequestInv(r) /\ SessionInv(scope[r].conn)
    BY <1>1 DEF SafetyInv
  <1>4. Sess(r).holder = r /\ Sess(r).state = "held"
    BY <1>3 DEF RequestInv, HoldInv
  <1>5. Sess(r).pending \subseteq Own(r) /\ Sess(r).tx # "indoubt"
    BY <1>3, <1>4 DEF SessionInv, Sess
  <1>6. Durable(r) = {} /\ ~committed[r]
    BY <1>3 DEF RequestInv, OutcomeInv, Owning
  <1> QED
    BY <1>1, <1>2, <1>4, <1>5, <1>6

LEMMA HolderConn ==
  ASSUME SafetyInv, NEW r \in Request, NEW c \in Connection, session[c].holder = r
  PROVE  /\ c = scope[r].conn
         /\ session[c].state = "held" => Owning(r)
         /\ session[c].state = "returning" => pc[r] \in {"release", "done"}
         /\ session[c].state # "free"
  <1>1. SessionInv(c)
    BY DEF SafetyInv
  <1>2. session[c].state # "free"
    BY <1>1, ConstantsAssumption DEF SessionInv, FreeSession
  <1> QED
    BY <1>1, <1>2 DEF SessionInv

\* A step that leaves the database alone.
LEMMA QuietSessions ==
  ASSUME TypeInv, SafetyInv, NEW r \in Request,
         session' = session, durable' = durable, torn' = torn,
         work'[r] = work[r], committed'[r] = committed[r],
         scope'[r].conn = scope[r].conn,
         Owning(r) => Owning(r)',
         pc[r] \in {"release", "done"} =>
           pc'[r] \in {"release", "done"} \/ Sess(r).holder # r
  PROVE  \A c \in Connection :
           session[c].holder = r \/ session'[c] # session[c] => SessionInv(c)'
  <1> SUFFICES ASSUME NEW c \in Connection, session[c].holder = r
               PROVE  SessionInv(c)'
    OBVIOUS
  <1>1. /\ c = scope[r].conn
        /\ session[c].state # "free"
        /\ session[c].state = "held" => Owning(r)'
        /\ session[c].state = "returning" => pc'[r] \in {"release", "done"}
    BY HolderConn DEF Sess
  <1>2. SessionInv(c)
    BY DEF SafetyInv
  <1>3. Durable(r)' = Durable(r) /\ Own(r)' = Own(r)
    BY DEF Durable, Own
  <1>4. Agree(r)' <=> Agree(r)
    BY <1>1 DEF Agree, Sess
  <1> QED
    BY <1>1, <1>2, <1>3, <1>4 DEF SessionInv, Owning

\* A statement of the owner on its connection.
LEMMA HeldUpdate ==
  ASSUME TypeInv, SafetyInv, NEW r \in Request, Owning(r), Owning(r)',
         NEW s \in Session, s.holder = r, s.state = "held",
         s.pending \subseteq Own(r), s.tx # "indoubt",
         SetSession(r, s), scope'[r].conn = scope[r].conn
  PROVE  /\ Sess(r)' = s
         /\ \A c \in Connection :
              /\ session[c].holder = r \/ session'[c] # session[c] => SessionInv(c)'
              /\ session'[c] # session[c] => c = scope'[r].conn /\ session[c].holder = r
  <1>1. scope[r].conn \in Connection /\ Sess(r).holder = r
    BY HeldSession
  <1>2. /\ session'[scope[r].conn] = s
        /\ \A c \in Connection \ {scope[r].conn} : session'[c] = session[c]
    BY <1>1 DEF TypeInv, TypeOK, SetSession
  <1>3. SessionInv(scope[r].conn)'
    BY <1>2 DEF SessionInv, Own, Owning
  <1>4. \A c \in Connection : session[c].holder = r => c = scope[r].conn
    BY HolderConn
  <1> QED
    BY <1>1, <1>2, <1>3, <1>4 DEF Sess

\* The owner gives its connection back.
LEMMA FinallyUpdate ==
  ASSUME TypeInv, SafetyInv, NEW r \in Request, Owning(r),
         NEW s \in Session, s.holder = r, s.pending \subseteq Own(r), Finally(r, s),
         s.tx = "indoubt" =>
           /\ ~committed'[r]
           /\ s.pending = work'[r] /\ torn' \cap work'[r] = {}
           /\ Durable(r)' = {}
  PROVE  /\ pc'[r] = "release"
         /\ \A q \in Request \ {r} : pc'[q] = pc[q] /\ scope'[q] = scope[q]
         /\ scope'[r].lifecycle = "expired"
         /\ scope'[r].conn = scope[r].conn
         /\ scope'[r].callbacks = scope[r].callbacks
         /\ \A c \in Connection :
              /\ session[c].holder = r \/ session'[c] # session[c] => SessionInv(c)'
              /\ session'[c] # session[c] => c = scope'[r].conn /\ session[c].holder = r
  <1>1. scope[r].conn \in Connection /\ Sess(r).holder = r
    BY HeldSession
  <1> DEFINE t == [s EXCEPT !.state = "returning"]
             x == [scope[r] EXCEPT !.lifecycle = "expired"]
  <1>2. t \in Session /\ t.holder = r /\ t.state = "returning" /\ t.tx = s.tx /\ t.pending = s.pending
    BY DEF Session
  <1>3. x \in TransactionScope
    BY ScopeEdits DEF TypeInv, TypeOK, Lifecycle
  <1>4. x.lifecycle = "expired" /\ x.conn = scope[r].conn /\ x.callbacks = scope[r].callbacks
    BY DEF TypeInv, TypeOK, TransactionScope
  <1>5. scope' = [scope EXCEPT ![r] = x] /\ SetSession(r, t) /\ Goto(r, "release")
    BY DEF Finally
  <1> HIDE DEF t, x
  <1>6. scope'[r] = x /\ \A q \in Request \ {r} : scope'[q] = scope[q]
    BY <1>3, <1>5, ScopeUpdate DEF TypeInv
  <1>7. pc'[r] = "release" /\ \A q \in Request \ {r} : pc'[q] = pc[q]
    BY <1>5, GotoType DEF TypeInv, Label
  <1>8. /\ session'[scope[r].conn] = t
        /\ \A c \in Connection \ {scope[r].conn} : session'[c] = session[c]
    BY <1>1, <1>5 DEF TypeInv, TypeOK, SetSession
  <1>9. SessionInv(scope[r].conn)'
    <2>1. s.tx = "indoubt" => Agree(r)'
      BY <1>2, <1>4, <1>6, <1>8 DEF Agree, Sess
    <2> QED
      BY <1>2, <1>4, <1>6, <1>7, <1>8, <2>1 DEF SessionInv, Own
  <1>10. \A c \in Connection : session[c].holder = r => c = scope[r].conn
    BY HolderConn
  <1> QED
    BY <1>1, <1>4, <1>6, <1>7, <1>8, <1>9, <1>10 DEF Sess

--------------------------------------------------------------------------------
(* The handler's steps.                                                    *)

\* What a step of the handler leaves alone.
HandlerChange(r) ==
  /\ pc' = pc /\ committed' = committed /\ reply' = reply
  /\ durable' = durable /\ published' = published
  /\ \A q \in Request \ {r} :
       scope'[q] = scope[q] /\ stack'[q] = stack[q] /\ work'[q] = work[q] /\ steps'[q] = steps[q]
  /\ scope'[r].conn = scope[r].conn /\ scope'[r].lifecycle = scope[r].lifecycle
  /\ torn \subseteq torn' /\ torn' \ torn \subseteq Sess(r).pending

LEMMA HandlerSafety ==
  ASSUME TypeInv, SafetyInv, NEW r \in Request, pc[r] = "handler", HandlerChange(r),
         NEW s \in Session, SetSession(r, s), s.holder = r, s.state = "held",
         s.tx \in {"open", "aborted"}, s.pending \subseteq Own(r),
         WorkInv(r)', FrameInv(r)', FreshInv(r)'
  PROVE  SafetyInv'
  <1>1. /\ Owning(r) /\ Owning(r)'
        /\ scope'[r].conn = scope[r].conn
    BY DEF Owning, HandlerChange
  <1>2. /\ Sess(r)' = s
        /\ \A c \in Connection :
             /\ session[c].holder = r \/ session'[c] # session[c] => SessionInv(c)'
             /\ session'[c] # session[c] => c = scope'[r].conn /\ session[c].holder = r
    BY <1>1, HeldUpdate
  <1>3. Durable(r) = {} /\ ~committed[r] /\ Sess(r).pending \subseteq Own(r)
    BY <1>1, HeldSession
  <1>4. LocalStep(r)
    BY <1>2, <1>3 DEF LocalStep, HandlerChange
  <1>5. RequestInv(r)'
    <2>1. RequestInv(r)
      BY DEF SafetyInv
    <2>2. LifecycleInv(r)'
      BY <2>1 DEF RequestInv, LifecycleInv, HandlerChange
    <2>3. HoldInv(r)'
      BY <1>1, <1>2 DEF HoldInv, HandlerChange
    <2>4. OutcomeInv(r)'
      BY <1>3, <2>1 DEF RequestInv, OutcomeInv, HandlerChange, Durable
    <2> QED
      BY <2>2, <2>3, <2>4 DEF RequestInv
  <1>6. TornIsNeverDurable'
    <2>1. TornIsNeverDurable
      BY DEF SafetyInv
    <2>2. Own(r) \cap durable = {}
      BY <1>3 DEF Durable, Own
    <2> QED
      BY <1>3, <2>1, <2>2 DEF TornIsNeverDurable, HandlerChange
  <1>7. PublishedIsDurable'
    BY DEF SafetyInv, PublishedIsDurable, HandlerChange
  <1> QED
    BY <1>2, <1>4, <1>5, <1>6, <1>7, StepKeepsSafety

\* A step that leaves the connection alone.
LEMMA HandlerQuiet ==
  ASSUME TypeInv, SafetyInv, NEW r \in Request, pc[r] = "handler", HandlerChange(r),
         session' = session, WorkInv(r)', FrameInv(r)', FreshInv(r)'
  PROVE  SafetyInv'
  <1>1. /\ scope[r].conn \in Connection
        /\ Sess(r) \in Session
        /\ Sess(r).holder = r /\ Sess(r).state = "held"
        /\ Sess(r).pending \subseteq Own(r)
    BY HeldSession DEF Owning
  <1>2. Sess(r).tx \in {"open", "aborted"}
    BY DEF SafetyInv, RequestInv, HoldInv
  <1>3. SetSession(r, Sess(r))
    BY DEF SetSession, Sess, TypeInv, TypeOK
  <1> QED
    BY <1>1, <1>2, <1>3, HandlerSafety

\* The invariant, taken apart for the handler.
LEMMA HandlerFacts ==
  ASSUME TypeInv, SafetyInv, NEW r \in Request, pc[r] = "handler"
  PROVE  /\ TypeOK /\ Marks
         /\ scope[r] \in TransactionScope /\ stack[r] \in Seq(Frame)
         /\ steps[r] \in Nat /\ work[r] \in SUBSET Write
         /\ Sess(r) \in Session /\ scope[r].conn \in Connection
         /\ Sess(r).holder = r /\ Sess(r).state = "held"
         /\ Sess(r).pending \subseteq Own(r) /\ Sess(r).tx \in {"open", "aborted"}
         /\ Own(r)' = Own(r)
         /\ WorkInv(r) /\ FrameInv(r) /\ FreshInv(r)
  <1>1. Owning(r)
    BY DEF Owning
  <1>2. RequestInv(r)
    BY DEF SafetyInv
  <1>3. Own(r)' = Own(r)
    BY DEF Own
  <1> QED
    BY <1>1, <1>2, <1>3, HeldSession DEF TypeInv, TypeOK, RequestInv, HoldInv

LEMMA StepOthers ==
  ASSUME TypeOK, NEW r \in Request, Step(r)
  PROVE  /\ steps'[r] = steps[r] + 1
         /\ \A q \in Request \ {r} : steps'[q] = steps[q]
  BY DEF TypeOK, Step

LEMMA RollbackOnlyFields ==
  ASSUME TypeOK, NEW r \in Request, RollbackOnly(r)
  PROVE  /\ scope'[r].conn = scope[r].conn
         /\ scope'[r].lifecycle = scope[r].lifecycle
         /\ scope'[r].callbacks = scope[r].callbacks
         /\ scope'[r].rollbackOnly
         /\ \A q \in Request \ {r} : scope'[q] = scope[q]
  <1> DEFINE s == [scope[r] EXCEPT !.rollbackOnly = TRUE]
  <1>1. scope[r] \in TransactionScope
    BY DEF TypeOK
  <1>2. s \in TransactionScope
    BY <1>1, ScopeEdits
  <1>3. /\ s.conn = scope[r].conn /\ s.lifecycle = scope[r].lifecycle
        /\ s.callbacks = scope[r].callbacks /\ s.rollbackOnly
    BY <1>1 DEF TransactionScope
  <1>4. scope' = [scope EXCEPT ![r] = s]
    BY DEF RollbackOnly
  <1> HIDE DEF s
  <1> QED
    BY <1>2, <1>3, <1>4, ScopeUpdate

\* Only the exception, the step counter or the child flag changes.
LEMMA StepOnlySafety ==
  ASSUME TypeInv, SafetyInv, NEW r \in Request, pc[r] = "handler", Step(r),
         UNCHANGED <<ownerVars, stack, dbVars, historyVars, scope, published>>
  PROVE  SafetyInv'
  <1> USE DEF ownerVars, dbVars, historyVars
  <1>1. /\ TypeOK /\ steps[r] \in Nat /\ Own(r)' = Own(r)
        /\ WorkInv(r) /\ FrameInv(r) /\ FreshInv(r)
        /\ Sess(r) \in Session
    BY HandlerFacts
  <1>2. steps'[r] = steps[r] + 1 /\ \A q \in Request \ {r} : steps'[q] = steps[q]
    BY <1>1, StepOthers
  <1>3. HandlerChange(r)
    BY <1>2 DEF HandlerChange
  <1>4. WorkInv(r)'
    BY <1>1 DEF WorkInv, Agree, Sess
  <1>5. FrameInv(r)'
    BY <1>1 DEF FrameInv, Sess
  <1>6. FreshInv(r)'
    <2>1. /\ Sess(r)' = Sess(r)
          /\ \A w \in Sess(r).pending : w[2] \in Nat
          /\ \A w \in torn : w[2] \in Nat
      BY <1>1 DEF Session, TypeOK, Write, Sess
    <2> QED
      BY <1>1, <1>2, <2>1 DEF FreshInv
  <1> QED
    BY <1>3, <1>4, <1>5, <1>6, HandlerQuiet

\* The frames below the innermost one, when it is left.
LEMMA PopFrames ==
  ASSUME TypeInv, SafetyInv, NEW r \in Request, pc[r] = "handler", pc' = pc,
         stack[r] # <<>>, Pop(r),
         \A i \in 1 .. Len(stack[r]) - 1 :
           /\ stack[r][i].pending \subseteq Top(r).pending =>
                stack[r][i].pending \subseteq Sess(r)'.pending
           /\ stack[r][i].pending \subseteq Top(r).pending =>
                torn' \cap stack[r][i].pending = torn \cap stack[r][i].pending
           /\ \A k \in 1 .. stack[r][i].mark : scope'[r].callbacks[k] = scope[r].callbacks[k]
  PROVE  /\ FrameInv(r)'
         /\ \A q \in Request \ {r} : stack'[q] = stack[q]
  <1>1. TypeOK /\ FrameInv(r) /\ Own(r)' = Own(r)
    BY HandlerFacts
  <1>2. /\ \A q \in Request \ {r} : stack'[q] = stack[q]
        /\ Len(stack'[r]) = Len(stack[r]) - 1
        /\ \A i \in 1 .. Len(stack[r]) - 1 : stack'[r][i] = stack[r][i]
        /\ Top(r) = stack[r][Len(stack[r])]
        /\ Len(stack[r]) \in Nat \ {0}
    BY <1>1, PopType
  <1>9. \A i \in 1 .. Len(stack[r]) - 1 : \A j \in 1 .. i : stack'[r][j] = stack[r][j]
    BY <1>2
  <1> SUFFICES ASSUME NEW i \in 1 .. Len(stack[r]) - 1
               PROVE  /\ stack[r][i].work \subseteq Own(r)
                      /\ stack[r][i].pending \subseteq Sess(r)'.pending
                      /\ \A j \in 1 .. i : stack[r][j].pending \subseteq stack[r][i].pending
                      /\ \A k \in 1 .. stack[r][i].mark : scope'[r].callbacks[k] \in stack[r][i].work
                      /\ ~stack[r][i].flag =>
                            /\ stack[r][i].pending = stack[r][i].work
                            /\ torn' \cap stack[r][i].pending = {}
    <2> SUFFICES ASSUME NEW i \in 1 .. Len(stack'[r])
                 PROVE  /\ stack'[r][i].work \subseteq Own(r)'
                        /\ stack'[r][i].pending \subseteq Sess(r)'.pending
                        /\ \A j \in 1 .. i : stack'[r][j].pending \subseteq stack'[r][i].pending
                        /\ \A k \in 1 .. stack'[r][i].mark : scope'[r].callbacks[k] \in stack'[r][i].work
                        /\ ~stack'[r][i].flag =>
                              /\ stack'[r][i].pending = stack'[r][i].work
                              /\ torn' \cap stack'[r][i].pending = {}
      BY <1>2 DEF FrameInv
    <2>1. i \in 1 .. Len(stack[r]) - 1 /\ stack'[r][i] = stack[r][i]
      BY <1>2
    <2> QED
      BY <1>1, <1>9, <2>1
  <1>3. i \in 1 .. Len(stack[r]) /\ Len(stack[r]) \in 1 .. Len(stack[r]) /\ i \in 1 .. Len(stack[r]) - 1
    BY <1>2
  <1>4. /\ stack[r][i].work \subseteq Own(r)
        /\ \A j \in 1 .. i : stack[r][j].pending \subseteq stack[r][i].pending
        /\ \A k \in 1 .. stack[r][i].mark : scope[r].callbacks[k] \in stack[r][i].work
        /\ ~stack[r][i].flag =>
              stack[r][i].pending = stack[r][i].work /\ torn \cap stack[r][i].pending = {}
    BY <1>1, <1>3 DEF FrameInv
  <1>5. stack[r][i].pending \subseteq Top(r).pending
    <2>1. i \in 1 .. Len(stack[r])
      BY <1>3
    <2> QED
      BY <1>1, <1>2, <1>3, <2>1 DEF FrameInv
  <1>6. stack[r][i].pending \subseteq Sess(r)'.pending
    BY <1>5
  <1>7. torn' \cap stack[r][i].pending = torn \cap stack[r][i].pending
    BY <1>5
  <1>8. \A k \in 1 .. stack[r][i].mark : scope'[r].callbacks[k] = scope[r].callbacks[k]
    OBVIOUS
  <1> QED
    BY <1>4, <1>6, <1>7, <1>8

\* A new frame remembers the present.
LEMMA PushFrames ==
  ASSUME TypeInv, SafetyInv, NEW r \in Request, pc[r] = "handler", pc' = pc,
         NEW kind \in Joined \cup {"savepoint"}, Push(r, kind), UNCHANGED <<scope, session, torn>>
  PROVE  /\ FrameInv(r)'
         /\ \A q \in Request \ {r} : stack'[q] = stack[q]
  <1> DEFINE f == [kind |-> kind, flag |-> scope[r].rollbackOnly,
                   mark |-> Len(scope[r].callbacks),
                   pending |-> Sess(r).pending, work |-> work[r]]
             n == Len(stack[r])
  <1>1. /\ TypeOK /\ FrameInv(r) /\ WorkInv(r) /\ Own(r)' = Own(r)
        /\ scope[r] \in TransactionScope /\ stack[r] \in Seq(Frame)
        /\ Sess(r) \in Session /\ work[r] \in SUBSET Write
    BY HandlerFacts
  <1>2. /\ stack'[r] = Append(stack[r], f)
        /\ \A q \in Request \ {r} : stack'[q] = stack[q]
    BY <1>1 DEF Push, TypeOK
  <1>3. /\ f.flag = scope[r].rollbackOnly /\ f.mark = Len(scope[r].callbacks)
        /\ f.pending = Sess(r).pending /\ f.work = work[r]
    OBVIOUS
  <1> HIDE DEF f
  <1>4. /\ n \in Nat /\ Len(stack'[r]) = n + 1
        /\ stack'[r][n + 1] = f /\ \A i \in 1 .. n : stack'[r][i] = stack[r][i]
    BY <1>1, <1>2
  <1>5. /\ f.work \subseteq Own(r)
        /\ \A k \in 1 .. f.mark : scope[r].callbacks[k] \in f.work
        /\ ~f.flag => f.pending = f.work /\ torn \cap f.pending = {}
    BY <1>1, <1>3 DEF WorkInv, Agree
  <1>6. \A i \in 1 .. n :
          /\ stack[r][i].work \subseteq Own(r)
          /\ stack[r][i].pending \subseteq Sess(r).pending
          /\ \A j \in 1 .. i : stack[r][j].pending \subseteq stack[r][i].pending
          /\ \A k \in 1 .. stack[r][i].mark : scope[r].callbacks[k] \in stack[r][i].work
          /\ ~stack[r][i].flag =>
               stack[r][i].pending = stack[r][i].work /\ torn \cap stack[r][i].pending = {}
    BY <1>1 DEF FrameInv
  <1>7. Sess(r)' = Sess(r)
    BY DEF Sess
  <1> HIDE DEF n
  <1>8. ASSUME NEW i \in 1 .. n + 1
        PROVE  /\ stack'[r][i].work \subseteq Own(r)
               /\ stack'[r][i].pending \subseteq Sess(r).pending
               /\ \A j \in 1 .. i : stack'[r][j].pending \subseteq stack'[r][i].pending
               /\ \A k \in 1 .. stack'[r][i].mark : scope[r].callbacks[k] \in stack'[r][i].work
               /\ ~stack'[r][i].flag =>
                    stack'[r][i].pending = stack'[r][i].work /\ torn \cap stack'[r][i].pending = {}
    <2>1. CASE i \in 1 .. n
      <3>1. \A j \in 1 .. i : stack'[r][j] = stack[r][j]
        BY <1>4, <2>1
      <3> QED
        BY <1>4, <1>6, <2>1, <3>1
    <2>2. CASE i = n + 1
      <3>1. \A j \in 1 .. i : stack'[r][j].pending \subseteq f.pending
        BY <1>3, <1>4, <1>6, <2>2
      <3> QED
        BY <1>3, <1>4, <1>5, <2>2, <3>1
    <2>3. i \in 1 .. n \/ i = n + 1
      BY <1>4
    <2> QED
      BY <2>1, <2>2, <2>3
  <1> QED
    BY <1>1, <1>2, <1>4, <1>7, <1>8 DEF FrameInv

\* New writes have new numbers.
LEMMA FreshKept ==
  ASSUME TypeInv, SafetyInv, NEW r \in Request, pc[r] = "handler",
         steps'[r] \in {steps[r], steps[r] + 1},
         torn' \ torn \subseteq Sess(r).pending,
         \A w \in Sess(r)'.pending : w \in Sess(r).pending \/ w[2] = steps'[r]
  PROVE  FreshInv(r)'
  <1>1. /\ steps[r] \in Nat /\ Sess(r) \in Session /\ FreshInv(r) /\ TypeOK
    BY HandlerFacts
  <1>2. /\ \A w \in Sess(r).pending : w[2] \in Nat
        /\ \A w \in torn : w[2] \in Nat
    BY <1>1 DEF Session, Write, TypeOK
  <1>3. steps[r] <= steps'[r] /\ steps'[r] \in Nat
    BY <1>1
  <1>4. \A w \in Sess(r).pending : w[2] <= steps'[r]
    BY <1>1, <1>2, <1>3 DEF FreshInv
  <1>5. \A w \in torn : w[1] = r => w[2] <= steps'[r]
    BY <1>1, <1>2, <1>3 DEF FreshInv
  <1>6. \A w \in torn' : w[1] = r => w[2] <= steps'[r]
    BY <1>4, <1>5
  <1>7. \A w \in Sess(r)'.pending : w[2] <= steps'[r]
    BY <1>3, <1>4
  <1> QED
    BY <1>6, <1>7 DEF FreshInv

LEMMA EnterSafety ==
  ASSUME TypeInv, SafetyInv, NEW r \in Request,
         EnterSavepoint(r) \/ \E kind \in Joined : EnterJoined(r, kind)
  PROVE  SafetyInv'
  <1> USE DEF ownerVars, dbVars, historyVars
  <1>1. PICK kind \in Joined \cup {"savepoint"} : Push(r, kind)
    BY DEF EnterSavepoint, EnterJoined
  <1>2. /\ pc[r] = "handler" /\ Step(r)
        /\ UNCHANGED <<pc, committed, reply, session, durable, published, scope, work, torn>>
    BY DEF EnterSavepoint, EnterJoined, InHandler
  <1>3. /\ TypeOK /\ WorkInv(r) /\ Own(r)' = Own(r)
    BY <1>2, HandlerFacts
  <1>4. steps'[r] = steps[r] + 1 /\ \A q \in Request \ {r} : steps'[q] = steps[q]
    BY <1>2, <1>3, StepOthers
  <1>5. /\ FrameInv(r)'
        /\ \A q \in Request \ {r} : stack'[q] = stack[q]
    BY <1>1, <1>2, PushFrames
  <1>6. HandlerChange(r)
    BY <1>2, <1>4, <1>5 DEF HandlerChange
  <1>7. WorkInv(r)'
    BY <1>2, <1>3 DEF WorkInv, Agree, Sess
  <1>8. FreshInv(r)'
    BY <1>2, <1>4, FreshKept DEF Sess
  <1> QED
    BY <1>2, <1>5, <1>6, <1>7, <1>8, HandlerQuiet

LEMMA LeaveSafety ==
  ASSUME TypeInv, SafetyInv, NEW r \in Request,
         LeaveJoined(r) \/ UnwindRedirect(r) \/ LeaveSavepoint(r)
  PROVE  SafetyInv'
  <1> USE DEF ownerVars, dbVars, historyVars
  <1>1. /\ pc[r] = "handler" /\ stack[r] # <<>> /\ Pop(r)
        /\ UNCHANGED <<pc, committed, reply, session, durable, published, scope, work, torn, steps>>
    BY DEF LeaveJoined, UnwindRedirect, LeaveSavepoint, InHandler, Inside
  <1>2. /\ TypeOK /\ WorkInv(r) /\ Own(r)' = Own(r) /\ FrameInv(r) /\ Sess(r)' = Sess(r)
    BY <1>1, HandlerFacts DEF Sess
  <1>3. \A i \in 1 .. Len(stack[r]) - 1 : stack[r][i].pending \subseteq Sess(r)'.pending
    <2>1. Len(stack[r]) \in Nat
      BY <1>1, <1>2, PopType
    <2> QED
      BY <1>2, <2>1 DEF FrameInv
  <1>4. /\ FrameInv(r)'
        /\ \A q \in Request \ {r} : stack'[q] = stack[q]
    BY <1>1, <1>3, PopFrames
  <1>5. HandlerChange(r)
    BY <1>1, <1>4 DEF HandlerChange
  <1>6. WorkInv(r)'
    BY <1>1, <1>2 DEF WorkInv, Agree, Sess
  <1>7. FreshInv(r)'
    BY <1>1, <1>2, FreshKept
  <1> QED
    BY <1>1, <1>4, <1>5, <1>6, <1>7, HandlerQuiet

\* A failed joined frame: what it wrote is torn, and the scope rollback-only.
LEMMA TearSafety ==
  ASSUME TypeInv, SafetyInv, NEW r \in Request, LeaveViewFailed(r) \/ UnwindJoined(r)
  PROVE  SafetyInv'
  <1> USE DEF ownerVars, dbVars, historyVars
  <1>1. /\ pc[r] = "handler" /\ stack[r] # <<>> /\ Pop(r) /\ RollbackOnly(r)
        /\ torn' = torn \cup (Sess(r).pending \ Top(r).pending)
        /\ UNCHANGED <<pc, committed, reply, session, durable, published, work, steps>>
    BY DEF LeaveViewFailed, UnwindJoined, InHandler, Inside, Tear
  <1>2. /\ TypeOK /\ WorkInv(r) /\ Own(r)' = Own(r) /\ FrameInv(r)
    BY <1>1, HandlerFacts
  <1>3. /\ scope'[r].conn = scope[r].conn
        /\ scope'[r].lifecycle = scope[r].lifecycle
        /\ scope'[r].callbacks = scope[r].callbacks
        /\ scope'[r].rollbackOnly
        /\ \A q \in Request \ {r} : scope'[q] = scope[q]
    BY <1>1, <1>2, RollbackOnlyFields
  <1>4. Sess(r)' = Sess(r)
    BY <1>1, <1>3 DEF Sess
  <1>5. \A i \in 1 .. Len(stack[r]) - 1 :
          /\ stack[r][i].pending \subseteq Sess(r)'.pending
          /\ stack[r][i].pending \subseteq Top(r).pending =>
               torn' \cap stack[r][i].pending = torn \cap stack[r][i].pending
    <2>1. Len(stack[r]) \in Nat
      BY <1>1, <1>2, PopType
    <2>2. \A i \in 1 .. Len(stack[r]) - 1 : stack[r][i].pending \subseteq Sess(r)'.pending
      BY <1>2, <1>4, <2>1 DEF FrameInv
    <2>3. ASSUME NEW W, W \subseteq Top(r).pending
          PROVE  torn' \cap W = torn \cap W
      BY <1>1, <2>3
    <2> QED
      BY <2>2, <2>3
  <1>6. /\ FrameInv(r)'
        /\ \A q \in Request \ {r} : stack'[q] = stack[q]
    BY <1>1, <1>3, <1>5, PopFrames
  <1>7. HandlerChange(r)
    BY <1>1, <1>3, <1>6 DEF HandlerChange
  <1>8. WorkInv(r)'
    BY <1>1, <1>2, <1>3 DEF WorkInv
  <1>9. FreshInv(r)'
    BY <1>1, <1>4, FreshKept
  <1> QED
    BY <1>1, <1>6, <1>7, <1>8, <1>9, HandlerQuiet

LEMMA ExecuteSafety ==
  ASSUME TypeInv, SafetyInv, NEW r \in Request, NEW role \in Role, Execute(r, role)
  PROVE  SafetyInv'
  <1> USE DEF ownerVars, dbVars, historyVars
  <1> DEFINE w == <<r, steps'[r]>>
             s == [Sess(r) EXCEPT !.pending = @ \cup {w}]
  <1>1. /\ Step(r) /\ SetSession(r, s)
        /\ work' = [work EXCEPT ![r] = @ \cup {w}]
        /\ UNCHANGED <<pc, committed, reply, stack, durable, published, torn, scope>>
    BY DEF Execute
  <1>2. pc[r] = "handler"
    <2>1. scope[r].lifecycle = "active" /\ role = "owner" /\ Running(r, "owner")
      BY DEF Execute, CurrentScope
    <2>2. LifecycleInv(r)
      BY DEF SafetyInv, RequestInv
    <2> QED
      BY <2>1, <2>2 DEF Running, LifecycleInv
  <1>3. /\ TypeOK /\ steps[r] \in Nat /\ work[r] \in SUBSET Write
        /\ Sess(r) \in Session /\ scope[r].conn \in Connection
        /\ Sess(r).holder = r /\ Sess(r).state = "held"
        /\ Sess(r).pending \subseteq Own(r) /\ Sess(r).tx \in {"open", "aborted"}
        /\ Own(r)' = Own(r)
        /\ WorkInv(r) /\ FrameInv(r) /\ FreshInv(r)
    BY <1>2, HandlerFacts
  <1>4. steps'[r] = steps[r] + 1 /\ \A q \in Request \ {r} : steps'[q] = steps[q]
    BY <1>1, <1>3, StepOthers
  <1>5. w \in Write /\ w \in Own(r) /\ w[2] = steps'[r] /\ w[1] = r
    BY <1>3, <1>4 DEF Write, Own
  <1>6. w \notin torn
    BY <1>3, <1>4, <1>5 DEF FreshInv
  <1> HIDE DEF w
  <1>7. /\ s \in Session /\ s.holder = r /\ s.state = "held" /\ s.tx = Sess(r).tx
        /\ s.pending = Sess(r).pending \cup {w}
    BY <1>3, <1>5 DEF Session
  <1> HIDE DEF s
  <1>8. work'[r] = work[r] \cup {w} /\ \A q \in Request \ {r} : work'[q] = work[q]
    BY <1>1, <1>3 DEF TypeOK
  <1>9. Sess(r)' = s
    BY <1>1, <1>3 DEF SetSession, Sess, TypeOK
  <1>10. HandlerChange(r)
    BY <1>1, <1>4, <1>8 DEF HandlerChange
  <1>11. WorkInv(r)'
    BY <1>1, <1>2, <1>3, <1>5, <1>6, <1>7, <1>8, <1>9 DEF WorkInv, Agree
  <1>12. FrameInv(r)'
    BY <1>1, <1>3, <1>7, <1>9 DEF FrameInv
  <1>13. FreshInv(r)'
    BY <1>1, <1>2, <1>4, <1>5, <1>7, <1>9, FreshKept
  <1>14. s.pending \subseteq Own(r)
    BY <1>3, <1>5, <1>7
  <1> QED
    BY <1>1, <1>2, <1>3, <1>7, <1>10, <1>11, <1>12, <1>13, <1>14, HandlerSafety

\* A statement that fails may abort the server's transaction.
LEMMA AbortUpdate ==
  ASSUME TypeInv, SafetyInv, NEW r \in Request, pc[r] = "handler",
         NEW tx \in {"open", "aborted"}, SetSession(r, [Sess(r) EXCEPT !.tx = tx]),
         scope'[r].conn = scope[r].conn
  PROVE  \E s \in Session :
           /\ SetSession(r, s) /\ s.holder = r /\ s.state = "held"
           /\ s.tx \in {"open", "aborted"} /\ s.pending \subseteq Own(r)
           /\ Sess(r)' = s /\ Sess(r)'.pending = Sess(r).pending
  <1> DEFINE s == [Sess(r) EXCEPT !.tx = tx]
  <1>1. /\ TypeOK /\ Sess(r) \in Session /\ scope[r].conn \in Connection
        /\ Sess(r).holder = r /\ Sess(r).state = "held"
        /\ Sess(r).pending \subseteq Own(r)
    BY HandlerFacts
  <1>2. /\ s \in Session /\ s.holder = r /\ s.state = "held" /\ s.tx = tx
        /\ s.pending = Sess(r).pending
    BY <1>1 DEF Session
  <1> HIDE DEF s
  <1>3. SetSession(r, s)
    BY DEF s
  <1>4. Sess(r)' = s
    BY <1>1, <1>3 DEF SetSession, Sess, TypeOK
  <1> QED
    BY <1>1, <1>2, <1>3, <1>4

LEMMA StatementFailsSafety ==
  ASSUME TypeInv, SafetyInv, NEW r \in Request, ExecuteFails(r) \/ EnterSavepointFails(r)
  PROVE  SafetyInv'
  <1> USE DEF ownerVars, dbVars, historyVars
  <1>1. /\ pc[r] = "handler" /\ Step(r)
        /\ UNCHANGED <<pc, committed, reply, stack, durable, published, work, torn>>
    BY DEF ExecuteFails, EnterSavepointFails, InHandler
  <1>2. /\ TypeOK /\ WorkInv(r) /\ FrameInv(r) /\ Own(r)' = Own(r)
    BY <1>1, HandlerFacts
  <1>3. steps'[r] = steps[r] + 1 /\ \A q \in Request \ {r} : steps'[q] = steps[q]
    BY <1>1, <1>2, StepOthers
  <1>4. /\ scope'[r].conn = scope[r].conn
        /\ scope'[r].lifecycle = scope[r].lifecycle
        /\ scope'[r].callbacks = scope[r].callbacks
        /\ scope'[r].rollbackOnly = scope[r].rollbackOnly \/ scope'[r].rollbackOnly
        /\ \A q \in Request \ {r} : scope'[q] = scope[q]
    BY <1>2, RollbackOnlyFields DEF ExecuteFails, EnterSavepointFails
  <1>5. PICK tx \in {"open", "aborted"} : SetSession(r, [Sess(r) EXCEPT !.tx = tx])
    BY DEF ExecuteFails, EnterSavepointFails, InTransaction
  <1>6. PICK s \in Session :
          /\ SetSession(r, s) /\ s.holder = r /\ s.state = "held"
          /\ s.tx \in {"open", "aborted"} /\ s.pending \subseteq Own(r)
          /\ Sess(r)' = s /\ Sess(r)'.pending = Sess(r).pending
    BY <1>1, <1>4, <1>5, AbortUpdate
  <1>7. HandlerChange(r)
    BY <1>1, <1>3, <1>4 DEF HandlerChange
  <1>8. WorkInv(r)'
    BY <1>1, <1>2, <1>4, <1>6 DEF WorkInv, Agree
  <1>9. FrameInv(r)'
    BY <1>1, <1>2, <1>4, <1>6 DEF FrameInv
  <1>10. FreshInv(r)'
    BY <1>1, <1>3, <1>6, FreshKept
  <1> QED
    BY <1>1, <1>6, <1>7, <1>8, <1>9, <1>10, HandlerSafety

LEMMA ReleaseFailsSafety ==
  ASSUME TypeInv, SafetyInv, NEW r \in Request, LeaveSavepointFails(r)
  PROVE  SafetyInv'
  <1> USE DEF ownerVars, dbVars, historyVars
  <1>1. /\ pc[r] = "handler" /\ stack[r] # <<>> /\ Pop(r) /\ RollbackOnly(r)
        /\ UNCHANGED <<pc, committed, reply, steps, durable, published, work, torn>>
    BY DEF LeaveSavepointFails, InHandler, Inside
  <1>2. /\ TypeOK /\ WorkInv(r) /\ FrameInv(r) /\ Own(r)' = Own(r)
    BY <1>1, HandlerFacts
  <1>3. /\ scope'[r].conn = scope[r].conn
        /\ scope'[r].lifecycle = scope[r].lifecycle
        /\ scope'[r].callbacks = scope[r].callbacks
        /\ scope'[r].rollbackOnly
        /\ \A q \in Request \ {r} : scope'[q] = scope[q]
    BY <1>1, <1>2, RollbackOnlyFields
  <1>4. PICK tx \in {"open", "aborted"} : SetSession(r, [Sess(r) EXCEPT !.tx = tx])
    BY DEF LeaveSavepointFails, InTransaction
  <1>5. PICK s \in Session :
          /\ SetSession(r, s) /\ s.holder = r /\ s.state = "held"
          /\ s.tx \in {"open", "aborted"} /\ s.pending \subseteq Own(r)
          /\ Sess(r)' = s /\ Sess(r)'.pending = Sess(r).pending
    BY <1>1, <1>3, <1>4, AbortUpdate
  <1>6. \A i \in 1 .. Len(stack[r]) - 1 : stack[r][i].pending \subseteq Sess(r)'.pending
    <2>1. Len(stack[r]) \in Nat
      BY <1>1, <1>2, PopType
    <2> QED
      BY <1>2, <1>5, <2>1 DEF FrameInv
  <1>7. /\ FrameInv(r)'
        /\ \A q \in Request \ {r} : stack'[q] = stack[q]
    BY <1>1, <1>3, <1>6, PopFrames
  <1>8. HandlerChange(r)
    BY <1>1, <1>3, <1>7 DEF HandlerChange
  <1>9. WorkInv(r)'
    BY <1>1, <1>2, <1>3 DEF WorkInv
  <1>10. FreshInv(r)'
    BY <1>1, <1>5, FreshKept
  <1> QED
    BY <1>1, <1>5, <1>7, <1>8, <1>9, <1>10, HandlerSafety

\* The innermost frame, which a recovery savepoint returns to.
LEMMA TopFacts ==
  ASSUME TypeInv, SafetyInv, NEW r \in Request, pc[r] = "handler", stack[r] # <<>>
  PROVE  /\ Top(r) \in Frame /\ Len(stack[r]) \in Nat
         /\ Top(r).work \subseteq Own(r)
         /\ Top(r).pending \subseteq Sess(r).pending
         /\ \A k \in 1 .. Top(r).mark : scope[r].callbacks[k] \in Top(r).work
         /\ ~Top(r).flag => Top(r).pending = Top(r).work /\ torn \cap Top(r).pending = {}
         /\ \A i \in 1 .. Len(stack[r]) - 1 :
              \A k \in 1 .. stack[r][i].mark : k \in 1 .. Top(r).mark
  <1>1. TypeOK /\ FrameInv(r) /\ Marks
    BY HandlerFacts
  <1>2. /\ Top(r) \in Frame
        /\ Top(r) = stack[r][Len(stack[r])]
        /\ Len(stack[r]) \in Nat \ {0}
    BY <1>1, FrontLast DEF Top, TypeOK, Front, Last
  <1>3. Len(stack[r]) \in 1 .. Len(stack[r])
    BY <1>2
  <1>4. ASSUME NEW i \in 1 .. Len(stack[r]) - 1, NEW k \in 1 .. stack[r][i].mark
        PROVE  k \in 1 .. Top(r).mark
    <2>1. i \in 1 .. Len(stack[r])
      BY <1>2
    <2>2. stack[r][i].mark <= Top(r).mark
      BY <1>1, <1>2, <1>3, <2>1 DEF Marks
    <2>3. stack[r][i].mark \in Nat /\ Top(r).mark \in Nat
      <3>1. stack[r] \in Seq(Frame)
        BY <1>1 DEF TypeOK
      <3>2. stack[r][i] \in Frame
        BY <2>1, <3>1, ElementOfSeq
      <3> QED
        BY <1>2, <3>2 DEF Frame
    <2> QED
      BY <2>2, <2>3
  <1> QED
    BY <1>1, <1>2, <1>3, <1>4 DEF FrameInv

LEMMA ToSavepointUpdate ==
  ASSUME TypeInv, SafetyInv, NEW r \in Request, pc[r] = "handler", stack[r] # <<>>
  PROVE  /\ ToSavepoint(r) \in Session
         /\ ToSavepoint(r).holder = r /\ ToSavepoint(r).state = "held"
         /\ ToSavepoint(r).tx = "open" /\ ToSavepoint(r).pending = Top(r).pending
         /\ Top(r).pending \subseteq Own(r)
  <1>1. /\ Sess(r) \in Session /\ Sess(r).holder = r /\ Sess(r).state = "held"
        /\ Sess(r).pending \subseteq Own(r)
    BY HandlerFacts
  <1>2. Top(r) \in Frame /\ Top(r).pending \subseteq Sess(r).pending
    BY TopFacts
  <1>3. Top(r).pending \in SUBSET Write
    BY <1>2 DEF Frame
  <1> QED
    BY <1>1, <1>2, <1>3 DEF ToSavepoint, Session

LEMMA UnwindSafety ==
  ASSUME TypeInv, SafetyInv, NEW r \in Request, UnwindSavepoint(r)
  PROVE  SafetyInv'
  <1> USE DEF ownerVars, dbVars, historyVars
  <1> DEFINE s == ToSavepoint(r)
  <1>1. /\ pc[r] = "handler" /\ stack[r] # <<>> /\ Pop(r) /\ SetSession(r, s)
        /\ work' = [work EXCEPT ![r] = Top(r).work]
        /\ UNCHANGED <<pc, committed, reply, steps, durable, published, torn>>
    BY DEF UnwindSavepoint, Inside
  <1>2. /\ TypeOK /\ WorkInv(r) /\ FrameInv(r) /\ Own(r)' = Own(r)
        /\ scope[r].conn \in Connection
    BY <1>1, HandlerFacts
  <1>3. /\ scope'[r].conn = scope[r].conn
        /\ scope'[r].lifecycle = scope[r].lifecycle
        /\ \A q \in Request \ {r} : scope'[q] = scope[q]
        /\ scope'[r].rollbackOnly = Top(r).flag
        /\ Len(scope'[r].callbacks) = Top(r).mark
        /\ \A i \in 1 .. Top(r).mark : scope'[r].callbacks[i] = scope[r].callbacks[i]
    BY UnwindScope
  <1>4. /\ Top(r).work \subseteq Own(r)
        /\ Top(r).pending \subseteq Sess(r).pending
        /\ \A k \in 1 .. Top(r).mark : scope[r].callbacks[k] \in Top(r).work
        /\ ~Top(r).flag => Top(r).pending = Top(r).work /\ torn \cap Top(r).pending = {}
        /\ \A i \in 1 .. Len(stack[r]) - 1 :
             \A k \in 1 .. stack[r][i].mark : k \in 1 .. Top(r).mark
    BY <1>1, TopFacts
  <1>5. /\ s \in Session /\ s.holder = r /\ s.state = "held" /\ s.tx = "open"
        /\ s.pending = Top(r).pending /\ s.pending \subseteq Own(r)
    BY <1>1, ToSavepointUpdate
  <1> HIDE DEF s
  <1>6. Sess(r)' = s
    BY <1>1, <1>2, <1>3 DEF SetSession, Sess, TypeOK
  <1>7. work'[r] = Top(r).work /\ \A q \in Request \ {r} : work'[q] = work[q]
    BY <1>1, <1>2 DEF TypeOK
  <1>8. \A i \in 1 .. Len(stack[r]) - 1 :
          \A k \in 1 .. stack[r][i].mark : scope'[r].callbacks[k] = scope[r].callbacks[k]
    BY <1>3, <1>4
  <1>9. /\ FrameInv(r)'
        /\ \A q \in Request \ {r} : stack'[q] = stack[q]
    BY <1>1, <1>5, <1>6, <1>8, PopFrames
  <1>10. HandlerChange(r)
    BY <1>1, <1>3, <1>7, <1>9 DEF HandlerChange
  <1>11. WorkInv(r)'
    BY <1>1, <1>2, <1>3, <1>4, <1>5, <1>6, <1>7 DEF WorkInv, Agree
  <1>12. FreshInv(r)'
    BY <1>1, <1>4, <1>5, <1>6, FreshKept
  <1> QED
    BY <1>1, <1>5, <1>9, <1>10, <1>11, <1>12, HandlerSafety

LEMMA UnwindFailsSafety ==
  ASSUME TypeInv, SafetyInv, NEW r \in Request, UnwindSavepointFails(r)
  PROVE  SafetyInv'
  <1> USE DEF ownerVars, dbVars, historyVars
  <1>1. /\ pc[r] = "handler" /\ stack[r] # <<>> /\ Pop(r) /\ RollbackOnly(r)
        /\ UNCHANGED <<pc, committed, reply, steps, durable, published, work, torn>>
    BY DEF UnwindSavepointFails, Inside
  <1>2. PICK s \in {Sess(r), ToSavepoint(r)} : SetSession(r, s)
    BY DEF UnwindSavepointFails
  <1>3. /\ TypeOK /\ WorkInv(r) /\ FrameInv(r) /\ Own(r)' = Own(r)
        /\ scope[r].conn \in Connection
        /\ Sess(r) \in Session /\ Sess(r).holder = r /\ Sess(r).state = "held"
        /\ Sess(r).pending \subseteq Own(r) /\ Sess(r).tx \in {"open", "aborted"}
    BY <1>1, HandlerFacts
  <1>4. /\ scope'[r].conn = scope[r].conn
        /\ scope'[r].lifecycle = scope[r].lifecycle
        /\ scope'[r].callbacks = scope[r].callbacks
        /\ scope'[r].rollbackOnly
        /\ \A q \in Request \ {r} : scope'[q] = scope[q]
    BY <1>1, <1>3, RollbackOnlyFields
  <1>5. Top(r).pending \subseteq Sess(r).pending
    BY <1>1, TopFacts
  <1>6. /\ s \in Session /\ s.holder = r /\ s.state = "held" /\ s.tx \in {"open", "aborted"}
        /\ s.pending \subseteq Own(r)
        /\ Top(r).pending \subseteq s.pending /\ s.pending \subseteq Sess(r).pending
    BY <1>1, <1>2, <1>3, <1>5, ToSavepointUpdate
  <1>7. Sess(r)' = s
    BY <1>2, <1>3, <1>4 DEF SetSession, Sess, TypeOK
  <1>8. \A W : W \subseteq Top(r).pending => W \subseteq Sess(r)'.pending
    BY <1>6, <1>7
  <1>9. /\ FrameInv(r)'
        /\ \A q \in Request \ {r} : stack'[q] = stack[q]
    BY <1>1, <1>4, <1>8, PopFrames
  <1>10. HandlerChange(r)
    BY <1>1, <1>4, <1>9 DEF HandlerChange
  <1>11. WorkInv(r)'
    BY <1>1, <1>3, <1>4 DEF WorkInv
  <1>12. FreshInv(r)'
    BY <1>1, <1>6, <1>7, FreshKept
  <1> QED
    BY <1>1, <1>2, <1>6, <1>9, <1>10, <1>11, <1>12, HandlerSafety

LEMMA OnCommitSafety ==
  ASSUME TypeInv, SafetyInv, NEW r \in Request, NEW role \in Role,
         NEW w \in Writes(r), OnCommit(r, role, w)
  PROVE  SafetyInv'
  <1> USE DEF ownerVars, dbVars, historyVars
  <1>1. /\ Step(r) /\ w \in work[r]
        /\ UNCHANGED <<pc, committed, reply, stack, session, durable, published, work, torn>>
    BY DEF OnCommit
  <1>2. pc[r] = "handler"
    <2>1. scope[r].lifecycle = "active" /\ role = "owner" /\ Running(r, "owner")
      BY DEF OnCommit, CurrentScope
    <2>2. LifecycleInv(r)
      BY DEF SafetyInv, RequestInv
    <2> QED
      BY <2>1, <2>2 DEF Running, LifecycleInv
  <1>3. /\ TypeOK /\ Marks /\ WorkInv(r) /\ FrameInv(r) /\ Own(r)' = Own(r)
        /\ stack[r] \in Seq(Frame)
    BY <1>2, HandlerFacts
  <1>4. steps'[r] = steps[r] + 1 /\ \A q \in Request \ {r} : steps'[q] = steps[q]
    BY <1>1, <1>3, StepOthers
  <1>5. /\ scope'[r].conn = scope[r].conn
        /\ \A q \in Request \ {r} : scope'[q] = scope[q]
        /\ scope'[r].lifecycle = scope[r].lifecycle
        /\ scope'[r].rollbackOnly = scope[r].rollbackOnly
        /\ Len(scope'[r].callbacks) = Len(scope[r].callbacks) + 1
        /\ Len(scope[r].callbacks) \in Nat
        /\ \A i \in 1 .. Len(scope[r].callbacks) :
             scope'[r].callbacks[i] = scope[r].callbacks[i]
        /\ scope'[r].callbacks[Len(scope[r].callbacks) + 1] = w
    BY OnCommitScope
  <1>6. Sess(r)' = Sess(r)
    BY <1>1, <1>5 DEF Sess
  <1>7. HandlerChange(r)
    BY <1>1, <1>4, <1>5 DEF HandlerChange
  <1>8. WorkInv(r)'
    <2>1. \A i \in 1 .. Len(scope'[r].callbacks) : scope'[r].callbacks[i] \in work[r]
      <3>1. \A i \in 1 .. Len(scope[r].callbacks) : scope[r].callbacks[i] \in work[r]
        BY <1>3 DEF WorkInv
      <3> QED
        BY <1>1, <1>5, <3>1
    <2>2. Agree(r)' <=> Agree(r)
      BY <1>1, <1>6 DEF Agree
    <2> QED
      BY <1>1, <1>2, <1>3, <1>5, <2>1, <2>2 DEF WorkInv
  <1>9. FrameInv(r)'
    <2>1. ASSUME NEW i \in 1 .. Len(stack[r]), NEW k \in 1 .. stack[r][i].mark
          PROVE  scope'[r].callbacks[k] = scope[r].callbacks[k]
      <3>1. stack[r][i].mark \in Nat
        <4>1. stack[r][i] \in Frame
          BY <1>3, ElementOfSeq
        <4> QED
          BY <4>1 DEF Frame
      <3>2. stack[r][i].mark <= Len(scope[r].callbacks)
        BY <1>3 DEF Marks
      <3>3. Len(scope[r].callbacks) \in Nat
        BY <1>5
      <3>4. k \in 1 .. Len(scope[r].callbacks)
        BY <3>1, <3>2, <3>3
      <3> QED
        BY <1>5, <3>4
    <2> QED
      BY <1>1, <1>3, <1>6, <2>1 DEF FrameInv
  <1>10. FreshInv(r)'
    BY <1>1, <1>2, <1>4, <1>6, FreshKept
  <1> QED
    BY <1>1, <1>2, <1>7, <1>8, <1>9, <1>10, HandlerQuiet

LEMMA HandlerSafetyStep ==
  ASSUME TypeInv, SafetyInv, NEW r \in Request, HandlerStep(r)
  PROVE  SafetyInv'
  <1>1. CASE SpawnChild(r) \/ Catch(r) \/ \E kind \in {"error", "redirect"} : Raise(r, kind)
    <2>1. /\ pc[r] = "handler" /\ Step(r)
          /\ UNCHANGED <<ownerVars, stack, dbVars, historyVars, scope, published>>
      BY <1>1 DEF SpawnChild, Catch, Raise, InHandler
    <2> QED
      BY <2>1, StepOnlySafety
  <1>2. CASE EnterSavepoint(r) \/ \E kind \in Joined : EnterJoined(r, kind)
    BY <1>2, EnterSafety
  <1>3. CASE LeaveJoined(r) \/ UnwindRedirect(r) \/ LeaveSavepoint(r)
    BY <1>3, LeaveSafety
  <1>4. CASE LeaveViewFailed(r) \/ UnwindJoined(r)
    BY <1>4, TearSafety
  <1>5. CASE ExecuteFails(r) \/ EnterSavepointFails(r)
    BY <1>5, StatementFailsSafety
  <1>6. CASE LeaveSavepointFails(r)
    BY <1>6, ReleaseFailsSafety
  <1>7. CASE UnwindSavepoint(r)
    BY <1>7, UnwindSafety
  <1>8. CASE UnwindSavepointFails(r)
    BY <1>8, UnwindFailsSafety
  <1> QED
    BY <1>1, <1>2, <1>3, <1>4, <1>5, <1>6, <1>7, <1>8 DEF HandlerStep

--------------------------------------------------------------------------------
(* Preparing a response.                                                   *)

LEMMA PrepareSafety ==
  ASSUME TypeInv, SafetyInv, NEW r \in Request, NEW role \in Role,
         PrepareRefused(r, role) \/ PrepareAllowed(r, role)
  PROVE  SafetyInv'
  <1> USE DEF ownerVars, handlerVars, dbVars, historyVars
  <1>0. TypeOK /\ scope[r] \in TransactionScope /\ steps[r] \in Nat /\ RequestInv(r)
    BY DEF TypeInv, TypeOK, SafetyInv
  <1>1. UNCHANGED <<pc, committed, reply, stack, session, durable, published, work, torn>>
    BY DEF PrepareRefused, PrepareAllowed
  <1>2. /\ steps'[r] \in Nat /\ steps[r] <= steps'[r]
        /\ \A q \in Request \ {r} : steps'[q] = steps[q]
    BY <1>0, StepOthers DEF PrepareRefused, PrepareAllowed
  <1>3. /\ scope'[r].conn = scope[r].conn
        /\ scope'[r].lifecycle = scope[r].lifecycle
        /\ scope'[r].callbacks = scope[r].callbacks
        /\ scope'[r].rollbackOnly = scope[r].rollbackOnly \/ scope'[r].rollbackOnly
        /\ \A q \in Request \ {r} : scope'[q] = scope[q]
    <2>1. CASE PrepareRefused(r, role)
      <3> DEFINE s == [scope[r] EXCEPT !.rollbackOnly = TRUE, !.violation = TRUE]
      <3>1. s \in TransactionScope
        BY <1>0, ScopeEdits
      <3>2. /\ s.conn = scope[r].conn /\ s.lifecycle = scope[r].lifecycle
            /\ s.callbacks = scope[r].callbacks /\ s.rollbackOnly
        BY <1>0, <3>1 DEF TransactionScope
      <3>3. scope' = [scope EXCEPT ![r] = s]
        BY <2>1 DEF PrepareRefused
      <3> HIDE DEF s
      <3> QED
        BY <1>0, <3>1, <3>2, <3>3, ScopeUpdate
    <2>2. CASE PrepareAllowed(r, role)
      BY <2>2 DEF PrepareAllowed
    <2> QED
      BY <2>1, <2>2
  <1>4. LocalStep(r)
    BY <1>1, <1>2, <1>3 DEF LocalStep
  <1>5. RequestInv(r)'
    <2>1. Sess(r)' = Sess(r) /\ Durable(r)' = Durable(r) /\ Own(r)' = Own(r)
      BY <1>1, <1>3 DEF Sess, Durable, Own
    <2>2. LifecycleInv(r)' /\ HoldInv(r)'
      BY <1>0, <1>1, <1>3, <2>1 DEF RequestInv, LifecycleInv, HoldInv, Owning
    <2>3. WorkInv(r)'
      BY <1>0, <1>1, <1>3, <2>1 DEF RequestInv, WorkInv, Agree
    <2>4. FrameInv(r)'
      BY <1>0, <1>1, <1>3, <2>1 DEF RequestInv, FrameInv
    <2>5. FreshInv(r)'
      <3>1. \A w \in torn : w[2] \in Nat
        BY <1>0 DEF TypeOK, Write
      <3>2. pc[r] = "handler" => \A w \in Sess(r).pending : w[2] \in Nat
        BY HandlerFacts DEF Session, Write
      <3> QED
        BY <1>0, <1>1, <1>2, <2>1, <3>1, <3>2 DEF RequestInv, FreshInv
    <2>6. OutcomeInv(r)'
      BY <1>0, <1>1, <2>1 DEF RequestInv, OutcomeInv
    <2> QED
      BY <2>2, <2>3, <2>4, <2>5, <2>6 DEF RequestInv
  <1>6. \A c \in Connection :
          session[c].holder = r \/ session'[c] # session[c] => SessionInv(c)'
    BY <1>1, <1>3, QuietSessions DEF Owning
  <1>7. TornIsNeverDurable' /\ PublishedIsDurable'
    BY <1>1 DEF SafetyInv, TornIsNeverDurable, PublishedIsDurable
  <1> QED
    BY <1>4, <1>5, <1>6, <1>7, StepKeepsSafety

LEMMA TaskSafetyStep ==
  ASSUME TypeInv, SafetyInv, NEW r \in Request, TaskStep(r)
  PROVE  SafetyInv'
  BY ExecuteSafety, OnCommitSafety, PrepareSafety DEF TaskStep

--------------------------------------------------------------------------------
(* The owner's steps.                                                      *)

\* What a step of the owner, outside of its handler, leaves alone.
OwnerChange(r) ==
  /\ stack' = stack /\ steps' = steps /\ work' = work /\ torn' = torn
  /\ \A q \in Request \ {r} :
       /\ pc'[q] = pc[q] /\ scope'[q] = scope[q]
       /\ committed'[q] = committed[q] /\ reply'[q] = reply[q]

\* The request's part of the invariant at its new place.
LEMMA OwnerRequest ==
  ASSUME TypeInv, SafetyInv, NEW r \in Request, OwnerChange(r), stack[r] = <<>>,
         scope'[r].callbacks = scope[r].callbacks,
         LifecycleInv(r)', HoldInv(r)', OutcomeInv(r)',
         pc'[r] \in {"acquire", "start"} => work[r] = {},
         pc'[r] \in {"handler", "probe", "commit"} => Agree(r)',
         pc'[r] = "handler" => Sess(r)'.pending = {}
  PROVE  RequestInv(r)'
  <1>1. RequestInv(r) /\ Own(r)' = Own(r)
    BY DEF SafetyInv, Own
  <1>2. WorkInv(r)'
    BY <1>1 DEF RequestInv, WorkInv, OwnerChange
  <1>3. FrameInv(r)'
    BY DEF FrameInv, OwnerChange
  <1>4. FreshInv(r)'
    BY <1>1 DEF RequestInv, FreshInv, OwnerChange
  <1> QED
    BY <1>2, <1>3, <1>4 DEF RequestInv

LEMMA OwnerStack ==
  ASSUME SafetyInv, NEW r \in Request, pc[r] # "handler"
  PROVE  stack[r] = <<>>
  BY DEF SafetyInv, RequestInv, FrameInv

\* A step that leaves the database alone.
LEMMA OwnerQuiet ==
  ASSUME TypeInv, SafetyInv, NEW r \in Request, OwnerChange(r), RequestInv(r)',
         session' = session, durable' = durable, committed' = committed,
         published' \subseteq durable,
         scope'[r].conn = scope[r].conn,
         Owning(r) => Owning(r)',
         pc[r] \in {"release", "done"} =>
           pc'[r] \in {"release", "done"} \/ Sess(r).holder # r
  PROVE  SafetyInv'
  <1>1. \A c \in Connection :
          session[c].holder = r \/ session'[c] # session[c] => SessionInv(c)'
    BY QuietSessions DEF OwnerChange
  <1>2. LocalStep(r)
    BY DEF LocalStep, OwnerChange
  <1>3. TornIsNeverDurable' /\ PublishedIsDurable'
    BY DEF SafetyInv, TornIsNeverDurable, PublishedIsDurable, OwnerChange
  <1> QED
    BY <1>1, <1>2, <1>3, StepKeepsSafety

LEMMA HandlerEndsSafety ==
  ASSUME TypeInv, SafetyInv, NEW r \in Request,
         HandlerSucceeds(r) \/ HandlerRefused(r) \/ HandlerFails(r)
  PROVE  SafetyInv'
  <1> USE DEF ownerVars, dbVars, historyVars
  <1>1. /\ pc[r] = "handler" /\ stack[r] = <<>>
        /\ UNCHANGED <<committed, reply, stack, steps, session, durable, published, work, torn, scope>>
    BY DEF HandlerSucceeds, HandlerRefused, HandlerFails, HandlerEnds
  <1>2. /\ pc'[r] \in {"probe", "rollback"}
        /\ pc'[r] = "probe" => ~scope[r].rollbackOnly
        /\ \A q \in Request \ {r} : pc'[q] = pc[q]
    BY GotoType DEF HandlerSucceeds, HandlerRefused, HandlerFails, TypeInv, Label
  <1>3. RequestInv(r) /\ Sess(r)' = Sess(r) /\ Durable(r)' = Durable(r)
    BY <1>1 DEF SafetyInv, Sess, Durable
  <1>4. OwnerChange(r)
    BY <1>1, <1>2 DEF OwnerChange
  <1>5. LifecycleInv(r)' /\ HoldInv(r)' /\ OutcomeInv(r)'
    BY <1>1, <1>2, <1>3 DEF RequestInv, LifecycleInv, HoldInv, OutcomeInv, Owning
  <1>6. pc'[r] = "probe" => Agree(r)'
    BY <1>1, <1>2, <1>3 DEF RequestInv, WorkInv, Agree
  <1>7. RequestInv(r)'
    BY <1>1, <1>2, <1>4, <1>5, <1>6, OwnerRequest
  <1> QED
    BY <1>1, <1>2, <1>4, <1>7, OwnerQuiet DEF Owning, SafetyInv, PublishedIsDurable

LEMMA ProbeSafety ==
  ASSUME TypeInv, SafetyInv, NEW r \in Request, ProbeReturns(r) \/ ProbeFails(r)
  PROVE  SafetyInv'
  <1> USE DEF ownerVars, handlerVars, dbVars, historyVars
  <1>1. /\ pc[r] = "probe" /\ stack[r] = <<>>
        /\ UNCHANGED <<committed, reply, stack, steps, session, durable, published, work, torn>>
    BY OwnerStack DEF ProbeReturns, ProbeFails
  <1>2. /\ scope'[r].conn = scope[r].conn
        /\ scope'[r].callbacks = scope[r].callbacks
        /\ \A q \in Request \ {r} : scope'[q] = scope[q]
        /\ pc'[r] = "commit" => scope'[r].lifecycle = "finishing" /\ Sess(r).tx = "open"
        /\ pc'[r] = "rollback" => scope' = scope
        /\ pc'[r] \in {"commit", "rollback"}
        /\ \A q \in Request \ {r} : pc'[q] = pc[q]
    <2>1. CASE ProbeReturns(r)
      <3> DEFINE s == [scope[r] EXCEPT !.lifecycle = "finishing"]
      <3>1. scope[r] \in TransactionScope /\ TypeOK
        BY DEF TypeInv, TypeOK
      <3>2. s \in TransactionScope
        BY <3>1, ScopeEdits DEF Lifecycle
      <3>3. s.conn = scope[r].conn /\ s.callbacks = scope[r].callbacks /\ s.lifecycle = "finishing"
        BY <3>1 DEF TransactionScope
      <3>4. scope' = [scope EXCEPT ![r] = s] /\ Goto(r, "commit") /\ Sess(r).tx = "open"
        BY <2>1 DEF ProbeReturns
      <3> HIDE DEF s
      <3>5. scope'[r] = s /\ \A q \in Request \ {r} : scope'[q] = scope[q]
        BY <3>1, <3>2, <3>4, ScopeUpdate
      <3>6. pc'[r] = "commit" /\ \A q \in Request \ {r} : pc'[q] = pc[q]
        BY <3>1, <3>4, GotoType DEF Label
      <3> QED
        BY <3>3, <3>4, <3>5, <3>6
    <2>2. CASE ProbeFails(r)
      BY <2>2, GotoType DEF ProbeFails, TypeInv, Label
    <2> QED
      BY <2>1, <2>2
  <1>3. RequestInv(r) /\ Sess(r)' = Sess(r) /\ Durable(r)' = Durable(r)
    BY <1>1, <1>2 DEF SafetyInv, Sess, Durable
  <1>4. OwnerChange(r)
    BY <1>1, <1>2 DEF OwnerChange
  <1>5. LifecycleInv(r)'
    BY <1>1, <1>2, <1>3 DEF RequestInv, LifecycleInv
  <1>6. HoldInv(r)' /\ OutcomeInv(r)'
    BY <1>1, <1>2, <1>3 DEF RequestInv, HoldInv, OutcomeInv, Owning
  <1>7. pc'[r] = "commit" => Agree(r)'
    BY <1>1, <1>2, <1>3 DEF RequestInv, WorkInv, Agree
  <1>8. RequestInv(r)'
    BY <1>1, <1>2, <1>4, <1>5, <1>6, <1>7, OwnerRequest
  <1> QED
    BY <1>1, <1>2, <1>4, <1>8, OwnerQuiet DEF Owning, SafetyInv, PublishedIsDurable

LEMMA StartSafety ==
  ASSUME TypeInv, SafetyInv, NEW r \in Request, StartReturns(r)
  PROVE  SafetyInv'
  <1> USE DEF ownerVars, handlerVars, dbVars, historyVars
  <1> DEFINE s == [Sess(r) EXCEPT !.tx = "open"]
  <1>1. /\ pc[r] = "start" /\ stack[r] = <<>> /\ SetSession(r, s) /\ Goto(r, "handler")
        /\ UNCHANGED <<committed, reply, stack, steps, durable, published, work, torn, scope>>
    BY OwnerStack DEF StartReturns
  <1>2. pc'[r] = "handler" /\ \A q \in Request \ {r} : pc'[q] = pc[q]
    BY <1>1, GotoType DEF TypeInv, Label
  <1>3. /\ RequestInv(r) /\ Own(r)' = Own(r) /\ Durable(r)' = Durable(r)
        /\ Sess(r) \in Session /\ Sess(r).holder = r /\ Sess(r).state = "held"
        /\ Sess(r).pending = {} /\ work[r] = {}
    BY <1>1, HeldSession DEF SafetyInv, Own, Durable, RequestInv, HoldInv, WorkInv, Owning
  <1>4. /\ s \in Session /\ s.holder = r /\ s.state = "held" /\ s.tx = "open"
        /\ s.pending = {}
    BY <1>3 DEF Session
  <1> HIDE DEF s
  <1>5. /\ Sess(r)' = s
        /\ \A c \in Connection :
             /\ session[c].holder = r \/ session'[c] # session[c] => SessionInv(c)'
             /\ session'[c] # session[c] => c = scope'[r].conn /\ session[c].holder = r
    <2>1. Owning(r) /\ Owning(r)' /\ s.pending \subseteq Own(r) /\ s.tx # "indoubt"
          /\ scope'[r].conn = scope[r].conn
      BY <1>1, <1>2, <1>4 DEF Owning
    <2> QED
      BY <1>1, <1>4, <2>1, HeldUpdate
  <1>6. OwnerChange(r)
    BY <1>1, <1>2 DEF OwnerChange
  <1>7. LifecycleInv(r)'
    BY <1>1, <1>2, <1>3 DEF RequestInv, LifecycleInv
  <1>8. HoldInv(r)'
    BY <1>2, <1>4, <1>5 DEF HoldInv
  <1>9. OutcomeInv(r)'
    BY <1>1, <1>2, <1>3 DEF RequestInv, OutcomeInv
  <1>10. Agree(r)'
    BY <1>1, <1>3, <1>4, <1>5 DEF Agree
  <1>11. RequestInv(r)'
    BY <1>1, <1>2, <1>3, <1>4, <1>5, <1>6, <1>7, <1>8, <1>9, <1>10, OwnerRequest
  <1>12. LocalStep(r)
    BY <1>1, <1>5, <1>6 DEF LocalStep, OwnerChange
  <1>13. TornIsNeverDurable' /\ PublishedIsDurable'
    BY <1>1 DEF SafetyInv, TornIsNeverDurable, PublishedIsDurable
  <1> QED
    BY <1>5, <1>11, <1>12, <1>13, StepKeepsSafety

\* The owner gives its connection back, after a COMMIT or without one.
LEMMA FinallySafety ==
  ASSUME TypeInv, SafetyInv, NEW r \in Request, Owning(r), stack[r] = <<>>,
         NEW s \in Session, s.holder = r, s.pending \subseteq Own(r), Finally(r, s),
         UNCHANGED <<reply, stack, steps, work, torn, published>>,
         \A q \in Request \ {r} : committed'[q] = committed[q],
         s.tx = "indoubt" =>
           s.pending = work[r] /\ torn \cap work[r] = {} /\ ~committed'[r] /\ durable' = durable,
         \/ durable' = durable /\ (committed'[r] => work[r] = {})
         \/ durable' = durable \cup work[r] /\ torn \cap work[r] = {}
  PROVE  SafetyInv'
  <1>1. /\ Durable(r) = {} /\ RequestInv(r) /\ Own(r)' = Own(r) /\ work[r] \subseteq Own(r)
        /\ reply[r] # "success"
    <2>1. RequestInv(r)
      BY DEF SafetyInv
    <2> QED
      BY <2>1, HeldSession DEF RequestInv, WorkInv, Own, OutcomeInv
  <1>2. s.tx = "indoubt" =>
           /\ ~committed'[r]
           /\ s.pending = work'[r] /\ torn' \cap work'[r] = {}
           /\ Durable(r)' = {}
    BY <1>1 DEF Durable
  <1>3. /\ pc'[r] = "release"
        /\ \A q \in Request \ {r} : pc'[q] = pc[q] /\ scope'[q] = scope[q]
        /\ scope'[r].lifecycle = "expired"
        /\ scope'[r].conn = scope[r].conn
        /\ scope'[r].callbacks = scope[r].callbacks
        /\ \A c \in Connection :
             /\ session[c].holder = r \/ session'[c] # session[c] => SessionInv(c)'
             /\ session'[c] # session[c] => c = scope'[r].conn /\ session[c].holder = r
    BY <1>2, FinallyUpdate
  <1>4. OwnerChange(r)
    BY <1>3 DEF OwnerChange
  <1>5. LifecycleInv(r)' /\ HoldInv(r)'
    BY <1>3 DEF LifecycleInv, HoldInv, Owning
  <1>6. durable \subseteq durable' /\ durable' \subseteq durable \cup work[r]
    OBVIOUS
  <1>7. OutcomeInv(r)'
    <2>1. Durable(r)' \subseteq work[r]
      BY <1>1, <1>6 DEF Durable
    <2>2. Durable(r)' # {} => work[r] \subseteq durable'
      BY <1>1 DEF Durable
    <2>3. work[r] \subseteq durable' => Durable(r)' = work[r]
      BY <1>1, <2>1 DEF Durable, Own
    <2>4. committed'[r] => work[r] \subseteq durable'
      OBVIOUS
    <2> QED
      BY <1>1, <1>3, <2>2, <2>3, <2>4 DEF OutcomeInv
  <1>8. RequestInv(r)'
    BY <1>3, <1>4, <1>5, <1>7, OwnerRequest
  <1>9. LocalStep(r)
    BY <1>1, <1>3, <1>6 DEF LocalStep
  <1>10. TornIsNeverDurable' /\ PublishedIsDurable'
    BY DEF SafetyInv, TornIsNeverDurable, PublishedIsDurable
  <1> QED
    BY <1>3, <1>8, <1>9, <1>10, StepKeepsSafety

LEMMA EndSafety ==
  ASSUME TypeInv, SafetyInv, NEW r \in Request,
         \/ StartFails(r) \/ CommitReturns(r) \/ CommitFails(r) \/ CommitInterrupted(r)
         \/ RollbackReturns(r) \/ RollbackFails(r)
  PROVE  SafetyInv'
  <1> USE DEF ownerVars, handlerVars, dbVars, historyVars
  <1>1. /\ Owning(r) /\ pc[r] # "handler"
        /\ UNCHANGED <<reply, stack, steps, work, torn, published>>
    BY DEF StartFails, CommitReturns, CommitFails, CommitInterrupted, RollbackReturns,
           RollbackFails, Owning
  <1>2. /\ Sess(r) \in Session /\ Sess(r).holder = r /\ Sess(r).pending \subseteq Own(r)
        /\ Sess(r).tx # "indoubt" /\ ~committed[r] /\ stack[r] = <<>>
    BY <1>1, HeldSession, OwnerStack
  <1>3. /\ Ended(Sess(r)) \in Session /\ Ended(Sess(r)).holder = r
        /\ Ended(Sess(r)).pending = {} /\ Ended(Sess(r)).tx = "idle"
    <2>1. Ended(Sess(r)) \in Session
      BY <1>2, SessionEdits
    <2> QED
      BY <1>2, <2>1 DEF Ended, Session
  <1>4. \A tx \in {"idle", "open", "aborted", "indoubt"} :
          LET s == [Sess(r) EXCEPT !.tx = tx]
          IN  s \in Session /\ s.holder = r /\ s.pending = Sess(r).pending /\ s.tx = tx
    BY <1>2 DEF Session
  <1>5. CASE StartFails(r)
    <2>1. PICK tx \in {"idle", "open"} : Finally(r, [Sess(r) EXCEPT !.tx = tx])
      BY <1>5 DEF StartFails
    <2>2. UNCHANGED <<committed, durable>>
      BY <1>5 DEF StartFails
    <2> QED
      BY <1>1, <1>2, <1>4, <2>1, <2>2, FinallySafety
  <1>6. CASE CommitReturns(r)
    <2>1. pc[r] = "commit" /\ Finally(r, Ended(Sess(r)))
          /\ durable' = durable \cup Committable(r)
          /\ committed' = [committed EXCEPT ![r] = TRUE]
      BY <1>6 DEF CommitReturns
    <2>2. Sess(r).tx = "open" /\ Agree(r)
      BY <2>1 DEF SafetyInv, RequestInv, HoldInv, WorkInv
    <2>3. durable' = durable \cup work[r] /\ torn \cap work[r] = {}
      BY <2>1, <2>2 DEF Committable, Agree
    <2>4. \A q \in Request \ {r} : committed'[q] = committed[q]
      BY <2>1 DEF TypeInv, TypeOK
    <2> QED
      BY <1>1, <1>2, <1>3, <2>1, <2>3, <2>4, FinallySafety
  <1>7. CASE CommitInterrupted(r)
    <2>1. /\ pc[r] = "commit" /\ Finally(r, [Sess(r) EXCEPT !.tx = "indoubt"])
          /\ UNCHANGED <<committed, durable>>
      BY <1>7 DEF CommitInterrupted
    <2>2. Agree(r)
      BY <2>1 DEF SafetyInv, RequestInv, WorkInv
    <2> QED
      BY <1>1, <1>2, <1>4, <2>1, <2>2, FinallySafety DEF Agree
  <1>8. CASE CommitFails(r) \/ RollbackReturns(r)
    <2>1. Finally(r, Ended(Sess(r))) /\ UNCHANGED <<committed, durable>>
      BY <1>8 DEF CommitFails, RollbackReturns
    <2> QED
      BY <1>1, <1>2, <1>3, <2>1, FinallySafety
  <1>9. CASE RollbackFails(r)
    <2>1. Finally(r, Sess(r)) /\ UNCHANGED <<committed, durable>>
      BY <1>9 DEF RollbackFails
    <2> QED
      BY <1>1, <1>2, <2>1, FinallySafety
  <1> QED
    BY <1>5, <1>6, <1>7, <1>8, <1>9

\* The owner is told that its connection is back, or gives up waiting for that
\* or for a connection.
LEMMA ReleaseSafety ==
  ASSUME TypeInv, SafetyInv, NEW r \in Request,
         ReleaseReturns(r) \/ ReleaseRaises(r) \/ AcquireFails(r) \/ CallbacksEnd(r)
  PROVE  SafetyInv'
  <1> USE DEF ownerVars, handlerVars, dbVars, historyVars
  <1>1. /\ pc[r] \in {"release", "acquire", "callbacks"} /\ stack[r] = <<>>
        /\ UNCHANGED <<committed, stack, steps, session, durable, published, work, torn>>
    BY OwnerStack DEF ReleaseReturns, ReleaseRaises, AcquireFails, CallbacksEnd
  <1>2. /\ scope'[r].conn = scope[r].conn
        /\ scope'[r].callbacks = scope[r].callbacks
        /\ \A q \in Request \ {r} : scope'[q] = scope[q]
        /\ \/ scope'[r].lifecycle = scope[r].lifecycle /\ pc'[r] = "done" /\ reply'[r] # "success"
              /\ pc[r] # "callbacks"
           \/ /\ scope'[r].lifecycle = "callbacks" /\ pc'[r] = "callbacks" /\ reply' = reply
              /\ pc[r] = "release" /\ committed[r] /\ Sess(r).holder # r
           \/ scope'[r].lifecycle = "expired" /\ pc'[r] = "done" /\ pc[r] = "callbacks"
        /\ \A q \in Request \ {r} : pc'[q] = pc[q] /\ reply'[q] = reply[q]
    <2>0. TypeOK /\ scope[r] \in TransactionScope
      BY DEF TypeInv, TypeOK
    <2>1. ASSUME NEW l \in Lifecycle, scope' = [scope EXCEPT ![r].lifecycle = l]
          PROVE  /\ scope'[r].conn = scope[r].conn
                 /\ scope'[r].callbacks = scope[r].callbacks
                 /\ scope'[r].lifecycle = l
                 /\ \A q \in Request \ {r} : scope'[q] = scope[q]
      <3> DEFINE s == [scope[r] EXCEPT !.lifecycle = l]
      <3>1. s \in TransactionScope
        BY <2>0, ScopeEdits
      <3>2. s.conn = scope[r].conn /\ s.callbacks = scope[r].callbacks /\ s.lifecycle = l
        BY <2>0 DEF TransactionScope
      <3>3. scope' = [scope EXCEPT ![r] = s]
        BY <2>1
      <3> HIDE DEF s
      <3> QED
        BY <2>0, <3>1, <3>2, <3>3, ScopeUpdate
    <2>2. CASE ReleaseRaises(r) \/ AcquireFails(r) \/ (ReleaseReturns(r) /\ ~committed[r])
      <3>1. /\ scope' = scope /\ Goto(r, "done") /\ reply' = [reply EXCEPT ![r] = "error"]
            /\ pc[r] # "callbacks"
        BY <2>2 DEF ReleaseRaises, AcquireFails, ReleaseReturns
      <3> QED
        BY <2>0, <3>1, GotoType DEF Label, TypeOK
    <2>3. CASE ReleaseReturns(r) /\ committed[r]
      <3>1. /\ scope' = [scope EXCEPT ![r].lifecycle = "callbacks"] /\ Goto(r, "callbacks")
            /\ reply' = reply /\ pc[r] = "release" /\ Sess(r).holder # r
        BY <2>3 DEF ReleaseReturns
      <3> QED
        BY <2>0, <2>1, <2>3, <3>1, GotoType DEF Label, Lifecycle
    <2>4. CASE CallbacksEnd(r)
      <3>1. /\ scope' = [scope EXCEPT ![r].lifecycle = "expired"] /\ Goto(r, "done")
            /\ reply' = [reply EXCEPT ![r] = "success"] /\ pc[r] = "callbacks"
        BY <2>4 DEF CallbacksEnd
      <3> QED
        BY <2>0, <2>1, <3>1, GotoType DEF Label, Lifecycle, TypeOK
    <2> QED
      BY <2>2, <2>3, <2>4
  <1>3. RequestInv(r) /\ Durable(r)' = Durable(r)
    BY <1>1 DEF SafetyInv, Durable
  <1>4. OwnerChange(r)
    BY <1>1, <1>2 DEF OwnerChange
  <1>5. LifecycleInv(r)'
    BY <1>1, <1>2, <1>3 DEF RequestInv, LifecycleInv
  <1>6. HoldInv(r)'
    BY <1>2 DEF HoldInv, Owning
  <1>7. OutcomeInv(r)'
    BY <1>1, <1>2, <1>3 DEF RequestInv, OutcomeInv
  <1>8. RequestInv(r)'
    BY <1>1, <1>2, <1>4, <1>5, <1>6, <1>7, OwnerRequest
  <1> QED
    BY <1>1, <1>2, <1>4, <1>8, OwnerQuiet DEF Owning, SafetyInv, PublishedIsDurable

LEMMA CallbackSafety ==
  ASSUME TypeInv, SafetyInv, NEW r \in Request, CallbackRuns(r) \/ CallbackFails(r)
  PROVE  SafetyInv'
  <1> USE DEF ownerVars, handlerVars, dbVars, historyVars, NextCallback
  <1>1. /\ pc[r] = "callbacks" /\ stack[r] = <<>>
        /\ UNCHANGED <<pc, committed, reply, stack, steps, session, durable, work, torn, scope>>
    BY OwnerStack DEF CallbackRuns, CallbackFails
  <1>2. RequestInv(r) /\ RequestInv(r)'
    <2>1. RequestInv(r)
      BY DEF SafetyInv
    <2>2. Sess(r)' = Sess(r) /\ Durable(r)' = Durable(r)
      BY <1>1 DEF Sess, Durable
    <2>3. LifecycleInv(r)' /\ HoldInv(r)' /\ OutcomeInv(r)'
      BY <1>1, <2>1, <2>2 DEF RequestInv, LifecycleInv, HoldInv, OutcomeInv, Owning
    <2>4. OwnerChange(r)
      BY <1>1 DEF OwnerChange
    <2> QED
      BY <1>1, <2>1, <2>3, <2>4, OwnerRequest
  <1>3. published' \subseteq durable
    <2>1. CASE CallbackRuns(r)
      <3>1. cursor[r] + 1 \in 1 .. Len(scope[r].callbacks)
        <4>1. cursor[r] \in Nat /\ cursor[r] < Len(scope[r].callbacks)
          BY <2>1 DEF CallbackRuns, TypeInv, TypeOK
        <4>2. scope[r].callbacks \in Seq(Write)
          BY DEF TypeInv, TypeOK, TransactionScope
        <4> QED
          BY <4>1, <4>2
      <3>2. scope[r].callbacks[cursor[r] + 1] \in work[r]
        BY <1>2, <3>1 DEF RequestInv, WorkInv
      <3>3. work[r] \subseteq durable
        BY <1>1, <1>2 DEF RequestInv, OutcomeInv
      <3> QED
        BY <2>1, <3>2, <3>3 DEF CallbackRuns, SafetyInv, PublishedIsDurable
    <2>2. CASE CallbackFails(r)
      BY <2>2 DEF CallbackFails, SafetyInv, PublishedIsDurable
    <2> QED
      BY <2>1, <2>2 DEF CallbackRuns, CallbackFails
  <1>4. OwnerChange(r)
    BY <1>1 DEF OwnerChange
  <1> QED
    BY <1>1, <1>2, <1>3, <1>4, OwnerQuiet DEF Owning

LEMMA AcquireSafety ==
  ASSUME TypeInv, SafetyInv, NEW r \in Request, Acquire(r)
  PROVE  SafetyInv'
  <1> USE DEF ownerVars, handlerVars, dbVars, historyVars
  <1>1. PICK c \in Connection :
          /\ session[c].state = "free"
          /\ session' = [session EXCEPT ![c].holder = r, ![c].state = "held"]
          /\ scope' = [scope EXCEPT ![r].conn = c, ![r].lifecycle = "active"]
    BY DEF Acquire
  <1>2. /\ pc[r] = "acquire" /\ Goto(r, "start") /\ stack[r] = <<>>
        /\ UNCHANGED <<committed, reply, stack, steps, durable, published, work, torn>>
    BY OwnerStack DEF Acquire
  <1>3. RequestInv(r) /\ TypeOK /\ Durable(r)' = Durable(r)
    BY <1>2 DEF SafetyInv, TypeInv, Durable
  <1>4. pc'[r] = "start" /\ \A q \in Request \ {r} : pc'[q] = pc[q]
    BY <1>2, <1>3, GotoType DEF Label
  <1>5. /\ scope'[r].conn = c /\ scope'[r].lifecycle = "active"
        /\ scope'[r].callbacks = scope[r].callbacks
        /\ \A q \in Request \ {r} : scope'[q] = scope[q]
    <2> DEFINE s == [scope[r] EXCEPT !.conn = c, !.lifecycle = "active"]
    <2>1. scope[r] \in TransactionScope
      BY <1>3 DEF TypeOK
    <2>2. s \in TransactionScope
      BY <2>1, ScopeEdits DEF Lifecycle
    <2>3. s.conn = c /\ s.lifecycle = "active" /\ s.callbacks = scope[r].callbacks
      BY <2>1 DEF TransactionScope
    <2>4. scope' = [scope EXCEPT ![r] = s]
      BY <1>1
    <2> HIDE DEF s
    <2> QED
      BY <1>3, <2>2, <2>3, <2>4, ScopeUpdate
  <1>6. /\ session'[c].holder = r /\ session'[c].state = "held"
        /\ session'[c].tx = "idle" /\ session'[c].pending = {}
        /\ \A d \in Connection \ {c} : session'[d] = session[d]
    <2>1. session[c] = FreeSession
      BY <1>1 DEF SafetyInv, SessionInv
    <2> DEFINE t == [FreeSession EXCEPT !.holder = r, !.state = "held"]
    <2>2. /\ t.holder = r /\ t.state = "held" /\ t.tx = "idle" /\ t.pending = {}
      BY DEF FreeSession
    <2>3. session' = [session EXCEPT ![c] = t]
      BY <1>1, <2>1
    <2> HIDE DEF t
    <2> QED
      BY <1>3, <2>2, <2>3 DEF TypeOK
  <1>7. \A d \in Connection : session[d].holder # r
    <2> SUFFICES ASSUME NEW d \in Connection, session[d].holder = r PROVE FALSE
      OBVIOUS
    <2>1. session[d].state \in {"free", "held", "returning"}
      BY <1>3 DEF TypeOK, Session
    <2> QED
      BY <1>2, <2>1, HolderConn DEF Owning
  <1>8. SessionInv(c)'
    BY <1>4, <1>5, <1>6 DEF SessionInv, Owning
  <1>9. LocalStep(r)
    BY <1>1, <1>2, <1>4, <1>5, <1>6 DEF LocalStep
  <1>10. OwnerChange(r)
    BY <1>2, <1>4, <1>5 DEF OwnerChange
  <1>11. LifecycleInv(r)' /\ HoldInv(r)' /\ OutcomeInv(r)'
    BY <1>2, <1>3, <1>4, <1>5, <1>6
       DEF RequestInv, LifecycleInv, HoldInv, OutcomeInv, Sess, Owning
  <1>12. RequestInv(r)'
    BY <1>2, <1>3, <1>4, <1>5, <1>10, <1>11, OwnerRequest DEF RequestInv, WorkInv
  <1>13. TornIsNeverDurable' /\ PublishedIsDurable'
    BY <1>2 DEF SafetyInv, TornIsNeverDurable, PublishedIsDurable
  <1>14. \A d \in Connection : session[d].holder = r \/ session'[d] # session[d] => SessionInv(d)'
    BY <1>6, <1>7, <1>8
  <1> QED
    BY <1>9, <1>12, <1>13, <1>14, StepKeepsSafety

LEMMA OwnerSafetyStep ==
  ASSUME TypeInv, SafetyInv, NEW r \in Request, OwnerStep(r) \/ Interrupted(r)
  PROVE  SafetyInv'
  BY AcquireSafety, StartSafety, HandlerEndsSafety, ProbeSafety, EndSafety, ReleaseSafety,
     CallbackSafety
     DEF OwnerStep, Interrupted

--------------------------------------------------------------------------------
(* The pool and the server.                                                *)

\* Whatever they do to a connection in use, only its holder is concerned.
LEMMA PoolSafetyStep ==
  ASSUME TypeInv, SafetyInv, NEW c \in Connection, ServerCommits(c) \/ PoolResets(c)
  PROVE  SafetyInv'
  <1> USE DEF ownerVars, handlerVars, historyVars
  <1>1. /\ UNCHANGED <<pc, scope, committed, reply, stack, steps, published, work, torn>>
        /\ session[c].state = "returning"
        /\ SessionInv(c) /\ TypeOK
    BY DEF ServerCommits, PoolResets, SafetyInv, SessionInv, TypeInv
  <1>0. PICK r \in Request : session[c].holder = r
    BY <1>1 DEF SessionInv
  <1>2. /\ scope[r].conn = c /\ pc[r] \in {"release", "done"}
        /\ RequestInv(r) /\ session[c].pending \subseteq Own(r) /\ Own(r)' = Own(r)
    BY <1>0, <1>1 DEF SessionInv, SafetyInv, Own
  <1>3. \A d \in Connection : session[d].holder = r => d = c
    BY <1>0, <1>2, HolderConn
  <1>4. CASE PoolResets(c)
    <2>1. /\ session'[c] = FreeSession
          /\ \A d \in Connection \ {c} : session'[d] = session[d]
          /\ durable' = durable
      BY <1>0, <1>1, <1>4 DEF PoolResets, TypeOK
    <2>2. SessionInv(c)'
      BY <2>1 DEF SessionInv, FreeSession
    <2>3. LocalStep(r)
      BY <1>0, <1>1, <1>2, <2>1 DEF LocalStep
    <2>4. Durable(r)' = Durable(r)
      BY <2>1 DEF Durable
    <2>5. RequestInv(r)'
      <3>1. LifecycleInv(r)' /\ HoldInv(r)'
        BY <1>1, <1>2 DEF RequestInv, LifecycleInv, HoldInv, Owning
      <3>2. WorkInv(r)' /\ FreshInv(r)'
        BY <1>1, <1>2 DEF RequestInv, WorkInv, FreshInv
      <3>3. FrameInv(r)'
        BY <1>1, <1>2 DEF RequestInv, FrameInv
      <3>4. OutcomeInv(r)'
        BY <1>1, <1>2, <2>1, <2>4 DEF RequestInv, OutcomeInv
      <3> QED
        BY <3>1, <3>2, <3>3, <3>4 DEF RequestInv
    <2>6. TornIsNeverDurable' /\ PublishedIsDurable'
      BY <1>0, <1>1, <2>1 DEF SafetyInv, TornIsNeverDurable, PublishedIsDurable
    <2> QED
      BY <1>0, <1>2, <1>3, <2>1, <2>2, <2>3, <2>5, <2>6, StepKeepsSafety
  <1>5. CASE ServerCommits(c)
    <2>1. /\ session[c].tx = "indoubt" /\ durable' = durable \cup session[c].pending
          /\ session' = [session EXCEPT ![c] = Ended(@)]
      BY <1>5 DEF ServerCommits
    <2>2. /\ session[c].pending = work[r] /\ torn \cap work[r] = {}
          /\ ~committed[r] /\ Durable(r) = {}
      BY <1>0, <1>1, <1>2, <2>1 DEF SessionInv, Agree, Sess
    <2>3. /\ session'[c].holder = r /\ session'[c].state = "returning"
          /\ session'[c].tx = "idle" /\ session'[c].pending = {}
          /\ \A d \in Connection \ {c} : session'[d] = session[d]
      <3> DEFINE t == Ended(session[c])
      <3>1. session[c] \in Session
        BY <1>1 DEF TypeOK
      <3>2. t.holder = r /\ t.state = "returning" /\ t.tx = "idle" /\ t.pending = {}
        BY <1>0, <1>1, <3>1 DEF Ended, Session
      <3>3. session' = [session EXCEPT ![c] = t]
        BY <2>1
      <3> HIDE DEF t
      <3> QED
        BY <1>0, <1>1, <3>2, <3>3 DEF TypeOK
    <2>4. SessionInv(c)'
      BY <1>0, <1>1, <1>2, <2>3 DEF SessionInv, Own
    <2>5. durable \subseteq durable' /\ durable' \ durable \subseteq Own(r)
      BY <1>0, <1>2, <2>1
    <2>6. LocalStep(r)
      BY <1>0, <1>1, <1>2, <2>3, <2>5 DEF LocalStep
    <2>7. OutcomeInv(r)'
      <3>1. Durable(r)' = work[r]
        BY <1>0, <1>2, <2>1, <2>2 DEF Durable, Own
      <3> QED
        BY <1>0, <1>1, <1>2, <2>2, <3>1 DEF RequestInv, OutcomeInv
    <2>8. RequestInv(r)'
      BY <1>0, <1>1, <1>2, <2>7
         DEF RequestInv, LifecycleInv, HoldInv, WorkInv, FrameInv, FreshInv, Owning
    <2>9. TornIsNeverDurable' /\ PublishedIsDurable'
      BY <1>0, <1>1, <2>1, <2>2 DEF SafetyInv, TornIsNeverDurable, PublishedIsDurable
    <2> QED
      BY <1>0, <1>2, <1>3, <2>3, <2>4, <2>6, <2>8, <2>9, StepKeepsSafety
  <1> QED
    BY <1>4, <1>5

--------------------------------------------------------------------------------
(* The theorems.                                                           *)

LEMMA SafetyInit == Init => SafetyInv
  <1> SUFFICES ASSUME Init PROVE SafetyInv
    OBVIOUS
  <1>1. \A r \in Request : RequestInv(r)
    <2> SUFFICES ASSUME NEW r \in Request PROVE RequestInv(r)
      OBVIOUS
    <2>1. /\ pc[r] = "acquire" /\ stack[r] = <<>> /\ work[r] = {} /\ torn = {}
          /\ scope[r].lifecycle = "none" /\ scope[r].callbacks = <<>>
          /\ committed[r] = FALSE /\ reply[r] = "none" /\ durable = {}
      BY DEF Init
    <2>2. LifecycleInv(r) /\ HoldInv(r) /\ OutcomeInv(r)
      BY <2>1 DEF LifecycleInv, HoldInv, OutcomeInv, Owning, Durable
    <2>3. WorkInv(r) /\ FrameInv(r) /\ FreshInv(r)
      BY <2>1 DEF WorkInv, FrameInv, FreshInv
    <2> QED
      BY <2>2, <2>3 DEF RequestInv
  <1>2. \A c \in Connection : SessionInv(c)
    BY DEF Init, SessionInv, FreeSession
  <1>3. TornIsNeverDurable /\ PublishedIsDurable
    BY DEF Init, TornIsNeverDurable, PublishedIsDurable
  <1> QED
    BY <1>1, <1>2, <1>3 DEF SafetyInv

LEMMA SafetyStep == TypeInv /\ SafetyInv /\ [Next]_vars => SafetyInv'
  <1> SUFFICES ASSUME TypeInv, SafetyInv, [Next]_vars PROVE SafetyInv'
    OBVIOUS
  <1>1. CASE UNCHANGED vars
    <2>1. UNCHANGED <<pc, scope, committed, reply, stack, steps, session, durable,
                      published, work, torn>>
      BY <1>1 DEF vars, ownerVars, handlerVars, dbVars, historyVars
    <2>2. \A r \in Request : RequestInv(r)'
      <3> SUFFICES ASSUME NEW r \in Request PROVE RequestInv(r)'
        OBVIOUS
      <3>1. RequestInv(r) /\ Sess(r)' = Sess(r) /\ Durable(r)' = Durable(r) /\ Own(r)' = Own(r)
        BY <2>1 DEF SafetyInv, Sess, Durable, Own
      <3>2. LifecycleInv(r)' /\ HoldInv(r)' /\ OutcomeInv(r)'
        BY <2>1, <3>1 DEF RequestInv, LifecycleInv, HoldInv, OutcomeInv, Owning
      <3>3. WorkInv(r)' /\ FreshInv(r)'
        BY <2>1, <3>1 DEF RequestInv, WorkInv, FreshInv, Agree
      <3>4. FrameInv(r)'
        BY <2>1, <3>1 DEF RequestInv, FrameInv
      <3> QED
        BY <3>2, <3>3, <3>4 DEF RequestInv
    <2>3. \A c \in Connection : SessionInv(c)'
      BY <2>1 DEF SafetyInv, SessionInv, Owning, Own, Agree, Sess, Durable, FreeSession
    <2> QED
      BY <2>1, <2>2, <2>3 DEF SafetyInv, TornIsNeverDurable, PublishedIsDurable
  <1>2. CASE Next
    BY <1>1, <1>2, OwnerSafetyStep, HandlerSafetyStep, TaskSafetyStep, PoolSafetyStep
       DEF Next, Finished
  <1> QED
    BY <1>1, <1>2

\* The inductive invariant holds for any requests, any pool and any handlers.
THEOREM Safety == Spec => []SafetyInv
  BY TypeInit, TypeStep, SafetyInit, SafetyStep, PTL DEF Spec

\* A connection only ever carries work of the request that holds it.
THEOREM OwnWorkOnlyHolds == Spec => []OwnWorkOnly
  <1>1. SafetyInv => OwnWorkOnly
    BY DEF SafetyInv, SessionInv, OwnWorkOnly, Own
  <1> QED
    BY <1>1, Safety, PTL

\* Each request's transaction is atomic: nothing of it is durable, or all the
\* work its handler counts on.
THEOREM AllOrNothingHolds == Spec => []AllOrNothing
  <1>1. SafetyInv => AllOrNothing
    BY DEF SafetyInv, RequestInv, OutcomeInv, AllOrNothing
  <1> QED
    BY <1>1, Safety, PTL

\* A success response tells the truth.
THEOREM SuccessIsDurableHolds == Spec => []SuccessIsDurable
  <1>1. SafetyInv => SuccessIsDurable
    BY DEF SafetyInv, RequestInv, OutcomeInv, SuccessIsDurable
  <1> QED
    BY <1>1, Safety, PTL

\* What a failed joined command wrote never becomes durable.
THEOREM TornIsNeverDurableHolds == Spec => []TornIsNeverDurable
  <1>1. SafetyInv => TornIsNeverDurable
    BY DEF SafetyInv
  <1> QED
    BY <1>1, Safety, PTL

\* A callback announces only committed writes.
THEOREM PublishedIsDurableHolds == Spec => []PublishedIsDurable
  <1>1. SafetyInv => PublishedIsDurable
    BY DEF SafetyInv
  <1> QED
    BY <1>1, Safety, PTL

================================================================================
