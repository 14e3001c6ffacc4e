----------------------- MODULE HttpTransactionInductive ------------------------
(***************************************************************************)
(* The inductive invariant behind the safety properties of HttpTransaction.*)
(***************************************************************************)
EXTENDS HttpTransaction

\* The owner holds its connection.
Owning(r) == pc[r] \in {"start", "handler", "probe", "commit", "rollback"}

Own(r) == {w \in Write : w[1] = r}

\* The lifecycle of the scope follows the owner.
LifecycleInv(r) ==
  scope[r].lifecycle \in
    CASE pc[r] = "acquire" -> {"none"}
      [] pc[r] \in {"start", "handler", "probe", "rollback"} -> {"active"}
      [] pc[r] = "commit" -> {"finishing"}
      [] pc[r] = "release" -> {"expired"}
      [] pc[r] = "callbacks" -> {"callbacks"}
      [] pc[r] = "done" -> {"none", "expired"}

\* What an owner's connection looks like, at each of its awaits.
HoldInv(r) ==
  /\ Owning(r) => Sess(r).holder = r /\ Sess(r).state = "held"
  /\ pc[r] = "start" => Sess(r).tx = "idle" /\ Sess(r).pending = {}
  /\ pc[r] \in {"handler", "probe", "rollback"} => Sess(r).tx \in {"open", "aborted"}
  /\ pc[r] = "commit" => Sess(r).tx = "open"

\* The handler's work and the server's agree, and contain nothing torn.
Agree(r) == Sess(r).pending = work[r] /\ torn \cap work[r] = {}

\* They do unless the scope is rollback-only, and from the owner's check on they
\* do even if a child task has marked the scope since.
WorkInv(r) ==
  /\ work[r] \subseteq Own(r)
  /\ pc[r] \in {"acquire", "start"} => work[r] = {}
  /\ pc[r] = "handler" /\ ~scope[r].rollbackOnly => Agree(r)
  /\ pc[r] \in {"probe", "commit"} => Agree(r)
  /\ \A i \in 1 .. Len(scope[r].callbacks) : scope[r].callbacks[i] \in work[r]

\* Every frame remembers callbacks of the work it remembers, writes that are
\* still pending, and agreement if the scope was not rollback-only then.
FrameInv(r) ==
  /\ pc[r] # "handler" => stack[r] = <<>>
  /\ \A i \in 1 .. Len(stack[r]) :
       /\ stack[r][i].work \subseteq Own(r)
       /\ stack[r][i].pending \subseteq Sess(r).pending
       /\ \A j \in 1 .. i : stack[r][j].pending \subseteq stack[r][i].pending
       /\ \A k \in 1 .. stack[r][i].mark : scope[r].callbacks[k] \in stack[r][i].work
       /\ ~stack[r][i].flag =>
            stack[r][i].pending = stack[r][i].work /\ torn \cap stack[r][i].pending = {}

\* Operations are numbered in order: the next write is a new one.
FreshInv(r) ==
  /\ pc[r] = "handler" => \A w \in Sess(r).pending : w[2] <= steps[r]
  /\ \A w \in torn : w[1] = r => w[2] <= steps[r]

\* Nothing of a request is durable before its COMMIT; then all of its work is.
OutcomeInv(r) ==
  /\ Durable(r) # {} => Durable(r) = work[r] /\ pc[r] \in {"release", "callbacks", "done"}
  /\ committed[r] => work[r] \subseteq durable /\ pc[r] \in {"release", "callbacks", "done"}
  /\ pc[r] = "callbacks" \/ reply[r] = "success" => committed[r]

RequestInv(r) ==
  /\ LifecycleInv(r) /\ HoldInv(r)
  /\ WorkInv(r) /\ FrameInv(r) /\ FreshInv(r)
  /\ OutcomeInv(r)

\* The pool's view: who holds a connection, and what an interrupted COMMIT may
\* still make durable.
SessionInv(c) ==
  LET s == session[c] IN
  /\ s.state = "free" => s = FreeSession
  /\ s.state # "free" => s.holder \in Request /\ scope[s.holder].conn = c
  /\ s.state = "held" => Owning(s.holder)
  /\ s.state = "returning" => pc[s.holder] \in {"release", "done"}
  /\ s.pending \subseteq Own(s.holder)
  /\ s.tx = "indoubt" =>
       /\ s.state = "returning" /\ ~committed[s.holder]
       /\ Agree(s.holder) /\ Durable(s.holder) = {}

\* The inductive invariant: at every await of every task, what the owner, its
\* frames, its callbacks and the server each remember of a request's work agree
\* as far as the code relies on it, and the pool's sessions belong to owners.
SafetyInv ==
  /\ \A r \in Request : RequestInv(r)
  /\ \A c \in Connection : SessionInv(c)
  /\ TornIsNeverDurable
  /\ PublishedIsDurable

--------------------------------------------------------------------------------
(* What the refinement of AtomicRequest and the action properties need      *)
(* besides.                                                                 *)

\* A request is answered last, announces after its release only, and has a
\* response sent by a task of its own no earlier than that; what its callbacks
\* announce are operations of its handler.
RequestProgress(r) ==
  /\ pc[r] # "done" => reply[r] = "none"
  /\ child[r] => pc[r] # "acquire"
  /\ sent[r] => pc[r] \in {"release", "callbacks", "done"}
  /\ published \cap Own(r) # {} => pc[r] \in {"callbacks", "done"}
  /\ \A i \in 1 .. Len(scope[r].callbacks) : scope[r].callbacks[i] \in Writes(r)

\* A connection carries operations of handlers, numbered as they are.
SessionProgress(c) == \A w \in session[c].pending : w \in Writes(w[1])

ProgressInv ==
  /\ \A r \in Request : RequestProgress(r)
  /\ \A c \in Connection : SessionProgress(c)

================================================================================
