-------------------------- MODULE ResponseCacheProofs --------------------------
(***************************************************************************)
(* What ResponseCache promises, for any requests, resources and identities *)
(* and any cache_ttl.  The invariant follows a value from the operation    *)
(* that read it, through the store, to the responses.                      *)
(***************************************************************************)
EXTENDS ResponseCache, TLAPS

\* Request q's operation returned v.
Produced(q, v) == v = value[q] /\ value[q].by = q /\ pc[q] = "done"

\* A request reads after it looked up, and its value is its own.
ReadInv(r) ==
  /\ began[r] <= now
  /\ pc[r] = "idle" => value[r] = Nothing
  /\ value[r] # Nothing => value[r].by = r /\ began[r] <= value[r].at

\* What is stored was produced by a request for that key, and expires within
\* TTL of its reading.
EntryInv(k) ==
  store[k] # Absent =>
    \E q \in Request :
      /\ Produced(q, store[k].value)
      /\ Cacheable(q) /\ CacheKey(q) = k
      /\ store[k].expires <= store[k].value.at + TTL

\* A response is the request's own, or that of another for the same key.
AnswerInv(r) ==
  /\ pc[r] # "done" => answer[r] = Unanswered
  /\ pc[r] = "done" =>
       \E q \in Request :
         /\ Produced(q, answer[r].value)
         /\ ask[q] = ask[r] /\ (q = r \/ Cacheable(r))
         /\ answer[r].hit => answer[r].at < answer[r].value.at + TTL

CacheInv ==
  /\ TypeOK
  /\ \A r \in Request : ReadInv(r) /\ AnswerInv(r)
  /\ \A k \in Ask : EntryInv(k)

\* Initially nothing is read, stored or answered.
LEMMA InitCache == Init => CacheInv
  <1> SUFFICES ASSUME Init PROVE CacheInv
    OBVIOUS
  <1> USE ConstantsAssumption DEF Init
  <1>1. TypeOK
    BY DEF TypeOK, Nothing, Absent, Unanswered, Value, Entry, Answer
  <1>2. ASSUME NEW r \in Request PROVE ReadInv(r) /\ AnswerInv(r)
    BY DEF ReadInv, AnswerInv
  <1>3. ASSUME NEW k \in Ask PROVE EntryInv(k)
    BY DEF EntryInv
  <1> QED
    BY <1>1, <1>2, <1>3 DEF CacheInv

\* Every step keeps the invariant: what an operation that returned has read is
\* never changed, so entries and responses keep who produced them.
LEMMA StepKeepsCache == CacheInv /\ [Next]_vars => CacheInv'
  <1> SUFFICES ASSUME CacheInv, [Next]_vars PROVE CacheInv'
    OBVIOUS
  <1> USE ConstantsAssumption
  <1>t. TypeOK /\ now \in Nat /\ Nothing \in Value /\ Absent \in Entry
    BY DEF CacheInv, TypeOK, Nothing, Absent, Value, Entry
  <1>k. ASSUME NEW r \in Request PROVE CacheKey(r) \in Ask
    BY <1>t DEF TypeOK, CacheKey
  <1>1. ASSUME NEW r \in Request, Hit(r) PROVE CacheInv'
    <2> DEFINE k == CacheKey(r)
    <2> USE <1>1 DEF Hit, Goto, Respond
    <2>1. k \in Ask /\ store[k] # Absent /\ store[k] \in Entry
      BY <1>k, <1>t DEF TypeOK, Absent
    <2>2. PICK q \in Request :
            /\ Produced(q, store[k].value)
            /\ Cacheable(q) /\ CacheKey(q) = k
            /\ store[k].expires <= store[k].value.at + TTL
      BY <2>1 DEF CacheInv, EntryInv
    <2>3. now < store[k].value.at + TTL
      BY <2>1, <2>2, <1>t DEF Entry, Value
    <2>4. TypeOK'
      BY <2>1, <1>t DEF TypeOK, Entry, Answer
    <2>5. q # r
      BY <2>2 DEF Produced
    <2>6. AnswerInv(r)'
      <3>1. answer'[r] = [value |-> store[k].value, at |-> now, hit |-> TRUE]
        BY <1>t DEF TypeOK
      <3>2. pc'[r] = "done" /\ pc'[q] = pc[q]
        BY <2>5, <1>t DEF TypeOK
      <3>3. ask[q] = ask[r]
        BY <2>2 DEF CacheKey
      <3> QED
        BY <3>1, <3>2, <3>3, <2>2, <2>3 DEF AnswerInv, Produced, Cacheable
    <2>7. ASSUME NEW p \in Request, p # r PROVE AnswerInv(p)'
      BY <2>7, <1>t DEF CacheInv, AnswerInv, Produced, Cacheable, TypeOK
    <2>8. ASSUME NEW p \in Request PROVE ReadInv(p)'
      BY <1>t DEF CacheInv, ReadInv, TypeOK
    <2>9. ASSUME NEW j \in Ask PROVE EntryInv(j)'
      BY <1>t DEF CacheInv, EntryInv, Produced, Cacheable, CacheKey, TypeOK
    <2> QED
      BY <2>4, <2>6, <2>7, <2>8, <2>9 DEF CacheInv
  <1>2. ASSUME NEW r \in Request, Miss(r) PROVE CacheInv'
    <2> USE <1>2 DEF Miss, Goto
    <2>1. TypeOK'
      BY <1>t, <1>k DEF TypeOK
    <2>2. ASSUME NEW p \in Request PROVE AnswerInv(p)'
      BY <1>t DEF CacheInv, AnswerInv, Produced, Cacheable, TypeOK
    <2>3. ASSUME NEW p \in Request PROVE ReadInv(p)'
      BY <1>t DEF CacheInv, ReadInv, TypeOK
    <2>4. ASSUME NEW j \in Ask PROVE EntryInv(j)'
      <3>1. CASE j = CacheKey(r)
        BY <3>1, <1>t DEF EntryInv, TypeOK
      <3>2. CASE j # CacheKey(r)
        BY <3>2, <1>t DEF CacheInv, EntryInv, Produced, Cacheable, CacheKey, TypeOK
      <3> QED
        BY <3>1, <3>2
    <2> QED
      BY <2>1, <2>2, <2>3, <2>4 DEF CacheInv
  <1>3. ASSUME NEW r \in Request, Bypass(r) \/ Fails(r) PROVE CacheInv'
    <2> USE <1>3 DEF Bypass, Fails, Goto
    <2>1. TypeOK'
      BY <1>t DEF TypeOK
    <2>2. ASSUME NEW p \in Request PROVE AnswerInv(p)'
      BY <1>t DEF CacheInv, AnswerInv, Produced, Cacheable, TypeOK
    <2>3. ASSUME NEW p \in Request PROVE ReadInv(p)'
      BY <1>t DEF CacheInv, ReadInv, TypeOK
    <2>4. ASSUME NEW j \in Ask PROVE EntryInv(j)'
      BY <1>t DEF CacheInv, EntryInv, Produced, Cacheable, CacheKey, TypeOK
    <2> QED
      BY <2>1, <2>2, <2>3, <2>4 DEF CacheInv
  <1>4. ASSUME NEW r \in Request, Reads(r) PROVE CacheInv'
    <2> USE <1>4 DEF Reads
    <2>1. TypeOK'
      BY <1>t DEF TypeOK, Value
    <2>2. ASSUME NEW p \in Request PROVE AnswerInv(p)'
      BY <1>t DEF CacheInv, AnswerInv, Produced, Cacheable, TypeOK
    <2>3. ASSUME NEW p \in Request PROVE ReadInv(p)'
      BY <1>t DEF CacheInv, ReadInv, TypeOK
    <2>4. ASSUME NEW j \in Ask PROVE EntryInv(j)'
      BY <1>t DEF CacheInv, EntryInv, Produced, Cacheable, CacheKey, TypeOK
    <2> QED
      BY <2>1, <2>2, <2>3, <2>4 DEF CacheInv
  <1>5. ASSUME NEW r \in Request, Returns(r) PROVE CacheInv'
    <2> USE <1>5 DEF Returns, Goto, Respond
    <2>0. /\ value[r] \in Value /\ value[r].by = r /\ value[r].at \in Nat
          /\ began[r] \in Nat /\ began[r] <= value[r].at
      BY <1>t DEF CacheInv, ReadInv, TypeOK, Value
    <2>1. TypeOK'
      <3>1. store' \in [Ask -> Entry]
        BY <2>0, <1>t, <1>k DEF TypeOK, Entry, Expiry
      <3>2. answer' \in [Request -> Answer]
        BY <2>0, <1>t DEF TypeOK, Answer
      <3> QED
        BY <3>1, <3>2, <1>t DEF TypeOK
    <2>2. AnswerInv(r)'
      <3>1. answer'[r] = [value |-> value[r], at |-> now, hit |-> FALSE] /\ pc'[r] = "done"
        BY <1>t DEF TypeOK
      <3> QED
        BY <3>1, <2>0 DEF AnswerInv, Produced
    <2>3. ASSUME NEW p \in Request, p # r PROVE AnswerInv(p)'
      BY <2>3, <1>t DEF CacheInv, AnswerInv, Produced, Cacheable, TypeOK
    <2>4. ASSUME NEW p \in Request PROVE ReadInv(p)'
      BY <1>t DEF CacheInv, ReadInv, TypeOK
    <2>5. ASSUME NEW j \in Ask PROVE EntryInv(j)'
      <3>1. CASE Cacheable(r) /\ j = CacheKey(r)
        <4>1. store'[j] = [expires |-> Expiry(r), value |-> value[r]] /\ pc'[r] = "done"
          BY <3>1, <1>t DEF TypeOK
        <4>2. began[r] + TTL <= value[r].at + TTL
          BY <2>0
        <4>3. Cacheable(r)' /\ CacheKey(r)' = j
          BY <3>1 DEF Cacheable, CacheKey
        <4> QED
          BY <4>1, <4>2, <4>3, <2>0 DEF EntryInv, Produced, Expiry
      <3>2. CASE ~(Cacheable(r) /\ j = CacheKey(r))
        <4>1. store'[j] = store[j]
          BY <3>2, <1>t DEF TypeOK
        <4> QED
          BY <4>1, <1>t DEF CacheInv, EntryInv, Produced, Cacheable, CacheKey, TypeOK
      <3> QED
        BY <3>1, <3>2
    <2> QED
      BY <2>1, <2>2, <2>3, <2>4, <2>5 DEF CacheInv
  <1>6. CASE Tick
    <2> USE <1>6 DEF Tick
    <2>1. TypeOK'
      BY <1>t DEF TypeOK
    <2>2. ASSUME NEW p \in Request PROVE ReadInv(p)' /\ AnswerInv(p)'
      <3>1. began[p] \in Nat
        BY <1>t DEF TypeOK
      <3> QED
        BY <3>1, <1>t DEF CacheInv, ReadInv, AnswerInv, Produced, Cacheable
    <2>3. ASSUME NEW j \in Ask PROVE EntryInv(j)'
      BY DEF CacheInv, EntryInv, Produced, Cacheable, CacheKey
    <2> QED
      BY <2>1, <2>2, <2>3 DEF CacheInv
  <1>7. CASE UNCHANGED vars
    <2>1. TypeOK'
      BY <1>7, <1>t DEF vars, TypeOK
    <2>2. ASSUME NEW p \in Request PROVE ReadInv(p)' /\ AnswerInv(p)'
      BY <1>7 DEF vars, CacheInv, ReadInv, AnswerInv, Produced, Cacheable
    <2>3. ASSUME NEW j \in Ask PROVE EntryInv(j)'
      BY <1>7 DEF vars, CacheInv, EntryInv, Produced, Cacheable, CacheKey
    <2> QED
      BY <2>1, <2>2, <2>3 DEF CacheInv
  <1> QED
    BY <1>1, <1>2, <1>3, <1>4, <1>5, <1>6, <1>7 DEF Next, Finished

\* The invariant holds of every reachable state of the cache.
THEOREM CacheInvariant == Spec => []CacheInv
  BY InitCache, StepKeepsCache, PTL DEF Spec

\* The responses of _cached_call are well formed and of their type.
THEOREM CacheTypeCorrect == Spec => []TypeOK
  <1>1. CacheInv => TypeOK
    BY DEF CacheInv
  <1> QED
    BY <1>1, CacheInvariant, PTL

\* A response from the cache is younger than cache_ttl, counted from when its
\* data was read, for any number of requests that compute it side by side.
THEOREM ServedWithinTTLHolds == Spec => []ServedWithinTTL
  <1>1. CacheInv => ServedWithinTTL
    BY DEF CacheInv, AnswerInv, ServedWithinTTL, Unanswered
  <1> QED
    BY <1>1, CacheInvariant, PTL

\* No identity is answered with what was computed for another.
THEOREM SharedOnlyAlikeHolds == Spec => []SharedOnlyAlike
  <1>1. CacheInv => SharedOnlyAlike
    <2> SUFFICES ASSUME CacheInv, NEW r \in Request, NEW q \in Request,
                        answer[r].value.by = q
                 PROVE  ask[q] = ask[r]
      BY DEF SharedOnlyAlike
    <2>1. pc[r] = "done"
      BY ConstantsAssumption DEF CacheInv, AnswerInv, Unanswered, Nothing
    <2> QED
      BY <2>1 DEF CacheInv, AnswerInv, Produced
  <1> QED
    BY <1>1, CacheInvariant, PTL

\* What bypasses the cache is computed for the request that asked, and only it.
THEOREM BypassIsPrivateHolds == Spec => []BypassIsPrivate
  <1>1. CacheInv => BypassIsPrivate
    <2> SUFFICES ASSUME CacheInv, NEW r \in Request, NEW q \in Request,
                        answer[r].value.by = q, Private(r) \/ Private(q)
                 PROVE  r = q
      BY DEF BypassIsPrivate
    <2>1. pc[r] = "done"
      BY ConstantsAssumption DEF CacheInv, AnswerInv, Unanswered, Nothing
    <2> QED
      BY <2>1 DEF CacheInv, AnswerInv, Produced, Cacheable, Private
  <1> QED
    BY <1>1, CacheInvariant, PTL

\* A response is that of an operation that returned.
THEOREM ServedIsCompleteHolds == Spec => []ServedIsComplete
  <1>1. CacheInv => ServedIsComplete
    BY DEF CacheInv, AnswerInv, Produced, ServedIsComplete
  <1> QED
    BY <1>1, CacheInvariant, PTL

================================================================================
