------------------------- MODULE TokenStore_proofs -------------------------
(* Proofs about TokenStore, for every value of its constants. *)
EXTENDS TokenStore, TLAPS

USE ConstAssumption

\* One EXPIRE, tick or eviction leaves every time to live in range.
LEMMA OlderInRange == \A x \in TTLs : Older(x) \in TTLs
  BY DEF TTLs, Older, NoTTL

\* The initial state satisfies the inductive invariant.
LEMMA InitInvariant == Init => IInv
  <1> SUFFICES ASSUME Init PROVE IInv
    OBVIOUS
  <1>1. TypeOK
    BY DEF Init, TypeOK, PCs, TTLs, NoTTL, Empty
  <1>2. BusyHasJob /\ PendingAllocated
    BY DEF Init, BusyHasJob, PendingAllocated, Writing
  <1>3. AllocBelowCounter /\ MappingAllocated /\ NoTokenReuse
    BY DEF Init, AllocBelowCounter, MappingAllocated, NoTokenReuse, Empty
  <1> QED BY <1>1, <1>2, <1>3 DEF IInv

\* Every step keeps the variables in their types.
LEMMA TypeStep == IInv /\ [Next]_vars => TypeOK'
  <1> SUFFICES ASSUME IInv, [Next]_vars PROVE TypeOK'
    OBVIOUS
  <1> USE DEF IInv
  <1>1. ASSUME NEW t \in Tasks, NEW v \in Values, NEW l \in Labels, Call(t, v, l)
        PROVE  TypeOK'
    BY <1>1 DEF TypeOK, Call, Goto, PCs, Jobs, redis
  <1>2. ASSUME NEW t \in Tasks, HGetHit(t) PROVE TypeOK'
    BY <1>2 DEF TypeOK, HGetHit, Goto, PCs, Return, redis
  <1>3. ASSUME NEW t \in Tasks, HGetMiss(t) PROVE TypeOK'
    BY <1>3 DEF TypeOK, HGetMiss, Goto, PCs, redis
  <1>4. ASSUME NEW t \in Tasks, Incr(t) PROVE TypeOK'
    <2>1. job[t] \in Jobs
      BY <1>4 DEF Incr, Goto, BusyHasJob
    <2> DEFINE n == counter[job[t].label] + 1
    <2>2. job[t].label \in Labels /\ job[t].value \in Values /\ n \in 1..MaxCount
      BY <1>4, <2>1 DEF Jobs, Incr, TypeOK
    <2>3. counter' \in [Labels -> 0..MaxCount]
      BY <1>4, <2>2 DEF Incr, TypeOK
    <2>4. job' \in [Tasks -> Jobs \cup {NoJob}]
      <3>1. [job[t] EXCEPT !.n = n] \in Jobs
        BY <2>1, <2>2 DEF Jobs
      <3>2. job' = [job EXCEPT ![t] = [job[t] EXCEPT !.n = n]]
        BY <1>4 DEF Incr, TypeOK
      <3> QED BY <3>1, <3>2 DEF TypeOK
    <2>5. alloc' \subseteq [token : Tokens, value : Values]
      BY <1>4, <2>2 DEF Incr, TypeOK, Tokens
    <2>6. pc' \in [Tasks -> PCs]
      BY <1>4 DEF Incr, Goto, TypeOK, PCs
    <2> QED BY <1>4, <2>3, <2>4, <2>5, <2>6 DEF Incr, TypeOK
  <1>5. ASSUME NEW t \in Tasks, HSetMapping(t) PROVE TypeOK'
    <2>1. Token(job[t]) \in Tokens /\ job[t].value \in Values
      BY <1>5 DEF HSetMapping, Goto, PendingAllocated, Writing, TypeOK
    <2>2. /\ DOMAIN mapping' = DOMAIN mapping \cup {Token(job[t])}
          /\ \A x \in DOMAIN mapping' :
                mapping'[x] = IF x = Token(job[t]) THEN job[t].value ELSE mapping[x]
      BY <1>5 DEF HSetMapping, HSet
    <2>3. pc' \in [Tasks -> PCs]
      BY <1>5 DEF HSetMapping, Goto, TypeOK, PCs
    <2> QED BY <1>5, <2>1, <2>2, <2>3 DEF HSetMapping, TypeOK
  <1>6. ASSUME NEW t \in Tasks, HSetReverse(t) PROVE TypeOK'
    <2>1. Token(job[t]) \in Tokens /\ job[t].value \in Values
      BY <1>6 DEF HSetReverse, Goto, PendingAllocated, Writing, TypeOK
    <2>2. /\ DOMAIN reverse' = DOMAIN reverse \cup {job[t].value}
          /\ \A x \in DOMAIN reverse' :
                reverse'[x] = IF x = job[t].value THEN Token(job[t]) ELSE reverse[x]
      BY <1>6 DEF HSetReverse, HSet
    <2>3. pc' \in [Tasks -> PCs]
      BY <1>6 DEF HSetReverse, Goto, TypeOK, PCs
    <2> QED BY <1>6, <2>1, <2>2, <2>3 DEF HSetReverse, TypeOK
  <1>7. ASSUME NEW t \in Tasks, ExpireMapping(t) PROVE TypeOK'
    BY <1>7 DEF TypeOK, ExpireMapping, Goto, PCs, TTLs
  <1>8. ASSUME NEW t \in Tasks, ExpireReverse(t) PROVE TypeOK'
    <2>1. ttl' \in [mapping : TTLs, reverse : TTLs, counter : [Labels -> TTLs]]
      <3>1. ttl' \in {ttl, [ttl EXCEPT !.reverse = TTL]}
        BY <1>8 DEF ExpireReverse
      <3>2. TTL \in TTLs
        BY DEF TTLs
      <3> QED BY <3>1, <3>2 DEF TypeOK
    <2>2. pc' \in [Tasks -> PCs]
      BY <1>8 DEF ExpireReverse, Goto, TypeOK, PCs
    <2> QED BY <1>8, <2>1, <2>2 DEF TypeOK, ExpireReverse
  <1>9. ASSUME NEW t \in Tasks, ExpireCounter(t) PROVE TypeOK'
    <2>1. job[t].label \in Labels
      BY <1>9 DEF ExpireCounter, Goto, BusyHasJob, Jobs
    <2>2. ttl' \in [mapping : TTLs, reverse : TTLs, counter : [Labels -> TTLs]]
      BY <1>9, <2>1 DEF ExpireCounter, TypeOK, TTLs
    <2> QED BY <1>9, <2>2 DEF TypeOK, ExpireCounter, Goto, PCs, Return
  <1>10. ASSUME NEW t \in Tasks, Fail(t) PROVE TypeOK'
    BY <1>10 DEF TypeOK, Fail, PCs, Return, redis
  <1>11. CASE Clear
    BY <1>11 DEF TypeOK, Clear, TTLs, Empty
  <1>12. CASE Tick
    <2>1. ttl' \in [mapping : TTLs, reverse : TTLs, counter : [Labels -> TTLs]]
      BY <1>12, OlderInRange DEF Tick, TypeOK
    <2>2. counter' \in [Labels -> 0..MaxCount]
      BY <1>12 DEF Tick, TypeOK
    <2>3. /\ DOMAIN mapping' \subseteq Tokens
          /\ \A k \in DOMAIN mapping' : mapping'[k] \in Values
          /\ DOMAIN reverse' \subseteq Values
          /\ \A v \in DOMAIN reverse' : reverse'[v] \in Tokens
      BY <1>12 DEF Tick, TypeOK, Empty
    <2> QED BY <1>12, <2>1, <2>2, <2>3 DEF Tick, TypeOK
  <1>13. CASE EvictMapping
    BY <1>13 DEF TypeOK, EvictMapping, TTLs, Empty
  <1>14. CASE EvictReverse
    BY <1>14 DEF TypeOK, EvictReverse, TTLs, Empty
  <1>15. ASSUME NEW l \in Labels, EvictCounter(l) PROVE TypeOK'
    BY <1>15 DEF TypeOK, EvictCounter, TTLs
  <1>16. CASE UNCHANGED vars
    BY <1>16 DEF TypeOK, vars, redis
  <1> QED
    BY <1>1, <1>2, <1>3, <1>4, <1>5, <1>6, <1>7, <1>8, <1>9, <1>10, <1>11,
       <1>12, <1>13, <1>14, <1>15, <1>16 DEF Next, Step, Evict

\* Only Incr hands out a token, and the number it takes is above every number
\* of that label, so it is a new one unless the counter was lost.
LEMMA RegisterStep ==
    IInv /\ [Next]_vars =>
        (BusyHasJob /\ PendingAllocated /\ AllocBelowCounter
           /\ MappingAllocated /\ NoTokenReuse)'
  <1> SUFFICES ASSUME IInv, [Next]_vars
               PROVE  (BusyHasJob /\ PendingAllocated /\ AllocBelowCounter
                         /\ MappingAllocated /\ NoTokenReuse)'
    OBVIOUS
  <1> DEFINE Goal == BusyHasJob /\ PendingAllocated /\ AllocBelowCounter
                       /\ MappingAllocated /\ NoTokenReuse
  <1> USE DEF IInv
  <1>1. ASSUME NEW t \in Tasks, NEW v \in Values, NEW l \in Labels, Call(t, v, l)
        PROVE  Goal'
    <2>1. BusyHasJob' /\ PendingAllocated'
      BY <1>1 DEF Call, Goto, TypeOK, BusyHasJob, PendingAllocated, Writing, Jobs
    <2>2. (AllocBelowCounter /\ MappingAllocated /\ NoTokenReuse)'
      BY <1>1 DEF Call, redis, AllocBelowCounter, MappingAllocated, NoTokenReuse
    <2> QED BY <2>1, <2>2
  <1>2. ASSUME NEW t \in Tasks, HGetHit(t) PROVE Goal'
    <2>1. BusyHasJob' /\ PendingAllocated'
      BY <1>2 DEF HGetHit, Goto, Return, TypeOK, BusyHasJob, PendingAllocated, Writing
    <2>2. (AllocBelowCounter /\ MappingAllocated /\ NoTokenReuse)'
      BY <1>2 DEF HGetHit, redis, AllocBelowCounter, MappingAllocated, NoTokenReuse
    <2> QED BY <2>1, <2>2
  <1>3. ASSUME NEW t \in Tasks, HGetMiss(t) PROVE Goal'
    <2>1. BusyHasJob' /\ PendingAllocated'
      BY <1>3 DEF HGetMiss, Goto, TypeOK, BusyHasJob, PendingAllocated, Writing
    <2>2. (AllocBelowCounter /\ MappingAllocated /\ NoTokenReuse)'
      BY <1>3 DEF HGetMiss, redis, AllocBelowCounter, MappingAllocated, NoTokenReuse
    <2> QED BY <2>1, <2>2
  <1>4. ASSUME NEW t \in Tasks, Incr(t) PROVE Goal'
    <2> DEFINE l == job[t].label
               n == counter[l] + 1
               new == [token |-> <<l, n>>, value |-> job[t].value]
    <2>1. job[t] \in Jobs
      BY <1>4 DEF Incr, Goto, BusyHasJob
    <2>2. l \in Labels /\ counter[l] \in Nat /\ n \in 1..MaxCount
      BY <1>4, <2>1 DEF Jobs, Incr, TypeOK
    <2>3. /\ alloc' = alloc \cup {new}
          /\ counter' = [counter EXCEPT ![l] = n]
          /\ lost' = lost /\ mapping' = mapping
      BY <1>4 DEF Incr
    <2>4. job' = [job EXCEPT ![t] = [job[t] EXCEPT !.n = n]]
      BY <1>4 DEF Incr, TypeOK
    <2>5. [job[t] EXCEPT !.n = n] \in Jobs
      BY <2>1, <2>2 DEF Jobs
    <2>6. BusyHasJob'
      BY <1>4, <2>4, <2>5 DEF Incr, Goto, TypeOK, BusyHasJob
    <2>7. PendingAllocated'
      <3> SUFFICES ASSUME NEW s \in Tasks, (pc[s] \in Writing)'
                   PROVE  [token |-> Token(job'[s]), value |-> job'[s].value] \in alloc'
        BY DEF PendingAllocated
      <3>1. CASE s = t
        <4>1. job'[t] = [job[t] EXCEPT !.n = n]
          BY <2>4 DEF TypeOK
        <4>2. job'[t].label = l /\ job'[t].n = n /\ job'[t].value = job[t].value
          BY <4>1, <2>1 DEF Jobs
        <4> QED BY <3>1, <4>2, <2>3 DEF Token
      <3>2. CASE s # t
        <4>1. pc[s] \in Writing /\ job'[s] = job[s]
          BY <1>4, <2>4, <3>2 DEF Incr, Goto, TypeOK
        <4> QED BY <4>1, <2>3 DEF PendingAllocated
      <3> QED BY <3>1, <3>2
    <2>8. AllocBelowCounter'
      <3> SUFFICES ASSUME NEW p \in alloc', p.token[1] \notin lost
                   PROVE  p.token[2] <= counter'[p.token[1]]
        BY <2>3 DEF AllocBelowCounter
      <3>1. CASE p = new
        BY <3>1, <2>2, <2>3 DEF TypeOK
      <3>2. CASE p # new
        <4>1. p \in alloc
          BY <2>3, <3>2
        <4>2. p.token[2] <= counter[p.token[1]] /\ p.token \in Tokens
          BY <4>1 DEF AllocBelowCounter, TypeOK
        <4>3. CASE p.token[1] = l
          <5>1. counter'[p.token[1]] = n
            BY <2>2, <2>3, <4>3 DEF TypeOK
          <5>2. p.token[2] \in Nat
            BY <4>2 DEF Tokens
          <5> QED BY <4>2, <4>3, <5>1, <5>2, <2>2
        <4>4. CASE p.token[1] # l
          BY <4>2, <4>4, <2>3 DEF TypeOK, Tokens
        <4> QED BY <4>3, <4>4
      <3> QED BY <3>1, <3>2
    <2>9. MappingAllocated'
      BY <2>3 DEF MappingAllocated
    <2>10. ASSUME NEW p \in alloc, p.token = <<l, n>>, l \notin lost PROVE FALSE
      BY <2>10, <2>2 DEF AllocBelowCounter
    <2>11. NoTokenReuse'
      <3> SUFFICES ASSUME NEW a \in alloc', NEW b \in alloc',
                          a.token = b.token, a.token[1] \notin lost
                   PROVE  a.value = b.value
        BY <2>3 DEF NoTokenReuse
      <3>1. CASE a \in alloc /\ b \in alloc
        BY <3>1 DEF NoTokenReuse
      <3>2. CASE a = new /\ b = new
        BY <3>2
      <3>3. CASE a = new /\ b \in alloc
        BY <3>3, <2>10
      <3>4. CASE a \in alloc /\ b = new
        BY <3>4, <2>10
      <3> QED BY <3>1, <3>2, <3>3, <3>4, <2>3
    <2> QED BY <2>6, <2>7, <2>8, <2>9, <2>11
  <1>5. ASSUME NEW t \in Tasks, HSetMapping(t) PROVE Goal'
    <2>1. [token |-> Token(job[t]), value |-> job[t].value] \in alloc
      BY <1>5 DEF HSetMapping, Goto, PendingAllocated, Writing
    <2>2. MappingAllocated'
      BY <1>5, <2>1 DEF HSetMapping, HSet, MappingAllocated
    <2>3. BusyHasJob' /\ PendingAllocated'
      BY <1>5 DEF HSetMapping, Goto, TypeOK, BusyHasJob, PendingAllocated, Writing
    <2>4. AllocBelowCounter' /\ NoTokenReuse'
      BY <1>5 DEF HSetMapping, AllocBelowCounter, NoTokenReuse
    <2> QED BY <2>2, <2>3, <2>4
  <1>6. ASSUME NEW t \in Tasks, HSetReverse(t) PROVE Goal'
    <2>1. BusyHasJob' /\ PendingAllocated'
      BY <1>6 DEF HSetReverse, Goto, TypeOK, BusyHasJob, PendingAllocated, Writing
    <2>2. (AllocBelowCounter /\ MappingAllocated /\ NoTokenReuse)'
      BY <1>6 DEF HSetReverse, AllocBelowCounter, MappingAllocated, NoTokenReuse
    <2> QED BY <2>1, <2>2
  <1>7. ASSUME NEW t \in Tasks, ExpireMapping(t) PROVE Goal'
    <2>1. BusyHasJob' /\ PendingAllocated'
      BY <1>7 DEF ExpireMapping, Goto, TypeOK, BusyHasJob, PendingAllocated, Writing
    <2>2. (AllocBelowCounter /\ MappingAllocated /\ NoTokenReuse)'
      BY <1>7 DEF ExpireMapping, AllocBelowCounter, MappingAllocated, NoTokenReuse
    <2> QED BY <2>1, <2>2
  <1>8. ASSUME NEW t \in Tasks, ExpireReverse(t) PROVE Goal'
    <2>1. BusyHasJob' /\ PendingAllocated'
      BY <1>8 DEF ExpireReverse, Goto, TypeOK, BusyHasJob, PendingAllocated, Writing
    <2>2. (AllocBelowCounter /\ MappingAllocated /\ NoTokenReuse)'
      BY <1>8 DEF ExpireReverse, AllocBelowCounter, MappingAllocated, NoTokenReuse
    <2> QED BY <2>1, <2>2
  <1>9. ASSUME NEW t \in Tasks, ExpireCounter(t) PROVE Goal'
    <2>1. BusyHasJob' /\ PendingAllocated'
      BY <1>9 DEF ExpireCounter, Goto, Return, TypeOK, BusyHasJob, PendingAllocated, Writing
    <2>2. (AllocBelowCounter /\ MappingAllocated /\ NoTokenReuse)'
      BY <1>9 DEF ExpireCounter, AllocBelowCounter, MappingAllocated, NoTokenReuse
    <2> QED BY <2>1, <2>2
  <1>10. ASSUME NEW t \in Tasks, Fail(t) PROVE Goal'
    <2>1. BusyHasJob' /\ PendingAllocated'
      BY <1>10 DEF Fail, Return, TypeOK, BusyHasJob, PendingAllocated, Writing
    <2>2. (AllocBelowCounter /\ MappingAllocated /\ NoTokenReuse)'
      BY <1>10 DEF Fail, redis, AllocBelowCounter, MappingAllocated, NoTokenReuse
    <2> QED BY <2>1, <2>2
  <1>11. CASE Clear
    <2>1. BusyHasJob' /\ PendingAllocated'
      BY <1>11 DEF Clear, BusyHasJob, PendingAllocated
    <2>2. (AllocBelowCounter /\ MappingAllocated /\ NoTokenReuse)'
      BY <1>11 DEF Clear, Empty, AllocBelowCounter, MappingAllocated, NoTokenReuse
    <2> QED BY <2>1, <2>2
  <1>12. CASE Tick
    <2>1. BusyHasJob' /\ PendingAllocated'
      BY <1>12 DEF Tick, BusyHasJob, PendingAllocated
    <2>2. MappingAllocated'
      BY <1>12 DEF Tick, Empty, MappingAllocated
    <2>3. AllocBelowCounter'
      BY <1>12 DEF Tick, AllocBelowCounter, TypeOK, Tokens
    <2>4. NoTokenReuse'
      BY <1>12 DEF Tick, NoTokenReuse
    <2> QED BY <2>1, <2>2, <2>3, <2>4
  <1>13. CASE EvictMapping
    BY <1>13 DEF EvictMapping, Empty, BusyHasJob, PendingAllocated,
                 AllocBelowCounter, MappingAllocated, NoTokenReuse
  <1>14. CASE EvictReverse
    BY <1>14 DEF EvictReverse, BusyHasJob, PendingAllocated,
                 AllocBelowCounter, MappingAllocated, NoTokenReuse
  <1>15. ASSUME NEW l \in Labels, EvictCounter(l) PROVE Goal'
    <2>1. BusyHasJob' /\ PendingAllocated' /\ MappingAllocated' /\ NoTokenReuse'
      BY <1>15 DEF EvictCounter, BusyHasJob, PendingAllocated, MappingAllocated,
                   NoTokenReuse
    <2>2. AllocBelowCounter'
      BY <1>15 DEF EvictCounter, AllocBelowCounter, TypeOK, Tokens
    <2> QED BY <2>1, <2>2
  <1>16. CASE UNCHANGED vars
    BY <1>16 DEF vars, redis, BusyHasJob, PendingAllocated,
                 AllocBelowCounter, MappingAllocated, NoTokenReuse
  <1> QED
    BY <1>1, <1>2, <1>3, <1>4, <1>5, <1>6, <1>7, <1>8, <1>9, <1>10, <1>11,
       <1>12, <1>13, <1>14, <1>15, <1>16 DEF Next, Step, Evict

\* IInv holds in every reachable state.
THEOREM Invariance == Spec => []IInv
  <1>1. Init => IInv
    BY InitInvariant
  <1>2. IInv /\ [Next]_vars => IInv'
    BY TypeStep, RegisterStep DEF IInv
  <1> QED BY <1>1, <1>2, PTL DEF Spec

\* The store's variables keep their shape (cache.py).
THEOREM TypeCorrect == Spec => []TypeOK
  BY Invariance, PTL DEF IInv

\* get_or_create_token never gives one token to two values while Redis keeps
\* the counter of its label: concurrent calls, failed calls, DELETE /mapping,
\* expiry and eviction of the hashes cannot break it.
THEOREM TokensUnique == Spec => []NoTokenReuse
  BY Invariance, PTL DEF IInv

\* A resolvable token is never rebound while its label's counter is kept.
THEOREM TokensNotRebound == Spec => NoRebinding
  <1>1. IInv /\ IInv' /\ [Next]_vars =>
          [\A k \in DOMAIN mapping \cap DOMAIN mapping' :
              k[1] \notin lost' => mapping'[k] = mapping[k]]_vars
    <2> SUFFICES ASSUME IInv, IInv', [Next]_vars,
                        NEW k \in DOMAIN mapping \cap DOMAIN mapping',
                        k[1] \notin lost'
                 PROVE  mapping'[k] = mapping[k]
      OBVIOUS
    <2>1. alloc \subseteq alloc'
      BY DEF Next, Step, Call, HGetHit, HGetMiss, Incr, HSetMapping, HSetReverse,
             ExpireMapping, ExpireReverse, ExpireCounter, Fail, Clear, Tick,
             Evict, EvictMapping, EvictReverse, EvictCounter, vars
    <2>2. /\ [token |-> k, value |-> mapping[k]] \in alloc'
          /\ [token |-> k, value |-> mapping'[k]] \in alloc'
      BY <2>1 DEF IInv, MappingAllocated
    <2> QED BY <2>2 DEF IInv, NoTokenReuse
  <1> QED BY <1>1, Invariance, PTL DEF Spec, NoRebinding

\* Every step of the store is a step of the pseudonym register, or none.
LEMMA StepImplements == IInv /\ IInv' /\ [Next]_vars => [Abs!Next]_(Abs!vars)
  <1> SUFFICES ASSUME IInv, IInv', [Next]_vars PROVE [Abs!Next]_(Abs!vars)
    OBVIOUS
  <1>0. Resolvable \subseteq alloc /\ Resolvable' \subseteq alloc'
    BY DEF IInv, MappingAllocated, Resolvable
  <1>1. ASSUME NEW t \in Tasks, Incr(t) PROVE [Abs!Next]_(Abs!vars)
    <2> DEFINE l == job[t].label
               n == counter[l] + 1
    <2>1. job[t] \in Jobs
      BY <1>1 DEF Incr, Goto, IInv, BusyHasJob
    <2>2. l \in Labels /\ job[t].value \in Values /\ n \in 1..MaxCount
             /\ counter[l] \in Nat
      BY <1>1, <2>1 DEF Jobs, Incr, IInv, TypeOK
    <2>3. /\ alloc' = alloc \cup {[token |-> <<l, n>>, value |-> job[t].value]}
          /\ lost' = lost /\ Resolvable' = Resolvable
      BY <1>1 DEF Incr, Resolvable
    <2>4. ASSUME NEW p \in alloc, p.token = <<l, n>>, l \notin lost PROVE FALSE
      BY <2>4, <2>2 DEF IInv, AllocBelowCounter
    <2>5. Abs!Allocate(l, n, job[t].value)
      BY <2>3, <2>4 DEF Abs!Allocate
    <2> QED BY <2>2, <2>5 DEF Abs!Next
  <1>2. ASSUME NEW t \in Tasks, HSetMapping(t) PROVE [Abs!Next]_(Abs!vars)
    BY <1>0, <1>2 DEF HSetMapping, Abs!Next, Abs!Publish
  <1>3. CASE Clear
    BY <1>3 DEF Clear, Resolvable, Empty, Abs!Next, Abs!Lose, IInv, TypeOK
  <1>4. CASE Tick
    BY <1>4 DEF Tick, Resolvable, Empty, Abs!Next, Abs!Lose, IInv, TypeOK
  <1>5. CASE Evict
    BY <1>5 DEF Evict, EvictMapping, EvictReverse, EvictCounter, Resolvable,
                Empty, Abs!Next, Abs!Lose, IInv, TypeOK
  <1>6. CASE UNCHANGED <<alloc, mapping, lost>>
    BY <1>6 DEF Resolvable, Abs!vars
  <1> QED
    BY <1>1, <1>2, <1>3, <1>4, <1>5, <1>6
    DEF Next, Step, Call, HGetHit, HGetMiss, HSetReverse, ExpireMapping,
        ExpireReverse, ExpireCounter, Fail, redis, vars

\* The store implements the register of Pseudonyms.
THEOREM Refinement == Spec => Implements
  <1>1. Init => Abs!Init
    BY DEF Init, Abs!Init, Resolvable, Empty
  <1> QED BY <1>1, StepImplements, Invariance, PTL DEF Spec, Implements, Abs!Spec

---------------------------------------------------------------------------
(* Nothing is kept for ever.                                               *)

AnyFailed == \E t \in Tasks : pc[t] = "failed"

\* A call that has still to set the time to live of a key it has written.
MappingDue == \E t \in Tasks : pc[t] \in {"hset_reverse", "expire_mapping"}
ReverseDue == \E t \in Tasks : pc[t] \in {"expire_mapping", "expire_reverse"}
CounterDue(l) ==
  \E t \in Tasks :
     /\ pc[t] \in {"hset_mapping", "hset_reverse", "expire_mapping",
                   "expire_reverse", "expire_counter"}
     /\ job[t].label = l

\* Unless a call has failed, a key without a time to live is one that a call
\* in progress is about to give one.
LifeDue ==
  \/ AnyFailed
  \/ /\ DOMAIN mapping # {} /\ ttl.mapping = NoTTL => MappingDue
     /\ DOMAIN reverse # {} /\ ttl.reverse = NoTTL => ReverseDue
     /\ \A l \in Labels : counter[l] # 0 /\ ttl.counter[l] = NoTTL => CounterDue(l)

\* A call that failed stays so.
LEMMA FailedStays == TypeOK /\ [Next]_vars /\ AnyFailed => AnyFailed'
  <1> SUFFICES ASSUME TypeOK, [Next]_vars, NEW t \in Tasks, pc[t] = "failed"
               PROVE  pc'[t] = "failed"
    BY DEF AnyFailed
  <1>1. ASSUME NEW u \in Tasks, NEW from, NEW to, from # "failed", Goto(u, from, to)
        PROVE  pc'[t] = "failed"
    BY <1>1 DEF Goto, TypeOK
  <1>2. ASSUME NEW u \in Tasks, NEW v \in Values, NEW l \in Labels, Call(u, v, l)
        PROVE  pc'[t] = "failed"
    BY <1>1, <1>2 DEF Call
  <1>3. ASSUME NEW u \in Tasks, Step(u) PROVE pc'[t] = "failed"
    BY <1>1, <1>3 DEF Step, HGetHit, HGetMiss, Incr, HSetMapping, HSetReverse,
                      ExpireMapping, ExpireReverse, ExpireCounter
  <1>4. ASSUME NEW u \in Tasks, Fail(u) PROVE pc'[t] = "failed"
    BY <1>4 DEF Fail, TypeOK
  <1>5. CASE Clear \/ Tick \/ Evict \/ UNCHANGED vars
    BY <1>5 DEF Clear, Tick, Evict, EvictMapping, EvictReverse, EvictCounter, vars
  <1> QED BY <1>2, <1>3, <1>4, <1>5 DEF Next

\* What a step of another call leaves due stays due.
LEMMA DueStays ==
  ASSUME TypeOK, NEW t \in Tasks,
         \A u \in Tasks \ {t} : pc'[u] = pc[u] /\ job'[u] = job[u]
  PROVE  /\ MappingDue => MappingDue' \/ pc[t] \in {"hset_reverse", "expire_mapping"}
         /\ ReverseDue => ReverseDue' \/ pc[t] \in {"expire_mapping", "expire_reverse"}
         /\ \A l \in Labels : CounterDue(l) =>
               \/ CounterDue(l)'
               \/ /\ pc[t] \in {"hset_mapping", "hset_reverse", "expire_mapping",
                                "expire_reverse", "expire_counter"}
                  /\ job[t].label = l
  BY DEF MappingDue, ReverseDue, CounterDue

\* Each key is written before the EXPIRE that its call still has to make.
LEMMA LifeStep == IInv /\ LifeDue /\ [Next]_vars => LifeDue'
  <1> SUFFICES ASSUME IInv, LifeDue, [Next]_vars, ~AnyFailed'
               PROVE  /\ (DOMAIN mapping # {} /\ ttl.mapping = NoTTL => MappingDue)'
                      /\ (DOMAIN reverse # {} /\ ttl.reverse = NoTTL => ReverseDue)'
                      /\ \A l \in Labels :
                            (counter[l] # 0 /\ ttl.counter[l] = NoTTL => CounterDue(l))'
    BY DEF LifeDue
  <1> DEFINE Goal == /\ (DOMAIN mapping # {} /\ ttl.mapping = NoTTL => MappingDue)'
                     /\ (DOMAIN reverse # {} /\ ttl.reverse = NoTTL => ReverseDue)'
                     /\ \A l \in Labels :
                           (counter[l] # 0 /\ ttl.counter[l] = NoTTL => CounterDue(l))'
  <1>t. TypeOK /\ BusyHasJob /\ ~AnyFailed
    BY FailedStays DEF IInv
  <1>d. /\ DOMAIN mapping # {} /\ ttl.mapping = NoTTL => MappingDue
        /\ DOMAIN reverse # {} /\ ttl.reverse = NoTTL => ReverseDue
        /\ \A l \in Labels : counter[l] # 0 /\ ttl.counter[l] = NoTTL => CounterDue(l)
    BY <1>t DEF LifeDue
  <1>n. TTL # NoTTL
    BY DEF NoTTL
  <1>g. ASSUME NEW t \in Tasks, NEW from, NEW to, Goto(t, from, to)
        PROVE  /\ pc[t] = from /\ pc'[t] = to
               /\ \A u \in Tasks \ {t} : pc'[u] = pc[u]
    BY <1>g, <1>t DEF Goto, TypeOK
  <1>1. ASSUME NEW t \in Tasks, NEW v \in Values, NEW l \in Labels, Call(t, v, l)
        PROVE  Goal
    <2>1. pc[t] = "idle" /\ \A u \in Tasks \ {t} : pc'[u] = pc[u] /\ job'[u] = job[u]
      BY <1>1, <1>g, <1>t DEF Call, TypeOK
    <2> QED BY <1>1, <1>t, <1>d, <2>1, DueStays DEF Call, redis
  <1>2. ASSUME NEW t \in Tasks, HGetHit(t) PROVE Goal
    <2>1. pc[t] = "hget" /\ \A u \in Tasks \ {t} : pc'[u] = pc[u] /\ job'[u] = job[u]
      BY <1>2, <1>g, <1>t DEF HGetHit, Return, TypeOK
    <2> QED BY <1>2, <1>t, <1>d, <2>1, DueStays DEF HGetHit, redis
  <1>3. ASSUME NEW t \in Tasks, HGetMiss(t) PROVE Goal
    <2>1. pc[t] = "hget" /\ \A u \in Tasks \ {t} : pc'[u] = pc[u] /\ job'[u] = job[u]
      BY <1>3, <1>g, <1>t DEF HGetMiss
    <2> QED BY <1>3, <1>t, <1>d, <2>1, DueStays DEF HGetMiss, redis
  <1>4. ASSUME NEW t \in Tasks, Incr(t) PROVE Goal
    <2>1. /\ pc[t] = "incr" /\ pc'[t] = "hset_mapping" /\ job'[t].label = job[t].label
          /\ \A u \in Tasks \ {t} : pc'[u] = pc[u] /\ job'[u] = job[u]
      BY <1>4, <1>g, <1>t DEF Incr, TypeOK, BusyHasJob, Jobs
    <2>2. /\ UNCHANGED <<mapping, reverse, ttl>>
          /\ \A l \in Labels \ {job[t].label} : counter'[l] = counter[l]
      BY <1>4, <1>t DEF Incr, TypeOK
    <2>3. CounterDue(job[t].label)'
      BY <2>1 DEF CounterDue
    <2> QED BY <1>t, <1>d, <2>1, <2>2, <2>3, DueStays
  <1>5. ASSUME NEW t \in Tasks, HSetMapping(t) PROVE Goal
    <2>1. /\ pc[t] = "hset_mapping" /\ pc'[t] = "hset_reverse"
          /\ UNCHANGED <<job, reverse, counter, ttl>>
          /\ \A u \in Tasks \ {t} : pc'[u] = pc[u] /\ job'[u] = job[u]
      BY <1>5, <1>g, <1>t DEF HSetMapping
    <2>2. MappingDue' /\ \A l \in Labels : CounterDue(l) => CounterDue(l)'
      BY <2>1 DEF MappingDue, CounterDue
    <2> QED BY <1>t, <1>d, <2>1, <2>2, DueStays
  <1>6. ASSUME NEW t \in Tasks, HSetReverse(t) PROVE Goal
    <2>1. /\ pc[t] = "hset_reverse" /\ pc'[t] = "expire_mapping"
          /\ UNCHANGED <<job, mapping, counter, ttl>>
      BY <1>6, <1>g, <1>t DEF HSetReverse
    <2>2. /\ MappingDue' /\ ReverseDue'
          /\ \A l \in Labels : CounterDue(l) => CounterDue(l)'
      <3>1. \A u \in Tasks \ {t} : pc'[u] = pc[u]
        BY <1>6, <1>g, <1>t DEF HSetReverse
      <3> QED BY <2>1, <3>1 DEF MappingDue, ReverseDue, CounterDue
    <2> QED BY <1>d, <2>1, <2>2
  <1>7. ASSUME NEW t \in Tasks, ExpireMapping(t) PROVE Goal
    <2>1. /\ pc[t] = "expire_mapping" /\ pc'[t] = "expire_reverse"
          /\ UNCHANGED <<job, mapping, reverse, counter>>
          /\ \A u \in Tasks \ {t} : pc'[u] = pc[u] /\ job'[u] = job[u]
      BY <1>7, <1>g, <1>t DEF ExpireMapping
    <2>2. /\ DOMAIN mapping # {} => ttl'.mapping = TTL
          /\ ttl'.reverse = ttl.reverse /\ ttl'.counter = ttl.counter
      BY <1>7, <1>t DEF ExpireMapping, TypeOK
    <2>3. /\ ReverseDue'
          /\ \A l \in Labels : CounterDue(l) => CounterDue(l)'
      BY <2>1 DEF ReverseDue, CounterDue
    <2> QED BY <1>d, <1>n, <2>1, <2>2, <2>3
  <1>8. ASSUME NEW t \in Tasks, ExpireReverse(t) PROVE Goal
    <2>1. /\ pc[t] = "expire_reverse" /\ pc'[t] = "expire_counter"
          /\ UNCHANGED <<job, mapping, reverse, counter>>
          /\ \A u \in Tasks \ {t} : pc'[u] = pc[u] /\ job'[u] = job[u]
      BY <1>8, <1>g, <1>t DEF ExpireReverse
    <2>2. /\ DOMAIN reverse # {} => ttl'.reverse = TTL
          /\ ttl'.mapping = ttl.mapping /\ ttl'.counter = ttl.counter
      BY <1>8, <1>t DEF ExpireReverse, TypeOK
    <2>3. /\ MappingDue => MappingDue'
          /\ \A l \in Labels : CounterDue(l) => CounterDue(l)'
      BY <2>1 DEF MappingDue, CounterDue
    <2> QED BY <1>d, <1>n, <2>1, <2>2, <2>3
  <1>9. ASSUME NEW t \in Tasks, ExpireCounter(t) PROVE Goal
    <2> DEFINE k == job[t].label
    <2>1. /\ pc[t] = "expire_counter"
          /\ UNCHANGED <<mapping, reverse, counter>>
          /\ \A u \in Tasks \ {t} : pc'[u] = pc[u] /\ job'[u] = job[u]
      BY <1>9, <1>g, <1>t DEF ExpireCounter, Return, TypeOK
    <2>2. /\ counter[k] # 0 => ttl'.counter[k] = TTL
          /\ ttl'.mapping = ttl.mapping /\ ttl'.reverse = ttl.reverse
          /\ \A l \in Labels \ {k} : ttl'.counter[l] = ttl.counter[l]
      <3>1. k \in Labels
        BY <1>t, <2>1 DEF BusyHasJob, Jobs
      <3> QED BY <1>9, <1>t, <3>1 DEF ExpireCounter, TypeOK
    <2>3. /\ MappingDue => MappingDue'
          /\ ReverseDue => ReverseDue'
          /\ \A l \in Labels \ {k} : CounterDue(l) => CounterDue(l)'
      BY <2>1 DEF MappingDue, ReverseDue, CounterDue
    <2> QED BY <1>d, <1>n, <2>1, <2>2, <2>3
  <1>10. ASSUME NEW t \in Tasks, Fail(t) PROVE FALSE
    BY <1>10, <1>t DEF Fail, AnyFailed, TypeOK
  <1>11. ASSUME UNCHANGED <<pc, job>>,
                DOMAIN mapping' # {} => \/ mapping' = mapping /\ ttl'.mapping = ttl.mapping
                                        \/ ttl'.mapping # NoTTL,
                DOMAIN reverse' # {} => \/ reverse' = reverse /\ ttl'.reverse = ttl.reverse
                                        \/ ttl'.reverse # NoTTL,
                \A l \in Labels : counter'[l] # 0 =>
                    \/ counter'[l] = counter[l] /\ ttl'.counter[l] = ttl.counter[l]
                    \/ ttl'.counter[l] # NoTTL
         PROVE  Goal
    BY <1>11, <1>d DEF MappingDue, ReverseDue, CounterDue
  <1>12. CASE Clear
    BY <1>11, <1>12, <1>t DEF Clear, TypeOK, Empty
  <1>13. CASE Tick
    BY <1>11, <1>13, <1>t DEF Tick, Older, TTLs, NoTTL, TypeOK, Empty
  <1>14. CASE EvictMapping \/ EvictReverse
    BY <1>11, <1>14, <1>t DEF EvictMapping, EvictReverse, TypeOK, Empty
  <1>15. ASSUME NEW l \in Labels, EvictCounter(l) PROVE Goal
    BY <1>11, <1>15, <1>t DEF EvictCounter, TypeOK
  <1>16. CASE UNCHANGED vars
    BY <1>11, <1>16 DEF vars, redis
  <1> QED
    BY <1>1, <1>2, <1>3, <1>4, <1>5, <1>6, <1>7, <1>8, <1>9, <1>10, <1>12,
       <1>13, <1>14, <1>15, <1>16 DEF Next, Step, Evict

\* Between calls no key of a user is left without a time to live, unless a
\* call failed before its EXPIREs (cache.py:24-26): concurrent calls, clears,
\* expiries and evictions of single keys leave none behind.
THEOREM NothingKeptForEver == Spec => []AlwaysEphemeral
  <1>1. Init => LifeDue
    BY DEF Init, LifeDue, Empty
  <1>2. IInv /\ LifeDue => AlwaysEphemeral
    BY DEF LifeDue, AnyFailed, AlwaysEphemeral, MappingDue, ReverseDue, CounterDue
  <1> QED BY <1>1, <1>2, Invariance, InitInvariant, TypeStep, RegisterStep, LifeStep, PTL DEF Spec
===========================================================================
