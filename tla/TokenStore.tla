---------------------------- MODULE TokenStore ----------------------------
(***************************************************************************)
(* sidecar/cache.py: the per-user pseudonym mapping kept in Redis, one     *)
(* action per Redis command, because each await of get_or_create_token is  *)
(* a point where another request of the same user, an expiry or a DELETE   *)
(* /mapping may come in between.  One user is modelled: keys of different  *)
(* users are disjoint.                                                     *)
(*                                                                         *)
(* Redis itself is modelled by the commands used: hashes as partial        *)
(* functions, a missing counter as 0, and a remaining time to live per     *)
(* key, counted in ticks, NoTTL where none is set (Redis answers -1).      *)
(*                                                                         *)
(* An operator Mut... is a faulty variant of the definition that follows,  *)
(* put in its place to confirm that a property notices the fault.          *)
(***************************************************************************)
EXTENDS Integers, FiniteSets

CONSTANTS
    Tasks,        \* coroutines that may be inside get_or_create_token
    Values,       \* original values
    Labels,       \* entity types
    NoJob,        \* what an idle task works on
    TTL,          \* MAPPING_TTL, in ticks
    MaxCount,     \* bound: highest number allocated per label
    MaxRequests,  \* bound: calls of get_or_create_token
    Events,       \* which of EventKinds happen in this instance
    Evictable     \* key classes the LRU policy may drop

EventKinds == {"error", "clear", "time"}
KeyClasses == {"mapping", "reverse", "counter"}
NoTTL == -1

Jobs == [value : Values, label : Labels, n : 0..MaxCount]

ASSUME ConstAssumption ==
    /\ TTL \in Nat \ {0}
    /\ MaxCount \in Nat
    /\ MaxRequests \in Nat
    /\ Events \subseteq EventKinds
    /\ Evictable \subseteq KeyClasses
    /\ NoJob \notin Jobs

VARIABLES
    pc,       \* pc[t]: the Redis command t issues next
    job,      \* job[t]: arguments and locals of t's call
    mapping,  \* hash mapping:{user}, token -> value
    reverse,  \* hash reverse:{user}, value -> token
    counter,  \* counter:{user}:{label}
    ttl,      \* remaining time to live of each key
    asked,    \* calls so far
    alloc,    \* history: pairs [token, value] an INCR has created
    lost      \* history: labels whose counter key was expired or evicted

redis == <<mapping, reverse, counter, ttl>>
vars == <<pc, job, redis, asked, alloc, lost>>

PCs == {"idle", "failed", "hget", "incr", "hset_mapping", "hset_reverse",
        "expire_mapping", "expire_reverse", "expire_counter"}
Tokens == Labels \X (1..MaxCount)
MutTokenUnlabelled(j) == <<CHOOSE l \in Labels : TRUE, j.n>>
Token(j) == <<j.label, j.n>>
TTLs == {NoTTL} \cup (1..TTL)
Empty == [x \in {} |-> x]

\* HSET h k v
HSet(h, k, v) ==
    [x \in DOMAIN h \cup {k} |-> IF x = k THEN v ELSE h[x]]

---------------------------------------------------------------------------
Init ==
    /\ pc = [t \in Tasks |-> "idle"]
    /\ job = [t \in Tasks |-> NoJob]
    /\ mapping = Empty
    /\ reverse = Empty
    /\ counter = [l \in Labels |-> 0]
    /\ ttl = [mapping |-> NoTTL, reverse |-> NoTTL,
              counter |-> [l \in Labels |-> NoTTL]]
    /\ asked = 0
    /\ alloc = {}
    /\ lost = {}

Goto(t, from, to) == pc[t] = from /\ pc' = [pc EXCEPT ![t] = to]

Return(t) == job' = [job EXCEPT ![t] = NoJob]

\* A request calls get_or_create_token(user, label, value).
Call(t, v, l) ==
    /\ asked < MaxRequests
    /\ Goto(t, "idle", "hget")
    /\ job' = [job EXCEPT ![t] = [value |-> v, label |-> l, n |-> 0]]
    /\ asked' = asked + 1
    /\ UNCHANGED <<redis, alloc, lost>>

\* The value already has a token: it is returned, no expiry is refreshed.
HGetHit(t) ==
    /\ Goto(t, "hget", "idle")
    /\ job[t].value \in DOMAIN reverse
    /\ Return(t)
    /\ UNCHANGED <<redis, asked, alloc, lost>>

HGetMiss(t) ==
    /\ Goto(t, "hget", "incr")
    /\ job[t].value \notin DOMAIN reverse
    /\ UNCHANGED <<job, redis, asked, alloc, lost>>

\* Mutant: the number is read off the hash instead of a counter of its own.
MutIncrFromHash(t) ==
    LET l == job[t].label
        n == Cardinality({k \in DOMAIN mapping : k[1] = l}) + 1
    IN /\ Goto(t, "incr", "hset_mapping")
       /\ n <= MaxCount
       /\ job' = [job EXCEPT ![t].n = n]
       /\ alloc' = alloc \cup {[token |-> <<l, n>>, value |-> job[t].value]}
       /\ UNCHANGED <<mapping, reverse, counter, ttl, asked, lost>>

\* INCR is atomic in Redis; the new number makes the token.
Incr(t) ==
    LET l == job[t].label
        n == counter[l] + 1
    IN /\ Goto(t, "incr", "hset_mapping")
       /\ counter[l] < MaxCount
       /\ counter' = [counter EXCEPT ![l] = n]
       /\ job' = [job EXCEPT ![t].n = n]
       /\ alloc' = alloc \cup {[token |-> <<l, n>>, value |-> job[t].value]}
       /\ UNCHANGED <<mapping, reverse, ttl, asked, lost>>

HSetMapping(t) ==
    /\ Goto(t, "hset_mapping", "hset_reverse")
    /\ mapping' = HSet(mapping, Token(job[t]), job[t].value)
    /\ UNCHANGED <<job, reverse, counter, ttl, asked, alloc, lost>>

HSetReverse(t) ==
    /\ Goto(t, "hset_reverse", "expire_mapping")
    /\ reverse' = HSet(reverse, job[t].value, Token(job[t]))
    /\ UNCHANGED <<job, mapping, counter, ttl, asked, alloc, lost>>

\* Mutants: an EXPIRE is forgotten.
MutExpireMappingForgotten(t) ==
    /\ Goto(t, "expire_mapping", "expire_reverse")
    /\ UNCHANGED <<job, redis, asked, alloc, lost>>

\* EXPIRE of a key that does not exist does nothing.
ExpireMapping(t) ==
    /\ Goto(t, "expire_mapping", "expire_reverse")
    /\ ttl' = IF DOMAIN mapping = {} THEN ttl
              ELSE [ttl EXCEPT !.mapping = TTL]
    /\ UNCHANGED <<job, mapping, reverse, counter, asked, alloc, lost>>

MutExpireReverseForgotten(t) ==
    /\ Goto(t, "expire_reverse", "expire_counter")
    /\ UNCHANGED <<job, redis, asked, alloc, lost>>

ExpireReverse(t) ==
    /\ Goto(t, "expire_reverse", "expire_counter")
    /\ ttl' = IF DOMAIN reverse = {} THEN ttl
              ELSE [ttl EXCEPT !.reverse = TTL]
    /\ UNCHANGED <<job, mapping, reverse, counter, asked, alloc, lost>>

\* Only the counter of this call's label is refreshed.
ExpireCounter(t) ==
    LET l == job[t].label
    IN /\ Goto(t, "expire_counter", "idle")
       /\ ttl' = IF counter[l] = 0 THEN ttl
                 ELSE [ttl EXCEPT !.counter[l] = TTL]
       /\ Return(t)
       /\ UNCHANGED <<mapping, reverse, counter, asked, alloc, lost>>

\* A Redis command raises, or the request is cancelled: the call ends where
\* it is and what it wrote stays.  Its task makes no other call, so that the
\* properties can tell whether a call has failed.
Fail(t) ==
    /\ "error" \in Events
    /\ pc[t] \notin {"idle", "failed"}
    /\ pc' = [pc EXCEPT ![t] = "failed"]
    /\ Return(t)
    /\ UNCHANGED <<redis, asked, alloc, lost>>

\* Mutant: the numbering restarts with the mapping.
MutClearCounters ==
    /\ "clear" \in Events
    /\ mapping' = Empty
    /\ reverse' = Empty
    /\ counter' = [l \in Labels |-> 0]
    /\ ttl' = [mapping |-> NoTTL, reverse |-> NoTTL,
               counter |-> [l \in Labels |-> NoTTL]]
    /\ UNCHANGED <<pc, job, asked, alloc, lost>>

\* clear_mapping: one DEL of both hashes; the counters stay.
Clear ==
    /\ "clear" \in Events
    /\ mapping' = Empty
    /\ reverse' = Empty
    /\ ttl' = [ttl EXCEPT !.mapping = NoTTL, !.reverse = NoTTL]
    /\ UNCHANGED <<pc, job, counter, asked, alloc, lost>>

---------------------------------------------------------------------------
\* Redis: keys in their last tick disappear, the others grow older.
Older(x) == IF x \in {NoTTL, 1} THEN NoTTL ELSE x - 1

Tick ==
    LET dying == {l \in Labels : ttl.counter[l] = 1}
    IN /\ "time" \in Events
       /\ mapping' = IF ttl.mapping = 1 THEN Empty ELSE mapping
       /\ reverse' = IF ttl.reverse = 1 THEN Empty ELSE reverse
       /\ counter' = [l \in Labels |-> IF l \in dying THEN 0 ELSE counter[l]]
       /\ ttl' = [mapping |-> Older(ttl.mapping),
                  reverse |-> Older(ttl.reverse),
                  counter |-> [l \in Labels |-> Older(ttl.counter[l])]]
       /\ lost' = lost \cup dying
       /\ UNCHANGED <<pc, job, asked, alloc>>

\* Redis under maxmemory with allkeys-lru: any one key may go.
EvictMapping ==
    /\ "mapping" \in Evictable
    /\ mapping' = Empty
    /\ ttl' = [ttl EXCEPT !.mapping = NoTTL]
    /\ UNCHANGED <<pc, job, reverse, counter, asked, alloc, lost>>

EvictReverse ==
    /\ "reverse" \in Evictable
    /\ reverse' = Empty
    /\ ttl' = [ttl EXCEPT !.reverse = NoTTL]
    /\ UNCHANGED <<pc, job, mapping, counter, asked, alloc, lost>>

EvictCounter(l) ==
    /\ "counter" \in Evictable
    /\ counter[l] # 0
    /\ counter' = [counter EXCEPT ![l] = 0]
    /\ ttl' = [ttl EXCEPT !.counter[l] = NoTTL]
    /\ lost' = lost \cup {l}
    /\ UNCHANGED <<pc, job, mapping, reverse, asked, alloc>>

Evict == EvictMapping \/ EvictReverse \/ \E l \in Labels : EvictCounter(l)

---------------------------------------------------------------------------
Step(t) ==
    \/ HGetHit(t) \/ HGetMiss(t) \/ Incr(t)
    \/ HSetMapping(t) \/ HSetReverse(t)
    \/ ExpireMapping(t) \/ ExpireReverse(t) \/ ExpireCounter(t)

Next ==
    \/ \E t \in Tasks, v \in Values, l \in Labels : Call(t, v, l)
    \/ \E t \in Tasks : Step(t) \/ Fail(t)
    \/ Clear \/ Tick \/ Evict

Spec == Init /\ [][Next]_vars

\* Redis answers every command, and time passes.
Fairness == WF_vars(Tick) /\ \A t \in Tasks : WF_vars(Step(t))
LiveSpec == Spec /\ Fairness

---------------------------------------------------------------------------
(* Properties. *)

\* Every variable keeps the shape the code gives it.
TypeOK ==
    /\ pc \in [Tasks -> PCs]
    /\ job \in [Tasks -> Jobs \cup {NoJob}]
    /\ DOMAIN mapping \subseteq Tokens
    /\ \A k \in DOMAIN mapping : mapping[k] \in Values
    /\ DOMAIN reverse \subseteq Values
    /\ \A v \in DOMAIN reverse : reverse[v] \in Tokens
    /\ counter \in [Labels -> 0..MaxCount]
    /\ ttl \in [mapping : TTLs, reverse : TTLs, counter : [Labels -> TTLs]]
    /\ asked \in 0..MaxRequests
    /\ alloc \subseteq [token : Tokens, value : Values]
    /\ lost \subseteq Labels

\* Whatever concurrent calls, failed calls, clears and expiries of the hashes
\* do, get_or_create_token never gives one token to two values, as long as
\* Redis has not lost the counter of its label.
NoTokenReuse ==
    \A a, b \in alloc :
        a.token = b.token /\ a.token[1] \notin lost => a.value = b.value

\* A token that can be resolved is never rebound to another value while it
\* stays resolvable: a reply already in flight keeps its meaning.
NoRebinding ==
    [][\A k \in DOMAIN mapping \cap DOMAIN mapping' :
          k[1] \notin lost' => mapping'[k] = mapping[k]]_vars

\* Between calls, and as long as none has failed, no key of the user is left
\* without a time to live.
AlwaysEphemeral ==
    (\A t \in Tasks : pc[t] = "idle") =>
        /\ DOMAIN mapping # {} => ttl.mapping # NoTTL
        /\ DOMAIN reverse # {} => ttl.reverse # NoTTL
        /\ \A l \in Labels : counter[l] # 0 => ttl.counter[l] # NoTTL

\* Once the user's requests stop (MaxRequests), everything stored about the
\* user is eventually gone for good, unless a call failed before its EXPIREs.
Forgotten ==
    <>[](\/ DOMAIN mapping = {} /\ DOMAIN reverse = {}
         \/ \E t \in Tasks : pc[t] = "failed")

---------------------------------------------------------------------------
(* Why NoTokenReuse holds: its inductive strengthening. *)

Writing == {"hset_mapping", "hset_reverse"}

\* A call in progress has its arguments.
BusyHasJob == \A t \in Tasks : pc[t] \notin {"idle", "failed"} => job[t] \in Jobs

\* A call that has its number and has not written both hashes yet works on a
\* pair that was allocated.
PendingAllocated ==
    \A t \in Tasks : pc[t] \in Writing =>
        [token |-> Token(job[t]), value |-> job[t].value] \in alloc

\* The counter of a label never lags behind the numbers given out under it.
AllocBelowCounter ==
    \A p \in alloc : p.token[1] \notin lost => p.token[2] <= counter[p.token[1]]

\* Only allocated pairs can be resolved.
MappingAllocated ==
    \A k \in DOMAIN mapping : [token |-> k, value |-> mapping[k]] \in alloc

IInv ==
    /\ TypeOK
    /\ BusyHasJob
    /\ PendingAllocated
    /\ AllocBelowCounter
    /\ MappingAllocated
    /\ NoTokenReuse

---------------------------------------------------------------------------
(* The register the store implements. *)
Resolvable == {[token |-> k, value |-> mapping[k]] : k \in DOMAIN mapping}

Abs == INSTANCE Pseudonyms
         WITH Numbers <- 1..MaxCount, denotes <- alloc,
              published <- Resolvable, retired <- lost

Implements == Abs!Spec
===========================================================================
