------------------------ MODULE ProxySession_proofs ------------------------
(* Theorems about ProxySession, for every set of requests, values and       *)
(* bodies, every cache limit and every choice of faults.                    *)
EXTENDS ProxySession, SequenceTheorems, TLAPS

USE ConstAssumption

Entry == [value : Values, token : Tokens]

---------------------------------------------------------------------------
(* Partial maps, and the two operations of the hash cache. *)

LEMMA MapsDef ==
  ASSUME NEW S, NEW m
  PROVE  m \in Maps(S) <=> DOMAIN m \subseteq Tokens /\ m \in [DOMAIN m -> S]
  BY DEF Maps

LEMMA MapsWiden == \A S, T : S \subseteq T => Maps(S) \subseteq Maps(T)
  BY MapsDef

LEMMA EmptyIsMap == \A S : Empty \in Maps(S) /\ DOMAIN Empty = {}
  BY MapsDef DEF Empty

LEMMA PutIsMap ==
  \A S : \A m \in Maps(S), k \in Tokens, v \in S :
      /\ Put(m, k, v) \in Maps(S)
      /\ DOMAIN Put(m, k, v) = DOMAIN m \cup {k}
      /\ Put(m, k, v)[k] = v
      /\ \A x \in DOMAIN m \ {k} : Put(m, k, v)[x] = m[x]
  <1> SUFFICES ASSUME NEW S, NEW m \in Maps(S), NEW k \in Tokens, NEW v \in S
               PROVE  /\ Put(m, k, v) \in Maps(S)
                      /\ DOMAIN Put(m, k, v) = DOMAIN m \cup {k}
                      /\ Put(m, k, v)[k] = v
                      /\ \A x \in DOMAIN m \ {k} : Put(m, k, v)[x] = m[x]
    OBVIOUS
  <1>1. m \in [DOMAIN m -> S] /\ DOMAIN m \subseteq Tokens
    BY MapsDef
  <1>2. DOMAIN Put(m, k, v) = DOMAIN m \cup {k}
    BY DEF Put
  <1>3. /\ Put(m, k, v)[k] = v
        /\ \A x \in DOMAIN m \ {k} : Put(m, k, v)[x] = m[x]
    BY DEF Put
  <1>4. Put(m, k, v) \in [DOMAIN m \cup {k} -> S]
    BY <1>1 DEF Put
  <1> QED BY <1>1, <1>2, <1>3, <1>4, MapsDef

\* Evicting makes room for one entry and invents none.
LEMMA EvictMakesRoom ==
  ASSUME NEW h \in Seq(Entry), Len(h) <= MaxCache
  PROVE  /\ EvictHalf(h) \in Seq(Entry)
         /\ Len(EvictHalf(h)) < MaxCache
         /\ \A i \in DOMAIN EvictHalf(h) : \E j \in DOMAIN h : EvictHalf(h)[i] = h[j]
  <1>1. CASE Len(h) < MaxCache
    BY <1>1 DEF EvictHalf
  <1>2. CASE Len(h) = MaxCache
    <2> DEFINE m == MaxCache \div 2 + 1
    <2>1. EvictHalf(h) = SubSeq(h, m, Len(h))
      BY <1>2 DEF EvictHalf
    <2>2. m \in 2..Len(h)
      BY <1>2
    <2>3. \A i \in m..Len(h) : h[i] \in Entry
      BY <2>2, ElementOfSeq
    <2> HIDE DEF m
    <2>4. /\ SubSeq(h, m, Len(h)) \in Seq(Entry)
          /\ Len(SubSeq(h, m, Len(h))) = Len(h) - m + 1
          /\ \A i \in 1..(Len(h) - m + 1) : SubSeq(h, m, Len(h))[i] = h[m + i - 1]
      BY <2>2, <2>3, SubSeqProperties
    <2>5. DOMAIN SubSeq(h, m, Len(h)) = 1..(Len(h) - m + 1)
      BY <2>4, LenProperties
    <2>6. \A i \in 1..(Len(h) - m + 1) : m + i - 1 \in DOMAIN h
      BY <2>2, LenProperties
    <2> QED BY <1>2, <2>1, <2>2, <2>4, <2>5, <2>6
  <1> QED BY <1>1, <1>2, LenProperties

\* Inserting adds the entry, in place of one or at the end.
LEMMA InsertAddsEntry ==
  ASSUME NEW h \in Seq(Entry), NEW v \in Values, NEW k \in Tokens
  PROVE  /\ Insert(h, v, k) \in Seq(Entry)
         /\ Len(Insert(h, v, k)) <= Len(h) + 1
         /\ \A i \in DOMAIN Insert(h, v, k) :
               \/ Insert(h, v, k)[i] = [value |-> v, token |-> k]
               \/ \E j \in DOMAIN h : Insert(h, v, k)[i] = h[j]
  <1> DEFINE entry == [value |-> v, token |-> k]
             new == [i \in DOMAIN h |-> IF h[i].value = v THEN entry ELSE h[i]]
  <1>1. entry \in Entry
    BY DEF Entry
  <1>2. DOMAIN h = 1..Len(h) /\ Len(h) \in Nat
    BY LenProperties
  <1>3. CASE \E i \in DOMAIN h : h[i].value = v
    <2>1. Insert(h, v, k) = new
      BY <1>3 DEF Insert
    <2>2. new \in [1..Len(h) -> Entry]
      BY <1>1, <1>2, ElementOfSeq
    <2>3. new \in Seq(Entry) /\ Len(new) = Len(h)
      BY <1>2, <2>2, SeqDef, LenProperties
    <2> QED BY <1>2, <2>1, <2>3
  <1>4. CASE ~\E i \in DOMAIN h : h[i].value = v
    <2>1. Insert(h, v, k) = Append(h, entry)
      BY <1>4 DEF Insert
    <2> QED BY <1>1, <1>2, <2>1, AppendProperties
  <1> QED BY <1>3, <1>4

---------------------------------------------------------------------------
(* Bodies, and what is written of them. *)

LEMMA BodyIsSeq ==
  ASSUME TypeOK, NEW r \in Requests
  PROVE  /\ body[r] \in Seq(Blocks) /\ Len(body[r]) \in Nat
         /\ DOMAIN body[r] = 1..Len(body[r])
         /\ out[r] \in Seq(Tokens \cup {NoToken}) /\ Len(out[r]) \in Nat
         /\ DOMAIN out[r] = 1..Len(out[r]) /\ Len(out[r]) <= Len(body[r])
  <1>1. body[r] \in Seq(Blocks)
    BY EmptySeq DEF TypeOK
  <1>2. out[r] \in Seq(Tokens \cup {NoToken}) /\ Len(out[r]) <= Len(body[r])
    BY DEF TypeOK
  <1> QED BY <1>1, <1>2, LenProperties

LEMMA BlockInBlocks ==
  ASSUME TypeOK, NEW r \in Requests, Len(out[r]) < Len(body[r])
  PROVE  Block(r) \in Blocks /\ Block(r).value \in Values /\ Block(r).kind \in Kinds
  <1>1. Len(out[r]) + 1 \in 1..Len(body[r]) /\ body[r] \in Seq(Blocks)
    BY BodyIsSeq
  <1>2. Block(r) \in Blocks
    BY <1>1, ElementOfSeq, Zenon DEF Block
  <1> QED BY <1>2 DEF Blocks

\* The hash cache is a sequence of entries.
LEMMA HashIsSeq == TypeOK => hash \in Seq(Entry)
  BY DEF TypeOK, Entry

LEMMA CachedIsEntry ==
  ASSUME TypeOK, NEW i \in DOMAIN hash
  PROVE  hash[i] \in Entry /\ hash[i].token \in Tokens /\ hash[i].value \in Values
  <1>1. hash \in Seq(Entry)
    BY HashIsSeq
  <1>2. hash[i] \in Entry
    BY <1>1, LenProperties, ElementOfSeq
  <1> QED BY <1>2 DEF Entry

\* Writing one block.
LEMMA EmitWrites ==
  ASSUME TypeOK, NEW r \in Requests, Len(out[r]) < Len(body[r]),
         NEW k \in Tokens \cup {NoToken}, Emit(r, k)
  PROVE  /\ out' \in [Requests -> Seq(Tokens \cup {NoToken})]
         /\ \A q \in Requests : Len(out'[q]) <= Len(body[q])
         /\ \A q \in Requests \ {r} : out'[q] = out[q]
         /\ DOMAIN out'[r] = 1..(Len(out[r]) + 1) /\ Len(out'[r]) = Len(out[r]) + 1
         /\ \A i \in DOMAIN out[r] : out'[r][i] = out[r][i]
         /\ out'[r][Len(out[r]) + 1] = k
  <1>1. out' = [out EXCEPT ![r] = Append(out[r], k)]
    BY DEF Emit
  <1>2. out \in [Requests -> Seq(Tokens \cup {NoToken})]
    BY DEF TypeOK
  <1>3. /\ Append(out[r], k) \in Seq(Tokens \cup {NoToken})
        /\ Len(Append(out[r], k)) = Len(out[r]) + 1
        /\ \A i \in 1..Len(out[r]) : Append(out[r], k)[i] = out[r][i]
        /\ Append(out[r], k)[Len(out[r]) + 1] = k
    BY <1>2, AppendProperties
  <1>4. DOMAIN Append(out[r], k) = 1..(Len(out[r]) + 1)
    BY <1>3, LenProperties
  <1>5. out'[r] = Append(out[r], k) /\ \A q \in Requests \ {r} : out'[q] = out[q]
    BY <1>1, <1>2
  <1>6. \A q \in Requests : Len(out[q]) \in Nat /\ Len(body[q]) \in Nat /\ Len(out[q]) <= Len(body[q])
    BY BodyIsSeq
  <1>7. \A q \in Requests : Len(out'[q]) <= Len(body[q])
    BY <1>3, <1>5, <1>6
  <1>8. out' \in [Requests -> Seq(Tokens \cup {NoToken})]
    BY <1>1, <1>2, <1>3
  <1> QED BY <1>3, <1>4, <1>5, <1>7, <1>8, BodyIsSeq

\* One call of the token store.
LEMMA StoreStep ==
  ASSUME TypeOK, NEW v \in Values, NEW k \in Tokens, GetOrCreate(v, k)
  PROVE  /\ mapping' \in Maps(Values) /\ count' \in 0..MaxTokens
         /\ \/ /\ k \in DOMAIN mapping /\ mapping[k] = v /\ UNCHANGED store
            \/ /\ count' = k /\ k = count + 1
               /\ DOMAIN mapping' = DOMAIN mapping \cup {k} /\ mapping'[k] = v
               /\ \A x \in DOMAIN mapping \ {k} : mapping'[x] = mapping[x]
  <1>1. CASE TokensOf(v) # {}
    BY <1>1 DEF GetOrCreate, TokensOf, store, TypeOK
  <1>2. CASE TokensOf(v) = {}
    <2>1. count < MaxTokens /\ k = count + 1 /\ count' = k /\ mapping' = Put(mapping, k, v)
      BY <1>2 DEF GetOrCreate
    <2>2. mapping \in Maps(Values) /\ count \in 0..MaxTokens
      BY DEF TypeOK
    <2>p. /\ Put(mapping, k, v) \in Maps(Values)
          /\ DOMAIN Put(mapping, k, v) = DOMAIN mapping \cup {k}
          /\ Put(mapping, k, v)[k] = v
          /\ \A x \in DOMAIN mapping \ {k} : Put(mapping, k, v)[x] = mapping[x]
      <3>1. Put(mapping, k, v) \in Maps(Values)
        BY <2>2, PutIsMap
      <3>2. DOMAIN Put(mapping, k, v) = DOMAIN mapping \cup {k}
        BY DEF Put
      <3>3. Put(mapping, k, v)[k] = v
        BY DEF Put
      <3>4. \A x \in DOMAIN mapping \ {k} : Put(mapping, k, v)[x] = mapping[x]
        BY DEF Put
      <3> QED BY <3>1, <3>2, <3>3, <3>4
    <2>3. /\ mapping' \in Maps(Values) /\ DOMAIN mapping' = DOMAIN mapping \cup {k}
          /\ mapping'[k] = v
          /\ \A x \in DOMAIN mapping \ {k} : mapping'[x] = mapping[x]
      BY <2>1, <2>p
    <2>4. count' \in 0..MaxTokens
      BY <2>1, <2>2
    <2> QED BY <2>1, <2>3, <2>4
  <1> QED BY <1>1, <1>2

---------------------------------------------------------------------------
\* The initial state satisfies the inductive invariant.
LEMMA InitInvariant == Init => IInv
  <1> SUFFICES ASSUME Init PROVE IInv
    OBVIOUS
  <1>e. Empty \in Maps(Values) /\ Empty \in Maps(Values \cup {Raw}) /\ DOMAIN Empty = {}
    BY EmptyIsMap
  <1>s. /\ <<>> \in Seq(Tokens \cup {NoToken}) /\ <<>> \in Seq(Entry) /\ Len(<<>>) = 0
        /\ DOMAIN <<>> = {}
    BY EmptySeq
  <1>1. TypeOK
    <2>1. known \in [Requests -> Maps(Values \cup {Raw})] /\ mapping \in Maps(Values)
      BY <1>e, Zenon DEF Init
    <2>2. out \in [Requests -> Seq(Tokens \cup {NoToken})] /\ hash \in Seq([value : Values, token : Tokens])
      BY <1>s, Zenon DEF Init, Entry
    <2>3. \A r \in Requests : Len(out[r]) <= Len(body[r])
      <3>1. \A r \in Requests : out[r] = <<>> /\ body[r] = <<>>
        BY DEF Init
      <3>2. \A r \in Requests : Len(out[r]) = 0 /\ Len(body[r]) = 0
        BY <1>s, <3>1, Zenon
      <3>3. 0 <= 0
        OBVIOUS
      <3> QED BY <3>2, <3>3, Zenon
    <2>4. /\ pc \in [Requests -> PCs] /\ body \in [Requests -> Bodies \cup {<<>>}]
          /\ tok \in [Requests -> Tokens \cup {NoToken}]
          /\ status \in [Requests -> {0, 200, 400, 502, 503}]
          /\ conn \in [Requests -> BOOLEAN] /\ deanon \in [Requests -> BOOLEAN]
      BY DEF Init, PCs
    <2>5. /\ shown \in [Requests -> SUBSET [token : Tokens, as : Values \cup {Raw}]]
          /\ clearing \in BOOLEAN /\ mask \in BOOLEAN
      BY DEF Init
    <2>6. count \in 0..MaxTokens /\ clears \in 0..MaxClears
      BY DEF Init
    <2> QED BY <2>1, <2>2, <2>3, <2>4, <2>5, <2>6 DEF TypeOK
  <1>2. (\A r \in Requests : Orderly(r)) /\ HashCacheBounded
    BY <1>s DEF Init, Orderly, InPlace, Rewritten, Recalled, OneDisplay, HashCacheBounded
  <1>3. \A k \in Tokens, v \in Values : ~Claims(k, v)
    BY <1>e, <1>s DEF Init, Claims, Means
  <1>4. OneMeaning /\ BelowCount
    BY <1>3 DEF OneMeaning, BelowCount
  <1> QED BY <1>1, <1>2, <1>4 DEF IInv

---------------------------------------------------------------------------
(* The type invariant. *)

LEMMA TypeStep ==
  ASSUME TypeOK, \A r \in Requests : Orderly(r), HashCacheBounded, [Next]_vars
  PROVE  TypeOK'
  <1> USE DEF request, stream, store
  <1>b. \A r \in Requests : /\ Len(out[r]) \in Nat /\ Len(body[r]) \in Nat
                            /\ Len(out[r]) <= Len(body[r])
    BY BodyIsSeq
  <1>1. ASSUME NEW r \in Requests, NEW b \in Bodies, Receive(r, b)
        PROVE  TypeOK'
    <2>1. Len(out[r]) = 0
      <3>1. pc[r] = "idle" /\ body[r] = <<>>
        BY <1>1 DEF Receive, Orderly, InPlace
      <3>2. Len(<<>>) = 0
        BY EmptySeq
      <3>3. Len(body[r]) = 0
        BY <3>1, <3>2, Zenon
      <3> QED BY <1>b, <3>3
    <2>2. Len(b) \in Nat
      BY LenProperties
    <2>3. body' = [body EXCEPT ![r] = b] /\ out' = out
      BY <1>1 DEF Receive
    <2>4. body' \in [Requests -> Bodies \cup {<<>>}]
      BY <2>3 DEF TypeOK
    <2>5. \A q \in Requests : Len(out'[q]) <= Len(body'[q])
      <3>1. body'[r] = b /\ \A q \in Requests \ {r} : body'[q] = body[q]
        BY <2>3 DEF TypeOK
      <3> QED BY <1>b, <2>1, <2>2, <2>3, <3>1
    <2>6. pc' \in [Requests -> PCs]
      BY <1>1 DEF Receive, TypeOK, PCs
    <2> QED BY <1>1, <2>4, <2>5, <2>6 DEF Receive, TypeOK
  <1>2. ASSUME NEW r \in Requests, PassVerbatim(r)
        PROVE  TypeOK'
    <2>1. Len(out[r]) < Len(body[r]) /\ Emit(r, NoToken)
      BY <1>2 DEF PassVerbatim, AtBlock
    <2>2. /\ out' \in [Requests -> Seq(Tokens \cup {NoToken})]
          /\ \A q \in Requests : Len(out'[q]) <= Len(body[q])
      BY <2>1, EmitWrites
    <2> QED BY <1>2, <2>2 DEF PassVerbatim, TypeOK
  <1>3. ASSUME NEW r \in Requests, NEW code, code \in {400, 503}, Reject(r, code)
        PROVE  TypeOK'
    <2>1. pc' \in [Requests -> PCs]
      BY <1>3 DEF Reject, TypeOK, PCs
    <2>2. status' \in [Requests -> {0, 200, 400, 502, 503}]
      BY <1>3 DEF Reject, TypeOK
    <2>3. tok' \in [Requests -> Tokens \cup {NoToken}]
      BY <1>3 DEF Reject, TypeOK
    <2>4. UNCHANGED <<body, out, stream, store, hash, clearing, clears, mask>>
      BY <1>3 DEF Reject
    <2> QED BY <2>1, <2>2, <2>3, <2>4 DEF TypeOK
  <1>4. ASSUME NEW r \in Requests, RefuseBinary(r)
        PROVE  TypeOK'
    BY <1>3, <1>4 DEF RefuseBinary
  <1>5. ASSUME NEW r \in Requests, AnonymizeFails(r)
        PROVE  TypeOK'
    BY <1>3, <1>5 DEF AnonymizeFails
  <1>6. ASSUME NEW r \in Requests, HashHit(r)
        PROVE  TypeOK'
    <2>1. PICK i \in Cached(Block(r).value) : Emit(r, hash[i].token)
      BY <1>6 DEF HashHit
    <2>2. hash[i].token \in Tokens
      BY CachedIsEntry DEF Cached
    <2>3. Len(out[r]) < Len(body[r])
      BY <1>6 DEF HashHit, AtBlock
    <2>4. /\ out' \in [Requests -> Seq(Tokens \cup {NoToken})]
          /\ \A q \in Requests : Len(out'[q]) <= Len(body[q])
      BY <2>1, <2>2, <2>3, EmitWrites
    <2> QED BY <1>6, <2>4 DEF HashHit, TypeOK
  <1>7. ASSUME NEW r \in Requests, HashMiss(r)
        PROVE  TypeOK'
    BY <1>7 DEF HashMiss, TypeOK, PCs
  <1>8. ASSUME NEW r \in Requests, Tokenise(r)
        PROVE  TypeOK'
    <2>1. PICK k \in Tokens : GetOrCreate(Block(r).value, k) /\ tok' = [tok EXCEPT ![r] = k]
      BY <1>8 DEF Tokenise
    <2>2. Block(r).value \in Values
      BY <1>8, BlockInBlocks DEF Tokenise, Orderly, InPlace
    <2>3. mapping' \in Maps(Values) /\ count' \in 0..MaxTokens
      BY <2>1, <2>2, StoreStep
    <2>4. tok' \in [Requests -> Tokens \cup {NoToken}] /\ pc' \in [Requests -> PCs]
      BY <1>8, <2>1 DEF Tokenise, TypeOK, PCs
    <2> QED BY <1>8, <2>3, <2>4 DEF Tokenise, TypeOK
  <1>9. ASSUME NEW r \in Requests, Remember(r)
        PROVE  TypeOK'
    <2>1. /\ Len(out[r]) < Len(body[r]) /\ tok[r] \in Tokens /\ Emit(r, tok[r])
          /\ hash' = Insert(EvictHalf(hash), Block(r).value, tok[r])
      BY <1>9 DEF Remember, Orderly, InPlace
    <2>2. Block(r).value \in Values
      BY <2>1, BlockInBlocks
    <2>3. hash' \in Seq(Entry)
      BY <2>1, <2>2, HashIsSeq, EvictMakesRoom, InsertAddsEntry DEF HashCacheBounded
    <2>4. /\ out' \in [Requests -> Seq(Tokens \cup {NoToken})]
          /\ \A q \in Requests : Len(out'[q]) <= Len(body[q])
      BY <2>1, EmitWrites
    <2>5. tok' \in [Requests -> Tokens \cup {NoToken}] /\ pc' \in [Requests -> PCs]
      BY <1>9 DEF Remember, TypeOK, PCs
    <2> QED BY <1>9, <2>3, <2>4, <2>5 DEF Remember, TypeOK, Entry
  <1>10. ASSUME NEW r \in Requests, Forward(r)
         PROVE  TypeOK'
    <2>1. pc' \in [Requests -> PCs] /\ conn' \in [Requests -> BOOLEAN]
      BY <1>10 DEF Forward, TypeOK, PCs
    <2> QED BY <1>10, <2>1 DEF Forward, TypeOK
  <1>10a. ASSUME NEW r \in Requests, UpstreamFails(r)
         PROVE  TypeOK'
    <2>1. pc' \in [Requests -> PCs] /\ conn' \in [Requests -> BOOLEAN]
      BY <1>10a DEF UpstreamFails, TypeOK, PCs
    <2>2. status' \in [Requests -> {0, 200, 400, 502, 503}]
      BY <1>10a DEF UpstreamFails, TypeOK
    <2>3. UNCHANGED <<body, out, tok, known, deanon, shown, store, hash, clearing, clears, mask>>
      BY <1>10a DEF UpstreamFails
    <2> QED BY <2>1, <2>2, <2>3 DEF TypeOK
  <1>11. ASSUME NEW r \in Requests, NEW code, code \in {200, 400}, Respond(r, code)
         PROVE  TypeOK'
    <2>1. pc' \in [Requests -> PCs]
      BY <1>11 DEF Respond, TypeOK, PCs
    <2>2. status' \in [Requests -> {0, 200, 400, 502, 503}]
      BY <1>11 DEF Respond, TypeOK
    <2>3. UNCHANGED <<body, out, tok, stream, store, hash, clearing, clears, mask>>
      BY <1>11 DEF Respond
    <2> QED BY <2>1, <2>2, <2>3 DEF TypeOK
  <1>12. ASSUME NEW r \in Requests, Snapshot(r)
         PROVE  TypeOK'
    <2>1. mapping \in Maps(Values \cup {Raw})
      BY MapsWiden DEF TypeOK
    <2>2. known' \in [Requests -> Maps(Values \cup {Raw})]
      BY <1>12, <2>1 DEF Snapshot, TypeOK
    <2> QED BY <1>12, <2>2 DEF Snapshot, TypeOK, PCs
  <1>13. ASSUME NEW r \in Requests, SnapshotFails(r)
         PROVE  TypeOK'
    BY <1>13 DEF SnapshotFails, TypeOK, PCs
  <1>14. ASSUME NEW r \in Requests, EndStream(r)
         PROVE  TypeOK'
    <2>1. known' \in [Requests -> Maps(Values \cup {Raw})]
      BY <1>14, EmptyIsMap DEF EndStream, TypeOK
    <2> QED BY <1>14, <2>1 DEF EndStream, TypeOK, PCs
  <1>s. ASSUME NEW r \in Requests, NEW k \in Tokens, NEW x \in Values \cup {Raw}, Show(r, k, x)
        PROVE  shown' \in [Requests -> SUBSET [token : Tokens, as : Values \cup {Raw}]]
    BY <1>s DEF Show, TypeOK
  <1>15. ASSUME NEW r \in Requests, NEW k \in Tokens, MentionRaw(r, k)
         PROVE  TypeOK'
    BY <1>15, <1>s DEF MentionRaw, TypeOK
  <1>16. ASSUME NEW r \in Requests, NEW k \in Tokens, MentionKnown(r, k)
         PROVE  TypeOK'
    <2>1. known[r][k] \in Values \cup {Raw}
      BY <1>16, MapsDef DEF MentionKnown, TypeOK
    <2> QED BY <1>16, <1>s, <2>1 DEF MentionKnown, TypeOK
  <1>17. ASSUME NEW r \in Requests, NEW k \in Tokens, MentionUnknown(r, k)
         PROVE  TypeOK'
    <2>1. PICK x : /\ x \in {Found(k), Raw} /\ Show(r, k, x)
                   /\ known' = [known EXCEPT ![r] = Put(known[r], k, x)]
      BY <1>17 DEF MentionUnknown
    <2>2. x \in Values \cup {Raw}
      BY <2>1, MapsDef DEF Found, TypeOK
    <2>3. Put(known[r], k, x) \in Maps(Values \cup {Raw})
      BY <2>2, PutIsMap DEF TypeOK
    <2>4. known' \in [Requests -> Maps(Values \cup {Raw})]
      BY <2>1, <2>3 DEF TypeOK
    <2> QED BY <1>17, <1>s, <2>1, <2>2, <2>4 DEF MentionUnknown, TypeOK
  <1>18. ASSUME NEW v \in Values, Anonymize(v)
         PROVE  TypeOK'
    <2>1. mapping' \in Maps(Values) /\ count' \in 0..MaxTokens
      BY <1>18, StoreStep DEF Anonymize
    <2> QED BY <1>18, <2>1 DEF Anonymize, TypeOK
  <1>19. CASE ClearRedis \/ Expire
    <2>1. mapping' \in Maps(Values)
      BY <1>19, EmptyIsMap DEF ClearRedis, Expire
    <2>2. count' \in 0..MaxTokens
      BY <1>19 DEF ClearRedis, Expire, TypeOK
    <2>3. clears' \in 0..MaxClears /\ clearing' \in BOOLEAN
      <3>1. CASE ClearRedis
        BY <3>1 DEF ClearRedis, TypeOK
      <3>2. CASE Expire
        BY <3>2 DEF Expire, TypeOK
      <3> QED BY <1>19, <3>1, <3>2
    <2>4. UNCHANGED <<request, stream, hash, mask>>
      BY <1>19 DEF ClearRedis, Expire
    <2> QED BY <2>1, <2>2, <2>3, <2>4 DEF TypeOK
  <1>20. CASE ResetHashCache
    <2>1. hash' \in Seq([value : Values, token : Tokens])
      BY <1>20, EmptySeq, Zenon DEF ResetHashCache
    <2> QED BY <1>20, <2>1 DEF ResetHashCache, TypeOK
  <1>21. CASE SetMask
    BY <1>21 DEF SetMask, TypeOK
  <1>22. CASE UNCHANGED vars
    BY <1>22 DEF vars, TypeOK
  <1>23. ASSUME NEW r \in Requests, Step(r)
         PROVE  TypeOK'
    BY <1>2, <1>4, <1>5, <1>6, <1>7, <1>8, <1>9, <1>10, <1>10a, <1>11, <1>12, <1>13, <1>14, <1>23
       DEF Step
  <1>24. ASSUME NEW r \in Requests, Mention(r)
         PROVE  TypeOK'
    BY <1>15, <1>16, <1>17, <1>24 DEF Mention
  <1> QED BY <1>1, <1>18, <1>19, <1>20, <1>21, <1>22, <1>23, <1>24 DEF Next

---------------------------------------------------------------------------
(* One request at a time. *)

\* Nothing of request q changes.
Same(q) ==
    /\ pc'[q] = pc[q] /\ body'[q] = body[q] /\ out'[q] = out[q] /\ tok'[q] = tok[q]
    /\ conn'[q] = conn[q] /\ known'[q] = known[q] /\ deanon'[q] = deanon[q]
    /\ shown'[q] = shown[q]

\* What a request's invariant says is about that request only.
LEMMA SameOrderly ==
  ASSUME NEW q \in Requests, Same(q), Orderly(q)
  PROVE  Orderly(q)'
  BY DEF Same, Orderly, InPlace, Rewritten, Recalled, OneDisplay, Block

LEMMA SameMeaning ==
  ASSUME NEW q \in Requests, Same(q), NEW k, NEW v
  PROVE  Means(q, k, v)' <=> Means(q, k, v)
  BY DEF Same, Means, Block

\* A step of r changes r alone.
LEMMA OthersSame ==
  ASSUME TypeOK, NEW r \in Requests,
         Step(r) \/ Mention(r) \/ \E b \in Bodies : Receive(r, b)
  PROVE  \A q \in Requests \ {r} : Same(q)
  <1> USE DEF request, stream, TypeOK, Same
  <1> SUFFICES ASSUME NEW q \in Requests \ {r} PROVE Same(q)
    OBVIOUS
  <1>1. CASE PassVerbatim(r)
    BY <1>1 DEF PassVerbatim, Emit
  <1>2. CASE RefuseBinary(r) \/ AnonymizeFails(r)
    BY <1>2 DEF RefuseBinary, AnonymizeFails, Reject
  <1>3. CASE HashHit(r)
    BY <1>3 DEF HashHit, Emit
  <1>4. CASE HashMiss(r)
    BY <1>4 DEF HashMiss
  <1>5. CASE Tokenise(r)
    BY <1>5 DEF Tokenise
  <1>6. CASE Remember(r)
    BY <1>6 DEF Remember, Emit
  <1>7. CASE Forward(r) \/ UpstreamFails(r)
    BY <1>7 DEF Forward, UpstreamFails
  <1>8. CASE \E code \in {200, 400} : Respond(r, code)
    BY <1>8 DEF Respond
  <1>9. CASE Snapshot(r) \/ SnapshotFails(r)
    BY <1>9 DEF Snapshot, SnapshotFails
  <1>10. CASE EndStream(r)
    BY <1>10 DEF EndStream
  <1>11. CASE Mention(r)
    BY <1>11 DEF Mention, MentionRaw, MentionKnown, MentionUnknown, Show
  <1>12. CASE \E b \in Bodies : Receive(r, b)
    BY <1>12 DEF Receive
  <1> QED BY <1>1, <1>2, <1>3, <1>4, <1>5, <1>6, <1>7, <1>8, <1>9, <1>10, <1>11, <1>12 DEF Step

\* The other endpoints leave every request alone.
LEMMA EndpointsSame ==
  ASSUME \/ \E v \in Values : Anonymize(v)
         \/ ClearRedis \/ ResetHashCache \/ SetMask \/ Expire \/ UNCHANGED vars
  PROVE  \A q \in Requests : Same(q)
  <1> USE DEF request, stream, vars, Same
  <1>1. CASE \E v \in Values : Anonymize(v)
    BY <1>1 DEF Anonymize
  <1>2. CASE ClearRedis \/ ResetHashCache \/ SetMask \/ Expire \/ UNCHANGED vars
    BY <1>2 DEF ClearRedis, ResetHashCache, SetMask, Expire
  <1> QED BY <1>1, <1>2

\* Each request stays orderly.
LEMMA OrderlyStep ==
  ASSUME TypeOK, \A q \in Requests : Orderly(q), [Next]_vars
  PROVE  \A q \in Requests : Orderly(q)'
  <1> USE DEF request, stream
  <1>b. \A q \in Requests : /\ Len(out[q]) \in Nat /\ Len(body[q]) \in Nat
                            /\ Len(out[q]) <= Len(body[q])
                            /\ DOMAIN out[q] = 1..Len(out[q]) /\ DOMAIN body[q] = 1..Len(body[q])
    BY BodyIsSeq
  <1>o. \A q \in Requests : InPlace(q) /\ Rewritten(q) /\ Recalled(q) /\ OneDisplay(q)
    BY DEF Orderly
  <1>1. ASSUME NEW r \in Requests, NEW b \in Bodies, Receive(r, b)
        PROVE  Orderly(r)'
    <2>1. pc[r] = "idle" /\ pc'[r] = "block" /\ UNCHANGED <<out, tok, stream>>
      BY <1>1 DEF Receive, TypeOK
    <2>2. Len(out[r]) = 0
      <3>1. Len(<<>>) = 0
        BY EmptySeq
      <3>2. Len(body[r]) = 0
        BY <1>o, <2>1, <3>1, Zenon DEF InPlace
      <3> QED BY <1>b, <3>2
    <2>3. InPlace(r)'
      BY <1>o, <2>1 DEF InPlace
    <2>4. Rewritten(r)'
      BY <1>b, <2>1, <2>2 DEF Rewritten
    <2>5. Recalled(r)' /\ OneDisplay(r)'
      BY <1>o, <2>1 DEF Recalled, OneDisplay
    <2> QED BY <2>3, <2>4, <2>5 DEF Orderly
  <1>e. ASSUME NEW r \in Requests, pc[r] \in {"block", "insert"}, pc'[r] = "block",
               Len(out[r]) < Len(body[r]), NEW k \in Tokens \cup {NoToken}, Emit(r, k),
               Block(r).kind # "binary", k = NoToken => Block(r).kind \in Verbatim,
               UNCHANGED <<body, stream>>
        PROVE  Orderly(r)'
    <2>1. /\ DOMAIN out'[r] = 1..(Len(out[r]) + 1)
          /\ \A i \in DOMAIN out[r] : out'[r][i] = out[r][i]
          /\ out'[r][Len(out[r]) + 1] = k
      BY <1>e, EmitWrites
    <2>2. Rewritten(r)'
      <3> SUFFICES ASSUME NEW i \in DOMAIN out'[r]
                   PROVE  /\ body[r][i].kind # "binary"
                          /\ out'[r][i] = NoToken => body[r][i].kind \in Verbatim
        BY <1>e DEF Rewritten
      <3>1. CASE i \in DOMAIN out[r]
        BY <1>o, <2>1, <3>1 DEF Rewritten
      <3>2. CASE i = Len(out[r]) + 1
        BY <1>e, <2>1, <3>2 DEF Block
      <3> QED BY <1>b, <2>1, <3>1, <3>2
    <2>3. InPlace(r)'
      BY <1>e, <1>o DEF InPlace
    <2>4. Recalled(r)' /\ OneDisplay(r)'
      BY <1>e, <1>o DEF Recalled, OneDisplay
    <2> QED BY <2>2, <2>3, <2>4 DEF Orderly
  <1>2. ASSUME NEW r \in Requests, PassVerbatim(r)
        PROVE  Orderly(r)'
    BY <1>2, <1>e DEF PassVerbatim, AtBlock, Verbatim
  <1>3. ASSUME NEW r \in Requests, HashHit(r)
        PROVE  Orderly(r)'
    <2>1. PICK i \in DOMAIN hash : Emit(r, hash[i].token)
      BY <1>3 DEF HashHit, Cached
    <2>2. hash[i].token \in Tokens \cup {NoToken} /\ hash[i].token # NoToken
      BY CachedIsEntry DEF Tokens, NoToken
    <2> QED BY <1>3, <1>e, <2>1, <2>2 DEF HashHit, AtBlock
  <1>4. ASSUME NEW r \in Requests, Remember(r)
        PROVE  Orderly(r)'
    <2>1. /\ pc[r] = "insert" /\ pc'[r] = "block" /\ Emit(r, tok[r])
          /\ UNCHANGED <<body, stream>>
      BY <1>4 DEF Remember, TypeOK
    <2>2. /\ tok[r] \in Tokens \cup {NoToken} /\ tok[r] # NoToken
          /\ Len(out[r]) < Len(body[r]) /\ Block(r).kind = "text"
      BY <1>o, <2>1 DEF InPlace, Tokens, NoToken
    <2> QED BY <1>e, <2>1, <2>2
  <1>n. ASSUME NEW r \in Requests, UNCHANGED <<body, out, shown>>, Rewritten(r), OneDisplay(r)
        PROVE  Rewritten(r)' /\ OneDisplay(r)'
    BY <1>n DEF Rewritten, OneDisplay
  <1>5. ASSUME NEW r \in Requests, NEW code, Reject(r, code), pc[r] \in {"block", "ner", "insert"}
        PROVE  Orderly(r)'
    <2>1. pc'[r] = "done" /\ UNCHANGED <<body, out, stream>>
      BY <1>5 DEF Reject, TypeOK
    <2>2. InPlace(r)' /\ Recalled(r)'
      BY <1>5, <1>o, <2>1 DEF InPlace, Recalled
    <2> QED BY <1>n, <1>o, <2>1, <2>2 DEF Orderly
  <1>6. ASSUME NEW r \in Requests, RefuseBinary(r) \/ AnonymizeFails(r)
        PROVE  Orderly(r)'
    BY <1>5, <1>6 DEF RefuseBinary, AnonymizeFails, AtBlock
  <1>7. ASSUME NEW r \in Requests, HashMiss(r)
        PROVE  Orderly(r)'
    <2>1. /\ pc[r] = "block" /\ pc'[r] = "ner" /\ Len(out[r]) < Len(body[r])
          /\ Block(r).kind = "text" /\ UNCHANGED <<body, out, tok, stream>>
      BY <1>7 DEF HashMiss, AtBlock, TypeOK
    <2>2. InPlace(r)' /\ Recalled(r)'
      BY <1>o, <2>1 DEF InPlace, Recalled, Block
    <2> QED BY <1>n, <1>o, <2>1, <2>2 DEF Orderly
  <1>8. ASSUME NEW r \in Requests, Tokenise(r)
        PROVE  Orderly(r)'
    <2>1. /\ pc[r] = "ner" /\ pc'[r] = "insert" /\ tok'[r] \in Tokens
          /\ UNCHANGED <<body, out, stream>>
      BY <1>8 DEF Tokenise, TypeOK
    <2>2. InPlace(r)' /\ Recalled(r)'
      BY <1>o, <2>1 DEF InPlace, Recalled, Block
    <2> QED BY <1>n, <1>o, <2>1, <2>2 DEF Orderly
  <1>9. ASSUME NEW r \in Requests, Forward(r)
        PROVE  Orderly(r)'
    <2>1. /\ pc[r] = "block" /\ pc'[r] = "sent" /\ Len(out[r]) = Len(body[r])
          /\ UNCHANGED <<body, out, tok, known, deanon, shown>>
      BY <1>9 DEF Forward, TypeOK
    <2>2. InPlace(r)' /\ Recalled(r)'
      BY <1>o, <2>1 DEF InPlace, Recalled
    <2> QED BY <1>n, <1>o, <2>1, <2>2 DEF Orderly
  <1>10. ASSUME NEW r \in Requests, UpstreamFails(r) \/ EndStream(r)
         PROVE  Orderly(r)'
    <2>1. /\ pc[r] \in {"sent", "stream"} /\ pc'[r] = "done" /\ ~conn'[r]
          /\ UNCHANGED <<body, out, shown>>
      BY <1>10 DEF UpstreamFails, EndStream, TypeOK
    <2>2. InPlace(r)' /\ Recalled(r)'
      BY <1>o, <2>1 DEF InPlace, Recalled
    <2> QED BY <1>n, <1>o, <2>1, <2>2 DEF Orderly
  <1>11. ASSUME NEW r \in Requests, NEW code, Respond(r, code)
         PROVE  Orderly(r)'
    <2>1. /\ pc[r] = "sent" /\ pc'[r] \in {"snapshot", "stream"}
          /\ UNCHANGED <<body, out, tok, stream>>
      BY <1>11 DEF Respond, TypeOK
    <2>2. InPlace(r)' /\ Recalled(r)'
      BY <1>o, <2>1 DEF InPlace, Recalled
    <2> QED BY <1>n, <1>o, <2>1, <2>2 DEF Orderly
  <1>12. ASSUME NEW r \in Requests, Snapshot(r) \/ SnapshotFails(r)
         PROVE  Orderly(r)'
    <2>1. /\ pc[r] = "snapshot" /\ pc'[r] = "stream"
          /\ UNCHANGED <<body, out, tok, conn, shown>>
      BY <1>12 DEF Snapshot, SnapshotFails, TypeOK
    <2>2. InPlace(r)' /\ Recalled(r)'
      BY <1>o, <2>1 DEF InPlace, Recalled
    <2> QED BY <1>n, <1>o, <2>1, <2>2 DEF Orderly
  <1>m. ASSUME NEW r \in Requests, NEW k \in Tokens, NEW x, Show(r, k, x), pc[r] = "stream",
               UNCHANGED <<request, conn, deanon>>,
               \A s \in shown[r] : s.token = k => s.as = x,
               ~deanon[r] => x = Raw,
               deanon[r] => /\ k \in DOMAIN known'[r] /\ known'[r][k] = x
                            /\ \A j \in DOMAIN known[r] :
                                  j \in DOMAIN known'[r] /\ known'[r][j] = known[r][j]
        PROVE  Orderly(r)'
    <2>1. shown'[r] = shown[r] \cup {[token |-> k, as |-> x]}
      BY <1>m DEF Show, TypeOK
    <2>2. InPlace(r)'
      BY <1>m, <1>o DEF InPlace
    <2>3. Rewritten(r)'
      BY <1>m, <1>o DEF Rewritten
    <2>4. Recalled(r)'
      BY <1>m, <1>o, <2>1 DEF Recalled
    <2>5. OneDisplay(r)'
      BY <1>m, <1>o, <2>1 DEF OneDisplay
    <2> QED BY <2>2, <2>3, <2>4, <2>5 DEF Orderly
  <1>13. ASSUME NEW r \in Requests, NEW k \in Tokens, MentionRaw(r, k)
         PROVE  Orderly(r)'
    <2>1. \A s \in shown[r] : s.as = Raw
      BY <1>13, <1>o DEF MentionRaw, Recalled
    <2> QED BY <1>13, <1>m, <2>1 DEF MentionRaw
  <1>14. ASSUME NEW r \in Requests, NEW k \in Tokens, MentionKnown(r, k)
         PROVE  Orderly(r)'
    <2>1. \A s \in shown[r] : s.token = k => s.as = known[r][k]
      BY <1>14, <1>o DEF MentionKnown, Recalled
    <2> QED BY <1>14, <1>m, <2>1 DEF MentionKnown
  <1>15. ASSUME NEW r \in Requests, NEW k \in Tokens, MentionUnknown(r, k)
         PROVE  Orderly(r)'
    <2>1. PICK x : Show(r, k, x) /\ known' = [known EXCEPT ![r] = Put(known[r], k, x)]
      BY <1>15 DEF MentionUnknown
    <2>2. /\ pc[r] = "stream" /\ deanon[r] /\ k \notin DOMAIN known[r]
          /\ UNCHANGED <<request, conn, deanon>>
      BY <1>15 DEF MentionUnknown
    <2>3. \A s \in shown[r] : s.token # k
      BY <1>o, <2>2 DEF Recalled
    <2>4. known'[r] = Put(known[r], k, x)
      BY <2>1 DEF TypeOK
    <2>5. /\ k \in DOMAIN known'[r] /\ known'[r][k] = x
          /\ \A j \in DOMAIN known[r] : j \in DOMAIN known'[r] /\ known'[r][j] = known[r][j]
      BY <2>2, <2>4 DEF Put
    <2> QED BY <1>m, <2>1, <2>2, <2>3, <2>5
  <1>16. ASSUME NEW r \in Requests,
                Step(r) \/ Mention(r) \/ \E b \in Bodies : Receive(r, b)
         PROVE  \A q \in Requests : Orderly(q)'
    <2>1. Orderly(r)'
      BY <1>1, <1>2, <1>3, <1>4, <1>6, <1>7, <1>8, <1>9, <1>10, <1>11, <1>12, <1>13, <1>14,
         <1>15, <1>16 DEF Step, Mention
    <2>2. \A q \in Requests \ {r} : Same(q)
      BY <1>16, OthersSame
    <2> QED BY <2>1, <2>2, SameOrderly
  <1>17. CASE \/ \E v \in Values : Anonymize(v)
              \/ ClearRedis \/ ResetHashCache \/ SetMask \/ Expire \/ UNCHANGED vars
    BY <1>17, EndpointsSame, SameOrderly
  <1> QED BY <1>16, <1>17 DEF Next

---------------------------------------------------------------------------
(* A token never changes its meaning. *)

\* What every claim of the next state must be: a claim of this one, or about
\* the number just drawn, for one value.
OldClaims == \A k \in Tokens, v \in Values : Claims(k, v)' => Claims(k, v)
FreshClaim(n, w) ==
    /\ n = count + 1 /\ count' = n
    /\ \A k \in Tokens, v \in Values : Claims(k, v)' => Claims(k, v) \/ (k = n /\ v = w)

LEMMA OldClaimsAgree ==
  ASSUME TypeOK, OneMeaning, BelowCount, OldClaims, count' = count
  PROVE  OneMeaning' /\ BelowCount'
  BY DEF OneMeaning, BelowCount, OldClaims

LEMMA FreshClaimAgrees ==
  ASSUME TypeOK, OneMeaning, BelowCount, NEW n \in Tokens, NEW w \in Values, FreshClaim(n, w)
  PROVE  OneMeaning' /\ BelowCount'
  <1>1. count \in Nat
    BY DEF TypeOK
  <1>2. \A v \in Values : ~Claims(n, v)
    BY <1>1 DEF BelowCount, FreshClaim
  <1>3. OneMeaning'
    BY <1>2 DEF OneMeaning, FreshClaim
  <1>4. BelowCount'
    BY <1>1 DEF BelowCount, FreshClaim, Tokens
  <1> QED BY <1>3, <1>4

\* One call of the store keeps every meaning.
LEMMA StoreClaims ==
  ASSUME TypeOK, NEW w \in Values, NEW n \in Tokens, GetOrCreate(w, n), UNCHANGED hash,
         \A q \in Requests, k \in Tokens, v \in Values :
             Means(q, k, v)' => Means(q, k, v) \/ (k = n /\ v = w)
  PROVE  (OldClaims /\ count' = count) \/ FreshClaim(n, w)
  <1>1. CASE n \in DOMAIN mapping /\ mapping[n] = w /\ UNCHANGED store
    BY <1>1 DEF OldClaims, Claims, store
  <1>2. CASE /\ count' = n /\ n = count + 1
             /\ DOMAIN mapping' = DOMAIN mapping \cup {n} /\ mapping'[n] = w
             /\ \A x \in DOMAIN mapping \ {n} : mapping'[x] = mapping[x]
    <2> SUFFICES ASSUME NEW k \in Tokens, NEW v \in Values, Claims(k, v)', ~(k = n /\ v = w)
                 PROVE  Claims(k, v)
      BY <1>2 DEF FreshClaim
    <2>1. CASE k \in DOMAIN mapping' /\ mapping'[k] = v
      BY <1>2, <2>1 DEF Claims
    <2>2. CASE \E i \in DOMAIN hash' : hash'[i].token = k /\ hash'[i].value = v
      BY <2>2 DEF Claims
    <2>3. CASE \E q \in Requests : Means(q, k, v)'
      BY <2>3 DEF Claims
    <2> QED BY <2>1, <2>2, <2>3 DEF Claims
  <1> QED BY <1>1, <1>2, StoreStep

\* What a request means follows from what it has written, knows and shows.
LEMMA MeansParts ==
  ASSUME NEW r \in Requests, NEW k, NEW v, Means(r, k, v)',
         UNCHANGED <<body, out, known, shown>>, pc'[r] # "insert"
  PROVE  Means(r, k, v)
  BY DEF Means

\* The writing of a block, whose token already had this meaning.
LEMMA EmitMeans ==
  ASSUME TypeOK, NEW r \in Requests, Len(out[r]) < Len(body[r]),
         NEW n \in Tokens \cup {NoToken}, Emit(r, n), pc'[r] = "block",
         UNCHANGED <<body, known, shown>>,
         Block(r).kind = "text" /\ n \in Tokens => Claims(n, Block(r).value),
         NEW k \in Tokens, NEW v \in Values, Means(r, k, v)'
  PROVE  Claims(k, v)
  <1>1. /\ DOMAIN out'[r] = 1..(Len(out[r]) + 1)
        /\ \A i \in DOMAIN out[r] : out'[r][i] = out[r][i]
        /\ out'[r][Len(out[r]) + 1] = n
    BY EmitWrites
  <1>2. CASE \E i \in DOMAIN out'[r] :
                body[r][i].kind = "text" /\ out'[r][i] = k /\ body[r][i].value = v
    <2>1. PICK i \in DOMAIN out'[r] :
                body[r][i].kind = "text" /\ out'[r][i] = k /\ body[r][i].value = v
      BY <1>2
    <2>2. CASE i \in DOMAIN out[r]
      BY <1>1, <2>1, <2>2 DEF Claims, Means
    <2>3. CASE i = Len(out[r]) + 1
      BY <1>1, <2>1, <2>3 DEF Block
    <2> QED BY <1>1, <2>1, <2>2, <2>3, BodyIsSeq
  <1>3. CASE ~ \E i \in DOMAIN out'[r] :
                body[r][i].kind = "text" /\ out'[r][i] = k /\ body[r][i].value = v
    BY <1>3 DEF Claims, Means
  <1> QED BY <1>2, <1>3

\* A step that changes neither Redis nor the hash cache adds no claim if its
\* request adds none.
LEMMA ClaimsOf ==
  ASSUME NEW r \in Requests, UNCHANGED <<mapping, hash>>,
         \A q \in Requests \ {r} : Same(q),
         \A k \in Tokens, v \in Values : Means(r, k, v)' => Claims(k, v)
  PROVE  OldClaims
  <1> SUFFICES ASSUME NEW k \in Tokens, NEW v \in Values, Claims(k, v)'
               PROVE  Claims(k, v)
    BY DEF OldClaims
  <1>1. CASE \E q \in Requests : Means(q, k, v)'
    BY <1>1, SameMeaning DEF Claims
  <1>2. CASE ~\E q \in Requests : Means(q, k, v)'
    BY <1>2 DEF Claims
  <1> QED BY <1>1, <1>2

\* Displaying a token as what it already meant.
LEMMA ShowMeans ==
  ASSUME TypeOK, NEW r \in Requests, NEW n \in Tokens, NEW x, Show(r, n, x),
         UNCHANGED request,
         x \in Values => Claims(n, x),
         \A j \in DOMAIN known'[r] :
            \/ j = n /\ known'[r][j] = x
            \/ j \in DOMAIN known[r] /\ known'[r][j] = known[r][j],
         NEW k \in Tokens, NEW v \in Values, Means(r, k, v)'
  PROVE  Claims(k, v)
  <1>1. shown'[r] = shown[r] \cup {[token |-> n, as |-> x]}
    BY DEF Show, TypeOK
  <1>2. CASE [token |-> k, as |-> v] \in shown'[r]
    BY <1>1, <1>2 DEF Claims, Means
  <1>3. CASE k \in DOMAIN known'[r] /\ known'[r][k] = v
    BY <1>3 DEF Claims, Means
  <1>4. CASE ~([token |-> k, as |-> v] \in shown'[r]) /\ ~(k \in DOMAIN known'[r] /\ known'[r][k] = v)
    BY <1>4 DEF Claims, Means, request, Block
  <1> QED BY <1>2, <1>3, <1>4

LEMMA ClaimsStep ==
  ASSUME IInv, "expire" \notin Events, [Next]_vars
  PROVE  OneMeaning' /\ BelowCount'
  <1> USE DEF request, stream, store
  <1>i. TypeOK /\ (\A q \in Requests : Orderly(q)) /\ OneMeaning /\ BelowCount
    BY DEF IInv
  <1>o. ASSUME NEW r \in Requests, UNCHANGED <<store, hash>>,
               Step(r) \/ Mention(r) \/ \E b \in Bodies : Receive(r, b),
               \A k \in Tokens, v \in Values : Means(r, k, v)' => Claims(k, v)
        PROVE  OneMeaning' /\ BelowCount'
    BY <1>i, <1>o, OthersSame, ClaimsOf, OldClaimsAgree
  <1>p. ASSUME NEW r \in Requests, UNCHANGED <<body, out, known, shown, store, hash>>,
               Step(r), pc'[r] # "insert"
        PROVE  OneMeaning' /\ BelowCount'
    BY <1>o, <1>p, MeansParts DEF Claims
  <1>1. ASSUME NEW r \in Requests, NEW b \in Bodies, Receive(r, b)
        PROVE  OneMeaning' /\ BelowCount'
    <2>1. pc[r] = "idle" /\ pc'[r] = "block" /\ UNCHANGED <<out, tok, stream, store, hash>>
      BY <1>1, <1>i DEF Receive, TypeOK
    <2>2. Len(out[r]) = 0
      <3>1. Len(<<>>) = 0
        BY EmptySeq
      <3>2. Len(body[r]) = 0
        BY <1>i, <2>1, <3>1, Zenon DEF Orderly, InPlace
      <3> QED BY <1>i, <3>2, BodyIsSeq
    <2>3. DOMAIN out[r] = {}
      BY <1>i, <2>2, BodyIsSeq
    <2>4. \A k \in Tokens, v \in Values : Means(r, k, v)' => Claims(k, v)
      BY <2>1, <2>3 DEF Means, Claims
    <2> QED BY <1>1, <1>o, <2>1, <2>4
  <1>2. ASSUME NEW r \in Requests, PassVerbatim(r)
        PROVE  OneMeaning' /\ BelowCount'
    <2>1. /\ Len(out[r]) < Len(body[r]) /\ Emit(r, NoToken) /\ NoToken \notin Tokens
          /\ pc'[r] = "block" /\ UNCHANGED <<body, known, shown, store, hash>>
      BY <1>2 DEF PassVerbatim, AtBlock, NoToken, Tokens
    <2>2. \A k \in Tokens, v \in Values : Means(r, k, v)' => Claims(k, v)
      BY <1>i, <2>1, EmitMeans
    <2> QED BY <1>2, <1>o, <2>1, <2>2 DEF Step
  <1>3. ASSUME NEW r \in Requests, HashHit(r)
        PROVE  OneMeaning' /\ BelowCount'
    <2>1. PICK i \in Cached(Block(r).value) : Emit(r, hash[i].token)
      BY <1>3 DEF HashHit
    <2>2. hash[i].token \in Tokens /\ Claims(hash[i].token, Block(r).value)
      BY <1>i, CachedIsEntry DEF Cached, Claims
    <2>3. /\ Len(out[r]) < Len(body[r]) /\ pc'[r] = "block"
          /\ UNCHANGED <<body, known, shown, store, hash>>
      BY <1>3 DEF HashHit, AtBlock
    <2>4. \A k \in Tokens, v \in Values : Means(r, k, v)' => Claims(k, v)
      BY <1>i, <2>1, <2>2, <2>3, EmitMeans
    <2> QED BY <1>3, <1>o, <2>3, <2>4 DEF Step
  <1>4. ASSUME NEW r \in Requests, Tokenise(r)
        PROVE  OneMeaning' /\ BelowCount'
    <2> DEFINE w == Block(r).value
    <2>1. PICK n \in Tokens : GetOrCreate(w, n) /\ tok' = [tok EXCEPT ![r] = n]
      BY <1>4 DEF Tokenise
    <2>2. w \in Values
      BY <1>4, <1>i, BlockInBlocks DEF Tokenise, Orderly, InPlace
    <2>3. /\ tok'[r] = n /\ UNCHANGED <<body, out, known, shown, hash>>
      BY <1>4, <1>i, <2>1 DEF Tokenise, TypeOK
    <2>4. \A k \in Tokens, v \in Values : Means(r, k, v)' => Means(r, k, v) \/ (k = n /\ v = w)
      BY <2>3 DEF Means, Block
    <2>5. \A q \in Requests \ {r} : Same(q)
      BY <1>4, <1>i, OthersSame DEF Step
    <2>6. \A q \in Requests, k \in Tokens, v \in Values :
              Means(q, k, v)' => Means(q, k, v) \/ (k = n /\ v = w)
      BY <2>4, <2>5, SameMeaning
    <2>7. (OldClaims /\ count' = count) \/ FreshClaim(n, w)
      BY <1>i, <2>1, <2>2, <2>3, <2>6, StoreClaims
    <2> QED BY <1>i, <2>2, <2>7, OldClaimsAgree, FreshClaimAgrees
  <1>5. ASSUME NEW r \in Requests, Remember(r)
        PROVE  OneMeaning' /\ BelowCount'
    <2>1. /\ pc[r] = "insert" /\ pc'[r] = "block" /\ Emit(r, tok[r])
          /\ hash' = Insert(EvictHalf(hash), Block(r).value, tok[r])
          /\ UNCHANGED <<body, known, shown, store>>
      BY <1>5, <1>i DEF Remember, TypeOK
    <2>2. /\ Len(out[r]) < Len(body[r]) /\ tok[r] \in Tokens
          /\ Block(r).value \in Values
      BY <1>i, <2>1, BlockInBlocks DEF Orderly, InPlace
    <2>3. Claims(tok[r], Block(r).value)
      BY <2>1 DEF Claims, Means
    <2>4. \A k \in Tokens, v \in Values : Means(r, k, v)' => Claims(k, v)
      BY <1>i, <2>1, <2>2, <2>3, EmitMeans
    <2>5. \A q \in Requests \ {r} : Same(q)
      BY <1>5, <1>i, OthersSame DEF Step
    <2>6. \A k \in Tokens, v \in Values :
              (\E i \in DOMAIN hash' : hash'[i].token = k /\ hash'[i].value = v) => Claims(k, v)
      <3>1. HashCacheBounded
        BY DEF IInv
      <3>2. /\ EvictHalf(hash) \in Seq(Entry)
            /\ \A i \in DOMAIN EvictHalf(hash) : \E j \in DOMAIN hash : EvictHalf(hash)[i] = hash[j]
        BY <1>i, <3>1, HashIsSeq, EvictMakesRoom DEF HashCacheBounded
      <3>3. \A i \in DOMAIN hash' :
               \/ hash'[i] = [value |-> Block(r).value, token |-> tok[r]]
               \/ \E j \in DOMAIN EvictHalf(hash) : hash'[i] = EvictHalf(hash)[j]
        <4>1. hash' = Insert(EvictHalf(hash), Block(r).value, tok[r])
          BY ONLY <2>1
        <4> QED BY ONLY <4>1, <2>2, <3>2, InsertAddsEntry
      <3>4. \A i \in DOMAIN hash' :
               \/ hash'[i] = [value |-> Block(r).value, token |-> tok[r]]
               \/ \E j \in DOMAIN hash : hash'[i] = hash[j]
        <4> TAKE i \in DOMAIN hash'
        <4>1. CASE hash'[i] = [value |-> Block(r).value, token |-> tok[r]]
          BY ONLY <4>1
        <4>2. CASE hash'[i] # [value |-> Block(r).value, token |-> tok[r]]
          <5>1. PICK j \in DOMAIN EvictHalf(hash) : hash'[i] = EvictHalf(hash)[j]
            BY <3>3, <4>2, Zenon
          <5>2. \E l \in DOMAIN hash : EvictHalf(hash)[j] = hash[l]
            BY <3>2, Zenon
          <5> QED BY ONLY <5>1, <5>2
        <4> QED BY ONLY <4>1, <4>2
      <3> QED BY <2>3, <3>4 DEF Claims
    <2>7. OldClaims
      <3> SUFFICES ASSUME NEW k \in Tokens, NEW v \in Values, Claims(k, v)'
                   PROVE  Claims(k, v)
        BY DEF OldClaims
      <3>1. CASE \E q \in Requests : Means(q, k, v)'
        BY <2>4, <2>5, <3>1, SameMeaning DEF Claims
      <3>2. CASE ~\E q \in Requests : Means(q, k, v)'
        BY <2>1, <2>6, <3>2 DEF Claims
      <3> QED BY <3>1, <3>2
    <2> QED BY <1>i, <2>1, <2>7, OldClaimsAgree
  <1>6. ASSUME NEW r \in Requests, RefuseBinary(r) \/ AnonymizeFails(r)
        PROVE  OneMeaning' /\ BelowCount'
    <2>1. pc'[r] = "done" /\ UNCHANGED <<body, out, known, shown, store, hash>> 
      BY <1>6, <1>i DEF RefuseBinary, AnonymizeFails, Reject, TypeOK
    <2> QED BY <1>6, <1>p, <2>1 DEF Step
  <1>7. ASSUME NEW r \in Requests, HashMiss(r) \/ Forward(r) \/ UpstreamFails(r)
        PROVE  OneMeaning' /\ BelowCount'
    <2>1. pc'[r] \in {"ner", "sent", "done"} /\ UNCHANGED <<body, out, known, shown, store, hash>>
      BY <1>7, <1>i DEF HashMiss, Forward, UpstreamFails, TypeOK
    <2> QED BY <1>7, <1>p, <2>1 DEF Step
  <1>8. ASSUME NEW r \in Requests, NEW code \in {200, 400}, Respond(r, code)
        PROVE  OneMeaning' /\ BelowCount'
    <2>1. pc'[r] \in {"snapshot", "stream"} /\ UNCHANGED <<body, out, known, shown, store, hash>>
      BY <1>8, <1>i DEF Respond, TypeOK
    <2> QED BY <1>8, <1>p, <2>1 DEF Step
  <1>9. ASSUME NEW r \in Requests, SnapshotFails(r)
        PROVE  OneMeaning' /\ BelowCount'
    <2>1. pc'[r] = "stream" /\ UNCHANGED <<body, out, known, shown, store, hash>>
      BY <1>9, <1>i DEF SnapshotFails, TypeOK
    <2> QED BY <1>9, <1>p, <2>1 DEF Step
  <1>10. ASSUME NEW r \in Requests, Snapshot(r) \/ EndStream(r)
         PROVE  OneMeaning' /\ BelowCount'
    <2>1. /\ pc'[r] \in {"stream", "done"} /\ UNCHANGED <<body, out, shown, store, hash>>
          /\ known'[r] \in {mapping, Empty}
      BY <1>10, <1>i DEF Snapshot, EndStream, TypeOK
    <2>2. \A k \in Tokens, v \in Values : Means(r, k, v)' => Claims(k, v)
      BY <2>1, EmptyIsMap DEF Means, Claims
    <2> QED BY <1>10, <1>o, <2>1, <2>2 DEF Step
  <1>11. ASSUME NEW r \in Requests, NEW n \in Tokens, MentionRaw(r, n) \/ MentionKnown(r, n)
         PROVE  OneMeaning' /\ BelowCount'
    <2>1. PICK x : Show(r, n, x) /\ (x \in Values => Claims(n, x))
      <3>1. CASE MentionRaw(r, n)
        BY <3>1 DEF MentionRaw
      <3>2. CASE MentionKnown(r, n)
        BY <3>2 DEF MentionKnown, Claims, Means
      <3> QED BY <1>11, <3>1, <3>2
    <2>2. UNCHANGED <<request, known, store, hash>>
      BY <1>11 DEF MentionRaw, MentionKnown
    <2>3. \A k \in Tokens, v \in Values : Means(r, k, v)' => Claims(k, v)
      BY <1>i, <2>1, <2>2, ShowMeans
    <2> QED BY <1>11, <1>o, <2>2, <2>3 DEF Mention
  <1>12. ASSUME NEW r \in Requests, NEW n \in Tokens, MentionUnknown(r, n)
         PROVE  OneMeaning' /\ BelowCount'
    <2>1. PICK x : /\ x \in {Found(n), Raw} /\ Show(r, n, x)
                   /\ known' = [known EXCEPT ![r] = Put(known[r], n, x)]
      BY <1>12 DEF MentionUnknown
    <2>2. x \in Values => Claims(n, x)
      BY <2>1 DEF Found, Claims
    <2>3. known'[r] = Put(known[r], n, x)
      BY <1>i, <2>1 DEF TypeOK
    <2>4. \A j \in DOMAIN known'[r] :
            \/ j = n /\ known'[r][j] = x
            \/ j \in DOMAIN known[r] /\ known'[r][j] = known[r][j]
      <3>1. DOMAIN known'[r] = DOMAIN known[r] \cup {n}
        BY <2>3 DEF Put
      <3>2. \A j \in DOMAIN known[r] \cup {n} : known'[r][j] = IF j = n THEN x ELSE known[r][j]
        BY <2>3 DEF Put
      <3>3. ASSUME NEW j \in DOMAIN known'[r]
            PROVE  \/ j = n /\ known'[r][j] = x
                   \/ j \in DOMAIN known[r] /\ known'[r][j] = known[r][j]
        BY <3>1, <3>2, <3>3
      <3> QED BY <3>3
    <2>5. UNCHANGED <<request, store, hash>>
      BY <1>12 DEF MentionUnknown
    <2>6. \A k \in Tokens, v \in Values : Means(r, k, v)' => Claims(k, v)
      BY <1>i, <2>1, <2>2, <2>4, <2>5, ShowMeans
    <2> QED BY <1>12, <1>o, <2>5, <2>6 DEF Mention
  <1>13. ASSUME NEW w \in Values, Anonymize(w)
         PROVE  OneMeaning' /\ BelowCount'
    <2>1. PICK n \in Tokens : GetOrCreate(w, n)
      BY <1>13 DEF Anonymize
    <2>2. \A q \in Requests, k \in Tokens, v \in Values : Means(q, k, v)' => Means(q, k, v)
      BY <1>13, EndpointsSame, SameMeaning
    <2>3. (OldClaims /\ count' = count) \/ FreshClaim(n, w)
      BY <1>13, <1>i, <2>1, <2>2, StoreClaims DEF Anonymize
    <2> QED BY <1>i, <2>3, OldClaimsAgree, FreshClaimAgrees
  <1>14. CASE ClearRedis \/ ResetHashCache \/ SetMask \/ UNCHANGED vars
    <2>1. \A q \in Requests, k \in Tokens, v \in Values : Means(q, k, v)' => Means(q, k, v)
      BY <1>14, EndpointsSame, SameMeaning
    <2>2. /\ count' = count
          /\ mapping' \in {mapping, Empty} /\ hash' \in {hash, <<>>}
      BY <1>14 DEF ClearRedis, ResetHashCache, SetMask, vars
    <2>3. DOMAIN <<>> = {}
      BY EmptySeq
    <2>4. \A k : k \in DOMAIN mapping' => mapping' = mapping
      BY <2>2, EmptyIsMap
    <2>5. \A i : i \in DOMAIN hash' => hash' = hash
      BY <2>2, <2>3, Zenon
    <2>6. OldClaims
      BY <2>1, <2>4, <2>5 DEF OldClaims, Claims
    <2> QED BY <1>i, <2>2, <2>6, OldClaimsAgree
  <1>15. ~Expire
    BY DEF Expire
  <1>16. ASSUME NEW r \in Requests, Step(r)
         PROVE  OneMeaning' /\ BelowCount'
    BY <1>2, <1>3, <1>4, <1>5, <1>6, <1>7, <1>8, <1>9, <1>10, <1>16 DEF Step
  <1>17. ASSUME NEW r \in Requests, Mention(r)
         PROVE  OneMeaning' /\ BelowCount'
    BY <1>11, <1>12, <1>17 DEF Mention
  <1> QED BY <1>1, <1>13, <1>14, <1>15, <1>16, <1>17 DEF Next

---------------------------------------------------------------------------
(* The invariant and what follows from it. *)

LEMMA BoundedStep ==
  ASSUME TypeOK, \A q \in Requests : Orderly(q), HashCacheBounded, [Next]_vars
  PROVE  HashCacheBounded'
  <1> USE DEF request, stream, store
  <1>1. ASSUME NEW r \in Requests, Remember(r)
        PROVE  HashCacheBounded'
    <2>1. /\ pc[r] = "insert"
          /\ hash' = Insert(EvictHalf(hash), Block(r).value, tok[r])
      BY <1>1 DEF Remember
    <2>2. tok[r] \in Tokens /\ Block(r).value \in Values
      BY <2>1, BlockInBlocks DEF Orderly, InPlace
    <2>3. EvictHalf(hash) \in Seq(Entry) /\ Len(EvictHalf(hash)) < MaxCache
      BY HashIsSeq, EvictMakesRoom DEF HashCacheBounded
    <2>4. hash' \in Seq(Entry) /\ Len(hash') <= Len(EvictHalf(hash)) + 1
      BY <2>1, <2>2, <2>3, InsertAddsEntry
    <2>5. Len(hash') \in Nat /\ Len(EvictHalf(hash)) \in Nat
      BY <2>3, <2>4, LenProperties
    <2> QED BY <2>3, <2>4, <2>5 DEF HashCacheBounded
  <1>2. CASE UNCHANGED hash
    BY <1>2 DEF HashCacheBounded
  <1>3. CASE ResetHashCache
    <2>1. Len(<<>>) = 0 /\ hash' = <<>>
      BY <1>3, EmptySeq DEF ResetHashCache
    <2>2. Len(hash') = 0
      BY <2>1, Zenon
    <2> QED BY <2>2 DEF HashCacheBounded
  <1>4. ASSUME NEW r \in Requests, Step(r), ~Remember(r)
        PROVE  UNCHANGED hash
    BY <1>4 DEF Step, PassVerbatim, RefuseBinary, AnonymizeFails, Reject, HashHit, HashMiss,
       Tokenise, Forward, UpstreamFails, Respond, Snapshot, SnapshotFails, EndStream
  <1>5. ASSUME NEW r \in Requests, Mention(r) \/ \E b \in Bodies : Receive(r, b)
        PROVE  UNCHANGED hash
    BY <1>5 DEF Mention, MentionRaw, MentionKnown, MentionUnknown, Receive
  <1>6. CASE (\E v \in Values : Anonymize(v)) \/ ClearRedis \/ SetMask \/ Expire \/ UNCHANGED vars
    BY <1>2, <1>6 DEF Anonymize, ClearRedis, SetMask, Expire, vars
  <1> QED BY <1>1, <1>2, <1>3, <1>4, <1>5, <1>6 DEF Next

\* The inductive invariant of the proxy: requests are orderly, the hash cache
\* is within its limit and, unless Redis forgets the counter, every token has
\* one meaning in Redis, the cache and all the requests.
THEOREM ProxyInvariance == Spec => []IInv
  <1>1. IInv /\ [Next]_vars => IInv'
    <2> SUFFICES ASSUME IInv, [Next]_vars PROVE IInv'
      OBVIOUS
    <2>1. TypeOK /\ (\A r \in Requests : Orderly(r)) /\ HashCacheBounded
      BY DEF IInv
    <2>2. TypeOK'
      BY <2>1, TypeStep
    <2>3. \A r \in Requests : Orderly(r)'
      BY <2>1, OrderlyStep
    <2>4. HashCacheBounded'
      BY <2>1, BoundedStep
    <2>5. "expire" \notin Events => OneMeaning' /\ BelowCount'
      BY ClaimsStep
    <2> QED BY <2>2, <2>3, <2>4, <2>5 DEF IInv
  <1> QED BY InitInvariant, <1>1, PTL DEF Spec

\* Every variable keeps the shape the code gives it.
THEOREM ProxyTypeCorrect == Spec => []TypeOK
  <1>1. IInv => TypeOK
    BY DEF IInv
  <1> QED BY <1>1, ProxyInvariance, PTL

\* A body that proxy_messages holds a connection for has been gone through to
\* its end: no refused block, and nothing without a token but the kinds the
\* code forwards in clear, for any bodies, interleaving and faults.
THEOREM NothingSentHalfAnonymised == Spec => []NothingHalfAnonymised
  <1>1. IInv => NothingHalfAnonymised
    <2> SUFFICES ASSUME IInv, NEW r \in Requests, conn[r], NEW i \in DOMAIN body[r]
                 PROVE  /\ body[r][i].kind # "binary"
                        /\ out[r][i] = NoToken => body[r][i].kind \in Verbatim
      <3> SUFFICES ASSUME IInv, NEW r \in Requests, conn[r]
                   PROVE  Len(out[r]) = Len(body[r])
        BY DEF NothingHalfAnonymised
      <3> QED BY DEF IInv, Orderly, InPlace
    <2>1. i \in DOMAIN out[r]
      BY BodyIsSeq DEF IInv, Orderly, InPlace
    <2> QED BY <2>1 DEF IInv, Orderly, Rewritten
  <1> QED BY <1>1, ProxyInvariance, PTL

\* The check and the insertion of _anon_text, with an await between them, never
\* let the hash cache exceed max_cache_entries, whatever the number of requests.
THEOREM CacheStaysBounded == Spec => []HashCacheBounded
  <1>1. IInv => HashCacheBounded
    BY DEF IInv
  <1> QED BY <1>1, ProxyInvariance, PTL

\* A reply displays each token one way.
THEOREM StreamsConsistent == Spec => []ConsistentStream
  <1>1. IInv => ConsistentStream
    BY DEF IInv, Orderly, OneDisplay, ConsistentStream
  <1> QED BY <1>1, ProxyInvariance, PTL

\* A request that is over holds no upstream connection.
THEOREM NoConnectionLeft == Spec => []ConnectionsReleased
  <1>1. IInv => ConnectionsReleased
    BY DEF IInv, Orderly, InPlace, ConnectionsReleased
  <1> QED BY <1>1, ProxyInvariance, PTL

\* While the counter is kept, no user is shown, in place of a value, another
\* one, however requests, DELETE /mapping and failures interleave.
THEOREM NobodyMisattributed == "expire" \notin Events => (Spec => []NoMisattribution)
  <1> SUFFICES ASSUME "expire" \notin Events PROVE Spec => []NoMisattribution
    OBVIOUS
  <1>1. IInv => NoMisattribution
    <2> SUFFICES ASSUME IInv, NEW r \in Requests, conn[r] \/ shown[r] # {},
                        NEW i \in DOMAIN body[r], body[r][i].kind = "text"
                 PROVE  /\ out[r][i] # NoToken
                        /\ \A s \in shown[r] : s.token = out[r][i] =>
                              s.as \in {body[r][i].value, Raw}
      BY DEF NoMisattribution
    <2>1. TypeOK /\ Orderly(r) /\ OneMeaning
      BY DEF IInv
    <2>2. Len(out[r]) = Len(body[r])
      BY <2>1 DEF Orderly, InPlace
    <2>3. i \in DOMAIN out[r] /\ i \in 1..Len(out[r]) /\ i \in 1..Len(body[r])
      BY <2>1, <2>2, BodyIsSeq
    <2>4. out[r][i] # NoToken
      BY <2>1, <2>3 DEF Orderly, Rewritten, Verbatim
    <2>5. out[r][i] \in Tokens \cup {NoToken} /\ body[r][i] \in Blocks
      BY <2>1, <2>3, BodyIsSeq, ElementOfSeq
    <2>6. out[r][i] \in Tokens /\ body[r][i].value \in Values
      BY <2>4, <2>5 DEF Blocks
    <2>7. Claims(out[r][i], body[r][i].value)
      BY <2>3 DEF Claims, Means
    <2>8. ASSUME NEW s \in shown[r], s.token = out[r][i], s.as # Raw
          PROVE  s.as = body[r][i].value
      <3>1. shown[r] \subseteq [token : Tokens, as : Values \cup {Raw}]
        BY <2>1 DEF TypeOK
      <3>2. s.as \in Values /\ s = [token |-> s.token, as |-> s.as]
        BY <2>8, <3>1
      <3>3. Claims(out[r][i], s.as)
        BY <2>8, <3>2 DEF Claims, Means
      <3> QED BY <2>1, <2>6, <2>7, <3>2, <3>3 DEF OneMeaning
    <2> QED BY <2>4, <2>8
  <1> QED BY <1>1, ProxyInvariance, PTL

\* While the counter is kept, the hash cache agrees with Redis and with itself.
THEOREM CacheIsTruthful == "expire" \notin Events => (Spec => []HashCacheTruthful)
  <1> SUFFICES ASSUME "expire" \notin Events PROVE Spec => []HashCacheTruthful
    OBVIOUS
  <1>1. IInv => HashCacheTruthful
    <2> SUFFICES ASSUME IInv, NEW i \in DOMAIN hash
                 PROVE  /\ hash[i].token \in DOMAIN mapping =>
                              mapping[hash[i].token] = hash[i].value
                        /\ \A j \in DOMAIN hash :
                              hash[i].token = hash[j].token => hash[i].value = hash[j].value
      BY DEF HashCacheTruthful
    <2>1. TypeOK /\ OneMeaning
      BY DEF IInv
    <2>2. \A j \in DOMAIN hash : /\ hash[j].token \in Tokens /\ hash[j].value \in Values
                                 /\ Claims(hash[j].token, hash[j].value)
      BY <2>1, CachedIsEntry DEF Claims
    <2>3. ASSUME hash[i].token \in DOMAIN mapping
          PROVE  mapping[hash[i].token] = hash[i].value
      <3>1. mapping[hash[i].token] \in Values
        BY <2>1, <2>3, MapsDef DEF TypeOK
      <3>2. Claims(hash[i].token, mapping[hash[i].token])
        BY <2>3 DEF Claims
      <3> QED BY <2>1, <2>2, <3>1, <3>2 DEF OneMeaning
    <2>4. ASSUME NEW j \in DOMAIN hash, hash[i].token = hash[j].token
          PROVE  hash[i].value = hash[j].value
      BY <2>1, <2>2, <2>4 DEF OneMeaning
    <2> QED BY <2>3, <2>4
  <1> QED BY <1>1, ProxyInvariance, PTL
===========================================================================
