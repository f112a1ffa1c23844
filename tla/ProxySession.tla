--------------------------- MODULE ProxySession ---------------------------
(***************************************************************************)
(* The proxy between Claude Code and the model's API: sidecar/proxy.py     *)
(* (POST /v1/messages), sidecar/proxy_anonymizer.py (PayloadAnonymizer and *)
(* its hash cache), and the endpoints of sidecar/main.py that share their  *)
(* state (POST /anonymize, DELETE /mapping, POST /demo/mask).              *)
(*                                                                         *)
(* Requests are coroutines of one event loop: an action runs up to the     *)
(* next await.  The token store is seen from outside, one step per call    *)
(* (TokenStore models its inside).  A block of a message is reduced to its *)
(* kind and the one private value it mentions, which the detector finds.   *)
(*                                                                         *)
(* An operator Mut... is a faulty variant of the definition that follows,  *)
(* put in its place to confirm that a property notices the fault.          *)
(***************************************************************************)
EXTENDS Integers, Sequences

CONSTANTS
    Requests,   \* requests to /v1/messages
    Values,     \* private values, each standing for the texts mentioning it
    Bodies,     \* bodies a request may carry: sequences of blocks
    Raw,        \* "the token itself", as shown when it is not resolved
    MaxCache,   \* max_cache_entries
    MaxTokens,  \* bound: tokens handed out since the last expiry
    MaxClears,  \* bound: calls of DELETE /mapping
    Events      \* which of EventKinds happen in this instance

EventKinds == {"error", "mask", "expire"}

\* "text": a string reaching _anon_text.  "dense": one made of placeholders
\* for 30% or more.  "binary": an image or document block.  "nested": the same
\* inside a tool_result's list.  "other": thinking and unknown blocks.
\* "system": the body's system field, which anonymize_body skips.
\* "malformed": the whole of a body that is not JSON.
Kinds == {"text", "dense", "binary", "nested", "other", "system", "malformed"}
Verbatim == {"dense", "nested", "other", "system", "malformed"}
Blocks == [kind : Kinds, value : Values]
NoToken == 0
Tokens == 1..MaxTokens

ASSUME ConstAssumption ==
    /\ Bodies \subseteq Seq(Blocks)
    /\ \A b \in Bodies :
          (\E i \in DOMAIN b : b[i].kind = "malformed") => Len(b) = 1
    /\ MaxCache \in Nat /\ MaxCache >= 2
    /\ MaxTokens \in Nat
    /\ MaxClears \in Nat
    /\ Events \subseteq EventKinds
    /\ Raw \notin Values

VARIABLES
    pc,       \* where each request is
    body,     \* the blocks it carries
    out,      \* the blocks written so far: the token put in, or NoToken
    tok,      \* the token get_or_create_token returned, not yet used
    status,   \* the HTTP status returned, 0 before
    conn,     \* the request holds an httpx client and its response
    known,    \* its StreamDeanonymizer: tokens resolved or given up (Raw)
    deanon,   \* whether it has one
    shown,    \* how tokens were displayed to the user
    mapping,  \* Redis: token -> value
    count,    \* Redis: the counter
    hash,     \* _hash_cache: entries [value, token] in insertion order
    clearing, \* a DELETE /mapping has emptied Redis, not yet the hash cache
    clears,
    mask      \* app.state.demo_mask_on

request == <<pc, body, out, tok, status>>
stream == <<conn, known, deanon, shown>>
store == <<mapping, count>>
vars == <<request, stream, store, hash, clearing, clears, mask>>

PCs == {"idle", "block", "ner", "insert", "sent", "snapshot", "stream", "done"}
Empty == [x \in {} |-> x]
Maps(S) == UNION {[D -> S] : D \in SUBSET Tokens}
Put(f, k, v) == [x \in DOMAIN f \cup {k} |-> IF x = k THEN v ELSE f[x]]

Init ==
    /\ pc = [r \in Requests |-> "idle"]
    /\ body = [r \in Requests |-> <<>>]
    /\ out = [r \in Requests |-> <<>>]
    /\ tok = [r \in Requests |-> NoToken]
    /\ status = [r \in Requests |-> 0]
    /\ conn = [r \in Requests |-> FALSE]
    /\ known = [r \in Requests |-> Empty]
    /\ deanon = [r \in Requests |-> FALSE]
    /\ shown = [r \in Requests |-> {}]
    /\ mapping = Empty
    /\ count = 0
    /\ hash = <<>>
    /\ clearing = FALSE
    /\ clears = 0
    /\ mask = FALSE

---------------------------------------------------------------------------
(* The token store, one call. *)
TokensOf(v) == {k \in DOMAIN mapping : mapping[k] = v}

\* get_or_create_token(v) returns k.
GetOrCreate(v, k) ==
    IF TokensOf(v) # {}
    THEN k \in TokensOf(v) /\ UNCHANGED store
    ELSE /\ count < MaxTokens
         /\ k = count + 1
         /\ count' = k
         /\ mapping' = Put(mapping, k, v)

---------------------------------------------------------------------------
(* The hash cache. *)
Cached(v) == {i \in DOMAIN hash : hash[i].value = v}

\* At the limit the older half goes, then the entry is added, or updated
\* where it stands.
MutEvictLate(h) ==
    IF Len(h) > MaxCache THEN SubSeq(h, MaxCache \div 2 + 1, Len(h)) ELSE h
EvictHalf(h) ==
    IF Len(h) >= MaxCache THEN SubSeq(h, MaxCache \div 2 + 1, Len(h)) ELSE h

Insert(h, v, k) ==
    LET entry == [value |-> v, token |-> k]
    IN IF \E i \in DOMAIN h : h[i].value = v
       THEN [i \in DOMAIN h |-> IF h[i].value = v THEN entry ELSE h[i]]
       ELSE Append(h, entry)

---------------------------------------------------------------------------
(* anonymize_body *)
Receive(r, b) ==
    /\ pc[r] = "idle"
    /\ pc' = [pc EXCEPT ![r] = "block"]
    /\ body' = [body EXCEPT ![r] = b]
    /\ UNCHANGED <<out, tok, status, stream, store, hash, clearing, clears, mask>>

AtBlock(r) == pc[r] = "block" /\ Len(out[r]) < Len(body[r])
Block(r) == body[r][Len(out[r]) + 1]
Emit(r, k) == out' = [out EXCEPT ![r] = Append(@, k)]

\* Nothing the code anonymises in this block, or in the whole of a body that
\* is not JSON: it goes as it is, and what is private in it too.
PassVerbatim(r) ==
    /\ AtBlock(r)
    /\ Block(r).kind \in Verbatim
    /\ Emit(r, NoToken)
    /\ UNCHANGED <<pc, body, tok, status, stream, store, hash, clearing, clears, mask>>

\* The request ends with an error and nothing is forwarded.
Reject(r, code) ==
    /\ pc' = [pc EXCEPT ![r] = "done"]
    /\ status' = [status EXCEPT ![r] = code]
    /\ tok' = [tok EXCEPT ![r] = NoToken]
    /\ UNCHANGED <<body, out, stream, store, hash, clearing, clears, mask>>

\* UnsupportedBlockError
RefuseBinary(r) ==
    /\ AtBlock(r)
    /\ Block(r).kind = "binary"
    /\ Reject(r, 400)

\* _anon_text up to its await: a hit answers at once.
MutHashHitAnyText(r) ==
    /\ AtBlock(r)
    /\ Block(r).kind = "text"
    /\ \E i \in DOMAIN hash : Emit(r, hash[i].token)
    /\ UNCHANGED <<pc, body, tok, status, stream, store, hash, clearing, clears, mask>>
HashHit(r) ==
    /\ AtBlock(r)
    /\ Block(r).kind = "text"
    /\ \E i \in Cached(Block(r).value) : Emit(r, hash[i].token)
    /\ UNCHANGED <<pc, body, tok, status, stream, store, hash, clearing, clears, mask>>

HashMiss(r) ==
    /\ AtBlock(r)
    /\ Block(r).kind = "text"
    /\ Cached(Block(r).value) = {}
    /\ pc' = [pc EXCEPT ![r] = "ner"]
    /\ UNCHANGED <<body, out, tok, status, stream, store, hash, clearing, clears, mask>>

\* The anonymizer finds the value and asks the store for its token.
Tokenise(r) ==
    /\ pc[r] = "ner"
    /\ \E k \in Tokens : GetOrCreate(Block(r).value, k)
                           /\ tok' = [tok EXCEPT ![r] = k]
    /\ pc' = [pc EXCEPT ![r] = "insert"]
    /\ UNCHANGED <<body, out, status, stream, hash, clearing, clears, mask>>

\* The detector, Redis or the payload's shape raises: fail-safe.
MutAnonymizeFailsOpen(r) ==
    /\ "error" \in Events
    /\ AtBlock(r) /\ pc[r] = "block" /\ Block(r).kind = "text"
    /\ Emit(r, NoToken)
    /\ UNCHANGED <<pc, body, tok, status, stream, store, hash, clearing, clears, mask>>
AnonymizeFails(r) ==
    /\ "error" \in Events
    /\ pc[r] \in {"block", "ner", "insert"}
    /\ Reject(r, 503)

\* _anon_text after its await.
MutRememberStay(r) ==
    /\ pc[r] = "insert"
    /\ hash' = Insert(EvictHalf(hash), Block(r).value, tok[r])
    /\ tok' = [tok EXCEPT ![r] = NoToken]
    /\ pc' = [pc EXCEPT ![r] = "ner"]
    /\ UNCHANGED <<body, out, status, stream, store, clearing, clears, mask>>
Remember(r) ==
    /\ pc[r] = "insert"
    /\ hash' = Insert(EvictHalf(hash), Block(r).value, tok[r])
    /\ Emit(r, tok[r])
    /\ tok' = [tok EXCEPT ![r] = NoToken]
    /\ pc' = [pc EXCEPT ![r] = "block"]
    /\ UNCHANGED <<body, status, stream, store, clearing, clears, mask>>

---------------------------------------------------------------------------
(* proxy_messages after the anonymisation *)

\* Every block is written: the body is sent upstream.
Forward(r) ==
    /\ pc[r] = "block"
    /\ Len(out[r]) = Len(body[r])
    /\ pc' = [pc EXCEPT ![r] = "sent"]
    /\ conn' = [conn EXCEPT ![r] = TRUE]
    /\ UNCHANGED <<body, out, tok, status, known, deanon, shown,
                   store, hash, clearing, clears, mask>>

\* httpx.HTTPError, its 120 s timeout included.
MutUpstreamFailsOpen(r) ==
    /\ pc[r] = "sent"
    /\ pc' = [pc EXCEPT ![r] = "done"]
    /\ status' = [status EXCEPT ![r] = 502]
    /\ UNCHANGED <<body, out, tok, stream, store, hash, clearing, clears, mask>>
UpstreamFails(r) ==
    /\ pc[r] = "sent"
    /\ pc' = [pc EXCEPT ![r] = "done"]
    /\ status' = [status EXCEPT ![r] = 502]
    /\ conn' = [conn EXCEPT ![r] = FALSE]
    /\ UNCHANGED <<body, out, tok, known, deanon, shown,
                   store, hash, clearing, clears, mask>>

\* The response headers arrive; only a 200 with the mask off is resolved, and
\* a body that was not JSON is answered 400.
Respond(r, code) ==
    /\ pc[r] = "sent"
    /\ code = 200 => \A i \in DOMAIN body[r] : body[r][i].kind # "malformed"
    /\ status' = [status EXCEPT ![r] = code]
    /\ pc' = [pc EXCEPT ![r] =
                 IF code = 200 /\ ~mask THEN "snapshot" ELSE "stream"]
    /\ UNCHANGED <<body, out, tok, stream, store, hash, clearing, clears, mask>>

Snapshot(r) ==
    /\ pc[r] = "snapshot"
    /\ known' = [known EXCEPT ![r] = mapping]
    /\ deanon' = [deanon EXCEPT ![r] = TRUE]
    /\ pc' = [pc EXCEPT ![r] = "stream"]
    /\ UNCHANGED <<body, out, tok, status, conn, shown,
                   store, hash, clearing, clears, mask>>

\* Redis raises: the reply is streamed unresolved.
SnapshotFails(r) ==
    /\ "error" \in Events
    /\ pc[r] = "snapshot"
    /\ pc' = [pc EXCEPT ![r] = "stream"]
    /\ UNCHANGED <<body, out, tok, status, stream, store, hash, clearing, clears, mask>>

\* The reply mentions token k, displayed as x.  The model may write any
\* placeholder, one it was not sent included.
Show(r, k, x) == shown' = [shown EXCEPT ![r] = @ \cup {[token |-> k, as |-> x]}]

MentionRaw(r, k) ==
    /\ pc[r] = "stream"
    /\ ~deanon[r]
    /\ Show(r, k, Raw)
    /\ UNCHANGED <<request, conn, known, deanon, store, hash, clearing, clears, mask>>

MentionKnown(r, k) ==
    /\ pc[r] = "stream"
    /\ deanon[r]
    /\ k \in DOMAIN known[r]
    /\ Show(r, k, known[r][k])
    /\ UNCHANGED <<request, conn, known, deanon, store, hash, clearing, clears, mask>>

\* A token absent from the snapshot is looked up once: the answer, a miss or
\* an error included, stands for the rest of the stream.
Found(k) == IF k \in DOMAIN mapping THEN mapping[k] ELSE Raw
MutMentionUnknown(r, k) ==
    /\ pc[r] = "stream"
    /\ deanon[r]
    /\ k \notin DOMAIN known[r]
    /\ Show(r, k, Found(k))
    /\ UNCHANGED <<request, conn, known, deanon, store, hash, clearing, clears, mask>>
MentionUnknown(r, k) ==
    /\ pc[r] = "stream"
    /\ deanon[r]
    /\ k \notin DOMAIN known[r]
    /\ \E x \in {Found(k)} \cup (IF "error" \in Events THEN {Raw} ELSE {}) :
         /\ Show(r, k, x)
         /\ known' = [known EXCEPT ![r] = Put(@, k, x)]
    /\ UNCHANGED <<request, conn, deanon, store, hash, clearing, clears, mask>>

\* The stream ends, or breaks off once it has started: the generator's
\* finally closes both the response and the client.
EndStream(r) ==
    /\ pc[r] = "stream"
    /\ pc' = [pc EXCEPT ![r] = "done"]
    /\ conn' = [conn EXCEPT ![r] = FALSE]
    /\ known' = [known EXCEPT ![r] = Empty]
    /\ UNCHANGED <<body, out, tok, status, deanon, shown,
                   store, hash, clearing, clears, mask>>

---------------------------------------------------------------------------
(* The other endpoints. *)

\* POST /anonymize: the same store, no hash cache.
Anonymize(v) ==
    /\ \E k \in Tokens : GetOrCreate(v, k)
    /\ UNCHANGED <<request, stream, hash, clearing, clears, mask>>

\* DELETE /mapping, up to and after its await.
MutClearRestartsCount ==
    /\ clears < MaxClears
    /\ ~clearing
    /\ mapping' = Empty
    /\ count' = 0
    /\ clearing' = TRUE
    /\ clears' = clears + 1
    /\ UNCHANGED <<request, stream, hash, mask>>
ClearRedis ==
    /\ clears < MaxClears
    /\ ~clearing
    /\ mapping' = Empty
    /\ clearing' = TRUE
    /\ clears' = clears + 1
    /\ UNCHANGED <<request, stream, count, hash, mask>>

ResetHashCache ==
    /\ clearing
    /\ hash' = <<>>
    /\ clearing' = FALSE
    /\ UNCHANGED <<request, stream, store, clears, mask>>

SetMask ==
    /\ "mask" \in Events
    /\ mask' = ~mask
    /\ UNCHANGED <<request, stream, store, hash, clearing, clears>>

\* A day without a new token: Redis has dropped every key of the user.
\* Nothing of this process is told.
Expire ==
    /\ "expire" \in Events
    /\ \A r \in Requests : pc[r] \in {"idle", "done"}
    /\ mapping' = Empty
    /\ count' = 0
    /\ UNCHANGED <<request, stream, hash, clearing, clears, mask>>

---------------------------------------------------------------------------
Step(r) ==
    \/ PassVerbatim(r) \/ RefuseBinary(r) \/ HashHit(r) \/ HashMiss(r)
    \/ Tokenise(r) \/ Remember(r) \/ AnonymizeFails(r)
    \/ Forward(r) \/ UpstreamFails(r) \/ \E code \in {200, 400} : Respond(r, code)
    \/ Snapshot(r) \/ SnapshotFails(r) \/ EndStream(r)

Mention(r) ==
    \E k \in Tokens : MentionRaw(r, k) \/ MentionKnown(r, k) \/ MentionUnknown(r, k)

Next ==
    \/ \E r \in Requests, b \in Bodies : Receive(r, b)
    \/ \E r \in Requests : Step(r) \/ Mention(r)
    \/ \E v \in Values : Anonymize(v)
    \/ ClearRedis \/ ResetHashCache \/ SetMask \/ Expire

Spec == Init /\ [][Next]_vars

\* The detector, Redis and the upstream answer or raise; replies end.
LiveSpec == Spec /\ \A r \in Requests : WF_vars(Step(r))

---------------------------------------------------------------------------
(* Properties. *)

\* Every variable keeps the shape the code gives it.
TypeOK ==
    /\ pc \in [Requests -> PCs]
    /\ body \in [Requests -> Bodies \cup {<<>>}]
    /\ out \in [Requests -> Seq(Tokens \cup {NoToken})]
    /\ \A r \in Requests : Len(out[r]) <= Len(body[r])
    /\ tok \in [Requests -> Tokens \cup {NoToken}]
    /\ status \in [Requests -> {0, 200, 400, 502, 503}]
    /\ conn \in [Requests -> BOOLEAN]
    /\ deanon \in [Requests -> BOOLEAN]
    /\ known \in [Requests -> Maps(Values \cup {Raw})]
    /\ shown \in [Requests -> SUBSET [token : Tokens, as : Values \cup {Raw}]]
    /\ mapping \in Maps(Values)
    /\ count \in 0..MaxTokens
    /\ hash \in Seq([value : Values, token : Tokens])
    /\ clearing \in BOOLEAN
    /\ clears \in 0..MaxClears
    /\ mask \in BOOLEAN

\* Whatever the interleaving with other requests, clears and failures, a body
\* that went upstream has a token in every text block, and shows the user of
\* that request either the value that stood there or the token.
NoMisattribution ==
    \A r \in Requests : conn[r] \/ shown[r] # {} =>
        \A i \in DOMAIN body[r] : body[r][i].kind = "text" =>
            /\ out[r][i] # NoToken
            /\ \A s \in shown[r] : s.token = out[r][i] =>
                  s.as \in {body[r][i].value, Raw}

\* Two texts about different values never sit in the hash cache under one
\* token, and no cached token resolves to another value than its text's.
HashCacheTruthful ==
    \A i \in DOMAIN hash :
        /\ hash[i].token \in DOMAIN mapping =>
              mapping[hash[i].token] = hash[i].value
        /\ \A j \in DOMAIN hash :
              hash[i].token = hash[j].token => hash[i].value = hash[j].value

\* A request is forwarded only when all of its body has been gone through: no
\* image or document is among the blocks of its messages, and what has no
\* token is of a kind the code forwards verbatim, whatever failed while the
\* body was being rewritten (proxy.py:77-108).  Those kinds are sent in clear:
\* the system field (proxy_anonymizer.py:148-154, though proxy.py:64-67 says it
\* is anonymised), texts dense with placeholders, images inside a
\* tool_result's list, thinking and unknown blocks, bodies that are not JSON.
NothingHalfAnonymised ==
    \A r \in Requests : conn[r] =>
        /\ Len(out[r]) = Len(body[r])
        /\ \A i \in DOMAIN body[r] :
              /\ body[r][i].kind # "binary"
              /\ out[r][i] = NoToken => body[r][i].kind \in Verbatim

\* Within one reply a token is displayed one way, although tokens appear and
\* disappear in Redis while it streams.
ConsistentStream ==
    \A r \in Requests : \A s, t \in shown[r] : s.token = t.token => s.as = t.as

\* A request that is over holds no upstream connection.
ConnectionsReleased == \A r \in Requests : pc[r] = "done" => ~conn[r]

\* The hash cache never outgrows max_cache_entries, though the check and the
\* insertion of concurrent requests interleave.
HashCacheBounded == Len(hash) <= MaxCache

\* Every request gets an answer, successful or not.
Answered == \A r \in Requests : pc[r] # "idle" ~> pc[r] = "done"

---------------------------------------------------------------------------
(* Why the invariants hold: their inductive strengthening.  A token may stand *)
(* for a value in Redis, in the hash cache and, for each request, between the *)
(* two halves of _anon_text, in the body rewritten so far, in the deanonymiser *)
(* and on the user's screen.                                                  *)
Means(r, k, v) ==
    \/ pc[r] = "insert" /\ tok[r] = k /\ Block(r).value = v
    \/ \E i \in DOMAIN out[r] :
          body[r][i].kind = "text" /\ out[r][i] = k /\ body[r][i].value = v
    \/ k \in DOMAIN known[r] /\ known[r][k] = v
    \/ [token |-> k, as |-> v] \in shown[r]

Claims(k, v) ==
    \/ k \in DOMAIN mapping /\ mapping[k] = v
    \/ \E i \in DOMAIN hash : hash[i].token = k /\ hash[i].value = v
    \/ \E r \in Requests : Means(r, k, v)

\* All of them agree, and none is ahead of the counter.
OneMeaning == \A k \in Tokens, v, w \in Values : Claims(k, v) /\ Claims(k, w) => v = w
BelowCount == \A k \in Tokens, v \in Values : Claims(k, v) => k <= count

\* Where a request is says what it has done.
InPlace(r) ==
    /\ pc[r] \in {"ner", "insert"} =>
          Len(out[r]) < Len(body[r]) /\ Block(r).kind = "text"
    /\ pc[r] = "insert" => tok[r] \in Tokens
    /\ conn[r] => pc[r] \in {"sent", "snapshot", "stream"}
    /\ pc[r] \in {"sent", "snapshot", "stream"} \/ shown[r] # {} => Len(out[r]) = Len(body[r])
    /\ pc[r] \in {"idle", "block", "ner", "insert", "sent", "snapshot"} =>
          shown[r] = {} /\ ~deanon[r]
    /\ pc[r] = "idle" => body[r] = <<>>

\* What has been written has a token wherever the code puts one, and no block
\* of a kind that is refused.
Rewritten(r) ==
    \A i \in DOMAIN out[r] :
        /\ body[r][i].kind # "binary"
        /\ out[r][i] = NoToken => body[r][i].kind \in Verbatim

\* What the user has seen of a reply is what its deanonymiser remembers.
Recalled(r) ==
    pc[r] = "stream" =>
        \A s \in shown[r] :
            IF deanon[r] THEN s.token \in DOMAIN known[r] /\ known[r][s.token] = s.as
            ELSE s.as = Raw

\* A token is displayed one way.
OneDisplay(r) == \A s, t \in shown[r] : s.token = t.token => s.as = t.as

Orderly(r) == InPlace(r) /\ Rewritten(r) /\ Recalled(r) /\ OneDisplay(r)

IInv ==
    /\ TypeOK
    /\ \A r \in Requests : Orderly(r)
    /\ HashCacheBounded
    /\ "expire" \notin Events => OneMeaning /\ BelowCount
===========================================================================
