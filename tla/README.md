# A verification project for the anonymisation gateway

The repository keeps personal data out of a language model's prompts. A *sidecar* on the
user's machine replaces personal values by tokens (`[PERSON_1]`) before a request leaves for
the model and puts the values back in the streamed reply; a central *gateway* serves the
knowledge the sidecar needs (which columns are sensitive, which patterns to detect) and
fills it by scanning databases. This directory holds TLA+ models of that code, the TLC runs
that check them on small instances, and TLAPS proofs for every instance.

Contents: [the system](#the-system), [modules](#the-modules), [runs](#the-runs),
[fairness](#fairness), [proofs](#proofs), [observations](#observations),
[not modelled](#not-modelled), [plan](#plan).

## The system

| Component | State it keeps | Operations | Correct when |
|---|---|---|---|
| token store, `sidecar/cache.py` | in Redis, per user: `mapping:` (token to value), `reverse:` (value to token), one counter per label, all with a TTL of a day | `get_or_create_token`, `get_mapping`, `clear_mapping` | a token never stands for two values; what can be resolved was handed out; nothing outlives the TTL |
| outbound proxy, `sidecar/proxy.py`, `proxy_anonymizer.py` | per request the body being rewritten and an httpx connection; per process `_hash_cache` | `POST /v1/messages` | a body is forwarded only when all of it has been gone through, every text that is to have a token with one; the reply shows each user the values of their own request; connections are released; the cache is bounded and truthful |
| sidecar API, `sidecar/main.py` | `app.state`: KB client, demo mask | `/anonymize`, `/deanonymize`, `/mapping`, `/refresh`, `/demo/*`, startup | clearing the mapping also clears what refers to it |
| stream deanonymiser, `sidecar/proxy_deanonymizer.py` | a snapshot of the mapping, tokens already asked for, a buffer, the last text block | `feed`, `feed_sse`, `flush_final`, `flush_final_sse` | the cuts of the stream do not show; nothing is kept back for good |
| KB synchronisation, `sidecar/kb_client.py`, `gateway/kb_snapshot.py` | the snapshot, its version (ETag), a cache file | `pull` (startup, loop, `/refresh`), `load_from_disk`; `GET /api/kb/snapshot` | the ETag is that of the copy; the copy converges; startup survives outages |
| source scan, `gateway/dwh_router.py`, `scanner.py`, `dwh_sources.py` | `scan_jobs`, `dwh_sources.last_scan_status`, a background task per scan | start, cancel, delete, `run_scan` | a scan ends, stops when cancelled, tells the truth about its progress, leaves the administrator's decisions alone |
| column labels, gateway configuration | `column_labels`, `custom_patterns`, `ner_config` | approve, update, reject, delete, edits | as above; concurrent edits are kept |
| anonymizer, `sidecar/anonymizer.py`, `formats.py`, `sql_anon.py`, `ner.py` | none: each call asks the token store | `anonymize` of prose, SQL, JSON, XML, CSV and tables, nested; `deanonymize` | what the code takes for a value and detects is replaced, in documents inside documents too; the mapping undoes the answer |
| header lookup, `sidecar/kb_label_store.py` | the KB's labels by header and context | `lookup` | the most specific context decides, a sensitive label before others |
| tokens: `sidecar/oauth_client.py`, the manager of `mcp_server/server.py`; `gateway/oauth_router.py`, `auth.py`; `_require_token` of `sidecar/main.py` | a token, its refresh time and a lock per process; on the gateway a row per client or key | `get_token`; issue, exchange, check; revoke | one fetch at a time; no token sent too old; a revocation ends access in bounded time |
| MCP server, `mcp_server/server.py` | the switch (an environment variable, a file) | `query_db`, `set_anonymization` | no failure of a token, the sidecar or the network shows rows in clear |
| dashboard events, `sidecar/dashboard_events.py` | a ring buffer, one queue per subscriber | `emit`, `subscribe` | in order, none twice, none missing but those a full queue dropped |
| classifiers, connectors, audit, frontend, training, demo | see PROJECT.json | | |

How they meet. A `POST /v1/messages` walks the body; each text goes through the hash cache or the
detector and the token store, then the body is sent upstream. The reply is streamed through a
deanonymiser built on a snapshot of the mapping, which asks the store about tokens it does not know.
`POST /anonymize` takes a document apart, looks each field up in the snapshot of the knowledge base,
asks the store for tokens, tells the dashboards of each, and puts the document together again; the
MCP server sends the rows of a query there. The sidecar's calls to the gateway and the MCP server's
to the sidecar carry a token of the gateway's. `DELETE /mapping` empties Redis and then the hash
cache. The sidecar pulls the knowledge base at startup, in a loop and on `POST /refresh`, with a
conditional GET. On the gateway a scan runs in a background task beside the administrator's
requests, and both write `column_labels` and `custom_patterns`.

What is hard in it. Everything is asyncio: each `await` lets another request in, between `HGET`
and `INCR`, between the hash cache's lookup and its insertion, between a label's check and its
upsert, between a token's check and the lock. Redis keys expire one by one, and a process-local
cache outlives them. Streams are cut anywhere, inside a token too. Processes restart while rows
in the database and a file on disk stay. Any Redis command, HTTP call or query may raise.
`PROJECT.json` lists the hazards at their lines, those without a property included.

## The modules

Every component module names the files it models in its header; `PROJECT.json` ("map") gives
the lines of each definition. The bounds are CONSTANTS and named `Max...`; `Events` selects
the faults of an instance. An operator `Mut...` is a faulty variant of the definition that
follows it; it belongs to no specification and serves to confirm that a property notices
such a fault.

**`Pseudonyms`** is the abstract register a token store promises: pairs handed out, pairs
resolvable now, and labels whose numbering the store has lost.

**`TokenStore`** is `cache.py`, one action per Redis command (`HGetHit`/`HGetMiss`, `Incr`,
`HSetMapping`, `HSetReverse`, three `Expire...`), because each is an await. `Fail` is an
exception or a cancellation between two commands, `Clear` is `clear_mapping`, `Tick` lets time
pass and drops the keys whose time is up, `Evict...` is the `allkeys-lru` of the compose file.
`alloc` and `lost` are history: what was handed out, and which counters went away. One user is
modelled: keys of two users are disjoint. `INCR` past `MaxCount` is not taken: a call that
waits there goes on when the counter has expired.

**`ProxySession`** is a request from its arrival to the end of its reply, next to the other
endpoints that share its state. `HashHit`, `HashMiss`, `Tokenise`, `Remember` are `_anon_text`
up to its await, the await, and what follows it; `RefuseBinary` and `AnonymizeFails` are the
fail-safe answers 400 and 503; `Forward`, `UpstreamFails`, `Respond`, `Snapshot`,
`SnapshotFails`, `EndStream` are `proxy_messages` after that; `Mention...` is the reply, which
may name any token, one the request never held included. `ClearRedis` and `ResetHashCache` are
the two halves of `DELETE /mapping`. The store is used through one step per call; its inside
is `TokenStore`'s subject. `Expire` is the day without new tokens after which Redis has dropped
the user's keys. A body is a sequence of parts, of the kinds of `Kinds`: those of `Verbatim` are sent
as they are, with what is private in them. They are the `system` field, texts dense with
placeholders, blocks inside a `tool_result`'s list that are not text, thinking and unknown blocks,
and the whole of a body that is not JSON.

**`StreamDeanon`** is the deanonymiser, on characters: a token is a word of `[`, letters, `_`,
digits and `]`, and `Placeholders`, `IsTail`, `HoldFrom` and `Replaced` say what the two regular
expressions and the replacement loop do. `TextDelta(n)` delivers the next `n` characters, so
that every cut is tried. `LateToken` and `Clear` change Redis meanwhile.

**`KBSync`** is a pull as a coroutine (`Authenticated`, `ReadLabels`, `ReadConfig`, `Apply`,
`NotModified`, `RequestFails`, `AuthRaises`), run by the startup, the loop and any number of `POST
/refresh`. The gateway reads labels and configuration in separate queries, so a snapshot may be
torn; the hash of a payload is the payload itself. `Refused` is a call the gateway does not answer,
or answers with an error though it is up, the token endpoint's included. `Restart` kills the
process, possibly in the middle of writing the cache file.

**`ScanJobs`** is a scan of one source: the job's row, the background task (`List`, `Check`,
`Exists`, `NoSample`, `Classify`, `Upsert`, `SelectPattern`, `InsertPattern`, `Progress`,
`FinishDone`, `FinishFailed`, `ReadStatus`, `SetLastScan`), cancellation, the administrator's
operations, deletion of the source, restarts. A task that something cuts off (a restart, a request
that fails before the task begins, a failure of its own handler) is at `"cut"`. The confidence
threshold, the normalisation of headers and the text of regexes are abstracted: a classification is
any label, sure or not, with any regex of the instance or none.

**`HeaderLookup`** is `KBSnapshotLabelStore.lookup`: the levels a context allows (`Levels`), the
choice among the labels of a level (`MostSensitive`), and `Fuzzy`, where the likeness of two headers
is a constant operator. A snapshot is a sequence of rows, because their order decides between
labels of one level. A call's context and the snapshots its fields are looked up in are the
module's variables.

**`Replacing`** has the operators of the replacement itself, on texts as sequences of symbols:
`ReplaceInTurn`, one `str.replace` after another, the longest key first, as `formats.py` does it;
`Substitute`, every key at once, as a reference; and `Deanonymize`.

**`EventBus`** is the dashboards' events, numbered by emission. `Emit` appends to the ring and to
every queue with room; `Subscribe` registers the queue and copies the ring in one step (there is
no await under the lock); `Replay`, `GoLive` and `Live` are the yields of the generator,
`Disconnect` and `Unregister` its end, between which its queue still fills.

**`Anonymizer`** extends these three: one `POST /anonymize` against a user's store, beside the
dashboards that follow it. A text is a sequence of symbols; a document of `Docs` is a format with
the leaves its parser finds, each with its field, its text and, where that text is a document
itself, that document. The text of a leaf is the parser's, without quotes and escapes; `Literal`
writes it as `json.dumps`, `tostring`, sqlglot or a CSV writer do, with its quotes, and a quote or a
backslash in it escaped once more at every depth, and `Render` puts these together. A JSON, XML or
SQL document is taken apart, changed and written again (`ReinjectLeaf`: a literal of SQL that is
replaced becomes a string); a table or a CSV is replaced in as it is written, quotes included. What
is a value at all is `IsPair`: no number of JSON, no blank cell, no cell beyond the headers of a
table, and of an `INSERT` only literals that stand in the tuples of `VALUES`.
`_anonymize_structured` calls itself for a document inside a document: the calls under way are a
`stack` of frames with their local variables. `Request` begins the first; `Enter` is a call for a
nested document (embedded SQL from the last statement to the first, JSON and XML in a value up to
`MaxDepth`); `TokenStep` asks for one token, column by column, by label or by detection
(`Requests`), with its event; `Leave` returns to the caller, `Finish` answers, and what is answered
is `Ended`: `Reinject` of each format, and `Mapping`. A document's `cut` is where its call raises:
in another document the code falls back to treating the text as a value (`Abandon`), at the top or
in the SQL of prose it is a 503 (`Fail`). `ended` is history, the calls that came to their end. What
differs between calls is chosen with the call: which snapshot each field is looked up in (a refresh
may come between two lookups), what the classifier says of it, and what the store knows already.

**`OAuthTokens`** is a token manager and what it talks to. `GetToken`, `Recheck`, `Store`, `Denied`
are `get_token` outside the lock, under it, and its two ends; `line` is the asyncio lock with its
waiters in order. `LookUp` and `Sign` are `issue_token`, which reads the row before it signs;
`IssueSidecarToken` is the exchange the MCP server makes; `Check` is the guard of the call. `Lost`
is every failure of an HTTP call. `setup` selects the manager (the sidecar's, the MCP server's, or
an API key) and the guard: managers of different processes share nothing but the gateway, which
remembers no token, so a behaviour has one. Time is one clock of ticks; the HTTP timeouts of 5 to 15
s bound by `Delay` how long a message is under way; `query_db`'s own call to the sidecar has 60 s,
which `Delay` stands for too (an hour's token is refreshed 12 minutes before its end). A 200 without
a token in it is one of the failures: the MCP server then falls to its shared secret even if it
holds a token. `strict` says whether decoding without an audience refuses a token that has one, as
PyJWT 2 does.

**`McpServer`** extends it with `query_db` and the switch: `Call`, `QueryRefused`, `QueryInClear`,
`Query` (which takes a credential), `Reply`, `ReplyBare` (a 200 without `anonymized_text`, for which
the code answers with the rows), and `Enable`/`Disable` from any process.

`MC...` modules give the instances their values and symmetry sets; the theorems about a module `M`
are in `M_proofs`, those about `EventBus`, `HeaderLookup` and `Replacing` in
`AnonymizerParts_proofs`, those about `OAuthTokens` in `McpServer_proofs`.

## The runs

| Run | Question | Bounds, and why they are enough |
|---|---|---|
| `tokens_concurrent` | Do concurrent calls, failing calls, clears, evictions and the passing of time ever give a token to two values or rebind one? Does the store implement `Pseudonyms`? Is a key left without TTL, does everything expire in the end? | 2 tasks, 2 values, 2 labels, 3 calls, counters to 2: two calls in the same gap, a third that meets their result, and labels that do not disturb each other; a TTL of one tick, which may end between any two commands |
| `proxy_clear` | With two requests, `POST /anonymize` and `DELETE /mapping` at every await: is a value shown as another, or two ways within a reply? Is the cache truthful and bounded? | 3 values for a cache of 2, so that eviction happens under concurrent misses; 3 tokens; one clear; bodies of 1 to 3 texts |
| `proxy_faults` | With failing detector, Redis and upstream, the mask, expiry, and every kind of part: is a body sent before all of it has been gone through, or without a token in a part that should have one, is every request answered, every connection released? | 2 requests, each with a text beside one part of another kind, or a body that is not JSON |
| `stream_cuts` | Under every cut of the stream, is what the user has seen plus the buffer the text with each token replaced? Is anything withheld at the end, or sent to a wrong block? | 8 replies: tokens side by side, one the prefix of another, one created meanwhile, brackets that open nothing, a value that looks like the beginning of a token, several blocks, tails at the end of a block; an alphabet with two capitals, two digits and three other characters, one per class the regular expressions tell apart and one to differ from it; deltas of up to 3 characters cut a token of 5 anywhere |
| `kb_concurrent` | With the startup's pull, the loop and a `/refresh` in any order under OAuth: is the ETag always that of the copy, is the cache file used, does a 304 confirm the very copy held, does the copy go back, does it converge? | 2 edits of each part, so that a torn snapshot differs from both its neighbours; 2 outages or error answers, 1 restart, failing disk writes |
| `scan_jobs` | With two scans and an administrator on the same row: does a cancelled scan stop, is an unsure label ever activated by a scan, is a source's last status an outcome? With a source that becomes unreachable or is deleted: is progress truthful, does every way out of a scan leave its outcome? | 2 jobs, 2 columns sharing one row, 2 regexes for one name so that they collide (also the one another scan inserts between `SELECT` and `INSERT`), one administrator's operation, restarts, failing queries, deletion of the source |
| `anonymize` | Is any value left in the answer of `POST /anonymize`, or a document in a value, whatever fails inside and whatever the knowledge base says meanwhile? Does replacing in turn equal replacing at once, does the mapping take the answer back? Does the most specific row decide? Does each dashboard get its events in order and completely? | 16 documents of every format, nested in each other, with quotes and backslashes in values and around documents, an `INSERT`, numbers, a cell without a header, one failing, one too deep (`MaxDepth` 1 for `MAX_STRUCT_DEPTH` 5: a document at, within and beyond the limit), one that is a whole failure; words inside and across words; every mixture of 3 snapshots over 2 fields, 3 contexts, 2 classifier answers, 2 stores; 2 dashboards in 2 subscriptions with a ring of 2 and a queue of 1, so that both overflow |
| `access` | Do calls that share a token, with late and lost answers, fetch one at a time, send a token too old, get in too long after a revocation, get rows in clear by a failure (other than a 200 without `anonymized_text`)? Does each call end? | 2 calls, 6 settings of manager and guard; a lifetime of 4 ticks, a refresh after 2, delays of 1, revocations up to tick 1 and a clock to 8: the longest grace, 6 ticks after it, is over within the run, and a token is replaced twice |
| `proxy_expiry`, `kb_startup`, `scan_overwrites`, `csv_documents` | violations, see [observations](#observations) | the smallest instances that show them; `csv_documents` is that of `anonymize` |

`RoundTrip`, `AtOnce`, `NestedReplaced` and `PrivateHidden` are about the answers of nested calls
too, and are stated where these are `Untangled`: no value has a bracket in it or stands in a token,
and none stands in, or shares its first or last symbol with, what takes the place of a nested
document shorter than the value. Values may lie in one another and overlap; only `AtOnce` leaves out
two that overlap by halves, where the result depends on which comes first, and a value with a nested
document in the middle of it. The instances include texts that are not `Untangled`, and what the
code does to them is an observation, not a property. Where the code itself falls short they are
stated with their exceptions: `PrivateHidden` is about what the code takes for a value (`IsPair`),
and with `NestedReplaced` about what `str.replace` can find (`Findable`: in a CSV a value with a
quote in it is looked for without its escapes); `RoundTrip` about answers that are `Undamaged`: no
value of the mapping is escaped where it stands, since `deanonymize` puts it back as it is, and no
number of SQL was replaced, since it comes back as a string. `BlobsReplaced` is `NestedReplaced`
without its exception, and is what `csv_documents` refutes.

`ReplacedOnlyWhenDue`, `OneFetch` and `ExpiredOnlyAfterFailure` are about every setting, the API key
included. `RevocationEnds` is about the sidecar's manager, the API key, and the MCP server in front
of a sidecar that checks tokens (`guard` `"jwt"`): a sidecar that checks a shared secret, or nothing,
lets its callers in whatever the gateway revokes.

Deadlock is checked in `access`, where calls never run out. It is not in the others: the bounded
calls and edits run out and the system rests. Symmetry is used only in runs without a liveness
property.

## Fairness

* `TokenStore`: time passes (`Tick`) and Redis answers each command of a call (`Step`). `Fail`,
  `Clear`, `Evict` have none.
* `ProxySession`: each `Step` of a request. The httpx client has a timeout of 120 s, Redis
  and the detector answer or raise, and a reply ends.
* `KBSync`: the gateway comes back (`GoUp`), startup goes on, the loop wakes up
  (`while True: sleep`), and a pull is answered or fails. `TokenExpires`, edits, outages have none.
* `McpServer`: a call that has begun goes on (`Progress`): every `POST` has a timeout, and asyncio
  serves the waiters of a lock in order. New calls, revocations, the switch and the clock have none.
* `ScanJobs` and `Anonymizer`: none, nothing of them is stated under fairness. That a scan ends is
  left to its loop, which takes a column off `todo` in each round; `ScansEnd` says with what.

## Proofs

A theorem holds for every value of the constants: any number of tasks, requests, pulls or
scans, any values, columns and limits, any choice of faults. The assumptions are the named ones
of each module (`ConstAssumption`, `ScanAssumption`, ...), which TLC evaluates on every run.
Each safety proof follows one scheme: an inductive invariant `IInv`, true initially (`Init`),
kept by every step (one proof step per action, and under it one per conjunct the action can
disturb), and implying the property.

**`TokenStore_proofs`**: `TypeCorrect`, `TokensUnique` (`NoTokenReuse`), `TokensNotRebound`
(`NoRebinding`, an action property), `Refinement` (`Implements`, the refinement of `Pseudonyms`)
and `NothingKeptForEver` (`AlwaysEphemeral`). `NoTokenReuse` is not inductive: a state in which a
call carries a number nobody handed out, or in which a counter is behind the numbers in use,
satisfies it and leads out of it. `IInv` adds that a call that has its number works on an
allocated pair (`PendingAllocated`), that a counter is never below an allocated number unless it
was lost (`AllocBelowCounter`), and that only allocated pairs are resolvable
(`MappingAllocated`). `Incr` is the one action that allocates: its number is above the counter,
hence above every allocated number of the label, hence new. `NoRebinding` follows since
`HSetMapping` is the only action that adds to the mapping and publishes an allocated pair; the
refinement maps `Incr` to `Allocate`, `HSetMapping` to `Publish`, `Clear`, `Tick` and `Evict` to
`Lose`, the rest to stuttering. `AlwaysEphemeral` speaks of the moments between calls; `LifeDue`
says of the others that a key without a time to live is one whose `EXPIRE` a call has still to
issue.

**`ProxySession_proofs`**: `ProxyTypeCorrect`, `NothingSentHalfAnonymised` (`NothingHalfAnonymised`,
which does not say that all of a body has tokens: the kinds of `Verbatim` have none),
`CacheStaysBounded`, `StreamsConsistent`, `NoConnectionLeft`, and, where `"expire"` is not among the
events, `NobodyMisattributed` (`NoMisattribution`) and `CacheIsTruthful` (`HashCacheTruthful`). The
last two relate a request's body to what its user sees, through Redis, the hash cache and other
requests, and no one of these can be described alone. The invariant collects them: `Claims(k, v)`
says that somewhere (Redis, the cache, a request between the two halves of `_anon_text`, a rewritten
body, a deanonymiser, a screen) token `k` stands for `v`; `OneMeaning` says that all agree,
`BelowCount` that no claim is ahead of the counter. A step either copies a claim from one place to
another, drops some, or draws the next number, of which by `BelowCount` nothing claims anything
(`OldClaims`, `FreshClaim`). Emptying Redis with `DELETE /mapping` keeps the counter, which is why
the claims that survive it are harmless; `Expire` resets the counter, which is where the run
`proxy_expiry` finds its violation, and the hypothesis on `Events` says just that. `Orderly` ties a
request's place in the code to what it has written; that a step of one request leaves the others'
parts alone is proved once (`OthersSame`). `CacheStaysBounded` needs `2 <= MaxCache`, the least
limit for which dropping half of the cache drops something.

**`KBSync_proofs`**: `KBTypeCorrect`, `VersionTruthful` (`VersionIsSnapshots`),
`NotModifiedTruthful` (`NotModifiedIsCurrent`), `DiskIsUsed` (`BootUsesDisk`) and `CopyGoesForward`
(`NoRegress`, an action property). With the type invariant `VersionIsSnapshots` is inductive:
`Apply` and the reading of the cache file are the only actions that change the copy, and they
replace labels, configuration and version together. `Confirmed` adds that a 304 is only on its way
to a pull whose ETag is what the gateway read; with `VersionIsSnapshots` that makes the copy the
one read. `Forward` orders what is in flight: a pull's ETag is of an earlier state than what it has
read, and that of an earlier state than the tables, part by part, for the two parts are read
apart. A pull that finds its ETag still in place therefore only goes forward.

**`StreamDeanon_proofs`**: `TextInOrder` (`SyntheticOnLastText`), `StreamTypeCorrect` (`TypeOK`),
`CutsDoNotShow` (`CutsInvisible`) and `NothingIsWithheld` (`NothingWithheld`), for every reply,
every way to cut it and every mapping. The first rests on `LastIsOpen`, which relates the block the
upstream sends, `_last_text_index` and the events sent; the texts play no part in it. The others
rest on `TextInv`. Its centre is `Split`: what is shown followed by what is held is the text
received with its tokens replaced, what is held is empty or looks like the beginning of a token,
and if the text received ends with such a tail it is just that tail. The last part is what makes it
inductive: without it a delta could complete a token of which the first half has been shown. Beside
it, every placeholder of the text received is known or was asked for (`Placeholders(Received)`), so
that a token that becomes known later changes nothing already shown; `Lookups` and `Texts` type the
mappings and the events. The argument about texts: replacing may be done in two parts at any place
no token lies across (`ReplacedSplit`); no token lies across the place where a held tail begins
(`HeldNoCross`); replacing leaves a tail (`TailStays`) and makes no beginning of a token
(`NoNewTail`); hence what a delta does to the rest is what replacing in the whole text would do
(`FeedTail` where the text ended with a tail, `FeedMade` where it did not). Induction over a text's
length is done with sets of numbers and their least element (`Minimum`, `Induction`), which need no
operator parameter.

The assumptions are what the code's regular expressions and mappings give. `AlphabetAssumption`:
the classes of characters are apart. `MappingAssumption`: values have no bracket in them, and the
tokens of the snapshot are of the form `[LABEL_n]`. `ApartAssumption`: where a token stands right
behind an unfinished one, as in `[[P_1]`, its value does not make that one the beginning of a token
of the same user, as the value `Q` would if there is a `[Q_2]`. `[[PERSON_1]](url)` with a value
`Anna` is within it. Both are needed, see [observations](#observations).

**`ScanJobs_proofs`**: `ScanTypeCorrect`, `CancellationStops` (`CancelStops`),
`ScansNeverActivateUnsure` (`OnlyAdminActivates`), `ProgressIsTruthful` (`ProgressTruthful`),
`LastScanEnded` (`LastScanIsAnOutcome`) and `ScansLeaveOutcomes` (`ScansEnd`). `CancelStops` counts
writes after a cancellation; it is inductive with `LateOnce`, which says where a task is after its
one late write and that its row still says cancelled when it comes to the next `Check`.
`ProgressTruthful` needs `Counted`: what a task has scanned and what it has still to do add up to
the source's columns, and the row is never ahead of the task. `LastScanIsAnOutcome` rests on
`ScansEnd`, that the row says how the scan ended when `_bg` reads it, and on `OutcomeSeen`, that
what it has read is an outcome. `NotStarted` and `AtColumn` give the domain of these facts.

**`McpServer_proofs`** first has the theorems about `OAuthTokens`: `TokenTypeCorrect`,
`OneFetchAtATime` (`OneFetch`), `NeverExpiredWithoutFailure` (`ExpiredOnlyAfterFailure`),
`RevocationBounded` (`RevocationEnds`) and `TokenReplacedWhenDue` (`ReplacedOnlyWhenDue`, an action
property). `IInv` is in the module, and TLC has checked it: `Lined` ties a call's place in
`get_token` to its place in the line and says that the one that fetches has found no fresh token
(hence one fetch, and no replacement of a fresh token); `TokenTimely` and `Timely` bound the age of
every credential held, carried or being exchanged (hence none is sent too old unless the refresh
failed); `Lapses` says how long after a revocation an answer signed before it can still be under
way, step by step of the exchange, and that what it brings expires within the grace. `CallMoves`
reduces the step of one call to what it does to that call and to the line. The assumption `Refresh
+ 2 * Delay <= Ttl` is the margin the ratio of 0.8 leaves: 12 minutes of an hour against timeouts
of 15 s, and of 60 s for the call itself.

Then `McpTypeCorrect` (`TypeOK`), `FailureShowsNothing` (`NoClearByFailure`: the switch was off, or
the answer was a 200 without the field), `UsesTokens` (the MCP server's specification implements
`TokenSpec`), and with it `CallsKeepTheRules`, the four properties of `OAuthTokens` under
`McpServer`'s specification, which is the one TLC runs.

**`AnonymizerParts_proofs`** is about the three modules `Anonymizer` extends, for every text,
mapping, snapshot and number of subscribers. `ClosestDecide` is `MostSpecificWins` for any snapshot:
the levels `lookup` tries are those of a row's closeness to the context, so the first level with a
row is that of the closest rows (`Decides`).

`NoKeyIsLeft` says that no value is left of a text whose values are replaced one after another,
however they lie in the text and in one another, if it is clear of what replaces the values not
longer than itself: replacing a key leaves none of it (what replaces it has neither its first nor
its last symbol, so nothing new can form across an edge), and replacing another later brings none
back (`AllTurns`). `InTurnIsAtOnce` says that this is replacing all values at once (`SameAtOnce`),
unless two overlap by halves: the longest key is replaced where it stands, no shorter one then
stands inside it, and what is left between is treated alike (`TextCases`, `SubstituteSkip`,
`SubstituteKey`, `ByLength`).

For the way back, `Reads` says that a text reads as another with a book of tokens: it is made of
symbols other than the opening bracket, which stand for themselves, and of tokens of the book, which
stand for their values. Texts that read put together read put together, and replacing a value by
something that reads as it (`Fits`) leaves what the text reads as (`ReadsInTurn`). `TakenBack` says
that a text that reads as another is taken back to it by `Deanonymize`, if no token of the book has
two values: every token is bracketed, so it is found just where it was put.

Of the bus there are `BusTypeCorrect`, `DeliveredInOrder` (`InOrder`) and `NothingFallsBetween`
(`NoSilentGap`). Both are about what a subscriber has seen, is replaying and has queued, next to
the ring it copied; the invariant says of each subscriber that these are increasing, that the
replay is a run of consecutive events up to the moment of the subscription, and that the queue has
every later one but those dropped. An event changes all subscribers at once (`EmitKeeps`); any other
step changes one (`OneChanges`), and there is a lemma for each place in the generator.

**`Anonymizer_proofs`**: `AnonTypeCorrect` (`TypeOK`), `NothingPrivateLeft` (`PrivateHidden`),
`RewrittenAtOnce` (`AtOnce`), `AnswerTakenBack` (`RoundTrip`), `LabelMostSpecific`
(`MostSpecificWins`), and `BusImplemented`, that a call and its dashboards implement `BusSpec`, with
it `CallEventsInOrder` and `CallEventsWhole`; all under `Anonymizer`'s specification, for all
documents, however deep, all quotes and escapes in them, all detectors, snapshots, stores and
failures. The properties alone are not inductive: they look at the texts of answers, and a text is
made of the texts of other answers and of tokens of a store that grows meanwhile. `AnonInv` says of
every answer `e`, in terms of the store and of the set of all answers, that each nested document
stands for an answer of the set (`Built`), that what replaces a value is the store's token for it
and what replaces a nested document is its answer's text (`ReplacedOK`), that the mapping has just
these tokens and those of the nested answers (`MappingOK`), that a text without a token was not
changed (`TextOK`), that the text reads as the document if everything is untangled and undamaged
(`ReadsOK`), and that everything asked for is a key (`Asked`). Of the calls under way it says that
each is built from answers, knows only values the store knows, and stands in its caller at a place
of a nested document (`StackOK`); of the store, that numbers run from 1 and no two values share a
token (`Numbered`). All of it stays true when the store grows and answers come (`AnsweredMore`,
`FrameMore`); only the end of a call adds an answer (`Ending`), and only `TokenStep` changes the
store (`AskingKeeps`, `RequestType`).

From it, `PrivateHidden`: a private value of a leaf was found where the column or the text was
searched (`PrivateAsked`), so it is a key, and `NoKeyIsLeft` applies to every text that is
rewritten; a SQL literal that is a key as a whole is replaced by a token, in which no key is. That
what the code does not take for a value, or looks for in another spelling, may be left is a
hypothesis of the property, not of the proof. `RoundTrip`: the leaves of an answer read as those of
its document (`KeyReads`, `ReadsInTurn`), so do they as they are written (`EscapeReads`,
`LiteralReads`: escaping takes a text symbol by symbol, and leaves a token and an undamaged value
alone), so does the whole (`WithTextsReads`), from the nested answers outwards (`TextReads`), and
`TakenBack` applies with the mapping, whose tokens are told apart by `Numbered` and
`TokenInjective`. `AtOnce` is `InTurnIsAtOnce` for the values of the call itself.

`AnonymizerAssumption` says what the instances are made of: a leaf's text is that of the document in
it, the words of detectors are not blank, labels are symbols other than brackets and need no escape,
a number of SQL is not a JSON or XML text, likeness is a number to 100, and what the store knows
when the call arrives is numbered without a value sharing a token, which `TokensUnique` shows of the
store itself as long as a counter is not lost. `Untangled`, `Undamaged` and `Findable` are
hypotheses of the properties, which TLC checks with them, and not of the theorems.

Only model-checked: all liveness (`Forgotten`, `Answered`, `Converges`, `CallsEnd`), since fairness
and ENABLED are out of this prover's reach, and `NestedReplaced`. The type invariants of
`TokenStore`, `ProxySession`, `KBSync`, `ScanJobs` and `Anonymizer` are proved and not run again.

## Observations

Four disagreements between the code and what it says of itself are shown by runs:

* `proxy_expiry`: the hash cache is not told when Redis expires the mapping and its counters.
  A new value then receives an old number, and a cached text that still carries it is shown
  with the other value. `proxy_anonymizer.py:27-28` promises a stable token for the session.
* `kb_startup`: `pull` fetches its OAuth token outside the `try`, from the gateway; an outage
  at startup raises out of the lifespan before the disk cache is read, which `kb_client.py:11-12`
  says is there for exactly that case.
* `scan_overwrites`: `exists_active` is read before the sample and the classification,
  `upsert_ctx` writes whatever the row has become; a label approved meanwhile returns to pending.
  `ROADMAP.md:89` says active columns are skipped.
* `csv_documents`: a cell of a CSV is read by `csv.DictReader`, without its quotes and with `""` made
  one, but is replaced in the CSV as it is written (`formats.py:82-89`, `128-132`). A JSON or XML
  text with a quote in it, as `_rows_to_csv` of the MCP server writes it, is anonymised on its own,
  its values receive tokens, and in the answer it stands unchanged and in clear.
  `anonymizer.py:162-163` says the whole of it is replaced.

Others the models contain as behaviour (none is excluded by a guard) without a run of their own:

* two concurrent calls for one value both miss and give it two tokens (`cache.py:15`); a clear
  between the two `HSET`s leaves a token that is handed out and cannot be resolved (`cache.py:22`);
  a call that fails before `EXPIRE` leaves a hash without TTL (`cache.py:23`), which is why
  `Forgotten` and `AlwaysEphemeral` except it;
* `DELETE /mapping` between a request's tokenisation and its insertion puts a dead token back
  into the emptied hash cache (`proxy_anonymizer.py:294`);
* the `system` field of a body is forwarded in clear (`proxy_anonymizer.py:148-154`). That is a
  decision (`docs/SECURITY.md:113-125`, `test_system_prompt_is_skipped`), against the comment of
  `proxy.py:64-67`, which names `system` among what is anonymised. A text of which placeholders make up
  30 % or more is forwarded as it is (64-76), so is a binary block inside a `tool_result`'s list
  (204), and the whole of a body that is not JSON (139-143). So `NothingHalfAnonymised` does not say
  that nothing is sent in clear;
* text held at the end of a block goes out after its `content_block_stop`
  (`proxy_deanonymizer.py:233`), and tokens in a tool call's arguments are not resolved (224);
* a job whose process restarts, or whose own error handler fails, says running for ever
  (`gateway/main.py:45`), a cancelled job may turn to done (`scanner.py:56`), and a second regex
  for a column violates the unique name and fails the whole scan (`scanner.py:48`);
* a value right behind an unfinished token may complete it: with the value `P` for `[P_1]` and a
  token `[P_2]`, the text `[[P_1]_2]` may become `[P_2]` and that its value, depending on the order
  of the replacements and on the cuts (`proxy_deanonymizer.py:117`; `ApartAssumption` leaves it
  out). A token whose label is not of capitals and underscores, which the gateway does not check
  (`admin_router.py:53`), is not held back when it is cut (`proxy_deanonymizer.py:39-47`;
  `MappingAssumption` leaves it out);
* in `Anonymizer`: keys of JSON, tags of XML and names of columns are not searched, and JSON numbers
  never replaced (`formats.py:115`); a SQL literal of which only a part is detected is not
  replaced, although the token is made and the event sent (`sql_anon.py:73`); of an `INSERT` a literal
  that does not stand directly in `VALUES` (in a function, a cast, a `SELECT`, `ON CONFLICT`) is not
  extracted, without the net other statements have for strings (`sql_anon.py:12-22`, `40-46`), nor
  is a cell of a table beyond its headers, and an empty one moves those behind it to other columns
  (`formats.py:66`, `77`); a CSV value with a quote in it has a token and stays
  (`formats.py:82-89`, `130`); prose that starts
  with `[` or `{` is taken for JSON and answered 503 (`formats.py:47`); a value that is a piece of a
  token's text breaks the token, and of two detections that overlap by halves a piece stays; a
  column labelled `NONE` is tokenised all the same, since any label counts (`anonymizer.py:200`);
* the fuzzy match ignores the context: a resembling header of another database decides
  (`kb_label_store.py:76`);
* in `OAuthTokens`: after a failed refresh each waiting call tries again in turn; nothing drops a
  token that was answered 401; a deactivated client keeps its access until its token expires, and
  the exchange for a sidecar token does not look at the row (`oauth_router.py:82`);
* with PyJWT 2.10.1 (`gateway/requirements.txt:10`, `sidecar/requirements.txt:12`) `jwt.decode`
  without an audience refuses a token that has one, so that `/oauth/sidecar_token` always answers 401
  and a sidecar with OAuth enabled refuses every call (`sidecar/main.py:154`); the setting `strict`
  is that behaviour, and the runs have both;
* on the way back: a number of SQL that was replaced comes back as a string, `id = 5` as `id = '5'`
  (`sql_anon.py:74-76`), and a value with a quote, a backslash or an ampersand is put back without its
  escape, so that what comes back need not be valid JSON, XML or SQL (`anonymizer.py:279-283`);
* `query_db` answers a 200 whose body lacks `anonymized_text` with the rows themselves, as
  `anonymized_csv` and with `anonymization_enabled` true (`mcp_server/server.py:268`, `ReplyBare`),
  though its docstring says the results are already anonymised (211-212). The sidecar of this
  repository always sends that field.

Read in the code, outside the models: `create_pattern` reads the configuration and writes it back
whole, and undoes an edit made in between (`admin_router.py:118-126`); the detector's configuration
is built once, so that patterns and toggles of later snapshots have no effect until a restart
(`sidecar/main.py:101`); the "best-effort" update of `last_used_at` may fail the token request
(`oauth_router.py:170`); the scopes of a token are not looked at when it is checked (`auth.py:43`);
`GET /api/kb/snapshot` asks for no authentication.

## Not modelled

Detection itself (a neural model and regular expressions: what they find is an input of
`Anonymizer`), what a parser makes of markup, the parsing of the classifier's answers, value
metadata and the regex guard (pure checks on strings), connections to particular databases, the
arithmetic of bcrypt and RSA, rate limits, what is stored of audit events, logging, HTTP headers,
byte framing of SSE, the web pages, training and demonstration scripts. `ColumnLabelStore` of the
sidecar is constructed nowhere, and the gateway's lookup cache runs only with a Redis this gateway
is built without (`gateway/main.py:48`). The edits of the gateway's configuration are plain
database calls, reduced to "an edit" where another component reads the result. `PROJECT.json` gives
the reason for each.

A client that disconnects before the reply's generator has started is not modelled: whether
its `finally` runs depends on Starlette.

## Plan

All components that keep state of their own and meet others are modelled, and every safety property
a passing run checks but `NestedReplaced` is a theorem. What could follow: a theorem for
`NestedReplaced`; an abstract replica that `KBSync` implements; a theorem that the store as
`ProxySession` and `Anonymizer` see it, one step per call, is what `Pseudonyms` promises; the edits
of the gateway's configuration, once the code says which of two concurrent ones should win.
