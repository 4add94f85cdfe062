# A verification project for gen3-ai

This directory holds TLA+ modules for the core of gen3-ai, the TLC
configurations that check them on small instances, and proofs checked by TLAPS.
Everything is translated from the source; where a module states what a comment
or a document says instead, it names the line, and sections 5 and 6 say where the
code does not agree.

    tlc -config bulk.cfg MCVectorStore      # one run; see "Runs"
    tlapm VectorStoreProofs.tla             # the proofs about VectorStore

## 1. Inventory

gen3-ai is a Python monorepo: three FastAPI services, a library they share, and
the database schema and scripts of one of them.

| Part | State | Operations | Hard behaviour | Correct when |
|---|---|---|---|---|
| `gen3_embeddings` routes (`routes/`, `dependencies.py`) | per request: the resolved `AuthzContext`, the `Collection` looked up | create/update/delete a collection; bulk POST, bulk PUT, PUT, GET, DELETE of embeddings | a handler is several awaits: policy engine, lookup transaction, second check, write transaction; other requests run in between | every write was asked for and granted; a stale `Collection` does no harm |
| data access layer (`database/dal/`) | none of its own; one transaction per method | the same as SQL under row-level security | Python-side pairing of items and RETURNING rows; UPDATE then INSERT in one transaction; one failing row of a batch | all or nothing; answers aligned with items; content deduplicated |
| Postgres schema (`db/schema.sql`) | `collections`, `embeddings_vector`, `embeddings_halfvec`, the identity sequence | unique indexes, foreign keys with cascade, row-level security | the cascade and the indexes are not scoped by the caller's grants | no orphan, no misfiled row, no twin |
| hashing (`database/hashing.py`) | none | round to storage precision, then sha256 | vectors that differ only below float16; overflow | equal stored content, equal hash |
| hash rollout (`db/backfill_sha256_content_hashes.py`, migration `20260826120000`) | the script's cursor, batch and report; two generations of hash columns | batches, row-by-row retry, re-run | old and new pods write beside a script that reads in one transaction and writes in another; the script may be stopped | everything is hashed or reported; hashes describe content |
| read paths (`dal/reads.py`, `routes/embeddings_bulk.py`, `params.py`) | none | pages, ordered bulk reads | two or three transactions per read, and one per page | what is shown was there, what was there is shown, at its position |
| search (`dal/search.py`, `database/helpers.py`, `routes/search.py`, `index_discovery.py`) | the HNSW indexes discovered at startup, process-wide | nearest neighbours in one or all collections | candidate pools, rescoring, thresholds, indexes that come and go | the form asked for is one an index serves; the arms merge into the k nearest; pools are not cut short |
| sessions (`dal/base.py`, `database/db.py`) | settings of a pooled connection, the pool's queue | acquire, set grants, run, reset, release | a setting that outlives its transaction, a connection that breaks, waiting for the pool | a statement sees its caller's rows; a denial is the caller's own; every request ends |
| request limits (`limits.py`) | the bytes held of a body; the frontier of a walk over metadata | count, refuse, replay; measure depth | streamed bodies, a `Content-Length` too large or invalid, a client that leaves | never more than the limit; what the application takes for the body is the body; the depth is exact |
| startup (`main.py`) | the pool, the phase of the lifespan | check role, tables and policy engine; serve; close | each way out of the checks; the order of checks against the first request | no request before the checks passed, no connection after the end |
| `common.auth` | per-request cache of the mapping, bypass flags | `authorize_request`, `get_user_authz_mapping` | several questions to a policy engine that changes and fails in between | what is touched was granted, what is refused was lacking |
| `gen3_inference` | the event loop; per request the upstream's stream and the events sent | find a model's host, call it, convert its reply or its stream | a blocking client inside the loop; an upstream that fails midway; hosts that do not answer | a stream that says it is done is whole; only trusted hosts are called; every request ends |
| `gen3_ai_model_repo` | none | a stub | - | - |

How they interact: a route asks `AuthzDependency` for an `AuthzContext` (calls
to the policy engine through `common.auth`), looks its collection up through the
DAL and writes through it again; the DAL opens one transaction per method,
installs the caller's grants as Postgres settings, and leaves filtering to the
policies. The backfill shares the tables with the pods and nothing else. The
inference service asks AI model repositories for a model and calls the model's
server; it shares only the library with the embeddings service.

`PROJECT.json` lists the components with their status, and under `hazards` every
place where this code can go wrong in a way a test hardly reaches, with the
properties that watch it, or why none does.

## 2. Plan

Order: what decides the integrity of stored data first, then what decides what
a reader sees, then the processes around it. All of it is done.

1. `VectorStore` - handlers, row-level security, collections and embeddings.
2. `HashRollout` - both releases and the backfill.
3. `VectorStoreProofs`, `HashRolloutProofs`.
4. `UpsertTxn` - statements and row locks inside a bulk write, and `AtomicPut`,
   the abstract specification it is proved to implement (`UpsertTxnProofs`).
5. `ReadPaths` - reads of several transactions beside the writers (`ReadPathsProofs`).
6. `VectorSearch` - discovery of indexes, pools, rescoring, merging.
7. `Sessions` - startup, pool, settings. Both are what a transaction of `_with_rls`
   runs under, and `SessionsAndSearchProofs` is about both.
8. `AuthzRequest` - the questions of one request (`AuthzRequestProofs`).
9. `RequestLimit` (`RequestLimitProofs`), `Inference` with `Conversions` (`InferenceProofs`).

What could follow: tool calls within a stream.

How the modules compose. `UpsertTxn` takes apart the step `UpsertEmbeddingsBulk`
of `VectorStore` and justifies that it is one step there. `AuthzRequest` takes
apart the steps `Authz` and `Require` of `VectorStore`, which assumes of the policy
engine what `AuthzRequest` shows: two independent answers. `Sessions` justifies
that a DAL method of `VectorStore` and a fetch of `ReadPaths` are transactions
under their own caller's grants. `ReadPaths` has the two transactions of a search
across collections and leaves the ranking to `VectorSearch`. `Inference` extends
`Conversions`.

## 3. Modules

### VectorStore

One Postgres database and the handlers of several clients.

| TLA+ | Code |
|---|---|
| `collections`, `nextId` | table `collections` and its identity sequence |
| `rows`, `nextUuid` | `embeddings_vector` and `embeddings_halfvec` (field `table`); ids are never reused |
| `req`, `phase` | the request in flight, and how far its handler has come |
| `grants` | `AuthzContext.allowed_authz` |
| `asked` | what the policy engine was asked and granted during this request (observed by a property, read by no action) |
| `held` | the `Collection` object the handler keeps from its lookup |
| `reply` | status and embeddings of the answer |

| Action | Code |
|---|---|
| `Authz` | `AuthzDependency.__call__` |
| `GetCollectionByName` | the lookup at the top of every embedding route |
| `Require` | `AuthzContext.require` for an authz path taken from the body |
| `CreateCollection`, `UpdateCollection`, `DeleteCollection` | the methods of `WriteMixin` with their routes |
| `CreateEmbeddingsBulk` | POST: `create_embeddings_in_collection` and `create_embeddings_bulk` |
| `UpsertEmbeddingsBulk` | bulk PUT: `put_embeddings_in_collection` and `upsert_embeddings_bulk` |
| `UpdateEmbedding`, `DeleteEmbedding`, `GetEmbedding` | the routes for one embedding |
| `QueryFails` | a transaction that fails for a reason of its own |

Abstractions:

- A DAL method is one transaction and one step. Inside a bulk PUT the UPDATE by
  id precedes the INSERT by content, as in the code, and the UPDATE checks the
  unique index row by row in any order of visits. Lock waits and deadlocks
  between two such transactions are in `UpsertTxn`.
- Content hashes are taken over what the column stores, so they are represented
  by the stored value: `Stored[type][v]` rounds, is idempotent, keeps the number
  of components and is `NoValue` where float16 overflows. Metadata is its canonical
  JSON text, the one its hash is taken over: two texts that `jsonb` renders alike
  (1e+16 and 10000000000000000) are two contents to the code and to `NoTwins`.
- An answer is put together as the code does: RETURNING gives a set of rows; those
  of the UPDATE go by ordinality (`UpdateReturned`), those of the INSERT by hash pair
  and through `original_to_unique` (`BulkWriteResults`), and `Written` merges both by
  position.
- `auth_mapping` (grants) and `auth_request` (yes or no) answer independently:
  the policy may change between the two calls.
- `grants` and `held` are cleared when a handler answers: they are its locals.
- Left out: validation wording, an empty authz string (refused with a 400 before
  anything is read), text chunks beyond the fact that they are refused
  (`RawText`), and the listing and search routes (`ReadPaths`, `VectorSearch`).
- Embedding ids are unique: `gen_random_uuid` does not repeat itself.

### HashRollout

The move from md5 to sha256 hashes. `rows` carries both generations of hash
columns; `release` says which pods run (`Deploy` moves from old to mixed to
new); `pc`, `tab`, `cursor`, `batch`, `collisions` are the script's. `Metas` are
canonical JSON texts and `Jsonb` is the text in which the column gives one back: a
pod hashes the caller's text, the row keeps `Jsonb` of it, and that is what the
script hashes. Of `Jsonb` only idempotence is assumed.

| Action | Code |
|---|---|
| `OldPost`, `OldUpdate` | the previous release, which is not in the repository: modelled from what the migration and the legacy columns say of it, and marked external |
| `NewPost`, `NewUpsert`, `NewUpdate` | `WriteMixin.create_embeddings_bulk`, `upsert_embeddings_bulk` (items without id), `update_embedding` |
| `Delete` | `delete_embedding` |
| `StartBackfill`, `Interrupt` | running the script again, stopping it |
| `SelectBatch` | the keyset SELECT of `backfill_table`, and the step to the next table |
| `UpdateBatch` | the UPDATE of a batch, refused as a whole on one collision |
| `RetryRow` | the row-by-row retry after a `UniqueViolationError` |

Abstractions: a pod's request is one step and carries one item, since
`VectorStore` has the steps around a write; one collection per table; neither
authorization nor sizes. The dry run writes nothing and the downgrade is not
modelled.

### UpsertTxn and AtomicPut

Bulk POSTs and PUTs of several clients on one collection under READ COMMITTED.
`table` is what is committed; `mine` holds a transaction's uncommitted row
versions, and the rows in it are locked; `pc`, `at`, `todo` say which statement
runs, on which item, and what it has left; `written` is the list of that name
in `upsert_embeddings_bulk`.

| Action | Code |
|---|---|
| `Begin` | the split of the items into those with and without an id, `_dedupe_rows` |
| `Visit`, `UpdateRow`, `IndexRow` | the UPDATE by id: the next row in whatever order the plan visits them, its lock, its entry in both unique indexes |
| `EndUpdate` | the comparison of the updated ids with the ids asked for |
| `Arbitrate`, `Place` | INSERT ... ON CONFLICT DO UPDATE: the row the v2 index has, or a new one that both indexes must admit |
| `Commit` | the pairing of rows and items, and the end of the transaction |
| `BreakDeadlock`, `Cancel` | Postgres aborts a transaction of a cycle of waits; `statement_timeout` or a lost connection |
| `OtherWrite` | `update_embedding` and `delete_embedding` of somebody else |

`AtomicPut` is the same without statements, locks and orders: `Send`, `Apply`
(all rows and the answer in one step), `Refuse` (no trace), `Replace`. Its
variables are those of `UpsertTxn` that a caller can see (`table`, `req`,
`reply`), under their own names: `Atomic == INSTANCE AtomicPut`. What locks,
visits and waits do is stuttering, `Commit` is `Apply`. Locks and indexes of
Postgres are modelled from how the statements use them and marked external.

### ReadPaths

One caller's read beside writers that commit between its transactions.
`found` and `held` are what its earlier transactions fetched, `page` and
`answer` what a walk has so far; `seen` and `always` observe what was visible at
some moment, and at every moment, since the read began (no action reads them).

| Action | Code |
|---|---|
| `FetchVector`, `FetchHalfvec`, `FetchCollections` | `get_embeddings_bulk_unknown_collections`: one table after the other, then the collections, then the order of the request |
| `Lookup`, `FetchOrdered` | `get_embeddings_bulk_from_collection` |
| `LookupNext`, `ListForSearch`, `Search` | `search_across_collections`: named collections one lookup each, or the listing with its cap, then the search |
| `FetchPage` | `list_collections` and `list_embeddings_in_collection`, a page per request |
| `CreateCollection`, `DeleteCollection`, `PutEmbedding`, `DeleteEmbedding` | the writers' commits, as in `VectorStore` |

Readers change nothing, so one stands for all. Counts of embeddings are one
aggregate and left out; ids of deleted embeddings are not drawn again. Names and
ids are numbers in the order the database sorts them; a sorted sequence is given by
what stands at each place (`Nth`), so that proofs need no recursion.

### VectorSearch

`catalog` is `pg_index` with what operators build, fail to build and drop;
`known` is what a pod discovered when it started; `rows` are the embeddings, each
with its distance under every metric and its Hamming distance to the one query
vector. Searches are operators: `ChooseIndex`, `BinaryRescoreLimit`, `Ef`,
`SearchInCollection` (`build_search_sql`) and `SearchAcrossCollections`
(`build_multi_collection_search_sql`) say what a search returns in a state. No query
orders the rows at one distance, and `LIMIT` may take any of them, so what a query
returns is a set of possible results: `Nearest` has every choice of k rows that
leaves out none before one it takes, and each arm of a search makes its own choice
(`OneOfEach`).

Abstractions: an index scan yields rows in index order, so the approximation an
HNSW graph makes is not modelled, only how many candidates a scan yields (`Reached`,
external); filters are a flag per row. The assumptions ask of `Embeddings` a finite
table and, under every metric, integer distances, equal or not.

### AuthzRequest

One request after another through `common.auth` and `AuthzDependency`, while
`grants`, the caller's at the policy engine, change. `cache` is what
`request.state` keeps, `scope` the `allowed_authz` the DAL gets, `touched` what the
queries reach; `ever` and `always` observe the grants during the request.

| Action | Code |
|---|---|
| `Mapping` | `get_user_authz_mapping`, `get_allowed_authz_from_mapping` |
| `CheckPath` | `authorize_request` for the collection in the path, with `also_require` |
| `CheckBody` | `AuthzContext.require` for the authz of the body |
| `Query`, `Respond` | the transactions of the handler, its answer |
| `EngineFails` (in each question) | an exception or an unexpected answer of Arborist |
| `Change` | a policy edited at Arborist, external |

Paths of resources are model values with their canonical spelling as a map
(`NormalOf`); reading the token out of its header is left out.

### Sessions

The service from startup to shutdown, the pool, and the transactions of
`_with_rls`. `db` are the facts startup checks (role, ownership, which tables
have row-level security enabled and forced); `conn` the pooled connections with
their session and transaction settings; `req` the handlers; `queue` those waiting.

| Action | Code |
|---|---|
| `CreatePool`, `CheckDbConnection`, `StartServing`, `StartupFails`, `Stop` | `lifespan`, `check_db_connection`, `check_rls_is_enabled`, `check_arborist_is_healthy` |
| `Acquire`, `SetConfig`, `Run`, `QueryEnds`, `EndTransaction`, `Release` | `_with_rls`, statement by statement |
| `ConnectionLost` | asyncpg drops a connection, external |
| `Migrate` | the database changes while the service is down, external |

Abstractions: facts of the database change only while the service is down, since
the code checks them only at startup; a shutdown waits for requests, as uvicorn
does; of the search settings only `statement_timeout` is kept, the one that other
requests depend on.

### RequestLimit

`RequestSizeLimitMiddleware` message by message: `wire` is what the client has
sent and the server not yet delivered, `chunks` what `_read_capped` holds, `body`
and `whole` what the application has. `Level` is one round of `metadata_depth`;
JSON values are sets of the values they contain. `DepthOf`, against which the rounds
are compared, is a constant that `DepthAssumption` pins down without recursion: a
value that contains none has depth 0, any other is one deeper than its deepest. The server holds a client to the
length it declared. The bounds on the number of metadata keys and on their
serialized size are single comparisons and left out.

### Inference and Conversions

`POST /v1/responses` of several clients on one event loop. `at` is the repository
asked, `base` and `protocol` the result of the lookup, `sent` and `upstream` what
the model's server did, `out` the events the client got, `single` and `answer` a
reply in one piece and what became of it; `text` is `overall_content`, the pieces of
text so far; `loop` says who holds the event loop.

| Action | Code |
|---|---|
| `Begin`, `Ask` | `create_response`, `get_ai_model_info`: primary first, then each trusted domain |
| `Call`, `CallReturns` | the synchronous `create()` of the OpenAI client in either protocol |
| `Opening`, `Read`, `ChunkArrives`, `UpstreamEnds`, `UpstreamFails`, `Closing` | the generators `convert_chat_completion_stream_to_sse` and `openai_streaming_response_to_openresponses`, yield by yield |
| `ClientLeaves` | the response is dropped where the generator yields |

`Conversions` has the translations of single replies as operators:
`openai_response_to_openresponses`, `chat_completion_to_openresponses_response`
and back, the `_convert_output_items` of `openresponses_to_chatcompletion`, which no
handler calls. Of a payload it keeps item types, order, ids, texts, calls and usage;
of image and file parts only that they stay, summaries of reasoning not at all. The
texts that a chat message is joined from are kept as the sequence of its pieces.
Where a conversion raises, its value is `Raised` and the request ends with a 500.

### MC modules

`MC*` give the constants their values: requests, batches, replies, shapes of
indexes. In `MCVectorStore`, `a` and `b` are one value on a halfvec column and two
on a vector column, `x` overflows, `w` has another dimension.

Operators commented "Seeded fault" state a plausible bug of the operator below
them. No action uses them; each shows that a property notices the bug when it
takes that operator's place (`mutants` in `PROJECT.json`).

## 4. Runs

| Run | Instance | Properties | Shows |
|---|---|---|---|
| `bulk` | 1 client, 1 collection id, 4 embedding ids; every bulk PUT of two items over ids {none, 1, 2} and two rounding twins, with and without its own authz path; PUTs of three items, ids and contents in turn; POSTs, also with two metadata texts; single PUTs | `TypeOK`, `NoTwins`, `AnswerMatchesRequest` | deduplication holds over every mix of writes, and each answer carries the row of each item |
| `lifecycle` | 2 clients (symmetric: no definition tells them apart), 2 collection ids under one name, 4 embedding ids, three sets of grants | `RowsFitCollection`, `GrantsBoundChanges`, `ChecksCoverChanges` | a collection deleted and recreated with another type between lookup and write does no harm; every change is within the grants and was asked for |
| `rollout` | 1 halfvec table, 3 rows, batches of 2, two runs of the script, every kind of write | `TypeOK`, `ReportComplete`, `BackfillCompletes` | the script ends, and what is still without a v2 hash is in its report |
| `rollout_quiet` | 2 tables, 3 metadata texts of which `jsonb` stores two alike, 3 rows, inserts and deletes only | `HashesDescribeContent`, `CleanReportMeansNoTwins`, `CollisionsHonest` | where nothing is updated in place, hashes stay true, a clean report restores deduplication as far as hashes can tell and the report is honest |
| `upsert` | 2 clients, 4 rows, 3 contents, 4 batches of two or three items | `TypeOK`, `WritesAreAtomic`, `WritesEnd` | a bulk write is one atomic step or leaves no trace, and none waits for ever |
| `search` | 3 collections, 5 embeddings, 4 indexes, 24 searches; top_k 1 and 3, pools of 1 to 3 | `EmittedFormIsServed`, `SearchesFill`, `MergeIsGlobalTopK`, `FarBoundOnlyCuts`, `PoolsNotTruncated` | indexes come and go without costing a hit; arms merge into the global top_k |
| `reads` | 3 names of which 2 are visible, 3 collection ids, 2 embedding ids, pages of 1, a cap of 1 collection, two writes of others per read | `AnswersAreTruthful`, `AnswersAreComplete`, `QuietWalksAreExact` | an answer shows what was there, and what was there throughout |
| `authz_request` | 4 resources, 7 grants, 14 requests, two changes of policy per request | `TouchedWasGranted`, `RefusalsAreTrue`, `HeldThroughoutIsInScope` | what is touched was granted, what is refused was lacking, whatever changes in between |
| `sessions` | 1 connection, 3 requests of up to two transactions, every database | `QueriesSeeTheirRows`, `DenialsAreTheCallers`, `SettingsEndWithTheTransaction`, `NoConnectionLeaks`, `EveryRequestEnds` | callers share a connection and nothing else, and none waits for ever |
| `limit` | a limit of 4 bytes, bodies of up to 8 in pieces of up to 3, 3 messages on the wire; metadata of up to 4 levels against a limit of 2 | `NothingAboveTheLimit`, `BodiesAreTheClients`, `DepthIsExact`, `MiddlewareEnds` | the limit holds however a body is cut and announced |
| `inference` | 2 requests, 2 chunks per stream, 2 trusted hosts; replies of up to two items or choices | `DoneIsWhole`, `FirstTrustedHostServes`, `OutputsAreTheReply`, `RoundTripKeepsText`, `EveryRequestEnds` | [DONE] means a whole answer, a request goes to a trusted host, conversions lose and move nothing |
| `stale_backfill` | 1 table, 1 row | `OnlyNullsTouched` | violated, see "Findings" |

Why the bounds are enough for what is asked. A lost or misfiled row needs one
collection, its successor of the same name and one handler that holds the first:
two collection ids and two clients. A collision within one statement needs two
items and a third row they meet; a batch is two items, or three where both halves
of the write are to be told apart by position, and four ids leave room for two rows
that exist and two that are added. In the rollout, three
rows in batches of two make two batches, a batch with one colliding and one
innocent row, and a twin outside the batch. `bulk` has one client because the
statements of one transaction are what it asks about; other clients' steps fall
between transactions and are `lifecycle`'s and `upsert`'s subject. In `upsert` two
transactions close every cycle of waits a third one could, on rows and on
contents, and a batch of three has a duplicate next to a new content. In `search`
the order of the five rows differs under each metric and under Hamming distance, so
a pool of two misses the nearest, and rows of one collection and of two are at one
distance, so there is more than one answer; binary, direct, foreign and useless indexes meet in
two collections of one table. In `reads` two writes are one between each two of
the three transactions of the longest read, and an id is asked for twice. In
`authz_request` two changes give and take back a grant. In `sessions` one
connection makes every request follow or wait for another. In `limit` the pieces add
up to the limit, to one more and to twice as much. In `inference` a second request,
whose model is where it should be, suffices to hold the loop; two chunks can be a
text and whatever ends or breaks the stream after it.

Deadlock is checked except in the rollout runs (a deployment is over once pods run
the new release, ids and re-runs are used up and no request is owed), `limit` and
`inference` (one request per client, which ends).

Fairness, stated where a liveness property needs it.

- `BackfillCompletes`: `WF_vars(Backfill)`. The script is a loop that runs until it
  returns and its UPDATEs wait for no one forever; stopping it is a step the
  property allows for. Colliding rows stay NULL and would be found again and
  again but for the cursor.
- `WritesEnd`: `SF_vars(Step(c))`. Postgres runs each statement that waits for
  nothing, queues waiters and looks for deadlocks, so a step that is possible again
  and again is taken. `statement_timeout` (`Cancel`) is not relied on.
- `EveryRequestEnds` of `Sessions`: a handler's task goes on, and a statement ends
  by its timeout; one without a timeout may run for ever. This rests on
  `DB_STATEMENT_TIMEOUT_MS` being positive, as it is by default; 0 switches
  the timeout off. Connections need not break and the pool serves its queue in order.
- `MiddlewareEnds`: the middleware reads what has arrived. The client owes nothing:
  the property is about one that has finished or left.
- `EveryRequestEnds` of `Inference`: the loop is fair to its tasks, and the timeouts
  of httpx and of the OpenAI client end every wait for another server. No client
  has to leave.

## 5. Findings

`stale_backfill` - the backfill's UPDATE (`db/backfill_sha256_content_hashes.py:150`)
picks rows by id and does not ask again whether their hash is still NULL. A PUT
that commits after the SELECT has its fresh hashes replaced by those of the
content it replaced, against "Only rows with a NULL `embedding_hash_v2` are
touched" (line 23). TLC prints the steps.

## 6. Deviations

What comments and documents say and the code, as modelled, does not do. Each is an
operator in the last section of its module; add it to the configuration named
here, as INVARIANT or PROPERTY, and TLC prints the steps. Paths are within the
package of the service.

| Property | Configuration | What is said | What happens |
|---|---|---|---|
| `ConflictMeansTwins` | `bulk.cfg`, PROPERTY | `database/errors.py:78`: "The write would leave two identical embeddings" | a bulk PUT that passes a content on from one row to another is refused as a duplicate: the index is checked as each row is written |
| `NameCheckAgreesWithPolicy` | `lifecycle.cfg` with `SkipAuth = TRUE`, PROPERTY | `database/dal/base.py:40`: "The two cannot disagree" | under `DEBUG_SKIP_AUTH` the Python check on collection names refuses what the database lets through |
| `BackfilledRowIsSeen` | `rollout_quiet.cfg`, PROPERTY | `backfill_sha256_content_hashes.py:75`: "a backfilled row and a fresh write of identical content agree, which is the whole point: the unique index has to see them as one" | the script hashes `json.loads` of the text `jsonb` returns (line 91), a write the canonical text of what the caller sent (`hashing.py:206`). `jsonb` keeps numbers as `numeric`, so 1e+16 comes back as 10000000000000000 and -0.0 as 0.0: the hashes differ, and a POST of a backfilled row's own content is let in beside it. Hence the condition on the text in `CleanReportMeansNoTwins` |
| `CompletedMeansIndexed` | `rollout.cfg` | `backfill_sha256_content_hashes.py:17`: "Until it completes, rows written before that deploy have NULL v2 hashes" | a PUT that supplies a vector and no metadata leaves `metadata_hash_v2` NULL; the script, which looks at `embedding_hash_v2`, never visits the row and reports success |
| `OldPodsOnlyMissDuplicates` | `rollout.cfg` with `Rounded <- VectorTable`, PROPERTY | `20260826120000_sha256_content_hashes.sql:81`: "no correctness loss beyond dedup misses" | a pod of the previous release updates a row of the new one; the stale v2 hash refuses a POST of content no row holds |
| `LegacyConflictHandled` | `rollout.cfg` with `Rounded <- VectorTable` | `database/dal/writes.py:420`: "anything that would collide there collides here too and is handled" | after such an update, or the finding above, an upsert of a row's own content misses the v2 index and ends in a 500 |
| `LegacyCollisionsHandled` | `upsert.cfg` | the same | two bulk PUTs that insert the same new content at once: the later one meets the other's row in the legacy constraint and ends in a 500 |
| `BatchingKeepsResults` | `search.cfg` with `IterativeScan = FALSE` | `routes/search.py:137`: batches give "exactly what a single search over all of them would" | the pool of one binary arm widens the scans of all arms of its transaction. With iterative scans the property holds |
| `OneIsAcrossOne` | `search.cfg` | `database/helpers.py:293`: "Same two-stage shape as the single-collection binary path" | the arm cuts to top_k before the thresholds, the single search after them |
| `WalksShowEvery` | `reads.cfg` | `routes/collections.py:35`: "Returns every vector collection you have access to, one page at a time" | a collection deleted between two pages moves the next one to a page already read |
| `AskedOnce` | `authz_request.cfg` | `common/auth.py:15`: "at most one policy-engine round trip per distinct question" | a PUT of one row that repeats its collection's authz asks the engine twice |
| `TokenIsChecked` | `authz_request.cfg` with `SkipAuth = TRUE` | `common/config.py:60`: "if a token is provided, then auth will still occur" | no token reaches the check, so a bad one is served |
| `AnyoneIsServed` | `authz_request.cfg` with `Anonymous = TRUE` | `common/config.py:64`: "allowing for anyone to use the AI functionality" | the mapping every route asks for first ignores the flag: a request without a token gets a 401 |
| `MandatedEventsSent` | `inference.cfg` | `openai_chat_to_openresponses.py:144`: "Open Responses mandates these events" | a delta without content raises after its event is sent; the closing events never come |
| `UsageIsIncluded` | `inference.cfg` | `openai_chat_to_openresponses.py:153`: "Whether to include usage information in the final chunk" | `finish_reason` is looked up in the chunk, which keeps it in its choices |
| `ErrorsHaveTheFormat` | `inference.cfg` | `main.py:98`: errors in the "format described by the Open Responses specification" | the 503 for an upstream that cannot be reached is a bare string |
| `AnyTrustedDomainIsAsked` | `inference.cfg` | `routes/responses.py:213`: "available at any of the configured trusted domains" | a trusted host that cannot be reached ends the lookup before the later ones |
| `CallsKeepTheirIds` | `inference.cfg` | `README.md:3`: "API is compliant with Open Responses" | every function call gets the `call_id` `","` |
| `UnknownUsageIsMinusOne` | `inference.cfg` | `openai_chat_to_openresponses.py:344`: "-1 to indicate unknown" | details of the prompt without those of the completion raise; those of the completion alone become -1 |
| `CallsAreCollapsed` | `inference.cfg` | `openresponses_to_chatcompletion.py:30`: calls "are collapsed into a single tool_calls array" | each overwrites the one before |

## 7. Proofs

All theorems are of the modules' `Spec`, for every value of the constants that
satisfies the named assumptions of the module.

`VectorStoreProofs` (any number of clients and names, bulk requests of any length,
any rounding that is idempotent and keeps the number of components):

- `TypeCorrect` (`[]TypeOK`). `TypeOK` alone is not inductive: a write uses
  `held`, which `TypeOK` allows to be empty. `TypeInv` adds that a handler past
  its lookup holds a `Collection`, and that one waiting for the second check has
  an authz path to check.
- `EmbeddingsFit` (`[]RowsFitCollection`). `FitInv` adds `IdsOnce` (a collection
  id names one collection and is below the sequence) and `HeldIsCurrent`: a
  collection that exists under the id of a held one has its shape. That is why
  a stale `Collection` is harmless: ids are not reused, `PATCH` changes no shape,
  and a row is only added if the foreign key finds the id, or takes the place of
  a row that belongs to it.
- `Deduplicated` (`[]NoTwins`). `TwinInv` adds `UuidsOnce`. For the UPDATE of a
  bulk PUT, a row keeps its key until its turn; of two rows left with one key,
  the later in the order of the turns would have collided (`UpdatedOnce`). For
  the INSERT, the first item of each content is kept, and none that the table
  has (`InsertedOnce`).
- `ChangesAreWithinGrants` (`GrantsBoundChanges`), from `FitInv`: a step that
  answers is the last of its handler (`AnswerIsLastStep`), and of these each writes
  only rows whose authz `WITH CHECK` and `USING` admit (`AnswersAreBound`).
- `ChangesAreChecked` (`ChecksCoverChanges`). `ChecksInv` adds `AskedInv`: past the
  dependency the demanded actions were granted on the path of the request, and past
  `ctx.require` on the authz of its body. What a stale `Collection` could break is
  which path a row is found under: `NameOfHeld` shows that a held id which is still
  in the table has the name of the request, since ids are not reused.
- `AnswersAreWhatIsStored` (`AnswerMatchesRequest`), from `FitInv` and `TwinInv`. The
  argument is that of the code. `_dedupe_rows` leaves a position for each hash pair
  and `original_to_unique` leads to it (`UniqueIsFirst`); RETURNING has a row for each
  pair, written or found, so the result handed to an item holds its content
  (`LandedThere`). Numbers given by position in `by_id` and `by_content` are one to
  one and lead back (`OrdinalNumbers`, by counting), so neither the ordinality of the
  UPDATE (`UpdatedThere`) nor the merge can take one item's row for another's.

`HashRolloutProofs` (from `SizeAssumption`, `TextAssumption`, `HashAssumption`):

- `TypeCorrect` (`[]TypeOK`).
- `ReportIsComplete` (`[]ReportComplete`). `ReportInv` adds `ScanInv`: while the
  script runs, every row the scan has passed has a v2 hash, waits in the batch, or
  is in the report, and only pods of the new release run, which add no row without
  a v2 hash and take none away. The step that needs an argument is the SELECT
  (`BatchIsLowerPart`): the first `BatchSize` pending rows by id leave nothing
  behind below the largest of them, because the rows before a row are a subset of
  the rows before a later one, and finite. What a request may do to the tables is
  stated once (`PodStep`), not request by request.
- `HashesAreTrue`, `CleanReportIsDeduplicated`, `ReportsAreHonest`
  (`[]HashesDescribeContent`, `[]CleanReportMeansNoTwins`, `CollisionsHonest`), under
  `Quiet`: no row is updated in place during the rollout, in either release. This
  hypothesis is what the code relies on without saying so; `stale_backfill`
  (section 5) is what happens without it. `QuietInv` adds to `ReportInv` that each
  row's v2 hashes are both NULL or both its own (`Described`), what the index admits
  (`V2Unique`), and `BatchDescribes`: what the script computed from rows it read in
  an earlier transaction is right for each of them that is still there.
  "Its own" is not one hash for metadata: it is that of a text the column stores as
  the row's metadata, and, where the previous release wrote the row, of the very text
  the column gives back. Two rows of one content may thus have two hashes, unless both
  are of the previous release or only one text is stored so; these are the cases
  `CleanReportMeansNoTwins` is about, and `BackfilledRowIsSeen` (section 6) shows the
  other.

`UpsertTxnProofs` (any clients, contents, number of rows, batches of any length):

- `TypeCorrect` (`[]TypeOK`).
- `BulkWritesAreAtomic` (`Spec => WritesAreAtomic`): the statement-by-statement
  write implements `AtomicPut` under the refinement mapping `INSTANCE AtomicPut WITH`
  the table, requests and replies themselves, the versions of open transactions
  left out. The invariant `TxnInv` says that no row has two
  lockers (`LocksExclusive`), and of each transaction (`TxnOK`) that a finished
  item's row is locked and holds its content, and was there before the statement
  only if the item names it, it had that content, or another item names it
  (`Settled`); that every lock is explained by an item (`Claimed`); and how far
  its statements have come (`Progress`). `StepsMap` then maps every step: a
  commit is `Apply` of the versions held, because a locked row is as the statement
  found it (`CommitApplies`); an abort is `Refuse`; all else is a stutter.

`AuthzRequestProofs` (any resources, grants, requests and number of changes):

- `TypeCorrect` (`[]TypeOK`).
- `RowsWereGranted`, `RefusalsAreExplained`, `ScopeIsComplete`
  (`[]TouchedWasGranted`, `[]RefusalsAreTrue`, `[]HeldThroughoutIsInScope`), where
  neither `SkipAuth` nor `Anonymous` is set. `IInv` keeps what each answer is worth
  after the policy has changed: `ScopeIsHeld` and `HeldIsInScope` from the mapping
  on, `PathIsGranted` and `BodyIsGranted` from their checks on. `HoldsMonotone`
  carries an answer from the grants of its moment to `ever`, and a refusal to
  `always`.

`SessionsAndSearchProofs`, `Sessions` (any number of connections, requests, tables
and databases, with and without `SkipAuth`):

- `TypeCorrect` (`[]TypeOK`).
- `CallersAreApart`, `DenialsAreTrue`, `SettingsAreLocal`, `ConnectionsAreReturned`
  (`[]QueriesSeeTheirRows`, `[]DenialsAreTheCallers`,
  `[]SettingsEndWithTheTransaction`, `[]NoConnectionLeaks`). `IInv` relates the
  three owners of a setting: the lifespan (`Checked`: once past the checks, role and
  tables are right; `OnlyServed`, `Closed`), the pool (`Held`, `Apart`, `Owned`), and
  the transaction (`Carried`: in a transaction a connection has its caller's
  settings; `Blank`: outside of one it has none).

`SessionsAndSearchProofs`, `VectorSearch` (any collections, finite table and query
bodies, any shapes of indexes in any state of the catalog, any sizes of pools; its
`Init`, `Next` and `Spec` are called `SearchInit`, `SearchNext` and `SearchSpec`):

- `AnswersAreFull`, `ArmsMerge` (`[]SearchesFill`, `[]MergeIsGlobalTopK`), where
  `IterativeScan` is set: without it a filter may leave an arm short, and the code
  promises neither. `FarBoundsOnlyCut`, `FormsAreServed`, `PoolsAreWhole`
  (`[]FarBoundOnlyCuts`, `[]EmittedFormIsServed`, `[]PoolsNotTruncated`) need no such
  hypothesis. A search takes one state, so the invariants are small: `RowsStored`
  (the table holds embeddings) and `CatalogInv` (the catalog holds indexes of known
  shapes). The argument is about the choices a ranking leaves open where rows are at
  one distance, `First`: the sets of k rows, or all, that leave out none before one
  they hold. `FirstExists`: there is one, for any k (the smallest k without one has a
  choice for k - 1, to which a nearest of the rest is added); `FirstExtends`: what
  comes first anyway is part of one. From them two equalities between sets of
  choices, each proved in both directions. `MergesToFirst` and `MergesToAnyFirst`: a
  first k of the parts' first k is a first k of all, since a part that leaves out a
  row holds k rows as near, and every first k of all comes about so, from parts that
  extend what they have of it. `CutIsFirst` and `CutIsAnyFirst`: a bound on the key
  that ranks commutes with taking the first k.

`ReadPathsProofs` (any names, ids, contents, requests, page and search limits, any
number of writes between two transactions of a read):

- `AnswersTruthful` (`[]AnswersAreTruthful`). `TruthInv` keeps what a fetch is worth
  after the tables have changed. `Known`: a collection that was fetched may be gone,
  but its id means no other, since ids are not reused; `KnownRow`: an embedding that
  was fetched is in its collection or deleted. So a row and a collection of two
  transactions that match by id were together when the row was fetched (`FoundInv`),
  and a search or a page under a stale `Collection` finds its rows or none
  (`HeldInv`). `Current` brackets the present by `always` and `seen`.
- `AnswersComplete` (`[]AnswersAreComplete`). `FetchedInv` says what must have been
  fetched by each step. For the bulk read, what was visible all along is in one of
  the two tables and is found there, although the tables are read one after the
  other; the sort by position loses no duplicate (`BulkInOrder`).
- `WalksAreExact` (`[]QuietWalksAreExact`). `Walked` is the listing as it is now;
  `WalkInv` says that in a walk nobody disturbed the pages so far are its first
  `(page - 1) * PageSize` entries. If nothing becomes or ceases to be visible, the
  listing stays (`Undisturbed`), because it is determined by what is visible
  (`WalkedIs`). `NthCounts` shows that `Nth` enumerates a finite set of numbers in
  order: ranks are an injection into `1..n` and thus, by cardinality, onto it.

`RequestLimitProofs` (any limits, any declared length, bodies in any pieces):

- `BodiesAreBounded`, `BodiesAreWhole` (`[]NothingAboveTheLimit`,
  `[]BodiesAreTheClients`). `BytesInv` adds that nothing is lost between client and
  application (`NothingLost`), stated without a recursive sum: there is a function
  of partial sums over the messages on the wire, which a message that arrives
  extends (`ArrivalAdds`) and one that is taken shortens (`TakingAdds`); that the last
  message is last on the wire (`EndsOnce`); and what each stage holds (`Stages`). A body that
  passes for complete is the client's to the last byte or, where a client that
  announced no length left before the end, empty: `_read_capped` replays the
  disconnect as an empty body and drops what it had.
- `DepthIsMeasured` (`[]DepthIsExact`), from `DepthAssumption`. `OnTheWay`: no value
  of the present level reaches deeper than the whole, and one reaches as deep.

`InferenceProofs` (any requests, trusted hosts, worlds, and streams of any length):

- `FirstTrustedServes` (`[]FirstTrustedHostServes`). `LookupInv` keeps that every
  repository asked before did not have the model (`AskedInOrder`).
- `CompleteMeansWhole` (`[]DoneIsWhole`). `StreamInv` says of each step of a
  generator what was sent by then (`Stage`): the deltas are the chunks with a choice,
  by an order-preserving map from events to chunks (`DeltasAreTheChoices`), the
  numbers have no gap (`Numbered`), and `text` has each piece once, in order. In
  `closing` it is the last event that tells how far the stream has come.

- `ResponsesAreKept`, `RoundTripKeepsTexts` (`[]OutputsAreTheReply`,
  `[]RoundTripKeepsText`), from `RepliesAssumption`: items, choices and parts come in
  lists. `ReplyInv` keeps that an answer in one piece is `Convert` of what the
  upstream said. The rest is about lists of any length and needs induction over
  them. The library's induction theorems take an operator, which the provers cannot
  instantiate; `UpToInduction` takes the set of the numbers for which the claim
  holds instead, and follows from the least element of its complement. With it,
  `Joining` unfolds the recursive function in `FlattenSeq`, `Filtered` says that a
  loop which appends for some positions enumerates them in order (`Picks`), and
  `AllInOrder` that where all are kept each stays at its place.

Each invariant was checked by TLC on small instances before it was proved. Every
invariant and action property of the passing runs is stated by a theorem. Only
model-checked is liveness (`BackfillCompletes`, `WritesEnd`, both `EveryRequestEnds`,
`MiddlewareEnds`): it rests on ENABLED, which is out of the prover's reach.

## 8. Not modelled

- `Embeddings: schema migrations, seed and roles`: one-shot DDL. Its result, the
  schema, is what `VectorStore`, `UpsertTxn` and `Sessions` model.
- `Common: configuration, logging, metrics, telemetry, profiling`: set-up and
  observation; no behaviour of the services depends on their state.
- `AI model repository`: a stub without operations. What `gen3_inference` may
  hear from such a repository is in `Inference`, marked external.
- `Build and repository scripts`: developer tooling.
- Of modelled parts: the downgrade and the dry run of the backfill, which no pod
  runs beside; reading of environment variables; wording of validation errors;
  counts of embeddings; the lookup of a user's id for logs; payloads of images,
  files and tools in `gen3_inference`; the approximation of an HNSW graph.
