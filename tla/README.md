# Xvector, specified

Xvector is a Milvus-compatible vector service: a gateway in front of one *writer* and
one *reader* process, which share a directory of zvec collections and a metadata store.
This directory holds TLA+ models of that program, the TLC runs that check them on small
instances, and proofs for every size. Line numbers refer to `src/xvector/`.

## 1. The system

| Part | State it keeps | Operations | Talks to |
|---|---|---|---|
| Gateway (`gateway/`, `api/gateway_app.py`, `auth/`) | HTTP client, merged OpenAPI document | authenticate, route, forward, refresh the document | writer, reader |
| Writer (`api/writer_app.py`) | read-write handles, metadata store, import threads | DDL, DML, load/release, `/internal/flush` | engine files, reader |
| Reader (`api/reader_app.py`) | read-only handles, fence set, copy of the catalog, `coord_lock` | search, query, get, statistics, refresh loop, `/internal/open, close, unfence, reload` | engine files, writer |
| `CollectionManager` (`engine/collection_mgr.py`), one per process | `_handles`, `_fenced` | open, close, flush, fence, reopen | zvec |
| `AppContext` (`services/context.py`) | - | `with_reader_released`, notifications, seal requests | the other process |
| Services (`services/*.py`) | - | the API's operations | catalog, manager |
| `MetaStore`, `Catalog` (`meta/`) | engine documents, cache, published snapshot | upsert, get, delete, list, open, reopen | engine files |
| Import jobs (`services/import_job.py`) | job documents, one thread per job | download, parse, insert in batches | vector service |
| Automatic keys (`common/pk.py`) | last millisecond, sequence | `next_id` | clock |
| Users and roles (`services/user.py`, `role.py`) | their documents, the environment's credentials | create, drop, grant, revoke, verify | catalog |
| Merged documentation (`gateway/openapi_merge.py`) | cached document, lock, background task | refresh | writer, reader |
| Routes (`api/v2/routes.py`, `gateway/router_table.py`) | three tables kept by hand | which server answers a path | - |

What is hard about it:

* Two processes share directories that the engine protects with a file lock: exclusive
  for read-write, shared for read-only. A handle holds its lock until its last reference
  goes. A writer that cannot get the lock fails the request.
* A read-only open of a directory with a WAL makes the engine write; it must never happen.
  The WAL goes when the *writer* flushes, for which the reader must have closed.
* The writer awaits the reader (`/internal/close`, `/internal/open`) and the reader awaits
  the writer (`/internal/flush`), each from code that holds something the other needs.
* Calls between the processes time out, get lost or are served late; failures are logged
  and ignored (`require_ok=False`).
* Searches, the refresh loop and notifications interleave at every `await`; import jobs
  run on threads of their own.
* Either process may die between any two steps.

* A read is answered by merging what several partitions return under metrics that the catalog
  and the engine keep separately, and by one process while another changes the catalog.
* A request passes three processes, of which two may die or be late; its credentials are checked
  in one moment and its effect comes in another.

What makes each part correct: section 3 for the modelled parts, section 6 for the others.

## 2. Modules

| Module | What it is | Code |
|---|---|---|
| `SharedPartition` | abstract specification: what the protocol promises about a directory that one process changes and another reads | - |
| `CollectionManager` | the handle caches, fence set and WAL flags of both processes; operators for each method | `engine/collection_mgr.py` |
| `FenceProtocol` | the two processes: writes, load and release, notifications, refresh loop, searches, seals, faults | `services/context.py`, `api/reader_app.py`, `api/writer_app.py`, `services/vector.py`, `index.py`, `collection.py`, `partition.py` |
| `MCFenceProtocol` | instances for TLC | - |
| `FenceProtocolProofs` | theorems and proofs | - |
| `PublishedMap` | abstract specification: a durable map, published as a whole and observed by somebody else | - |
| `MetaStore` | the metadata store of writer and reader: engine, cache, snapshot file, crashes inside a call | `meta/store.py` |
| `MCMetaStore` | instances for TLC | - |
| `MetaStoreProofs` | theorems and proofs | - |
| `CollectionLifecycle` | creation, removal and renaming of databases, collections, partitions, indexes and aliases: documents, directories and the reader's handles | `services/collection.py`, `partition.py`, `alias.py`, `meta/catalog.py`, `engine/collection_mgr.py`, `api/reader_app.py` |
| `MCCollectionLifecycle`, `CollectionLifecycleProofs` | instances for TLC; theorems and proofs | - |
| `Snowflake` | the generator of automatic keys, shared by threads | `common/pk.py` |
| `ImportJob` (extends `Snowflake`) | import jobs, their documents, batches and rows, beside the event loop | `services/import_job.py`, `services/vector.py` |
| `MCImportJob` | instances for TLC | - |
| `ImportJobProofs` | theorems and proofs, also those about `Snowflake` | - |
| `VectorSearch` | what search, query, get and hybrid search return, over rows, partitions, index documents and the engine's metric | `services/vector.py`, `index.py`, `partition.py`, `common/schema_map.py`, `engine/index_map.py` |
| `MCVectorSearch`, `VectorSearchProofs` | instances for TLC; theorems and proofs | - |
| `VectorSearchReads` | lemmas: what the operators of `VectorSearch` return | - |
| `Routing` | the gateway's table, the servers' routers and the merged documentation's tags, as operators | `gateway/router_table.py`, `api/v2/routes.py`, `api/health.py`, `gateway/openapi_merge.py` |
| `OpenApiCache` (extends `Routing`) | the cache of merged documentation and its refreshes | `gateway/openapi_merge.py` |
| `MCOpenApiCache`, `OpenApiCacheProofs` | instances for TLC; theorems and proofs | - |
| `Accounts` | users, roles and databases: what each request does to the catalog, as operators | `services/user.py`, `role.py`, `auth/password.py`, `meta/catalog.py` |
| `Gateway` (extends `Accounts` and `Routing`) | requests from the client through gateway and server to the answer | `api/gateway_app.py`, `gateway/proxy.py`, `auth/gateway_auth.py`, `api/app_factory.py`, `common/trace.py` |
| `MCGateway`, `GatewayProofs` | instances for TLC; theorems and proofs | - |

### State and code

| Variable | Code |
|---|---|
| `refs[p]` | the Python references to the writer's handle of `p`: `_handles` (`Cache`) and the local variables of requests |
| `wal[p]` | `has_wal`: a `*.wal` file under the directory |
| `ver[p]`, `rh[p]` | changes made to the files; what the reader's cached handle shows, or `Closed` |
| `fenced` | the reader's `_fenced`; `Star` is the key `db/coll/*` |
| `load` | `load_state` in the catalog |
| `pc`, `job`, `todo`, `wasLoaded` | how far a request is in its coroutine, and its locals (`parts`, `was_loaded`) |
| `loop` | the request whose synchronous code the writer's event loop is running |
| `net`, `seals` | HTTP calls under way to the reader and to the writer |
| `scanning`, `rtodo`, `rcur` | the refresh loop holds `coord_lock`; partitions left; the one it awaits a seal for |
| `sparts` | partitions of the search that is in `_maybe_refresh` |
| `held`, `faults` | history: requests whose fence the running reader has acknowledged; faults so far |

A step of the model is the code between two `await`s, or one operation on a shared file
where another process or thread may intervene. The body of `with_reader_released` has no
`await`, so on the event loop it excludes other requests (`loop`), but not the reader, and
not the import threads, which run it on loops of their own (`OnThread`).

`MetaStore`'s variables: `engine` is what the zvec collection `xvector_meta` holds; `cache`
and `rcache` are the `_docs` of writer and reader; `snapshot` is `catalog_snapshot.json`;
`op` is the upsert or delete whose engine call has returned and whose snapshot is not
written. `maybe` and `newest` are history: what the callers of the store may expect of a
document, and the newest value the reader has shown. A document's payload is the number
of the write that stored it. The engine's calls are atomic and durable, and the snapshot file
is replaced atomically (`tmp.replace`), so a crash leaves the old or the new file.

`CollectionLifecycle`'s variables: `cat` holds the catalog's documents of the database, collections,
partitions, indexes, aliases and load states; `dir[n][p]` is the directory `collections/<n>/<p>`; `todo` is
what is left of the handler that the writer is in, `net` the calls to the reader under way;
`rh`, `fenced` and `visit` are the reader's handles, fences, and the names the refresh loop has
listed and not visited. A collection and a directory are identified by the number of the request
that created them, so that a later one of the same name is told from an earlier one. `home`,
`torn` and `defined` are history: the collection a directory was made for, whether a rename was
interrupted between the directory and the documents, and the indexes each collection should have.

The handlers of collections, partitions and aliases run to their last step without an
`await`, so a request begins when no other one has steps left; but each step is durable at once, the
reader can see it, and a crash or an exception keeps it. The message to the reader is the
last step of a handler, and its effect comes later, in any order, or never.

`Snowflake`'s variables: `now` is the clock, `last` and `seq` are `_last_ms` and `_seq`, `spinner` is the
thread that holds the lock and waits for the clock; `newest` and `drawn` are history. What happens
under the lock is one step, but for that wait. In `ImportJob`, `doc` is the job's document in
the catalog, `job` the dictionary of its thread (a copy: `MetaStore.get` and `upsert` copy), `pc`
where a thread is (`convert`: inside `insert`; `failing` and `outer`: in the handlers of
`_run_job_async` and `_run_job`), `left`, `batch` and `handle` the locals of an insert, `rows` what the
collection holds, with the thread that stored it, and `coll` the collection that has the name, by
number.

`VectorSearch`'s variables: `store[p]` is the rows of partition `p` by key, `mirrored[p]` whether zvec's schema of
`p` has a column for the key, `engine[p]` the metric zvec ranks `p` by; `parts` and `indexes` are the catalog's
documents, oldest first, `legacy` says that the collection is from before the key was mirrored. `creates`
is the index creations that have stored their document and wait for the reader, with the two lists they have
read. `ranked` is the lists a hybrid search has collected. `settled` is history: the last index creation
reached every partition. Search, Query and Get are operators that the invariants apply in every state. The constant `Gets`
has the keys and output fields that are asked of get; `fetch` and `pkType`, its other two parameters, range over every way in which
zvec may answer and over the types of keys.

`OpenApiCache`'s variables: `cache` is `_schema`, by the versions it was merged from; `holder` and `waiters` are
`_lock`; `pc`, `attempt` and `got` where each refresh is in `_fetch_with_retries`; `version` and `up` the two
servers. `reply` and `asked` are history: what a refresh answered, and what the servers had when it was called.

`Gateway`'s variables: `cat` is the writer's catalog (users, roles, databases), `published` the snapshot that the
reader reads, `up` the running servers; of each request, `input` is its credentials, ids and call, `pc` where the
gateway is with it, `net` the forwarded request or what came back, `answer` what the client got. The rest is
history: how often and under which trace id it was executed (`runs`, `seen`), whether its credentials were valid
(`vouched`), and what clients were told (`promised`, `held`, and `sure`, `owed`, `firm` for the requests that
rely on it). A promise ends when somebody asks to change what was promised, and a changed password of the bootstrap user
also when the writer starts (`TakenBack`, `ensure_defaults`).

### Abstractions

* In `FenceProtocol`, one collection; a partition is a member of `Parts`. Names, schemas and entities are left
  out; an entity that `_entity_to_doc` rejects is a job of kind `badInsert`, which may have altered the files before
  (`ensure_pk_column_on_handle`) and stored nothing.
* `insert` and `upsert` differ only in data; `delete` covers several partitions; index
  creation (`alter_column`, `optimize`) is a write that closes the cached handle before it
  opens its own.
* A request is one-shot. The handler's retries (`retries=8` with `time.sleep`) are one
  attempt: the model takes the failing and the succeeding outcome at any moment where the
  lock allows it.
* `has_wal` followed by a read-only open is one step of the reader (see the hazards).
* The reader visits partitions of one scan in any order, and a `has_wal`, open loop over
  several partitions is one step, except that it may stop early where the code does.
* Crashes keep files, WAL and catalog. Reader and writer read the same catalog: the lag of
  the reader's copy is not modelled here.
* `/internal/reload` never finds a WAL under an open handle (`NoHandleOverWal`), so its
  seal branch is left out.
* `CollectionLifecycle` leaves out what `FenceProtocol` has: writes, WALs, the writer's handles,
  seals (also the ones that apply a new index), and the loading of single partitions. `GetStats` is one partition's; a collection's is
  several in a row. The database is
  one that may be dropped; all names are in it.
  The reader sees the catalog without delay (`MetaStore` has the delay).
* In `ImportJob` an insert either stores its rows, or raises with any part of them stored; that
  covers all that `FenceProtocol` says of it. The collection has automatic integer keys. A file has a number of rows and
  is on S3 or not; its format and the download are left out but for their failure.
* The clock of `Snowflake` does not step back, and stays below the 41 bits of a timestamp.
* In `VectorSearch` a vector is a number, and zvec (external) returns the exact nearest rows of one partition
  under its own metric: the recall of approximate indexes is not modelled. Scores of rank fusion are scaled to integers, so
  that the rounding of floats, which may make two fused scores equal or unequal, is left out.
  The processes are left out, a read sees what the last write left (`FenceProtocol` has the handles).
  Filters, consistency levels and the fallbacks for other versions of zvec are left out.
* How zvec's `fetch` answers for an id that a partition does not have is not in the repository, and left open (`FetchKinds`, for each partition):
  with what `_fetch_to_entity` takes for a miss (`None`, `{id: None}`, `[]`: "plain"), with something else, as `{}`
  ("bare", of which `_item_to_entity` makes an entity with the id "None"), or with an exception, as then for every id. For an id that it has, it answers
  with that row or raises. Keys are integers also where `pkType` is VarChar; a collection whose key column was added later has Int64 keys.
* In `Accounts` a handler is one step: none of them awaits. A salted hash is the password it was made
  from. Privileges are stored and never enforced, by the code as by the model. That a database must be empty to be
  dropped is in `CollectionLifecycle`.
* In `Gateway` the credentials of the environment do not change. The verification's own connection is one step,
  which answers or fails. A change and its snapshot are one step with three outcomes: published, not published
  (the request fails, the change stays), or the writer dies in between; `MetaStore` has the steps. Every header comes at most
  once: of two `X-Request-Id`, `resolve_trace_id` reads the first and `forward` keeps the last (`gateway/proxy.py:52`), and the logs of
  gateway and server need not agree.
* A server's documentation is a version number in `OpenApiCache`; which paths it has is in `Routing`, once.
  `/internal/*` is in no server's documentation (`include_in_schema=False`), so that
  `XVECTOR_OPENAPI_INCLUDE_INTERNAL` shows nothing, and it is left out.
* A lock of the engine belongs to the directory, not to its path, so a handle follows its directory
  when that is renamed (external: the lock is on an open file).

## 3. Runs

The runs `fence_*` use `MCFenceProtocol`, the runs `meta_*` `MCMetaStore`, the runs `life_*`
`MCCollectionLifecycle`, the run `import_jobs` `MCImportJob`, `search_mixed` `MCVectorSearch`, `openapi_refresh`
`MCOpenApiCache`, `gateway_mixed` `MCGateway`. Those marked *violated* state what a comment or document says and the
code does not do; PROJECT.json quotes it.

| Run | Question | Instance |
|---|---|---|
| `fence_mixed` | Does the reader ever hold what is fenced, does the writer leave handles or WALs behind, does an acknowledged fence hold to the end of its write? | 2 partitions, 2 requests of any kind |
| `fence_faults` | Does the protocol implement `SharedPartition`, so that the reader shows only sealed, current files, with lost and late calls, failing flushes and crashes? | 1 partition, 2 requests, 2 faults, lazy loading |
| `fence_liveness` | Do requests end, loaded collections open, released ones close? | 1 partition, 2 requests, 1 failing flush |
| `fence_rivals` | *violated*: the fence of a second writer of the same partition is lifted by the first | 1 partition, 2 inserts |
| `meta_crash` | Do acknowledged deletes last, does the store implement `PublishedMap`? | 3 documents, 5 writes, 2 crashes or failed file writes |
| `meta_faults` | Do acknowledged upserts last, does the reader never see a document go back? | the same, also scans and engine deletes that fail, 3 faults |
| `life_mixed` | Do documents and directories agree, does a collection ever show another one's directory, does a drop leave anything, do indexes follow a rename, can a directory be orphaned, does the reader catch up? | a database, 2 names, 2 partitions, an index, 4 requests, 2 faults |
| `import_jobs` | Is what a job reports stored, does it never go back, does it end, do keys increase? | 1 job of up to 3 rows in batches of 2, 1 insert of a client, 2 numbers in a millisecond, 2 faults |
| `life_rename` | *violated*: after a rename the reader holds the moved directory under the old name | 2 names, 3 requests |
| `search_mixed` | Does the engine rank by the metric the catalog has, do searches return the nearest keys once, does get find every key, or fail as it must, however `fetch` answers, does query return every row, does fusion keep what all lists agree on? | 2 partitions, 3 keys at 2 points, 2 queries, L2 and IP, 2 index names, 1 write, 2 index creations or sub-searches, 1 refused alteration; 3 gets, every kind of answer of each partition, both types of keys; new and old collections |
| `openapi_refresh` | Is a successful refresh fresh, does the cache never go back, does every refresh end, does the cache catch up, is every documented path served? | the loop and 1 caller, 2 attempts, 2 versions of each server, 3 faults |
| `gateway_mixed` | Is a request executed at most once and only when vouched for, do acknowledged passwords and databases last, are logs joined, is every request answered? | 3 requests, of which the first changes something (the bootstrap user's own password in some), 2 initial catalogs, 2 faults |

Why the bounds are enough. The protocol relates two processes and, on the writer, the
requests that overlap: two requests give every pairwise overlap.
Two partitions tell a partition's fence from the collection's, and a request for one from
a request for all. Two faults allow a crash followed by a lost call. In the store, one document always
exists (those of `ensure_defaults`), one is the subject and one comes between; five writes
are two lives of a document and a write after them. In `life_mixed` four requests
are a create, a load, a drop or rename, and a create of the same name; two names make a rename and an alias
possible. In `import_jobs`, job and client are two threads that draw keys, three rows are a full
batch and a partial one, two faults let both failure handlers fail, and two numbers in a millisecond
make a thread wait. In `search_mixed` a key may be in both partitions and at both points, two queries lie on
both sides of them, the limit is 1 or 2 of 3 keys, and two index names overlap and replace one another; both metrics
are present, and old collections get their key column by the first write; the gets ask for one key or all, with and without output
fields, and each partition answers them in its own way. In `openapi_refresh` one
caller beside the loop gives every overlap of two refreshes, and three faults let both attempts of one
refresh fail and a server change. In `gateway_mixed` the workloads pair each change with each other request,
and two changes of one object with a third request that shows what they left; two faults allow
a timeout and a crash, after which the writer starts again, with the bootstrap user's password changed or not. All safety properties that hold are also proved without any bound (section 4).

The type invariants `TypeOK` of `FenceProtocol`, `MetaStore`, `ImportJob`, `OpenApiCache` and `Gateway`, and that of the
writer's side of `CollectionLifecycle`, are proved for every instance and not run again; that of `VectorSearch` is proved and run. A property that two instances of the fence protocol could check
is checked on the one where it has more to withstand, and proved for all.

Deadlock is checked but says little, since the refresh loop always has a step;
`RequestsComplete` is the property that excludes everyone waiting for everyone.

Fairness (`Fairness`): a request, the refresh loop, a search and `/internal/flush` go on when
they can, as tasks of an event loop that is not blocked do (weak fairness). An endpoint
of the reader waits for `coord_lock`, which the refresh loop takes again and again;
`asyncio.Lock` wakes waiters in order, so an endpoint is not overtaken for ever (strong
fairness). Faults are never fair. In `fence_liveness` no call times out, so that the
progress of `RefreshSealed` comes from the writer's answer, not from the timeout.
`FairSpec` of `CollectionLifecycle` assumes of the refresh loop alone that it goes on; that of `ImportJob`,
that threads and event loop run and that the clock moves while somebody waits for it.
`import_jobs` does not check deadlock: when job and client are done, the instance has nothing left to do.
Nor does `gateway_mixed`, whose requests are sent once each. `FairSpec` of `Gateway` assumes that the gateway goes on with what it
has and that a running server executes what was sent to it (weak fairness for each request); clients need not
send, and servers need not come back. `FairSpec` of `OpenApiCache` assumes that each refresh goes on, since its fetches have
a timeout, and that the loop wakes up; `DocsCatchUp` is about servers that stay up. `_lock` hands over in
the order of waiting, which the model has as a queue (`waiters`), so weak fairness is enough.

## 4. Proofs

*Fence protocol* (`FenceProtocolProofs`), for any sets of partitions and requests, any jobs, and any number and kinds of faults,
from `CacheAssumption` and `ProtocolAssumption` only.

| Theorem | What it says |
|---|---|
| `TypeCorrect`: `Spec => []TypeOK` | types |
| `FencedStaysClosedHolds`, `NoHandleOverWalHolds` | a fenced partition is closed on the reader, and it opens no WAL |
| `PromiseHolds`: `Spec => PromiseKept` | refinement of `SharedPartition` |
| `AckedFenceIsKept`: `Spec => []AckedFenceHolds` | an acknowledged fence holds to the end of its write |
| `OnlyBrokenInsertsLeaveHandles`, and from it `NoIdleHandles`: `Spec => []WriterKeepsNoIdleHandle` | who left a handle that no request uses |
| `WritesSeal`: `Spec => []NoWalAtRest` | writes leave no WAL |

*Safety.* Neither fence nor WAL check alone is inductive: that a fenced or unsealed
partition is closed rests on the engine's lock (`LockExclusion`: the reader has nothing
open that the writer has), and that an open handle is current rests on all of them. The
inductive invariant is their conjunction `Safety`. Every step is then one of three kinds:
a reader's turn (it closes some handles and opens some that `MayOpenRO` allows; the fence
may only grow over closed handles), a handle's turn (the writer's references change under the
lock) or a change of one partition that the writer holds. `Safety` is preserved by each kind, once; the
step of `Next` only has to be classified. The refinement is the same classification:
reader's turns are `Look`, flushes are `SealSome`, engine calls are `Change`.

*Ownership.* A fence of `r` is lifted only by a message whose partitions meet those of `r`. The
invariant says which messages and requests are around: a message names the partitions of
its sender's job (or none, if it is a release), that job is one of `Jobs`, and a request that
`held` contains is between the acknowledgement and its own notification. Without a rival,
`Covered` of any other message that unfences is disjoint from the partitions of `r`.

*Handles and WALs.* Neither property is inductive: between its first open and its last close a request leaves
the cache and the WAL in any state. `Handles` says who explains a state: a request references the
handle of the partition that it works on and no other (`Users`), a handle that only the cache refers to was left by an insert that broke off
before its `try`, and while nothing has failed a WAL is in a partition of a request that has not come to the end of its body,
where the flushes are. `NoIdleHandles` assumes that no job is such an insert (the exception that section 5 names,
`services/vector.py:136`, where the property does fail); `OnlyBrokenInsertsLeaveHandles` assumes nothing.

*Metadata store* (`MetaStoreProofs`), for any set of documents no larger than the rebuild's
`topk` and any number of writes and faults:

| Theorem | Also assumes |
|---|---|
| `StoreTypes`: `Spec => []TypeOK` | nothing, not even the limit |
| `AckedUpsertsHold`: `Spec => []AckedUpsertsSurvive` | - |
| `AckedDeletesHold`: `Spec => []AckedDeletesSurvive` | engine deletes do not fail |
| `StoreImplementsMap`: `Spec => PublishedDurably` (refinement of `PublishedMap`) | engine deletes and scans do not fail |
| `ReaderMovesForward`: `Spec => ReaderNeverGoesBack` | nothing, not even the limit |

That the cache is right is not inductive, because a restart takes it from the engine or,
if the scan found nothing, from the snapshot: the invariant `Kept` says of all three copies that
they hold one of the values to expect. The refinement needs that the cache equals the engine between
calls (`Synced`), and that an engine that scans as empty is one to which nothing was
ever written: this is where the documents that are never deleted (`Root`) come in. That the reader never sees a document
get older is a statement about the copies that it may see next: `Aged` orders the published value, the writer's cache, the value of the
call under way and the engine's by age, where a failed scan or delete may put "absent" into any of them, but never an old value.

*Keys and import jobs* (`ImportJobProofs`), for any number of threads, jobs and rows, any sizes of the
fields, and restarts:

| Theorem | Also assumes |
|---|---|
| `KeysAlwaysIncrease`: `KeysSpec => KeysIncrease` | a clock that does not step back |
| `JobsGetIncreasingKeys`: `ImportJob`'s `Spec => KeysSpec /\ KeysIncrease` | the same |
| `JobTypes`: `ImportJob`'s `Spec => []TypeOK` | the same |
| `DocumentsAdvance`: `Spec => JobNeverGoesBack` | the same |
| `ReportsAreTrue`: `Spec => []ImportedRowsAreStored` | the same |

`_last_ms` and `_seq` alone do not say where the latest key is: a restart forgets them, and the
sequence is 0 while a thread waits. `KeyInv` says it relative to the clock: the latest key is below the next
millisecond's first one, and below this one's unless something was drawn in it.
That a job reports no more rows than there are, and no more than 100 percent, needs `JobInv`: a batch is begun, and
counted, only when rows are left, nothing is imported before the files are parsed, and a thread that runs has a document to go on from.

Document and thread each have a copy of the job, and either may be ahead: a thread that could not write its document is ahead of it, and
`outer`, the last handler, starts again from the document. `DocInv` says that a thread is at or ahead of its document
from its first write to its last, that between batches the collection has exactly as many rows of the job as the
job has counted, and that a batch is as large as what will be counted for it. That the size of a set of rows grows by the size of
the batch needs that none of the batch's keys is in use: no thread's batch meets the rows or another thread's batch (`Fresh`), because all keys drawn
before are smaller. This is what makes "each row once" hold beside other threads. All of it is about jobs whose collection is still the one they were created for; `NoJobAssumption`
says that the model value for a missing document is not a document.

*Collections and directories* (`CollectionLifecycleProofs`), for any names, partitions and indexes, and any number of requests and faults,
from `LifecycleAssumption`:

| Theorem | What it says |
|---|---|
| `TypeCorrect`: `Spec => []TypeOK` | types of the catalog, the directories and the steps left |
| `CatalogFollowsDisk`: `Spec => []CatalogMatchesDisk` | documents and directories describe each other, without faults |
| `DirectoriesBelong`: `Spec => []NoForeignDirectory` | a collection shows only directories of its own, also after interruptions |
| `DirectoriesAreReachable`: `Spec => []NoOrphanDirectory` | no directory is left without a collection, also after interruptions |
| `DropsAreComplete`: `Spec => []DropLeavesNothing` | a drop also removes what an interrupted request left |
| `IndexesStay`: `Spec => []IndexesFollowCollection` | indexes stay with their collection through renames, without faults |

All of these fail in the middle of a handler. The invariant `IInv` is therefore stated of what the steps that are left (`todo`) will make
of what is stored: what a document will be (`Will`), that documents, directories and history will then agree (`Outlook`, for behaviours
without faults), that a directory's collection exists or is about to be put (`Owned`), and that what a drop has not removed yet is
on the list of what it removes (`Dropping`). Dropping the rest of the list, which is what a crash or an exception does, must keep `Owned`:
here the order of the steps counts (`Ordered`, `Before`), which is that a collection's document is put before its directories are made and deleted after they are removed.
Because a rename moves the directories before it moves the documents, it is the exception in two of the properties (`torn`).
Steps are treated alike for all handlers: one lemma for each kind of step, and one for each handler that it begins with a list of steps for
which the invariant holds. The reader's side and the network do not touch the variables concerned.

*Reads and indexes* (`VectorSearchProofs`, on the lemmas of `VectorSearchReads`), for any partitions, keys, vectors, queries, limits, metrics and
index names, and any number of writes and faults, from `SearchAssumption` (keys are positive, vectors and queries are numbers, the metrics are
L2, IP and COSINE, keys and partitions are finite):

| Theorem | What it says |
|---|---|
| `RowsHaveTheirColumn`: `Spec => [](CatalogOK /\ RowsOK)` | no row without a partition, none ahead of its key column |
| `TypeCorrect`: `Spec => []TypeOK` | types, those of the lists of a hybrid search included |
| `MetricsFollowCatalog`: `Spec => []EngineFollowsCatalog` | zvec ranks by the metric that search sorts under |
| `GetAnswers`: `Spec => []GetFindsEveryKey` | get finds every key, once, if absent ids are plain misses; if not, by Int64 keys it does so or fails, and by VarChar keys misses only what is behind such an answer |
| `QueryAnswers`: `Spec => []QueryReturnsEveryRow` | query returns every row, or its limit |
| `SearchAnswers`: `Spec => []SearchFindsNearest` | search returns the nearest keys, in order, each at its best |
| `FusionAnswers`: `Spec => []FusionKeepsAgreement` | fusion loses no hit and keeps what all lists agree on |

*The states.* The inductive invariant `IInv` has, beside the types of catalog and rows, three parts that matter. `Followed`: as long as `settled` holds, a
partition whose metric is not the catalog's is on the list of an index creation that
has still to be applied. A creation reads both lists before it waits, so the lemmas say what `put_index`, the removal
of a document and the loop that stops at the first document it cannot apply do to the last document about the vector field.
That zvec's schema of a new partition must get the index documents is one case of the proof, and its mutant.
`KeysMirrored`: unless the collection is a legacy one, every partition has the key column from the start and no row has its default, zero; this
is what keeps an id from being overwritten (`ensure_pk_column_on_handle`, `_item_to_entity`). `RankedOK`: what a hybrid search has
collected are answers of searches, in which no id is twice. TLC has checked `IInv` on the instance of `search_mixed`.

*The answers* are operators, so that the four properties are consequences of the invariant; what has to be proved is what sorting, merging, cutting,
removing duplicates and summing return, for lists of any length.

* The listings (`StableSort`, `Ascending`) are all made by `InOrder`, which picks the n-th element by the number of elements before it. `Positions` shows that
  these numbers are `1 .. Cardinality(S)`, each once, from which `OrderingFollows` has that the listing is complete, without repetitions and in order.
* `FlattenIs` says of the flattened lists where each element comes from (`Places`, `Earlier`); `MergedDrawn` says of a merged answer which row each
  element was drawn from (`Drawn`): no row is drawn twice, and one that is missing was beaten in its own partition by as many rows as the limit.
* A query: if a row is missing, its partition alone has filled the limit; if none is, the merge has all rows. A get: the
  first partition that answers for a key is the one to give it, whether it has it or not (`FirstAnswer`), so that each entity is drawn from one partition and key (`Draws`,
  `GetRowsAre`); where every answer is for a key that is there, the entities are the keys of the readable partitions (`GetComplete`), which is so if all answers are plain, or if
  a get by Int64 keys does not raise. A search (`NearestOf`): as engine and catalog agree, a row that was cut in its partition is no better than `limit` rows that
  were not, so a key that is not among the first `limit` of the merge has as many that are no worse ahead of it.
* Sums and products of the fusion are folds over finite sets. `FoldExists` gives the function that such a fold is, and `FoldInduction` what holds of it; from these `SumsCompare` has that
  a sum is no less if every term is. An id that is ahead of another in every list has no smaller a term (`Shares`, `Scaled`), is met first, and a stable sort leaves it ahead (`FusedKeeps`).

Inductions that are needed here (over the lists that are flattened, and over finite sets) are made on a set of numbers, with the well-foundedness of
`<` from the library (`Least`, `Upward`), since the induction theorems with an operator as parameter cannot be used.

*Merged documentation* (`OpenApiCacheProofs`), for any number of callers, retries, versions and faults, from
`OpenApiAssumption` and `NoneAssumption`:

| Theorem | What it says |
|---|---|
| `CacheTypes`: `Spec => []TypeOK` | types; `attempt` never exceeds `Retries` |
| `AnswersAreFresh`: `Spec => []OkIsFresh` | a refresh that answers ok is as new as its call |
| `CacheIsMonotone`: `Spec => DocsNeverGoBack` | the cache never goes back |
| `DocumentedPathsAreServed`: `Spec => []DocumentedRoutesWork` | what is documented is served, and the other way round |

The invariant needs that only the holder of the lock fetches (`Held`), and that what it has fetched is at
least as new as the cache and as what the servers had when it was called (`Current`): a server's version only grows, and the cache cannot
change while somebody else fetches. A lock that is not exclusive breaks the second half, which is the mutant.
`DocumentedPathsAreServed` does not depend on the cache: the two servers' routers together are the gateway's table, no
path is in both halves of it, and every resource of it has a tag (`RoutersMatchTable`, `RoutedPathsHaveTags`); `Merging` says what
`merge_schemas` makes of two documentations.

*Gateway* (`GatewayProofs`), for any requests, workloads, catalogs and faults, the first four independent of what the handlers do:

| Theorem | What it says |
|---|---|
| `GatewayTypes`: `Spec => []TypeOK` | types of what the gateway keeps |
| `ExecutedAtMostOnce`: `Spec => []AtMostOnce` | no request is executed twice, and an ok was executed |
| `OnlyVouchedRequestsRun`: `Spec => []OnlyVouchedRuns` | what is executed had valid credentials |
| `TracesAreJoined`: `Spec => []TraceEndToEnd` | gateway and servers log under one id |
| `PasswordsWork`: `Spec => []AckedPasswordWorks` | an acknowledged password works until somebody asks to change it; the bootstrap user's, if it is not the environment's, until the writer starts |
| `AckedDatabasesAreListed`: `Spec => []ListsShowAcked` | the reader lists what the writer acknowledged |

`SentOnce` ties the history to the message: not executed while it is not sent or under way, executed
once when it is back, and not sent before it was accepted. `Vouched` must also speak of a request that is still being verified: if its
credentials would pass now, they are vouched for, which every step that changes the catalog has to keep.

A promise made to one client is kept by what other requests leave alone. `Promises` carries it from the answer to the request that relies on it:
a promised password is the user's in the catalog and no request that may change it is unresolved; an acknowledged
database is in the catalog and in the published snapshot, and no request that may drop it is unresolved; and a list that has come back shows what it owes. What this needs of a handler is `Minds`: it keeps the databases that it does not drop and the passwords of
users that it is not about, and an ok means that the call has been done. `HandlersMind` proves it for every handler of `Accounts`. The defaults which a
restarting writer sees to keep every password but a changed one of the bootstrap user (`DefaultsKeep`), whose promise ends there. The assumptions: `NoCreds` is not a pair of a user and a password, None is no password, a client sends a user and
a password or nothing, and a request that is routed goes to one of the handlers that `Accounts` has (`WorkloadAssumption`).

Left to TLC:

* The liveness properties (`RequestsComplete`, `LoadedEventuallyOpen`, `ReleasedEventuallyClosed`, `HandlesCatchUp`, `JobsEnd`, `RefreshesEnd`, `DocsCatchUp`,
  `RequestsAnswered`), which need fairness and ENABLED, also out of its reach.
* The two properties that are violated.

## 5. Findings

Two runs state what a comment says and the code does not do:

1. `fence_rivals`: `_fenced` is a set without owners (`engine/collection_mgr.py:130`).
2. `life_rename`: a rename does not have the reader close the collection (`services/collection.py:117`).

Other facts are exceptions in the properties or in an instance, not runs of their own; the hazards name them.

* Handles: an entity that is rejected before the `try` of `insert` leaves the writer's handle open
  (`services/vector.py:136`). The refresh loop never lifts a fence, so a load whose notification is lost, or overtaken by
  the release before it, leaves the collection closed (`api/reader_app.py:68`). A partial release is not
  recorded, and the next write or refresh opens the partition again (`services/partition.py:117`).
* Store: a failed engine delete passes for a miss (`meta/store.py:184`), and a catalog larger than `topk` is
  cut at a restart (`meta/store.py:224`).
* Lifecycle: a rename interrupted between directory and documents (a history variable, `torn`, marks it) leaves a directory that the
  next collection of that name shows as its own (`services/collection.py:120`). A crash in the middle of
  `delete_collection_meta` leaves index documents that the next collection of the name inherits (`meta/catalog.py:104`).
* Search: dropping an index leaves zvec's metric as it was, so that the merge sorts by another metric than the
  engine ranks by until an index is created again (`services/index.py:150`); an index document on a field that does not exist keeps
  the documents after it from being applied (`services/index.py:98`). Old rows get 0 in a key column
  that is added later, and the column overwrites the document's id in what is returned
  (`common/schema_map.py:248`, `services/vector.py:644`), where `_resolve_output` says that the key is always taken from `Doc.id`.
  Weighted fusion ranks distances upside down (`services/vector.py:565`). Where zvec's fetch answers for an absent id with
  anything but `None`, `{id: None}` and `[]`, a get by Int64 keys fails with a `ValueError`, and one by VarChar keys returns an entity "None" and
  does not find the key in the partitions after (`services/vector.py:582`). Dynamic fields are not returned when the
  requested fields also name a declared scalar.
* Gateway: a request that has timed out may be executed later and undo what was acknowledged meanwhile
  (`gateway/proxy.py:65`). A blank `X-Request-Id` without another id gets two trace ids (`gateway/proxy.py:59`). The environment's
  password stays valid beside a changed one of the bootstrap user, and the next start of the writer undoes the change: the password that
  was acknowledged then gets a 401 (`meta/catalog.py:34`). A dropped role
  stays in the lists of its users, who have it again when a role of that name is created.

## 6. Not modelled, and what is left

* Request decoding, envelopes, response models, configuration, logging, the client library and the web console keep no
  state that a property could be about. The native engine and the network are external.
* Two documents of the catalog whose keys coincide (`meta/docs.py:25`): the models have one document for each key.
* The interleaving of two threads inside one method of `CollectionManager`, and the gap between its WAL check and
  the open (`engine/collection_mgr.py:209`).
* A clock that steps back (`common/pk.py:28`): the keys then do repeat, in the model as in the code.

What could be added, in the order of its weight:

1. Proofs: the reader's side of `CollectionLifecycle` (what a handle of the reader may show while its message is under way).
2. `CollectionManager` with two threads inside its methods.
3. Several databases in `CollectionLifecycle`.
