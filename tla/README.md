# TLA+ models of index-retriever-mcp-server

This directory holds TLA+ models of the parts of this repository whose
behaviour depends on the order of concurrent steps and on failures, the TLC
runs that check them, and theorems about them with proofs for TLAPS. Source
paths are relative to the root of the repository; `PROJECT.json` maps every
definition to the lines it models.

## 1. The system

The service ingests documents into vector store collections and answers
searches. `IndexService` (`src/index_tools/tools/service.py`) is one object per
server process, shared by request threads and job threads; the servers under
`src/index_server` parse requests and call it.

| Component | State it keeps | Operations | What makes it hard | What makes it correct |
|---|---|---|---|---|
| Job queue `queue/engine.py` | rows of the jobs table (status, attempt counter, progress) | `enqueue`, `run`, `process_available`, `retry`, `cancel`, `delete`, `record_progress` | every transition reads in one transaction and writes in another; several threads and processes; threads die | one execution at a time, bounded attempts, settled stays settled, callers return |
| Job dispatch `tools/service.py` | `_job_threads` under a lock | `_dispatch_job_async`, the `_runner` threads, `job_retry`, `job_cancel`, `job_delete` | the end of a thread races the next dispatch | one thread per job, no queued job without one |
| Document store and ingest `tools/service.py` | `self.documents` (in memory, keyed by record id), the vector store, idempotency keys, a semaphore per profile | `ingest_text`, the ingest job, `delete_by_id`, `delete_by_filter`, retention, reindex, `search`, `retrieve` | two copies of the truth, partial failure and rollback, cancels, restarts that lose one copy | one active version per source, a latest one, nothing stored is lost, search agrees |
| Change watches `change_stream/` | `_specs`, `_criteria`, the coordinator's watches and journals | create, pause, resume, delete, `observe_change`, batches and acknowledgements | fan out runs outside the lock; the adapter is built lazily | every live matching watch gets a change |
| Outbound breaker `outbound/mcp_client.py` | `failure_count`, `opened_at` | `before_call`, `on_success`, `on_failure` around an awaited call | answers of concurrent calls come in any order | open exactly at the threshold, failing peers are spared |
| Outbound discovery, A2A client `outbound/` | a cache with a time to live | `get_or_fetch` | concurrent misses | fresh answers |
| Stream sessions `tools/service.py` | sessions, ordering keys | start, event, close | each event is a job of its own | events take effect in order |
| Document structure `structure/` | bundles of a document and its child rows, a corpus with its patterns, templates | create, delete, link, extract, analyse, generate, match | an operation is several transactions and writes back the copy it read; extraction is a pass with a buffer | a bundle is one extraction, patterns and templates are of one analysis, blocks follow the text |
| Spreadsheet indexing `spreadsheet/` | versions and manifests in SQL, records in the vector store | `index` in four refresh modes | the SQL session commits at the end, the vector store at once; batches fail half way | the manifest says what is stored, repeating a failed run repairs it |
| Search `tools/service.py` | none | `search` | hits of an outdated store merged with local rows, cut twice | the right number of current records |
| Bootstrap `bootstrap.py` | users, groups, collections, keys of the service | `apply_seed` | its entries may repeat and override one another; it may fail half way | ends as the last entries say |
| Administration `tools/service.py` | users, groups, API keys, roles, bindings, profiles, collections with access lists, sources; copies in the identity library, the authoriser and the key store | create, update, delete, bind, revoke, guard | every record has copies that each call updates for its own part | the copies agree |
| Doors `index_server/` | permission tables of tools, routes and skills | a call by MCP, REST or A2A | the rule is written down three times and checked at two to three places of a call | a call is admitted exactly where the records say so, and by every door alike |
| Pipeline `pipeline/` | none | chunking, metadata | boundaries | chunks cover the text |
| Everything else | | connectors, converters, embeddings, audit, configuration, web proxy, UI | input and output, numbers or text | |

Interactions: `ingest_text` calls the queue and then the dispatcher, which
starts a thread in `QueueEngine.run`; the queue calls the ingest handler, which
takes the semaphore, changes `self.documents`, calls the vector store and at the
end emits change events; `job_cancel` changes the row that the handler reads
from time to time. The ingest handler may call peers through the outbound
clients. The servers find the permission of a tool, a route or a skill in their
tables and ask the authoriser, which knows what the administration calls passed
on; the tool handlers ask again, about the collection or the owner of a job.
Spreadsheet runs write the vector store that searches read.

## 2. Modules

| Module | Models |
|---|---|
| `JobQueue` | the queue engine, one action per SQL transaction |
| `JobLease` | the abstract promise: a job is a lease, held by one thread at a time, closed once |
| `JobQueueLease` | the refinement mapping from `JobQueue` to `JobLease`, and the inductive invariant |
| `JobDispatch` | `JobQueue` composed with the thread registry and the service calls of one process |
| `IngestStore` | documents, vector store, idempotency keys, semaphores and the ingest job |
| `OutboundBreaker` | the circuit breaker under concurrent calls |
| `ChangeWatch` | the watch adapter, its lazy construction and the fan out |
| `Identity`, `Catalogue` | the two halves of the administration: users, groups, keys, roles, bindings; profiles, collections, sources |
| `Administration` | both in one server process, from the seed over the requests to a restart |
| `Tools`, `Routes` | the permission tables of the tools, and of the routes and skills |
| `Access` | `Administration` with the decision on every call through every door |
| `Spreadsheet` | a workbook indexed again and again |
| `Structure` | bundles, corpus, patterns and templates under concurrent callers |
| `Extraction` | the pass over a text that finds sections, blocks and tables |
| `Removal` | deleting by filter, queued or not, against ingests and restarts |
| `Retrieval`, `Similarity` | the merge of a search; edit distance and template matching |
| `JobQueueProofs` | theorems about `JobQueue`, and that it implements `JobLease` |
| `JobDispatchProofs`, `IngestStoreProofs`, `OutboundBreakerProofs`, `ChangeWatchProofs` | theorems about the module of that name |
| `AdministrationProofs` | theorems about `Administration` with `Identity` and `Catalogue`, and about `Access` |
| `ContentProofs` | theorems about `Spreadsheet`, `Structure`, `Removal` and `Extraction` |
| `AlgorithmProofs` | theorems about `Retrieval` and `Similarity` |
| `MCJobQueue`, `MCJobDispatch`, `MCIngestStore`, `MCOutboundBreaker`, `MCChangeWatch`, `MCAdministration`, `MCContent` | the small instances that TLC checks |

Definitions marked as variants or mutants (`ClaimUnchecked` and the like) have a
plausible bug. No specification uses them; each property is tested by putting
one of them in the place of the real definition.

### JobQueue

`row[j]` is the status and the attempt counter of the row of `j`. Every thread
has a program counter `pc`, the call site `site` of the `_transition` it is in
and `seen`, the counter which that call read. `TransitionRead` and
`TransitionWrite` are the two transactions of `_transition`; the write puts
back the counter that was read and sets its status whatever the row says by
then. The status of every call site is the one the code passes: `EnqueueValidate`,
`EnqueueQueue`, `Dispatch`, `Start`, `Progress`, `RetryWait`, `Requeue`,
`DeadLetter`, `Succeed`, `CancelWrite`, `RetryWrite`. `Claim` is the conditional
UPDATE of the jobs library and the only test-and-set on a row. `Poll`, `Result`
and `Raised` are the loop of `run`, `Failed`, `Completed` and `Interrupted` what
follows the handler. `RowGone` is the `KeyError` of any `get` after a delete.
`Crash` stops a thread at any step. The statuses of `JobStatus` that nothing in
the engine ever writes (`failed`, `timeout` and others) are left out. Audit
records, error texts and the progress history are left out; the handler is a
step that succeeds or raises, after which the model decides as the code does.
Calls that are refused change nothing and are no steps.

### JobDispatch

`thread[j]` is the registered thread of `j`, `call[c]` the service call a client
is in. A worker here exists only from a dispatch to the `finally` clause of
`_runner`. `DispatchAsync` is one action since the code holds
`_job_threads_lock` from the look-up to the start. `_dispatch_job_detached` has
the same protocol. Execution inline (no asynchronous mode) has no threads to
race and is left out.

### IngestStore

A record is a source and a content, from which the code derives its id. `docs`
is `self.documents`, keyed by record alone as in the code, with the place
(profile and collection) and the job attempt that made the document: `by` is
the identity of the document object, so that a rollback or a delete that holds
an old object has no effect on its replacement. `vdb` is the vector store.
`Supersede`, `Insert`, `Upsert` (one step per batch), `Rollback`, `Persist` and
`Finish` are the stretches of the handler between two waits, and each of them
can be preceded by a cancel or, where the code calls the queue or the vector
store, be replaced by a failure. `AfterFailure` is the outcome that `JobQueue`
has in detail. `Delete`, `DeleteVdb` and `DeleteMark` are the look-up, the call
and the marking of both delete operations. `Restart` comes at any point: `docs`,
the semaphores, the threads and the calls go; the rows, the keys and the vector
store stay, and a job that was queued or running is `abandoned`, since nothing
dispatches the rows that a new process finds.

Left out: the parsing, enrichment and chunking before the supersede loop (one
step), retention, which is a loop of `delete_by_id`, and reindex, which only
counts.

### OutboundBreaker

`before_call`, `on_success` and `on_failure` have no await, so each is atomic.
`CallRejected` includes the `on_failure` that the `except` clause of `_request`
adds to a refusal. `streak` and `lastFail` are history variables that count
failures of the peer only.

### ChangeWatch

`cached` is `_watch_service`; `Access` and `Build` are the test and the
assignment of the lazy property, and each builder's adapter has its own `specs`
and `state`. `Snapshot`, `FanTarget`, `Emit` and `FanEnds` are `observe_change`.
The coordinator and its journal are library code that is not in this repository
and are modelled from their use: `create_watch` makes a watch live, `emit` raises
for a watch that is not live (as the comment on its `except` clause says), and
`get_status` of a watch that is gone raises. The snapshot is a set and its order
is left open. All watches belong to one tenant.

### Identity, Catalogue, Administration

`users`, `groups` and `keys` are the tables of the service, `idam` and `idamIn`
what it passed to the identity library, `engine` the roles that the
authoriser's RBAC engine assigned to each principal, and `keyStore` the answer
of the key manager. Calls of `Identity` do not wait and are one action each.
`UserCreate`, `GroupUpdate` and so on are the service calls; the `Rest...`
actions put the payload of the route before them, with the defaults a route
fills in. `SyncAuth` is `_sync_auth_user`: the engine gains roles and never
loses any. `ApiKeyRevoke` and `ApiKeyRevokeToken` revoke in the records and in
the store. `SignIn` is what the authoriser does with the role of a session or of
a bearer token: it assigns it. In `Catalogue` the record of a collection and its
access list are two dictionaries without a lock: every write of one is an action
of its own, and creating, deleting and guarding wait for the vector store before
they write; `at[c]` is where the request thread stands, with the record object
it has in hand. `CollectionUpdate` may be refused after it changed the record.
`apart` remembers the collections that a refused update or overlapping writes
have touched, until a call writes both dictionaries undisturbed.

`Administration` goes through the seed entry by entry (`SeedEntry`, `SeedFails`
for an unset variable of a key), then `Attach` is `attach_idam_auth`, which
replaces the key manager and synchronises every user, then requests run.
`Restart` keeps only the rows of the database (`dbRoles`, `bindings`).
`policies` is `INDEX_ROLE_PERMISSIONS`, which `PoliciesUpdate` changes while the
server runs; `overlay` is what the RBAC engine of the library makes of the same
table, where the model leaves open whether it sees the change. What roles have
besides by the library's own baseline is not modelled. Not there: `profile_update`, `role_update` and file records, which change fields
that nothing else reads.

### Tools, Routes, Access

`Tools` lists the 110 tools of the registry in groups, the permission that
`_required_permission_for_tool` gives each, the tools whose first check asks
about a resource (`PointTools`) and what their handlers guard (`Guards`: a
collection, a role, the owner of a job, or the flat permission again). The owner
of a job is compared with the actor that the arguments of the call name, which
the servers fill in only where they name none (`OwnJob`), so that it says
nothing of who calls, and no property speaks of it.
`Routes` gives the permission of the REST routes by the operation they call,
and the map of A2A skills, and the one route that asks for a key and no
permission (`OpenRoutes`, `GET /a2a/events`). `Access` makes the identities that
a key, a bearer token and a session give (`ByKey`, `BySession`), and puts the checks together as the servers do:
`ToolPermitted` is `_enforce_tool_permission`, `GuardPermitted` the check in the
handler, and `ToolDoor`, `RouteDoor` and `SkillDoor` the way in. All of them are
state functions of `Administration`, evaluated in every state it reaches.

### Spreadsheet

`manifest` is the latest committed version of a source, `stored` the vector
store by collection, `run` the run in progress with the deletes and upserts that
are left. `Index` is the comparison with the manifest under the refresh mode,
`DeleteRecord`, `UpsertBatch` and `Complete` the calls and the commit,
`DeleteSkipped`, `UpsertFails` and `RunDies` (at any point, after the last call
and before the commit too) their failures. Runs follow one
another because the session holds the write lock of SQLite from its first flush;
with another database two runs could overlap, which is not modelled. The two
history variables say where the manifest and the store may differ by design: a
run that was cut short, modes that leave work out, a second collection.

### Structure and Extraction

`caller[c]` is the operation a thread is in with the copies it read. `Link` reads
the bundle in one session per kind of row (`LinkReads`) and stores all of it
(`LinkWrites`); `Analyse` reads its members' bundles in the same way, then
replaces the patterns and then writes the corpus it read at the start; between
the two it may die (`AnalyseFails`). `Generate` reads sections, then styles. A
write marks the copies of other threads as outdated, and `crossed` remembers
what was written from such a copy: those are the exceptions of the properties.
An update of a corpus may replace the summary together with the scores that
`analyse` has put there (`CorpusUpdateWrites`).
Two of the eight kinds of child rows stand for all.

`Extraction` reads a text as it is chosen, a line per step, keeping the rows of a
table in `buffer`; `EndTable`, `EndHeading` and `EndProse` are the three ends of
a paragraph. A stored text is the set of places of its lines. `SectionId` is what
blocks and tables copy from the section they stand in: its id is empty until
`StructureService._assign_ids` sets it in the section, and nothing copies it
again. The tables of a parser (`ParserTable`) come last. Scores, token counts and styles are left out.

### Removal, Retrieval, Similarity

In `Removal` there is one filter, and `selects` says of each record whether the
process, the store or both take it for a match: the two decide on their own
(`_metadata_matches_filters` expands wildcards, the filter that Qdrant gets takes
them literally). `Match`, `RemoveStored` and `Mark` are the three stretches of
`delete_by_filter`, for a client or a job; `Submit`, `LookUp`, `Enqueue`,
`Remember`, `Store` and `Dispatch` are those of `delete_by_filter_async`. An ingest
(`Ingest`, `IngestUpserts`, `IngestEnds`, `IngestFails`) is the part of the ingest
job that a delete meets: its document, the older versions that it stores once
more, its batches, and a rollback that puts back the dictionary and leaves in the
store what was upserted; then it may be tried again. `owed` is a history variable:
what a delete has to remove, without the records that an ingest was storing when
it began or stores later.

`Retrieval` is `search` as a function of the hits, the documents of the process
and the limit; the initial states are all inquiries. A hit is a whole document,
whose record id the process knows, or a chunk, whose id it does not know, so that
the metadata of the store decide. A local row is dropped if a hit shows its
document, by whichever of the three ids. The local rows have one fixed order, as
the hits come in every order of the ids.

`Similarity` computes the edit distance row by row as the code does, and the
matching of a template; the initial states are all triples of short sequences.

`MCContent` runs these six machines side by side: `part` names the one a behaviour
runs, the others keep their first state. Sets of the machines share model values
so that one symmetry set serves all.

## 3. Runs

Runs that pass:

| Run | Shows | Bounds |
|---|---|---|
| `queue_safe` | `ExclusiveExecution`: one thread at a time executes a job, with the inductive invariant `LeaseInv`. `LeaseSpec`: the queue implements `JobLease`. `NoOrphan`: as long as no thread has died, a row in a working state has a thread that will change it. `AttemptsBounded`, `DeadLetterExhausted`: at most, and before a dead letter exactly, `retry_max_attempts` invocations. `SettledStays` | one job, two workers in both modes, two clients with one cancel or delete each, two attempts, one death |
| `queue_ops` | `CallsReturn`: no call of the engine waits for ever, though jobs are cancelled, retried and deleted under it. `RunSettles`: a job that is run is settled or gone | one job, one worker in both modes, two clients with one operation each, two attempts, one `record_progress` |
| `dispatch` | with retry as well: `OneThreadPerJob`, and because of it `ExclusiveExecution`. `UnretriedJobRuns`: no queued job is forgotten if nobody retries. | one job, two threads, two clients with one operation each besides the submit, one `record_progress` |
| `ingest_store` | `OneActiveVersion`, `LineageHasLatest`, `CommittedStays`, `SearchFindsActive`, `PermitsConserved` | three jobs, two clients, two versions of one source, one of them in two batches; one failing call, one cancel, one delete, two attempts |
| `ingest_live` | `JobsFinish`: a queued job ends, unless the process stops before it does | two jobs, one client, the same failures, and one restart at any point |
| `breaker` | `OpenAtThreshold`, `PeerSpared` | three calls at a time, threshold 3, eight ticks |
| `watch` | `SpecsMatchCoordinator`; `NoMissedEvent` | three threads with two calls each, two watches with different criteria, two kinds of change |
| `admin` | `KeysMatchStore`: a key is accepted as long as its record is valid. `GrantsReachEngine`: what the records grant the authoriser knows. `AccessListsAgree`: records and access lists of collections. `SeedConverges`: every start ends as the seed says. `GateMatchesRule`: the two checks of a tool call amount to one rule. `DoorsAgree`: an operation is open to the same callers by route, tool and skill | two users, one group, one collection, three key records, two tokens, two request threads; three requests, among them sign-ins and two changes of policies, one restart; a seed of eight entries, with a user, a collection and a key that come again |
| `content` | `SheetSynced`, `RetryRepairs`; `WholeBundles`, `AnalysisCoherent`, `TemplateOfOneAnalysis`; `BlocksFollowText`; `DeleteHolds`, `OneJobPerFilter`; `SearchFills`; `DistanceCountsEdits` | two collections, two objects with two contents each, three runs, batches of two; two documents, two callers with seven operations, one template; texts of five lines in any paragraphs, two heading levels; two records that process or store select, one of them both, two jobs, two clients with two calls, and one restart; three documents, two chunks, limits one and two; sequences of up to three of two types |

Rows of the queue do not interact, so one job suffices; two workers and two
clients are the pairs whose interleaving matters, and two attempts show both a
retry and the last attempt. Two versions of a source are what superseding needs,
and the third ingest job is a repetition of one of them or comes after both.
The breaker's counter only matters around its threshold. Two watches show one
in the way of another.

In `admin` three requests are a change, a change that depends on it and one that
meets both, on top of a seed that already made a user, a group with a member, a
guarded collection and a replaced key; its entries name each of them again, so
that the order of entries counts. The restart comes at any point. The
requests of a collection overlap in pairs. In `content` three runs are a first
version, a failed one and its repetition, and a batch of two leaves a full batch
and a rest; two callers are the pair that overtake one another, and seven
operations reach an analysis of two documents with a generation and an update in
between; five lines are a heading over a table over a heading, with a paragraph
break anywhere; two calls are two submissions or direct deletes, at once, one
after the other or with the restart between them, against ingests without a
bound; three documents exceed the limits by one.

Runs that show where the code departs from what the repository says (the
quotations are in `PROJECT.json`):

| Run | Departure |
|---|---|
| `queue_cancel_race` | `cancel` flips a job that has just succeeded, against its docstring |
| `dispatch_lost_wakeup` | after `job_cancel` and `job_retry` in quick succession a queued job has no thread |
| `ingest_cancel` | a cancel between the supersede loop and the `try` statement leaves a source without a latest version |

Seen while modelling, reproduced by a definition of the models or by reading two
places of the code side by side, and not stated by a run:

- The open circuit counts its own refusals as failures of the peer
  (`mcp_client.py:168`, `RefusedOnlyBeforeReset` of `OutboundBreaker`).
- Two first accesses of `watch_service` build two adapters
  (`CreatedWatchStays` of `ChangeWatch`).
- An update of a source is validated after it was assigned
  (`StoredSourcesValid` of `Catalogue`), and keys made before `attach_idam_auth`
  are not accepted after it (`ValidKeysAccepted` of `Administration`).
- The previous version of a workbook is looked up without the collection, so
  that indexing it into a second collection leaves unchanged objects out.
- `link_to_vdb_records` and `analyse` write back copies that others have
  outdated; the key of a filter delete never expires.
- The text under a heading in one paragraph with it is not stored, and a table
  there is filed under the section above (`extract.py:253-304`).
- The matching of a template compares multisets where its comment speaks of
  order (`templates.py`).
- `bulk_ingest` asks a second time for the permission to read; `user_get` and
  `group_get` are open to readers by route and to administrators by tool;
  `file_delete` needs `source.configure` by route and `collection.write` by tool.
- The middleware asks for `collection.read` on every path of a tool
  (`api_server.py:1508`), where the comment at line 1822 says that tools with a
  resource are gated by that resource only.
- A record that an ingest was storing when a filter delete began, or whose failed
  ingest is tried again, is stored once more after it; the rollback of an ingest
  takes back the mark of an older version (`IngestUpserts`, `IngestFails`).
- A wildcard of a filter is expanded by the process (`service.py:4240`) and taken
  literally by the filter that Qdrant gets (`service.py:4432`): the process marks
  documents that the store keeps.
- Blocks and tables of a text never name their section: they copy an id that the
  section gets later (`extract.py:230`, `291`, `309`, `structure/service.py:95`).
- The chunks of a superseded or deleted document count in a search as the store
  has them, since the process knows the document by another id.
- The guard of job tools compares the owner of a job with the argument `actor` of
  the call (`mcp_server.py:577`), not with the caller.
- `policies_update` changes the table that sessions read at once
  (`middleware.py:268`); keys and bearer tokens get what the library's engine
  makes of it. A permission given to a role may open a route and not the tool of
  the same operation, or the reverse: `DoorsAgree` is about graded permissions.
- The list of configuration events needs `collection.read` by tool and by REST
  route, and any key by `GET /a2a/events` (`api_server.py:1694`).
- Two creates, updates or guards of a collection whose writes overlap leave the
  access list of one and the record of the other.
- `job_stream` is registered and not dispatched; three of the advertised A2A
  skills are unknown to the map that dispatches them; list tools do not filter
  by the allowed resources that `cascade.py:176` computes for them.
- The feed of events returns the last `limit` of the newer events, so that a
  poller that is further behind misses some (`api_server.py:1049`).

The exceptions that the properties of the passing runs make are of the same
kind, and are written into the property: attempts and settled rows of jobs that
somebody cancels or retries, sources with a job that left its handler without
the rollback, two overlapping ingests of one request, a chunked document deleted
by id, everything about documents after a restart, and in `content` and `admin`
what `stray`, `crossed`, `excused` and `apart` name. `RunSettles` is about one
worker: of two, `run` may leave on reading a cancel and the other, in
`process_available`, makes only one attempt of a retry. Each was met as a counterexample first. The hazards in
`PROJECT.json` list those that no run states.

### Fairness

`LiveSpec` of `JobQueue` and `DispatchLiveSpec` assume weak fairness of every
thread's own steps: they are operating-system threads, and every loop of the
engine sleeps and tries again.
Handlers end, by assumption. Nothing makes clients call. `LiveSpec` of
`IngestStore` assumes weak fairness of each job's steps, including taking a free
permit: attempts are bounded, so a permit that is returned is free for good in
the end. Deadlock is not checked, as the models stop when clients have made
their calls.

## 4. Proofs

`PROJECT.json` lists the theorems under "theorems". Each holds for every value
of the constants that the named assumptions admit: any number of jobs, threads,
clients, documents, calls and failures, and any bound. Together they state every
safety property and the refinement that the passing runs check; only the four
liveness properties at the end of this section are left to TLC. Most of the
invariants are not inductive; what each proof adds is said here.

### Queue and dispatch

- `TypeCorrect`: the queue is well typed, and a thread inside a call has a job.
- `LeaseInvariant` and `Exclusive`: if `"retry"` is not among the client
  operations, `ExclusiveExecution` always holds. A claim is only safe because a
  queued row is not being executed (`HeldNotQueued`), and an enqueue because the
  job it is about to queue is not executed yet (`EnqueuingUntouched`);
  `LeaseInv` adds these, and `queue_safe` checks it. Most steps are `Quiet`
  (nobody starts to execute or enqueue, no row becomes queued); `Claim`,
  `Requeue`, `Enqueue` and `EnqueueQueue` have lemmas of their own.
- `QueueImplementsLease`: under the same assumption each step of the queue is a
  step of `JobLease` or leaves the lease alone, from `LeaseInv`.
- `NoOrphans`, of any operations: a thread that executes a job and the site it
  writes from determine what the row may say, and a row changes to a working
  state only by a thread that stays in it.
- `AttemptsAreBounded`, `DeadLettersAreExhausted`, `SettledRowsStay`: of a job
  that nobody cancels or retries the proof keeps one record, `Undisturbed`: at
  most one thread executes it, and what that thread has read, the counter in the
  row and the number of invocations agree at each place of the program. What is
  done to other jobs cannot disturb it (`Elsewhere`).
- `DispatchImplementsQueue`: every behaviour of `JobDispatch` is one of
  `JobQueue`, so that `NoOrphans` and the three theorems after it hold behind
  the service as well. `RegistryNamesThread` and, from it, `DispatchExclusive`:
  within one process the registry gives what the queue alone does not promise
  with retries.

The assumption `"retry" \notin Ops` is the boundary of the promise, not a
convenience: with a retry, two threads of two processes do execute one job. The
`dispatch` run and the theorem `DispatchExclusive` are about retries.

### Ingest

- `PermitsAreConserved`: each step gives back or takes at most the permit of one
  job, by what the job's program counter says (`PermitsEffect`).
- `OneVersionIsActive`: with one permit, the handlers of a profile exclude each
  other (`HandlersExclude`), a handler that has superseded the others finds no
  active version but its own, and its snapshot has one document at most
  (`VersionsInv`). Documents keep the identity of the attempt that made them
  (`DocTypes`), so that a rollback restores only what it has itself superseded.
- `LineagesHaveLatest`: from the same, with what a settled job has left behind.
- `CommittedDocumentsStay`: only a job of its own record takes a document out.
- `SearchFindsTheActive`: a record that the vector store finds, or that a job has
  stored, is in the dictionary or will be put there by a job (`SearchInv`).

`Permits = 1` is the default of `index.ingest.max_concurrency_per_profile`
(`service.py:868`); with more, two handlers supersede before either inserts.
`SearchFindsTheActive` assumes one place: the dictionary is keyed by record id
alone, so that with two an ingest at the one hides the deletion at the other. The
`ingest_store` run has the same values.

### Breaker and watches

- `CircuitOpens`, `PeerIsSpared`, `BreakerTyped`: the invariant adds that while
  the circuit is closed the streak of failures is part of the count, so that at
  most `FailureThreshold + |Callers| - 1` calls fail between two resets.
- `SpecsAlwaysMatch`: with the places at which calls stand (`Standing`).
- `EventsReachSteadyWatches`: a fan out still owes the change to every watch that
  it relies on (`FanInv`). Once a watch is deleted this is no longer so, which is
  the exception of the property.

### Administration

- `KeysAlwaysMatch`: inductive with the types of the tables and what a start has
  not bound yet (`ProcessInv`).
- `AccessListsAlwaysAgree`: of every thread between its two writes the invariant
  says what it is about to write and what the other dictionary says by now
  (`Halfway`), unless somebody else is between two writes of the same collection
  (`AloneBetween`) or has been (`apart`).
- `GrantsAlwaysReachEngine`: the engine only grows (`SyncGrows`), and what an
  update adds to a record is passed on in the same call.
- `SeedAlwaysConverges`: every entry that is passed holds unless a later one is
  about the same thing (`EntryHolds`), each entry leaves what the others say
  (`EntryEffect`), and no user has two valid keys while the seed is applied
  (`OneKeyEach`).
- `GateAlwaysMatchesRule`: what an identity is given comes from one of its roles
  and one table (`RequiredOf`), whatever the table says, and the first check
  demands the same permission as the second (`PointPermission`).
- `DoorsAlwaysAgree`: the lemmas `GuardsAre`, `RequiredIs` and `RoutesFit` say of
  the three tables what each entry has to do with the two sets of names by which
  `_required_permission_for_tool` decides, from a lemma on each group of entries
  (`EachGuarded`, `EachFits`) and one on merging groups (`MergedGuarded`,
  `MergedFits`). The rest is about any name and any identity with graded
  permissions, which those of the start are (`StartIsGraded`).

### Stored content

- `SheetIsSynced`: what a run in progress has left to do covers what differs from
  its workbook (`Working`). `RetryAlwaysRepairs`: as long as one workbook was
  tried since the collection last matched, every object is as the manifest or
  as the workbook says (`Halfway`).
- `BundlesAreWhole`, `AnalysesAreCoherent`, `TemplatesAreOfOneAnalysis`: a copy that
  is not outdated says what is stored (`GoodCopy`), whichever operation holds it.
- `DeletesHold`: a delete under way owes the removal of what it matched, to the
  one store or the other (`Owes`), and an ingest that begins or goes on can only
  touch records that nobody owes by then (`IngestBegins`, `IngestGoesOn`).
  `FilterIsOneJob`: without an excuse, one submission at a time is past its
  look-up (`OneSubmission`).
- `BlocksAlwaysFollow`, for texts of any length: the buffer is the run of rows at
  the end of the paragraph (`Buffered`), and the blocks filed so far are those
  of the finished paragraphs and of the runs that no later line can lengthen
  (`Filed`). No sequence is recursed over: an appended line changes the set of
  closed runs in one of two ways (`LineAppended`).

### Algorithms

What a search returns and what the edit distance computes are functions of one
state, and the proofs are inductions over sequences. The induction theorems of
the library take a predicate, which the provers cannot instantiate; `SetInduction`
takes the set of the numbers with the property instead and follows from the
well-foundedness of `<`, and `Recursion` gives the function that a first value
and a step define. Both take sets and functions only, and with them the values
of the recursive functions `Only`, `Row`, `Levenshtein` and `Alignment` are
determined (`Choice`, `RowIs`, `TableIs`, `LeftExists`).

- `SearchAlwaysFills`, of any hits, chunks, documents and limits: what `Only`
  chooses from a sequence (`Choice`), what a limit cuts off (`CutIs`), which hits
  stay and that the local rows joined to them are of other documents (`KeptIs`,
  `JoinIs`). That the local rows were
  already cut makes no difference as both cuts are at one limit (`SearchIs`).
- `DistanceAlwaysCountsEdits`, of sequences of any length. The row by row table is
  the recursion over the ends of both sequences (`TablePart`, `DistanceStep`),
  shortcuts included (`LastCell`); each value is that of a last removal,
  insertion or replacement (`LastEdit`). From this it is a metric
  (`ZeroDistance`, `Triangle`, by induction on the sum of the lengths) and some
  single edit brings different sequences one closer (`Nearer`): together it is
  the least number of edits. For the template, one section more in the document
  is either left over or found (`MoreFound`), so that what the distance leaves
  in place is found (`InPlaceFound`).

### Assumptions

The constants' assumptions are named, and TLC evaluates them in the runs. They
say that ids of different kinds differ (a chunk is no whole document, for
`ChunksAssumption`), that markers such as `Missing` or `Gone`
are not records, and that limits are positive. `AdministrationAssumption`
describes the seed file by the fields of its records (`SeedEntries`).
`IdsAssumption` says that there are finitely many record ids to search,
`LimitsAssumption` that `search` raises `top_k` to one, and
`MaxLengthAssumption` that the bound on the length of a document is a number.
Where a definition was written for the prover as well: `Over` and `Merged` are
the updates that TLC calls `@@`, `Only` is `SelectSeq` with a set for the test,
and `IsLast` says of an entry that no later one names the same thing.

### Only model-checked

- `CallsReturn`, `RunSettles`, `UnretriedJobRuns`, `JobsFinish`: liveness under
  fairness, which needs ENABLED.
- The properties of the runs that end in a violation are false.

## 5. Not modelled

See the components with status `not_modelled` in `PROJECT.json`: converters,
connectors, embeddings, the scores of ranking, audit output, configuration, the
web proxy, the providers of identity and the UI are input and output or pure functions of a
request. Within the modelled parts, and named above: retention and reindex,
`profile_update`, `role_update`, file records, scores and styles of an
extraction and its queued form, and journals of watches. A discovery cache miss
is a fetch and a write to a cache of the platform library, with nothing of its
own to keep consistent: of concurrent misses the last answer stays. Stream
sessions pass every event to `ingest_text` and count; the order of two events is
that of two jobs of one source in `IngestStore`. `DedupeIndex` of the pipeline is
used by no other code. The library code in `vendor` (jobs, vector store, change
stream) appears only as far as the code uses it.

## 6. Plan

1. The exceptions as theorems of their own: what still holds with `Permits`
   above one, of `IngestStore` after a restart, and of `NoMissedEvent` when
   watches are deleted.
2. The composition of `IngestStore` with `ChangeWatch`, for the order of change
   events against the order of the changes.
3. The scores of a template match, which `Alignment` leaves out.
