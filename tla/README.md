# Local audiobooks plugin: TLA+ models and proofs

The plugin indexes audiobook files on disk into Postgres, enriches the rows
with metadata of upstream sources, and serves the catalog to a portal. This
directory holds TLA+ models of its concurrent core, the TLC runs that check
them on small instances, and TLAPS proofs of the main invariants for every
value of the constants. `PROJECT.json` ties every definition to the lines it
models.

## The system

| Part | State | Operations | Who runs it |
|---|---|---|---|
| Library scanner (`scanner/scan.go`, `id.go`, `store_adapter.go`) | per walk: refs of the root, seen ids | list refs, stat, parse, upsert, chapters, cover, enqueue, sweep | `runScan` |
| Catalog store, writes (`store/audiobook.go`, `chapter.go`, `cover.go`, `library_path.go`) | tables `audiobook`, `chapter`, `cover`, `library_path` | upsert by (library, path), soft delete, replace chapters, cascade | scanner, worker, admin |
| Scan triggers (`main.go: runScan`, `scheduler/tasks.go`, `store/scan_event.go`) | `scanMu`, `running`, table `scan_event` | admin request, task tick, event insert and finish | host, operator |
| Enrichment queue (`metadata/queue.go`, `store/metadata.go`) | table `metadata_enrichment_job` | enqueue, claim with a lease, mark completed or failed, backfill | scanner, worker, admin |
| Enrichment worker (`metadata/worker.go`) | per drain: the claimed job, the loaded row | drain, process | cron tick, inline after a scan |
| Catalog reads (`store/cursor.go`, `store/audiobook.go`, `server/catalog.go`, `browse.go`) | none; the client's cursor | list, search, authors, genres | portal |
| Configuration and lifecycle (`main.go: configure`, `runtime/runtime.go`, `store/app_config.go`) | atomic pointers to pool, store, worker, handlers | configure, shut down | host |
| Metadata cache and aggregator (`metadata/cache.go`, `aggregator.go`, `confidence.go`, `externalid.go`), provider service (`grpc/metadataprovider`) | table `metadata_cache`, swapped registry | get, put, evict, search in parallel, details | host, worker |
| Source adapters (`metadata/sources`) | none | get, search: requests, decoding, scraping | aggregator, worker, provider service |
| Stream tokens and byte serving (`auth/streamtoken.go`, `server/file.go`, `cover.go`, `httproutes`) | the two route servers' handlers and their secrets | verify, look up, open, serve ranges | portal, its clients |
| Migrations (`migrate/migrate.go`) | migration table | apply in order | configure |
| File parsers, admin page | none | parsing | |

Everything shares one Postgres schema, and almost every operation is one SQL
statement: between two statements of one actor any other may run. The scanner
calls the store and the queue; the queue's jobs are drained by the cron task and
by the scan itself; an operator adds and deletes roots, scans and re-arms jobs
at any time; the process may die, the context of a task may be cancelled and any
statement may fail. Files change while they are read.

What makes each part correct:

- scanner: a walk leaves rows and files in step; no book whose file is there is
  soft-deleted, whatever fails; row, chapters, cover and job belong together;
  repeated scans converge;
- triggers: scans never overlap, every trigger is answered, the `running` flag
  and the mutex are released on every path, scan events get finished;
- queue and worker: a job is in one drain's hands, a re-arm is not lost, the
  retry budget is exact, every job settles although drains die, a write-back
  does not undo a newer ingest;
- reads: paging by cursor skips and repeats nothing although rows change;
- configuration: whoever loads a published part finds its pool open, at every
  step of a Configure and after any failure of one; pools are neither forgotten
  nor closed under new work; a rotated secret takes effect; the host's
  configuration does not overwrite the operator's;
- metadata search: a search returns the best of everything found, whichever
  goroutine ends first and whichever source fails; the cache hands out nothing
  older than its TTLs and is not robbed of live rows; ids lead back to sources;
- source adapters: an outage is not taken for an absence, nor the reverse, but for
  two places of the code; of a scraped page every book is found, once, whatever
  order Go gives a map;
- streaming: permission ends when token, secret or book do; several ranges of a
  book make one file;
- later: concurrent migrations.

## Modules

| Module | Models | Checked by | Proved in |
|---|---|---|---|
| `JobQueue` | what the queue promises, without leases, clocks and rows | as a property of `Enrichment` | the refinement in `EnrichmentProofs` |
| `Enrichment` | queue, worker, the two drains, scanner's and operator's arms | `MCEnrichment` | `EnrichmentProofs` |
| `LibraryScan` | `runScan`'s loop, `Walk`, the store's writes, the filesystem | `MCLibraryScan` | `LibraryScanProofs` |
| `ScanTriggers` | `runScan`'s frame, the scheduler, `scan_event` | `MCScanTriggers` | `ScanTriggersProofs` |
| `CatalogPaging` | list, search, facets and their cursors against writers | `MCCatalogPaging` | `CatalogPagingProofs` |
| `Lifecycle` | `configure`, the atomic pointers and pools, their users, the stored configuration, the standalone listener | `MCLifecycle` | `LifecycleProofs` |
| `MetadataSearch` | the aggregator's fan-out and ranking, the cache table, the id codec, the provider's lookup | `MCMetadataSearch` | `MetadataSearchProofs` |
| `SourceLookup` | the seven source adapters, their callers' questions and verdicts | `MCSourceLookup` | `SourceLookupProofs` |
| `StreamAccess` | token checks, byte serving and the handlers' secrets, against clock, disk and scans | `MCStreamAccess` | `StreamAccessProofs` |

How they fit: `Enrichment!Fetch` ends with one of the verdicts of `SourceLookup`'s
`ProcessDone`, and `MetadataSearch!Fetch` and `SourceFails` with those of
`SearchDone`. `StreamAccess!Ingest` and `Delete` are `LibraryScan` seen from a
request, its `Configure` is `Lifecycle`'s `Publish` and `StartStandalone`.

Operators named `X_Something` before a definition `X` are deliberate faults:
plausible bugs used to see that a property notices them. No specification uses
them.

### Enrichment

One row of `metadata_enrichment_job` per book is `status`, `attempts` and
`runAfter`, the latter relative to `now()` so that time stays bounded (`Tick`
lowers it, down to `-MaxAge`). `ClaimNext` is the claim transaction (select the
front job, count the attempt, push `run_after` past the lease); `Load`, `Fetch`,
`UpdateAudiobookMetadata` are `process`; `MarkCompleted` and `MarkFailed` update
by id alone, as the code does. `Abandon` is Drain's return on cancellation or on
a deadline, including the 10-second timeout of the HTTP client, whose error is a
`context.DeadlineExceeded`. `MarkLost` is a dropped error of a mark statement.
The row's data is abstracted to the content it stems from: `ver` is the file's
last ingested content, `tags` the content the columns show.

`disturbed`, `faulted`, `raced`, `owed` and `fails` are history: they name the
exceptional situations, so that each property says exactly when it holds. The
run with a violation shows that the exceptions are real.

`JobQueue` is the queue as its users see it: `Arm`, `Take`, `Complete`, `Fail`,
`Lose`, `Remove`. `Enrichment` implements it (`IsQueue`) under this mapping: a job is
taken while some drain works on it, waiting while it is pending and nobody does;
the owners are those drains; a job armed or removed under a drain is "loose" until
it is reset with nobody at work, and nothing is promised of it meanwhile. That
`Take` needs a waiting job is mutual exclusion; that only the owner puts it back
or settles it, and that it is given up at the fifth failure, are the other steps.
A lost job (crash, cancellation, dropped mark) goes back to waiting and may be
given up sooner. This last case is a disagreement with a comment: `ClaimNext` has
counted the attempt when `Drain` returns on a cancellation without "burn[ing] a
retry attempt" (`worker.go:67`), so five cancelled drains make the first real
failure the last.

### LibraryScan

A content stands for a file's size, mtime and tags at once, so the signature is
the content and `StableID` the pair of path and content. Rows are keyed by
(library, path); chapters, cover and job by audiobook id, which is where the
difference between the id a walk uses (`cid`) and the id the row has (`rowId`)
shows. `Visit` is the callback up to the signature, `Parse` opens the file a
second time, `Upsert`, `ReplaceChapters`, `UpsertCover`, `Enqueue` are the
statements, `StartSweep`, `SoftDelete`, `EndSweep` the deletions. `Fail` ends
the scan between any two steps: an error, a cancellation or a crash, which all
leave the tables as they are. A root is one directory, because `WalkDir` reads a
directory's entries before it visits them; with subdirectories the reads come
later, at more points, and each of them is a `ReadDir` of its own part.
`vanished`, `touched`, `torn`, `missed` are history.

Contents are of three sorts. An `Irregular` one (a link) is skipped at the visit,
after its row was marked as seen; an `Unreadable` one fails to open in `Parse`, which
is all that `ParseM4B` and `ParseMP3` fail on; any other is `Good` and ingested, a
corrupt file with whatever tags are left. The file may change between the stat of
`Visit` and the open of `Parse`: `missed` holds the contents whose signature was
stored with the tags of another one. `RowOf` is what `Reconciled` and `Converges` ask
of a good file: a live row with the signature of what is on disk, and with its
tags unless that content is in `missed`. The exception is true of the code: a
file that is put back with its old time and size after its other content was parsed
keeps the wrong tags, since no later scan sees a change. The mutant
`Upsert_LateStat`, which takes the signature after the parse, breaks `Reconciled`.

### ScanTriggers

Each caller is a goroutine through `runScan`; admin requests and ticks differ in
the `running` flag. Cancelling the context of a tick makes its later statements
fail; an admin request runs under the background context of the request that
`Handle` makes (`httproutes/server.go:57`, `:85`), which nobody cancels. The
walks are one step here and a module there: `LibraryScan` is the content of the step `Walk`, and `scanMu` is why it needs only one scan.

### CatalogPaging

A client pages one request until the empty page, writers change rows in
between. `Before` is the `ORDER BY`, `KeysetClause` the cursor's predicate,
`EncodeCursor` what the handler puts in the cursor; that the three fit is what
the properties are about. `Init` is any catalog earlier scans may have left.

### Lifecycle

Pools, and all that is built on one, carry the number of the Configure call that
made them. A call goes through `Configure`, `Migrate`/`Migrated`, `ImportRead`,
`ImportLegacyAppConfig`, `GetAppConfig`, one `Publish` per `Store` of a pointer
in the order of the code, `StartStandalone` (or `NoStandalone`, `BadSecret`),
`PublishStore` and `SwapPool`. Scan, drain, request and search load a part with
`Begin`, a scan loads more with `ScanGoesOn`, and `PutConfig` is the admin's PUT.
`ConfigureFails` and `Crash` end a call between any two of its steps. That users
survive is not promised by the code: `crossed` names the swap a user's failure
is due to, `raced` and `leaked` the two places where the code has no protection.

Read off the model, and true of the code: a listener switched off in the
configuration keeps serving, on a pool that is closed; a stored secret that does
not decode (the PUT does not check it) fails every later Configure after its
parts are published, and leaves a pool open each time; saved settings take
effect at the next Configure; a PUT without a secret erases the stored one,
although the admin page says that an empty field leaves it untouched.

### MetadataSearch

One query in one region, so that a cache key is a source. A search is one
goroutine per source (`gor`): `CacheHit`, `CacheMiss` or `CacheError`, then `Fetch`
or `SourceFails`, `Put` or `PutError`, `AppendMatches`; `Return` is `wg.Wait`, sort
and cut. `SortStable` gives the i-th match the place after all that come before
it, which is what a stable sort computes. A candidate is what its comparison with
the query gives (`Info`); `CalculateConfidence` is the code's arithmetic on it.
Ids are sequences of symbols, `FormatExternalID` and `ParseExternalID` concatenate
and split them. Time is counted in days, relative to now as in `Enrichment`.
There are two clocks: `fetched_at` and `EvictExpired` go by `now()` of the database,
`Get` by `time.Since` of the process. Ages are those of the database, and what `Get`
takes for an age is up to `MaxSkew` off, each time anew: near the end of its TTL a
row may answer (`MayHit`) or not (`MayMiss`).
`lag`, `heard`, `aged` and `kept` are history: how old an answer really is,
whatever `fetched_at` says, and the last row stored, evicted or not.

`UpstreamSpared` is about evictions and about rows that are overwritten or lost, not
about how long a TTL is: a source is asked again only at the end of the TTL that
`Get` gives the row. For negative rows that is a day (`NotFoundTTL`, `cache.go:26`, and
`TestCache_NotFoundShortTTL`), while `docs/operations.md:156` and
`docs/setup-debug-flows.md:157` have them suppress requests for
`metadata_cache_ttl_days`. The two disagree on a number; a source that had nothing
is asked again after a day, as the code and its test have it.

Also true of the code: a result without
a native id gets an id that `GetMetadata` refuses; `GetMetadata` does not look at
the enabled sources; a match by ASIN alone, with no other field, can tie with an
exact title, which is why `AsinFirst` asks for one more. `Scraped` names the sources
whose candidates carry HTML in `Raw`: `json.Marshal` refuses them, and they are
never cached (run `metadata_cached`).

### SourceLookup

One question at a time, since adapters share nothing: a caller (`SearchOne`,
`Process`, `Details`) asks a source (`Question`, which the source may refuse without
a request), responses come in (one action per adapter and kind of request), and the
caller makes something of the result (`SearchDone`, `ProcessDone`, `GetMetadata`,
`GetImages`). `SourceAdapter` is the translation of `ErrNotFound` between an adapter
and the worker. A response is lost, a 404, does not decode, or has a body; of a
candidate its id and its cover are kept. The recursive `traverse` of the three
scrapers is an explicit stack: `TraverseNextData` and its two siblings visit one
node each, in any order below a map.

`HonestVerdict` makes two exceptions, at the two places where the code does take one
for the other: the failures Audnexus passes over (`PassedOver`), and the 404 of a
search at iTunes. `OutagesShow` is what is left without them.

True of the code, and against its comments: an author search at Audnexus drops the
errors of single books and may cache the rest, or nothing, as the answer
(`audnexus.go:130`); a 404 of an iTunes search reaches the worker as a failure
(`itunes.go:69`, while `adapters.go:71` says no mapping is needed); the "cascade" of
identifiers is a switch, so that a row with an ASIN is never searched by ISBN or
text, and one whose ASIN does not look like `B0...` is never found by Audnexus,
AudiMeta or AudiobookCovers; numeric ids of scraped records are not read, only
strings; a page cut off at 1 MiB, or a bot check with status 200, is a page without
books and counts as an absence.

### StreamAccess

A client with any tokens fetches a book in several responses. `HandleStream` is the
route server and both handlers up to the end of the token check, which reads only
the request and the handler it was loaded from; `GetAudiobook`, `ServeBookFile` (open
and headers) and each `Send` of a block are steps of their own, between which
secrets rotate (`Configure`), files are replaced by a rename or in place (`Write`),
scans run (`Ingest`, `Delete`) and time passes. `http.ServeContent` and a client that
resumes with `If-Range` are external (`Resumes`; a client that sends a range without
it is not modelled, it gets whatever the server has by then); a response stops
anywhere (`Close`).
`sent`, `outAt`, `goneAt`, `clean` are history.

`PartsAgree` has the exceptions of the code in `clean`: the row is read before the
file is opened and knows nothing of a file that was replaced and not scanned yet.
Two contents of one second have one `Last-Modified`.

True of the code: the handler for the host is built without `StreamSecret`
(`main.go:225`), so that every stream by way of the host is a 401, and the standalone
listener alone serves bytes; covers are checked with `file_idx` -1, which
`VerifyStreamToken` refuses (`streamtoken.go:39`, and its test), so that every cover
is a 401 on both routes, although `cover.go:28` calls -1 the sentinel for covers.
`Handle` would cut a stream at 64 MiB under the headers of the whole
(`httproutes/server.go:92`). The comment at `streamtoken.go:28` has the audience
`local_audiobooks`; the code expects `audiobook_backend`. The comment above
`coverModTime` derives cover bytes from the id, which no longer follows the content.

## Runs

Deadlock is checked everywhere but in `triggers` and `lifecycle`: a finite set of
triggers is answered and the system may stop, and the host may send no further
Configure.

| Run | Instance | Shows |
|---|---|---|
| `enrichment` | 1 book, the code's 5 attempts and 15 minutes, 2 ingests, 1 operator step, 2 faults | `SingleProcessor`, `NoLostReArm`, `RetryBudget`, `TagsFollowIngest`; `IsQueue`: the refinement of `JobQueue`; `Settles`: every armed job is completed, failed or deleted |
| `scan` | 2 roots, one with 2 files and one empty, added and deleted while scanned, 4 contents, 3 edits, 3 operator steps, 1 fault | `Reconciled`, `NoFalseDelete`, `IngestWhole`, `Converges` |
| `triggers` | 2 requests, 2 ticks, 1 fault | `OneScanAtATime`, `EventsFinish`, `EveryTriggerAnswered`, `RunningClears` |
| `paging` | 3 books, 2 libraries, pages of 1 and 2, 2 writes | `PagesArePrefix`, `Complete`, `FacetsOnce`, `Ends` |
| `lifecycle` | 3 Configure calls, 2 saved configurations, 2 secrets, 1 fault | `PublishedIsOpen`, `FailsOnlyAcrossSwap`, `PoolsAccounted`, `SecretInForce`, `OperatorKept` |
| `metadata` | 2 clients, 2 sources, 3 searches, TTL 3, negative TTL 1, lag 1, clocks up to 1 apart, 1 edit, 1 fault | `FreshAnswers`, `TopResults`, `AsinFirst`, `IdsResolve`, `UpstreamSpared` |
| `sources` | all adapters, callers and questions, 4 pages, depth limit 2, at most 2 books of a page, 2 of an API | `HonestVerdict`, `PageHasBooks` |
| `stream` | 1 book and tokens of another, 2 secrets, 2 blocks, write timeout 2, time up to 3, 2 edits, 2 seconds | `RevocationBites`, `PartsAgree` |

One run of each module also checks its type invariant; those of `Lifecycle`,
`MetadataSearch`, `SourceLookup` and `StreamAccess` relate variables to each other.

Four runs refute statements of the repository; see "findings" in `PROJECT.json`
for the lines on both sides:

| Run | Statement refuted |
|---|---|
| `enrichment_reenrich` | a re-enqueued job is re-enriched: a drain at work on it marks it completed |
| `scan_row_id` | the id is stable per (library, path): not for a file that reappears changed |
| `paging_search` | a search page resumes exactly: with a sort parameter it does not |
| `metadata_cached` | results are cached: those of the three scrapers are not |

The exceptions the passing properties make show more of the same kind, without
a run of their own: a re-arm clears the lease of a job at work, so that two
drains can hold it (`disturbed`); drains that lose a job are not counted against
the attempts (`faulted`); the signature is committed before the chapters, so
that no later scan repairs an ingest cut short (`torn`), nor the tags of a file that
changed between stat and parse and changed back (`missed`); an event of a cancelled
scan is never finished (`cancelled` in `EventsFinish`); an ingest that overlaps a
fetch is undone by the write-back, and a save that overlaps the import by the
import (`raced`); pools of a Configure that failed on the stored secret are never
closed (`leaked`); a file replaced and not scanned yet is spliced (`clean`). The
hazards in `PROJECT.json` say at each line which case its property leaves out.
Roots may lie inside each other, since nothing forbids it. Then both rows of a file
would have one id, although `docs/operations.md:54` has audiobooks "identified by
`(library_path_id, path)`": the second root's insert fails on the primary key and
every scan ends there. `Reconciled` and `NoFalseDelete` hold all the same (they are
proved for any roots); `IngestWhole` and `Converges` need roots that share no file,
because a walk of one root can write chapters under the id of the other's row.
A trigger during a scan waits and scans again, although the comment at
`scheduler/tasks.go:29` has concurrent triggers de-duplicated.

### Bounds

Two drains are all there are (one per flag: `draining`, `scanMu`). One book suffices
for attempts, leases and the refinement, since claims of different books meet only
in the order of the front job; the safety theorems hold for any number.
Two files and two roots give every order of visiting one and changing the
other; four contents (rich, plain, a link, an unreadable file) tell all branches
apart. Three books give ties, a cursor row that is deleted, and rows on both sides of it.
Three Configure calls are a first one, one that replaces it and one after a
failure or a crash of either. In `metadata` one source answers with two matches
or with nothing and the other with one match, so that three matches meet a cut
at two; TTLs of 3 and 1 days, a lag of 1 and a skew of 1 put a row on both sides of
each edge and leave a day on which a row of either kind certainly answers;
one edit and two clients make the older answer overwrite the newer row. The pages
of `sources` have a list in a map next to a record, a record in a record, books at
the limit and one below it, a record without a title, and one that is a record for
one scraper and not for another. In `stream` two blocks are a first response that is
cut and a second one; a write timeout of 2 ticks leaves a moment in which the clock
moved and the response goes on. Secrets are symmetric there.
Faults, edits and operator steps are bounded in the guards by `Max...`; each
run allows enough for the mutants and the violations to need fewer.

### Fairness

- `Enrichment`: time passes, the cron task starts a drain again (it is triggered
  every minute), a running drain takes its steps. The inline drain, operator and
  faults get none.
- `LibraryScan`: the scan task starts scans (every six hours) and a started scan
  proceeds.
- `ScanTriggers`: each goroutine proceeds. For the mutex, weak fairness is
  enough because the number of triggers is finite; Go's mutex hands over to a
  waiter that starves.
- `CatalogPaging`: the client asks for its next page.
- `Lifecycle`, `MetadataSearch`, `SourceLookup` and `StreamAccess` state safety only
  and assume no fairness.

## Proofs

Theorems in `EnrichmentProofs` (assumptions: books are numbers, at least one
attempt, the lease is longer than the longest `process()`, bounds are numbers):

- `TypeCorrect`;
- `LeaseKeepsDrainsApart` (`SingleProcessor`). Not inductive by itself: that no
  second drain can claim a job follows from the time left on the lease, so the
  invariant `LeaseHeld` keeps `runAfter = Lease - held` for a job at work, with
  `held <= MaxProcess < Lease`;
- `ReArmsStay` (`NoLostReArm`) with `OwedIsFree`: nobody works on a job that is
  re-armed and unclaimed;
- `SettledStays` (`SettledIsFinal`, a consequence of `IsQueue`), an action property from
  `LeaseHeld`;
- `TagsStayFresh` (`TagsFollowIngest`) with `FetchIsFresh`: what a drain loaded is
  what was ingested last;
- `RetryBudgetKept` (`RetryBudget`) with `BudgetOf`: the claimed attempt number is
  the recorded failures plus one;
- `ImplementsQueue` (`IsQueue`): the initial states map to one of `JobQueue`, and every
  step of rows, leases and drains to one of the queue or to none (`QueueStep`, a case
  per action). It rests on the leases (nobody takes a job somebody has), on the retry
  budget and on `AttemptsCover`: the attempts counted are never fewer than the
  failures recorded, whatever drains were lost.

Theorems in `LibraryScanProofs` (assumptions: files and roots are numbers, which gives
them an order of visiting, and contents are positive; any roots, also inside each
other):

- `ScanTypeCorrect`;
- `NoFalseDeletes` (`NoFalseDelete`, an action property) from `WalkInv`. Its parts
  beyond the types: `RowsNamed` (an id belongs to one row, of its own path),
  `RefsNamed` (what the walk listed names the rows of its root or nothing, although
  roots are deleted under it) and `SweepSafe` (a listed row is still to be visited,
  was seen, or its file was missing; only the last are swept);
- `WalksReconcile` (`Reconciled`) from `WalkInv` and `WalkSoFar`, which says of every
  file nobody touched how far the walk is with it (`FileSoFar`), and from `TagsSigned`:
  a row whose tags are not of its signature has the pair in `missed`;
- `IngestsAreWhole` (`IngestWhole`) with `IngestSoFar`. This one assumes
  `DisjointRoots`: no path lies beneath two roots. Without that it is false.

Theorems in `ScanTriggersProofs` (assumptions: requests and ticks are different
goroutines): `TriggersTypeCorrect`, whose last part is that a goroutine holds the
mutex exactly between `Lock` and `Unlock`; `ScansAreSerial` (`OneScanAtATime`) from it;
`EventsAreFinished` (`EventsFinish`) from `EventsSoFar`, the event of every goroutine
that met no fault by the place it is at; and `TicksAreSingle` (`OneTick`, which no run checks):
the task has one run of its own under way at most, because `running` is set exactly
while it has (`RunningIsTick`).

Theorems in `StreamAccessProofs` (assumptions: the special values differ, sizes and
the write timeout are positive):

- `StreamTypeCorrect`; that a request under way has a verified token is part of it;
- `RevocationsBite` (`RevocationBites`) from `Permitted`: token, secret and row of a
  request were good when it arrived or later, and a response sends for less than a
  write timeout after that;
- `PartsAlwaysAgree` (`PartsAgree`) from `VersionsName` (a number names one content of a
  book, on disk, in the row and in the request) and `PartsTagged` (the blocks of a
  clean copy, and the next one, have the time of its tag).

Theorems in `SourceLookupProofs` (assumptions: an embedded state is a finite tree
whose children are numbered and whose leaves have none; sizes are numbers):

- `LookupTypeCorrect`, for which the limits on what a lookup returns need the
  questions and replies an adapter can be at (`AskSoFar`);
- `VerdictsAreHonest` (`HonestVerdict`, its two exceptions included) with `HeardSoFar`:
  no outage was heard while a question is still asked, and every path before the one
  that is asked;
- `OutagesAlwaysShow` (`OutagesShow`, which no run checks) from it: without exceptions,
  no absence with a lost response outside Audnexus, no failure without one outside
  iTunes;
- `PagesHaveBooks` (`PageHasBooks`) from `PageSoFar`: every book is found already or at
  or below something on the stack, and what is found and what is on the stack is
  apart, none above another, and in the order of its lists. Since `traverse` is modelled
  as steps over a stack and not as a recursive operator, the induction over the
  tree is one over the steps. The lemmas before it are about paths: prefixes, siblings,
  and that `InListOrder` is kept when a path is replaced by its children.

Theorems in `CatalogPagingProofs` (assumptions: finitely many books, positive
page sizes):

- `PagingTypeCorrect`;
- `PagesStayPrefix`, `PagingComplete`, from `ListInv`: of an untouched book the
  cursor alone decides whether it was on a page. The step is that the keyset
  predicate of the new cursor is the order of the page (`KeysetIsOrder`), and
  that an empty page means that nothing is left (cardinalities of finite sets);
- `FacetsStayOnce`, from `FacetInv`, the same for names.

Theorems in `LifecycleProofs` (assumptions: the special values differ, bounds are
numbers): `LifecycleTypeCorrect`, `PublishedStaysOpen`, `OnlySwapsFail`,
`PoolsAreAccounted` and `SecretStaysInForce` from one invariant `Inv`. Its parts
beyond the properties: `Ordered` (a call is new to everybody until it publishes),
`OpenPools` (exactly which pools are open), `Progress` (what the call under way
has published: at the swap nothing points to the old pool any more) and
`SecretSoFar`. `OperatorConfigKept` is an action property from `ImportFresh`: what
the import read is still there if nobody saved since.

Theorems in `MetadataSearchProofs` (assumptions: a source answers with candidates
of its own, once each; source names have no colon; the negative TTL is not the
longer one; the clocks are some number apart) cover all properties of the run:

- `SearchTypeCorrect`;
- `AnswersStayFresh` (`FreshAnswers`) with `Heard`: what is stored was heard at most
  its age and a lag ago, what is about to be stored at most its lag; the bound has the
  difference of the clocks on top;
- `SparesUpstream` (`UpstreamSpared`) with `KeptInCache`: a row stored last and within
  its TTL by the database's clock is in the cache, so that an eviction takes only
  what `Get` may refuse as well, however far the clocks are apart;
- `ReturnsTheBest` (`TopResults`) with `OutIsMerged`: the slice holds the matches of
  the goroutines that are over, once each. The ranking lemmas show that places are
  a permutation (`PlaceOrder`, `SortPermutes`, by cardinalities) and that the cut
  leaves the best (`CutIsTop`);
- `AsinComesFirst` (`AsinFirst`) from the arithmetic of the weights
  (`AsinOutweighs`);
- `IdsAlwaysResolve` (`IdsResolve`): the first colon is the one after the source
  (`IdRoundTrip`).

Only model-checked: everything temporal (`Settles`, `Converges`, `Ends`,
`EveryTriggerAnswered`, `RunningClears`), which needs fairness and is out of the
prover's reach. All other properties of the passing runs are proved.

## Plan

In order:

1. done: queue and worker, scanner, triggers, paging; proofs of the first and
   the last;
2. done: `Lifecycle` and its proofs;
3. done: `MetadataSearch` (cache, aggregator, ranking, ids, the provider's lookup)
   and its proofs;
4. done: `SourceLookup` and `StreamAccess`;
5. done: `JobQueue` and the refinement `IsQueue`, checked;
6. done: proofs for `StreamAccess`, `LibraryScan`, `ScanTriggers` and `SourceLookup`, and
   of the refinement of 5;
7. concurrent migrations, and a catalog that jumps to the state of the disk as the
   abstract specification of `LibraryScan`.

## Not modelled

Parsers of M4B and MP3 files (byte-level; the scanner model knows whether a file
opens and what it has), resizing of covers, the admin page, the translation
of host messages into requests and of responses back (`Handle`'s cut at 64 MiB
included), URLs and regions of the source adapters, the conversion of candidates to
protocol messages, the token bucket of the rate limiter (a wait for it ends with a request or with `SourceFails`).
`HasInFlightScan` and `ListPendingBackfill` have no caller. The order in which
Postgres serializes two statements is any.
