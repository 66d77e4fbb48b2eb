# Verification of executorch-bencher

TLA+ models of executorch-bencher, the TLC runs that check them on small
instances, and proofs that TLAPS checks for every instance. Paths below are
relative to the repository.

executorch-bencher records benchmark runs of ExecuTorch's `llama_main`: an axum
server over one SQLite database and a directory of content-addressed files, an
importer of old logs, a reference collector, and a dashboard that keeps itself
fresh from an event stream. Its sequential code is well covered by the
repository's tests. What tests hardly reach are the races between requests, the
file system, other processes and the browser, and failures between two steps;
the models are about those.

## 1. Inventory

| Component | Source | State | Operations |
|---|---|---|---|
| Artifact store | `src/artifact_store.rs`, `src/artifacts_api.rs` | temporary files, files at `sha256/..`, table `artifacts` (UNIQUE `(sha256, size_bytes)`) | upload, metadata, content and download, temp-file cleanup |
| Model registry | `src/model_registry.rs`, `src/models_api.rs` | table `model_assets` (UNIQUE `sha256`): digest cached with size and mtime; the files belong to others | register, verify, verify_full |
| Run recording | `src/runs_write_api.rs`, `insert_run` of `src/runs.rs` | table `runs`, append-only, foreign keys to the two tables above | `POST /api/v1/runs` |
| Event bus, stream | `src/events.rs`, `src/events_api.rs` | an atomic counter, a tokio broadcast channel of 256 events; one receiver per stream | publish, subscribe, deliver, drop a laggard |
| Live dashboard | `dashboard/src/lib/live.ts`, `main.tsx` | stream state, a debounce timer, TanStack Query's cache | connect, reconnect, invalidate, fetch, show |
| Run listing | `list_runs` of `src/runs.rs`, `src/runs_api.rs` | none on the server; a cursor at the client | `GET /api/v1/runs`, page by page |
| Log importer | `src/bin/import_observer_log.rs` | none of its own; writes to all three tables | one command, started again when it fails |
| Results, facets | `src/results.rs`, `src/results_api.rs` | none | group runs, medians and spreads |
| Validation | `src/host_rules.rs`, `src/domain.rs`, the CHECKs in `migrations/` | none | accept or refuse a run's fields |
| Integrity report | `src/integrity.rs` | none | compare files and rows, read-only |
| Reference collector | `examples/post_run.py` | none | upload, look up or register the model, post the run |
| HTTP shell, configuration, migrations, dashboard pages | the rest | none that changes while serving | - |

How they interact:

* A collector uploads artifacts, registers the model, then posts a run that
  refers to both by id; the server checks that the ids exist and inserts one row.
* Each successful write handler publishes one event after its row is committed.
  The bus is in memory: events are lost with the process and never replayed.
* The dashboard takes a `run.created` event as a signal to fetch again, and
  otherwise shows what it fetched last.
* The importer writes to the database directly, in another process: it publishes
  nothing, and shares only SQLite and the file tree with the server.
* Handlers are tasks with an `.await` between any two steps. No lock spans a
  file operation and a statement; consistency rests on the order of steps, on
  `rename(2)` and on UNIQUE constraints.

Hard behaviours, and what makes each component correct:

| Component | What is hard | What must hold |
|---|---|---|
| Artifact store | three places without a common lock; a crash between rename and insert; adoption of a file found in place; cleanup of a stalled upload's file | a path holds its content; no row without its file; one row per content; answers name rows; a row can be read back |
| Model registry | files replaced while they are stat'ed and hashed; concurrent verifications of one row; in-place update of the digest | the cache is never wrong about a file it calls unchanged; one row per digest |
| Artifact reads, integrity report | a query, then a look at a file, with uploads in between; nothing is a snapshot | a run's page offers what can be fetched; no finished upload is accused, no leftover passed over |
| Run recording | no transaction around check and insert; a handler dropped between any two steps; retries that overlap the first call; a 409 that may mean "mine" or "another's" | a row per id, whole and readable, never changed; who believes a run recorded is right; one event per run; an honest collector gets through |
| Validation | two snapshots in one row, an order of rules, and the same rules a second time in SQL | what the code accepts the table accepts; a refusal names what is wrong |
| Event stream | counter and channel are updated in two steps; slow readers; cancellation | no gap a client cannot see; unique ids in publication order |
| Live dashboard | events during a fetch; a stream that drops and reopens | a run that was announced is shown |
| Run listing | inserts, back-dated ones too, between pages; equal start times | nothing skipped, repeated or out of order |
| Results | three statements under inserts; grouping and medians folded in arrival order; a link rebuilt from a key with nulls | a row is what its runs say; its filters offer what it shows; its link lists its runs |
| Log importer | failure after any statement; an idempotence check read once | each repetition once; success means complete |

`PROJECT.json` lists every hazard at its line, with the properties that cover it
or the reason why none does.

## 2. Modules

### ArtifactStore, ContentStore

`ArtifactStore` is `store_artifact` inside `upload_artifact`, for any number of
requests at once. `pc[r]` is the point between two awaits where request `r`
stands; `temporary`, `final` and `artifacts` are the temporary directory, the
content-addressed tree and the table.

| `pc` | code | action out of it |
|---|---|---|
| `copying` | `copy_hashing`, lines 273-282 | `CopyEnds`, `CopyFails` |
| `copied` | `metadata(&final_path)`, 291 | `LookForFinal` |
| `present` | `remove_file(&tmp_path)?`, 293 | `DropTemp` |
| `absent` | `rename`, 294 | `Rename`, `RenameFails` |
| `unrenamed` | second `metadata`, 297-300 | `RecheckFinal` |
| `placed` | `find_existing`, 310-318 | `FindRow` |
| `inserting` | `INSERT`, 320-337 | `Insert` |
| `conflict` | `find_existing` after a unique violation, 347-364 | `FindWinner` |
| `stored` | publish and answer 201 | `Respond` |

`Abort` ends a request anywhere: an error that `?` propagates, a dropped
connection (axum drops the handler's future) or, for all requests, a crash.
`CleanTemp` is `cleanup_abandoned_temp_files`, which may take the file of a live
but stalled upload. A content stands for `(sha256, size)`, so SHA-256 is taken to
be injective, and a request's identity for the UUIDs it draws.

`ContentStore` is what callers are promised: one atomic step, `Store`, that fixes
a content's id the first time and returns it ever after. `ImplementsContentStore`
states that `ArtifactStore` implements it under the mapping that sends a content
to the id of its row and a request to the id it was given.

### ArtifactReads, IntegrityReport

Two readers on top of `ArtifactStore`, each step one query or one look at one
file. `ArtifactReads` is a viewer who opens the page of a run and follows one of
its links: `FetchRecord` and `StatRecord` are the two halves of `artifact_view`
for each reference, `OpenContent` and `StreamContent` those of
`stream_artifact_content`; `handle` is the open file, which a later `rename`
over its path leaves alone. A query may fail (`missed`): `artifact_view` then
drops the artifact from the page without a word (`.ok()??`).
`IntegrityReport` is `check` of `src/integrity.rs`: `QueryRows`, one `StatFile`
per row, `Walk` over the paths one by one, and `FindOrphans`, which asks for the
rows once more, after the walk. `before`, the files that were there at the
beginning, is a history variable.

A report cannot spare every upload: one that has placed its file and not yet
inserted its row looks as if it had broken off there. `NothingFalseReported` says
what is left: a file that is called an orphan has no row at that moment, no upload
of it has found or inserted one, and there is an upload of it that has broken off
or is in that window (`placed` or `inserting`).

### ModelRegistry, RunProvenance

`ModelRegistry` has calls of `register`, `verify` and `verify_full` in flight
while `WriteFile` and `RemoveFile` change the disk at any point. The metadata
read, the opening, the hashing and each statement are separate steps; a file that
is rewritten under its reader hashes to an arbitrary content. Size and mtime are
one `stamp`, and **every write is assumed to give a new one**: a file rewritten
within the clock's granularity to the same size, or whose mtime is set back,
defeats the cheap check by design, which is what `verify_full` is for. `verify`
has no caller in the server at present; it is a public function of the registry
and is modelled beside the other two. Managed storage is refused with 501 and is
not modelled.

`RunProvenance` adds runs, which keep a reference to a row (`RecordRun`), and the
digest that row had when the run was recorded.

### HostRules, RunRecording, RunLedger

`HostRules` is `host_state` and what becomes of its result. An input is a
function from field names to values, so that a rule is a set of fields:
`RangeViolations` and `PlatformViolations` are what is wrong, `HostError` which
of them the answer names, by the order in which the code looks. `HostState`,
`Columns` and `FromRow` follow a host from the request to the row and back;
`TableAllows` is the SQL of
`migrations/20260901210000_*.up.sql`, translated by itself and not from the code.

`RunRecording` is `create_run`: `at[k]` is the point between two awaits where the
handler of call `k` stands.

| `at` | code in `runs_write_api.rs` | action out of it |
|---|---|---|
| `sent` | body, `to_new_run`, 348-366 | `Receive` |
| `checking` | `check_references`, one query each, 293-325 | `LookUp` |
| `inserting` | `insert_run` and its errors, 378-393 | `Insert` |
| `publishing` | `publish`, 395-413 | `Publish` |
| `reading` | `get_run` for the answer, 415-420 | `ReadBack` |

`QueryFails` is a database error at any query; `Drop` a client that goes away or
a process that dies: the handler stops where it stands. The collectors are those
of `docs/collector.md` and `examples/post_run.py`: they send a request, and again
if no answer comes (`TimeOut`), perhaps while the first handler still runs (two
calls each), under the id they keep or, as `post_run.py` does when it is started
again, a new one (`Draws`). A 400 is corrected in the field it names, or by
storing the artifact it asks for; a 409 is taken for success, with or without a
GET. The columns are the fields that some rule or constraint is about, the
preview and the references; free text that nothing checks is left out.

`RunLedger` is the promise: an entry per id, written once, whole, and never
changed. `ImplementsLedger` maps an id to the rows that have it.

### EventStream, LiveDashboard

`EventStream` is one server process. `Claim` and `Send` are the two halves of
`EventBus::publish`; the channel is the sequence `sent` of which a receiver can
still read the last `Capacity`; `Lag` is the `take_while` that ends a stream.
`got[s]` is what the stream of subscriber `s` has carried since it subscribed.

`LiveDashboard` EXTENDS it with the browser's side: the `LiveState` of
`openLiveStream`, the coalescer's timer (`due`), and the list query (`fetch`,
`answer`, `shown`). What TanStack Query does with an invalidation is the
library's and is modelled as the code relies on it (version 5): a fetch under
way is replaced, but the first load of a query is joined. `joined` and `failed`
record the two situations in which a refresh brings nothing new; the second is
on screen with a retry, for the first see *Findings*.

### RunListing

Readers page through `list_runs` while runs are inserted with arbitrary start
times. One `List` is one GET: the WHERE clause of the cursor, the order, LIMIT
plus one, and the next cursor. The comment at `src/runs.rs:800-804` argues that
"new runs sort above any cursor already handed out"; that is not so of imported
or late-posted runs, whose `started_at` is in the past. The model inserts them
anywhere, and shows that what the comment concludes holds in this form:
a reader has every run that was there at its first page (`NoneSkipped`), and never
the same one twice (`PagesContinue`). `pages` keeps each reader's answers, one
after the other, so that the latter speaks of what a page holds and not only of
what is new on it: a run that is repeated, on the last page too, violates it. A run inserted above a reader's cursor after
its first page is not seen by it.

### Results

GET `/api/v1/results` over the runs of `RunListing`, which go on being inserted:
`AskRows`, `AskModels` and `AskFacets` are its three statements. `Accumulate`
folds one run into the accumulator of its configuration, in order of arrival, and
`Row` turns that into medians and spreads, as the code does; medians are doubled
to stay with integers. `RowsSummariseTheirRuns` says the same without a fold: the
median is a value with no more than half of the samples on either side, the mean
of two of them if their number is even. `Arrival` is the runs in the order of the
query, each at its rank, and `Sorted` the samples in order, each at a place of its
own: both say which element comes at an index, as the proofs need, and not by
which algorithm. `AttrAssumption` is what a row of the table can hold at all.
`ResultsSpec` is a request between inserts. `Link` is `runsLinkForConfiguration` of
the dashboard, and `Linked` what `list_runs` answers to it.

### LogImport

One log imported by command after command. `imported` is what
`imported_repetitions` returned, `line` the loop's index, and an INSERT commits
by itself, so `Fail` at any point leaves what was stored. `MayOverlap` says
whether a second import may start while one runs.
`ImplementsRepetitionLedger` states that imports keep the ledger of RunRecording,
`RunLedger`, with an entry per repetition of the log instead of per run id: the
entries of a repetition are the runs of its lines.

### Properties

| Property | Module | In words |
|---|---|---|
| `PathHoldsItsContent` | ArtifactStore | whatever is at a content's path is that content, complete, row or no row |
| `RowHasItsFile` | ArtifactStore | no row without its file |
| `OneRowPerContent` | ArtifactStore, ModelRegistry | uploads, registrations and rehashes converge on one row |
| `AnswersNameRows` | ArtifactStore | every id in a 201 or an event is the id of a row of that content |
| `RowOpens` | ArtifactStore | a row reads back, if its content is sent under one encoding only |
| `ImplementsContentStore` | ArtifactStore | the store is an atomic get-or-create |
| `PageCanBeFetched` | ArtifactReads | unless a query fails, a run's page offers each of its artifacts and each offer is answered, with the bytes uploaded if the content is sent under one encoding only (for the others see `artifact_encoding`) |
| `NothingFalseReported`, `LeftoversReported` | IntegrityReport | a report beside uploads names only files without a row, of uploads that broke off or are between rename and insert, and passes over no file left before it began |
| `CacheSound` | ModelRegistry | a cached digest describes any file with the cached stamp |
| `TrustIsEarned` | ModelRegistry | a verification answered from the cache is right when it answers |
| `ValidatedRunsAreInserted` | RunRecording | what validation accepts, no constraint but that of the id turns down |
| `DoneIsRecorded` | RunRecording | who was told 201, or takes 409 for success, has a row that reads as it was sent, if no other collector uses the id |
| `AnnouncedOnce` | RunRecording | one `run.created` per run at the most, and only of a run that is there |
| `EventuallyRecorded` | RunRecording | liveness: an honest collector that keeps its id gets its run recorded |
| `ImplementsLedger` | RunRecording | one whole, readable, unchanging entry per id |
| `NoHiddenGap` | EventStream | a stream carries a gapless run of the channel |
| `UniqueIds`, `LaterIdsAreGreater` | EventStream | ids are unique, and ordered unless publications overlap |
| `DeliveredOrDisconnected` | EventStream | liveness: an event reaches an open stream or the stream ends |
| `NoSignalLost`, `SignalledIsShown` | LiveDashboard | an announced run is shown or on its way; and it arrives |
| `NoneSkipped`, `PagesContinue`, `PagesAreFull` | RunListing | pages are disjoint, in order and, but for the last, full; none that was announced is empty; together they have all that was there |
| `RowsSummariseTheirRuns` | Results | counts, times, first known values and medians are those of the runs of the row's configuration |
| `FacetsCoverRows` | Results | the filters offer every value that the rows show, though runs arrive between the queries |
| `LinkListsEveryRun` | Results | the list that a row links to is not refused and has every run of the row |
| `OncePerRepetition`, `DoneIsComplete`, `NothingLeftOver` | LogImport | repeated attempts add up to one complete import |
| `ImplementsRepetitionLedger` | LogImport | one unchanging run per repetition, and none of one that is to be skipped |

## 3. Runs

Every `MC` module gives the constants that a `.cfg` cannot write and the symmetry
sets. Symmetry is used for invariants, action properties and the refinement
(their formulas treat the elements alike) and never where liveness is checked.
`CHECK_DEADLOCK FALSE` throughout: each request, call, import and reader acts
once and the system may come to rest.

Three runs hold models that share no state at the instance's size and pick one of
them in the initial state: the importer or the collectors (`log_import`, variable
`writer`), a reader of pages or of results (`run_listing`, `mode`), uploads alone
or beside a report or a viewer (`artifact_store`, `beside`). The two writers of
the `runs` table insert under ids of their own and read nothing of each other;
readers change nothing, so two of them at once would only multiply the states.

| Run | Instance | Result |
|---|---|---|
| `artifact_store` | 3 uploads, 2 contents, 3 kinds; one content in two encodings, one in two kinds of one encoding; or 2 uploads beside a report, or beside a viewer of a run with 2 references | all hold |
| `artifact_encoding` | 2 uploads | `EveryRowOpens` is violated |
| `model_registry` | 3 calls, 2 paths, 2 contents, 3 writes | all hold |
| `model_identity` | 2 calls, 1 path, 2 contents, 2 writes, 1 run | `RunsKeepTheirModel` is violated |
| `event_stream` | 3 publishers, 2 subscribers, capacity 2 | all hold |
| `event_order` | 2 publishers, 1 subscriber | `IdsIncrease` is violated |
| `live_dashboard` | 2 runs, 1 page, capacity 1 | all hold |
| `live_stale` | 2 runs, 1 page, capacity 2 | `LiveIsFresh` is violated |
| `run_listing` | 5 runs, 2 start times; pages of 2 and 1 reader, or 3 configurations, 1 row at most and 4 filters, one of them refused | all hold |
| `results_link` | as `run_listing` | `LinkIsExact` is violated |
| `log_import` | 3 attempts in sequence, 4 records; or 1 collector with each request of a list of wrong ones, 2 calls and 1 fault; or 2 collectors that share an id, one of which draws a second | all hold |
| `import_twice` | 2 attempts that may overlap, 4 records | `OncePerRepetition` is violated |

Why these bounds are enough: a race for a file or a row has a winner and a loser,
and the third request acts between their steps or arrives after one has crashed.
Three calls are a registration and two verifications of its row; three writes
replace a file twice after it was registered. Three events overrun a channel of
two, and with one page a channel of one is overrun by two. Five runs at two start
times give a full page, a tie across a page boundary and a short last page, with
any of them inserted in between. Three attempts are a failure, a failure of the
repeat, and a success. A report or a viewer meets one upload that is under way and
one that has broken off. The requests of `log_import` are the four kinds of host
(a Linux machine, a lab phone, an external phone without and with a lab
configuration) with each field in turn missing, zero or out of range, and one of
them with each field of the body wrong: a refusal, its correction, and one lost
call or answer in every place. Five runs give a configuration of three (an odd
number of prefill samples, an even one of decode samples, one value known to the
third run only), one with no succeeded run, and more configurations than
`MaxRows`. The proofs drop all of these bounds, those of liveness excepted.
`MaxStamp` (ModelRegistry) and `MaxFaults` (RunRecording) are the bounds
in guards: how often files are written, and how many calls fail, are dropped or
time out.

### Fairness

`EventStream`: `Send` is weakly fair, because nothing is awaited between
`fetch_add` and `send`; `Receive` and `Lag` are, because tokio polls a stream
whose client reads. Nothing makes a request arrive, a client reconnect or a
connection stay up. `LiveDashboard` adds that a timer fires, that a request which
was sent is answered, and that an answer arrives or the fetch fails; it does not
assume that a reader presses retry, that a stream reopens, or that a fetch
succeeds. `DeliveredOrDisconnected` and `SignalledIsShown` hold under these;
the latter excepts a page that shows an error and a refresh that was joined to
the first load.

`RunRecording`: a handler that can go on does, because tokio polls it, and a
collector that has an answer or no hope of one acts on it (`WF` of `Handle` and
`Collect`). Faults are never obliged to happen and are finitely many, without
which no retry ever succeeds. `EventuallyRecorded` excepts bodies that cannot be
parsed or are too large, which no correction of a field repairs, and collectors
that draw a new id or share theirs.

### Findings

* **Encoding of adopted files** (`artifact_encoding`). Deduplication ignores the
  kind, but the encoding of a file depends on it. When an upload as `stdout` and
  one as `output` of the same bytes interleave, or the first dies between its
  rename and its insert, the row and the file disagree and retrieval returns
  something else than was stored. `RowOpens` is the part that holds.
* **Model identity of recorded runs** (`model_identity`). Verifying a replaced
  file rewrites the digest in the row that earlier runs refer to.
* **Order of event ids** (`event_order`). Overlapping publications can be sent in
  the other order than their ids.
* **"Live" without the latest runs** (`live_stale`). Opening a stream does not
  fetch, so what was recorded since the last fetch stays invisible until the next
  event. A refresh that is joined to a first load has the same effect.
* **A row's link lists other configurations** (`results_link`). The link of a
  results row leaves out what is null in its configuration, and the device class;
  filters can only ask for a value. Runs with a lab configuration are listed
  behind a row without one. `LinkListsEveryRun` is the half that holds.
* **Overlapping imports** (`import_twice`). The idempotence check is read once
  and no constraint backs it.

Two more disagreements need no run. Content whose file is missing is answered
410 (`api_error.rs:73`, and the API's own description), where
`openspec/specs/ingestion-service/spec.md:169` says 404.
`ArtifactReads` follows the code. And the integrity report looks for the files
of artifact rows only (`integrity.rs:84-107`), where `docs/storage.md:183` names
"Artifact or model rows whose file is missing on disk".

## 4. Proofs

| Module | Theorems | Assumptions on constants |
|---|---|---|
| `ArtifactStoreProofs` | `Inductive`, `TypeCorrect`, `PathsHoldTheirContent`, `RowsHaveFiles`, `Converges`, `AnswersAreRows`, `SingleEncodingOpens`, `Refines` | uploads are pairs of a content and a kind; `None` is none of the values |
| `ArtifactReadersProofs` | `NothingFalseReportedHolds`, `LeftoversReportedHolds`, `PageCanBeFetchedHolds` | as above |
| `RunRecordingProofs` | `TableAllowsWhatIsAccepted`, `AcceptsWhatTheTableAllows`, `RefusalsNameAField`, `RefusalsNameOneField`, `CorrectionsConverge`, `RecordingIsInvariant`, `ValidatedRunsAreInsertedHolds`, `DoneIsRecordedHolds`, `AnnouncedOnceHolds`, `RefinesLedger` | NULL is none of the values of a field |
| `ModelRegistryProofs` | `Inductive`, `TypeCorrect`, `CacheIsSound`, `OneRow`, `TrustIsAlwaysEarned`, `RowsAreKept`, `RunsKeepTheirAsset`, `OnlyVerificationsRewrite` | `MaxStamp` a natural number; `None` is none of the values |
| `EventStreamProofs` | `Inductive`, `TypeCorrect`, `NoGap`, `IdsAreUnique`, `IdsFollowTheChannel`, `SentOnce`, `NoIdTwice`, `IdsIncreaseWhenAlone`; of pages, `PageInductive`, `SignalsAreKept`, `PagesUseStreams` | a positive capacity |
| `RunListingProofs` | `Inductive`, `NothingIsSkipped`, `PagesAlwaysContinue`, `PagesAreAlwaysFull` | finitely many runs, ids and times are numbers, a positive limit |
| `ResultsProofs` | `StatsSummarise`, `AnswerInductive`, `RowsAreRight`, `FacetsAlwaysCover`, `LinksListEveryRun` | as above; each run has a platform, a prompt that is a digest, and throughputs that are numbers, the second perhaps NULL |
| `LogImportProofs` | `Inductive`, `Idempotent`, `SuccessIsComplete`, `SuccessLeavesNothing`, `RefinesLedger` | imports do not overlap; the log names each repetition once |

Each module proves that an `IInv` (`PageInv`, `RecordingInv`, `ReportInv`,
`ReadsInv`, `AnswerInv`, `SentOnceInv`, `OrderInv`) is inductive and derives the
rest from it. `IInv`, `PageInv` and `RecordingInv` are also invariants of a run;
the others are defined with their proofs. Why the strengthenings are needed:

* **ArtifactStore.** That a row has its file needs `PlacedInv`: from `placed` on
  the file is there and nothing removes it. That a placed file is complete needs
  `TemporaryInv`: a temporary file that still exists after the copy is whole and
  is this request's content; cleanup can remove it but not change it. `FinalInv`
  adds in which encodings a path's file can be, from which `RowOpens` follows for
  contents of one encoding. For the refinement, a request's step from `placed` or
  `conflict` to `stored`, or its successful insert, is `Store`; every other step
  leaves the ids and answers alone, since rows are never updated or removed.
* **ArtifactReads, IntegrityReport.** Each reader's invariant stands beside `IInv`
  of the store. What carries it over a step of the store is one lemma,
  `StoreGrows`: rows and placed files only become more, so what a reader has seen
  is still so. `ReportInv` adds that a file that was there at the beginning is
  either still to be walked or has been met. `ReadsInv` adds that the row and the
  open file of a link are those of the slot on the page, and that an open file is
  one that some upload of its content placed. `NothingFalseReported` needs
  `PlacersInv`: behind each file is an upload past its rename, which stays so or
  ends, and an upload that has lost the insert has a row to find.
* **HostRules.** No induction: `TableAllowsWhatIsAccepted` and its converse
  compare the code's rules with the table's constraint by constraint, for every
  input; `ReadsBack` shows that an accepted host is read back as it was sent. Nor
  for refusals: `RefusalsNameAField` shows that the orders in which the rules are
  applied have each field that a rule can find wrong, so that no request is left
  without an answer, and `CorrectionsConverge` that correcting the named field
  removes that error alone and brings back none that was looked at before it. The
  first field of an order in a set exists because `<` on the naturals is
  well-founded.
* **RunRecording.** `RowsInv` says what is recorded: a row per id, readable, and,
  under an id of one collector, what that collector would still send. The last
  holds because an accepted request is never corrected, which is what `Concludes`
  is for: a refusal that names a field is of a request that is still refused.
  `Knows` is what a handler has established when it gets to a step; its clause on
  references is why the INSERT meets none that is missing, as long as nothing is
  deleted. `AnnouncedOnce` needs that of all calls under an id at most one is
  between its INSERT and its event. For the ledger, a successful INSERT is
  `Record`, and every other step stutters.
* **ModelRegistry.** `CacheSound` is about rows; what makes it survive an update
  is `WorkInv`: what a call has loaded, opened and computed describes a file whose
  stamp is still the one it read first. The order - stamp before hash - is
  essential: a stamp that is read last makes it false. `StampsInv` says that no
  stamp is from the future, so a new write invalidates every cached one. `TableStep`
  lists what each step may do to the table: only an insertion adds a row, only an
  `Update` rewrites one, and none changes an id or a path. Hence `RowsAreKept`, and
  for RunProvenance, whose runs leave the registry alone (`RunsLeaveRegistry`),
  that a run's asset never goes and that the digest a run reads back changes by
  a verification only: run `model_identity` shows the one way there is.
* **EventStream.** `PositionInv` ties a receiver's position to what its stream has
  carried; `CountInv` bounds the ids by the counter. `SentOnceInv`: an event that is
  in the channel is there once, and its request is done. `IdsIncreaseWhenAlone` has
  the hypothesis that no two publications are between claim and send at once, and
  is what is left of the documented order; run `event_order` shows that it cannot
  be dropped. `OrderInv`: a claimed id is above those in the channel.
* **LiveDashboard.** `SentInv`: an event is in the channel only after its row is
  in the table, so a fetch that is answered after the event has the row.
  `SignalledInv`: an answer that misses an announced run is followed by a refresh.
  A page's steps are steps of its stream or leave it alone (`PageStepIsBusStep`), so
  what is proved of streams holds of pages (`PagesUseStreams`).
* **RunListing.** `CursorInv`: all of a reader's first runs down to its cursor have
  been on its pages, and nothing below. The step that needs care is that the
  last run of a page bounds the page from below, which rests on the order being
  total. That an announced page is not empty needs that something is behind each
  cursor, and that runs are never deleted. `PagesAreAlwaysFull` counts: a finite set in a strict order has an element
  with any number of others below it (`Ranks`), so the first `Limit + 1` runs are
  that many. The prover has no induction over data, and none of the usual theorems
  for it can be used; `FiniteInduction` takes their place. It says of a *set* of
  good subsets what an induction theorem says of a predicate, and follows from
  the proper subsets of a finite set being well-founded.
* **Results.** `FoldLeft` is defined by recursion over sets of indices. `FoldExists`
  builds the function that it denotes by `FiniteInduction`, `FoldsAgree` shows that
  there is one only, and `FoldSteps` that it takes one element after the other.
  `Accumulated` then says what folding the runs of a configuration in the order of
  their arrival gives: classes counted, first and last, a known value if there is one,
  and as many samples in each set of values as there are runs with one
  (`Samples`). Since the samples and the runs agree on how many are below and above
  any value, the order statistics of one are those of the other
  (`PlaceAmongRuns`); `MedianOf` shows that the middle of a sorted sequence has no
  more than half on either side, for odd and even numbers. `AnswerInv` carries what
  an answer says over the runs that are inserted between its queries and after
  them: `FacetsCoverCounted` says that no later statement sees fewer runs than the
  one before.
* **LogImport.** `ProgressInv`: the runs that an import did not find when it
  started are its own, of earlier records. For the ledger, an INSERT is `Record`:
  `NoRunYet` says that the record at hand has no run. Every other step stutters.

Only model-checked: the liveness properties `DeliveredOrDisconnected`,
`SignalledIsShown` and `EventuallyRecorded`, which the prover cannot treat under
fairness. Every safety property, action property and refinement that a run checks
is a theorem. Not proved because they are false: the six properties under
*Findings*.

## 5. Not modelled

* Of the integrity report: unreferenced artifacts and unavailable models, which
  are one query each, and orphans under the model root, where nothing is ever
  written (a registration that asks for managed storage is refused with 501).
* Of the reference collector: what it reads off the device and the log of
  `llama_main`; its uploads and its look-up of the model are the calls of
  ArtifactStore and ModelRegistry.
* Throughputs as floating-point numbers: `Results` has integers, for which the
  order is total as `f64::total_cmp` is.
* What a second server does that migrates the database beneath a running one
  before it fails to bind the port.
* Power loss: neither files nor directories are synced before a row is committed;
  the models' crash is that of the process.
* SQLite itself: a statement is atomic and durable, a constraint is enforced.
* Real time: the coalescer's 500 ms, the reconnect delay, keep-alives. A steady
  stream of events less than 500 ms apart postpones the refresh for its duration;
  the models take the timer to fire.
* `trimToFirstPage`, which reduces an infinite list to its first page before a
  refresh.
* HTTP parsing, error envelopes, OpenAPI, configuration, migrations as such,
  rendering and formatting: no state that changes.

## 6. Plan

What would add most next:

1. `LiveDashboard`: `trimToFirstPage` and the paging position, composed with
   RunListing: what a reader who has paged keeps of an infinite list when an event
   refreshes it.
2. A composition of ModelRegistry and EventStream with RunRecording, to state what
   a page shows of a model whose row changes; so far the three meet only in
   `RunProvenance`.
3. Loss of unsynced files: a page cache between ArtifactStore and the disk, once
   the documents say what a power loss may cost.
