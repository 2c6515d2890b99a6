# Formal models of market-feature-store

TLA+ models of this repository (ingestion, its batches, reprocessing, features),
TLC configurations that check them on small instances, and TLAPS proofs for every
value of the constants. `PROJECT.json` maps each definition to the lines it
translates.

    tlc -workers 2 -config MCIngestion_shared.cfg MCIngestion    # any run
    tlapm RunProofs.tla                                          # any proofs

## The system

| component | state | operations | hard part |
|---|---|---|---|
| chunking (`ingestion/chunking.py`) | locals of one loop | `chunk_date_range` | inclusive bounds, one microsecond apart |
| ingestion of one symbol (`ingestion/backfill.py`, `incremental.py`, `pipeline.py`) | `ingestion_runs`, `market_bars`, `raw_market_data`, locals of each call, the copies its session holds | new backfill, resumed backfill, incremental | several sessions on the same rows, failures between commits, resume |
| run triggers (`services/ingestion_runs.py`) | `ingestion_runs` | `trigger_backfill`, `trigger_incremental` | rows nobody executes |
| symbols registry (`services/symbols.py`) | `symbols` and their coverage | add, get, deactivate, `sync_symbol_coverage`, `detect_stale_symbols` | read-then-write of the coverage |
| raw rows (`services/raw_market_data.py`, `storage/object_store.py`) | `raw_market_data`, objects in S3 | persist, load | an object outside the transaction |
| reprocessing (`ingestion/reprocess.py`) | runs, bars, coverage, quality checks | `reprocess_from_raw` | one long transaction, replay order, failing finish |
| batches (`backfill_symbols`, `incremental_symbols`, `jobs/scheduler.py`, `POST /ingestion/incremental`) | one session for many symbols | scheduled and bulk increments | what a failed symbol leaves in the session |
| providers (`providers/`) | HTTP client, locals of a call | historical and latest bars, retries, pages | answers of many requests as one, limits |
| normalization, validation (`normalization/`, `validation/`, `bar.py`) | none | normalize, `run_checks` | pure |
| features (`features/`, `services/feature_compute.py`, `services/features.py`) | definitions, values | seed, compute, read | check-then-insert, stale values |
| API, process, configuration (`api/`, `main.py`, `config.py`, `logging.py`) | none | routing | none |

Calls share only the database. A call commits several times; between two
commits other sessions see and change its rows, and its own copies (the run
and symbol objects of the session, `existing_start`, `already_processed`, the
totals) grow stale. The provider is asked between transactions.

What makes the core correct: a raw row and its bars become durable together; a
stored bar comes from an archived payload and never changes; a bar is counted
once; a run that ends says how; a backfill that succeeds left out only what lay
between bars it found stored; the coverage describes the stored bars; increments
leave no hole; the chunks cover the range; a symbol that fails costs the others
nothing; a replay is atomic and the payload archived last wins; a feature value
fits its definition and depends on no later bar; an answer says what was stored.

## Modules

| module | models |
|---|---|
| `MarketData` | bars, payloads, raw rows, bounds, the arithmetic of windows |
| `Chunking` | `chunk_date_range`, one iteration a step |
| `BarArchive` | abstract: what ingestion promises about bars and raw rows |
| `Ingestion` | `backfill_symbol`, `incremental_symbol`, `sync_symbol_coverage`, the triggers, crashes |
| `SharedSession` | `incremental_symbols`, the scheduler's job and the bulk endpoint: many symbols, one session; the registry of symbols |
| `BarHistory` | abstract: what the stored bars are once payloads can be replayed |
| `Reprocess` | `reprocess_from_raw` beside fetches, with row locks, savepoints and the object store |
| `FeatureSeries` | the features of the registry as functions: what they read, when they are defined |
| `FeatureStore` | seeding of definitions, `POST /features/compute`, locks, crashes |
| `ProviderAnswer` | abstract: what a caller of a provider relies on |
| `ProviderRequest` | a call of the Alpaca adapter, request by request |
| `QualityChecks` | `normalize_bars` and the checks of a batch, for one payload |
| `MCChunking`, `MCIngestion`, `MCSharedSession`, `MCReprocess`, `MCFeatureStore`, `MCProviderRequest`, `MCQualityChecks` | instances for TLC |
| `ChunkingProofs`, `ProviderProofs`, `QualityProofs`, `ReprocessProofs`, `SharedSessionProofs`, `FeatureProofs` | theorems about the module of that name |
| `IngestionProofs` | types, the archive, the refinement of `BarArchive` |
| `RunProofs` | the rest of `Ingestion`: outcomes, counters, coverage, what a backfill may skip |

### Ingestion and the code

`runs`, `bars`, `raw` and `cov` are the committed rows. `pc[w]` is where the
call of worker `w` is and `job[w]` everything it knows. A step is what happens
between two awaits that other sessions can notice:

| `pc` | the call is about to | actions |
|---|---|---|
| `idle` | be called | `StartBackfill`, `BeginResume`, `StartIncremental`, `AlreadyCurrent` |
| `resume` | mark the run it loaded (`backfill.py:135-142`) | `CommitResume` |
| `loop` | look at the next chunk (`155-169`) | `SkipChunk`, `FetchChunk`, `FetchFails` |
| `fetch` | ask the provider (`incremental.py:120`) | `FetchIncremental`, `FetchFails` |
| `ingest` | store a response | `CommitChunk`, `StageIncremental`, `PipelineFails`, `TransactionFails` |
| `sync`, `fsync` | read the bounds, in the success tail or in the handler | `ReadBounds`, `SyncRaises` |
| `close`, `fail` | commit the last transaction | `CommitSuccess`, `CommitFailure` |

`Crash` may end a call anywhere, `Trigger` adds a pending run, `Tick` moves the
clock.

- A transaction that nobody can observe before it commits is one step
  (`CommitChunk`). `StartBackfill` also merges the reads of a new call with its
  first commit: bars are never removed, so a call with bounds read earlier is one
  that started earlier, whose run is seen a moment later. The last transaction of
  an incremental call is not: it holds keys of `market_bars` while it reads the
  bounds, so `StageIncremental` opens it, `ReadBounds` reads what it sees and
  `CommitSuccess` makes it durable. `Unblocked` is the wait of `INSERT ... ON
  CONFLICT DO NOTHING` for a transaction that inserted the same key.
- `Flush` is the unit of work of SQLAlchemy: `update` and `update_coverage` set
  attributes of an object the session loaded, and the UPDATE names the columns
  that differ from what it loaded. The row lock of that UPDATE orders it like the
  commit, where the model applies it.
- `rollback()` expires every object of the session if a transaction is open. The
  handler then reads `run.id`, which needs a query outside an await and raises. So
  a failure inside a transaction (`TransactionFails`) ends the call with its run
  unmarked, and one outside (`FetchFails`, `PipelineFails`) runs the handler.
- Prices are abstracted to `Quotes`: a bar fetched while its period is open is
  "live", later "settled". Time is a small range of instants, 0 is NULL.
- Quality checks, log lines, `last_ingested_at` and `started_at` are left out:
  nothing reads them back in these operations.

`SharedResume` says whether a run that a live worker executes may be resumed.
The code does not prevent it (`test_backfill_resume_accepts_running_run`), so
the run `shared` allows it; the run `exclusive` shows what holds when operators
do not.

### SharedSession and the code

One call of `incremental_symbol` is here one turn of a batch, and a batch is the
scheduler's job or a request to the bulk endpoint (`Bulk`). `job[b]` is what the
session carries from turn to turn:

- `seen`: `detect_stale_symbols` loads the symbols; `expire_on_commit` is off and
  a SELECT does not refresh a loaded object, so a turn starts from the coverage
  read before the first one, unless a rollback has expired it (`reread`).
- `aborted`: the transaction of the session has failed and nobody rolled it back.
  That is so after a failure outside the handlers: before the first commit
  (`BeginFails`), in the handler itself (`HandleFails`), in the success tail
  (`TailFails`). The next turn's `get_symbol` raises (`BeginPoisoned`), and so do
  all turns after it.
- `unreadable`: results whose run object is expired. The endpoint reads every run
  into its summary, outside an await, and raises if one is.
- `results[s].cause` is history, for `FailuresContained`.

`StoreFails` is a failure inside the transaction of a fetch: the rollback of the
handler clears the transaction but expires its own run, so the run stays running
(finding `unmarked`) while the session can go on. `FetchFails` is one outside:
nothing is expired. Turns are ordered by name, as `list_stale` returns them. Of
a symbol only `coverage_end` is kept, of its bars the timestamps.

`Threshold` and `Lookback` are `incremental_stale_threshold_hours` and
`incremental_lookback_days`, in units of the clock.

### Reprocess and the code

`pc[w]` of a call of `reprocess_from_raw`: `replay` (at the head of the loop over
raw rows), `write` (in the savepoint of a row), `commit` (returned, the caller is
about to commit). An ingester is one fetch: `upload` (put the payload to the
object store), `archive` (insert the raw row), `write` (insert the bars). A bar
is named by the `created_at` of the payload it came from, which is all that
ordering needs; 0 is no bar. `image` is what the open transaction has written and
not rolled back. `CommitFetch` is the sync of the coverage and the commit, which
`Ingestion` has apart.

- `Upsert` and `Insert` write one bar, in the order of the payload, and wait for
  a transaction that has written it (`WaitsFor`). A circle of waits is resolved by
  PostgreSQL failing one statement (`Victim`): of a replay that costs the row, of
  a fetch the call. The victim is any of them.
- `RowFails` is whatever raises in a savepoint; `LoadFails` a payload that cannot
  be read; `FinalizeRaises` an exception of the final updates that is not a
  database error; a database error there leaves the transaction aborted, and the
  update in the handler fails too: that is `Rollback`, like a crash.
- A raw row is durable with its bars, an object before both; `Rollback` leaves
  the object.

`BarHistory` is to replays what `BarArchive` is to ingestion. `Rebuild` replays
some set of rows at once; which, is the caller's filter less the rows that
failed.

### FeatureSeries, FeatureStore and the code

A feature is a kind and a number of rows: `sma` stands for the moving averages and
`price_vs_sma_20`, `return` for the returns over n bars, the momenta and the daily
and logarithmic returns, `volatility`, `rsi`, `volume` and `spike` for the two
volume features (an average of zeros is a value, a ratio to it is not),
`cumulative`. `Lookback` is the rule of a kind; the number written by hand in each
class (`lookback_window=20`) is not represented. A value is `NaN` or the tuple of
numbers it is computed from, so that two values are equal when they are computed
from the same prices. The floating-point formulas are left out (TLC has no reals).

`FeatureStore`: `LookUp` and `Insert` are one entry of `seed_feature_definitions`,
`Seeded` the end of its transaction; `ReadBars` is `compute_and_store_features` up
to `upsert_many`, `Upsert` the statement for the rows of one feature,
`SymbolDone` and `SymbolFailed` the end of the savepoint of a symbol; `Answer` is
the response, `Commit` the commit of the session, which comes after it
(`db.py:34` runs when the response has been sent). A statement of 1000 rows that
is split differs from one for each feature only in where it can wait.
`Series` tabulates each feature over all bars there may be, which makes TLC fast;
it says nothing more than `Compute`. `ReadBars` merges the read of the bars with the
look-up of the definitions, which never change once stored. `Block` keeps every
value that is not NaN; the code also skips a finite value with too many digits for
the column (`calculator.py:125-130`), which no abstract value has.

### ProviderRequest and the code

`ReadPage` is a 200 in `_request_bars` with what `fetch_historical_bars` does
about it, `ReadLatest` the same for `fetch_latest_bars`, `TransientFailure` and
`Wake` the loop over attempts, `PermanentFailure` every other exit. `sent`,
`slept` and `streak` are history: nothing in the code reads them.

`ImplementsAnswer` is the contract `Ingestion` builds on: its `FetchChunk` takes
`Response`, all bars of the range that exist at one instant, in one step. Pages
are read at different instants; they add up to the bars at the last one because
bars are published in the order of time and a token never points past the clock. A
provider that publishes an old bar late breaks that, and no code here could
notice. A Retry-After is a number, and one that is not readable counts as none,
like in the code; the text `nan`, which `float` reads and neither the sign test
nor `min` rejects (`provider_adapter.py:70-76`), is outside the model; delays are
counted in twentieths of a second, and the jitter takes whole ones.

### QualityChecks and the code

One payload: `MapEntry`, `DedupeBar` are the two loops of `normalize_bars`,
`Check` the checks a caller makes on the result. The code calls the checks of a
batch nowhere yet: `run_checks` has only those of one bar, which compare its
fields and are left out. Symbol and timeframe are those of the request, so
there is one group of bars. Days are counted from a Monday. `Ordered` is the bars
sorted by time, chosen by what a sort ensures; a dict has one bar a timestamp.

## Runs

| run | instance | shows |
|---|---|---|
| `chunking` | ranges within 9 instants, windows 1 to 4 | the windows cover the range; why the loop does |
| `shared` | 2 sessions, 2 runs, 3 instants, crashes, shared resume | raw rows, coverage, counters; implements `BarArchive` |
| `exclusive` | 2 sessions, 2 backfills, 4 instants in chunks of 2, every fault | counters exact, outcomes, completeness |
| `sequential` | 1 session, 2 timeframes, 6 instants, both kinds, provider and pipeline faults | coverage exact, only holes skipped, runs end |
| `batch` | 2 symbols, one added late, the job and a request, 3 instants, 1 fault | what a failure leaves to other symbols; symbols become current |
| `reprocess` | 2 replays, 1 ingester, 2 bars, 2 raw rows at the start | implements `BarHistory`; runs tell the truth; calls end |
| `features` | 2 servers with different files, 2 symbols, 3 instants, 3 requests | definitions, values, answers; the seven kinds of features |
| `provider` | 3 bars, 3 pages of one bar, 3 attempts | implements `ProviderAnswer`; sleep bounded; outages |
| `quality` | payloads of 3 entries, 8 instants over a weekend | one bar a timestamp; days, slots and jumps reported once |
| `gap` | 1 session, 6 instants | **violated**: a covered chunk is not a stored chunk |
| `timeframes` | 2 timeframes | **violated**: the coverage of a symbol mixes timeframes |
| `unmarked` | 1 backfill, database fault | **violated**: the run stays running |

Bounds. `MaxTime` is the number of instants: 3 or 4 give two chunks, the
smallest range where one is committed and the other fails, and with a moving
clock a bar that is first live and then settled. `MaxRuns` 2 gives every pair
of calls, and resumes beside a new call; `MaxFailed` 1 lets a run fail, be
resumed and end. The holes of `gap` need 6 instants; `sequential` has as many and
starts its clock at the fifth, so that increments and failed backfills leave holes
of several chunks, which later backfills skip.
Symmetry permutes workers, only in runs without liveness. `provider` has as many
pages as bars: a call ends within its pages, at the last one, or beyond. Its
cap lies between the first and the second delay, and a header asks for more.
`quality` has pairs of bars on one day, at a distance of one to four and a half
steps, on neighbouring days, and across a weekend with a bar in it.

`batch`: two symbols are a failed turn and the one after it, two batches overlap
on both. `MaxFaults` 1 is one cause; a handler that fails is not counted, since
it takes a failure to get there. With `Threshold` 1 and three instants a symbol
becomes stale, current and stale again. `reprocess`: the older row has the bar
the newer one writes last, so that a replay and a fetch, or two replays, write
two bars in opposite orders; `MaxCalls` 2, and `MaxStamp` lets one fetch come
after both. `features`: the files and the requests name two features in
opposite orders, one file was edited without a new version; `MaxStarts` 3 lets
each server start and one of them again; a bar appears or a price is corrected
once. The properties of the features alone are evaluated in the initial
state, on every frame of up to `MaxRows` 5 cells that are zero (a bad price, a
quiet volume) or one of two values, which is longer than twice the window.

What the instances leave out on purpose. `exclusive` has no increments: `gap` is
what they do to completeness. `sequential` has no database fault, because
`unmarked` is what it does to outcomes and coverage, and one session; `FullBackfill` is
false there as in `gap`, and `OnlyHolesSkipped` is what is true. `batch` has
a look-back that reaches the first bar: bars before the look-back of a symbol's
first increment are never asked for, by design.

Known limits the properties are worded around:

- Coverage with two sessions. Its two ends are always timestamps of stored bars
  (`CoverageStored`, proved for `Ingestion`). More does not hold: the bounds are
  read in one statement and written in another, column by column where they
  differ from what the session loaded. Of two calls that sync at the same time
  the later commit may restore older bounds, and in larger instances leave
  `coverage_start` after `coverage_end`.
- Feature values are not removed when they become undefined, are stored under a
  key without the timeframe, and a request that read the bars earlier and commits
  later overwrites newer values. `RecomputeRefreshes` says what is left.
- The answer of `POST /features/compute` is sent before the commit. `AnswerTrue`
  relates it to the commit; that there is one, nothing ensures.
- A server whose definitions file was edited without a new version serves, but
  every computation of that feature fails until somebody changes the database.
  `ValuesUsable` says that no wrong value is stored.
- A batch whose session is poisoned fails all its remaining symbols.
  `FailuresContained` says when, `EventuallyCurrent` that the next job makes up for
  it.

Fairness. `FairSpec` asks for weak fairness of each worker's own work: the event
loop resumes a call whose await is done, and provider calls end: requests and
sleep are bounded (`ProviderRequestsBounded`, `ProviderSleepBounded`),
`REQUEST_TIMEOUT` ends a request and the event loop a sleep. Faults, calls,
crashes and the clock are not fair. `RunsEnd` is claimed without crashes: nothing
in the code ends the run of a process that died. In `SharedSession` the scheduler
is fair (`CronTrigger` fires again and again), the endpoint is not; faults are
bounded, so that `EventuallyCurrent` speaks of the time after the last one. In
`Reprocess` and `FeatureStore` every call goes on unless it waits for a row, and
PostgreSQL ends a circle of waits (`Victim` is fair, which of the circle is not).
Startups are bounded by `MaxStarts`: a server that dies and starts for ever would
starve nobody, but in a finite graph it would be a loop that serves no request.

## Proofs

Every invariant, action property and refinement that a passing run checks is
proved for all values of the constants, except `FullBackfill`; liveness is not.
Assumptions are those
of the modules (`TimeframesAssumption`, `MaxTimeAssumption`, `IngestionAssumption`,
`ChunkingAssumption`, `ProviderAssumption`, `ReprocessAssumption`,
`SharedSessionAssumption`, `FeatureStoreAssumption`, `QualityAssumption`): types of
the parameters, and in `FeatureStoreAssumption` that the cells of a frame are
integers, a window has at least one row, and a request names no symbol twice
(`dedupe_symbols`). `PowerAssumption`, that powers of two are natural numbers, is
arithmetic the provers lack. Workers may be infinitely many, windows and look-back
any natural number, the provider may offer any set of instants, any fault may
occur, and running runs may be resumed, unless a theorem says otherwise.

- `ChunkingLoopInvariant`, `ChunkingCorrect`. `LoopInvariant` says that the windows
  so far end right before `chunk_start`; `CoversRange` alone says nothing inside
  the loop.
- `IngestionTypeOK`. One lemma an action. `TypeOK` carries two facts beyond
  types: a call that executes has a run, and a transaction holds staged bars
  only in the tail of its call.
- `IngestionStagedExclusive`. Inductive with `KindsFit`. The commits that store
  bars keep it because `Unblocked` held when the bars were staged or stored.
- `IngestionImplementsArchive`. `CommitSuccess` inserts the bars that were
  missing some steps earlier; `StagedExclusive` says they are still the missing
  ones, so that the step is `Ingest` of the abstract specification.
- `IngestionTraced`. `RawRowsStored` and `BarsTraceable`, from that step.
- `IngestionCoverageStored`. `JobCovers` follows bounds from the read to the
  write: they name stored or staged bars, and a NULL never replaces a value, so
  that writing one column of two leaves no half-set coverage.

What `RunProofs` says of runs:

- `IngestionNeverOverstated`, without any condition. A ledger gives each stored bar
  to one run or to none. A session adds to the counter it loaded, so an
  update may be lost, but the bars a counter stands for are in the ledger: the
  counter of a run is at most the bars given to it. The sum over runs is
  the cardinality of a disjoint union.
- `IngestionOutcomeConsistent`, `IngestionSucceededFinal`, `IngestionInsertedExact`,
  where no live run is resumed (`SharedResume = FALSE`; with it, each of the three
  is false, as TLC shows). `RowsHeld`: at most one call executes a run, and the row
  is what that call loaded or wrote last, so its columns cannot be rewritten from
  an older copy. Then the ledger is exact: every stored bar has a run, every
  counter is the bars given to it.
- `IngestionCoverageExact`, with one session (`OneWorker`) and without the faults that
  escape the handlers (`HandledFaults`: database, sync, crash): what the run
  `sequential` assumes, and `unmarked` and the known limits show why. `Follows`: the
  coverage the call loaded is the coverage, which is exact until the call stores
  its first bar, and it reads the bounds before it ends.
- `IngestionOnlyHolesSkipped`, without any condition: increments, overlapping
  backfills, shared runs and crashes included. `AnsweredInvariant` follows a run
  through its attempts. A fetch comes after its run was created, so a raw row of a
  run holds every bar of its chunk that the run owes, and the bars of raw rows are
  stored (`Traced`). Then each chunk behind the cursor of a call was fetched in
  this call, has a raw row of the run, or lies within the bounds the call read;
  only in the last case may a bar be missing. `FullBackfill`, that none is missing, holds
  for backfills that begin at one instant, without increments (run `exclusive`, TLC
  only), and fails where a hole can form first (finding `gap`).

`ProviderProofs`:

- `ProviderRequestsBounded`, `ProviderSleepBounded`, `ProviderOutageTolerated`.
  `CallInvariant` gives `sent`, `slept` and `streak` as bounds in `pages` and
  `attempt` at each point of the two loops; the rest is arithmetic of products,
  stated once in `Products`.
- `ProviderImplementsAnswer`. `PagesInvariant`: the pages read so far are, in order,
  the bars queried up to the token, and the token is not after the clock, so no
  bar is published behind it. The last page leaves nothing up to now; dropping
  fractions of a second from the query loses no bar of the range, because bars lie
  on whole seconds (`FormatFacts`).

`ReprocessProofs` adds a layer for each theorem, each inductive given those
before it:

- `ReprocessTypeOK`. `TypeInv` strengthens `TypeOK`: `raw` is finite (a call takes
  the least row left, which must exist), what a row has done is part of its
  payload, and every stamp is from the past.
- `ReprocessRunTellsTruth`. `ReplayInv`: the rows replayed are some of those
  selected and are older than those left, and the image of the transaction is
  the last of them for every bar. A row that fails takes its own bars out of the
  image, because the savepoint kept the earlier one.
- `ReprocessImplementsHistory`. `LockInv`: no two transactions hold the same bar,
  so that what a fetch found and what a replay wrote is still so at the commit;
  then a commit is `Fetch` or `Rebuild` of `BarHistory` and everything else a
  stutter.
- `ReprocessCoverageStored`. The bounds are read before the commit and written by
  it; a bar in between may be replaced and is never removed.
- `ReprocessPayloadsReachable`. An upload comes before the row that names it.

`SharedSessionProofs` has two inductive invariants:

- `SharedSessionContained`, `SharedSessionSummary`. `SessionInv`: what is done comes
  before the symbol at hand and that before those to come, so a failure found
  earlier is a failure of an earlier symbol; an aborted transaction, a poisoned
  result and an expired run each have such a failure to explain them.
- `SharedSessionCoverage`, `SharedSessionCurrent`, under `Lookback >= MaxTime`: the
  first increment of a symbol looks back to the first bar, as in the run; bars
  before it are never asked for, by design. `HonestInv`: the bars
  of a symbol have no hole before any of them, what a session loaded long ago is
  still stored, and at every point of a turn the stored and the staged bars are
  complete up to the end of its range. The sync may read a bound of another
  batch beyond that range; it is harmless because that batch left no hole either.

`FeatureProofs`:

- `FeatureSeededServes`, `FeatureValuesUsable`. `SeedInvariant`: the entries of the file
  behind a starting server are stored, or about to be stored by the transaction
  of the server itself; it skips an entry only if it is stored already, after
  waiting. Definitions are never changed, so what a request checked before it
  computed is so when it commits.
- `FeatureAnswerTrue`, `FeatureRecomputeRefreshes`. The image of a request's
  transaction differs from the table only in what its answer names; for the
  symbols computed it has the values of the frame that was read.
- `FeatureNoLookAhead`, `FeatureBadPricesReset`, `FeatureLookbackExact`, about every
  frame. The features are functions of windows but for the RSI, a recursion over
  rows. A recursive function is the solution of its equation; that there is one
  and only one is proved by a least counterexample, and then the state at a row is
  given in closed form: reset at a bad price, seeding, or smoothed from the last
  good stretch. The three properties follow from that form.

`QualityProofs`: `QualityNormalizedOnce`, `QualityJumpsChronological`,
`QualityDaysAccounted`, `QualitySlotsAccounted`. `PayloadInvariant`: the dict of
`normalize_bars` is, after each entry, the last entry of each timestamp seen, in
the order the timestamps came first (`Kept`). Bars with distinct timestamps can be
sorted (by a least counterexample on their number), so `Ordered` is a sort. The
reports are about neighbours in that order: `Crossing` says that between a bar
before an instant and one after it there are two neighbours around it, and no bar
is between neighbours.

Only model-checked: liveness, which the prover cannot handle (`RunsEnd`, `CallsEnd`,
`RequestsEnd`, `EventuallyCurrent`), and `FullBackfill`, which needs the ranges of the
run `exclusive`: for others it is false.

## Plan

1. done: `MarketData`, `Chunking`, `BarArchive`, `Ingestion`, `ProviderAnswer`,
   `ProviderRequest`, `QualityChecks`, their runs and proofs.
2. done: `SharedSession`, one session for the symbols of a batch, the registry and
   the scheduler, with proofs.
3. done: `BarHistory` and `Reprocess`, replays with savepoints, row locks and the
   object store, with the refinement proved.
4. done: `FeatureSeries` and `FeatureStore`, with proofs.
5. done: proofs of the outcomes, counters and coverage of `Ingestion` and of what
   its backfills skip, of `ImplementsAnswer`, and of every property of the
   features and of the checks.
6. left: conditions on ranges and increments under which no hole forms, so that
   `FullBackfill` can be proved from them.

## Not modelled

- The floating-point formulas of the features: a feature is abstracted to the
  rows it reads and when it is defined (TLC has no reals).
- `backfill_symbols`: nothing in the backend calls it, and it is the loop of
  `incremental_symbols` around `backfill_symbol`, each of which has its model.
- `set_active` and `delete` of feature definitions: only tests call them.
- The checks of one bar (comparisons of its fields), and the rows of
  `data_quality_checks`: written with the bars and read by nothing.
- Read-only endpoints and queries, routing, serialisation, configuration, logging,
  metrics: no state, or none that anything else depends on.
- `providers/fake.py`, a test double; the migrations, which run before the program.
