----------------------------- MODULE Ingestion ------------------------------
(***************************************************************************)
(* Ingestion of one symbol: backfill_symbol (new and resumed runs) and     *)
(* incremental_symbol, executed by several workers at once.  A worker is   *)
(* one call with a database session of its own: a caller of                *)
(* backfill_symbol, the scheduler's job, the bulk endpoint.                *)
(*                                                                         *)
(* runs, bars, raw and cov are the committed rows of PostgreSQL (READ      *)
(* COMMITTED).  Everything else a call knows is in job[w]: its local       *)
(* variables, the copies of the run row and the symbol row its session     *)
(* holds, and the rows of its open transaction.                            *)
(***************************************************************************)
EXTENDS MarketData, Sequences, FiniteSets

CONSTANTS
    Workers,            \* sessions that may ingest at the same time
    MaxRuns,            \* bound: rows of ingestion_runs
    MaxFailed,          \* bound: failures one run may count
    Kinds,              \* the run types this instance starts
    Ranges,             \* the (start, end) a backfill may be asked for
    Window,             \* the chunk window, one less than its instants
    Lookback,           \* incremental's lookback_days
    Offered,            \* the timestamps the provider has, by timeframe
    FirstTime,          \* the clock at the start
    Faults,             \* what may go wrong in this instance
    SharedResume        \* may a run that a worker still executes be resumed?

\* The code has no check behind SharedResume = FALSE: it stands for operators
\* who resume only runs that no live worker holds.
ASSUME IngestionAssumption ==
    /\ MaxRuns \in Nat
    /\ MaxFailed \in Nat
    /\ Kinds \subseteq {"backfill", "incremental"}
    /\ Ranges \subseteq {r \in Time \X Time : r[1] <= r[2]}
    /\ Window \in Nat
    /\ Lookback \in Nat
    /\ Offered \in [Timeframes -> SUBSET Time]
    /\ FirstTime \in Time
    /\ Faults \subseteq {"provider", "pipeline", "database", "sync", "crash"}
    /\ SharedResume \in BOOLEAN

VARIABLES
    now,    \* the wall clock
    runs,   \* ingestion_runs, indexed by id
    bars,   \* market_bars of the symbol, by timeframe
    raw,    \* raw_market_data of the symbol
    cov,    \* coverage_start and coverage_end of the symbol
    pc,     \* where each worker is
    job     \* what each worker knows

db == <<runs, bars, raw, cov>>
vars == <<now, runs, bars, raw, cov, pc, job>>

-----------------------------------------------------------------------------
\* Rows and local state.

Statuses == {"pending", "running", "succeeded", "failed"}

\* error: error_message is set; finished: finished_at is set.
RunRows == [type: {"backfill", "incremental"}, status: Statuses,
            fetched: Nat, inserted: Nat, failed: Nat,
            error: BOOLEAN, finished: BOOLEAN, created: Time]

NewRun(type) ==
    [type |-> type, status |-> "pending", fetched |-> 0, inserted |-> 0,
     failed |-> 0, error |-> FALSE, finished |-> FALSE, created |-> now]

RunIds == 1 .. Len(runs)

\* A worker that executes nothing.
NoJob ==
    [kind |-> "none", tf |-> CHOOSE tf \in Timeframes : TRUE,
     start |-> 0, end |-> 0, run |-> 0,
     cursor |-> 0,                  \* chunk_start of the chunk at hand
     processed |-> {},              \* already_processed
     existing |-> NoBounds,         \* existing_start, existing_end
     batch |-> NoBars,              \* bars returned by the provider
     staged |-> {},                 \* timestamps its open transaction inserted
     fetched |-> 0, inserted |-> 0, failed |-> 0,
     synced |-> FALSE, bounds |-> NoBounds,
     seenRun |-> [type |-> "backfill", status |-> "pending", fetched |-> 0,
                  inserted |-> 0, failed |-> 0, error |-> FALSE,
                  finished |-> FALSE, created |-> 1],
     seenCov |-> NoBounds]

\* What an UPDATE of the unit of work does to a row: only the columns whose
\* value in the session differs from the value it loaded are written.
Flush(row, loaded, object) ==
    [f \in DOMAIN row |-> IF object[f] # loaded[f] THEN object[f] ELSE row[f]]

Stored == UNION {DOMAIN bars[tf] : tf \in Timeframes}

Init ==
    /\ now = FirstTime
    /\ runs = <<>>
    /\ bars = [tf \in Timeframes |-> NoBars]
    /\ raw = {}
    /\ cov = NoBounds
    /\ pc = [w \in Workers |-> "idle"]
    /\ job = [w \in Workers |-> NoJob]

-----------------------------------------------------------------------------
\* Control flow of one call.

Goto(w, label, locals) ==
    /\ pc' = [pc EXCEPT ![w] = label]
    /\ job' = [job EXCEPT ![w] = locals]

Leave(w) == Goto(w, "idle", NoJob)

\* Where the success path of a call goes once all bars are in.
SuccessTail(j) == IF j.inserted > 0 THEN "sync" ELSE "close"

\* The head of the loop over chunks.
LoopHead(j) == IF j.cursor > j.end THEN SuccessTail(j) ELSE "loop"

ChunkEnd(j) == WindowEnd(j.cursor, Window, j.end)

ChunkKey(j) == <<j.tf, j.cursor, ChunkEnd(j)>>

\* Mutant: a chunk that only touches the existing coverage is skipped too.
SkippableOverlap(j) ==
    \/ ChunkKey(j) \in j.processed
    \/ /\ j.existing # NoBounds
       /\ j.cursor <= j.existing.end
       /\ ChunkEnd(j) >= j.existing.start

\* A chunk is not fetched when the run has a raw row for it, or when it lies
\* within the first and the last bar the timeframe had as the call began.
Skippable(j) ==
    \/ ChunkKey(j) \in j.processed
    \/ /\ j.existing # NoBounds
       /\ j.cursor >= j.existing.start
       /\ ChunkEnd(j) <= j.existing.end

Advance(j) == [j EXCEPT !.cursor = NextWindow(ChunkEnd(j))]

\* Mutant: every bar of the response is inserted and counted, as an upsert does.
AllFetched(j) == DOMAIN j.batch

Missing(j) == DOMAIN j.batch \ DOMAIN bars[j.tf]

\* Mutant: an insert does not wait for the transaction that holds its key.
UnblockedAlways(w) == TRUE

\* ON CONFLICT DO NOTHING waits for a transaction that inserted the same key
\* and has not ended yet.
Unblocked(w) ==
    \A v \in Workers \ {w} :
        job[v].tf = job[w].tf => job[v].staged \cap DOMAIN job[w].batch = {}

\* Bars the provider returns for [from, to] at this moment.
Response(tf, from, to) ==
    [t \in {u \in Offered[tf] : from <= u /\ u <= to /\ u <= now} |->
        IF t = now THEN "live" ELSE "settled"]

RawRow(j, from, to) ==
    [run |-> j.run, tf |-> j.tf, start |-> from, end |-> to,
     payload |-> j.batch]

-----------------------------------------------------------------------------
\* POST /backfill and POST /incremental: a pending run that nothing executes.
Trigger(type) ==
    /\ Len(runs) < MaxRuns
    /\ runs' = Append(runs, NewRun(type))
    /\ UNCHANGED <<now, bars, raw, cov, pc, job>>

\* backfill_symbol up to the first commit, for a new run.
StartBackfill(w, tf, range) ==
    LET row == [NewRun("backfill") EXCEPT !.status = "running"]
        j == [NoJob EXCEPT !.kind = "backfill", !.tf = tf,
                !.start = range[1], !.end = range[2], !.cursor = range[1],
                !.run = Len(runs) + 1,
                !.existing = BoundsOf(DOMAIN bars[tf]),
                !.seenRun = row, !.seenCov = cov]
    IN  /\ pc[w] = "idle" /\ "backfill" \in Kinds
        /\ Len(runs) < MaxRuns
        /\ runs' = Append(runs, row)
        /\ Goto(w, LoopHead(j), j)
        /\ UNCHANGED <<now, bars, raw, cov>>

\* Mutant: a run that succeeded can be resumed.
ResumableAgain(i) == runs[i].type = "backfill"

\* _load_resume_run: the run may be pending, failed or running.
Resumable(i) == runs[i].type = "backfill" /\ runs[i].status # "succeeded"

\* Mutant: the raw rows of other runs count as well.
AlreadyProcessedByAny(i) == {<<r.tf, r.start, r.end>> : r \in raw}

\* The chunks that have a raw row of the run.
AlreadyProcessed(i) ==
    {<<r.tf, r.start, r.end>> : r \in {q \in raw : q.run = i}}

\* backfill_symbol with resume_run_id: what it reads before it marks the run.
\* tf and range are the caller's and need not be those of the first call.
BeginResume(w, i, tf, range) ==
    /\ pc[w] = "idle" /\ "backfill" \in Kinds
    /\ Resumable(i)
    /\ SharedResume \/ \A v \in Workers : job[v].run # i
    /\ Goto(w, "resume",
            [NoJob EXCEPT !.kind = "backfill", !.tf = tf,
               !.start = range[1], !.end = range[2], !.cursor = range[1],
               !.run = i,
               !.existing = BoundsOf(DOMAIN bars[tf]),
               !.processed = AlreadyProcessed(i),
               !.fetched = runs[i].fetched, !.inserted = runs[i].inserted,
               !.failed = runs[i].failed,
               !.seenRun = runs[i], !.seenCov = cov])
    /\ UNCHANGED <<now, db>>

\* Mutant: the outcome of the earlier attempt is not cleared.
CommitResumeKeeping(w) ==
    LET j == job[w]
        row == Flush(runs[j.run], j.seenRun,
                     [j.seenRun EXCEPT !.status = "running"])
    IN  /\ pc[w] = "resume"
        /\ runs' = [runs EXCEPT ![j.run] = row]
        /\ Goto(w, LoopHead(j), [j EXCEPT !.seenRun = row])
        /\ UNCHANGED <<now, bars, raw, cov>>

\* The resumed run is marked running and the mark is committed.
CommitResume(w) ==
    LET j == job[w]
        row == Flush(runs[j.run], j.seenRun,
                     [j.seenRun EXCEPT !.status = "running", !.error = FALSE,
                                       !.finished = FALSE])
    IN  /\ pc[w] = "resume"
        /\ runs' = [runs EXCEPT ![j.run] = row]
        /\ Goto(w, LoopHead(j), [j EXCEPT !.seenRun = row])
        /\ UNCHANGED <<now, bars, raw, cov>>

SkipChunk(w) ==
    LET j == job[w]
    IN  /\ pc[w] = "loop"
        /\ Skippable(j)
        /\ Goto(w, LoopHead(Advance(j)), Advance(j))
        /\ UNCHANGED <<now, db>>

FetchChunk(w) ==
    LET j == job[w]
    IN  /\ pc[w] = "loop"
        /\ ~Skippable(j)
        /\ Goto(w, "ingest",
                [j EXCEPT !.batch = Response(j.tf, j.cursor, ChunkEnd(j))])
        /\ UNCHANGED <<now, db>>

\* One transaction: the raw row, the bars that are missing, the counters.
CommitChunk(w) ==
    LET j == job[w]
        fetched == j.fetched + Cardinality(DOMAIN j.batch)
        inserted == j.inserted + Cardinality(Missing(j))
        row == Flush(runs[j.run], j.seenRun,
                     [j.seenRun EXCEPT !.fetched = fetched,
                                       !.inserted = inserted])
        next == [Advance(j) EXCEPT !.fetched = fetched, !.inserted = inserted,
                                   !.seenRun = row, !.batch = NoBars]
    IN  /\ pc[w] = "ingest" /\ j.kind = "backfill"
        /\ Unblocked(w)
        /\ raw' = raw \cup {RawRow(j, j.cursor, ChunkEnd(j))}
        /\ bars' = [bars EXCEPT ![j.tf] = InsertMissing(@, j.batch)]
        /\ runs' = [runs EXCEPT ![j.run] = row]
        /\ Goto(w, LoopHead(next), next)
        /\ UNCHANGED <<now, cov>>

-----------------------------------------------------------------------------
\* coverage_end is the symbol's: the last bar of any timeframe.
IncrementalStart == IF cov = NoBounds THEN now - Lookback ELSE cov.end

\* incremental_symbol up to its first commit.
StartIncremental(w, tf) ==
    LET row == [NewRun("incremental") EXCEPT !.status = "running"]
    IN  /\ pc[w] = "idle" /\ "incremental" \in Kinds
        /\ Len(runs) < MaxRuns
        /\ IncrementalStart < now
        /\ runs' = Append(runs, row)
        /\ Goto(w, "fetch",
                [NoJob EXCEPT !.kind = "incremental", !.tf = tf,
                   !.start = IncrementalStart, !.end = now,
                   !.run = Len(runs) + 1, !.seenRun = row, !.seenCov = cov])
        /\ UNCHANGED <<now, bars, raw, cov>>

\* incremental_symbol when start >= end: the call is over at once.
AlreadyCurrent(w, tf) ==
    /\ pc[w] = "idle" /\ "incremental" \in Kinds
    /\ Len(runs) < MaxRuns
    /\ IncrementalStart >= now
    /\ runs' = Append(runs, [NewRun("incremental") EXCEPT
                                !.status = "succeeded", !.finished = TRUE])
    /\ UNCHANGED <<now, bars, raw, cov, pc, job>>

FetchIncremental(w) ==
    LET j == job[w]
        batch == Response(j.tf, j.start, j.end)
    IN  /\ pc[w] = "fetch"
        /\ Goto(w, "ingest",
                [j EXCEPT !.batch = batch,
                          !.fetched = Cardinality(DOMAIN batch)])
        /\ UNCHANGED <<now, db>>

\* The raw row and the missing bars are inserted; the transaction stays open.
StageIncremental(w) ==
    LET j == job[w]
        next == [j EXCEPT !.staged = Missing(j),
                          !.inserted = Cardinality(Missing(j))]
    IN  /\ pc[w] = "ingest" /\ j.kind = "incremental"
        /\ Unblocked(w)
        /\ Goto(w, SuccessTail(next), next)
        /\ UNCHANGED <<now, db>>

-----------------------------------------------------------------------------
\* The tails of both calls.

\* Mutant: coverage_end is the time of the sync, not the last bar.
ReadBoundsNow(w) ==
    LET j == job[w]
        stored == BoundsOf(Stored \cup j.staged)
    IN  /\ pc[w] \in {"sync", "fsync"}
        /\ Goto(w, IF pc[w] = "sync" THEN "close" ELSE "fail",
                [j EXCEPT !.bounds = [stored EXCEPT !.end = now],
                          !.synced = TRUE])
        /\ UNCHANGED <<now, db>>

\* sync_symbol_coverage reads the bounds of every bar it sees: the committed
\* ones and those of its own transaction.
ReadBounds(w) ==
    LET j == job[w]
    IN  /\ pc[w] \in {"sync", "fsync"}
        /\ Goto(w, IF pc[w] = "sync" THEN "close" ELSE "fail",
                [j EXCEPT !.bounds = BoundsOf(Stored \cup j.staged),
                          !.synced = TRUE])
        /\ UNCHANGED <<now, db>>

\* The bounds are written to the symbol row.
WriteCoverage(j) ==
    cov' = IF j.synced THEN Flush(cov, j.seenCov, j.bounds) ELSE cov

\* The last transaction of a call that succeeds.
CommitSuccess(w) ==
    LET j == job[w]
        incremental == j.kind = "incremental"
    IN  /\ pc[w] = "close"
        /\ raw' = IF incremental THEN raw \cup {RawRow(j, j.start, j.end)}
                  ELSE raw
        /\ bars' = IF incremental
                   THEN [bars EXCEPT ![j.tf] =
                           [t \in DOMAIN @ \cup j.staged |->
                              IF t \in j.staged THEN j.batch[t] ELSE @[t]]]
                   ELSE bars
        /\ WriteCoverage(j)
        /\ runs' = [runs EXCEPT ![j.run] =
                      Flush(@, j.seenRun,
                            [j.seenRun EXCEPT
                               !.status = "succeeded", !.finished = TRUE,
                               !.fetched = j.fetched, !.inserted = j.inserted,
                               !.failed = j.failed])]
        /\ Leave(w)
        /\ UNCHANGED now

\* Mutant: the handler reads an expired run and raises.
HandleExpired(w) == Leave(w)

\* Mutant: the handler does not sync the coverage of earlier chunks.
HandleUnsynced(w) ==
    Goto(w, "fail", [job[w] EXCEPT !.failed = @ + 1, !.batch = NoBars])

\* The `except Exception` of both calls, when no transaction is open: the
\* failure is counted, and a backfill that inserted bars syncs the coverage.
Handle(w) ==
    LET j == job[w]
        label == IF j.kind = "backfill" /\ j.inserted > 0 THEN "fsync" ELSE "fail"
    IN  Goto(w, label, [j EXCEPT !.failed = @ + 1, !.batch = NoBars])

\* The provider gives up.
FetchFails(w) ==
    /\ "provider" \in Faults
    /\ \/ pc[w] = "fetch"
       \/ pc[w] = "loop" /\ ~Skippable(job[w])
    /\ job[w].failed < MaxFailed
    /\ Handle(w)
    /\ UNCHANGED <<now, db>>

\* The pipeline raises before its first statement.
PipelineFails(w) ==
    /\ "pipeline" \in Faults
    /\ pc[w] = "ingest"
    /\ job[w].failed < MaxFailed
    /\ Handle(w)
    /\ UNCHANGED <<now, db>>

\* Mutant: the counters are committed before the bars they count.
TransactionFailsCounted(w) ==
    LET j == job[w]
    IN  /\ "database" \in Faults
        /\ pc[w] = "ingest"
        /\ runs' = [runs EXCEPT ![j.run].inserted = @ + Cardinality(Missing(j))]
        /\ Leave(w)
        /\ UNCHANGED <<now, bars, raw, cov>>

\* A statement, the normalisation, the validation or the commit of the fetch
\* raises inside the transaction.  session.rollback() undoes it and expires
\* every object of the session, the run too: the handler's own read of run.id
\* then needs a query that a plain attribute access cannot await and raises.
\* The call ends with the run unmarked and its caller drops the session.
TransactionFails(w) ==
    /\ "database" \in Faults
    /\ pc[w] = "ingest"
    /\ Leave(w)
    /\ UNCHANGED <<now, db>>

\* The handler logs an exception of sync_symbol_coverage and goes on.
SyncRaises(w) ==
    /\ "sync" \in Faults
    /\ pc[w] = "fsync"
    /\ Goto(w, "fail", job[w])
    /\ UNCHANGED <<now, db>>

CommitFailure(w) ==
    LET j == job[w]
    IN  /\ pc[w] = "fail"
        /\ WriteCoverage(j)
        /\ runs' = [runs EXCEPT ![j.run] =
                      Flush(@, j.seenRun,
                            [j.seenRun EXCEPT
                               !.status = "failed", !.finished = TRUE,
                               !.error = TRUE, !.fetched = j.fetched,
                               !.inserted = j.inserted, !.failed = j.failed])]
        /\ Leave(w)
        /\ UNCHANGED <<now, bars, raw>>

\* Mutant: the session of a call that dies is not closed.
CrashLeaving(w) ==
    /\ "crash" \in Faults
    /\ pc[w] # "idle"
    /\ pc' = [pc EXCEPT ![w] = "idle"]
    /\ UNCHANGED <<now, db, job>>

\* Mutant: the raw row was committed before the bars of its payload.
CrashAfterRaw(w) ==
    LET j == job[w]
    IN  /\ "crash" \in Faults
        /\ pc[w] # "idle"
        /\ raw' = IF pc[w] = "ingest"
                  THEN raw \cup {RawRow(j, j.cursor, ChunkEnd(j))} ELSE raw
        /\ Leave(w)
        /\ UNCHANGED <<now, runs, bars, cov>>

\* The process dies, the task is cancelled (scheduler.shutdown(wait=False)), or
\* the tail raises outside the handlers: the open transaction is gone.
Crash(w) ==
    /\ "crash" \in Faults
    /\ pc[w] # "idle"
    /\ Leave(w)
    /\ UNCHANGED <<now, db>>

Tick ==
    /\ now < MaxTime
    /\ now' = now + 1
    /\ UNCHANGED <<db, pc, job>>

\* Nothing to do until somebody calls again.
Rest ==
    /\ \A w \in Workers : pc[w] = "idle"
    /\ UNCHANGED vars

-----------------------------------------------------------------------------
\* What a worker does by itself once it is called.
Work(w) ==
    \/ CommitResume(w)
    \/ SkipChunk(w)
    \/ FetchChunk(w)
    \/ CommitChunk(w)
    \/ FetchIncremental(w)
    \/ StageIncremental(w)
    \/ ReadBounds(w)
    \/ CommitSuccess(w)
    \/ CommitFailure(w)

Call(w) ==
    \E tf \in Timeframes :
        \/ \E range \in Ranges :
              \/ StartBackfill(w, tf, range)
              \/ \E i \in RunIds : BeginResume(w, i, tf, range)
        \/ StartIncremental(w, tf)
        \/ AlreadyCurrent(w, tf)

Fault(w) ==
    \/ FetchFails(w)
    \/ PipelineFails(w)
    \/ TransactionFails(w)
    \/ SyncRaises(w)
    \/ Crash(w)

Next ==
    \/ \E type \in Kinds : Trigger(type)
    \/ \E w \in Workers : Call(w) \/ Work(w) \/ Fault(w)
    \/ Tick
    \/ Rest

Spec == Init /\ [][Next]_vars

\* The event loop runs every call that can go on, and a provider call returns
\* or raises: its retries and pages are bounded.
FairSpec == Spec /\ \A w \in Workers : WF_vars(Work(w))

-----------------------------------------------------------------------------
\* Properties.

Labels == {"idle", "resume", "loop", "fetch", "ingest", "sync", "close",
           "fsync", "fail"}

Jobs == [kind: {"none", "backfill", "incremental"}, tf: Timeframes,
         start: Int, end: Int, run: Nat, cursor: Int,
         processed: SUBSET (Timeframes \X Int \X Int),
         existing: Bounds, batch: Batches, staged: SUBSET Time,
         fetched: Nat, inserted: Nat, failed: Nat,
         synced: BOOLEAN, bounds: Bounds, seenRun: RunRows, seenCov: Bounds]

\* Every variable has its type, every call that executes has a run, and a
\* transaction that is open holds bars of its fetch, in the tail of the call.
TypeOK ==
    /\ now \in Time
    /\ runs \in Seq(RunRows)
    /\ bars \in [Timeframes -> Batches]
    /\ raw \subseteq RawRows
    /\ cov \in Bounds
    /\ pc \in [Workers -> Labels]
    /\ job \in [Workers -> Jobs]
    /\ \A w \in Workers :
          /\ pc[w] # "idle" => job[w].run \in RunIds
          /\ job[w].staged \subseteq DOMAIN job[w].batch
          /\ job[w].staged # {} => pc[w] \in {"sync", "close"}

\* The stored data behaves as BarArchive says: every step of every worker
\* leaves bars and raw alone or makes one whole fetch durable, and a stored
\* bar never changes, also while transactions of other workers are open.
Archive == INSTANCE BarArchive
ImplementsArchive == Archive!Spec
RawRowsStored == Archive!RawRowsStored
BarsTraceable == Archive!BarsTraceable

\* The open transaction of an incremental call holds exactly the bars of its
\* fetch that are not stored, and no two open transactions hold the same bar.
StagedExclusive ==
    \A w \in Workers :
        LET j == job[w] IN
        /\ j.staged \cap DOMAIN bars[j.tf] = {}
        /\ j.kind = "incremental" /\ pc[w] \in {"sync", "close"}
              => Missing(j) = j.staged
        /\ \A v \in Workers \ {w} :
              job[v].tf = j.tf => job[v].staged \cap j.staged = {}

\* The coverage of the symbol never claims a bar that is not stored: its two
\* ends are timestamps of stored bars, although they are computed from an
\* earlier read, written column by column, and rewritten by several sessions.
\* Incremental starts at coverage_end, so an end no bar has would lose bars.
CoverageStored == cov = NoBounds \/ {cov.start, cov.end} \subseteq Stored

\* A run that is over says so in all its columns: it has a finish time, and a
\* failed one has an error.  Resuming a run clears both.
OutcomeConsistent ==
    \A i \in RunIds :
        /\ runs[i].finished <=> runs[i].status \in {"succeeded", "failed"}
        /\ runs[i].status = "failed" => runs[i].error /\ runs[i].failed > 0

\* The counters of the runs add up to the bars there are: each bar was counted
\* by exactly one run, across failures, crashes and resumed runs.
TotalInserted ==
    LET sum[n \in 0 .. Len(runs)] ==
            IF n = 0 THEN 0 ELSE sum[n - 1] + runs[n].inserted
    IN  sum[Len(runs)]

TotalStored ==
    Cardinality({key \in Timeframes \X Time : key[2] \in DOMAIN bars[key[1]]})

InsertedExact == TotalInserted = TotalStored

\* Whoever shares a run with whom, no bar is counted twice: after lost updates
\* of the counters they report too little, never too much.
InsertedNeverOverstated == TotalInserted <= TotalStored

\* Incremental ingestion leaves no hole: every bar the provider offers between
\* two stored bars of a timeframe is stored.
Contiguous ==
    \A tf \in Timeframes : \A t \in Offered[tf] :
        (\E a, b \in DOMAIN bars[tf] : a <= t /\ t <= b) => t \in DOMAIN bars[tf]

\* "Recompute symbol coverage from stored market bars": when no call is
\* executing, the coverage of the symbol is that of its bars.
CoverageExact ==
    (\A w \in Workers : pc[w] = "idle") => cov = BoundsOf(Stored)

\* A backfill that is about to record success lacks a bar of its range only in
\* a hole: strictly between the first and the last bar its timeframe had when
\* the call began, in a chunk its run never fetched.  All other bars that the
\* provider offered when the run was created are stored, whatever failed,
\* crashed, was resumed or was ingested meanwhile.
OnlyHolesSkipped ==
    \A w \in Workers :
        LET j == job[w] IN
        j.kind = "backfill" /\ pc[w] \in {"sync", "close"} =>
            \A t \in Offered[j.tf] \ DOMAIN bars[j.tf] :
                j.start <= t /\ t <= j.end /\ t <= runs[j.run].created =>
                    /\ j.existing # NoBounds
                    /\ j.existing.start < t /\ t < j.existing.end
                    /\ \A r \in raw :
                          r.run = j.run /\ r.tf = j.tf => t < r.start \/ r.end < t

-----------------------------------------------------------------------------
\* Action and liveness properties.

Ends(w) == pc[w] # "idle" /\ pc'[w] = "idle"

\* "Run a full backfill for one symbol and date range": a backfill that ends
\* as succeeded has stored every bar of its range that the provider offered
\* when the run was created.
FullBackfill ==
    [][\A w \in Workers :
          LET j == job[w] IN
          Ends(w) /\ j.kind = "backfill" /\ runs'[j.run].status = "succeeded"
          => \A t \in Offered[j.tf] :
                j.start <= t /\ t <= j.end /\ t <= runs[j.run].created
                => t \in DOMAIN bars'[j.tf]]_vars

\* A run that succeeded is never touched again.
SucceededFinal ==
    [][\A i \in RunIds : runs[i].status = "succeeded" => runs'[i] = runs[i]]_vars

\* No call returns or raises with its run still marked running.
OutcomeRecorded ==
    [][\A w \in Workers :
          Ends(w) => runs'[job[w].run].status \in {"succeeded", "failed"}]_vars

\* A run that executes comes to an end.
RunsEnd ==
    \A i \in 1 .. MaxRuns :
        (i \in RunIds /\ runs[i].status = "running")
        ~> (i \in RunIds /\ runs[i].status \in {"succeeded", "failed"})
=============================================================================
