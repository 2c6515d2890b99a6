---------------------------- MODULE SharedSession ---------------------------
(***************************************************************************)
(* Batches of incremental ingestion: the scheduler's job and the bulk      *)
(* endpoint both look up the stale symbols and run incremental_symbols     *)
(* over them, all symbols of a batch through ONE database session.         *)
(*                                                                         *)
(* What Ingestion models of one call with a session of its own is here one *)
(* turn of the loop, and what counts is what a turn leaves to the next:    *)
(* the objects the session has loaded (expire_on_commit is off, and a      *)
(* SELECT does not refresh a loaded object), the objects a rollback has    *)
(* expired, and a transaction that a failure has aborted.                  *)
(***************************************************************************)
EXTENDS Integers, FiniteSetsExt

CONSTANTS
    Symbols,        \* the tickers, as numbers in the order of their names
    FirstSymbols,   \* those registered at the start
    Batches,        \* callers of incremental_symbols, each with a session
    Bulk,           \* those that are requests to the bulk endpoint
    MaxTime,        \* bound: the clock stops here
    Threshold,      \* age from which a coverage is stale
    Lookback,       \* lookback_days
    Offered,        \* the timestamps the provider has a bar for
    MaxFaults       \* bound: how often something goes wrong

Time == 1 .. MaxTime

ASSUME SharedSessionAssumption ==
    /\ Symbols \subseteq Nat \ {0}
    /\ IsFiniteSet(Symbols)
    /\ FirstSymbols \subseteq Symbols
    /\ Bulk \subseteq Batches
    /\ MaxTime \in Nat \ {0}
    /\ Threshold \in Nat \ {0}
    /\ Lookback \in Nat \ {0}
    /\ Offered \subseteq Time
    /\ MaxFaults \in Nat

VARIABLES
    now,        \* the wall clock
    status,     \* symbols: unknown, active, inactive
    coverage,   \* coverage_end of each symbol, 0 for NULL
    bars,       \* market_bars of each symbol
    faults,     \* how often something went wrong
    pc,         \* where each batch is
    job         \* what each batch knows

db == <<status, coverage, bars>>
vars == <<now, status, coverage, bars, faults, pc, job>>

-----------------------------------------------------------------------------
\* What a batch knows.

\* out: what incremental_symbols puts into its results; run: the status of the
\* ingestion run of this turn; cause: what made the turn fail.
Pending == [out |-> "none", run |-> "none", cause |-> "none"]

NoJob ==
    [todo |-> {},                           \* symbols whose turn is to come
     at |-> 0,                              \* the symbol at hand
     since |-> 0,                           \* when the stale symbols were read
     seen |-> [s \in Symbols |-> 0],        \* coverage_end as loaded
     reread |-> FALSE,                      \* a rollback has expired the symbols
     start |-> 0, end |-> 0,                \* the range of the turn
     batch |-> {},                          \* bars returned by the provider
     staged |-> {},                         \* rows of the open transaction
     bounds |-> 0,                          \* last timestamp, as read by the sync
     aborted |-> FALSE,                     \* the transaction can only be rolled back
     unreadable |-> {},                     \* results whose run object is expired
     results |-> [s \in Symbols |-> Pending]]

Init ==
    /\ now = 1
    /\ status = [s \in Symbols |-> IF s \in FirstSymbols THEN "active" ELSE "unknown"]
    /\ coverage = [s \in Symbols |-> 0]
    /\ bars = [s \in Symbols |-> {}]
    /\ faults = 0
    /\ pc = [b \in Batches |-> "idle"]
    /\ job = [b \in Batches |-> NoJob]

Goto(b, label, locals) ==
    /\ pc' = [pc EXCEPT ![b] = label]
    /\ job' = [job EXCEPT ![b] = locals]

Leave(b) == Goto(b, "idle", NoJob)

\* Something goes wrong, which it does no more than MaxFaults times.
Fails ==
    /\ faults < MaxFaults
    /\ faults' = faults + 1

\* The result of a turn, and the end of its transaction.
Outcome(j, out, run, cause) ==
    [j EXCEPT !.results[j.at] = [out |-> out, run |-> run, cause |-> cause],
              !.at = 0, !.start = 0, !.end = 0, !.batch = {}, !.staged = {},
              !.bounds = 0, !.seen[j.at] = 0]

Succeeded(j) == {s \in Symbols : j.results[s].out = "ok"}

-----------------------------------------------------------------------------
\* The registry of symbols.

\* add_symbol; a duplicate violates the unique key inside a savepoint, answers
\* 409 and changes nothing.
AddSymbol(s) ==
    /\ status[s] = "unknown"
    /\ status' = [status EXCEPT ![s] = "active"]
    /\ UNCHANGED <<now, coverage, bars, faults, pc, job>>

Deactivate(s) ==
    /\ status[s] = "active"
    /\ status' = [status EXCEPT ![s] = "inactive"]
    /\ UNCHANGED <<now, coverage, bars, faults, pc, job>>

\* Mutant: a symbol that was never ingested is not stale.
StaleCovered ==
    {s \in Symbols : /\ status[s] = "active"
                     /\ coverage[s] # 0
                     /\ coverage[s] < now - Threshold}

Stale ==
    {s \in Symbols : /\ status[s] = "active"
                     /\ coverage[s] = 0 \/ coverage[s] < now - Threshold}

-----------------------------------------------------------------------------
\* One batch, symbol by symbol.

\* With no stale symbol the job returns and the endpoint answers at once.
Detect(b) ==
    /\ pc[b] = "idle"
    /\ Stale # {}
    /\ Goto(b, "next",
            [NoJob EXCEPT !.todo = Stale, !.since = now,
                          !.seen = [s \in Symbols |->
                                      IF s \in Stale THEN coverage[s] ELSE 0]])
    /\ UNCHANGED <<now, db, faults>>

\* The next symbol, in the order of the names, becomes the one at hand.
Turn(j) ==
    LET s == Min(j.todo)
        loaded == IF j.reread THEN coverage[s] ELSE j.seen[s]
    IN  [j EXCEPT !.todo = @ \ {s}, !.at = s, !.seen[s] = loaded,
                  !.start = IF loaded # 0 THEN loaded ELSE now - Lookback,
                  !.end = now]

TurnOf(b) == pc[b] = "next" /\ job[b].todo # {}

\* The run is created, marked running and committed.
Begin(b) ==
    LET j == Turn(job[b])
    IN  /\ TurnOf(b)
        /\ ~j.aborted
        /\ j.start < j.end
        /\ Goto(b, "fetch", [j EXCEPT !.results[j.at].run = "running"])
        /\ UNCHANGED <<now, db, faults>>

AlreadyCurrent(b) ==
    LET j == Turn(job[b])
    IN  /\ TurnOf(b)
        /\ ~j.aborted
        /\ j.start >= j.end
        /\ Goto(b, "next", Outcome(j, "ok", "succeeded", "none"))
        /\ UNCHANGED <<now, db, faults>>

\* get_symbol is the first statement of a turn: in an aborted transaction it
\* raises, and incremental_symbols goes on to the next symbol.
BeginPoisoned(b) ==
    LET j == Turn(job[b])
    IN  /\ TurnOf(b)
        /\ j.aborted
        /\ Goto(b, "next", Outcome(j, "error", "none", "session"))
        /\ UNCHANGED <<now, db, faults>>

\* A statement before the first commit raises, outside every handler.  A flush
\* that fails rolls back, which expires the objects of the session; a SELECT
\* that fails does not.
BeginFails(b) ==
    LET j == Turn(job[b])
    IN  /\ TurnOf(b)
        /\ ~j.aborted
        /\ Fails
        /\ \E flushing \in BOOLEAN :
              Goto(b, "next",
                   [Outcome(j, "error", "none", "begin") EXCEPT
                      !.aborted = TRUE,
                      !.unreadable = IF flushing THEN Succeeded(j) ELSE @])
        /\ UNCHANGED <<now, db>>

Fetch(b) ==
    LET j == job[b]
    IN  /\ pc[b] = "fetch"
        /\ Goto(b, "store", [j EXCEPT !.batch = Offered \cap (j.start .. j.end)])
        /\ UNCHANGED <<now, db, faults>>

\* Mutant: the rollback of the handler finds a transaction and expires objects.
FetchFailsExpiring(b) ==
    /\ pc[b] \in {"fetch", "store"}
    /\ Fails
    /\ Goto(b, "handle", [job[b] EXCEPT !.unreadable = Succeeded(job[b])])
    /\ UNCHANGED <<now, db>>

\* The provider gives up, or the pipeline raises before its first statement:
\* no transaction is open, and the rollback of the handler expires nothing.
FetchFails(b) ==
    /\ pc[b] \in {"fetch", "store"}
    /\ Fails
    /\ Goto(b, "handle", job[b])
    /\ UNCHANGED <<now, db>>

\* The handler marks the run failed, commits and raises.
Handle(b) ==
    /\ pc[b] = "handle"
    /\ Goto(b, "next", Outcome(job[b], "error", "failed", "provider"))
    /\ UNCHANGED <<now, db, faults>>

\* The handler fails too.  It is not counted: it takes a failure to get here.
HandleFails(b) ==
    LET j == job[b]
    IN  /\ pc[b] = "handle"
        /\ Goto(b, "next",
                [Outcome(j, "error", "running", "handler") EXCEPT
                   !.aborted = TRUE, !.unreadable = Succeeded(j)])
        /\ UNCHANGED <<now, db, faults>>

\* ON CONFLICT DO NOTHING waits for a transaction that inserted the same key.
Unblocked(b) ==
    \A c \in Batches \ {b} :
        job[c].at = job[b].at => job[c].staged \cap job[b].batch = {}

\* Raw row and bars, in a transaction that stays open until the success tail;
\* the coverage is synced only if a bar was new.
Store(b) ==
    LET j == job[b]
        new == j.batch \ bars[j.at]
    IN  /\ pc[b] = "store"
        /\ Unblocked(b)
        /\ Goto(b, IF new = {} THEN "close" ELSE "sync", [j EXCEPT !.staged = new])
        /\ UNCHANGED <<now, db, faults>>

\* Mutant: the handler does not roll back.
StoreFailsOpen(b) ==
    LET j == job[b]
    IN  /\ pc[b] = "store"
        /\ Fails
        /\ Goto(b, "next",
                [Outcome(j, "error", "running", "store") EXCEPT !.aborted = TRUE])
        /\ UNCHANGED <<now, db>>

\* A statement of the transaction raises.  The rollback expires every object
\* of the session, so that the handler's read of run.id raises in turn: the
\* run stays running, but the session has no transaction and can go on.
StoreFails(b) ==
    LET j == job[b]
    IN  /\ pc[b] = "store"
        /\ Fails
        /\ Goto(b, "next",
                [Outcome(j, "error", "running", "store") EXCEPT
                   !.reread = TRUE, !.unreadable = Succeeded(j)])
        /\ UNCHANGED <<now, db>>

\* Mutant: the coverage is said to reach the present.
SyncNow(b) ==
    /\ pc[b] = "sync"
    /\ Goto(b, "close", [job[b] EXCEPT !.bounds = now])
    /\ UNCHANGED <<now, db, faults>>

\* sync_symbol_coverage reads the bounds of the committed and its own bars.
Sync(b) ==
    LET j == job[b]
    IN  /\ pc[b] = "sync"
        /\ Goto(b, "close", [j EXCEPT !.bounds = Max(bars[j.at] \cup j.staged)])
        /\ UNCHANGED <<now, db, faults>>

\* Mutant: the result is reported before the commit, which a crash undoes.
CloseUncommitted(b) ==
    /\ pc[b] = "close"
    /\ Goto(b, "next", Outcome(job[b], "ok", "succeeded", "none"))
    /\ UNCHANGED <<now, db, faults>>

\* The coverage is written if it differs from the loaded value; the run is
\* marked succeeded; commit.
Close(b) ==
    LET j == job[b]
        dirty == j.staged # {} /\ j.bounds # j.seen[j.at]
    IN  /\ pc[b] = "close"
        /\ bars' = [bars EXCEPT ![j.at] = @ \cup j.staged]
        /\ coverage' = [coverage EXCEPT ![j.at] = IF dirty THEN j.bounds ELSE @]
        /\ Goto(b, "next", Outcome(j, "ok", "succeeded", "none"))
        /\ UNCHANGED <<now, status, faults>>

\* The success tail is outside the handlers: nobody rolls back.  It fails in
\* the SELECT of the sync or in one of its flushes, which expires the objects.
TailFails(b) ==
    LET j == job[b]
    IN  /\ pc[b] \in {"sync", "close"}
        /\ Fails
        /\ Goto(b, "next",
                [Outcome(j, "error", "running", "tail") EXCEPT
                   !.aborted = TRUE,
                   !.unreadable = IF pc[b] = "close" THEN Succeeded(j) ELSE @])
        /\ UNCHANGED <<now, db>>

\* The job is over, or the endpoint reads the run of every result into its
\* answer and raises when one is expired.  The session closes, and with it
\* whatever is left of its transaction.
Finish(b) ==
    /\ pc[b] = "next"
    /\ job[b].todo = {}
    /\ Leave(b)
    /\ UNCHANGED <<now, db, faults>>

-----------------------------------------------------------------------------
\* The process dies: the scheduler's job and the requests with it.
Crash ==
    /\ \E b \in Batches : pc[b] # "idle"
    /\ Fails
    /\ pc' = [b \in Batches |-> "idle"]
    /\ job' = [b \in Batches |-> NoJob]
    /\ UNCHANGED <<now, db>>

Tick ==
    /\ now < MaxTime
    /\ now' = now + 1
    /\ UNCHANGED <<db, faults, pc, job>>

\* Nothing is stale, or nobody calls.
Rest ==
    /\ \A b \in Batches : pc[b] = "idle"
    /\ UNCHANGED vars

\* What a batch does once it is called.
Work(b) ==
    \/ Begin(b)
    \/ AlreadyCurrent(b)
    \/ BeginPoisoned(b)
    \/ Fetch(b)
    \/ Handle(b)
    \/ Store(b)
    \/ Sync(b)
    \/ Close(b)
    \/ Finish(b)

Fault(b) ==
    \/ BeginFails(b)
    \/ FetchFails(b)
    \/ HandleFails(b)
    \/ StoreFails(b)
    \/ TailFails(b)

Next ==
    \/ \E s \in Symbols : AddSymbol(s) \/ Deactivate(s)
    \/ \E b \in Batches : Detect(b) \/ Work(b) \/ Fault(b)
    \/ Crash
    \/ Tick
    \/ Rest

Spec == Init /\ [][Next]_vars

\* The event loop runs every batch that can go on, and the scheduler fires
\* again and again; nobody has to call the endpoint.
FairSpec ==
    /\ Spec
    /\ \A b \in Batches : WF_vars(Work(b))
    /\ \A b \in Batches \ Bulk : WF_vars(Detect(b))

-----------------------------------------------------------------------------
\* Properties.

\* A symbol whose result is a run and not an exception is current: every bar
\* the provider had when the batch looked for stale symbols is stored, also
\* when its turn came late, started from a coverage loaded long before, and
\* another batch ingested the symbol meanwhile.
SucceededCurrent ==
    \A b \in Batches : \A s \in Succeeded(job[b]) :
        /\ job[b].results[s].run = "succeeded"
        /\ Offered \cap (1 .. job[b].since) \subseteq bars[s]

\* Every bar the provider had up to coverage_end is stored: later increments
\* start there and never look back.
CoverageHonest ==
    \A s \in Symbols : Offered \cap (1 .. coverage[s]) \subseteq bars[s]

\* "continuing after failures": a symbol fails for a reason of its own, or
\* because a failure outside the handlers left the session in an aborted
\* transaction.  Failures of the provider, and failures inside the handlers,
\* never reach the next symbol.
FailuresContained ==
    \A b \in Batches : \A s \in Symbols :
        job[b].results[s].cause = "session" =>
            \E r \in Symbols :
                r < s /\ job[b].results[r].cause \in {"begin", "handler", "tail"}

\* The summary of the bulk endpoint is lost only when a database failure came
\* after a symbol that succeeded: a provider that fails for some symbols costs
\* the caller nothing but those symbols.
SummaryDelivered ==
    \A b \in Bulk :
        job[b].unreadable # {} =>
            \E r, s \in Symbols :
                /\ r < s
                /\ job[b].results[r].out = "ok"
                /\ job[b].results[s].cause \in {"begin", "handler", "store", "tail"}

\* Once nothing goes wrong any more, the scheduler brings every symbol that
\* stays active up to the staleness threshold, whatever earlier batches left
\* behind: runs marked running, poisoned sessions, coverage that is NULL.
EventuallyCurrent ==
    \A s \in Symbols :
        <>[](status[s] = "active" =>
                Offered \cap (1 .. now - Threshold - 1) \subseteq bars[s])
=============================================================================
