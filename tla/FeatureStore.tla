---------------------------- MODULE FeatureStore ----------------------------
(***************************************************************************)
(* Feature definitions and feature values: processes that seed the         *)
(* definitions as they start and then serve POST /features/compute, while  *)
(* the bars change under them.                                             *)
(*                                                                         *)
(* definitions and values are committed rows.  A request is one            *)
(* transaction with a savepoint for each symbol; its answer is sent before *)
(* the session of the request commits.  PostgreSQL keeps a row locked from *)
(* the moment a transaction writes it.                                     *)
(***************************************************************************)
EXTENDS FeatureSeries, SequencesExt

CONSTANTS
    Processes,      \* servers, each with one request at a time
    Symbols,
    MaxTime,        \* bars have timestamps 1 .. MaxTime
    Cells,          \* what a price or a volume may be; None: there is no bar
    None,
    FirstBars,      \* market_bars at the start
    Registry,       \* the features the code has, by name
    File,           \* for each process, the entries of its definitions file
    Requests,       \* the requests to compute features
    Changes,        \* the changes that ingestion and replays may make to bars
    MaxCalls,       \* bound: requests
    MaxStarts,      \* bound: startups
    MaxChanges,     \* bound: changes of bars
    MaxRows         \* bound: rows of the frames the features are checked on

Times == 1 .. MaxTime
Names == DOMAIN Registry

ASSUME FeatureStoreAssumption ==
    /\ MaxTime \in Nat
    /\ None \notin Cells /\ Cells \subseteq Int
    /\ \A name \in Names :
          Registry[name] \in
             [kind : {"sma", "volume", "spike", "return", "volatility", "rsi",
                      "cumulative"},
              n : Nat \ {0}]
    /\ FirstBars \in [Symbols -> [Times -> Cells \cup {None}]]
    /\ \A p \in Processes :
          File[p] \in Seq([name : Names, lookback : Nat])
    /\ \A r \in Requests : /\ r.symbols \in Seq(Symbols)
                           /\ IsInjective(r.symbols)   \* dedupe_symbols
                           /\ r.features \in Seq(Names)
                           /\ {r.start, r.end} \subseteq Times
    /\ Changes \subseteq [symbol : Symbols, time : Times, cell : Cells]
    /\ MaxCalls \in Nat
    /\ MaxStarts \in Nat
    /\ MaxChanges \in Nat
    /\ MaxRows \in Nat

VARIABLES
    bars,           \* market_bars of each symbol
    changes,        \* how often they changed
    definitions,    \* feature_definitions: name to lookback_window
    values,         \* feature_values: (symbol, name, timestamp) to value
    calls, starts,  \* requests and startups so far
    pc, job         \* where each process is and what it knows

db == <<bars, changes, definitions, values>>
counts == <<calls, starts>>
vars == <<bars, changes, definitions, values, calls, starts, pc, job>>

Keys == Symbols \X Names \X Times

\* A table without rows, and a table after some of its rows were written.
Empty == [k \in {} |-> NaN]
Written(table, rows) ==
    [k \in DOMAIN table \cup DOMAIN rows |->
        IF k \in DOMAIN rows THEN rows[k] ELSE table[k]]

NoRequest == [symbols |-> <<>>, features |-> <<>>, start |-> 0, end |-> 0]

NoJob ==
    [entries |-> <<>>,          \* entries of the file still to seed
     seeded |-> Empty,          \* definitions its transaction inserted
     request |-> NoRequest,
     todo |-> <<>>,             \* symbols still to compute
     rows |-> <<>>,             \* blocks of rows of the symbol still to upsert
     staged |-> Empty,          \* rows written since the savepoint
     image |-> Empty,           \* rows of released savepoints
     frames |-> Empty,          \* the bars it read, by symbol
     computed |-> {}, failed |-> {}]

Init ==
    /\ bars = FirstBars
    /\ changes = 0
    /\ definitions = Empty
    /\ values = Empty
    /\ calls = 0
    /\ starts = 0
    /\ pc = [p \in Processes |-> "down"]
    /\ job = [p \in Processes |-> NoJob]

Goto(p, label, locals) ==
    /\ pc' = [pc EXCEPT ![p] = label]
    /\ job' = [job EXCEPT ![p] = locals]

-----------------------------------------------------------------------------
\* Locks.

Held(p) == {<<name>> : name \in DOMAIN job[p].seeded}
           \cup DOMAIN job[p].image \cup DOMAIN job[p].staged

\* What the statement a process is about to execute writes.
Wanted(p) ==
    IF pc[p] = "insert" THEN {<<Head(job[p].entries).name>>}
    ELSE IF pc[p] = "upsert" /\ job[p].rows # <<>> THEN DOMAIN Head(job[p].rows)
    ELSE {}

WaitsFor(p, q) == p # q /\ Wanted(p) \cap Held(q) # {}

Waits(p) == \E q \in Processes : WaitsFor(p, q)

\* A circle of processes that wait for each other.
Deadlocked(p) ==
    \E circle \in SUBSET Processes :
        /\ p \in circle
        /\ \A q \in circle : /\ \E r \in circle : WaitsFor(q, r)
                             /\ \E r \in circle : WaitsFor(r, q)

-----------------------------------------------------------------------------
\* The process starts: seed_feature_definitions, in one transaction.

Start(p) ==
    /\ pc[p] = "down"
    /\ starts < MaxStarts
    /\ starts' = starts + 1
    /\ Goto(p, "seed", [NoJob EXCEPT !.entries = File[p]])
    /\ UNCHANGED <<db, calls>>

NextEntry(j) == [j EXCEPT !.entries = Tail(@)]

\* get_by_name_and_version sees committed definitions and its own.
LookUp(p) ==
    LET j == job[p]
        known == DOMAIN definitions \cup DOMAIN j.seeded
    IN  /\ pc[p] = "seed"
        /\ j.entries # <<>>
        /\ IF Head(j.entries).name \in known
           THEN Goto(p, "seed", NextEntry(j))
           ELSE Goto(p, "insert", j)
        /\ UNCHANGED <<db, counts>>

\* Mutant: a definition another process is about to commit is skipped.
InsertSkipping(p) ==
    LET j == job[p]
        entry == Head(j.entries)
    IN  /\ pc[p] = "insert"
        /\ IF entry.name \in DOMAIN definitions \/ Waits(p)
           THEN Goto(p, "seed", NextEntry(j))
           ELSE Goto(p, "seed",
                     [NextEntry(j) EXCEPT
                        !.seeded = Written(@, [n \in {entry.name} |-> entry.lookback])])
        /\ UNCHANGED <<db, counts>>

\* Mutant: the insert overwrites the definition that won.
InsertReplacing(p) ==
    LET j == job[p]
        entry == Head(j.entries)
    IN  /\ pc[p] = "insert"
        /\ ~Waits(p)
        /\ Goto(p, "seed",
                [NextEntry(j) EXCEPT
                   !.seeded = Written(@, [n \in {entry.name} |-> entry.lookback])])
        /\ UNCHANGED <<db, counts>>

\* The insert waits for another that has the same name and version.  If that
\* one was committed the unique key raises IntegrityError, which undoes the
\* savepoint and skips the entry.
Insert(p) ==
    LET j == job[p]
        entry == Head(j.entries)
    IN  /\ pc[p] = "insert"
        /\ ~Waits(p)
        /\ IF entry.name \in DOMAIN definitions
           THEN Goto(p, "seed", NextEntry(j))
           ELSE Goto(p, "seed",
                     [NextEntry(j) EXCEPT
                        !.seeded = Written(@, [n \in {entry.name} |-> entry.lookback])])
        /\ UNCHANGED <<db, counts>>

\* The transaction commits, and the process serves requests.
Seeded(p) ==
    /\ pc[p] = "seed"
    /\ job[p].entries = <<>>
    /\ definitions' = Written(definitions, job[p].seeded)
    /\ Goto(p, "serve", NoJob)
    /\ UNCHANGED <<bars, changes, values, counts>>

-----------------------------------------------------------------------------
\* POST /features/compute.

Request(p) ==
    /\ pc[p] = "serve"
    /\ calls < MaxCalls
    /\ calls' = calls + 1
    /\ \E r \in Requests :
          Goto(p, "symbol", [NoJob EXCEPT !.request = r, !.todo = r.symbols])
    /\ UNCHANGED <<db, starts>>

\* list_by_symbol up to the end of the request.
BarsUntil(b, end) == [t \in Times |-> IF t <= end THEN b[t] ELSE None]

\* The frame has a row for each bar, oldest first: windows count bars, not days.
Frame(b) == SelectSeq([t \in Times |-> b[t]], LAMBDA cell : cell # None)

RowOf(b, t) == Cardinality({x \in 1 .. t : b[x] # None})

\* The values of each feature by timestamp, for all bars there may be.
Series ==
    [name \in Names |-> [b \in [Times -> Cells \cup {None}] |->
        LET series == Compute(Registry[name], Frame(b))
        IN  [t \in Times |-> IF b[t] = None THEN NaN ELSE series[RowOf(b, t)]]]]

\* _finite_rows: the rows of one feature, within the range.
Block(s, name, b, r) ==
    LET series == Series[name][BarsUntil(b, r.end)]
    IN  [k \in {<<s, name, t>> : t \in {x \in r.start .. r.end : series[x] # NaN}} |->
            series[k[3]]]

Usable(name) == name \in DOMAIN definitions
                /\ definitions[name] = Lookback(Registry[name])

SymbolDone(j) ==
    [j EXCEPT !.todo = Tail(@), !.computed = @ \cup {Head(j.todo)},
              !.image = Written(@, j.staged), !.staged = Empty]

\* Mutant: no savepoint, the rows written before the failure stay.
SymbolFailedKeeping(j) ==
    [j EXCEPT !.todo = Tail(@), !.failed = @ \cup {Head(j.todo)}, !.rows = <<>>,
              !.image = Written(@, j.staged), !.staged = Empty]

\* Back to the savepoint of the symbol.
SymbolFailed(j) ==
    [j EXCEPT !.todo = Tail(@), !.failed = @ \cup {Head(j.todo)}, !.rows = <<>>,
              !.staged = Empty]

\* The bars are read in one statement; without any, nothing is computed, and
\* no definition is looked up.
ReadBars(p) ==
    LET j == job[p]
        s == Head(j.todo)
        b == bars[s]
        r == j.request
    IN  /\ pc[p] = "symbol"
        /\ j.todo # <<>>
        /\ \/ /\ Frame(BarsUntil(b, r.end)) = <<>>
              /\ Goto(p, "symbol", SymbolDone(j))
           \/ /\ Frame(BarsUntil(b, r.end)) # <<>>
              /\ \E name \in Range(r.features) : ~Usable(name)
              /\ Goto(p, "symbol", SymbolFailed(j))
           \/ /\ Frame(BarsUntil(b, r.end)) # <<>>
              /\ \A name \in Range(r.features) : Usable(name)
              /\ Goto(p, "upsert",
                      [j EXCEPT !.frames = Written(@, [x \in {s} |-> b]),
                                !.rows = [i \in DOMAIN r.features |->
                                             Block(s, r.features[i], b, r)]])
        /\ UNCHANGED <<db, counts>>

\* Mutant: a value that is stored is not overwritten.
UpsertMissing(p) ==
    LET j == job[p]
        new == DOMAIN Head(j.rows) \ DOMAIN values
    IN  /\ pc[p] = "upsert"
        /\ j.rows # <<>>
        /\ ~Waits(p)
        /\ Goto(p, "upsert",
                [j EXCEPT !.staged = Written(@, [k \in new |-> Head(j.rows)[k]]),
                          !.rows = Tail(@)])
        /\ UNCHANGED <<db, counts>>

\* upsert_many writes the rows feature by feature, each in the order of time.
Upsert(p) ==
    LET j == job[p]
    IN  /\ pc[p] = "upsert"
        /\ j.rows # <<>>
        /\ ~Waits(p)
        /\ Goto(p, "upsert", [j EXCEPT !.staged = Written(@, Head(j.rows)),
                                       !.rows = Tail(@)])
        /\ UNCHANGED <<db, counts>>

ReleaseSymbol(p) ==
    /\ pc[p] = "upsert"
    /\ job[p].rows = <<>>
    /\ Goto(p, "symbol", SymbolDone(job[p]))
    /\ UNCHANGED <<db, counts>>

\* The symbol or its bars cannot be read, a computation or a statement raises.
FailSymbol(p) ==
    /\ \/ pc[p] = "upsert"
       \/ pc[p] = "symbol" /\ job[p].todo # <<>>
    /\ Goto(p, "symbol", SymbolFailed(job[p]))
    /\ UNCHANGED <<db, counts>>

\* Mutant: a process whose startup lost waits for somebody to help.
VictimRetries(p) ==
    /\ Deadlocked(p)
    /\ UNCHANGED vars

\* PostgreSQL fails the statement of one process of a circle: its symbol, or
\* its startup, where the exception is no IntegrityError.
Victim(p) ==
    /\ Deadlocked(p)
    /\ IF pc[p] = "upsert" THEN Goto(p, "symbol", SymbolFailed(job[p]))
       ELSE Goto(p, "down", NoJob)
    /\ UNCHANGED <<db, counts>>

\* The answer is sent; the session commits afterwards.
Answer(p) ==
    /\ pc[p] = "symbol"
    /\ job[p].todo = <<>>
    /\ Goto(p, "answered", job[p])
    /\ UNCHANGED <<db, counts>>

Commit(p) ==
    /\ pc[p] = "answered"
    /\ values' = Written(values, job[p].image)
    /\ Goto(p, "serve", NoJob)
    /\ UNCHANGED <<bars, changes, definitions, counts>>

-----------------------------------------------------------------------------
\* The request raises outside the savepoints, or its commit fails.
Abort(p) ==
    /\ pc[p] \in {"symbol", "upsert", "answered"}
    /\ Goto(p, "serve", NoJob)
    /\ UNCHANGED <<db, counts>>

Crash(p) ==
    /\ pc[p] # "down"
    /\ Goto(p, "down", NoJob)
    /\ UNCHANGED <<db, counts>>

\* Ingestion adds a bar, or a replay changes one.
ChangeBar ==
    /\ changes < MaxChanges
    /\ changes' = changes + 1
    /\ \E c \in Changes : bars' = [bars EXCEPT ![c.symbol][c.time] = c.cell]
    /\ UNCHANGED <<definitions, values, counts, pc, job>>

Rest ==
    /\ \A p \in Processes : pc[p] \in {"serve", "down"}
    /\ UNCHANGED vars

Work(p) ==
    \/ LookUp(p)
    \/ Insert(p)
    \/ Seeded(p)
    \/ ReadBars(p)
    \/ Upsert(p)
    \/ ReleaseSymbol(p)
    \/ Victim(p)
    \/ Answer(p)
    \/ Commit(p)

Next ==
    \/ \E p \in Processes :
          \/ Start(p)
          \/ Work(p)
          \/ Request(p)
          \/ FailSymbol(p)
          \/ Abort(p)
          \/ Crash(p)
    \/ ChangeBar
    \/ Rest

Spec == Init /\ [][Next]_vars

\* The event loop goes on with every request, and PostgreSQL with every
\* statement that does not wait.
FairSpec == Spec /\ \A p \in Processes : WF_vars(Work(p))

-----------------------------------------------------------------------------
\* Properties.

\* A process that serves has every definition of its file in the database,
\* although it skips those another process is inserting, and that process may
\* die instead of committing.
SeededServes ==
    \A p \in Processes :
        pc[p] \in {"serve", "symbol", "upsert", "answered"} =>
            \A i \in DOMAIN File[p] : File[p][i].name \in DOMAIN definitions

\* Every stored value has a definition with the lookback window of the code
\* that computed it: the definition is checked before the computation, and no
\* process that starts later with another file changes it.
ValuesUsable == \A k \in DOMAIN values : Usable(k[2])

ValueAt(table, k) == IF k \in DOMAIN table THEN table[k] ELSE NaN

\* A request touches nothing but what its answer says: the values of the
\* features it names, in its range, of the symbols in "computed".  A symbol in
\* "failed" keeps its values, also when the failure came after some of them
\* were written.
AnswerTrue ==
    [][\A p \in Processes :
          pc[p] = "answered" /\ pc'[p] = "serve" =>
             LET r == job[p].request IN
             \A k \in Keys :
                \/ /\ k[1] \in job[p].computed
                   /\ k[2] \in Range(r.features)
                   /\ k[3] \in r.start .. r.end
                \/ ValueAt(values', k) = ValueAt(values, k)]_vars

\* A request that commits leaves, for the symbols in "computed", the values of
\* the bars as they are, whatever was stored and whatever other requests wrote
\* meanwhile; unless the bars changed after it read them, or the value is
\* undefined.
RecomputeRefreshes ==
    [][\A p \in Processes :
          Commit(p) =>
             LET r == job[p].request IN
             \A s \in job[p].computed, name \in Range(r.features), t \in r.start .. r.end :
                LET series == Series[name][BarsUntil(bars[s], r.end)]
                IN  /\ s \in DOMAIN job[p].frames
                    /\ job[p].frames[s] = bars[s]
                    /\ series[t] # NaN
                    => ValueAt(values', <<s, name, t>>) = series[t]]_vars

\* All frames, of which a state has a few: the next three properties are about
\* the features alone, and are evaluated before anything starts.
Frames == BoundedSeq(Cells, MaxRows)

\* lookback_window is the number of bars a feature needs, whatever the bars:
\* before, there is no value for the mask to remove, and from then on there is
\* one, if prices are valid and move.
LookbackExact ==
    starts = 0 =>
        \A name \in Names, frame \in Frames :
            LET lookback == Lookback(Registry[name])
                raw == Raw(Registry[name], frame)
                lively == /\ \A i \in DOMAIN frame : frame[i] > 0
                          /\ \A i \in 1 .. Len(frame) - 1 : frame[i] # frame[i + 1]
            IN  \A i \in DOMAIN frame : /\ raw[i] # NaN => i >= lookback
                                        /\ lively /\ i >= lookback => raw[i] # NaN

\* A value depends on no bar after its own: values that are stored stay right
\* when bars are added at the end.
NoLookAhead ==
    starts = 0 =>
        \A name \in Names, frame \in Frames :
            LET series == Compute(Registry[name], frame)
            IN  \A i \in DOMAIN frame :
                   Compute(Registry[name], SubSeq(frame, 1, i)) = SubSeq(series, 1, i)

\* "Bad prices reset smoothing": an RSI depends on nothing before the last bad
\* price, as if the bars had begun after it.
BadPricesReset ==
    starts = 0 =>
        \A name \in {n \in Names : Registry[n].kind = "rsi"}, frame \in Frames :
            LET index(prices) == Compute(Registry[name], prices)
            IN  \A i \in DOMAIN frame :
                   LET bad == Max({0} \cup {k \in 1 .. i : frame[k] <= 0})
                   IN  index(frame)[i] = IF bad = i THEN NaN
                                         ELSE index(SubSeq(frame, bad + 1, i))[i - bad]

\* Every startup and every request comes to an end, although they wait for each
\* other's rows, in any order of features and symbols.
RequestsEnd ==
    \A p \in Processes : pc[p] \notin {"serve", "down"} ~> pc[p] \in {"serve", "down"}
=============================================================================
