----------------------------- MODULE Reprocess ------------------------------
(***************************************************************************)
(* reprocess_from_raw: the bars of a symbol are rebuilt from its raw rows, *)
(* by several callers at once and while ingestion goes on, with the locks  *)
(* PostgreSQL takes on the bars and the object store that holds the large  *)
(* payloads.                                                               *)
(*                                                                         *)
(* A call is one transaction of its caller, with a savepoint for each raw  *)
(* row.  bars, raw and cov are committed rows; a bar is named by the       *)
(* created_at of the payload it came from, 0 if there is none.  The run    *)
(* row is committed with the bars and nothing reads it back: it is in      *)
(* job[w].run.  What Ingestion says of a fetch in detail is an ingester    *)
(* here, with its upload and its inserts.                                  *)
(***************************************************************************)
EXTENDS Integers, FiniteSetsExt

CONSTANTS
    Callers,    \* sessions that call reprocess_from_raw
    Ingesters,  \* sessions that archive fetches
    Keys,       \* the bars of the symbol, by timestamp
    MaxCalls,   \* bound: calls of reprocess_from_raw
    MaxStamp,   \* bound: no fetch begins when the clock is there
    Payloads,   \* the bars a fetch may return
    FirstRaw    \* raw rows at the start, without bars yet

\* The clock stamps rows and names objects; 0 stands for none.
Stamps == Nat \ {0}
Workers == Callers \cup Ingesters

\* object: the key of the payload in the object store, 0 if it is inline.
RawRows == [created : Stamps, ts : SUBSET Keys, object : Nat]

ASSUME ReprocessAssumption ==
    /\ Keys \subseteq Nat \ {0}
    /\ IsFiniteSet(Keys)
    /\ Callers \cap Ingesters = {}
    /\ MaxCalls \in Nat
    /\ MaxStamp \in Nat
    /\ Payloads \subseteq SUBSET Keys
    /\ FirstRaw \subseteq RawRows
    /\ IsFiniteSet(FirstRaw)

VARIABLES
    calls,      \* calls of reprocess_from_raw so far
    clock,      \* the next stamp
    bars,       \* market_bars
    raw,        \* raw_market_data
    cov,        \* the last bar coverage_end says there is, 0 for NULL
    objects,    \* keys in the object store
    pc, job     \* where each worker is and what it knows

db == <<bars, raw, cov, objects>>
vars == <<calls, clock, bars, raw, cov, objects, pc, job>>

NoRow == [created |-> 0, ts |-> {}, object |-> 0]

NoRun == [status |-> "none", fetched |-> 0, inserted |-> 0, failed |-> 0,
              error |-> FALSE]

NoJob ==
    [selected |-> {}, todo |-> {},      \* raw rows of the call, and still to replay
     row |-> NoRow,                     \* the row at hand
     done |-> {},                       \* bars of it already written or found
     new |-> {},                        \* those an ingester inserted
     image |-> [t \in Keys |-> 0],      \* bars written by released savepoints
     inserted |-> 0, failed |-> 0,
     bounds |-> 0,                      \* coverage_end to write, 0 for none
     run |-> NoRun]

Init ==
    /\ calls = 0
    /\ clock = 1 + Max({0} \cup {r.created : r \in FirstRaw}
                           \cup {r.object : r \in FirstRaw})
    /\ bars = [t \in Keys |-> 0]
    /\ raw = FirstRaw
    /\ cov = 0
    /\ objects = {r.object : r \in FirstRaw} \ {0}
    /\ pc = [w \in Workers |-> "idle"]
    /\ job = [w \in Workers |-> NoJob]

Goto(w, label, locals) ==
    /\ pc' = [pc EXCEPT ![w] = label]
    /\ job' = [job EXCEPT ![w] = locals]

Leave(w) == Goto(w, "idle", NoJob)

\* The bars there are once the transaction of a call is committed.
Image(j) == [t \in Keys |-> IF j.image[t] # 0 THEN j.image[t] ELSE bars[t]]

LastBar(stored) == Max({0} \cup {t \in Keys : stored[t] # 0})

-----------------------------------------------------------------------------
\* Row locks: a bar a transaction has written stays locked until it ends or
\* rolls back to a savepoint before the write.

Held(w) ==
    LET j == job[w]
    IN  {t \in Keys : j.image[t] # 0}
        \cup (IF w \in Callers THEN j.done ELSE j.new)

\* Bars are written one by one, in the order of the payload.
NextKey(w) == Min(job[w].row.ts \ job[w].done)

Writing(w) == pc[w] = "write" /\ job[w].row.ts # job[w].done

WaitsFor(v, w) == v # w /\ Writing(v) /\ NextKey(v) \in Held(w)

\* Some transactions wait for each other in a circle that w is on.
Deadlocked(w) ==
    \E circle \in SUBSET Workers :
        /\ w \in circle
        /\ \A v \in circle : /\ \E u \in circle : WaitsFor(v, u)
                             /\ \E u \in circle : WaitsFor(u, v)

-----------------------------------------------------------------------------
\* reprocess_from_raw.

\* The filters on run and creation time select any rows; with none, the call
\* raises before it creates a run.
Call(w) ==
    /\ pc[w] = "idle"
    /\ calls < MaxCalls
    /\ calls' = calls + 1
    /\ \E rows \in SUBSET raw \ {{}} :
          Goto(w, "replay", [NoJob EXCEPT !.selected = rows, !.todo = rows])
    /\ UNCHANGED <<clock, db>>

\* Mutant: rows are replayed newest first.
NextRowNewest(j) == CHOOSE r \in j.todo : \A q \in j.todo : q.created <= r.created

\* order_by(created_at, id)
NextRow(j) == CHOOSE r \in j.todo : \A q \in j.todo : r.created <= q.created

LoadPayload(w) ==
    LET j == job[w]
    IN  /\ pc[w] = "replay"
        /\ j.todo # {}
        /\ NextRow(j).object \in objects \cup {0}
        /\ Goto(w, "write", [j EXCEPT !.row = NextRow(j), !.todo = @ \ {NextRow(j)}])
        /\ UNCHANGED <<calls, clock, db>>

\* Mutant: the handler does not go on with the next row.
LoadFailsGoingOn(w) ==
    LET j == job[w]
    IN  /\ pc[w] = "replay"
        /\ j.todo # {}
        /\ NextRow(j).object # 0
        /\ Goto(w, "write", [j EXCEPT !.row = NextRow(j), !.todo = @ \ {NextRow(j)},
                                      !.failed = @ + 1])
        /\ UNCHANGED <<calls, clock, db>>

\* The object is gone, or the store fails: the row is counted and left out.
LoadFails(w) ==
    LET j == job[w]
    IN  /\ pc[w] = "replay"
        /\ j.todo # {}
        /\ NextRow(j).object # 0
        /\ Goto(w, "replay", [j EXCEPT !.todo = @ \ {NextRow(j)}, !.failed = @ + 1])
        /\ UNCHANGED <<calls, clock, db>>

\* ON CONFLICT DO UPDATE waits for the transaction that holds the bar.
Upsert(w) ==
    /\ w \in Callers
    /\ Writing(w)
    /\ \A v \in Workers : ~WaitsFor(w, v)
    /\ Goto(w, "write", [job[w] EXCEPT !.done = @ \cup {NextKey(w)}])
    /\ UNCHANGED <<calls, clock, db>>

\* The savepoint is released.
RowDone(w) ==
    LET j == job[w]
    IN  /\ w \in Callers
        /\ pc[w] = "write"
        /\ j.row.ts = j.done
        /\ Goto(w, "replay",
                [j EXCEPT !.image = [t \in Keys |-> IF t \in j.done THEN j.row.created
                                                    ELSE @[t]],
                          !.inserted = @ + Cardinality(j.row.ts),
                          !.row = NoRow, !.done = {}])
        /\ UNCHANGED <<calls, clock, db>>

\* Mutant: no savepoint, the bars written before the failure stay.
AbandonRowKeeping(w) ==
    LET j == job[w]
    IN  Goto(w, "replay",
             [j EXCEPT !.image = [t \in Keys |-> IF t \in j.done THEN j.row.created
                                                 ELSE @[t]],
                       !.row = NoRow, !.done = {}, !.failed = @ + 1])

\* Mutant: the row is tried again.
AbandonRowRetrying(w) ==
    LET j == job[w]
    IN  Goto(w, "replay", [j EXCEPT !.todo = @ \cup {j.row}, !.row = NoRow,
                                    !.done = {}])

\* Back to the savepoint of the row, which frees its bars; the row is counted.
AbandonRow(w) ==
    Goto(w, "replay", [job[w] EXCEPT !.row = NoRow, !.done = {}, !.failed = @ + 1])

\* normalize, validate or a statement raises.
RowFails(w) ==
    /\ w \in Callers
    /\ pc[w] = "write"
    /\ AbandonRow(w)
    /\ UNCHANGED <<calls, clock, db>>

\* PostgreSQL ends a circle of waits by failing the statement of one of them.
Victim(w) ==
    /\ Deadlocked(w)
    /\ IF w \in Callers THEN AbandonRow(w) ELSE Leave(w)
    /\ UNCHANGED <<calls, clock, db>>

\* The status of a run, and whether it has an error_message.
Status(j) ==
    [status |-> IF j.inserted = 0 /\ j.failed > 0 THEN "failed" ELSE "succeeded",
     fetched |-> Cardinality(j.selected), inserted |-> j.inserted,
     failed |-> j.failed, error |-> j.failed > 0]

\* Mutant: the coverage is taken from the selected payloads.
BoundsSelected(j) == Max({0} \cup UNION {r.ts : r \in j.selected})

\* get_timestamp_bounds sees the committed bars and those of its transaction.
BoundsOf(j) == LastBar(Image(j))

\* The coverage the sync writes: nothing if it is what the symbol has.
Synced(j) == IF BoundsOf(j) # cov THEN BoundsOf(j) ELSE 0

\* The coverage is synced only if a bar was written.
Sync(w) ==
    LET j == job[w]
    IN  /\ pc[w] = "replay"
        /\ j.todo = {}
        /\ Goto(w, "commit",
                [j EXCEPT !.run = Status(j),
                          !.bounds = IF j.inserted > 0 THEN Synced(j) ELSE 0])
        /\ UNCHANGED <<calls, clock, db>>

\* The final updates raise something that is no database error, before or
\* after the sync: the run is marked failed and the bars stay.
FinalizeRaises(w) ==
    LET j == job[w]
    IN  /\ pc[w] = "replay"
        /\ j.todo = {}
        /\ \E synced \in {j.inserted > 0, FALSE} :
              Goto(w, "commit",
                   [j EXCEPT !.run = [Status(j) EXCEPT !.status = "failed",
                                                       !.error = TRUE],
                             !.bounds = IF synced THEN Synced(j) ELSE 0])
        /\ UNCHANGED <<calls, clock, db>>

\* The caller commits.
Commit(w) ==
    LET j == job[w]
    IN  /\ w \in Callers
        /\ pc[w] = "commit"
        /\ bars' = Image(j)
        /\ cov' = IF j.bounds # 0 THEN j.bounds ELSE cov
        /\ Leave(w)
        /\ UNCHANGED <<calls, clock, raw, objects>>

-----------------------------------------------------------------------------
\* One fetch: persist_raw_fetch and the inserts of its caller.

Fetch(i) ==
    /\ pc[i] = "idle"
    /\ clock < MaxStamp
    /\ \E ts \in Payloads, large \in BOOLEAN :
          Goto(i, IF large THEN "upload" ELSE "archive", [NoJob EXCEPT !.row.ts = ts])
    /\ UNCHANGED <<calls, clock, db>>

\* Mutant: the row is given its key without waiting for the upload.
PutObjectAsync(i) ==
    /\ pc[i] = "upload"
    /\ Goto(i, "archive", [job[i] EXCEPT !.row.object = clock])
    /\ clock' = clock + 1
    /\ UNCHANGED <<calls, db>>

\* The payload is put under a fresh key before the transaction begins.
PutObject(i) ==
    /\ pc[i] = "upload"
    /\ objects' = objects \cup {clock}
    /\ Goto(i, "archive", [job[i] EXCEPT !.row.object = clock])
    /\ clock' = clock + 1
    /\ UNCHANGED <<calls, bars, raw, cov>>

\* ObjectStoreError: the payload is stored inline.
PutFails(i) ==
    /\ pc[i] = "upload"
    /\ Goto(i, "archive", job[i])
    /\ UNCHANGED <<calls, clock, db>>

\* The raw row is inserted; its created_at is the start of the transaction.
CreateRaw(i) ==
    /\ pc[i] = "archive"
    /\ Goto(i, "write", [job[i] EXCEPT !.row.created = clock])
    /\ clock' = clock + 1
    /\ UNCHANGED <<calls, db>>

\* ON CONFLICT DO NOTHING waits too, and inserts the bar if there is none.
Insert(i) ==
    LET t == NextKey(i)
    IN  /\ i \in Ingesters
        /\ Writing(i)
        /\ \A v \in Workers : ~WaitsFor(i, v)
        /\ Goto(i, "write",
                [job[i] EXCEPT !.done = @ \cup {t},
                               !.new = IF bars[t] = 0 THEN @ \cup {t} ELSE @])
        /\ UNCHANGED <<calls, clock, db>>

\* Bars, raw row and coverage.
CommitFetch(i) ==
    LET j == job[i]
        stored == [t \in Keys |-> IF t \in j.new THEN j.row.created ELSE bars[t]]
    IN  /\ i \in Ingesters
        /\ pc[i] = "write"
        /\ j.row.ts = j.done
        /\ raw' = raw \cup {j.row}
        /\ bars' = stored
        /\ cov' = IF j.new # {} THEN LastBar(stored) ELSE cov
        /\ Leave(i)
        /\ UNCHANGED <<calls, clock, objects>>

-----------------------------------------------------------------------------
\* A statement outside the savepoints fails and aborts the transaction, in
\* which the handler of the final updates fails too, or the process dies: the
\* session rolls everything back.  An object that was put stays.
Rollback(w) ==
    /\ pc[w] # "idle"
    /\ Leave(w)
    /\ UNCHANGED <<calls, clock, db>>

Rest ==
    /\ \A w \in Workers : pc[w] = "idle"
    /\ UNCHANGED vars

Work(w) ==
    \/ LoadPayload(w)
    \/ LoadFails(w)
    \/ Upsert(w)
    \/ RowDone(w)
    \/ Victim(w)
    \/ Sync(w)
    \/ Commit(w)
    \/ PutObject(w)
    \/ PutFails(w)
    \/ CreateRaw(w)
    \/ Insert(w)
    \/ CommitFetch(w)

Next ==
    \/ \E w \in Callers : Call(w) \/ RowFails(w) \/ FinalizeRaises(w)
    \/ \E i \in Ingesters : Fetch(i)
    \/ \E w \in Workers : Work(w) \/ Rollback(w)
    \/ Rest

Spec == Init /\ [][Next]_vars

\* The event loop runs every call that can go on, and PostgreSQL wakes a
\* statement whose bar is free.
FairSpec == Spec /\ \A w \in Workers : WF_vars(Work(w))

-----------------------------------------------------------------------------
\* Properties.

RunRows == [status : {"none", "succeeded", "failed"}, fetched : Nat,
             inserted : Nat, failed : Nat, error : BOOLEAN]

\* What a worker may know when the given raw rows are committed.
Jobs(rows) ==
        [selected : SUBSET rows, todo : SUBSET rows,
         row : [created : Nat, ts : SUBSET Keys, object : Nat],
         done : SUBSET Keys, new : SUBSET Keys, image : [Keys -> Nat],
         inserted : Nat, failed : Nat, bounds : Keys \cup {0}, run : RunRows]

\* Every variable has its type; the counters of a call account for every row
\* it has dealt with, so that no row is counted twice.
TypeOK ==
    /\ calls \in 0 .. MaxCalls
    /\ clock \in Stamps
    /\ bars \in [Keys -> Nat]
    /\ raw \subseteq RawRows
    /\ cov \in Keys \cup {0}
    /\ objects \subseteq Stamps
    /\ pc \in [Workers -> {"idle", "replay", "write", "commit", "upload", "archive"}]
    /\ job \in [Workers -> Jobs(raw)]
    /\ \A w \in Callers :
          LET j == job[w]
              open == j.todo \cup (IF pc[w] = "write" THEN {j.row} ELSE {})
          IN  /\ pc[w] \in {"idle", "replay", "write", "commit"}
              /\ open \subseteq j.selected
              /\ j.failed + Cardinality(open) <= Cardinality(j.selected)
    /\ \A i \in Ingesters : pc[i] \in {"idle", "upload", "archive", "write"}

\* Seen from outside the open transactions, bars and raw rows behave as
\* BarHistory says: ingestion only adds, and a replay is atomic, by whole
\* payloads, the one archived last winning, although calls write bar by bar,
\* lose rows to failures and deadlocks, and other calls commit in between.
Archived(rows) == {[created |-> r.created, ts |-> r.ts] : r \in rows}

History == INSTANCE BarHistory WITH raw <- Archived(raw),
                                    FirstRaw <- Archived(FirstRaw)
ImplementsHistory == History!Spec

\* coverage_end is a stored bar, also when the payload that has it fails.
CoverageStored == cov # 0 => bars[cov] # 0

\* A raw row that is durable can be replayed: its payload is inline, or the
\* object it names was put before.
PayloadsReachable == \A r \in raw : r.object \in objects \cup {0}

\* A run says what it did: with no error, every selected payload is replayed
\* and each of its bars is that of the last selected payload that has it; with
\* nothing inserted, no bar is written.
RunTellsTruth ==
    \A w \in Callers :
        LET j == job[w]
            last == [t \in Keys |-> Max({0} \cup {r.created : r \in {q \in j.selected :
                                                              t \in q.ts}})]
        IN  pc[w] = "commit" =>
               /\ ~j.run.error => j.image = last
               /\ j.run.inserted = 0 => j.image = NoJob.image

\* Every call and every fetch comes to an end, although they wait for each
\* other's bars, in any order their payloads have.
CallsEnd == \A w \in Workers : pc[w] # "idle" ~> pc[w] = "idle"
=============================================================================
